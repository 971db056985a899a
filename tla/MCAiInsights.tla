----------------------------- MODULE MCAiInsights -----------------------------
(* Two requests about one customer, who may be served from each other's     *)
(* stored insights; the nightly build may come between any two of their     *)
(* steps.                                                                   *)
EXTENDS AiInsights, TLC

CONSTANTS r1, r2

Ask(many, caps, forced) == [many |-> many, caps |-> caps, forced |-> forced, question |-> FALSE]
Listed == Ask(TRUE, <<"NOVEL", "NEXT_BEST_ACTION">>, FALSE)
Summary == Ask(FALSE, <<"SUMMARY">>, TRUE)
Recommend == Ask(FALSE, <<"NEXT_BEST_ACTION">>, FALSE)
Policy == [Ask(FALSE, <<"GROUNDED_QA">>, FALSE) EXCEPT !.question = TRUE]
NoQuestion == [Policy EXCEPT !.question = FALSE]
MCWants == r1 :> {Listed, Summary, Policy, NoQuestion} @@ r2 :> {Recommend}

Recent == [days |-> "30", numbers |-> {"40"}, trend |-> TRUE, band |-> "HIGH",
           openCases |-> FALSE, enrolled |-> TRUE, injected |-> FALSE, row |-> TRUE]
(* The next build has lost the customer, and a case has instructions in it. *)
Gone == [Recent EXCEPT !.row = FALSE, !.injected = TRUE]

MCFacts == <<Recent, Gone>>
=============================================================================
