---------------------------- MODULE MCDataPlatform ----------------------------
(* A read or a submitted statement beside a write or a health check. *)
EXTENDS DataPlatform, TLC

CONSTANTS c1, c2

Ask == [kind |-> "query", statement |-> "select", bound |-> TRUE, column |-> <<>>,
        operation |-> "none", rows |-> <<>>]
Kinds == {"query", "submit"}
Amounts == <<Null, Of("decimal", 1050), Of("decimal", 12000)>>
Integral == <<Of("decimal", 12000), Of("decimal", 1050), Of("decimal", -1050)>>
Reads == {[Ask EXCEPT !.kind = k, !.column = Amounts] : k \in Kinds} \cup
         {[Ask EXCEPT !.kind = k, !.statement = s] : k \in Kinds, s \in {"modifying", "broken"}} \cup
         {[Ask EXCEPT !.kind = "submit", !.bound = FALSE]}
Writes == {[Ask EXCEPT !.kind = "write", !.operation = "ai_evaluation", !.rows = <<"r1", "r2">>],
           [Ask EXCEPT !.kind = "write", !.operation = "ai_audit"],
           [Ask EXCEPT !.kind = "write", !.operation = "drop", !.rows = <<"r1">>],
           [Ask EXCEPT !.kind = "raw", !.operation = "drop", !.rows = <<"r1">>],
           [Ask EXCEPT !.kind = "health"]}
MCAsks == c1 :> Reads @@ c2 :> Writes
AmountAsks == c1 :> {[Ask EXCEPT !.column = Integral]} @@ c2 :> Writes
=============================================================================
