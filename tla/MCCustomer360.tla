---------------------------- MODULE MCCustomer360 ----------------------------
(* One client request of each kind, over two attempts. *)
EXTENDS Customer360

CONSTANT r1

MCRequests == {r1}

Plain == [kind |-> "360", client |-> "portal", asked |-> {}, token |-> "valid",
          orders |-> FALSE, support |-> FALSE, ai |-> FALSE,
          known |-> TRUE, scored |-> TRUE, fault |-> "none"]
Full == [Plain EXCEPT !.orders = TRUE, !.support = TRUE, !.ai = TRUE]

Bulk ==
  {[Full EXCEPT !.ai = FALSE], [Full EXCEPT !.support = FALSE, !.scored = FALSE],
   [Plain EXCEPT !.ai = TRUE, !.client = "servicedesk"],
   [Full EXCEPT !.known = FALSE], [Full EXCEPT !.token = "expired"]}
Small ==
  {[Plain EXCEPT !.kind = k] : k \in {"insights", "churn", "cohort"}} \cup
  {[Plain EXCEPT !.kind = "churn", !.scored = FALSE],
   [Plain EXCEPT !.kind = "lookup", !.client = "store"],
   [Plain EXCEPT !.kind = "recentOrders", !.client = "store"],
   [Plain EXCEPT !.kind = "insights", !.client = "readonly"],
   [Plain EXCEPT !.kind = "churn", !.asked = {"customer:read"}]}
AtSources ==
  {[Plain EXCEPT !.kind = s, !.known = e] : s \in Sources, e \in BOOLEAN} \cup
  {[Plain EXCEPT !.kind = "loyalty", !.fault = f] :
     f \in {"timeout", "error", "throttle", "flaky"}}
MCAsks == Bulk \cup Small \cup AtSources
=============================================================================
