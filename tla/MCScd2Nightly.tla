---------------------------- MODULE MCScd2Nightly ----------------------------
(* Two customers who can come to share a match key. *)
EXTENDS Scd2Nightly

Sent(k, m, h, u) == [bk |-> k, match |-> m, hash |-> h, updated |-> u]

MCCreatedAt == [k \in Keys |-> k]

(* The first record of customer 1 has no update time; it changes its       *)
(* segment, then its e-mail, then back.  Customer 2 is its fuzzy duplicate *)
(* until one of them moves to the other e-mail.                            *)
MCRecords ==
  {Sent(1, "ana", "a1", NoTime), Sent(1, "ana", "a2", 3), Sent(1, "amy", "a3", 4),
   Sent(1, "ana", "a2", 5), Sent(2, "ana", "b1", 3), Sent(2, "amy", "b2", 4)}
MCOrders == {[bk |-> 1, at |-> 2], [bk |-> 1, at |-> 4]}
=============================================================================
