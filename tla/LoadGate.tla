------------------------------- MODULE LoadGate -------------------------------
(***************************************************************************)
(* What a circuit breaker promises the dependency behind it, without       *)
(* saying when the breaker notices that time has passed: a gate that lets  *)
(* calls in while it is "passing" and none while it is "refusing".         *)
(*                                                                         *)
(* Strikes are failures since the last success; at Limit strikes the gate  *)
(* refuses.  A success wipes the strikes and makes the gate pass.  A       *)
(* refusing gate passes again after a while, with the strikes kept, so     *)
(* that the next failure shuts it at once.                                 *)
(***************************************************************************)
EXTENDS Integers

CONSTANTS Callers, Limit

VARIABLES
  gate,     \* "passing" or "refusing"
  strikes,  \* failures since the last success, counted up to Limit
  inside    \* calls the gate has let in and that have not ended

gateVars == <<gate, strikes, inside>>

GateInit == gate = "passing" /\ strikes = 0 /\ inside = {}

Enter(c) ==
  /\ gate = "passing"
  /\ c \notin inside
  /\ inside' = inside \cup {c}
  /\ UNCHANGED <<gate, strikes>>

Strike(c) ==
  /\ c \in inside
  /\ inside' = inside \ {c}
  /\ strikes' = IF strikes < Limit THEN strikes + 1 ELSE strikes
  /\ gate' = IF strikes' = Limit THEN "refusing" ELSE gate

(* A successful call. *)
Clear(c) ==
  /\ c \in inside
  /\ inside' = inside \ {c}
  /\ strikes' = 0
  /\ gate' = "passing"

(* A call that ends with an error that says nothing of the dependency. *)
Leave(c) ==
  /\ c \in inside
  /\ inside' = inside \ {c}
  /\ UNCHANGED <<gate, strikes>>

Elapse ==
  /\ gate = "refusing"
  /\ gate' = "passing"
  /\ UNCHANGED <<strikes, inside>>

GateNext ==
  \/ \E c \in Callers : Enter(c) \/ Strike(c) \/ Clear(c) \/ Leave(c)
  \/ Elapse

(* The safety part, and the promise that a refusal ends. *)
GateSpec == GateInit /\ [][GateNext]_gateVars
GateFairSpec == GateSpec /\ WF_gateVars(Elapse)
=============================================================================
