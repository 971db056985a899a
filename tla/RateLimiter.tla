------------------------------ MODULE RateLimiter ------------------------------
(***************************************************************************)
(* RateLimitMiddleware of services/common/middleware.py, on the two tiers  *)
(* a request of a client passes: the Experience layer, whose callers send  *)
(* client_id, and the Process layer behind it, whose only caller is the    *)
(* Experience layer's DownstreamClient, which sends none and is keyed by   *)
(* its address.                                                            *)
(*                                                                         *)
(* Time is counted in ticks, Second of them to a second, because           *)
(* Retry-After is rounded to whole seconds and the window is not.  The     *)
(* clock does not go back.  Requests to the exempt paths are left out.     *)
(***************************************************************************)
EXTENDS Integers, Sequences, FiniteSetsExt

CONSTANTS
  Requests,
  Clients, ClientOf,  \* the client_id of each request
  Peer,               \* the address the Process layer sees
  Limit,              \* rate_limit_requests
  Window,             \* rate_limit_window_seconds, in seconds
  Second,             \* ticks in a second
  Horizon             \* bound on the clock

ASSUME RateLimiterAssumption ==
  /\ IsFiniteSet(Requests) /\ ClientOf \in [Requests -> Clients]
  /\ Peer \notin Clients
  /\ Limit \in Nat \ {0} /\ Window \in Nat \ {0} /\ Second \in Nat \ {0}
  /\ Horizon \in Nat

VARIABLES
  now,        \* time.time()
  hits,       \* _hits of the two middlewares: one bucket per key
  pc,         \* where each request is
  remaining,  \* X-RateLimit-Remaining of each answer
  admitted,   \* history: when each key's requests were admitted
  refusal     \* history: the last refusal of each key, and its Retry-After

vars == <<now, hits, pc, remaining, admitted, refusal>>

Buckets == Clients \cup {Peer}
NoRefusal == [at |-> 0, retry |-> 0, after |-> -1]

TypeOK ==
  /\ now \in 0..Horizon
  /\ \A b \in Buckets : hits[b] \in Seq(0..Horizon) /\ Len(hits[b]) =< Limit
  /\ pc \in [Requests -> {"new", "admitted", "called", "answered",
                          "refused", "rejected"}]
  /\ remaining \in [Requests -> 0..Limit]
  /\ admitted \in [Buckets -> Seq(0..Horizon)]
  /\ refusal \in [Buckets -> [at : 0..Horizon, retry : 0..(Window + 1),
                              after : -1..Cardinality(Requests)]]

Init ==
  /\ now = 0
  /\ hits = [b \in Buckets |-> <<>>]
  /\ pc = [r \in Requests |-> "new"]
  /\ remaining = [r \in Requests |-> 0]
  /\ admitted = [b \in Buckets |-> <<>>]
  /\ refusal = [b \in Buckets |-> NoRefusal]

-----------------------------------------------------------------------------

(* Seeded fault: a hit leaves the window one comparison too early. *)
StaleOnTime(t) == now - t >= Window * Second

Stale(t) == now - t > Window * Second

(* The bucket once old hits are popped from its left: what is left starts  *)
(* at the first hit that is not stale.                                     *)
Current(b) ==
  LET fresh == {i \in DOMAIN hits[b] : ~Stale(hits[b][i])}
  IN SubSeq(hits[b], Min(fresh \cup {Len(hits[b]) + 1}), Len(hits[b]))

(* Seeded fault: the + 1 is forgotten. *)
RetryAfterFloor(oldest) == (Window * Second - (now - oldest)) \div Second

RetryAfter(oldest) == (Window * Second - (now - oldest)) \div Second + 1

(* Seeded fault: > for >=. *)
FullLate(b) == Len(Current(b)) > Limit

Full(b) == Len(Current(b)) >= Limit

(* dispatch() up to call_next, for the bucket b: the request goes on to    *)
(* `onward`, or ends as `end`.                                             *)
Admit(r, b, onward) ==
  /\ ~Full(b)
  /\ hits' = [hits EXCEPT ![b] = Append(Current(b), now)]
  /\ admitted' = [admitted EXCEPT ![b] = Append(@, now)]
  /\ pc' = [pc EXCEPT ![r] = onward]
  /\ UNCHANGED <<now, remaining, refusal>>

Refuse(r, b, end) ==
  /\ Full(b)
  /\ hits' = [hits EXCEPT ![b] = Current(b)]
  /\ refusal' = [refusal EXCEPT ![b] =
       [at |-> now, retry |-> RetryAfter(Head(Current(b))),
        after |-> Len(admitted[b])]]
  /\ pc' = [pc EXCEPT ![r] = end]
  /\ UNCHANGED <<now, remaining, admitted>>

(* A request reaches the Experience layer. *)
Arrive(r) ==
  /\ pc[r] = "new"
  /\ \/ Admit(r, ClientOf[r], "admitted")
     \/ Refuse(r, ClientOf[r], "refused")

(* Its handler calls the Process layer, which sees its own address only. A *)
(* 429 comes back to the handler as a 4xx it does not retry.               *)
Call(r) ==
  /\ pc[r] = "admitted"
  /\ \/ Admit(r, Peer, "called")
     \/ Refuse(r, Peer, "rejected")

(* Seeded fault: the hit of the request itself is not counted. *)
RemainingBefore(b) == Limit - Len(hits[b]) + 1

(* max(0, self.max - len(bucket)), read when the answer comes back. *)
Remaining(b) == IF Len(hits[b]) >= Limit THEN 0 ELSE Limit - Len(hits[b])

Answer(r) ==
  /\ pc[r] = "called"
  /\ pc' = [pc EXCEPT ![r] = "answered"]
  /\ remaining' = [remaining EXCEPT ![r] = Remaining(ClientOf[r])]
  /\ UNCHANGED <<now, hits, admitted, refusal>>

Tick ==
  /\ now < Horizon
  /\ now' = now + 1
  /\ UNCHANGED <<hits, pc, remaining, admitted, refusal>>

Next == Tick \/ \E r \in Requests : Arrive(r) \/ Call(r) \/ Answer(r)

Spec == Init /\ [][Next]_vars

-----------------------------------------------------------------------------
(* Requests admitted for b that are still in the window. *)
InWindow(b) ==
  {i \in 1..Len(admitted[b]) : now - admitted[b][i] =< Window * Second}

(* However requests of one key are spread in time, any window holds at     *)
(* most Limit admitted ones.                                               *)
SlidingWindow ==
  \A b \in Buckets : \A i \in 1..Len(admitted[b]) :
    i + Limit =< Len(admitted[b]) =>
      admitted[b][i + Limit] - admitted[b][i] > Window * Second

(* A request is refused only when its key has used up its window, and      *)
(* Retry-After is enough and not much too much: a client that waits it out *)
(* finds room unless another request of its key was admitted meanwhile,    *)
(* and one that comes back over a second earlier is still refused.         *)
RetryAfterRight ==
  \A b \in Buckets :
    refusal[b].after = Len(admitted[b]) =>
      LET due == refusal[b].at + refusal[b].retry * Second
      IN  /\ now = refusal[b].at => Cardinality(InWindow(b)) = Limit
          /\ now >= due => Cardinality(InWindow(b)) < Limit
          /\ now < due - Second => Cardinality(InWindow(b)) = Limit

(* X-RateLimit-Remaining never promises more than the window has left when *)
(* the answer leaves, whatever was admitted while the request waited.      *)
RemainingNotOverstated ==
  [][\A r \in Requests : pc[r] = "called" /\ pc'[r] = "answered" =>
       remaining'[r] + Cardinality(InWindow(ClientOf[r])) =< Limit]_vars
=============================================================================
