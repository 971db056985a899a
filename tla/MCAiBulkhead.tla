----------------------------- MODULE MCAiBulkhead -----------------------------
(* Instances of AiBulkhead for TLC. *)
EXTENDS AiBulkhead, TLC

CONSTANTS a1, a2, a3, c1, k1

(* Three analyses with the same key and one Customer 360 with AI. *)
KindSame == a1 :> "analysis" @@ a2 :> "analysis" @@ a3 :> "analysis" @@ c1 :> "customer360"
KeySame == a1 :> k1 @@ a2 :> k1 @@ a3 :> k1 @@ c1 :> NoKey
AskedSame == a1 :> 1 @@ a2 :> 1 @@ a3 :> 1 @@ c1 :> 2

(* Two analyses with the same key and one Customer 360 with AI. *)
KindMixed == a1 :> "analysis" @@ a2 :> "analysis" @@ c1 :> "customer360"
KeyMixed == a1 :> k1 @@ a2 :> k1 @@ c1 :> NoKey
AskedMixed == a1 :> 1 @@ a2 :> 1 @@ c1 :> 2
=============================================================================
