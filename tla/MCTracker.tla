----------------------------- MODULE MCTracker -----------------------------
(* Instances of Tracker: run r2 is a second run under the identity of r1.  *)
EXTENDS Tracker, TLC

CONSTANTS r1, r2, other, k1, k2

SharedKey == r1 :> k1 @@ r2 :> k1 @@ other :> k2
DistinctKey == r1 :> k1 @@ other :> k2
=============================================================================
