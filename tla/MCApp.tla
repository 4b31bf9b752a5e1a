------------------------------- MODULE MCApp -------------------------------
(* Instances of DopechainApp: b, again and third are runs of one identity. *)
EXTENDS DopechainApp, TLC

CONSTANTS a, b, again, third, k1, k2

Distinct == a :> k1 @@ b :> k2
Restarted == a :> k1 @@ b :> k2 @@ again :> k2
Raced == a :> k1 @@ b :> k2 @@ again :> k2 @@ third :> k2

\* Runs of one identity differ in nothing, as long as none of them is Faulty.
SameIdentity == Permutations({b, again, third})
Symmetric == SameIdentity \union Permutations(Workers)
=============================================================================
