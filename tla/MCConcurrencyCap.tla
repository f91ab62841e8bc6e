-------------------------- MODULE MCConcurrencyCap --------------------------
(* Instances of ConcurrencyCap for TLC: which user each request belongs to *)
(* and which caps the admin submits.                                       *)
EXTENDS ConcurrencyCap, TLC

CONSTANTS u1, u2, r1, r2, r3, r4, r5

TwoUsers == (r1 :> u1) @@ (r2 :> u1) @@ (r3 :> u1) @@ (r4 :> u2) @@ (r5 :> u2)
ThreeOfOne == (r1 :> u1) @@ (r2 :> u1) @@ (r3 :> u1)

\* u1 is always limited (and the admin also submits invalid values), u2 is switched
\* between unlimited and a cap of one.
SteadyAndFlipped == (u1 :> {-1, 1, 2, 3}) @@ (u2 :> {0, 1})
FlippedCaps == (u1 :> {0, 1})

\* Requests of one user are alike.
Alike == Permutations({r1, r2, r3}) \cup Permutations({r4, r5})
=============================================================================
