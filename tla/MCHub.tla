------------------------------- MODULE MCHub -------------------------------
(* Instances of Hub for TLC: whose connections there are. *)
EXTENDS Hub, TLC

CONSTANTS u1, u2, c1, c2, c3

\* One user reconnects with a second Client while the first one is torn down.
TwoClients   == (c1 :> u1) @@ (c2 :> u1)
ThreeClients == TwoClients @@ (c3 :> u2)
TwoUsers     == (c1 :> u1) @@ (c3 :> u2)

\* The Clients of the first user are interchangeable.
Symmetry == Permutations({c1, c2})
=============================================================================
