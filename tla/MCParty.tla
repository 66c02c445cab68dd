------------------------------ MODULE MCParty ------------------------------
(* Instances of Party for TLC: who the request goroutines work for. *)
EXTENDS Party, TLC

CONSTANTS u1, u2, u3, u4, r1, r2, r3, r4

\* One request at a time for each of two, three or four users.
TwoUsers   == (r1 :> u1) @@ (r2 :> u2)
ThreeUsers == TwoUsers @@ (r3 :> u3)
FourUsers  == ThreeUsers @@ (r4 :> u4)

\* The first user sends two requests at once.
FirstTwice == (r1 :> u1) @@ (r2 :> u1) @@ (r3 :> u2)

=============================================================================
