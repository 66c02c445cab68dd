---------------------------- MODULE PartyRoster ----------------------------
(***************************************************************************)
(* What the party service promises its users, without tables, statements   *)
(* or requests: a party opens with a number of seats, people enter and     *)
(* leave one at a time, nobody enters a party that has no free seat or     *)
(* that has been closed.  Module Party is shown to implement this.         *)
(***************************************************************************)
EXTENDS Integers, FiniteSets

CONSTANTS
  Users,    \* the people
  Parties,  \* the parties that may ever be opened
  Sizes     \* the numbers of seats a party may have, at least 1

VARIABLES
  phase,    \* phase[p]: "absent" before it is opened, then "live", then "deleted"
  seats,    \* seats[p]: how many people the party seats
  roster    \* roster[p]: the people in it

rosterVars == <<phase, seats, roster>>

Init ==
  /\ phase  = [p \in Parties |-> "absent"]
  /\ seats  = [p \in Parties |-> 1]
  /\ roster = [p \in Parties |-> {}]

Open(p, n) ==
  /\ phase[p] = "absent"
  /\ phase' = [phase EXCEPT ![p] = "live"]
  /\ seats' = [seats EXCEPT ![p] = n]
  /\ UNCHANGED roster

Enter(p, u) ==
  /\ phase[p] = "live"
  /\ u \notin roster[p]
  /\ Cardinality(roster[p]) < seats[p]
  /\ roster' = [roster EXCEPT ![p] = @ \cup {u}]
  /\ UNCHANGED <<phase, seats>>

Leave(p, u) ==
  /\ roster' = [roster EXCEPT ![p] = @ \ {u}]
  /\ UNCHANGED <<phase, seats>>

\* The members of a party being deleted are put out before it is closed.
Disband(p) ==
  /\ roster' = [roster EXCEPT ![p] = {}]
  /\ UNCHANGED <<phase, seats>>

Close(p) ==
  /\ phase[p] = "live"
  /\ phase' = [phase EXCEPT ![p] = "deleted"]
  /\ UNCHANGED <<seats, roster>>

Next ==
  \E p \in Parties :
    \/ \E n \in Sizes : Open(p, n)
    \/ \E u \in Users : Enter(p, u) \/ Leave(p, u)
    \/ Disband(p)
    \/ Close(p)

RosterSpec == Init /\ [][Next]_rosterVars
=============================================================================
