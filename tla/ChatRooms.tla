----------------------------- MODULE ChatRooms -----------------------------
(***************************************************************************)
(* What the hub promises those who chat, without tables, locks, pumps and  *)
(* goroutines: a user has one connection, connections enter and leave      *)
(* rooms, a departing one leaves all its rooms at that moment, and a       *)
(* message goes only to members of its room, some of whom may miss it.     *)
(* Module Hub is shown to implement this.                                  *)
(***************************************************************************)
EXTENDS Integers

CONSTANTS
  Clients,  \* the connections
  UserOf,   \* UserOf[c]: whose connection c is
  Parties   \* the parties that name a room

VARIABLES
  present,  \* the connections that are there
  members,  \* members[p]: the connections in the room of p
  inbox     \* inbox[c]: how many messages c has got and not read

roomVars == <<present, members, inbox>>

Init ==
  /\ present = {}
  /\ members = [p \in Parties |-> {}]
  /\ inbox = [c \in Clients |-> 0]

Arrive(c) ==
  /\ \A d \in present : UserOf[d] # UserOf[c]
  /\ present' = present \cup {c}
  /\ inbox' = [inbox EXCEPT ![c] = 0]
  /\ UNCHANGED members

Enter(c, p) ==
  /\ c \in present
  /\ members' = [members EXCEPT ![p] = @ \cup {c}]
  /\ UNCHANGED <<present, inbox>>

Exit(c, p) ==
  /\ members' = [members EXCEPT ![p] = @ \ {c}]
  /\ UNCHANGED <<present, inbox>>

Depart(c) ==
  /\ present' = present \ {c}
  /\ members' = [p \in Parties |-> members[p] \ {c}]
  /\ UNCHANGED inbox

Deliver(p, some) ==
  /\ inbox' = [c \in Clients |-> IF c \in some THEN inbox[c] + 1 ELSE inbox[c]]
  /\ UNCHANGED <<present, members>>

Take(c) ==
  /\ inbox[c] > 0
  /\ inbox' = [inbox EXCEPT ![c] = @ - 1]
  /\ UNCHANGED <<present, members>>

Next ==
  \/ \E c \in Clients : Arrive(c) \/ Depart(c) \/ Take(c)
  \/ \E c \in Clients, p \in Parties : Enter(c, p) \/ Exit(c, p)
  \/ \E p \in Parties : \E some \in SUBSET members[p] : Deliver(p, some)

RoomsSpec == Init /\ [][Next]_roomVars
=============================================================================
