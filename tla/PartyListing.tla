---------------------------- MODULE PartyListing ----------------------------
(***************************************************************************)
(* What the index of the party list promises, without readers, a mutex and *)
(* Redis commands: a party is listed some time after it was opened, is     *)
(* taken off the list only once it has been closed for good, and otherwise *)
(* the list goes as a whole.  Module PartyIndex is shown to implement this.*)
(***************************************************************************)

CONSTANTS
  Parties  \* the parties that may ever be opened

VARIABLES
  row,    \* row[p]: "absent" before p is opened, then "live", then "deleted"
  listed  \* the parties on the list; without any there is no list

listingVars == <<row, listed>>

Init ==
  /\ row = [p \in Parties |-> "absent"]
  /\ listed = {}

Open(p) ==
  /\ row[p] = "absent"
  /\ row' = [row EXCEPT ![p] = "live"]
  /\ UNCHANGED listed

Close(p) ==
  /\ row[p] = "live"
  /\ row' = [row EXCEPT ![p] = "deleted"]
  /\ UNCHANGED listed

\* Possibly late: p may have been closed meanwhile.
List(p) ==
  /\ row[p] # "absent"
  /\ listed' = listed \cup {p}
  /\ UNCHANGED row

Unlist(p) ==
  /\ row[p] = "deleted"
  /\ listed' = listed \ {p}
  /\ UNCHANGED row

Drop ==
  /\ listed' = {}
  /\ UNCHANGED row

Next ==
  \/ \E p \in Parties : Open(p) \/ Close(p) \/ List(p) \/ Unlist(p)
  \/ Drop

ListingSpec == Init /\ [][Next]_listingVars
=============================================================================
