------------------------------ MODULE RoomLog ------------------------------
(***************************************************************************)
(* What the chat history of a room promises, without a queue, workers and  *)
(* Redis: every message is recorded in some order, not before it was sent, *)
(* and once more only while it is in doubt whether it was, which costs a   *)
(* fault each time; and who is shown the history sees how it ends, at      *)
(* least Keep messages or all there are.  Module ChatHistory is shown to   *)
(* implement this.                                                         *)
(***************************************************************************)
EXTENDS Integers, Sequences

CONSTANTS
  Joiners,  \* those who may be shown the history
  Keep      \* how many messages a history holds for certain

VARIABLES
  sent,   \* how many messages were sent; they are numbered from 1
  log,    \* the messages that were recorded
  doubt,  \* the messages that were recorded and may be once more
  view,   \* view[j]: what j was shown
  faults  \* how many faults there have been

logVars == <<sent, log, doubt, view, faults>>

Init ==
  /\ sent = 0 /\ log = <<>> /\ doubt = {} /\ faults = 0
  /\ view = [j \in Joiners |-> <<>>]

Post == sent' = sent + 1 /\ UNCHANGED <<log, doubt, view, faults>>

Record(m) ==
  /\ m \in doubt \/ \A i \in 1..Len(log) : log[i] # m
  /\ log' = Append(log, m)
  /\ \/ doubt' = doubt \ {m} /\ UNCHANGED faults
     \/ doubt' = doubt \cup {m} /\ faults' = faults + 1
  /\ UNCHANGED <<sent, view>>

\* The last n messages.
Last(n) == SubSeq(log, Len(log) - n + 1, Len(log))

Show(j, n) ==
  /\ n < Keep => n = Len(log)
  /\ view' = [view EXCEPT ![j] = Last(n)]
  /\ UNCHANGED <<sent, log, doubt, faults>>

Without(some) == [j \in Joiners |-> IF j \in some THEN <<>> ELSE view[j]]

Hide(j) ==
  /\ view' = Without({j})
  /\ UNCHANGED <<sent, log, doubt, faults>>

\* Some are shown nothing, and some messages are not recorded again.
Fail(some, given) ==
  /\ faults' = faults + 1
  /\ view' = Without(some)
  /\ doubt' = doubt \ given
  /\ UNCHANGED <<sent, log>>

Next ==
  \/ Post
  \/ \E m \in 1..sent : Record(m)
  \/ \E j \in Joiners, n \in 0..Len(log) : Show(j, n)
  \/ \E j \in Joiners : Hide(j)
  \/ \E some \in SUBSET Joiners, given \in SUBSET doubt : Fail(some, given)

LogSpec == Init /\ [][Next]_logVars
=============================================================================
