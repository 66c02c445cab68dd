---------------------------- MODULE ChatHistory ----------------------------
(***************************************************************************)
(* The chat history of one room in service/ws_service.go.  A ReadPump      *)
(* broadcasts a message and offers it to the job queue; the workers RPUSH  *)
(* it to the list in Redis and trim the list; who joins the room reads the *)
(* list.  Messages are numbered in the order of their broadcasts.  Whether *)
(* a broadcast finds room in the channels of the members is Hub's matter.  *)
(*                                                                         *)
(* Each command to Redis is a step and may fail, or take effect and lose   *)
(* its reply: then the client sends it again (go-redis does so by default, *)
(* up to 3 times).  The process may die.  MaxFaults bounds how often one   *)
(* of these happens, MaxSent how many messages are sent.                   *)
(*                                                                         *)
(* A definition named X_Y is a faulty variant Y of X: no specification     *)
(* uses it; it shows that some property below notices the fault.           *)
(***************************************************************************)
EXTENDS Integers, Sequences, FiniteSets

CONSTANTS
  Senders,   \* the ReadPumps of those who write
  Joiners,   \* those who join the room and read its history
  Workers,   \* the cacheWorkers goroutines (2 in the code)
  QueueCap,  \* cacheJobQueue (4096 in the code)
  MaxLen,    \* redisMsgMaxLen (100 in the code)
  MaxSent,
  MaxFaults

ASSUME ChatAssumption ==
  /\ IsFiniteSet(Workers)
  /\ {QueueCap, MaxLen} \subseteq Nat \ {0}
  /\ {MaxSent, MaxFaults} \subseteq Nat

VARIABLES
  sent,       \* how many messages were broadcast
  sending,    \* sending[s]: broadcast by s and not yet offered; 0 is none
  queue,      \* cacheJobs
  worker,     \* worker[w]: the next command of w and its message
  list,       \* the list party:msgs: of the room
  pushed,     \* all messages that were ever RPUSHed, in this order
  lost,       \* messages that will never be: dropped, failed or crashed
  untrimmed,  \* how many pushes since the last LTRIM have none of their own
              \* to come: it was lost, or they were sent again
  step,       \* step[j]: the next entry of Order, or 3 for a member
  joinedAt,   \* joinedAt[j]: sent, when j entered the room
  got,        \* got[j]: the history j was sent
  late,       \* late[j]: the messages that were under way at that moment
  faults

cache   == <<queue, worker, list, pushed, lost, untrimmed>>
joiner  == <<step, joinedAt, got, late>>
vars    == <<sent, sending, queue, worker, list, pushed, lost, untrimmed, step,
             joinedAt, got, late, faults>>

Messages == 1..MaxSent
Idle     == <<"idle", 0>>

ChatTypeOK ==
  /\ sent \in 0..MaxSent
  /\ sending \in [Senders -> 0..MaxSent]
  /\ queue \in Seq(Messages) /\ Len(queue) <= QueueCap
  /\ worker \in [Workers -> {Idle} \cup ({"push", "trim"} \X Messages)]
  /\ list \in Seq(Messages) /\ pushed \in Seq(Messages)
  /\ lost \subseteq Messages
  /\ untrimmed \in Nat
  /\ step \in [Joiners -> 1..3]
  /\ joinedAt \in [Joiners -> 0..MaxSent]
  /\ got \in [Joiners -> Seq(Messages)]
  /\ late \in [Joiners -> SUBSET Messages]
  /\ faults \in 0..MaxFaults

Init ==
  /\ sent = 0
  /\ sending = [s \in Senders |-> 0]
  /\ queue = <<>>
  /\ worker = [w \in Workers |-> Idle]
  /\ list = <<>> /\ pushed = <<>> /\ lost = {} /\ untrimmed = 0
  /\ step = [j \in Joiners |-> 1]
  /\ joinedAt = [j \in Joiners |-> 0]
  /\ got = [j \in Joiners |-> <<>>]
  /\ late = [j \in Joiners |-> {}]
  /\ faults = 0

Fault == faults < MaxFaults /\ faults' = faults + 1

Fine == UNCHANGED faults

-----------------------------------------------------------------------------
(* A chat frame: broadcast, then offer the message to the queue.           *)

BroadcastToRoom(s) ==
  /\ sending[s] = 0
  /\ sent < MaxSent
  /\ sent' = sent + 1
  /\ sending' = [sending EXCEPT ![s] = sent + 1]
  /\ UNCHANGED <<cache, joiner, faults>>

HasRoom_Always == TRUE

HasRoom == Len(queue) < QueueCap

\* select with a default: a full queue drops the message.
CacheMessageAsync(s) ==
  /\ sending[s] # 0
  /\ \/ HasRoom /\ queue' = Append(queue, sending[s]) /\ UNCHANGED lost
     \/ ~HasRoom /\ lost' = lost \cup {sending[s]} /\ UNCHANGED queue
  /\ sending' = [sending EXCEPT ![s] = 0]
  /\ UNCHANGED <<sent, worker, list, pushed, untrimmed, joiner, faults>>

-----------------------------------------------------------------------------
(* cacheWorker: take a job, RPUSH its message, LTRIM the list.  The error  *)
(* of neither command is looked at.                                        *)

TakeJob(w) ==
  /\ worker[w] = Idle
  /\ queue # <<>>
  /\ worker' = [worker EXCEPT ![w] = <<"push", Head(queue)>>]
  /\ queue' = Tail(queue)
  /\ UNCHANGED <<sent, sending, list, pushed, lost, untrimmed, joiner, faults>>

Recorded(m) == \E i \in 1..Len(pushed) : pushed[i] = m

Push(m) == list' = Append(list, m) /\ pushed' = Append(pushed, m)

Trims(w, m) == worker' = [worker EXCEPT ![w] = <<"trim", m>>]

\* It answers; or its reply is lost and it is sent again; or it fails for good,
\* perhaps after an earlier try has pushed the message.
RPush(w) ==
  LET m == worker[w][2] IN
  /\ worker[w][1] = "push"
  /\ \/ Push(m) /\ Fine /\ Trims(w, m) /\ UNCHANGED <<lost, untrimmed>>
     \/ /\ Push(m) /\ Fault
        /\ untrimmed' = untrimmed + 1
        /\ UNCHANGED <<worker, lost>>
     \/ /\ Fault /\ Trims(w, m)
        /\ lost' = IF Recorded(m) THEN lost ELSE lost \cup {m}
        /\ UNCHANGED <<list, pushed, untrimmed>>
  /\ UNCHANGED <<sent, sending, queue, joiner>>

Trimmed_Never(l) == l

\* LTRIM 0 MaxLen-1
Trimmed_Newest(l) == IF Len(l) > MaxLen THEN SubSeq(l, 1, MaxLen) ELSE l

\* LTRIM -MaxLen -1
Trimmed(l) ==
  IF Len(l) > MaxLen THEN SubSeq(l, Len(l) - MaxLen + 1, Len(l)) ELSE l

\* As if the worker returned after a job.
Done_Returns(m) == <<"trim", m>>

\* Pushes its message once more.
Done_Again(m) == <<"push", m>>

Done(m) == Idle

\* As RPush.
LTrim(w) ==
  LET next == [worker EXCEPT ![w] = Done(worker[w][2])] IN
  /\ worker[w][1] = "trim"
  /\ \/ list' = Trimmed(list) /\ untrimmed' = 0 /\ Fine /\ worker' = next
     \/ list' = Trimmed(list) /\ untrimmed' = 0 /\ Fault /\ UNCHANGED worker
     \/ UNCHANGED list /\ untrimmed' = untrimmed + 1 /\ Fault /\ worker' = next
  /\ UNCHANGED <<sent, sending, queue, pushed, lost, joiner>>

-----------------------------------------------------------------------------
(* A join_room frame: enter the room, then read the history.               *)

Order_Reversed == <<"read", "join">>

Order == <<"join", "read">>

Turn(j, what) == step[j] < 3 /\ Order[step[j]] = what

Pushes(w, m) == worker[w] = <<"push", m>>

\* Broadcast, and not yet in the list.
Underway(m) ==
  \/ \E s \in Senders : sending[s] = m
  \/ \E i \in 1..Len(queue) : queue[i] = m
  \/ \E w \in Workers : Pushes(w, m) /\ ~Recorded(m)

JoinRoom(j) ==
  /\ Turn(j, "join")
  /\ joinedAt' = [joinedAt EXCEPT ![j] = sent]
  /\ step' = [step EXCEPT ![j] = @ + 1]
  /\ UNCHANGED <<sent, sending, cache, got, late, faults>>

\* LRANGE 0 -1; when it fails there is no history.
SendChatHistory(j) ==
  /\ Turn(j, "read")
  /\ \/ /\ got' = [got EXCEPT ![j] = list] /\ Fine
        /\ late' = [late EXCEPT ![j] = {m \in 1..sent : Underway(m)}]
     \/ /\ got' = [got EXCEPT ![j] = <<>>] /\ Fault
        /\ late' = [late EXCEPT ![j] = 1..sent]
  /\ step' = [step EXCEPT ![j] = @ + 1]
  /\ UNCHANGED <<sent, sending, cache, joinedAt>>

LeaveRoom(j) ==
  /\ step[j] = 3
  /\ step' = [step EXCEPT ![j] = 1]
  /\ joinedAt' = [joinedAt EXCEPT ![j] = 0]
  /\ got' = [got EXCEPT ![j] = <<>>]
  /\ late' = [late EXCEPT ![j] = {}]
  /\ UNCHANGED <<sent, sending, cache, faults>>

-----------------------------------------------------------------------------
\* The queue is in memory, the list is not.
Crash ==
  /\ Fault
  /\ lost' = lost \cup {m \in 1..sent : Underway(m)}
  /\ untrimmed' = untrimmed + Cardinality({w \in Workers : worker[w][1] = "trim"})
  /\ sending' = [s \in Senders |-> 0]
  /\ queue' = <<>>
  /\ worker' = [w \in Workers |-> Idle]
  /\ step' = [j \in Joiners |-> 1]
  /\ joinedAt' = [j \in Joiners |-> 0]
  /\ got' = [j \in Joiners |-> <<>>]
  /\ late' = [j \in Joiners |-> {}]
  /\ UNCHANGED <<sent, list, pushed>>

Work(w) == TakeJob(w) \/ RPush(w) \/ LTrim(w)

Next ==
  \/ \E s \in Senders : BroadcastToRoom(s) \/ CacheMessageAsync(s)
  \/ \E w \in Workers : Work(w)
  \/ \E j \in Joiners : JoinRoom(j) \/ SendChatHistory(j) \/ LeaveRoom(j)
  \/ Crash

Spec == Init /\ [][Next]_vars

\* Goroutines run on; every command to Redis ends with an answer or an error.
\* A worker that is free competes for the queue with the others.
FairSpec ==
  /\ Spec
  /\ \A s \in Senders : WF_vars(CacheMessageAsync(s))
  /\ \A w \in Workers : WF_vars(RPush(w) \/ LTrim(w))
  /\ WF_vars(\E w \in Workers : TakeJob(w))

-----------------------------------------------------------------------------
(* Properties. *)

\* The list holds its 100 messages and at most one more for each worker that
\* is between its two commands (每个房间最多缓存 100 条), unless LTRIMs got lost
\* with an error or a crash, or an RPUSH took effect and was sent again; the
\* next LTRIM that works makes up for them all.
HistoryBounded ==
  Len(list) <= MaxLen + untrimmed
                 + Cardinality({w \in Workers : worker[w][1] = "trim"})

\* The list holds the latest pushes, in their order, and the last 100 of them
\* for certain, however the commands of the workers interleave (只保留最近 N 条).
HistoryRecent ==
  /\ Len(list) <= Len(pushed)
  /\ \A i \in 1..Len(list) : list[i] = pushed[Len(pushed) - Len(list) + i]
  /\ Len(list) < MaxLen => Len(list) = Len(pushed)

\* A new member misses nothing for good that was in Redis: a message that was
\* broadcast before it entered the room is in the history it was sent, or was
\* still under way to Redis, or lost, or more than MaxLen messages ago.
JoinerCaughtUp ==
  \A j \in Joiners : step[j] = 3 =>
    \A m \in 1..joinedAt[j] :
      \/ m \in late[j] \cup lost
      \/ \E i \in 1..Len(got[j]) : got[j][i] = m
      \/ Len(got[j]) >= MaxLen

\* Pushed by a command that is being sent again.
InDoubt == {m \in Messages : Recorded(m) /\ \E w \in Workers : Pushes(w, m)}

\* Senders, a queue, competing workers, failing commands and crashes amount to
\* what RoomLog promises: no message enters the history before it was sent, or
\* twice unless the reply to its RPUSH was lost, and a new member sees how the
\* history ends, no less than MaxLen messages unless there are fewer (README:
\* 进房拉历史), or nothing at all.
Log == INSTANCE RoomLog
         WITH Keep <- MaxLen, log <- pushed, doubt <- InDoubt, view <- got

ImplementsLog == Log!LogSpec

\* A message that a sender has broadcast enters the history or is dropped; it
\* does not wait in the queue for ever, whatever the workers meet.
JobsDone ==
  \A m \in Messages : []<>(m <= sent => m \in lost \/ Recorded(m))
=============================================================================
