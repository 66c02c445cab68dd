------------------------- MODULE ChatHistoryProofs -------------------------
(***************************************************************************)
(* Theorems about ChatHistory, for every number of senders, joiners and    *)
(* workers, every capacity of the queue and every length of the list.      *)
(***************************************************************************)
EXTENDS ChatHistory, FiniteSetTheorems, SequenceTheorems, TLAPS

USE DEF Fine, HasRoom, Done, Order

-----------------------------------------------------------------------------
(* Types. *)

LEMMA TrimmedType ==
  ASSUME NEW l \in Seq(Messages)
  PROVE  /\ Trimmed(l) \in Seq(Messages)
         /\ Len(Trimmed(l)) = IF Len(l) > MaxLen THEN MaxLen ELSE Len(l)
         /\ \A i \in 1..Len(Trimmed(l)) :
              Trimmed(l)[i] = l[Len(l) - Len(Trimmed(l)) + i]
<1> USE ChatAssumption
<1>1. CASE Len(l) > MaxLen
  <2>1. Len(l) - MaxLen + 1 \in 1..Len(l) /\ Len(l) \in Nat
    BY <1>1
  <2>2. Trimmed(l) = SubSeq(l, Len(l) - MaxLen + 1, Len(l))
    BY <1>1 DEF Trimmed
  <2>3. /\ Trimmed(l) \in Seq(Messages) /\ Len(Trimmed(l)) = MaxLen
        /\ \A i \in 1..MaxLen : Trimmed(l)[i] = l[Len(l) - MaxLen + i]
    <3> DEFINE k == Len(l) - MaxLen + 1
    <3>1. \A i \in k..Len(l) : l[i] \in Messages
      BY <2>1
    <3>2. k <= Len(l) /\ Len(l) - k + 1 = MaxLen
      BY <2>1
    <3>3. \A i \in 1..MaxLen : k + i - 1 = Len(l) - MaxLen + i
      BY <2>1
    <3>4. k \in Int /\ Len(l) \in Int
      BY <2>1
    <3> HIDE DEF k
    <3>5. /\ SubSeq(l, k, Len(l)) \in Seq(Messages)
          /\ Len(SubSeq(l, k, Len(l))) = MaxLen
          /\ \A i \in 1..MaxLen : SubSeq(l, k, Len(l))[i] = l[k + i - 1]
      BY <3>1, <3>2, <3>4, SubSeqProperties
    <3> QED
      BY <3>3, <3>5, <2>2 DEF k
  <2> QED
    BY <2>3, <1>1
<1>2. CASE ~(Len(l) > MaxLen)
  BY <1>2 DEF Trimmed
<1> QED
  BY <1>1, <1>2

LEMMA AppendKeeps ==
  ASSUME NEW l \in Seq(Messages), NEW m \in Messages, NEW k, k = Append(l, m)
  PROVE  /\ \A i \in 1..Len(l) : i \in 1..Len(k) /\ k[i] = l[i]
         /\ Len(l) + 1 \in 1..Len(k) /\ k[Len(l) + 1] = m
<1>1. Len(k) = Len(l) + 1 /\ Len(l) \in Nat
  OBVIOUS
<1> QED
  BY <1>1

LEMMA StepsOn ==
  ASSUME step \in [Joiners -> 1..3], NEW j \in Joiners, step[j] < 3,
         step' = [step EXCEPT ![j] = @ + 1]
  PROVE  step' \in [Joiners -> 1..3]
<1>1. step[j] \in 1..3
  OBVIOUS
<1>2. step[j] + 1 \in 1..3
  BY <1>1
<1> QED
  BY <1>2

LEMMA NextChatTypeOK ==
  ASSUME ChatTypeOK, [Next]_vars
  PROVE  ChatTypeOK'
<1> USE ChatAssumption DEF ChatTypeOK, Fault, Turn, cache, joiner
<1>m. \A m : m \in Messages <=> m \in 1..MaxSent
  BY DEF Messages
<1>1. ASSUME NEW s \in Senders, BroadcastToRoom(s) PROVE ChatTypeOK'
  <2>1. sent' \in 0..MaxSent
    BY <1>1 DEF BroadcastToRoom
  <2> QED
    BY <1>1, <2>1 DEF BroadcastToRoom
<1>2. ASSUME NEW s \in Senders, CacheMessageAsync(s) PROVE ChatTypeOK'
  <2>1. sending[s] \in Messages /\ sending' \in [Senders -> 0..MaxSent]
    BY <1>2, <1>m DEF CacheMessageAsync
  <2>2. CASE HasRoom
    <3>1. queue' = Append(queue, sending[s]) /\ UNCHANGED lost
      BY <1>2, <2>2 DEF CacheMessageAsync
    <3>2. queue' \in Seq(Messages) /\ Len(queue') = Len(queue) + 1
      BY <2>1, <3>1
    <3> QED
      BY <1>2, <2>1, <2>2, <3>1, <3>2 DEF CacheMessageAsync
  <2>3. CASE ~HasRoom
    BY <1>2, <2>1, <2>3 DEF CacheMessageAsync
  <2> QED
    BY <2>2, <2>3
<1>3. ASSUME NEW w \in Workers, TakeJob(w) PROVE ChatTypeOK'
  <2>1. /\ Head(queue) \in Messages
        /\ queue' \in Seq(Messages) /\ Len(queue') <= QueueCap
    BY <1>3 DEF TakeJob
  <2> QED
    BY <1>3, <2>1 DEF TakeJob
<1>4. ASSUME NEW w \in Workers, RPush(w) PROVE ChatTypeOK'
  <2> PICK m : m = worker[w][2]
    OBVIOUS
  <2>1. m \in Messages
    BY <1>4 DEF RPush, Idle
  <2>2. /\ Trims(w, m) \/ UNCHANGED worker
        /\ Push(m) \/ UNCHANGED <<list, pushed>>
        /\ lost' \in {lost, lost \cup {m}} /\ untrimmed' \in {untrimmed, untrimmed + 1}
        /\ Fine \/ Fault
        /\ UNCHANGED <<sent, sending, queue, joiner>>
    BY <1>4 DEF RPush
  <2>3. worker' \in [Workers -> {Idle} \cup ({"push", "trim"} \X Messages)]
    <3>1. CASE Trims(w, m)
      BY <2>1, <3>1 DEF Trims
    <3> QED
      BY <2>2, <3>1
  <2>4. list' \in Seq(Messages) /\ pushed' \in Seq(Messages)
    <3>1. CASE Push(m)
      BY <2>1, <3>1 DEF Push
    <3> QED
      BY <2>2, <3>1
  <2>5. lost' \subseteq Messages /\ untrimmed' \in Nat /\ faults' \in 0..MaxFaults
    BY <2>1, <2>2
  <2> QED
    BY <2>2, <2>3, <2>4, <2>5
<1>5. ASSUME NEW w \in Workers, LTrim(w) PROVE ChatTypeOK'
  <2>1. list' \in Seq(Messages)
    BY <1>5, TrimmedType DEF LTrim
  <2> QED
    BY <1>5, <2>1 DEF LTrim
<1>6. ASSUME NEW j \in Joiners, JoinRoom(j) PROVE ChatTypeOK'
  <2>1. step' \in [Joiners -> 1..3] /\ joinedAt' \in [Joiners -> 0..MaxSent]
    <3>1. /\ step[j] < 3 /\ step' = [step EXCEPT ![j] = @ + 1]
          /\ joinedAt' = [joinedAt EXCEPT ![j] = sent]
      BY <1>6 DEF JoinRoom
    <3>2. step' \in [Joiners -> 1..3]
      BY <3>1, StepsOn
    <3>3. joinedAt' \in [Joiners -> 0..MaxSent]
      BY <3>1
    <3> QED
      BY <3>2, <3>3
  <2>2. UNCHANGED <<sent, sending, queue, worker, list, pushed, lost, untrimmed,
                    got, late, faults>>
    BY <1>6 DEF JoinRoom
  <2> QED
    BY <2>1, <2>2
<1>7. ASSUME NEW j \in Joiners, LeaveRoom(j) PROVE ChatTypeOK'
  <2>1. /\ step' \in [Joiners -> 1..3] /\ joinedAt' \in [Joiners -> 0..MaxSent]
        /\ <<>> \in Seq(Messages)
    BY <1>7 DEF LeaveRoom
  <2>2. got' \in [Joiners -> Seq(Messages)]
    BY <1>7, <2>1 DEF LeaveRoom
  <2>3. late' \in [Joiners -> SUBSET Messages]
    BY <1>7 DEF LeaveRoom
  <2> QED
    BY <1>7, <2>1, <2>2, <2>3 DEF LeaveRoom
<1>8. ASSUME NEW j \in Joiners, SendChatHistory(j) PROVE ChatTypeOK'
  <2>1. PICK l \in Seq(Messages), d \in SUBSET (1..sent) :
          got' = [got EXCEPT ![j] = l] /\ late' = [late EXCEPT ![j] = d]
    <3>1. <<>> \in Seq(Messages)
      OBVIOUS
    <3> QED
      BY <1>8, <3>1 DEF SendChatHistory
  <2>2. d \in SUBSET Messages
    <3>1. sent \in 0..MaxSent
      OBVIOUS
    <3>2. \A i \in 1..sent : i \in 1..MaxSent
      BY <3>1
    <3> QED
      BY <1>m, <3>2
  <2>3. got' \in [Joiners -> Seq(Messages)]
    BY <2>1
  <2>4. late' \in [Joiners -> SUBSET Messages]
    BY <2>1, <2>2
  <2>5. step' \in [Joiners -> 1..3] /\ faults' \in 0..MaxFaults
    <3>1. /\ step[j] < 3 /\ step' = [step EXCEPT ![j] = @ + 1]
          /\ faults' = faults \/ (faults < MaxFaults /\ faults' = faults + 1)
      BY <1>8 DEF SendChatHistory
    <3>2. step' \in [Joiners -> 1..3]
      BY <3>1, StepsOn
    <3> QED
      BY <3>1, <3>2
  <2>6. UNCHANGED <<sent, sending, queue, worker, list, pushed, lost, untrimmed,
                    joinedAt>>
    BY <1>8 DEF SendChatHistory
  <2> QED
    BY <2>3, <2>4, <2>5, <2>6
<1>9. CASE Crash
  <2>1. Cardinality({w \in Workers : worker[w][1] = "trim"}) \in Nat
    BY FS_Subset, FS_CardinalityType
  <2>2. untrimmed' \in Nat /\ faults' \in 0..MaxFaults
    BY <1>9, <2>1 DEF Crash
  <2>3. lost' \subseteq Messages
    BY <1>9, <1>m DEF Crash
  <2>4. queue' \in Seq(Messages) /\ Len(queue') <= QueueCap
    BY <1>9 DEF Crash
  <2>5. got' \in [Joiners -> Seq(Messages)] /\ late' \in [Joiners -> SUBSET Messages]
    BY <1>9 DEF Crash
  <2>6. /\ step' \in [Joiners -> 1..3] /\ joinedAt' \in [Joiners -> 0..MaxSent]
        /\ sending' \in [Senders -> 0..MaxSent]
        /\ worker' \in [Workers -> {Idle} \cup ({"push", "trim"} \X Messages)]
    BY <1>9 DEF Crash
  <2> QED
    BY <1>9, <2>2, <2>3, <2>4, <2>5, <2>6 DEF Crash
<1>10. CASE UNCHANGED vars
  BY <1>10 DEF vars
<1> QED
  BY <1>1, <1>2, <1>3, <1>4, <1>5, <1>6, <1>7, <1>8, <1>9, <1>10 DEF Next, Work

LEMMA InitChatTypeOK == Init => ChatTypeOK
BY ChatAssumption DEF Init, ChatTypeOK, Messages, Idle

\* The variables keep their types; the queue never exceeds its capacity.
THEOREM ChatTypeCorrect == Spec => []ChatTypeOK
<1>1. ChatTypeOK /\ [Next]_vars => ChatTypeOK'
  BY NextChatTypeOK
<1> QED
  BY <1>1, InitChatTypeOK, PTL DEF Spec

-----------------------------------------------------------------------------
(* The length of the list. *)

\* The workers between RPUSH and LTRIM.
Trimming == {w \in Workers : worker[w][1] = "trim"}

LEMMA NextHistoryBounded ==
  ASSUME ChatTypeOK, HistoryBounded, [Next]_vars
  PROVE  HistoryBounded'
<1> USE ChatAssumption DEF HistoryBounded, Fault
<1>t. /\ Len(list) \in Nat /\ untrimmed \in Nat /\ DOMAIN worker = Workers
      /\ list \in Seq(Messages)
  BY DEF ChatTypeOK
<1>c. IsFiniteSet(Trimming) /\ Cardinality(Trimming) \in Nat
  BY FS_Subset, FS_CardinalityType DEF Trimming
<1>h. Len(list) <= MaxLen + untrimmed + Cardinality(Trimming)
  BY DEF Trimming
<1> SUFFICES Len(list') <= MaxLen + untrimmed' + Cardinality(Trimming')
  BY DEF Trimming
<1>1. ASSUME NEW w \in Workers, TakeJob(w)
      PROVE  Len(list') <= MaxLen + untrimmed' + Cardinality(Trimming')
  <2>1. Trimming' = Trimming
    BY <1>1, <1>t DEF TakeJob, Trimming, Idle
  <2> QED
    BY <1>1, <2>1, <1>h DEF TakeJob
<1>2. ASSUME NEW w \in Workers, RPush(w)
      PROVE  Len(list') <= MaxLen + untrimmed' + Cardinality(Trimming')
  <2> DEFINE m == worker[w][2]
  <2>1. w \notin Trimming /\ Len(list') \in Nat
    BY <1>2, NextChatTypeOK DEF RPush, Trimming, ChatTypeOK
  <2>2. Push(m) \/ UNCHANGED list => Len(list') <= Len(list) + 1
    BY <1>t DEF Push
  <2>3. CASE Trims(w, m) /\ UNCHANGED untrimmed
    <3>1. Trimming' = Trimming \cup {w}
      BY <2>3, <1>t DEF Trims, Trimming
    <3>2. Cardinality(Trimming') = Cardinality(Trimming) + 1
      BY <2>1, <3>1, <1>c, FS_AddElement
    <3> QED
      BY <1>2, <2>1, <2>2, <2>3, <3>2, <1>h, <1>t, <1>c DEF RPush
  <2>4. CASE UNCHANGED worker /\ untrimmed' = untrimmed + 1
    <3>1. Trimming' = Trimming
      BY <2>4 DEF Trimming
    <3> QED
      BY <1>2, <2>1, <2>2, <2>4, <3>1, <1>h, <1>t, <1>c DEF RPush
  <2> QED
    BY <1>2, <2>3, <2>4 DEF RPush
<1>3. ASSUME NEW w \in Workers, LTrim(w)
      PROVE  Len(list') <= MaxLen + untrimmed' + Cardinality(Trimming')
  <2>1. w \in Trimming /\ (Trimming' = Trimming \/ Trimming' = Trimming \ {w})
    BY <1>3, <1>t DEF LTrim, Trimming, Idle
  <2>2. /\ Cardinality(Trimming') \in Nat
        /\ Trimming' = Trimming \ {w} =>
             Cardinality(Trimming') = Cardinality(Trimming) - 1
    BY <2>1, <1>c, FS_RemoveElement, FS_CardinalityType
  <2>3. CASE list' = Trimmed(list) /\ untrimmed' = 0
    <3>1. Len(list') <= MaxLen /\ Len(list') \in Nat
      BY <2>3, <1>t, TrimmedType
    <3> QED
      BY <2>2, <2>3, <3>1
  <2>4. CASE /\ untrimmed' = untrimmed + 1 /\ UNCHANGED list
             /\ worker' = [worker EXCEPT ![w] = Idle]
    <3>1. Trimming' = Trimming \ {w}
      BY <2>4, <1>t DEF Trimming, Idle
    <3> QED
      BY <2>2, <2>4, <3>1, <1>h, <1>t, <1>c
  <2> QED
    BY <1>3, <2>3, <2>4 DEF LTrim
<1>4. CASE Crash
  <2>1. /\ untrimmed' = untrimmed + Cardinality(Trimming)
        /\ UNCHANGED list /\ Trimming' = {}
    BY <1>4 DEF Crash, Trimming, Idle
  <2>2. Cardinality(Trimming') = 0
    BY <2>1, FS_EmptySet
  <2> QED
    BY <2>1, <2>2, <1>h, <1>t, <1>c
<1>5. CASE UNCHANGED <<list, worker, untrimmed>>
  <2>1. Trimming' = Trimming
    BY <1>5 DEF Trimming
  <2> QED
    BY <1>5, <2>1, <1>h
<1> QED
  BY <1>1, <1>2, <1>3, <1>4, <1>5
  DEF Next, Work, BroadcastToRoom, CacheMessageAsync, JoinRoom, LeaveRoom,
      SendChatHistory, cache, vars

\* The list is at most as many messages too long as LTRIMs are due or lost.
THEOREM BoundedHistory == Spec => []HistoryBounded
<1> DEFINE Inv == ChatTypeOK /\ HistoryBounded
<1>1. Init => Inv
  <2> SUFFICES ASSUME Init PROVE HistoryBounded
    BY InitChatTypeOK
  <2>1. Trimming = {}
    BY DEF Init, Trimming, Idle
  <2>2. Cardinality(Trimming) = 0
    BY <2>1, FS_EmptySet
  <2> QED
    BY <2>2, ChatAssumption DEF Init, HistoryBounded, Trimming
<1>2. Inv /\ [Next]_vars => Inv'
  BY NextChatTypeOK, NextHistoryBounded
<1> QED
  BY <1>1, <1>2, PTL DEF Spec

-----------------------------------------------------------------------------
(* What the list holds. *)

LEMMA NextHistoryRecent ==
  ASSUME ChatTypeOK, HistoryRecent, [Next]_vars
  PROVE  HistoryRecent'
<1> USE ChatAssumption DEF HistoryRecent
<1>t. list \in Seq(Messages) /\ pushed \in Seq(Messages)
  BY DEF ChatTypeOK
<1>1. ASSUME NEW w \in Workers, RPush(w) PROVE HistoryRecent'
  <2> DEFINE m == worker[w][2]
  <2>1. CASE UNCHANGED <<list, pushed>>
    BY <2>1
  <2>2. CASE list' = Append(list, m) /\ pushed' = Append(pushed, m)
    <3>1. m \in Messages
      BY <1>1 DEF RPush, ChatTypeOK, Idle
    <3>2. /\ Len(list') = Len(list) + 1 /\ Len(pushed') = Len(pushed) + 1
          /\ Len(list) \in Nat /\ Len(pushed) \in Nat
      BY <2>2, <3>1, <1>t
    <3>3. ASSUME NEW i \in 1..Len(list')
          PROVE  list'[i] = pushed'[Len(pushed') - Len(list') + i]
      <4> DEFINE k == Len(pushed) - Len(list) + i
      <4>1. Len(pushed') - Len(list') + i = k /\ k \in 1..Len(pushed')
        BY <3>2
      <4>2. CASE i = Len(list) + 1
        <5>1. list'[i] = m
          BY <4>2, <2>2, <3>1, <1>t
        <5>2. k = Len(pushed) + 1
          BY <4>2, <3>2
        <5>3. pushed'[k] = m
          BY <5>2, <2>2, <3>1, <1>t
        <5> QED
          BY <4>1, <5>1, <5>3
      <4>3. CASE i \in 1..Len(list)
        <5>1. k \in 1..Len(pushed)
          BY <4>3, <3>2
        <5>2. list'[i] = list[i]
          BY <4>3, <2>2, <3>1, <1>t
        <5>3. pushed'[k] = pushed[k]
          BY <5>1, <2>2, <3>1, <1>t
        <5>4. list[i] = pushed[k]
          BY <4>3
        <5> QED
          BY <4>1, <5>2, <5>3, <5>4
      <4> QED
        BY <4>2, <4>3, <3>2
    <3> QED
      BY <3>2, <3>3
  <2> QED
    BY <1>1, <2>1, <2>2 DEF RPush, Push
<1>2. ASSUME NEW w \in Workers, LTrim(w) PROVE HistoryRecent'
  <2>1. CASE UNCHANGED <<list, pushed>>
    BY <2>1
  <2>2. CASE list' = Trimmed(list) /\ UNCHANGED pushed
    <3>1. /\ Len(list) \in Nat /\ Len(pushed) \in Nat /\ Len(list') \in Nat
          /\ Len(list') = IF Len(list) > MaxLen THEN MaxLen ELSE Len(list)
          /\ \A i \in 1..Len(list') :
               list'[i] = list[Len(list) - Len(list') + i]
      <4>1. Len(list) \in Nat /\ Len(pushed) \in Nat
        BY <1>t
      <4>2. /\ Trimmed(list) \in Seq(Messages)
            /\ Len(Trimmed(list)) = IF Len(list) > MaxLen THEN MaxLen ELSE Len(list)
            /\ \A i \in 1..Len(Trimmed(list)) :
                 Trimmed(list)[i] = list[Len(list) - Len(Trimmed(list)) + i]
        BY <1>t, TrimmedType, Zenon
      <4>3. Len(list') = IF Len(list) > MaxLen THEN MaxLen ELSE Len(list)
        BY <2>2, <4>2
      <4> QED
        BY <2>2, <4>1, <4>2, <4>3
    <3>2. ASSUME NEW i \in 1..Len(list')
          PROVE  list'[i] = pushed[Len(pushed) - Len(list') + i]
      <4>1. Len(list) - Len(list') + i \in 1..Len(list)
        BY <3>1
      <4>2. list[Len(list) - Len(list') + i]
              = pushed[Len(pushed) - Len(list) + (Len(list) - Len(list') + i)]
        BY <4>1
      <4>3. Len(pushed) - Len(list) + (Len(list) - Len(list') + i)
              = Len(pushed) - Len(list') + i
        BY <3>1
      <4> QED
        BY <4>2, <4>3, <3>1
    <3>3. Len(list') <= Len(pushed) /\ (Len(list') < MaxLen => Len(list') = Len(pushed))
      BY <3>1
    <3> QED
      BY <2>2, <3>2, <3>3
  <2> QED
    BY <1>2, <2>1, <2>2 DEF LTrim
<1>3. CASE UNCHANGED <<list, pushed>>
  BY <1>3
<1> QED
  BY <1>1, <1>2, <1>3
  DEF Next, Work, BroadcastToRoom, CacheMessageAsync, TakeJob, JoinRoom,
      LeaveRoom, SendChatHistory, Crash, cache, vars

\* The list holds the last pushes in their order, MaxLen of them for certain.
THEOREM RecentHistory == Spec => []HistoryRecent
<1> DEFINE Inv == ChatTypeOK /\ HistoryRecent
<1>1. Init => Inv
  BY InitChatTypeOK, ChatAssumption DEF Init, HistoryRecent
<1>2. Inv /\ [Next]_vars => Inv'
  BY NextChatTypeOK, NextHistoryRecent
<1> QED
  BY <1>1, <1>2, PTL DEF Spec

-----------------------------------------------------------------------------
(* What a new member is sent. *)

\* No message gets out of sight between its broadcast and the list.
Conserved == \A m \in 1..sent : m \in lost \/ Underway(m) \/ Recorded(m)

LEMMA NextConserved ==
  ASSUME ChatTypeOK, Conserved, [Next]_vars
  PROVE  Conserved'
<1> USE ChatAssumption DEF Conserved
<1>t. /\ queue \in Seq(Messages) /\ pushed \in Seq(Messages) /\ sent \in Nat
      /\ DOMAIN sending = Senders /\ DOMAIN worker = Workers
      /\ \A s \in Senders : sending[s] \in Nat
  BY ChatAssumption DEF ChatTypeOK
<1>1. ASSUME NEW s \in Senders, BroadcastToRoom(s) PROVE Conserved'
  <2>1. /\ sending' = [sending EXCEPT ![s] = sent + 1] /\ sending[s] = 0
        /\ sent' = sent + 1 /\ UNCHANGED <<queue, worker, pushed, lost>>
    BY <1>1 DEF BroadcastToRoom, cache
  <2>2. \A m \in 1..sent : Underway(m) => Underway(m)'
    BY <2>1, <1>t DEF Underway, Pushes, Recorded
  <2>3. \A m : m = sent + 1 => Underway(m)'
    BY <2>1, <1>t DEF Underway
  <2>4. \A m \in 1..sent' : m \in 1..sent \/ m = sent + 1
    BY <2>1, <1>t
  <2> QED
    BY <2>1, <2>2, <2>3, <2>4 DEF Recorded
<1>2. ASSUME NEW s \in Senders, CacheMessageAsync(s) PROVE Conserved'
  <2>1. /\ sending' = [sending EXCEPT ![s] = 0]
        /\ UNCHANGED <<sent, worker, pushed>>
        /\ \/ queue' = Append(queue, sending[s]) /\ UNCHANGED lost
           \/ lost' = lost \cup {sending[s]} /\ UNCHANGED queue
    BY <1>2 DEF CacheMessageAsync
  <2>2. sending[s] \in Messages
    BY <1>2 DEF CacheMessageAsync, ChatTypeOK, Messages
  <2>3. \A i \in 1..Len(queue) : i \in 1..Len(queue') /\ queue'[i] = queue[i]
    <3>1. CASE queue' = Append(queue, sending[s])
      BY <3>1, <2>2, <1>t, AppendKeeps
    <3>2. CASE UNCHANGED queue
      BY <3>2
    <3> QED
      BY <2>1, <3>1, <3>2
  <2>4. sending[s] \in lost' \/ \E i \in 1..Len(queue') : queue'[i] = sending[s]
    <3>1. CASE queue' = Append(queue, sending[s])
      <4>1. Len(queue) + 1 \in 1..Len(queue') /\ queue'[Len(queue) + 1] = sending[s]
        BY <3>1, <2>2, <1>t, AppendKeeps
      <4> QED
        BY <4>1
    <3> QED
      BY <2>1, <3>1
  <2>5. \A m : Underway(m) => m \in lost' \/ Underway(m)'
    <3>1. \A v \in Workers : \A m : Pushes(v, m)' <=> Pushes(v, m)
      BY <2>1 DEF Pushes
    <3>2. \A m : Recorded(m)' <=> Recorded(m)
      BY <2>1 DEF Recorded
    <3> QED
      BY <2>1, <2>3, <2>4, <3>1, <3>2, <1>t DEF Underway
  <2> QED
    BY <2>1, <2>5 DEF Recorded
<1>3. ASSUME NEW w \in Workers, TakeJob(w) PROVE Conserved'
  <2>1. /\ worker[w] = Idle /\ queue # <<>> /\ queue' = Tail(queue)
        /\ worker' = [worker EXCEPT ![w] = <<"push", Head(queue)>>]
        /\ UNCHANGED <<sent, sending, pushed, lost>>
    BY <1>3 DEF TakeJob
  <2>2. ASSUME NEW i \in 1..Len(queue)
        PROVE  \/ queue[i] = Head(queue)
               \/ \E k \in 1..Len(queue') : queue'[k] = queue[i]
    <3>1. CASE i = 1
      BY <3>1, <2>1, <1>t
    <3>2. CASE i # 1
      <4>1. i - 1 \in 1..Len(queue') /\ queue'[i - 1] = queue[i]
        BY <3>2, <2>1, <1>t
      <4> QED
        BY <4>1
    <3> QED
      BY <3>1, <3>2
  <2>3. \A m : m = Head(queue) => Pushes(w, m)'
    BY <2>1, <1>t DEF Pushes
  <2>4. \A v \in Workers : \A m : Pushes(v, m) => Pushes(v, m)'
    BY <2>1, <1>t DEF Pushes, Idle
  <2>5. \A m : Underway(m) => Underway(m)' \/ Recorded(m)'
    <3> SUFFICES ASSUME NEW m, Underway(m) PROVE Underway(m)' \/ Recorded(m)'
      OBVIOUS
    <3>1. CASE \E v \in Senders : sending[v] = m
      BY <2>1, <3>1 DEF Underway
    <3>2. CASE \E i \in 1..Len(queue) : queue[i] = m
      BY <2>2, <2>3, <3>2 DEF Underway
    <3>3. CASE \E v \in Workers : Pushes(v, m)
      BY <2>4, <3>3 DEF Underway
    <3> QED
      BY <3>1, <3>2, <3>3 DEF Underway
  <2> QED
    BY <2>1, <2>5 DEF Recorded
<1>4. ASSUME NEW w \in Workers, RPush(w) PROVE Conserved'
  <2> PICK n : n = worker[w][2]
    OBVIOUS
  <2>1. /\ worker[w][1] = "push" /\ (Trims(w, n) \/ UNCHANGED worker)
        /\ UNCHANGED <<sent, sending, queue>>
        /\ \/ pushed' = Append(pushed, n) /\ UNCHANGED lost
           \/ /\ lost' = IF Recorded(n) THEN lost ELSE lost \cup {n}
              /\ UNCHANGED pushed
    BY <1>4 DEF RPush, Push
  <2>2. n \in Messages
    BY <2>1 DEF ChatTypeOK, Idle
  <2>3. \A i \in 1..Len(pushed) : i \in 1..Len(pushed') /\ pushed'[i] = pushed[i]
    <3>1. CASE pushed' = Append(pushed, n)
      BY <3>1, <2>2, <1>t, AppendKeeps
    <3>2. CASE UNCHANGED pushed
      BY <3>2
    <3> QED
      BY <2>1, <3>1, <3>2
  <2>4. \A m : Recorded(m) => Recorded(m)'
    BY <2>3 DEF Recorded
  <2>5. n \in lost' \/ Recorded(n)'
    <3>1. CASE pushed' = Append(pushed, n)
      <4>1. Len(pushed) + 1 \in 1..Len(pushed') /\ pushed'[Len(pushed) + 1] = n
        BY <3>1, <2>2, <1>t, AppendKeeps
      <4> QED
        BY <4>1 DEF Recorded
    <3>2. CASE /\ lost' = IF Recorded(n) THEN lost ELSE lost \cup {n}
               /\ UNCHANGED pushed
      BY <3>2, <2>4
    <3> QED
      BY <2>1, <3>1, <3>2
  <2>6. \A m : Underway(m) => m = n \/ Underway(m)' \/ Recorded(m)'
    <3> SUFFICES ASSUME NEW m, Underway(m), m # n, ~Recorded(m)'
                 PROVE  Underway(m)'
      OBVIOUS
    <3>1. CASE \E v \in Workers : Pushes(v, m)
      <4>1. PICK v \in Workers : Pushes(v, m)
        BY <3>1
      <4>2. v # w
        BY <4>1 DEF Pushes
      <4>3. worker'[v] = worker[v]
        BY <2>1, <4>2, <1>t DEF Trims
      <4> QED
        BY <4>1, <4>3 DEF Underway, Pushes
    <3> QED
      BY <2>1, <3>1 DEF Underway
  <2>7. lost \subseteq lost'
    BY <2>1
  <2> QED
    BY <2>1, <2>4, <2>5, <2>6, <2>7
<1>5. ASSUME NEW w \in Workers, LTrim(w) PROVE Conserved'
  <2>1. /\ worker[w][1] = "trim"
        /\ worker' = [worker EXCEPT ![w] = Idle] \/ UNCHANGED worker
        /\ UNCHANGED <<sent, sending, queue, pushed, lost>>
    BY <1>5 DEF LTrim
  <2>2. \A v \in Workers : \A m : Pushes(v, m) => Pushes(v, m)'
    BY <2>1, <1>t DEF Pushes, Idle
  <2>3. \A m : Recorded(m)' <=> Recorded(m)
    BY <2>1 DEF Recorded
  <2>4. \A m : Underway(m) => Underway(m)'
    BY <2>1, <2>2, <2>3 DEF Underway
  <2> QED
    BY <2>1, <2>3, <2>4
<1>6. CASE Crash
  <2>1. /\ lost' = lost \cup {m \in 1..sent : Underway(m)}
        /\ UNCHANGED <<sent, pushed>>
    BY <1>6 DEF Crash
  <2> QED
    BY <2>1 DEF Recorded
<1>7. CASE UNCHANGED <<sent, sending, queue, worker, pushed, lost>>
  BY <1>7 DEF Underway, Pushes, Recorded
<1> QED
  BY <1>1, <1>2, <1>3, <1>4, <1>5, <1>6, <1>7
  DEF Next, Work, JoinRoom, LeaveRoom, SendChatHistory, cache, vars

\* Nobody entered the room after messages that are still to come.
JoinersKnow == \A j \in Joiners : joinedAt[j] <= sent

JoinInv ==
  /\ ChatTypeOK
  /\ HistoryRecent
  /\ Conserved
  /\ JoinersKnow
  /\ JoinerCaughtUp

LEMMA NextJoinersKnow ==
  ASSUME ChatTypeOK, JoinersKnow, [Next]_vars
  PROVE  JoinersKnow'
<1>t. /\ sent \in Nat /\ DOMAIN joinedAt = Joiners
      /\ \A j \in Joiners : joinedAt[j] \in Nat
  BY ChatAssumption DEF ChatTypeOK
<1>1. sent' \in {sent, sent + 1}
  BY DEF Next, Work, BroadcastToRoom, CacheMessageAsync, TakeJob, RPush, LTrim,
         JoinRoom, SendChatHistory, LeaveRoom, Crash, vars
<1>2. \A j \in Joiners : joinedAt'[j] \in {joinedAt[j], sent, 0}
  BY <1>t
  DEF Next, Work, BroadcastToRoom, CacheMessageAsync, TakeJob, RPush, LTrim,
      JoinRoom, SendChatHistory, LeaveRoom, Crash, joiner, vars
<1> QED
  BY <1>t, <1>1, <1>2 DEF JoinersKnow

LEMMA NextJoinerCaughtUp ==
  ASSUME JoinInv, [Next]_vars
  PROVE  JoinerCaughtUp'
<1> USE ChatAssumption DEF JoinerCaughtUp
<1>t. /\ DOMAIN step = Joiners /\ DOMAIN got = Joiners /\ DOMAIN late = Joiners
      /\ \A j \in Joiners : step[j] \in 1..3
      /\ list \in Seq(Messages) /\ pushed \in Seq(Messages) /\ sent \in Nat
      /\ \A j \in Joiners : joinedAt[j] \in Nat
  BY DEF JoinInv, ChatTypeOK
<1>1. ASSUME NEW j \in Joiners, SendChatHistory(j) PROVE JoinerCaughtUp'
  <2>1. /\ UNCHANGED <<lost, joinedAt>> /\ step' = [step EXCEPT ![j] = @ + 1]
        /\ \/ /\ got' = [got EXCEPT ![j] = list]
              /\ late' = [late EXCEPT ![j] = {m \in 1..sent : Underway(m)}]
           \/ /\ got' = [got EXCEPT ![j] = <<>>]
              /\ late' = [late EXCEPT ![j] = 1..sent]
    BY <1>1 DEF SendChatHistory, cache
  <2>2. ASSUME NEW m \in 1..joinedAt[j]
        PROVE  \/ m \in late'[j] \cup lost
               \/ \E i \in 1..Len(got'[j]) : got'[j][i] = m
               \/ Len(got'[j]) >= MaxLen
    <3>1. m \in 1..sent
      BY <1>t DEF JoinInv, JoinersKnow
    <3>2. CASE late'[j] = 1..sent
      BY <3>1, <3>2
    <3>3. CASE late'[j] = {k \in 1..sent : Underway(k)} /\ got'[j] = list
      <4>1. CASE m \in lost \/ Underway(m)
        BY <3>1, <3>3, <4>1
      <4>2. CASE Recorded(m) /\ Len(list) < MaxLen
        <5>1. Len(list) = Len(pushed) /\ Len(list) \in Nat
          BY <4>2, <1>t DEF JoinInv, HistoryRecent
        <5>2. \A i \in 1..Len(list) : list[i] = pushed[i]
          BY <5>1, <1>t DEF JoinInv, HistoryRecent
        <5> QED
          BY <3>3, <4>2, <5>1, <5>2 DEF Recorded
      <4>3. CASE ~(Len(list) < MaxLen)
        BY <3>3, <4>3, <1>t
      <4> QED
        BY <3>1, <4>1, <4>2, <4>3 DEF JoinInv, Conserved
    <3> QED
      BY <2>1, <3>2, <3>3, <1>t
  <2>3. \A k \in Joiners \ {j} :
          step'[k] = step[k] /\ got'[k] = got[k] /\ late'[k] = late[k]
    BY <2>1, <1>t
  <2> QED
    BY <2>1, <2>2, <2>3 DEF JoinInv
<1>2. ASSUME NEW j \in Joiners, JoinRoom(j) \/ LeaveRoom(j)
      PROVE  JoinerCaughtUp'
  <2>1. /\ UNCHANGED lost /\ step'[j] # 3
        /\ \A k \in Joiners \ {j} :
             /\ step'[k] = step[k] /\ got'[k] = got[k] /\ late'[k] = late[k]
             /\ joinedAt'[k] = joinedAt[k]
    <3>1. CASE JoinRoom(j)
      <4>1. step[j] = 1
        BY <3>1, <1>t DEF JoinRoom, Turn
      <4> QED
        BY <3>1, <4>1, <1>t DEF JoinRoom, cache
    <3>2. CASE LeaveRoom(j)
      BY <3>2, <1>t DEF LeaveRoom, cache
    <3> QED
      BY <1>2, <3>1, <3>2
  <2> QED
    BY <2>1 DEF JoinInv
<1>3. CASE Crash
  BY <1>3 DEF Crash
<1>4. CASE UNCHANGED joiner /\ lost \subseteq lost'
  BY <1>4 DEF joiner, JoinInv
<1> QED
  BY <1>1, <1>2, <1>3, <1>4
  DEF Next, Work, BroadcastToRoom, CacheMessageAsync, TakeJob, RPush, LTrim,
      cache, joiner, vars

\* A message that a new member does not find in its history is still on its
\* way to Redis, lost, or older than a full list.
THEOREM JoinersCatchUp == Spec => []JoinerCaughtUp
<1>1. Init => JoinInv
  BY InitChatTypeOK, ChatAssumption
  DEF Init, JoinInv, HistoryRecent, Conserved, JoinersKnow, JoinerCaughtUp
<1>2. JoinInv /\ [Next]_vars => JoinInv'
  BY NextChatTypeOK, NextHistoryRecent, NextConserved, NextJoinersKnow,
     NextJoinerCaughtUp DEF JoinInv
<1>3. JoinInv => JoinerCaughtUp
  BY DEF JoinInv
<1> QED
  BY <1>1, <1>2, <1>3, PTL DEF Spec

\* No message vanishes on its way through queue and workers: one that is not
\* in the history is under way to it, or was dropped, or fell to a fault.
THEOREM NothingVanishes == Spec => []Conserved
<1> DEFINE Inv == ChatTypeOK /\ Conserved
<1>1. Init => Inv
  BY InitChatTypeOK, ChatAssumption DEF Init, Conserved
<1>2. Inv /\ [Next]_vars => Inv'
  BY NextChatTypeOK, NextConserved
<1> QED
  BY <1>1, <1>2, PTL DEF Spec

-----------------------------------------------------------------------------
(* Refinement of RoomLog. *)

Unique(q)   == \A i, k \in 1..Len(q) : q[i] = q[k] => i = k
Holds(q, m) == \E i \in 1..Len(q) : q[i] = m

\* A message is on one way to the history, and unless it is being pushed it is
\* not there already.
AtOnePlace(m) ==
  /\ \A s, t \in Senders : sending[s] = m /\ sending[t] = m => s = t
  /\ \A v, w \in Workers : Pushes(v, m) /\ Pushes(w, m) => v = w
  /\ \A s \in Senders : sending[s] = m =>
       ~Holds(queue, m) /\ ~Holds(pushed, m) /\ \A w \in Workers : ~Pushes(w, m)
  /\ Holds(queue, m) => ~Holds(pushed, m) /\ \A w \in Workers : ~Pushes(w, m)
  /\ m > sent =>
       /\ \A s \in Senders : sending[s] # m
       /\ \A w \in Workers : ~Pushes(w, m)
       /\ ~Holds(queue, m) /\ ~Holds(pushed, m)

\* No message takes two ways to the history or the same way twice.
Once == Unique(queue) /\ \A m \in Messages : AtOnePlace(m)

LEMMA AppendOnce ==
  ASSUME NEW q \in Seq(Messages), NEW n \in Messages, NEW k, k = Append(q, n)
  PROVE  /\ Unique(q) /\ ~Holds(q, n) => Unique(k)
         /\ \A m : Holds(k, m) <=> Holds(q, m) \/ m = n
<1>1. /\ Len(k) = Len(q) + 1 /\ Len(q) \in Nat
      /\ k[Len(q) + 1] = n /\ \A i \in 1..Len(q) : k[i] = q[i]
  OBVIOUS
<1>2. \A i : i \in 1..Len(k) <=> i \in 1..Len(q) \/ i = Len(q) + 1
  BY <1>1
<1>3. Unique(q) /\ ~Holds(q, n) => Unique(k)
  BY <1>1, <1>2 DEF Unique, Holds
<1>4. \A m : Holds(k, m) <=> Holds(q, m) \/ m = n
  BY <1>1, <1>2 DEF Holds
<1> QED
  BY <1>3, <1>4

LEMMA PushHolds ==
  ASSUME pushed \in Seq(Messages), NEW n \in Messages, pushed' = Append(pushed, n)
  PROVE  /\ Holds(pushed', n)
         /\ \A m : Holds(pushed', m) <=> Holds(pushed, m) \/ m = n
<1>1. \A m : Holds(pushed', m) <=> Holds(pushed, m) \/ m = n
  BY AppendOnce, Zenon
<1> QED
  BY <1>1

LEMMA TailOnce ==
  ASSUME NEW q \in Seq(Messages), q # <<>>, Unique(q)
  PROVE  /\ Unique(Tail(q)) /\ Head(q) \in Messages
         /\ Holds(q, Head(q)) /\ ~Holds(Tail(q), Head(q))
         /\ \A m : Holds(Tail(q), m) => Holds(q, m)
<1>1. /\ Len(q) \in Nat \ {0} /\ Len(Tail(q)) = Len(q) - 1 /\ Head(q) = q[1]
      /\ \A i \in 1..Len(Tail(q)) : Tail(q)[i] = q[i + 1]
      /\ Head(q) \in Messages
  OBVIOUS
<1>2. 1 \in 1..Len(q) /\ \A i \in 1..Len(Tail(q)) : i + 1 \in 1..Len(q) /\ i + 1 # 1
  BY <1>1
<1>3. Unique(Tail(q))
  <2> SUFFICES ASSUME NEW i \in 1..Len(Tail(q)), NEW k \in 1..Len(Tail(q)),
                      Tail(q)[i] = Tail(q)[k]
               PROVE  i = k
    BY DEF Unique
  <2>1. i + 1 = k + 1
    BY <1>1, <1>2 DEF Unique
  <2> QED
    BY <2>1
<1>4. Holds(q, Head(q)) /\ ~Holds(Tail(q), Head(q))
  BY <1>1, <1>2 DEF Unique, Holds
<1>5. \A m : Holds(Tail(q), m) => Holds(q, m)
  BY <1>1, <1>2 DEF Holds
<1> QED
  BY <1>1, <1>3, <1>4, <1>5

LEMMA NextOnce ==
  ASSUME ChatTypeOK, Once, [Next]_vars
  PROVE  Once'
<1> USE ChatAssumption DEF Once, AtOnePlace, Pushes
<1>t. /\ queue \in Seq(Messages) /\ pushed \in Seq(Messages) /\ sent \in Nat
      /\ DOMAIN sending = Senders /\ DOMAIN worker = Workers
      /\ \A m \in Messages : m \in Nat /\ m # 0
  BY DEF ChatTypeOK, Messages
<1>1. ASSUME NEW s \in Senders, BroadcastToRoom(s) PROVE Once'
  <2>1. /\ sending' = [sending EXCEPT ![s] = sent + 1]
        /\ sent' = sent + 1 /\ UNCHANGED <<queue, worker, pushed>>
    BY <1>1 DEF BroadcastToRoom, cache
  <2>2. ASSUME NEW m \in Messages PROVE AtOnePlace(m)'
    <3>1. CASE m = sent + 1
      <4>1. m > sent /\ ~(m > sent')
        BY <2>1, <3>1, <1>t
      <4>2. \A t \in Senders : sending'[t] = m => t = s
        BY <2>1, <4>1, <1>t
      <4> QED
        BY <2>1, <4>1, <4>2, <1>t DEF Holds
    <3>2. CASE m # sent + 1
      <4>1. \A t \in Senders : sending'[t] = m => sending[t] = m
        BY <2>1, <3>2, <1>t
      <4>2. m > sent' => m > sent
        BY <2>1, <1>t
      <4> QED
        BY <2>1, <4>1, <4>2 DEF Holds
    <3> QED
      BY <3>1, <3>2
  <2> QED
    BY <2>1, <2>2 DEF Unique
<1>2. ASSUME NEW s \in Senders, CacheMessageAsync(s) PROVE Once'
  <2> DEFINE n == sending[s]
  <2>1. /\ sending' = [sending EXCEPT ![s] = 0]
        /\ UNCHANGED <<sent, worker, pushed>>
        /\ queue' = Append(queue, n) \/ UNCHANGED queue
    BY <1>2 DEF CacheMessageAsync
  <2>2. n \in Messages
    BY <1>2 DEF CacheMessageAsync, ChatTypeOK, Messages
  <2>3. /\ Unique(queue')
        /\ \A m \in Messages : Holds(queue', m) => Holds(queue, m) \/ m = n
    <3>1. CASE queue' = Append(queue, n)
      <4>1. ~Holds(queue, n)
        BY <2>2
      <4> HIDE DEF n
      <4> QED
        BY <3>1, <4>1, <2>2, <1>t, AppendOnce
    <3> QED
      BY <2>1, <3>1
  <2>4. \A t \in Senders, m \in Messages :
          sending'[t] = m => sending[t] = m /\ m # n
    BY <2>1, <1>t
  <2> QED
    BY <2>1, <2>2, <2>3, <2>4 DEF Unique, Holds
<1>3. ASSUME NEW w \in Workers, TakeJob(w) PROVE Once'
  <2> DEFINE n == Head(queue)
  <2>1. /\ worker[w] = Idle /\ queue # <<>> /\ queue' = Tail(queue)
        /\ worker' = [worker EXCEPT ![w] = <<"push", n>>]
        /\ UNCHANGED <<sent, sending, pushed>>
    BY <1>3 DEF TakeJob
  <2>2. /\ Unique(queue') /\ n \in Messages
        /\ Holds(queue, n) /\ ~Holds(queue', n)
        /\ \A m : Holds(queue', m) => Holds(queue, m)
    BY <2>1, <1>t, TailOnce
  <2>3. \A v \in Workers, m \in Messages :
          Pushes(v, m)' => Pushes(v, m) \/ (v = w /\ m = n)
    BY <2>1, <1>t
  <2> HIDE DEF n, Pushes
  <2> QED
    BY <2>1, <2>2, <2>3 DEF Unique, Holds
<1>4. ASSUME NEW w \in Workers, RPush(w) PROVE Once'
  <2> PICK n : n = worker[w][2]
    OBVIOUS
  <2>1. /\ worker[w][1] = "push" /\ (Trims(w, n) \/ UNCHANGED worker)
        /\ UNCHANGED <<sent, sending, queue>>
        /\ pushed' = Append(pushed, n) \/ UNCHANGED pushed
    BY <1>4 DEF RPush, Push
  <2>2. n \in Messages /\ Pushes(w, n)
    BY <2>1 DEF ChatTypeOK, Idle
  <2>3. \A v \in Workers, m \in Messages : Pushes(v, m)' => Pushes(v, m)
    <3>1. CASE Trims(w, n)
      BY <1>t, <3>1 DEF Trims
    <3> QED
      BY <2>1, <3>1
  <2> HIDE DEF Pushes
  <2>4. \A m \in Messages : Holds(pushed', m) => Holds(pushed, m) \/ m = n
    <3>1. CASE pushed' = Append(pushed, n)
      BY <3>1, <2>2, <1>t, PushHolds
    <3> QED
      BY <2>1, <3>1
  <2>5. Unique(queue') /\ \A m \in Messages : Holds(queue', m) <=> Holds(queue, m)
    BY <2>1
  <2>6. ASSUME NEW m \in Messages PROVE AtOnePlace(m)'
    <3>1. CASE m = n
      BY <3>1, <2>1, <2>2, <2>3, <2>5
    <3>2. CASE m # n
      BY <3>2, <2>1, <2>3, <2>4, <2>5
    <3> QED
      BY <3>1, <3>2
  <2> QED
    BY <2>5, <2>6
<1>5. ASSUME NEW w \in Workers, LTrim(w) PROVE Once'
  <2>1. /\ worker' = [worker EXCEPT ![w] = Idle] \/ UNCHANGED worker
        /\ UNCHANGED <<sent, sending, queue, pushed>>
    BY <1>5 DEF LTrim
  <2>2. ASSUME NEW v \in Workers, NEW m, Pushes(v, m)' PROVE Pushes(v, m)
    <3>1. worker'[v] = <<"push", m>> /\ worker'[v] # Idle
      BY <2>2 DEF Idle
    <3>2. worker'[v] = worker[v]
      BY <2>1, <3>1, <1>t
    <3> QED
      BY <3>1, <3>2
  <2> HIDE DEF Pushes
  <2>3. \A v \in Workers, m \in Messages : Pushes(v, m)' => Pushes(v, m)
    BY <2>2
  <2> QED
    BY <2>1, <2>3 DEF Unique, Holds
<1>6. CASE Crash
  <2>1. /\ sending' = [s \in Senders |-> 0] /\ queue' = <<>>
        /\ worker' = [w \in Workers |-> Idle] /\ UNCHANGED <<sent, pushed>>
    BY <1>6 DEF Crash
  <2>2. /\ \A s \in Senders, m \in Messages : sending'[s] # m
        /\ \A v \in Workers, m \in Messages : ~Pushes(v, m)'
        /\ \A m : ~Holds(queue', m)
    BY <2>1, <1>t DEF Idle, Holds
  <2> HIDE DEF Pushes
  <2> QED
    BY <2>1, <2>2 DEF Unique, Holds
<1>7. CASE UNCHANGED <<sent, sending, queue, worker, pushed>>
  BY <1>7 DEF Unique, Holds
<1> QED
  BY <1>1, <1>2, <1>3, <1>4, <1>5, <1>6, <1>7
  DEF Next, Work, JoinRoom, LeaveRoom, SendChatHistory, cache, vars

\* The list is how the history ends.
LEMMA ListIsLast ==
  ASSUME ChatTypeOK, HistoryRecent
  PROVE  /\ Len(list) \in 0..Len(pushed)
         /\ list = SubSeq(pushed, Len(pushed) - Len(list) + 1, Len(pushed))
<1> DEFINE n == Len(list)
           k == Len(pushed)
<1>1. list \in Seq(Messages) /\ pushed \in Seq(Messages) /\ n \in Nat /\ k \in Nat
  BY DEF ChatTypeOK
<1>2. n <= k /\ \A i \in 1..n : list[i] = pushed[k - n + i]
  BY DEF HistoryRecent
<1>3. \A i \in (k - n + 1)..k : pushed[i] \in Messages
  BY <1>1, <1>2
<1>4. /\ SubSeq(pushed, k - n + 1, k) \in Seq(Messages)
      /\ Len(SubSeq(pushed, k - n + 1, k)) = n
      /\ \A i \in 1..n : SubSeq(pushed, k - n + 1, k)[i] = pushed[k - n + i]
  <2>1. k - n + 1 \in Int /\ k \in Int
    BY <1>1
  <2> DEFINE f == k - n + 1
             q == SubSeq(pushed, f, k)
  <2>2. /\ q \in Seq(Messages) /\ Len(q) = IF f <= k THEN k - f + 1 ELSE 0
        /\ \A i \in 1..(k - f + 1) : q[i] = pushed[f + i - 1]
    <3> HIDE DEF n, k
    <3> QED
      BY <2>1, <1>3, SubSeqProperties
  <2>3. k - f + 1 = n /\ (f > k => n = 0) /\ \A i \in 1..n : f + i - 1 = k - n + i
    BY <1>1, <1>2
  <2> QED
    BY <2>2, <2>3, <1>1
<1> HIDE DEF n, k
<1>5. \A i \in 1..n : list[i] = SubSeq(pushed, k - n + 1, k)[i]
  BY <1>2, <1>4
<1>6. list = SubSeq(pushed, k - n + 1, k)
  BY <1>1, <1>4, <1>5, SeqEqual DEF n
<1> QED
  BY <1>1, <1>2, <1>6 DEF n, k

\* What the workers do to the messages whose RPUSH is being sent again.
LEMMA NextInDoubt ==
  ASSUME ChatTypeOK, Once, NEW w \in Workers
  PROVE  /\ TakeJob(w) \/ LTrim(w) => InDoubt' = InDoubt
         /\ RPush(w) =>
              InDoubt' = IF UNCHANGED worker THEN InDoubt \cup {worker[w][2]}
                                             ELSE InDoubt \ {worker[w][2]}
<1> USE DEF Once, AtOnePlace
<1>t. /\ queue \in Seq(Messages) /\ pushed \in Seq(Messages)
      /\ DOMAIN worker = Workers
  BY DEF ChatTypeOK
<1>1. ASSUME TakeJob(w) PROVE InDoubt' = InDoubt
  <2> DEFINE n == Head(queue)
  <2>1. /\ worker[w] = Idle /\ queue # <<>> /\ UNCHANGED pushed
        /\ worker' = [worker EXCEPT ![w] = <<"push", n>>]
    BY <1>1 DEF TakeJob
  <2>2. n \in Messages /\ Holds(queue, n)
    BY <2>1, <1>t, TailOnce
  <2>3. ~Recorded(n) /\ \A m : Recorded(m)' <=> Recorded(m)
    BY <2>1, <2>2 DEF Recorded, Holds
  <2>4. \A v \in Workers, m \in Messages : m # n => (Pushes(v, m)' <=> Pushes(v, m))
    <3>1. \A m \in Messages : m # n => ~Pushes(w, m) /\ ~Pushes(w, m)'
      BY <2>1, <1>t DEF Pushes, Idle
    <3>2. \A v \in Workers : v # w => worker'[v] = worker[v]
      BY <2>1, <1>t
    <3> QED
      BY <3>1, <3>2 DEF Pushes
  <2> HIDE DEF n
  <2>5. ASSUME NEW m \in Messages PROVE m \in InDoubt' <=> m \in InDoubt
    BY <2>3, <2>4 DEF InDoubt
  <2> QED
    BY <2>5 DEF InDoubt
<1>2. ASSUME LTrim(w) PROVE InDoubt' = InDoubt
  <2>1. /\ worker[w][1] = "trim" /\ UNCHANGED pushed
        /\ worker' = [worker EXCEPT ![w] = Idle] \/ UNCHANGED worker
    BY <1>2 DEF LTrim
  <2>2. \A v \in Workers, m \in Messages : Pushes(v, m)' <=> Pushes(v, m)
    BY <2>1, <1>t DEF Pushes, Idle
  <2>3. \A m : Recorded(m)' <=> Recorded(m)
    BY <2>1 DEF Recorded
  <2> QED
    BY <2>2, <2>3 DEF InDoubt
<1>3. ASSUME RPush(w)
      PROVE  InDoubt' = IF UNCHANGED worker THEN InDoubt \cup {worker[w][2]}
                                            ELSE InDoubt \ {worker[w][2]}
  <2> PICK n : n = worker[w][2]
    OBVIOUS
  <2>1. /\ n \in Messages /\ Pushes(w, n) /\ worker[w][1] = "push"
        /\ \/ Trims(w, n) /\ (UNCHANGED pushed \/ pushed' = Append(pushed, n))
           \/ UNCHANGED worker /\ pushed' = Append(pushed, n)
    BY <1>3 DEF RPush, Push, ChatTypeOK, Idle, Pushes
  <2>2. \A m \in Messages : m # n => (Recorded(m)' <=> Recorded(m))
    <3>1. \A m \in Messages : m # n => (Holds(pushed', m) <=> Holds(pushed, m))
      BY <2>1, <1>t, AppendOnce
    <3> QED
      BY <3>1 DEF Recorded, Holds
  <2>3. CASE Trims(w, n)
    <3>1. ~UNCHANGED worker
      BY <2>1, <2>3, <1>t DEF Trims
    <3>2. \A v \in Workers, m \in Messages :
            Pushes(v, m)' <=> Pushes(v, m) /\ v # w
      BY <2>3, <1>t DEF Trims, Pushes
    <3>3. \A v \in Workers : Pushes(v, n) => v = w
      BY <2>1
    <3>4. \A m \in Messages : m # n => ~Pushes(w, m)
      BY <2>1 DEF Pushes
    <3>5. ASSUME NEW m \in Messages PROVE m \in InDoubt' <=> m \in InDoubt \ {n}
      BY <2>2, <3>2, <3>3, <3>4 DEF InDoubt
    <3>6. InDoubt' = InDoubt \ {n}
      <4>1. InDoubt \subseteq Messages /\ InDoubt' \subseteq Messages
        BY DEF InDoubt
      <4> QED
        BY <3>5, <4>1
    <3> QED
      BY <3>1, <3>6
  <2>4. CASE UNCHANGED worker /\ pushed' = Append(pushed, n)
    <3>1. Recorded(n)'
      <4>1. Holds(pushed', n)
        BY <2>1, <2>4, <1>t, PushHolds
      <4> QED
        BY <4>1 DEF Recorded, Holds
    <3>2. \A v \in Workers, m \in Messages : Pushes(v, m)' <=> Pushes(v, m)
      BY <2>4 DEF Pushes
    <3>3. ASSUME NEW m \in Messages PROVE m \in InDoubt' <=> m \in InDoubt \cup {n}
      BY <2>1, <2>2, <3>1, <3>2 DEF InDoubt
    <3>4. InDoubt' = InDoubt \cup {n}
      BY <2>1, <3>3 DEF InDoubt
    <3> QED
      BY <2>4, <3>4
  <2> QED
    BY <2>1, <2>3, <2>4
<1> QED
  BY <1>1, <1>2, <1>3

LEMMA NextLog ==
  ASSUME ChatTypeOK, HistoryRecent, Once, [Next]_vars
  PROVE  [Log!Next]_(Log!logVars)
<1> USE ChatAssumption DEF cache, joiner, Log!logVars
<1>t. DOMAIN got = Joiners /\ got = [j \in Joiners |-> got[j]]
  BY DEF ChatTypeOK
<1>d. UNCHANGED <<worker, pushed>> => InDoubt' = InDoubt
  BY DEF InDoubt, Recorded, Pushes
<1>f. UNCHANGED <<sent, pushed, got, InDoubt>> /\ Fault => Log!Next
  <2> SUFFICES ASSUME UNCHANGED <<sent, pushed, got, InDoubt>>, Fault
               PROVE  Log!Fail({}, {})
    BY DEF Log!Next
  <2> QED
    BY <1>t DEF Log!Fail, Log!Without, Fault
<1>1. ASSUME NEW s \in Senders, BroadcastToRoom(s) PROVE Log!Next
  BY <1>1, <1>d DEF BroadcastToRoom, Log!Post, Log!Next
<1>2. ASSUME NEW w \in Workers, RPush(w) PROVE Log!Next
  <2> PICK n : n = worker[w][2]
    OBVIOUS
  <2>1. /\ n \in Messages /\ Pushes(w, n) /\ worker[w][1] = "push"
        /\ UNCHANGED <<sent, got>>
    BY <1>2 DEF RPush, ChatTypeOK, Idle, Pushes
  <2>2. n \in 1..sent /\ (n \in InDoubt \/ \A i \in 1..Len(pushed) : pushed[i] # n)
    <3>1. ~(n > sent)
      BY <2>1 DEF Once, AtOnePlace
    <3>2. n \in 1..sent
      BY <2>1, <3>1 DEF ChatTypeOK, Messages
    <3> QED
      BY <2>1, <3>2 DEF InDoubt, Recorded
  <2>3. InDoubt' = IF UNCHANGED worker THEN InDoubt \cup {n} ELSE InDoubt \ {n}
    BY <1>2, NextInDoubt
  <2>4. Trims(w, n) => ~UNCHANGED worker
    BY <2>1 DEF Trims, ChatTypeOK
  <2>5. \/ /\ pushed' = Append(pushed, n)
           /\ (Fine /\ Trims(w, n)) \/ (Fault /\ UNCHANGED worker)
        \/ UNCHANGED pushed /\ Fault /\ Trims(w, n)
    BY <1>2 DEF RPush, Push
  <2>6. CASE /\ pushed' = Append(pushed, n)
             /\ (Fine /\ Trims(w, n)) \/ (Fault /\ UNCHANGED worker)
    <3>1. \/ InDoubt' = InDoubt \ {n} /\ UNCHANGED faults
          \/ InDoubt' = InDoubt \cup {n} /\ faults' = faults + 1
      BY <2>3, <2>4, <2>6 DEF Fault
    <3>2. Log!Record(n)
      BY <2>1, <2>2, <2>6, <3>1 DEF Log!Record
    <3> QED
      BY <2>2, <3>2 DEF Log!Next
  <2>7. CASE UNCHANGED pushed /\ Fault /\ Trims(w, n)
    <3>1. InDoubt' = InDoubt \ (InDoubt \cap {n})
      BY <2>3, <2>4, <2>7
    <3>2. Log!Fail({}, InDoubt \cap {n})
      BY <2>1, <2>7, <3>1, <1>t DEF Log!Fail, Log!Without, Fault
    <3> QED
      BY <3>2 DEF Log!Next
  <2> QED
    BY <2>5, <2>6, <2>7, Zenon
<1>3. ASSUME NEW j \in Joiners, SendChatHistory(j) PROVE Log!Next
  <2>1. /\ UNCHANGED <<sent, pushed>> /\ InDoubt' = InDoubt
        /\ \/ got' = [got EXCEPT ![j] = list] /\ UNCHANGED faults
           \/ got' = [got EXCEPT ![j] = <<>>] /\ faults' = faults + 1
    BY <1>3, <1>d DEF SendChatHistory, Fault
  <2>2. CASE got' = [got EXCEPT ![j] = list] /\ UNCHANGED faults
    <3> DEFINE n == Len(list)
    <3>1. n \in 0..Len(pushed) /\ list = Log!Last(n)
      BY ListIsLast DEF Log!Last
    <3>2. n < MaxLen => n = Len(pushed)
      BY DEF HistoryRecent
    <3> HIDE DEF n
    <3>3. Log!Show(j, n)
      BY <2>1, <2>2, <3>1, <3>2 DEF Log!Show
    <3> QED
      BY <3>1, <3>3 DEF Log!Next
  <2>3. CASE got' = [got EXCEPT ![j] = <<>>] /\ faults' = faults + 1
    <3>1. Log!Fail({j}, {})
      BY <2>1, <2>3, <1>t DEF Log!Fail, Log!Without
    <3> QED
      BY <3>1 DEF Log!Next
  <2> QED
    BY <2>1, <2>2, <2>3
<1>4. ASSUME NEW j \in Joiners, LeaveRoom(j) PROVE Log!Next
  <2>1. Log!Hide(j)
    BY <1>4, <1>t, <1>d DEF LeaveRoom, Log!Hide, Log!Without
  <2> QED
    BY <2>1 DEF Log!Next
<1>5. CASE Crash
  <2>1. InDoubt' = {}
    BY <1>5 DEF Crash, InDoubt, Pushes, Idle
  <2>2. Log!Fail(Joiners, InDoubt)
    BY <1>5, <1>t, <2>1 DEF Crash, Fault, Log!Fail, Log!Without
  <2> QED
    BY <2>2 DEF Log!Next
<1>6. ASSUME NEW w \in Workers, LTrim(w) PROVE [Log!Next]_(Log!logVars)
  <2>1. UNCHANGED <<sent, pushed, got>> /\ InDoubt' = InDoubt /\ (Fine \/ Fault)
    BY <1>6, NextInDoubt DEF LTrim
  <2> QED
    BY <2>1, <1>f
<1>7. ASSUME NEW w \in Workers, TakeJob(w) PROVE UNCHANGED Log!logVars
  BY <1>7, NextInDoubt DEF TakeJob
<1>8. CASE UNCHANGED <<sent, pushed, got, worker, faults>>
  BY <1>8, <1>d
<1> QED
  BY <1>1, <1>2, <1>3, <1>4, <1>5, <1>6, <1>7, <1>8
  DEF Next, Work, CacheMessageAsync, JoinRoom, vars

\* The history is a log that records no message too early, and again only when
\* the reply to its RPUSH was lost, each time at the cost of a fault; its
\* readers see its end, whatever fails on the way from the sender to the list.
THEOREM HistoryImplementsLog == Spec => ImplementsLog
<1> DEFINE Inv == ChatTypeOK /\ HistoryRecent /\ Once
<1>1. Init => Inv /\ Log!Init
  <2> SUFFICES ASSUME Init PROVE Inv /\ Log!Init
    OBVIOUS
  <2>1. HistoryRecent /\ Log!Init
    BY ChatAssumption DEF Init, HistoryRecent, Log!Init, InDoubt, Recorded
  <2>2. /\ \A s \in Senders, m \in Messages : sending[s] # m
        /\ \A w \in Workers, m \in Messages : ~Pushes(w, m)
        /\ \A m : ~Holds(queue, m) /\ ~Holds(pushed, m)
    BY DEF Init, Pushes, Idle, Holds, Messages
  <2>3. Unique(queue)
    BY DEF Init, Unique
  <2> QED
    BY InitChatTypeOK, <2>1, <2>2, <2>3 DEF Once, AtOnePlace
<1>2. Inv /\ [Next]_vars => Inv'
  BY NextChatTypeOK, NextHistoryRecent, NextOnce
<1>3. Inv /\ [Next]_vars => [Log!Next]_(Log!logVars)
  BY NextLog
<1> QED
  BY <1>1, <1>2, <1>3, PTL DEF Spec, ImplementsLog, Log!LogSpec

=============================================================================
