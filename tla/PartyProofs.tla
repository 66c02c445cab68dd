---------------------------- MODULE PartyProofs ----------------------------
(***************************************************************************)
(* Theorems about Party, for every number of users, parties and requests.  *)
(* The bound on the counter and the type invariant hold for any clients;   *)
(* what relates the counter to the member table assumes SerialUsers, and   *)
(* run party_double_leave shows that it fails without.                     *)
(***************************************************************************)
EXTENDS Party, FiniteSetTheorems, TLAPS

\* The parts of an action that have a name of their own are always expanded.
USE DEF Unlocked, InitialPlayernum, AfterDelete, Undo

(***************************************************************************)
(* The strengthening that makes the properties inductive.                  *)
(***************************************************************************)

\* The lock of a party is held by the join that is between its statements.
LockHeld ==
  \A p \in Parties, r \in Requests :
    rowLock[p] = r <=> At(r, "join_insert", p)

\* A locked party is live: DeleteRow waits for the lock.
LockedLive == \A p \in Parties : rowLock[p] # None => status[p] = "live"

AbsentEmpty ==
  \A p \in Parties : status[p] = "absent" => playernum[p] = 0

LockInv == LockHeld /\ LockedLive /\ AbsentEmpty

\* The row of a leaver is there until it deletes it, and then stays away:
\* nobody else's request touches it (SerialUsers).
LeaverRow ==
  \A r \in Requests :
    /\ pc[r] = "leave_delete" => member[arg[r]][UserOf[r]] # "none"
    /\ pc[r] = "leave_decrement" => member[arg[r]][UserOf[r]] = "none"

\* Only the owner is in the middle of creating or deleting a party, and
\* under SerialUsers not of both: a party being created is still live.
OwnersAct ==
  \A r \in Requests :
    /\ pc[r] \in {"create_member", "delete_members", "delete_row"}
         => owner[arg[r]] = UserOf[r] /\ status[arg[r]] # "absent"
    /\ pc[r] = "create_member" => status[arg[r]] = "live"

\* The counter of a party never undercounts, and is exact until a
\* statement fails.
Counted(p) ==
  /\ Cardinality(Holders(p)) <= Committed(p)
  /\ ~failed /\ status[p] = "live"
       => Cardinality(Holders(p)) = Committed(p)

IInv ==
  /\ TypeOK
  /\ LockInv
  /\ LeaverRow
  /\ OwnersAct
  /\ PlayernumWithinCapacity
  /\ \A p \in Parties : Counted(p)

-----------------------------------------------------------------------------
(* The type invariant and the bound on the counter. *)

LEMMA InitTypeOK == Init => TypeOK
<1> SUFFICES ASSUME Init PROVE TypeOK
  OBVIOUS
<1>1. failed \in BOOLEAN
  BY DEF Init
<1> QED
  BY <1>1, PartyAssumption DEF Init, TypeOK, Labels, RowStates

LEMMA NextTypeOK == TypeOK /\ [Next]_vars => TypeOK'
<1> SUFFICES ASSUME TypeOK, [Next]_vars PROVE TypeOK'
  OBVIOUS
<1> USE PartyAssumption DEF TypeOK, Labels, RowStates, Goto, Return, Receive,
                            InsertMember, Unlock, Rollback, rows
<1>1. ASSUME NEW r \in Requests, NEW p \in Parties, NEW n \in MaxNums,
             CreateRow(r, p, n)
      PROVE  TypeOK'
  BY <1>1 DEF CreateRow
<1>2. ASSUME NEW r \in Requests, CreateMember(r) PROVE TypeOK'
  BY <1>2 DEF CreateMember
<1>3. ASSUME NEW r \in Requests, NEW p \in Parties, JoinCheck(r, p)
      PROVE  TypeOK'
  BY <1>3 DEF JoinCheck
<1>4. ASSUME NEW r \in Requests, JoinReserve(r) PROVE TypeOK'
  <2>1. pc[r] = "join_reserve" /\ arg[r] \in Parties
    BY <1>4 DEF JoinReserve
  <2>2. CASE SeatFree(arg[r])
    <3>1. /\ playernum' = [playernum EXCEPT ![arg[r]] = @ + 1]
          /\ rowLock' = [rowLock EXCEPT ![arg[r]] = r]
          /\ Goto(r, "join_insert", arg[r])
          /\ UNCHANGED <<status, maxNum, owner, member, failed>>
      BY <1>4, <2>2 DEF JoinReserve
    <3> QED
      BY <2>1, <3>1
  <2>3. CASE ~SeatFree(arg[r])
    <3>1. /\ Return(r)
          /\ UNCHANGED <<status, playernum, maxNum, owner, member, rowLock,
                         failed>>
      BY <1>4, <2>3 DEF JoinReserve
    <3> QED
      BY <2>1, <3>1
  <2> QED
    BY <2>2, <2>3
<1>5. ASSUME NEW r \in Requests, JoinInsert(r) PROVE TypeOK'
  <2>1. arg[r] \in Parties
    BY <1>5 DEF JoinInsert
  <2>2. /\ InsertMember(arg[r], UserOf[r])
        /\ Return(r)
        /\ UNCHANGED <<status, maxNum, owner, failed>>
    BY <1>5 DEF JoinInsert
  <2>3. member' \in [Parties -> [Users -> RowStates]]
    BY <2>1, <2>2
  <2>4. playernum' \in [Parties -> Int] /\ rowLock' \in [Parties -> Requests \cup {None}]
    BY <2>1, <1>5 DEF JoinInsert
  <2>5. pc'[r] = "idle" /\ \A q \in Requests \ {r} : pc'[q] = pc[q] /\ arg'[q] = arg[q]
    BY <2>2
  <2>6. pc' \in [Requests -> Labels] /\ arg' \in [Requests -> Parties \cup {None}]
    BY <2>2
  <2> QED
    BY <2>2, <2>3, <2>4, <2>5, <2>6
<1>6. ASSUME NEW r \in Requests, NEW p \in Parties, LeaveCheck(r, p)
      PROVE  TypeOK'
  BY <1>6 DEF LeaveCheck
<1>7. ASSUME NEW r \in Requests, LeaveDelete(r) PROVE TypeOK'
  BY <1>7 DEF LeaveDelete
<1>8. ASSUME NEW r \in Requests, LeaveDecrement(r) PROVE TypeOK'
  BY <1>8 DEF LeaveDecrement
<1>9. ASSUME NEW r \in Requests, NEW p \in Parties, DeleteCheck(r, p)
      PROVE  TypeOK'
  BY <1>9 DEF DeleteCheck
<1>10. ASSUME NEW r \in Requests, DeleteMembers(r) PROVE TypeOK'
  BY <1>10 DEF DeleteMembers
<1>11. ASSUME NEW r \in Requests, DeleteRow(r) PROVE TypeOK'
  BY <1>11 DEF DeleteRow
<1>12. ASSUME NEW r \in Requests, StatementFails(r) PROVE TypeOK'
  BY <1>12 DEF StatementFails
<1>13. CASE UNCHANGED vars
  BY <1>13 DEF vars
<1> HIDE DEF TypeOK
<1> QED
  BY <1>1, <1>2, <1>3, <1>4, <1>5, <1>6, <1>7, <1>8, <1>9, <1>10, <1>11,
     <1>12, <1>13 DEF Next, Arrive, Proceed

\* The variables have their types in every reachable state, whoever the
\* requests work for and whichever statements fail.
THEOREM TypeCorrect == Spec => []TypeOK
<1>1. Init => TypeOK
  BY InitTypeOK
<1>2. TypeOK /\ [Next]_vars => TypeOK'
  BY NextTypeOK
<1> QED
  BY <1>1, <1>2, PTL DEF Spec

LEMMA CapacityType ==
  ASSUME TypeOK, NEW p \in Parties
  PROVE  Capacity(p) \in Int /\ Capacity(p) >= 1
BY DEF TypeOK, Capacity, SeatsFor

LEMMA NextPlayernum ==
  ASSUME TypeOK, PlayernumWithinCapacity, [Next]_vars
  PROVE  PlayernumWithinCapacity'
<1> USE DEF TypeOK, PlayernumWithinCapacity, Capacity, SeatsFor
<1>1. ASSUME NEW r \in Requests, NEW p \in Parties, NEW n \in MaxNums,
             CreateRow(r, p, n)
      PROVE  PlayernumWithinCapacity'
  <2>1. n \in Int
    BY PartyAssumption
  <2> QED
    BY <1>1, <2>1 DEF CreateRow
<1>2. ASSUME NEW r \in Requests, JoinReserve(r)
      PROVE  PlayernumWithinCapacity'
  <2>1. arg[r] \in Parties
    BY <1>2 DEF JoinReserve
  <2>2. CASE SeatFree(arg[r])
    BY <1>2, <2>1, <2>2 DEF JoinReserve, SeatFree
  <2>3. CASE ~SeatFree(arg[r])
    BY <1>2, <2>3 DEF JoinReserve
  <2> QED
    BY <2>2, <2>3
<1>3. ASSUME NEW r \in Requests, JoinInsert(r)
      PROVE  PlayernumWithinCapacity'
  BY <1>3 DEF JoinInsert, Rollback, Unlock
<1>4. ASSUME NEW r \in Requests, LeaveDecrement(r)
      PROVE  PlayernumWithinCapacity'
  BY <1>4 DEF LeaveDecrement
<1>5. ASSUME NEW r \in Requests, StatementFails(r)
      PROVE  PlayernumWithinCapacity'
  BY <1>5 DEF StatementFails, Rollback, Unlock
<1>6. ASSUME UNCHANGED <<playernum, maxNum>>
      PROVE  PlayernumWithinCapacity'
  BY <1>6
<1> QED
  BY <1>1, <1>2, <1>3, <1>4, <1>5, <1>6
  DEF Next, Arrive, Proceed, vars, rows, CreateMember, JoinCheck, LeaveCheck,
      LeaveDelete, DeleteCheck, DeleteMembers, DeleteRow

\* The conditional UPDATE of JoinParty is atomic, so no interleaving and no
\* failure takes the counter past max_num: for any clients, also one user
\* with several requests in flight.
THEOREM CounterBounded == Spec => []PlayernumWithinCapacity
<1>1. Init => PlayernumWithinCapacity
  BY DEF Init, PlayernumWithinCapacity, Capacity, SeatsFor
<1>2. TypeOK /\ PlayernumWithinCapacity /\ [Next]_vars
        => PlayernumWithinCapacity'
  BY NextPlayernum
<1> QED
  BY <1>1, <1>2, TypeCorrect, PTL DEF Spec

-----------------------------------------------------------------------------
(* The row lock: held by exactly one join, of a live party. *)

LEMMA NextLock ==
  ASSUME TypeOK, LockInv, [Next]_vars
  PROVE  LockInv'
<1> USE PartyAssumption
    DEF TypeOK, LockInv, LockHeld, LockedLive, AbsentEmpty, At, Goto, Return,
        Receive, rows
<1>1. ASSUME NEW r \in Requests, NEW p \in Parties, NEW n \in MaxNums,
             CreateRow(r, p, n)
      PROVE  LockInv'
  BY <1>1 DEF CreateRow
<1>2. ASSUME NEW r \in Requests, CreateMember(r) PROVE LockInv'
  BY <1>2 DEF CreateMember
<1>3. ASSUME NEW r \in Requests, NEW p \in Parties, JoinCheck(r, p)
      PROVE  LockInv'
  BY <1>3 DEF JoinCheck
<1>4. ASSUME NEW r \in Requests, JoinReserve(r) PROVE LockInv'
  <2>1. pc[r] = "join_reserve" /\ arg[r] \in Parties
    BY <1>4 DEF JoinReserve
  <2>2. CASE SeatFree(arg[r])
    <3>1. /\ rowLock[arg[r]] = None
          /\ status[arg[r]] = "live"
          /\ playernum' = [playernum EXCEPT ![arg[r]] = @ + 1]
          /\ rowLock' = [rowLock EXCEPT ![arg[r]] = r]
          /\ Goto(r, "join_insert", arg[r])
          /\ UNCHANGED <<status, maxNum, owner, member>>
      BY <1>4, <2>2 DEF JoinReserve, SeatFree
    <3>2. LockHeld'
      BY <2>1, <3>1
    <3> QED
      BY <2>1, <3>1, <3>2
  <2>3. CASE ~SeatFree(arg[r])
    BY <1>4, <2>1, <2>3 DEF JoinReserve
  <2> QED
    BY <2>2, <2>3
<1>5. ASSUME NEW r \in Requests, JoinInsert(r) PROVE LockInv'
  <2>1. /\ pc[r] = "join_insert" /\ arg[r] \in Parties
        /\ rowLock' = [rowLock EXCEPT ![arg[r]] = None]
        /\ Return(r)
        /\ UNCHANGED status
    BY <1>5 DEF JoinInsert, Rollback, Unlock
  <2>2. \A p \in Parties : p # arg[r] => playernum'[p] = playernum[p]
    BY <1>5, <2>1 DEF JoinInsert, Rollback
  <2>3. rowLock[arg[r]] = r
    BY <2>1
  <2>4. LockHeld'
    BY <2>1, <2>3
  <2> QED
    BY <2>1, <2>2, <2>3, <2>4
<1>6. ASSUME NEW r \in Requests, NEW p \in Parties, LeaveCheck(r, p)
      PROVE  LockInv'
  BY <1>6 DEF LeaveCheck
<1>7. ASSUME NEW r \in Requests, LeaveDelete(r) PROVE LockInv'
  BY <1>7 DEF LeaveDelete
<1>8. ASSUME NEW r \in Requests, LeaveDecrement(r) PROVE LockInv'
  BY <1>8 DEF LeaveDecrement
<1>9. ASSUME NEW r \in Requests, NEW p \in Parties, DeleteCheck(r, p)
      PROVE  LockInv'
  BY <1>9 DEF DeleteCheck
<1>10. ASSUME NEW r \in Requests, DeleteMembers(r) PROVE LockInv'
  BY <1>10 DEF DeleteMembers
<1>11. ASSUME NEW r \in Requests, DeleteRow(r) PROVE LockInv'
  BY <1>11 DEF DeleteRow
<1>12. ASSUME NEW r \in Requests, StatementFails(r) PROVE LockInv'
  <2>1. pc[r] # "idle" /\ arg[r] \in Parties /\ Return(r) /\ UNCHANGED status
    BY <1>12 DEF StatementFails
  <2>2. CASE pc[r] = "join_insert"
    <3>1. /\ rowLock[arg[r]] = r
          /\ rowLock' = [rowLock EXCEPT ![arg[r]] = None]
          /\ playernum' = [playernum EXCEPT ![arg[r]] = @ - 1]
      BY <1>12, <2>1, <2>2 DEF StatementFails, Rollback, Unlock
    <3>2. LockHeld'
      BY <2>1, <2>2, <3>1
    <3> QED
      BY <2>1, <3>1, <3>2
  <2>3. CASE pc[r] # "join_insert"
    BY <1>12, <2>1, <2>3 DEF StatementFails
  <2> QED
    BY <2>2, <2>3
<1>13. CASE UNCHANGED vars
  BY <1>13 DEF vars
<1> QED
  BY <1>1, <1>2, <1>3, <1>4, <1>5, <1>6, <1>7, <1>8, <1>9, <1>10, <1>11,
     <1>12, <1>13 DEF Next, Arrive, Proceed

\* A row stays locked only while the join that locked it is at its INSERT,
\* which waits for nobody: the lock of a party is always given back, whatever
\* fails and also when a user has several requests.
THEOREM LockIsGivenBack == Spec => []LockHeld
<1> DEFINE Inv == TypeOK /\ LockInv
<1>1. Init => Inv
  BY InitTypeOK, PartyAssumption
  DEF Init, LockInv, LockHeld, LockedLive, AbsentEmpty, At
<1>2. Inv /\ [Next]_vars => Inv'
  BY NextTypeOK, NextLock
<1>3. Inv => LockHeld
  BY DEF LockInv
<1> QED
  BY <1>1, <1>2, <1>3, PTL DEF Spec

-----------------------------------------------------------------------------
(* What a request may rely on between two statements, for users who send   *)
(* one request at a time.                                                  *)

LEMMA NextOwners ==
  ASSUME SerialUsers, TypeOK, OwnersAct, [Next]_vars
  PROVE  OwnersAct'
<1> USE PartyAssumption
    DEF SerialUsers, TypeOK, OwnersAct, Goto, Return, Receive, rows
<1>1. ASSUME NEW r \in Requests, NEW p \in Parties, NEW n \in MaxNums,
             CreateRow(r, p, n)
      PROVE  OwnersAct'
  BY <1>1 DEF CreateRow
<1>2. ASSUME NEW r \in Requests, NEW p \in Parties, DeleteCheck(r, p)
      PROVE  OwnersAct'
  BY <1>2 DEF DeleteCheck
<1>3. ASSUME NEW r \in Requests, DeleteMembers(r) PROVE OwnersAct'
  BY <1>3 DEF DeleteMembers
<1>4. ASSUME NEW r \in Requests, DeleteRow(r) PROVE OwnersAct'
  <2>1. /\ pc[r] = "delete_row" /\ arg[r] \in Parties
        /\ owner[arg[r]] = UserOf[r]
        /\ status' = [status EXCEPT ![arg[r]] = "deleted"]
        /\ Return(r)
        /\ UNCHANGED owner
    BY <1>4 DEF DeleteRow
  <2>2. ASSUME NEW s \in Requests, pc[s] = "create_member", arg[s] = arg[r]
        PROVE  FALSE
    BY <2>1, <2>2
  <2> QED
    BY <2>1, <2>2
<1>5. ASSUME NEW r \in Requests,
             \/ CreateMember(r) \/ JoinReserve(r) \/ JoinInsert(r)
             \/ LeaveDelete(r) \/ LeaveDecrement(r) \/ StatementFails(r)
      PROVE  OwnersAct'
  <2>1. /\ UNCHANGED <<status, owner>>
        /\ \E label \in {"idle", "join_insert", "leave_decrement"},
              a \in Parties \cup {None} : Goto(r, label, a)
    BY <1>5 DEF CreateMember, JoinReserve, JoinInsert, LeaveDelete,
                LeaveDecrement, StatementFails
  <2> QED
    BY <2>1
<1>6. ASSUME NEW r \in Requests, NEW p \in Parties,
             JoinCheck(r, p) \/ LeaveCheck(r, p)
      PROVE  OwnersAct'
  BY <1>6 DEF JoinCheck, LeaveCheck
<1>7. CASE UNCHANGED vars
  BY <1>7 DEF vars
<1> QED
  BY <1>1, <1>2, <1>3, <1>4, <1>5, <1>6, <1>7 DEF Next, Arrive, Proceed

LEMMA NextLeaverRow ==
  ASSUME SerialUsers, TypeOK, LeaverRow, [Next]_vars
  PROVE  LeaverRow'
<1> USE PartyAssumption
    DEF SerialUsers, TypeOK, LeaverRow, Goto, Return, Receive, rows
<1>1. ASSUME NEW r \in Requests, NEW p \in Parties, NEW n \in MaxNums,
             CreateRow(r, p, n)
      PROVE  LeaverRow'
  BY <1>1 DEF CreateRow
<1>2. ASSUME NEW r \in Requests, CreateMember(r) \/ JoinInsert(r)
      PROVE  LeaverRow'
  <2>1. /\ pc[r] \in {"create_member", "join_insert"} /\ arg[r] \in Parties
        /\ InsertMember(arg[r], UserOf[r])
        /\ Return(r)
    BY <1>2 DEF CreateMember, JoinInsert
  <2>2. \A s \in Requests : s # r => UserOf[s] # UserOf[r]
    OBVIOUS
  <2> QED
    BY <2>1, <2>2 DEF InsertMember
<1>3. ASSUME NEW r \in Requests, LeaveDelete(r) PROVE LeaverRow'
  <2>1. /\ pc[r] = "leave_delete" /\ arg[r] \in Parties
        /\ member' = [member EXCEPT ![arg[r]][UserOf[r]] = "none"]
        /\ Goto(r, "leave_decrement", arg[r])
    BY <1>3 DEF LeaveDelete
  <2>2. \A s \in Requests : s # r => UserOf[s] # UserOf[r]
    OBVIOUS
  <2> QED
    BY <2>1, <2>2
<1>4. ASSUME NEW r \in Requests, DeleteMembers(r) PROVE LeaverRow'
  BY <1>4 DEF DeleteMembers, Joined
<1>5. ASSUME NEW r \in Requests, NEW p \in Parties, LeaveCheck(r, p)
      PROVE  LeaverRow'
  BY <1>5 DEF LeaveCheck, Joined
<1>6. ASSUME NEW r \in Requests, UNCHANGED member,
             NEW label \in Labels \ {"leave_delete", "leave_decrement"},
             NEW a \in Parties \cup {None}, Goto(r, label, a)
      PROVE  LeaverRow'
  BY <1>6
<1>7. CASE UNCHANGED vars
  BY <1>7 DEF vars
<1>8. ASSUME NEW r \in Requests,
             \/ JoinReserve(r) \/ LeaveDecrement(r) \/ DeleteRow(r)
             \/ StatementFails(r)
             \/ \E p \in Parties : JoinCheck(r, p) \/ DeleteCheck(r, p)
      PROVE  LeaverRow'
  <2>1. /\ UNCHANGED member
        /\ \E label \in Labels \ {"leave_delete", "leave_decrement"},
              a \in Parties \cup {None} : Goto(r, label, a)
    BY <1>8 DEF JoinReserve, LeaveDecrement, DeleteRow, StatementFails,
                JoinCheck, DeleteCheck, Labels
  <2> QED
    BY <2>1, <1>6
<1> QED
  BY <1>1, <1>2, <1>3, <1>4, <1>5, <1>7, <1>8 DEF Next, Arrive, Proceed

-----------------------------------------------------------------------------
(* Counter and member table, for users who send one request at a time.     *)

LEMMA HoldersFinite ==
  ASSUME NEW p
  PROVE  /\ IsFiniteSet(Holders(p)) /\ Cardinality(Holders(p)) \in Nat
         /\ IsFiniteSet(Members(p)) /\ Cardinality(Members(p)) \in Nat
<1>1. Holders(p) \subseteq Users /\ Members(p) \subseteq Users
  BY DEF Holders, Members
<1> QED
  BY <1>1, PartyAssumption, FS_Subset, FS_CardinalityType

\* A step of request r that concerns party a alone.
StepAt(r, a) ==
  /\ \A p \in Parties \ {a} :
       /\ status'[p] = status[p]
       /\ playernum'[p] = playernum[p]
       /\ member'[p] = member[p]
       /\ rowLock'[p] = rowLock[p]
  /\ \A s \in Requests \ {r} : pc'[s] = pc[s] /\ arg'[s] = arg[s]
  /\ pc[r] # "idle" => arg[r] = a
  /\ pc'[r] # "idle" => arg'[r] = a

LEMMA CountedElsewhere ==
  ASSUME NEW r \in Requests, NEW a \in Parties, StepAt(r, a),
         failed => failed', \A p \in Parties : Counted(p), Counted(a)'
  PROVE  \A p \in Parties : Counted(p)'
<1> SUFFICES ASSUME NEW p \in Parties, p # a PROVE Counted(p)'
  OBVIOUS
<1>1. \A s \in Requests :
        /\ At(s, "create_member", p)' <=> At(s, "create_member", p)
        /\ At(s, "leave_decrement", p)' <=> At(s, "leave_decrement", p)
  BY DEF StepAt, At
<1>2. member'[p] = member[p]
  BY DEF StepAt
<1>3. Holders(p)' = Holders(p)
  BY <1>1, <1>2 DEF Holders
<1>4. Committed(p)' = Committed(p) /\ status'[p] = status[p]
  BY DEF StepAt, Committed
<1> QED
  BY <1>3, <1>4 DEF Counted

LEMMA CardinalityGrows ==
  ASSUME NEW S, IsFiniteSet(S), NEW x, x \notin S
  PROVE  Cardinality(S \cup {x}) = Cardinality(S) + 1
BY FS_AddElement

LEMMA CardinalityShrinks ==
  ASSUME NEW S, IsFiniteSet(S), NEW x, x \in S
  PROVE  Cardinality(S \ {x}) = Cardinality(S) - 1
BY FS_RemoveElement

LEMMA CardinalityOfSubset ==
  ASSUME NEW S, IsFiniteSet(S), NEW T, T \subseteq S
  PROVE  Cardinality(T) \in Nat /\ Cardinality(T) <= Cardinality(S)
BY FS_Subset, FS_CardinalityType

\* What has failed has failed.
LEMMA FailedStays ==
  ASSUME [Next]_vars
  PROVE  failed => failed'
BY DEF Next, Arrive, Proceed, CreateRow, CreateMember, JoinCheck, JoinReserve,
       JoinInsert, LeaveCheck, LeaveDelete, LeaveDecrement, DeleteCheck,
       DeleteMembers, DeleteRow, StatementFails, vars

LEMMA NextCounted ==
  ASSUME SerialUsers, IInv, [Next]_vars
  PROVE  \A p \in Parties : Counted(p)'
<1> USE PartyAssumption DEF IInv, TypeOK, Goto, Return, Receive, rows
<1>s. \A r, s \in Requests : r # s => UserOf[r] # UserOf[s]
  BY DEF SerialUsers
<1>a. \A p \in Parties : Committed(p) \in Int
  BY DEF Committed
<1>c. \A p \in Parties : Counted(p)
  OBVIOUS
<1>f. failed => failed'
  BY FailedStays
<1>1. ASSUME NEW r \in Requests, NEW p \in Parties, NEW n \in MaxNums,
             CreateRow(r, p, n)
      PROVE  \A q \in Parties : Counted(q)'
  <2>1. StepAt(r, p)
    BY <1>1 DEF CreateRow, StepAt
  <2>2. Committed(p) = 0 /\ Committed(p)' = 1
    BY <1>1 DEF CreateRow, Committed, LockInv, LockedLive, AbsentEmpty
  <2>3. Holders(p) = {}
    BY <2>2, <1>c, HoldersFinite, FS_EmptySet DEF Counted
  <2>4. Holders(p)' = Holders(p) \cup {UserOf[r]}
    BY <1>1 DEF CreateRow, Holders, At
  <2>5. Cardinality(Holders(p)') = 1
    <3>1. Holders(p)' = {UserOf[r]}
      BY <2>3, <2>4
    <3> QED
      BY <3>1, FS_Singleton
  <2>6. Counted(p)'
    BY <2>2, <2>5 DEF Counted
  <2> QED
    BY <1>c, <2>1, <2>6, CountedElsewhere, <1>f
<1>2. ASSUME NEW r \in Requests, NEW a \in Parties, StepAt(r, a),
             Holders(a)' = Holders(a), Committed(a)' = Committed(a),
             status'[a] \in {status[a], "deleted"}
      PROVE  \A q \in Parties : Counted(q)'
  <2>1. Counted(a)'
    BY <1>2, <1>c, <1>f DEF Counted
  <2> QED
    BY <1>2, <1>c, <2>1, CountedElsewhere, <1>f
<1>3. ASSUME NEW r \in Requests, CreateMember(r)
      PROVE  \A q \in Parties : Counted(q)'
  <2> PICK a \in Parties : a = arg[r]
    BY <1>3 DEF CreateMember
  <2>1. pc[r] = "create_member" /\ a \in Parties /\ StepAt(r, a)
    BY <1>3 DEF CreateMember, InsertMember, StepAt
  <2>2. Holders(a)' = Holders(a)
    BY <1>3, <2>1, <1>s DEF CreateMember, InsertMember, Holders, At
  <2>3. Committed(a)' = Committed(a) /\ UNCHANGED status
    BY <1>3 DEF CreateMember, Committed
  <2> QED
    BY <2>1, <2>2, <2>3, <1>2
<1>4. ASSUME NEW r \in Requests, NEW p \in Parties,
             JoinCheck(r, p) \/ LeaveCheck(r, p) \/ DeleteCheck(r, p)
      PROVE  \A q \in Parties : Counted(q)'
  <2>1. /\ UNCHANGED rows /\ pc[r] = "idle"
        /\ \E label \in {"join_reserve", "leave_delete", "delete_members"} :
             Goto(r, label, p)
    BY <1>4 DEF JoinCheck, LeaveCheck, DeleteCheck
  <2>2. StepAt(r, p) /\ Committed(p)' = Committed(p)
    BY <2>1 DEF StepAt, Committed
  <2>3. Holders(p)' = Holders(p)
    BY <2>1 DEF Holders, At
  <2> QED
    BY <2>1, <2>2, <2>3, <1>2
<1>5. ASSUME NEW r \in Requests, JoinReserve(r)
      PROVE  \A q \in Parties : Counted(q)'
  <2> PICK a \in Parties : a = arg[r]
    BY <1>5 DEF JoinReserve
  <2>1. pc[r] = "join_reserve" /\ a \in Parties /\ UNCHANGED status
    BY <1>5 DEF JoinReserve
  <2>2. /\ UNCHANGED member
        /\ \E label \in {"idle", "join_insert"}, b \in {a, None} :
             (label = "idle" \/ b = a) /\ Goto(r, label, b)
    BY <1>5 DEF JoinReserve
  <2>3. Holders(a)' = Holders(a)
    BY <2>1, <2>2 DEF Holders, At
  <2>4. StepAt(r, a)
    BY <1>5, <2>1, <2>2 DEF JoinReserve, StepAt
  <2>5. Committed(a)' = Committed(a)
    <3>1. CASE SeatFree(a)
      <4>1. rowLock[a] = None /\ rowLock'[a] = r
            /\ playernum'[a] = playernum[a] + 1
        BY <1>5, <2>1, <3>1 DEF JoinReserve
      <4>2. playernum[a] \in Int /\ r # None
        OBVIOUS
      <4>3. Committed(a) = playernum[a] /\ Committed(a)' = playernum'[a] - 1
        BY <4>1, <4>2 DEF Committed
      <4> QED
        BY <4>1, <4>2, <4>3
    <3>2. CASE ~SeatFree(a)
      BY <1>5, <2>1, <3>2 DEF JoinReserve, Committed
    <3> QED
      BY <3>1, <3>2
  <2> QED
    BY <2>1, <2>3, <2>4, <2>5, <1>2
<1>6. ASSUME NEW r \in Requests, JoinInsert(r)
      PROVE  \A q \in Parties : Counted(q)'
  <2> PICK a \in Parties : a = arg[r]
    BY <1>6 DEF JoinInsert
  <2> DEFINE u == UserOf[r]
  <2>1. /\ pc[r] = "join_insert" /\ a \in Parties /\ u \in Users
        /\ rowLock[a] = r /\ rowLock'[a] = None /\ UNCHANGED status
    BY <1>6 DEF JoinInsert, Rollback, Unlock, LockInv, LockHeld, At
  <2>2. StepAt(r, a)
    BY <1>6, <2>1 DEF JoinInsert, InsertMember, Rollback, Unlock, StepAt
  <2>3. CASE member[a][u] = "none"
    <3>1. Committed(a)' = Committed(a) + 1
      BY <1>6, <2>1, <2>3 DEF JoinInsert, Committed
    <3>2. u \notin Holders(a)
      BY <2>1, <2>3, <1>s DEF Holders, At
    <3>3. Holders(a)' = Holders(a) \cup {u}
      <4>1. /\ member' = [member EXCEPT ![a][u] = "joined"]
            /\ Return(r)
        BY <1>6, <2>1, <2>3 DEF JoinInsert, InsertMember
      <4> QED
        BY <2>1, <2>3, <4>1 DEF Holders, At
    <3>4. Cardinality(Holders(a)') = Cardinality(Holders(a)) + 1
      BY <3>2, <3>3, HoldersFinite, CardinalityGrows
    <3>5. Counted(a)'
      BY <1>a, <1>c, <1>f, <2>1, <3>1, <3>4, HoldersFinite DEF Counted
    <3> QED
      BY <1>c, <2>1, <2>2, <3>5, CountedElsewhere, <1>f
  <2>4. CASE member[a][u] # "none"
    <3>1. Committed(a)' = Committed(a)
      BY <1>6, <2>1, <2>4 DEF JoinInsert, Rollback, Committed
    <3>2. Holders(a)' = Holders(a)
      BY <1>6, <2>1, <2>4 DEF JoinInsert, InsertMember, Holders, At
    <3> QED
      BY <2>1, <2>2, <3>1, <3>2, <1>2
  <2> QED
    BY <2>3, <2>4
<1>7. ASSUME NEW r \in Requests, LeaveDelete(r)
      PROVE  \A q \in Parties : Counted(q)'
  <2> PICK a \in Parties : a = arg[r]
    BY <1>7 DEF LeaveDelete
  <2>1. pc[r] = "leave_delete" /\ a \in Parties /\ StepAt(r, a)
    BY <1>7 DEF LeaveDelete, StepAt
  <2>2. Holders(a)' = Holders(a)
    BY <1>7, <2>1 DEF LeaveDelete, LeaverRow, Holders, At
  <2>3. Committed(a)' = Committed(a) /\ UNCHANGED status
    BY <1>7 DEF LeaveDelete, Committed
  <2> QED
    BY <2>1, <2>2, <2>3, <1>2
<1>8. ASSUME NEW r \in Requests, NEW a \in Parties, StepAt(r, a),
             Holders(a)' \subseteq Holders(a), Committed(a)' = Committed(a),
             UNCHANGED status, failed' \/ status[a] # "live"
      PROVE  \A q \in Parties : Counted(q)'
  <2>1. /\ Cardinality(Holders(a)') \in Nat
        /\ Cardinality(Holders(a)') <= Cardinality(Holders(a))
    BY <1>8, HoldersFinite, CardinalityOfSubset
  <2>2. Counted(a)'
    BY <1>8, <1>a, <1>c, <1>f, <2>1, HoldersFinite DEF Counted
  <2> QED
    BY <1>8, <1>c, <2>2, CountedElsewhere, <1>f
<1>9. ASSUME NEW r \in Requests, LeaveDecrement(r)
      PROVE  \A q \in Parties : Counted(q)'
  <2> PICK a \in Parties : a = arg[r]
    BY <1>9 DEF LeaveDecrement
  <2> DEFINE u == UserOf[r]
  <2>1. /\ pc[r] = "leave_decrement" /\ a \in Parties /\ u \in Users
        /\ rowLock[a] = None /\ UNCHANGED <<status, rowLock>>
        /\ member[a][u] = "none"
    BY <1>9 DEF LeaveDecrement, LeaverRow
  <2>2. StepAt(r, a)
    BY <1>9, <2>1 DEF LeaveDecrement, StepAt
  <2>3. u \in Holders(a) /\ Holders(a)' = Holders(a) \ {u}
    BY <1>9, <2>1, <1>s DEF LeaveDecrement, Holders, At
  <2>4. CASE status[a] = "live"
    <3>1. Committed(a)' = Committed(a) - 1
      BY <1>9, <2>1, <2>4 DEF LeaveDecrement, Committed
    <3>2. Cardinality(Holders(a)') = Cardinality(Holders(a)) - 1
      BY <2>3, HoldersFinite, CardinalityShrinks
    <3>3. Counted(a)'
      BY <1>a, <1>c, <1>f, <2>1, <3>1, <3>2, HoldersFinite DEF Counted
    <3> QED
      BY <1>c, <2>1, <2>2, <3>3, CountedElsewhere, <1>f
  <2>5. CASE status[a] # "live"
    <3>1. Committed(a)' = Committed(a)
      BY <1>9, <2>1, <2>5 DEF LeaveDecrement, Committed
    <3> QED
      BY <2>1, <2>2, <2>3, <2>5, <3>1, <1>8
  <2> QED
    BY <2>4, <2>5
<1>10. ASSUME NEW r \in Requests, DeleteMembers(r)
       PROVE  \A q \in Parties : Counted(q)'
  <2> PICK a \in Parties : a = arg[r]
    BY <1>10 DEF DeleteMembers
  <2>1. pc[r] = "delete_members" /\ a \in Parties /\ StepAt(r, a)
    BY <1>10 DEF DeleteMembers, StepAt
  <2>2. Holders(a)' = Holders(a)
    BY <1>10, <2>1 DEF DeleteMembers, Joined, Holders, At
  <2>3. Committed(a)' = Committed(a) /\ UNCHANGED status
    BY <1>10 DEF DeleteMembers, Committed
  <2> QED
    BY <2>1, <2>2, <2>3, <1>2
<1>11. ASSUME NEW r \in Requests, DeleteRow(r)
       PROVE  \A q \in Parties : Counted(q)'
  <2> PICK a \in Parties : a = arg[r]
    BY <1>11 DEF DeleteRow
  <2>1. /\ pc[r] = "delete_row" /\ a \in Parties /\ StepAt(r, a)
        /\ status'[a] = "deleted"
    BY <1>11 DEF DeleteRow, StepAt
  <2>2. /\ Holders(a)' = Holders(a)
        /\ Committed(a)' = Committed(a)
    BY <1>11, <2>1 DEF DeleteRow, Holders, At, Committed
  <2> QED
    BY <2>1, <2>2, <1>2
<1>12. ASSUME NEW r \in Requests, StatementFails(r)
       PROVE  \A q \in Parties : Counted(q)'
  <2> PICK a \in Parties : a = arg[r]
    BY <1>12 DEF StatementFails
  <2>1. failed' /\ pc[r] # "idle" /\ a \in Parties /\ UNCHANGED status
    BY <1>12 DEF StatementFails
  <2>2. StepAt(r, a)
    BY <1>12, <2>1 DEF StatementFails, Rollback, Unlock, StepAt
  <2>3. Holders(a)' \subseteq Holders(a)
    BY <1>12 DEF StatementFails, Holders, At
  <2>4. Committed(a)' = Committed(a)
    <3>1. CASE pc[r] = "join_insert"
      <4>1. rowLock[a] = r
        BY <2>1, <3>1 DEF LockInv, LockHeld, At
      <4> QED
        BY <1>12, <2>1, <3>1, <4>1
        DEF StatementFails, Rollback, Unlock, Committed
    <3>2. CASE pc[r] # "join_insert"
      BY <1>12, <3>2 DEF StatementFails, Committed
    <3> QED
      BY <3>1, <3>2
  <2> QED
    BY <2>1, <2>2, <2>3, <2>4, <1>8
<1>13. CASE UNCHANGED vars
  <2> SUFFICES ASSUME NEW p \in Parties PROVE Counted(p)'
    OBVIOUS
  <2>1. Holders(p)' = Holders(p)
    BY <1>13 DEF vars, Holders, At
  <2>2. Committed(p)' = Committed(p) /\ status' = status
    BY <1>13 DEF vars, Committed
  <2> QED
    BY <1>c, <1>f, <2>1, <2>2 DEF Counted
<1> QED
  BY <1>1, <1>3, <1>4, <1>5, <1>6, <1>7, <1>9, <1>10, <1>11, <1>12, <1>13
  DEF Next, Arrive, Proceed

LEMMA InitIInv == Init => IInv
<1> SUFFICES ASSUME Init PROVE IInv
  OBVIOUS
<1>1. TypeOK
  BY InitTypeOK
<1>2. LockInv /\ LeaverRow /\ OwnersAct
  BY PartyAssumption
  DEF Init, LockInv, LockHeld, LockedLive, AbsentEmpty, LeaverRow, OwnersAct, At
<1>3. PlayernumWithinCapacity
  BY DEF Init, PlayernumWithinCapacity, Capacity, SeatsFor
<1>4. ASSUME NEW p \in Parties PROVE Counted(p)
  <2>1. Holders(p) = {}
    BY DEF Init, Holders, At
  <2>2. Committed(p) = 0 /\ status[p] = "absent"
    BY DEF Init, Committed
  <2> QED
    BY <2>1, <2>2, FS_EmptySet DEF Counted
<1> QED
  BY <1>1, <1>2, <1>3, <1>4 DEF IInv

LEMMA NextIInv ==
  ASSUME SerialUsers, IInv, [Next]_vars
  PROVE  IInv'
BY NextTypeOK, NextLock, NextOwners, NextLeaverRow, NextPlayernum, NextCounted
DEF IInv

LEMMA Inductive ==
  ASSUME SerialUsers
  PROVE  Spec => []IInv
<1>1. Init => IInv
  BY InitIInv
<1>2. IInv /\ [Next]_vars => IInv'
  BY NextIInv
<1> QED
  BY <1>1, <1>2, PTL DEF Spec

\* However the requests of different users interleave, and whichever of
\* their statements fail, the counter covers every seat that is taken.
THEOREM NeverUndercounts ==
  ASSUME SerialUsers
  PROVE  Spec => []HeadcountCovers
<1>1. IInv => HeadcountCovers
  BY DEF IInv, Counted, HeadcountCovers
<1> QED
  BY <1>1, Inductive, PTL

\* Until a statement fails the counter of a live party is exact.
THEOREM ExactUntilFailure ==
  ASSUME SerialUsers
  PROVE  Spec => []HeadcountExact
<1>1. IInv => HeadcountExact
  BY DEF IInv, Counted, HeadcountExact
<1> QED
  BY <1>1, Inductive, PTL

LEMMA MembersHold ==
  ASSUME TypeOK, NEW p \in Parties
  PROVE  /\ Members(p) \subseteq Holders(p)
         /\ Committed(p) \in Int /\ Committed(p) <= playernum[p]
BY DEF TypeOK, Members, Joined, Holders, Committed

\* A full party stays within its seats: the counter is bounded by them and
\* the members by the counter.
THEOREM NeverOverbooked ==
  ASSUME SerialUsers
  PROVE  Spec => []NoOverbooking
<1>1. ASSUME IInv PROVE NoOverbooking
  <2> SUFFICES ASSUME NEW p \in Parties
               PROVE  Cardinality(Members(p)) <= Capacity(p)
    BY DEF NoOverbooking
  <2>1. /\ Cardinality(Members(p)) \in Nat
        /\ Cardinality(Members(p)) <= Cardinality(Holders(p))
    BY <1>1, MembersHold, HoldersFinite, CardinalityOfSubset DEF IInv
  <2>2. Cardinality(Holders(p)) <= Committed(p)
    BY <1>1 DEF IInv, Counted
  <2>3. playernum[p] <= Capacity(p) /\ playernum[p] \in Int
    BY <1>1 DEF IInv, TypeOK, PlayernumWithinCapacity
  <2> QED
    BY <1>1, <2>1, <2>2, <2>3, MembersHold, HoldersFinite, CapacityType
    DEF IInv
<1> QED
  BY <1>1, Inductive, PTL

-----------------------------------------------------------------------------
(* Soft-deleted member rows. *)

\* A party whose members are being deleted exists, and a party that does not
\* exist yet has no soft-deleted rows in the way of its first members.
DeletedRows ==
  /\ \A r \in Requests :
       pc[r] \in {"delete_members", "delete_row"} => status[arg[r]] # "absent"
  /\ \A p \in Parties, u \in Users :
       status[p] = "absent" => member[p][u] # "deleted"

LEMMA NextDeletedRows ==
  ASSUME TypeOK, DeletedRows, LeaversCanRejoin, [Next]_vars
  PROVE  DeletedRows' /\ LeaversCanRejoin'
<1>f. failed => failed'
  BY FailedStays
<1> USE <1>f, PartyAssumption
    DEF TypeOK, DeletedRows, LeaversCanRejoin, At, Goto, Return, Receive, rows
<1>1. ASSUME NEW r \in Requests, NEW p \in Parties, NEW n \in MaxNums,
             CreateRow(r, p, n)
      PROVE  DeletedRows' /\ LeaversCanRejoin'
  BY <1>1 DEF CreateRow
<1>2. ASSUME NEW r \in Requests, CreateMember(r) \/ JoinInsert(r)
      PROVE  DeletedRows' /\ LeaversCanRejoin'
  <2>1. /\ pc[r] \in {"create_member", "join_insert"} /\ arg[r] \in Parties
        /\ InsertMember(arg[r], UserOf[r]) /\ Return(r) /\ UNCHANGED status
    BY <1>2 DEF CreateMember, JoinInsert
  <2>2. \A p \in Parties, u \in Users :
          member'[p][u] = "deleted" => member[p][u] = "deleted"
    BY <2>1 DEF InsertMember
  <2> QED
    BY <2>1, <2>2
<1>3. ASSUME NEW r \in Requests, LeaveDelete(r)
      PROVE  DeletedRows' /\ LeaversCanRejoin'
  <2>1. /\ pc[r] = "leave_delete" /\ arg[r] \in Parties
        /\ Goto(r, "leave_decrement", arg[r]) /\ UNCHANGED status
    BY <1>3 DEF LeaveDelete
  <2>2. \A p \in Parties, u \in Users :
          member'[p][u] = "deleted" => member[p][u] = "deleted"
    BY <1>3 DEF LeaveDelete
  <2> QED
    BY <2>1, <2>2
<1>4. ASSUME NEW r \in Requests, DeleteMembers(r)
      PROVE  DeletedRows' /\ LeaversCanRejoin'
  <2>1. /\ pc[r] = "delete_members" /\ arg[r] \in Parties
        /\ Goto(r, "delete_row", arg[r]) /\ UNCHANGED status
    BY <1>4 DEF DeleteMembers
  <2>2. \A p \in Parties, u \in Users :
          p # arg[r] => member'[p][u] = member[p][u]
    BY <1>4 DEF DeleteMembers
  <2>3. status[arg[r]] # "absent"
    BY <2>1
  <2>4. DeletedRows'
    <3>1. \A s \in Requests : pc'[s] \in {"delete_members", "delete_row"}
            => pc[s] \in {"delete_members", "delete_row"} /\ arg'[s] = arg[s]
      BY <2>1
    <3>2. \A q \in Parties, u \in Users :
            status'[q] = "absent" => member'[q][u] # "deleted"
      BY <2>1, <2>2, <2>3
    <3>3. \A s \in Requests :
            pc'[s] \in {"delete_members", "delete_row"}
              => status'[arg'[s]] # "absent"
      BY <2>1, <3>1
    <3> QED
      BY <3>2, <3>3
  <2>5. At(r, "delete_row", arg[r])'
    BY <2>1
  <2>6. \A s \in Requests, q \in Parties :
          At(s, "delete_row", q) => At(s, "delete_row", q)'
    BY <2>1
  <2>7. LeaversCanRejoin'
    BY <2>1, <2>2, <2>5, <2>6
  <2> QED
    BY <2>4, <2>7
<1>5. ASSUME NEW r \in Requests, DeleteRow(r)
      PROVE  DeletedRows' /\ LeaversCanRejoin'
  BY <1>5 DEF DeleteRow
<1>6. ASSUME NEW r \in Requests, JoinReserve(r) \/ LeaveDecrement(r)
      PROVE  DeletedRows' /\ LeaversCanRejoin'
  <2>1. /\ pc[r] \in {"join_reserve", "leave_decrement"}
        /\ UNCHANGED <<status, member>>
        /\ \E label \in {"idle", "join_insert"}, a \in Parties \cup {None} :
              Goto(r, label, a)
    BY <1>6 DEF JoinReserve, LeaveDecrement
  <2> QED
    BY <2>1
<1>7. ASSUME NEW r \in Requests, NEW p \in Parties,
             JoinCheck(r, p) \/ LeaveCheck(r, p) \/ DeleteCheck(r, p)
      PROVE  DeletedRows' /\ LeaversCanRejoin'
  <2>1. /\ pc[r] = "idle" /\ UNCHANGED <<status, member>>
        /\ \/ Goto(r, "join_reserve", p) \/ Goto(r, "leave_delete", p)
           \/ Goto(r, "delete_members", p) /\ status[p] = "live"
    BY <1>7 DEF JoinCheck, LeaveCheck, DeleteCheck
  <2>2. DeletedRows'
    <3>1. \A s \in Requests : pc'[s] \in {"delete_members", "delete_row"}
            => \/ pc[s] \in {"delete_members", "delete_row"} /\ arg'[s] = arg[s]
               \/ arg'[s] = p /\ status[p] = "live"
      BY <2>1
    <3> QED
      BY <2>1, <3>1
  <2>3. \A s \in Requests, q \in Parties :
          At(s, "delete_row", q) => At(s, "delete_row", q)'
    BY <2>1
  <2>4. LeaversCanRejoin'
    BY <2>1, <2>3
  <2> QED
    BY <2>2, <2>4
<1>8. CASE UNCHANGED vars
  BY <1>8 DEF vars
<1>9. ASSUME NEW r \in Requests, StatementFails(r)
      PROVE  DeletedRows' /\ LeaversCanRejoin'
  BY <1>9 DEF StatementFails
<1> QED
  BY <1>1, <1>2, <1>3, <1>4, <1>5, <1>6, <1>7, <1>8, <1>9
  DEF Next, Arrive, Proceed

\* Whoever left a live party can come back: for any clients, until a
\* statement fails (a DeleteParty that stops half way leaves the rows).
THEOREM RejoinPossible == Spec => []LeaversCanRejoin
<1>1. Init => DeletedRows /\ LeaversCanRejoin
  BY PartyAssumption DEF Init, DeletedRows, LeaversCanRejoin
<1>2. TypeOK /\ DeletedRows /\ LeaversCanRejoin /\ [Next]_vars
        => DeletedRows' /\ LeaversCanRejoin'
  BY NextDeletedRows
<1> QED
  BY <1>1, <1>2, TypeCorrect, PTL DEF Spec

-----------------------------------------------------------------------------
(* Refinement of PartyRoster. *)

LEMMA RosterCardinality ==
  ASSUME NEW S PROVE Roster!Cardinality(S) = Cardinality(S)
BY DEF Cardinality, Roster!Cardinality

LEMMA InitImplements == Init => Roster!Init
BY DEF Init, Roster!Init, Members, Joined, Capacity, SeatsFor

\* Whoever is about to be seated finds a free seat in a live party.
LEMMA SeatForEntrant ==
  ASSUME SerialUsers, IInv, NEW r \in Requests, NEW a \in Parties,
         At(r, "create_member", a) \/ At(r, "join_insert", a),
         member[a][UserOf[r]] = "none"
  PROVE  status[a] = "live" /\ Cardinality(Members(a)) < Capacity(a)
<1>1. Capacity(a) \in Int /\ playernum[a] \in Int /\ playernum[a] <= Capacity(a)
  BY CapacityType DEF IInv, TypeOK, PlayernumWithinCapacity
<1>2. /\ Committed(a) \in Int /\ Cardinality(Holders(a)) <= Committed(a)
      /\ Members(a) \subseteq Holders(a)
  BY MembersHold DEF IInv, Counted
<1>3. CASE At(r, "create_member", a)
  <2>1. UserOf[r] \in Holders(a) /\ UserOf[r] \notin Members(a)
    BY <1>3, PartyAssumption DEF Holders, Members, Joined
  <2>2. /\ Cardinality(Members(a)) <= Cardinality(Holders(a) \ {UserOf[r]})
        /\ Cardinality(Holders(a) \ {UserOf[r]}) = Cardinality(Holders(a)) - 1
    <3>1. IsFiniteSet(Holders(a) \ {UserOf[r]})
      BY HoldersFinite, FS_Subset
    <3>2. Members(a) \subseteq Holders(a) \ {UserOf[r]}
      BY <1>2, <2>1
    <3> QED
      BY <2>1, <3>1, <3>2, HoldersFinite, CardinalityOfSubset,
         CardinalityShrinks
  <2>3. Committed(a) <= playernum[a]
    BY MembersHold DEF IInv
  <2>4. status[a] = "live"
    BY <1>3 DEF IInv, OwnersAct, At
  <2> QED
    BY <1>1, <1>2, <2>2, <2>3, <2>4, HoldersFinite
<1>4. CASE At(r, "join_insert", a)
  <2>1. rowLock[a] # None /\ status[a] = "live"
    BY <1>4, PartyAssumption DEF IInv, LockInv, LockHeld, LockedLive
  <2>2. Committed(a) = playernum[a] - 1
    BY <2>1 DEF Committed
  <2>3. Cardinality(Members(a)) <= Cardinality(Holders(a))
    BY <1>2, HoldersFinite, CardinalityOfSubset
  <2> QED
    BY <1>1, <1>2, <2>1, <2>2, <2>3, HoldersFinite
<1> QED
  BY <1>3, <1>4

LEMMA NextImplements ==
  ASSUME SerialUsers, IInv, [Next]_vars
  PROVE  [Roster!Next]_(Roster!rosterVars)
<1> DEFINE roster == [p \in Parties |-> Members(p)]
           seats  == [p \in Parties |-> Capacity(p)]
           Sizes  == {SeatsFor(n) : n \in MaxNums}
<1> USE PartyAssumption DEF IInv, TypeOK, Return, Goto, Receive, rows
<1>0. ASSUME UNCHANGED <<status, maxNum, member>>
      PROVE  UNCHANGED Roster!rosterVars
  BY <1>0 DEF Roster!rosterVars, Members, Joined, Capacity
<1>1. ASSUME NEW r \in Requests, NEW p \in Parties, NEW n \in MaxNums,
             CreateRow(r, p, n)
      PROVE  Roster!Open(p, SeatsFor(n))
  <2>1. seats' = [seats EXCEPT ![p] = SeatsFor(n)]
    BY <1>1 DEF CreateRow, Capacity
  <2>2. roster' = roster
    BY <1>1 DEF CreateRow, Members, Joined
  <2> QED
    BY <1>1, <2>1, <2>2 DEF CreateRow, Roster!Open
<1>2. ASSUME NEW r \in Requests, CreateMember(r) \/ JoinInsert(r)
      PROVE  [Roster!Next]_(Roster!rosterVars)
  <2> PICK a \in Parties : a = arg[r]
    BY <1>2 DEF CreateMember, JoinInsert
  <2> DEFINE u == UserOf[r]
  <2>1. /\ At(r, "create_member", a) \/ At(r, "join_insert", a)
        /\ InsertMember(a, u) /\ UNCHANGED <<status, maxNum>> /\ u \in Users
    BY <1>2 DEF CreateMember, JoinInsert, At
  <2>2. CASE member[a][u] = "none"
    <3>1. status[a] = "live" /\ Cardinality(roster[a]) < seats[a]
      BY <2>1, <2>2, SeatForEntrant
    <3>2. u \notin roster[a]
      BY <2>2 DEF Members, Joined
    <3>3. roster' = [roster EXCEPT ![a] = @ \cup {u}]
      <4>1. member' = [member EXCEPT ![a][u] = "joined"]
        BY <2>1, <2>2 DEF InsertMember
      <4>2. \A p \in Parties :
              Members(p)' = IF p = a THEN Members(p) \cup {u} ELSE Members(p)
        BY <2>1, <4>1 DEF Members, Joined
      <4> QED
        BY <4>2
    <3>4. seats' = seats /\ status' = status
      BY <2>1 DEF Capacity
    <3>5. Roster!Enter(a, u)
      BY <2>1, <3>1, <3>2, <3>3, <3>4, RosterCardinality DEF Roster!Enter
    <3> QED
      BY <2>1, <3>5 DEF Roster!Next
  <2>3. CASE member[a][u] # "none"
    BY <2>1, <2>3, <1>0 DEF InsertMember
  <2> QED
    BY <2>2, <2>3
<1>3. ASSUME NEW r \in Requests, LeaveDelete(r) PROVE Roster!Next
  <2> PICK a \in Parties : a = arg[r]
    BY <1>3 DEF LeaveDelete
  <2>1. roster' = [roster EXCEPT ![a] = @ \ {UserOf[r]}]
    BY <1>3 DEF LeaveDelete, Members, Joined
  <2>2. status' = status /\ seats' = seats
    BY <1>3 DEF LeaveDelete, Capacity
  <2>3. Roster!Leave(a, UserOf[r])
    BY <2>1, <2>2 DEF Roster!Leave
  <2> QED
    BY <2>3 DEF Roster!Next
<1>4. ASSUME NEW r \in Requests, DeleteMembers(r) PROVE Roster!Next
  <2> PICK a \in Parties : a = arg[r]
    BY <1>4 DEF DeleteMembers
  <2>1. roster' = [roster EXCEPT ![a] = {}]
    BY <1>4 DEF DeleteMembers, Members, Joined
  <2>2. status' = status /\ seats' = seats
    BY <1>4 DEF DeleteMembers, Capacity
  <2>3. Roster!Disband(a)
    BY <2>1, <2>2 DEF Roster!Disband
  <2> QED
    BY <2>3 DEF Roster!Next
<1>5. ASSUME NEW r \in Requests, DeleteRow(r)
      PROVE  [Roster!Next]_(Roster!rosterVars)
  <2> PICK a \in Parties : a = arg[r]
    BY <1>5 DEF DeleteRow
  <2>1. status[a] \in {"live", "deleted"}
    BY <1>5 DEF DeleteRow, OwnersAct
  <2>2. roster' = roster /\ seats' = seats
    BY <1>5 DEF DeleteRow, Members, Joined, Capacity
  <2>3. CASE status[a] = "live"
    BY <1>5, <2>2, <2>3 DEF DeleteRow, Roster!Close, Roster!Next
  <2>4. CASE status[a] = "deleted"
    BY <1>5, <2>4, <1>0 DEF DeleteRow
  <2> QED
    BY <2>1, <2>3, <2>4
<1>6. ASSUME NEW r \in Requests,
             \/ JoinReserve(r) \/ LeaveDecrement(r) \/ StatementFails(r)
             \/ \E p \in Parties :
                  JoinCheck(r, p) \/ LeaveCheck(r, p) \/ DeleteCheck(r, p)
      PROVE  UNCHANGED Roster!rosterVars
  BY <1>6, <1>0 DEF JoinReserve, LeaveDecrement, StatementFails, JoinCheck,
                    LeaveCheck, DeleteCheck
<1>7. CASE UNCHANGED vars
  BY <1>7, <1>0 DEF vars
<1>8. ASSUME NEW r \in Requests, NEW p \in Parties, NEW n \in MaxNums,
             CreateRow(r, p, n)
      PROVE  Roster!Next
  BY <1>8, <1>1 DEF Roster!Next
<1> QED
  BY <1>2, <1>3, <1>4, <1>5, <1>6, <1>7, <1>8 DEF Next, Arrive, Proceed

\* The handlers, statement by statement and with failures, do what the
\* abstract PartyRoster promises: everybody who gets in gets in by a free
\* seat of a live party.
THEOREM HandlersImplementRoster ==
  ASSUME SerialUsers
  PROVE  Spec => ImplementsRoster
<1>1. Init => Roster!Init
  BY InitImplements
<1>2. IInv /\ [Next]_vars => [Roster!Next]_(Roster!rosterVars)
  BY NextImplements
<1> QED
  BY <1>1, <1>2, Inductive, PTL DEF Spec, ImplementsRoster, Roster!RosterSpec

\* A party that DeleteParty has removed gains no member, not even from a
\* create or a join that was under way.
THEOREM ClosedForGood ==
  ASSUME SerialUsers
  PROVE  Spec => DeletedStaysClosed
<1> DEFINE Closed == \A p \in Parties :
             status[p] = "deleted" => Members(p)' \subseteq Members(p)
<1>1. ASSUME IInv, [Next]_vars PROVE Closed \/ UNCHANGED vars
  <2> SUFFICES ASSUME NEW p \in Parties, status[p] = "deleted"
               PROVE  Members(p)' \subseteq Members(p)
    OBVIOUS
  <2> DEFINE roster == [q \in Parties |-> Members(q)]
  <2>1. roster[p]' = Members(p)'
    OBVIOUS
  <2>2. [Roster!Next]_(Roster!rosterVars)
    BY <1>1, NextImplements
  <2>3. roster'[p] \subseteq roster[p]
    BY <2>2 DEF Roster!Next, Roster!rosterVars, Roster!Open, Roster!Enter,
                Roster!Leave, Roster!Disband, Roster!Close
  <2> QED
    BY <2>1, <2>3
<1>2. IInv /\ [Next]_vars => [Closed]_vars
  BY <1>1
<1> QED
  BY <1>2, Inductive, PTL DEF Spec, DeletedStaysClosed

=============================================================================
