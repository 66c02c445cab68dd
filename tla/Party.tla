------------------------------- MODULE Party -------------------------------
(***************************************************************************)
(* The party handlers of service/party_service.go over the tables of       *)
(* models/models.go: CreateParty, JoinParty, LeaveParty and DeleteParty.   *)
(*                                                                         *)
(* One action is one SQL statement; a handler is a few statements and the  *)
(* statements of concurrent requests interleave freely.  JoinParty alone   *)
(* runs its two statements in one transaction, which keeps the row lock of *)
(* the party from the UPDATE to the end: rowLock.  Every other statement   *)
(* is its own transaction.  A party row is read by its committed value.    *)
(*                                                                         *)
(* A definition named X_Y is a faulty variant Y of X: no specification     *)
(* uses it; it shows that some property below notices the fault.           *)
(***************************************************************************)
EXTENDS Integers, FiniteSets

CONSTANTS
  Users,      \* authenticated users (the user_id of a token)
  Parties,    \* ids AUTO_INCREMENT may hand out
  Requests,   \* request goroutines; each serves one request after another
  UserOf,     \* UserOf[r]: the user whose token the requests of r carry
  MaxNums,    \* the values of "maxNum" a create request may carry
  Endpoints,  \* the endpoints that clients call
  DbFaults,   \* whether a statement may fail (lost connection, timeout)
  None        \* no user, no request, no party

Handlers == {"create", "join", "leave", "delete"}

ASSUME PartyAssumption ==
  /\ IsFiniteSet(Users)
  /\ UserOf \in [Requests -> Users]
  /\ MaxNums \subseteq Int
  /\ Endpoints \subseteq Handlers
  /\ DbFaults \in BOOLEAN
  /\ None \notin Users \cup Requests \cup Parties

VARIABLES
  status,     \* status[p]: row "absent", "live", or "deleted" (deleted_at set)
  playernum,  \* playernum[p]: the column, with the change of an open transaction
  maxNum,     \* maxNum[p]: the column max_num
  owner,      \* owner[p]: the column owner_id
  member,     \* member[p][u]: the one row idx_party_user allows for <<p, u>>
  rowLock,    \* rowLock[p]: the request whose transaction holds the row lock
  pc,         \* pc[r]: the next statement of request r, "idle" between requests
  arg,        \* arg[r]: the party id of the request r is serving
  failed      \* whether a statement has failed so far

rows == <<status, playernum, maxNum, owner, member, rowLock>>
vars == <<status, playernum, maxNum, owner, member, rowLock, pc, arg, failed>>

RowStates == {"none", "joined", "deleted"}
Labels == {"idle", "create_member", "join_reserve", "join_insert",
           "leave_delete", "leave_decrement", "delete_members", "delete_row"}

TypeOK ==
  /\ status \in [Parties -> {"absent", "live", "deleted"}]
  /\ playernum \in [Parties -> Int]
  /\ maxNum \in [Parties -> Int]
  /\ owner \in [Parties -> Users \cup {None}]
  /\ member \in [Parties -> [Users -> RowStates]]
  /\ rowLock \in [Parties -> Requests \cup {None}]
  /\ pc \in [Requests -> Labels]
  /\ arg \in [Requests -> Parties \cup {None}]
  /\ \A r \in Requests : pc[r] # "idle" => arg[r] \in Parties
  /\ failed \in BOOLEAN

Init ==
  /\ status = [p \in Parties |-> "absent"]
  /\ playernum = [p \in Parties |-> 0]
  /\ maxNum = [p \in Parties |-> 0]
  /\ owner = [p \in Parties |-> None]
  /\ member = [p \in Parties |-> [u \in Users |-> "none"]]
  /\ rowLock = [p \in Parties |-> None]
  /\ pc = [r \in Requests |-> "idle"]
  /\ arg = [r \in Requests |-> None]
  /\ failed = FALSE

\* Loses the party id on the way to the next statement.
Goto_WithoutParty(r, label, p) ==
  /\ pc' = [pc EXCEPT ![r] = label]
  /\ arg' = [arg EXCEPT ![r] = None]

\* A handler keeps the party id in a local variable between statements.
Goto(r, label, p) ==
  /\ pc' = [pc EXCEPT ![r] = label]
  /\ arg' = [arg EXCEPT ![r] = p]

Return(r) == Goto(r, "idle", None)

Receive(r, endpoint) == pc[r] = "idle" /\ endpoint \in Endpoints

Joined(u, p) == member[p][u] = "joined"

Unlocked_Always(p) == TRUE

\* A statement on a party row waits for the transaction that holds it.
Unlocked(p) == rowLock[p] = None

-----------------------------------------------------------------------------
(* CreateParty: INSERT the party with playernum 1, then INSERT its creator *)
(* as a member.  Only the handler's error tells that the second failed.    *)

InitialPlayernum_Zero == 0

\* The creator is counted.
InitialPlayernum == 1

CreateRow(r, p, n) ==
  /\ Receive(r, "create")
  /\ status[p] = "absent"
  /\ status' = [status EXCEPT ![p] = "live"]
  /\ playernum' = [playernum EXCEPT ![p] = InitialPlayernum]
  /\ maxNum' = [maxNum EXCEPT ![p] = n]
  /\ owner' = [owner EXCEPT ![p] = UserOf[r]]
  /\ Goto(r, "create_member", p)
  /\ UNCHANGED <<member, rowLock, failed>>

\* The unique index refuses a second row for the same party and user.
InsertMember(p, u) ==
  member' = IF member[p][u] = "none"
            THEN [member EXCEPT ![p][u] = "joined"]
            ELSE member

CreateMember(r) ==
  /\ pc[r] = "create_member"
  /\ InsertMember(arg[r], UserOf[r])
  /\ Return(r)
  /\ UNCHANGED <<status, playernum, maxNum, owner, rowLock, failed>>

-----------------------------------------------------------------------------
(* JoinParty: look for a membership, then in one transaction reserve a     *)
(* seat with a conditional UPDATE and INSERT the member.                   *)

\* RuserinP takes every error for "not a member", so under a failing
\* statement even a member goes on to the transaction.
JoinCheck(r, p) ==
  /\ Receive(r, "join")
  /\ \/ ~Joined(UserOf[r], p) /\ UNCHANGED failed
     \/ Joined(UserOf[r], p) /\ DbFaults /\ failed' = TRUE
  /\ Goto(r, "join_reserve", p)
  /\ UNCHANGED rows

SeatFree_OffByOne(p) ==
  status[p] = "live" /\ maxNum[p] > 0 /\ playernum[p] <= maxNum[p]

SeatFree_AlsoDeleted(p) ==
  maxNum[p] > 0 /\ playernum[p] < maxNum[p]

SeatFree(p) ==
  /\ status[p] = "live"
  /\ maxNum[p] > 0
  /\ playernum[p] < maxNum[p]

JoinReserve(r) ==
  LET p == arg[r] IN
  /\ pc[r] = "join_reserve"
  /\ Unlocked(p)
  /\ \/ /\ SeatFree(p)
        /\ playernum' = [playernum EXCEPT ![p] = @ + 1]
        /\ rowLock' = [rowLock EXCEPT ![p] = r]
        /\ Goto(r, "join_insert", p)
     \/ /\ ~SeatFree(p)
        /\ Return(r)
        /\ UNCHANGED <<playernum, rowLock>>
  /\ UNCHANGED <<status, maxNum, owner, member, failed>>

Unlock(p) == rowLock' = [rowLock EXCEPT ![p] = None]

Rollback_KeepsSeat(p) == UNCHANGED playernum /\ Unlock(p)

Rollback_KeepsLock(p) ==
  playernum' = [playernum EXCEPT ![p] = @ - 1] /\ UNCHANGED rowLock

\* Undo what the transaction of a join did to the party row.
Rollback(p) == playernum' = [playernum EXCEPT ![p] = @ - 1] /\ Unlock(p)

JoinInsert(r) ==
  LET p == arg[r] IN
  /\ pc[r] = "join_insert"
  /\ InsertMember(p, UserOf[r])
  /\ \/ member[p][UserOf[r]] = "none" /\ Unlock(p) /\ UNCHANGED playernum
     \/ member[p][UserOf[r]] # "none" /\ Rollback(p)
  /\ Return(r)
  /\ UNCHANGED <<status, maxNum, owner, failed>>

-----------------------------------------------------------------------------
(* LeaveParty: look for a membership, hard-delete it, and decrement.  No   *)
(* transaction, and the number of rows deleted is not looked at.           *)

LeaveCheck(r, p) ==
  /\ Receive(r, "leave")
  /\ Joined(UserOf[r], p)
  /\ Goto(r, "leave_delete", p)
  /\ UNCHANGED <<rows, failed>>

AfterDelete_Soft == "deleted"

\* Unscoped: the row goes, soft-deleted or not.
AfterDelete == "none"

LeaveDelete(r) ==
  /\ pc[r] = "leave_delete"
  /\ member' = [member EXCEPT ![arg[r]][UserOf[r]] = AfterDelete]
  /\ Goto(r, "leave_decrement", arg[r])
  /\ UNCHANGED <<status, playernum, maxNum, owner, rowLock, failed>>

\* The UPDATE does not see a soft-deleted party.
LeaveDecrement(r) ==
  LET p == arg[r] IN
  /\ pc[r] = "leave_decrement"
  /\ Unlocked(p)
  /\ playernum' = IF status[p] = "live"
                  THEN [playernum EXCEPT ![p] = @ - 1] ELSE playernum
  /\ Return(r)
  /\ UNCHANGED <<status, maxNum, owner, member, rowLock, failed>>

-----------------------------------------------------------------------------
(* DeleteParty: read the row and compare the owner, soft-delete the        *)
(* members, then soft-delete the party.  No transaction.                   *)

DeleteCheck(r, p) ==
  /\ Receive(r, "delete")
  /\ status[p] = "live"
  /\ owner[p] = UserOf[r]
  /\ Goto(r, "delete_members", p)
  /\ UNCHANGED <<rows, failed>>

DeleteMembers(r) ==
  LET p == arg[r] IN
  /\ pc[r] = "delete_members"
  /\ member' = [member EXCEPT ![p] =
       [u \in Users |-> IF Joined(u, p) THEN "deleted" ELSE member[p][u]]]
  /\ Goto(r, "delete_row", p)
  /\ UNCHANGED <<status, playernum, maxNum, owner, rowLock, failed>>

DeleteRow(r) ==
  LET p == arg[r] IN
  /\ pc[r] = "delete_row"
  /\ Unlocked(p)
  /\ status' = [status EXCEPT ![p] = "deleted"]
  /\ Return(r)
  /\ UNCHANGED <<playernum, maxNum, owner, member, rowLock, failed>>

-----------------------------------------------------------------------------
(* A statement fails, or the goroutine dies with the process.  Whatever    *)
(* the statement, the handler returns there, and earlier statements stay;  *)
(* only the transaction of a join is rolled back.                          *)

\* Gives a seat back whichever statement of whichever handler failed.
Undo_Always(r) == Rollback(arg[r])

Undo(r) ==
  \/ pc[r] = "join_insert" /\ Rollback(arg[r])
  \/ pc[r] # "join_insert" /\ UNCHANGED <<playernum, rowLock>>

StatementFails(r) ==
  /\ DbFaults
  /\ pc[r] # "idle"
  /\ Undo(r)
  /\ Return(r)
  /\ failed' = TRUE
  /\ UNCHANGED <<status, maxNum, owner, member>>

-----------------------------------------------------------------------------
Arrive(r) ==
  \E p \in Parties :
    \/ \E n \in MaxNums : CreateRow(r, p, n)
    \/ JoinCheck(r, p)
    \/ LeaveCheck(r, p)
    \/ DeleteCheck(r, p)

Proceed(r) ==
  \/ CreateMember(r)
  \/ JoinReserve(r)
  \/ JoinInsert(r)
  \/ LeaveDelete(r)
  \/ LeaveDecrement(r)
  \/ DeleteMembers(r)
  \/ DeleteRow(r)

Next == \E r \in Requests : Arrive(r) \/ Proceed(r) \/ StatementFails(r)

Spec == Init /\ [][Next]_vars

\* A goroutine keeps running, and waiters on an InnoDB row lock are served
\* in order, so a statement that is enabled again and again gets its turn.
FairSpec == Spec /\ \A r \in Requests : SF_vars(Proceed(r))

-----------------------------------------------------------------------------
(* Properties. *)

\* Each user waits for the answer to one request before sending the next.
\* The handlers do nothing to enforce it; what depends on it says so.
SerialUsers == \A r, s \in Requests : UserOf[r] = UserOf[s] => r = s

Members(p) == {u \in Users : Joined(u, p)}

\* A party seats max_num people, but its creator is seated unasked.
SeatsFor(n) == IF n > 1 THEN n ELSE 1
Capacity(p) == SeatsFor(maxNum[p])

\* The column as other transactions read it: a join that has not committed
\* has not happened.
Committed(p) == IF rowLock[p] = None THEN playernum[p] ELSE playernum[p] - 1

At(r, label, p) == pc[r] = label /\ arg[r] = p

\* Users whose seat playernum counts: a row in either state, a creator whose
\* row is about to be inserted, a leaver whose seat is about to be returned.
Holders(p) ==
  {u \in Users :
     \/ member[p][u] # "none"
     \/ \E r \in Requests :
          /\ UserOf[r] = u
          /\ At(r, "create_member", p) \/ At(r, "leave_decrement", p)}

\* The conditional UPDATE of JoinParty never books past max_num, however
\* requests interleave and fail (party_test.go TestJoinParty_Concurrency).
PlayernumWithinCapacity ==
  \A p \in Parties : playernum[p] <= Capacity(p)

\* No live party has more members than seats: the promise behind "full
\* parties refuse" (README, JoinParty).  Unlike the bound on the counter it
\* needs counter and member table to agree across Join, Leave and Delete.
NoOverbooking ==
  \A p \in Parties : Cardinality(Members(p)) <= Capacity(p)

\* The counter never undercounts the seats taken, even when handlers stop
\* half way: a lost decrement or a lost creator row only wastes a seat.
HeadcountCovers ==
  \A p \in Parties : Cardinality(Holders(p)) <= Committed(p)

\* Until a statement fails, the counter of a live party is exact at every
\* moment, requests in flight accounted for (JoinParty's comment on keeping
\* the headcount and the member table consistent).
HeadcountExact ==
  \A p \in Parties :
    ~failed /\ status[p] = "live" => Cardinality(Holders(p)) = Committed(p)

\* Until a statement fails, who left a live party can come back: no
\* soft-deleted row occupies the unique index unless the party is being
\* deleted right now (the reason LeaveParty hard-deletes).
LeaversCanRejoin ==
  \A p \in Parties, u \in Users :
    ~failed /\ status[p] = "live" /\ member[p][u] = "deleted"
      => \E r \in Requests : At(r, "delete_row", p)

\* After DeleteParty has removed a party nobody becomes a member of it, not
\* even a join or a create that was under way.
DeletedStaysClosed ==
  [][\A p \in Parties :
       status[p] = "deleted" => Members(p)' \subseteq Members(p)]_vars

\* Every request is answered: the row lock is always given back, so no
\* handler waits for it for ever.
HandlersReturn == \A r \in Requests : pc[r] # "idle" ~> pc[r] = "idle"

\* The handlers implement the promise of PartyRoster: a party's phase is its
\* row's, its roster the rows that are joined.
Roster == INSTANCE PartyRoster WITH
  Sizes  <- {SeatsFor(n) : n \in MaxNums},
  phase  <- status,
  seats  <- [p \in Parties |-> Capacity(p)],
  roster <- [p \in Parties |-> Members(p)]

\* Seen through that mapping every step of the handlers is one entry, one
\* departure, an opening, a disbanding, a closing, or nothing.
ImplementsRoster == Roster!RosterSpec
=============================================================================
