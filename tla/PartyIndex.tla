----------------------------- MODULE PartyIndex -----------------------------
(***************************************************************************)
(* The Redis index of the party list, service/party_cache.go: a ZSET of    *)
(* party ids beside the table.  CreateParty and DeleteParty bring it up to *)
(* date after their statement; GetPartyList rebuilds it when it is gone    *)
(* and takes out ids whose row is gone.                                    *)
(*                                                                         *)
(* One action is one statement or one Redis command.  The ZADDs of a       *)
(* rebuild are a pipeline, not a MULTI, so they take effect one by one.    *)
(* Redis drops a ZSET with its last member, so the key exists when the     *)
(* index has members.  Parties are numbered in the order of the list, and  *)
(* a request asks for any page: ties and what a page shows are left to     *)
(* PartyPaging.  The client sends a command again when its reply is lost,  *)
(* so a command may take effect more than once.                            *)
(*                                                                         *)
(* A definition named X_Y is a faulty variant Y of X: no specification     *)
(* uses it; it shows that some property below notices the fault.           *)
(***************************************************************************)
EXTENDS Integers, FiniteSets

CONSTANTS
  Parties,    \* parties, numbered from the oldest to the newest
  Limits,     \* page sizes a request may have
  Readers,    \* goroutines that serve GetPartyList, one request after another
  MaxFaults,  \* how many faults a behaviour may have: commands that fail,
              \* replies that are lost, and crashes
  None        \* no reader, or no cursor

ASSUME IndexAssumption ==
  /\ Parties \subseteq Nat
  /\ Limits \subseteq Nat \ {0}
  /\ MaxFaults \in Nat
  /\ None \notin Readers \cup Parties

VARIABLES
  row,       \* row[p]: "absent", "live", or "deleted" (deleted_at set)
  creator,   \* creator[p]: what CreateParty has left to do for the index
  deleting,  \* deleting[p]: DeleteParty has the ZREM left to do
  index,     \* the members of party:list:ids
  hasTtl,    \* whether the key has a TTL
  late,      \* a record for the properties: the parties whose create was
             \* between its EXISTS and its ZADD when the index last went
  mu,        \* who holds partyListMu
  reader,    \* reader[r]: the next command of reader r
  ids,       \* ids[r]: the ids it has read and not dealt with
  faults     \* how many faults there have been

store == <<index, hasTtl, late>>
vars == <<row, creator, deleting, index, hasTtl, late, mu, reader, ids, faults>>

ReaderSteps == {"idle", "lock", "select", "fill", "seek", "fetch", "heal"}
Rebuilding(r) == reader[r] \in {"select", "fill"}

IndexTypeOK ==
  /\ row \in [Parties -> {"absent", "live", "deleted"}]
  /\ creator \in [Parties -> {"none", "exists", "zadd"}]
  /\ deleting \in [Parties -> BOOLEAN]
  /\ index \subseteq Parties
  /\ hasTtl \in BOOLEAN
  /\ hasTtl => index # {}
  /\ late \subseteq Parties
  /\ mu \in Readers \cup {None}
  /\ reader \in [Readers -> ReaderSteps]
  /\ \A r \in Readers : Rebuilding(r) <=> mu = r
  /\ ids \in [Readers -> SUBSET Parties]
  /\ faults \in 0..MaxFaults

Init ==
  /\ row = [p \in Parties |-> "absent"]
  /\ creator = [p \in Parties |-> "none"]
  /\ deleting = [p \in Parties |-> FALSE]
  /\ index = {}
  /\ hasTtl = FALSE
  /\ late = {}
  /\ mu = None
  /\ reader = [r \in Readers |-> "idle"]
  /\ ids = [r \in Readers |-> {}]
  /\ faults = 0

Live == {p \in Parties : row[p] = "live"}
Exists == index # {}

Fault   == faults < MaxFaults /\ faults' = faults + 1
NoFault == UNCHANGED faults

\* ZADD keeps the TTL of the key; a key that it makes has none.
ZAdd(p) == index' = index \cup {p} /\ UNCHANGED <<hasTtl, late>>

BetweenCommands == {p \in Parties : creator[p] = "zadd"}

\* The key goes, by its TTL or with its last member.
KeyGoes == late' = BetweenCommands

ZRem(p) ==
  /\ index' = index \ {p}
  /\ hasTtl' = (hasTtl /\ index # {p})
  /\ \/ index = {p} /\ KeyGoes
     \/ index # {p} /\ UNCHANGED late

-----------------------------------------------------------------------------
(* CreateParty: INSERT, then EXISTS and ZADD.                              *)

Insert(p) ==
  /\ row[p] = "absent"
  /\ row' = [row EXCEPT ![p] = "live"]
  /\ creator' = [creator EXCEPT ![p] = "exists"]
  /\ UNCHANGED <<deleting, store, mu, reader, ids, faults>>

\* Adds to the index whether it is there or not.
NeedsZAdd_Always == TRUE

\* No index, or an error: the next rebuild will find the party.
NeedsZAdd == Exists

CheckIndex(p) ==
  /\ creator[p] = "exists"
  /\ \/ NeedsZAdd /\ NoFault /\ creator' = [creator EXCEPT ![p] = "zadd"]
     \/ ~NeedsZAdd /\ NoFault /\ creator' = [creator EXCEPT ![p] = "none"]
     \/ Fault /\ creator' = [creator EXCEPT ![p] = "none"]
  /\ UNCHANGED <<row, deleting, store, mu, reader, ids>>

\* A ZADD whose reply is lost takes effect and is sent again.
AddToIndex(p) ==
  /\ creator[p] = "zadd"
  /\ \/ NoFault /\ ZAdd(p) /\ creator' = [creator EXCEPT ![p] = "none"]
     \/ Fault /\ ZAdd(p) /\ UNCHANGED creator
     \/ Fault /\ UNCHANGED store /\ creator' = [creator EXCEPT ![p] = "none"]
  /\ UNCHANGED <<row, deleting, mu, reader, ids>>

-----------------------------------------------------------------------------
(* DeleteParty: soft-delete, then ZREM, which is idempotent, so it does    *)
(* not matter that two requests may delete the same party.                 *)

DeleteRow(p) ==
  /\ row[p] = "live"
  /\ row' = [row EXCEPT ![p] = "deleted"]
  /\ deleting' = [deleting EXCEPT ![p] = TRUE]
  /\ UNCHANGED <<creator, store, mu, reader, ids, faults>>

RemoveFromIndex(p) ==
  /\ deleting[p]
  /\ \/ NoFault /\ ZRem(p) /\ deleting' = [deleting EXCEPT ![p] = FALSE]
     \/ Fault /\ ZRem(p) /\ UNCHANGED deleting
     \/ Fault /\ UNCHANGED store /\ deleting' = [deleting EXCEPT ![p] = FALSE]
  /\ UNCHANGED <<row, creator, mu, reader, ids>>

-----------------------------------------------------------------------------
(* GetPartyList, the readiness of the index: EXISTS; without an index,     *)
(* under the mutex, EXISTS again and rebuild.  Every error ends in the     *)
(* page from the table, which changes nothing.                             *)

Goto(r, step) == reader' = [reader EXCEPT ![r] = step]
Keep(r, some) == ids' = [ids EXCEPT ![r] = some]

Return(r) == Goto(r, "idle") /\ Keep(r, {})

Ready(r) ==
  /\ reader[r] = "idle"
  /\ Goto(r, IF Exists THEN "seek" ELSE "lock")
  /\ UNCHANGED <<row, creator, deleting, store, mu, ids, faults>>

\* Trusts the EXISTS before the lock.
StillGone_Unchecked == TRUE

StillGone == ~Exists

\* An error of the second EXISTS is taken for a missing index.
Lock(r) ==
  /\ reader[r] = "lock"
  /\ mu = None
  /\ \/ ~StillGone /\ NoFault /\ Goto(r, "seek") /\ UNCHANGED mu
     \/ StillGone /\ NoFault /\ Goto(r, "select") /\ mu' = r
     \/ Fault /\ Goto(r, "select") /\ mu' = r
  /\ UNCHANGED <<row, creator, deleting, store, ids>>

GiveUp_KeepsLock(r) == Return(r) /\ UNCHANGED mu

\* The deferred Unlock, and the page from the table.
GiveUp(r) == Return(r) /\ mu' = None

Select(r) ==
  /\ reader[r] = "select"
  /\ \/ NoFault /\ Keep(r, Live) /\ Goto(r, "fill") /\ UNCHANGED mu
     \/ Fault /\ GiveUp(r)
  /\ UNCHANGED <<row, creator, deleting, store>>

\* A pipeline that breaks off has carried out some of its ZADDs; sent again,
\* it carries them out once more.
Fill(r) ==
  /\ reader[r] = "fill"
  /\ ids[r] # {}
  /\ \/ \E p \in ids[r] :
          /\ ZAdd(p)
          /\ \/ NoFault /\ Keep(r, ids[r] \ {p})
             \/ Fault /\ UNCHANGED ids
          /\ UNCHANGED <<mu, reader>>
     \/ Fault /\ GiveUp(r) /\ UNCHANGED store
  /\ UNCHANGED <<row, creator, deleting>>

SetTtl_Forgotten == UNCHANGED hasTtl

\* EXPIRE does nothing without a key.
SetTtl == hasTtl' = Exists

Expire(r) ==
  /\ reader[r] = "fill"
  /\ ids[r] = {}
  /\ \/ NoFault /\ SetTtl /\ Goto(r, "seek") /\ mu' = None /\ UNCHANGED ids
     \/ Fault /\ GiveUp(r) /\ (SetTtl \/ UNCHANGED hasTtl)
  /\ UNCHANGED <<row, creator, deleting, index, late>>

-----------------------------------------------------------------------------
(* GetPartyList, the page: the ids, their rows, and a ZREM for every id    *)
(* without a row.                                                          *)

\* The n newest of some parties.
Newest(some, n) == {p \in some : Cardinality({q \in some : q > p}) < n}

Below(cursor) == {p \in index : cursor = None \/ p < cursor}

\* One id more than the page is read, for hasMore, and let go.
Seek(r) ==
  /\ reader[r] = "seek"
  /\ \/ /\ NoFault
        /\ \E cursor \in Parties \cup {None}, limit \in Limits :
             Keep(r, Newest(Below(cursor), limit))
        /\ Goto(r, "fetch")
     \/ Fault /\ Return(r)
  /\ UNCHANGED <<row, creator, deleting, store, mu>>

Missing(some) == some \ Live

\* Takes a failed read for one that found nothing.
FetchFails_Unnoticed(r) == Goto(r, "heal") /\ UNCHANGED ids

FetchFails(r) == Return(r)

Clean_Never(r, some) == Return(r)

Clean(r, some) ==
  /\ Goto(r, IF some = {} THEN "idle" ELSE "heal")
  /\ Keep(r, some)

Fetch(r) ==
  /\ reader[r] = "fetch"
  /\ \/ NoFault /\ Clean(r, Missing(ids[r]))
     \/ Fault /\ FetchFails(r)
  /\ UNCHANGED <<row, creator, deleting, store, mu>>

Heal(r) ==
  /\ reader[r] = "heal"
  /\ \E p \in ids[r] :
       \/ NoFault /\ ZRem(p) /\ Clean(r, ids[r] \ {p})
       \/ Fault /\ ZRem(p) /\ Clean(r, ids[r])
       \/ Fault /\ UNCHANGED store /\ Clean(r, ids[r] \ {p})
  /\ UNCHANGED <<row, creator, deleting, mu>>

-----------------------------------------------------------------------------
(* The world: the TTL ends; the process dies and starts again.             *)

KeyExpires ==
  /\ hasTtl
  /\ KeyGoes
  /\ index' = {}
  /\ hasTtl' = FALSE
  /\ UNCHANGED <<row, creator, deleting, mu, reader, ids, faults>>

Crash ==
  /\ Fault
  /\ creator' = [p \in Parties |-> "none"]
  /\ deleting' = [p \in Parties |-> FALSE]
  /\ mu' = None
  /\ reader' = [r \in Readers |-> "idle"]
  /\ ids' = [r \in Readers |-> {}]
  /\ UNCHANGED <<row, store>>

-----------------------------------------------------------------------------
Update(p) == CheckIndex(p) \/ AddToIndex(p) \/ RemoveFromIndex(p)

Serve(r) ==
  \/ Ready(r)
  \/ Select(r)
  \/ Fill(r)
  \/ Expire(r)
  \/ Seek(r)
  \/ Fetch(r)
  \/ Heal(r)

Next ==
  \/ \E p \in Parties : Insert(p) \/ DeleteRow(p) \/ Update(p)
  \/ \E r \in Readers : Serve(r) \/ Lock(r)
  \/ KeyExpires
  \/ Crash

Spec == Init /\ [][Next]_vars

\* Goroutines run, the mutex does not starve a waiter, TTLs end, and the list
\* is asked for again and again.
FairSpec ==
  /\ Spec
  /\ WF_vars(KeyExpires)
  /\ \A p \in Parties : WF_vars(Update(p))
  /\ \A r \in Readers : WF_vars(Serve(r)) /\ SF_vars(Lock(r))

-----------------------------------------------------------------------------
(* Properties. *)

\* An index that a create has made, and nothing since has given a TTL: the key
\* went between its EXISTS and its ZADD.
MadeLate == Exists /\ ~hasTtl /\ \E p \in late : creator[p] = "none"

\* As long as nothing has failed, an index without a TTL is one that is being
\* filled, or was made by a create that came too late: every other one ends
\* and is then rebuilt (header of party_cache.go: 索引带随机化短 TTL).  What a
\* create missed because a rebuild had already read the table is so bound to
\* appear.
TtlUnlessFilling ==
  faults = 0 /\ Exists /\ ~hasTtl =>
    MadeLate \/ \E r \in Readers : reader[r] = "fill"

\* As long as nothing has failed, readers that found no index at the same time
\* do not all rebuild it: who reads the table finds the index still gone
\* (双检锁重建，避免并发击穿), or made by a late create meanwhile.
NoRedundantRebuild ==
  faults = 0 => \A r \in Readers : reader[r] = "select" => ~Exists \/ MadeLate

\* Readers clean the index by what they read some steps ago, while others
\* create, delete and rebuild, and anything may fail; still the index keeps
\* what PartyListing promises: only deleted parties are ever taken out of an
\* index that goes on, and none comes in before its INSERT.
Listing == INSTANCE PartyListing WITH listed <- index

ImplementsListing == Listing!ListingSpec

\* Unless something fails or a late create makes an index that never ends, a
\* party that was created and not deleted gets into the index again and again,
\* even if its create found no index and the rebuild under way had not seen it.
EventuallyIndexed ==
  \A p \in Parties :
    []<>(row[p] = "live" => p \in index \/ faults > 0 \/ MadeLate)

\* A deleted party stops coming up: whatever fails, and even if the ZADD of its
\* create or of a rebuild comes after its ZREM, or the process dies before the
\* ZREM, only finitely many pages read its id and find no row (顺手清理索引).
\* On a page that nobody asks for, an index without a TTL keeps the id.
StaleDiesOut ==
  \A p \in Parties :
    <>[](row[p] = "deleted" =>
           \A r \in Readers : ~(reader[r] = "fetch" /\ p \in ids[r]))

\* A create never makes an index with itself as the only member (comment on
\* partyListIndexZAdd: 避免造出只含一个成员的残缺索引).  The code does not keep
\* this: the key may expire between its EXISTS and its ZADD.
NoLoneIndex ==
  [][\A p \in Parties : AddToIndex(p) /\ p \in index' => Exists]_vars
=============================================================================
