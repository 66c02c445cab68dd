---------------------------- MODULE PartyPaging ----------------------------
(***************************************************************************)
(* A client that pages through the party list (GetPartyList in             *)
(* service/party_service.go, the cursor and the seek in party_cache.go)    *)
(* while parties are created and deleted.  Every page comes from the Redis *)
(* index or, without one, from the table.                                  *)
(*                                                                         *)
(* Of the index the module takes what PartyListing allows: ids come late   *)
(* into it, one by one when it is rebuilt, only deleted parties are taken  *)
(* out, and it may expire as a whole.  A cursor is the last party of a     *)
(* page: it encodes the creation time and the id, neither of which ever    *)
(* changes.  Creation times are in milliseconds, as stored.                *)
(*                                                                         *)
(* A definition named X_Y is a faulty variant Y of X: no specification     *)
(* uses it; it shows that some property below notices the fault.           *)
(***************************************************************************)
EXTENDS Integers, FiniteSets

CONSTANTS
  Ids,          \* party ids
  Digits,       \* Digits[a]: how many digits the id a has
  AsString,     \* AsString[a]: the place of a when ids are sorted as strings
  Late,         \* ids that are given while the client pages
  Doomed,       \* ids whose party may be deleted while the client pages
  Times,        \* creation times
  Limits,       \* limits that clients ask for
  DefaultSize,  \* PartyListPageSize (10 in the code)
  MaxSize,      \* PartyListMaxPageSize (50)
  Slack,        \* partyListIndexSlack (8)
  None          \* the cursor of the first page

ASSUME PagingAssumption ==
  /\ IsFiniteSet(Ids) /\ Ids \subseteq Nat \ {0}
  /\ Late \subseteq Ids /\ Doomed \subseteq Ids
  /\ Times \subseteq Nat \ {0}
  /\ Limits \subseteq Int
  /\ {DefaultSize, MaxSize} \subseteq Nat \ {0} /\ DefaultSize <= MaxSize
  /\ Slack \in Nat
  /\ None \notin Ids

\* Members of a ZSET are strings: "9" comes after "10", and "1" before it.
ASSUME StringsAssumption ==
  /\ {Digits, AsString} \subseteq [Ids -> Nat]
  /\ \A a, b \in Ids : AsString[a] = AsString[b] => a = b
  /\ \A a, b \in Ids :
       Digits[a] = Digits[b] => (AsString[a] > AsString[b] <=> a > b)

VARIABLES
  at,      \* at[a]: created_at of party a; 0 before its INSERT
  live,    \* the rows that are not deleted
  index,   \* the members of party:list:ids; their scores are at
  phase,   \* "ask" for a page, "fetch" the rows of its ids, or "end"
  cursor,  \* the cursor of the next page
  cand,    \* the ids of the page under way
  more,    \* its hasMore
  page,    \* the last page that was answered
  seen,    \* all pages before it
  due,     \* what the client must get: live since the first page began, and
           \* in the index whenever the client has read it
  cut      \* a page without items has hidden that there was more

parties == <<at, live, index>>
vars == <<at, live, index, phase, cursor, cand, more, page, seen, due, cut>>

Created == {a \in Ids : at[a] # 0}

PagingTypeOK ==
  /\ at \in [Ids -> Times \cup {0}]
  /\ live \subseteq Created /\ index \subseteq Created
  /\ phase \in {"ask", "fetch", "end"}
  /\ cursor \in Created \cup {None}
  /\ cand \subseteq Created /\ page \subseteq Created /\ seen \subseteq Created
  /\ Cardinality(page) <= MaxSize
  /\ due \subseteq live
  /\ {more, cut} \subseteq BOOLEAN

\* The list has been rebuilt since the last create and delete.
Init ==
  /\ at \in [Ids -> Times \cup {0}] /\ \A a \in Late : at[a] = 0
  /\ live = Created /\ index = live
  /\ phase = "ask" /\ cursor = None
  /\ cand = {} /\ more = FALSE
  /\ page = {} /\ seen = {}
  /\ due = live
  /\ cut = FALSE

-----------------------------------------------------------------------------
(* Orders. *)

\* ORDER BY created_at desc, id desc
Newer(a, b) == at[a] > at[b] \/ (at[a] = at[b] /\ a > b)

\* ZREVRANGEBYSCORE, in the order of the ZADDs' members: decimal strings.
Sooner(a, b) == at[a] > at[b] \/ (at[a] = at[b] /\ AsString[a] > AsString[b])

First(n, S, Before(_, _)) ==
  {a \in S : Cardinality({b \in S : Before(b, a)}) < n}

Oldest_InIndex(a, items) == \A b \in items : ~Sooner(a, b)

\* The last item, once orderPartyRows has sorted them.
Oldest(a, items) == \A b \in items : ~Newer(a, b)

\* As if the cursor were part of the next page.
Follows_OrEqual(a) == cursor # None => ~Newer(a, cursor)

\* The condition on the rows of a page, in both paths.
Follows(a) == cursor # None => Newer(cursor, a)

-----------------------------------------------------------------------------
(* One page: its ids or rows, and hasMore.                                 *)

Clamp_NoMax(limit) == IF limit <= 0 THEN DefaultSize ELSE limit

Clamp(limit) ==
  IF limit <= 0 THEN DefaultSize ELSE IF limit > MaxSize THEN MaxSize ELSE limit

Page(n, S, Before(_, _)) ==
  [ids |-> First(n, S, Before), more |-> Cardinality(S) > n]

TablePage(n) == Page(n, {a \in live : Follows(a)}, Newer)

Reached_Below(a) == cursor # None => at[a] < at[cursor]

Reached(a) == cursor # None => at[a] <= at[cursor]

Count_NoSlack(n) == n

Count(n) == n + Slack

seekPartyIDs(n) ==
  {a \in First(Count(n), {b \in index : Reached(b)}, Sooner) : Follows(a)}

IndexPage(n) == Page(n, First(n + 1, seekPartyIDs(n + 1), Sooner), Sooner)

-----------------------------------------------------------------------------
(* The client and its requests.                                            *)

\* The end is where hasMore or the next cursor says so.
Answer(items, hasMore) ==
  /\ page' = items
  /\ seen' = seen \cup page
  /\ \/ items = {} /\ UNCHANGED cursor
     \/ \E a \in items : Oldest(a, items) /\ cursor' = a
  /\ phase' = IF hasMore /\ items # {} THEN "ask" ELSE "end"

\* One SELECT.
ReadTable(limit) ==
  LET p == TablePage(Clamp(limit)) IN
  /\ phase = "ask"
  /\ UNCHANGED <<parties, cand, more, due, cut>>
  /\ Answer(p.ids, p.more)

ReadIndex(limit) ==
  LET p == IndexPage(Clamp(limit)) IN
  /\ phase = "ask" /\ phase' = "fetch"
  /\ UNCHANGED <<parties, cursor, page, seen, cut>>
  /\ due' = due \cap index
  /\ cand' = p.ids /\ more' = p.more

\* When Redis fails now, there are no ids and no error.
SeekFails ==
  /\ phase = "ask"
  /\ cand' = {} /\ more' = FALSE /\ cut' = TRUE
  /\ phase' = "fetch"
  /\ UNCHANGED <<parties, cursor, page, seen, due>>

\* The rows that are still there, and a ZREM, which may fail, for the others.
Fetch ==
  /\ phase = "fetch"
  /\ Answer(cand \cap live, more)
  /\ cut' = (cut \/ (more /\ cand \cap live = {}))
  /\ \E kept \in SUBSET (cand \ live) : index' = index \ ((cand \ live) \ kept)
  /\ cand' = {} /\ more' = FALSE
  /\ UNCHANGED <<at, live, due>>

\* An error of the SELECT instead of a page: the client asks again.
FetchFails ==
  /\ phase = "fetch"
  /\ cand # {}
  /\ phase' = "ask"
  /\ cand' = {} /\ more' = FALSE
  /\ UNCHANGED <<parties, cursor, page, seen, due, cut>>

FirstPage ==
  /\ phase = "end"
  /\ phase' = "ask" /\ cursor' = None
  /\ page' = {} /\ seen' = {}
  /\ due' = live
  /\ cut' = FALSE
  /\ UNCHANGED <<parties, cand, more>>

Ask(limit) == ReadTable(limit) \/ ReadIndex(limit)

-----------------------------------------------------------------------------
(* Meanwhile: CreateParty and DeleteParty, each a change of the table and  *)
(* one of the index; the index expires, and a reader builds it again.      *)

client == <<phase, cursor, cand, more, page, seen, cut>>

Insert(a) ==
  /\ a \in Late
  /\ at[a] = 0
  /\ \E t \in Times : at' = [at EXCEPT ![a] = t]
  /\ live' = live \cup {a}
  /\ UNCHANGED <<client, index, due>>

Delete(a) ==
  /\ a \in Doomed \cap live
  /\ live' = live \ {a}
  /\ due' = due \ {a}
  /\ UNCHANGED <<client, at, index>>

ZAdd(a) ==
  /\ a \in Created \ index
  /\ index' = index \cup {a}
  /\ UNCHANGED <<client, at, live, due>>

ZRem(a) ==
  /\ a \in index \ live
  /\ index' = index \ {a}
  /\ UNCHANGED <<client, at, live, due>>

\* From now on the index lacks parties that exist, until the rebuild has
\* added them.
KeyExpires ==
  /\ index # {}
  /\ index' = {}
  /\ UNCHANGED <<client, at, live, due>>

Next ==
  \/ \E limit \in Limits : Ask(limit)
  \/ SeekFails \/ Fetch \/ FetchFails
  \/ FirstPage
  \/ \E a \in Ids : Insert(a) \/ Delete(a) \/ ZAdd(a) \/ ZRem(a)
  \/ KeyExpires

Spec == Init /\ [][Next]_vars

\* The client asks on; its database does not fail for ever.
FairSpec ==
  /\ Spec
  /\ WF_vars(\E limit \in Limits : Ask(limit))
  /\ SF_vars(Fetch)

-----------------------------------------------------------------------------
(* Properties. *)

\* Every page is older than all before it, so no party is shown twice,
\* whichever way the pages were read and whatever was created, deleted and
\* cleaned in between, and even with ties (严格早于游标).
PagesDescend == \A a \in seen, b \in page : Newer(a, b)

\* Ids of one millisecond sort as strings as they do as numbers, and the
\* slack covers them.
TiesSafe ==
  /\ \A a, b \in Created : at[a] = at[b] => Digits[a] = Digits[b]
  /\ \A a \in Created : Cardinality({b \in Created : at[b] = at[a]}) <= Slack

\* A client that pages to the end gets every party that was there all the
\* time, though stale ids take up places in the index and on pages (comment
\* on Slack: 用于同毫秒 tie + 清理已删除 id), and though the index may expire
\* between two pages and be built again from the table.
NothingSkipped ==
  phase = "end" /\ ~cut /\ TiesSafe => due \subseteq seen \cup page

\* Both ways to read a page agree, as far as the slack goes, when the index
\* is up to date (getPartyListFromDB: 语义与 Redis 路径保持一致).
PathsAgree ==
  index = live /\ TiesSafe =>
    \A limit \in Limits : IndexPage(Clamp(limit)) = TablePage(Clamp(limit))

\* Paging comes to an end, with limits of any size.
WalkEnds == []<>(phase = "end")
=============================================================================
