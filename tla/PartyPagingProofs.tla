------------------------- MODULE PartyPagingProofs -------------------------
(***************************************************************************)
(* Theorems about PartyPaging, for all sets of parties, times and limits   *)
(* and every size of the slack.                                            *)
(***************************************************************************)
EXTENDS PartyPaging, FiniteSetTheorems, TLAPS

-----------------------------------------------------------------------------
(* Pages descend. *)

\* The cursor is the oldest party that the client has got.
Behind ==
  \A a \in seen \cup page : cursor # None /\ (a = cursor \/ Newer(a, cursor))

\* The inductive invariant: the cursor is the oldest party the client has
\* got, and what is under way is older.
PagingInv ==
  /\ at \in [Ids -> Nat]
  /\ live \cup index \cup cand \cup page \cup seen \subseteq Created
  /\ cursor \in Created \cup {None}
  /\ \A a \in cand : Follows(a)
  /\ phase # "fetch" => cand = {}
  /\ Behind
  /\ PagesDescend

LEMMA Total ==
  ASSUME at \in [Ids -> Nat], NEW a \in Ids, NEW b \in Ids
  PROVE  /\ Newer(a, b) \/ a = b \/ Newer(b, a)
         /\ ~(Newer(a, b) /\ Newer(b, a))
         /\ ~Newer(a, a)
<1>1. a \in Int /\ b \in Int /\ at[a] \in Int /\ at[b] \in Int
  BY PagingAssumption
<1> QED
  BY <1>1 DEF Newer

LEMMA Transitive ==
  ASSUME at \in [Ids -> Nat], NEW a \in Ids, NEW b \in Ids, NEW c \in Ids,
         a = b \/ Newer(a, b), Newer(b, c)
  PROVE  Newer(a, c)
<1>1. /\ a \in Int /\ b \in Int /\ c \in Int
      /\ at[a] \in Int /\ at[b] \in Int /\ at[c] \in Int
  BY PagingAssumption
<1> QED
  BY <1>1 DEF Newer

\* What a page that follows the cursor does to what the client has.
LEMMA AnswerDescends ==
  ASSUME PagingInv, UNCHANGED at, NEW items, NEW hasMore,
         items \subseteq Created, \A a \in items : Follows(a),
         Answer(items, hasMore)
  PROVE  /\ page' \cup seen' \subseteq Created'
         /\ cursor' \in Created' \cup {None}
         /\ phase' # "fetch"
         /\ Behind'
         /\ PagesDescend'
<1> USE DEF PagingInv
<1>c. Created' = Created /\ Created \subseteq Ids /\ None \notin Created
  BY PagingAssumption DEF Created
<1>n. \A a, b : Newer(a, b)' <=> (at[a] > at[b] \/ (at[a] = at[b] /\ a > b))
  BY DEF Newer
<1>1. page' = items /\ seen' = seen \cup page /\ phase' # "fetch"
  BY DEF Answer
<1>2. ASSUME NEW a \in seen', NEW b \in items PROVE Newer(a, b)
  <2>1. /\ cursor # None /\ (a = cursor \/ Newer(a, cursor)) /\ Newer(cursor, b)
    BY <1>1 DEF Follows, Behind
  <2> QED
    BY <2>1, <1>1, <1>c, Transitive
<1>3. PagesDescend'
  BY <1>1, <1>2 DEF PagesDescend, Newer
<1>4. CASE items = {} /\ UNCHANGED cursor
  <2>1. Behind' /\ cursor' \in Created' \cup {None}
    BY <1>1, <1>4, <1>c DEF Behind, Newer
  <2>2. page' \cup seen' \subseteq Created'
    BY <1>1, <1>c
  <2> QED
    BY <1>1, <1>3, <2>1, <2>2
<1>5. ASSUME NEW c \in items, Oldest(c, items), cursor' = c
      PROVE  /\ cursor' \in Created' \cup {None}
             /\ Behind'
  <2>1. \A a \in items : a = c \/ Newer(a, c)
    BY <1>5, <1>c, Total DEF Oldest
  <2>2. \A a \in seen' : Newer(a, c)
    BY <1>2
  <2> QED
    BY <1>1, <1>5, <1>c, <2>1, <2>2 DEF Behind, Newer
<1>6. page' \cup seen' \subseteq Created'
  BY <1>1, <1>c
<1> QED
  BY <1>1, <1>3, <1>4, <1>5, <1>6 DEF Answer

LEMMA NextPagingInv ==
  ASSUME PagingInv, [Next]_vars
  PROVE  PagingInv'
<1> USE DEF PagingInv
<1>c. Created \subseteq Ids /\ None \notin Created
  BY PagingAssumption DEF Created
<1>1. ASSUME NEW limit \in Limits, ReadTable(limit) PROVE PagingInv'
  <2> DEFINE p == TablePage(Clamp(limit))
  <2>1. p.ids \subseteq live /\ \A a \in p.ids : Follows(a)
    BY DEF TablePage, Page, First
  <2>2. /\ UNCHANGED <<at, live, index, cand>> /\ cand = {}
        /\ Answer(p.ids, p.more)
    BY <1>1 DEF ReadTable, parties
  <2>3. /\ page' \cup seen' \subseteq Created'
        /\ cursor' \in Created' \cup {None}
        /\ Behind'
        /\ PagesDescend'
    <3>1. p.ids \subseteq Created
      BY <2>1
    <3> HIDE DEF p
    <3> QED
      BY <2>1, <2>2, <3>1, AnswerDescends
  <2>4. \A a \in cand' : Follows(a)'
    BY <2>2
  <2> QED
    BY <2>2, <2>3, <2>4, AnswerDescends DEF Created
<1>2. ASSUME NEW limit \in Limits, ReadIndex(limit) PROVE PagingInv'
  <2> DEFINE p == IndexPage(Clamp(limit))
  <2>1. p.ids \subseteq index /\ \A a \in p.ids : Follows(a)
    BY DEF IndexPage, Page, First, seekPartyIDs
  <2>2. /\ UNCHANGED <<at, live, index, cursor, page, seen>>
        /\ cand' = p.ids /\ phase' = "fetch"
    BY <1>2 DEF ReadIndex, parties
  <2> HIDE DEF p
  <2>3. \A a \in cand' : Follows(a)'
    BY <2>1, <2>2 DEF Follows, Newer
  <2> QED
    BY <2>1, <2>2, <2>3 DEF Created, Newer, Behind, PagesDescend
<1>3. CASE SeekFails
  BY <1>3 DEF SeekFails, parties, Created, Newer, Behind, PagesDescend
<1>4. CASE Fetch
  <2>1. /\ UNCHANGED <<at, live>> /\ index' \subseteq index /\ cand' = {}
        /\ Answer(cand \cap live, more)
    BY <1>4 DEF Fetch
  <2>2. /\ page' \cup seen' \subseteq Created'
        /\ cursor' \in Created' \cup {None}
        /\ Behind'
        /\ PagesDescend'
    BY <2>1, AnswerDescends
  <2> QED
    BY <2>1, <2>2 DEF Created
<1>5. CASE FetchFails
  BY <1>5 DEF FetchFails, parties, Created, Newer, Behind, PagesDescend
<1>6. CASE FirstPage
  BY <1>6 DEF FirstPage, parties, Created, Follows, Behind, PagesDescend
<1>7. ASSUME NEW a \in Ids, Insert(a) PROVE PagingInv'
  <2>1. PICK t \in Times : at' = [at EXCEPT ![a] = t]
    BY <1>7 DEF Insert
  <2>2. /\ at[a] = 0 /\ t \in Nat \ {0} /\ live' = live \cup {a}
        /\ UNCHANGED <<index, cand, page, seen, cursor, phase>>
    BY <1>7, PagingAssumption DEF Insert, client
  <2>3. at' \in [Ids -> Nat] /\ Created' = Created \cup {a}
    BY <2>1, <2>2 DEF Created
  <2>4. \A b \in Created : at'[b] = at[b]
    BY <2>1, <2>2 DEF Created
  <2>5. \A b, d \in Created : Newer(b, d)' <=> Newer(b, d)
    BY <2>4 DEF Newer
  <2>6. \A b \in cand' : Follows(b)'
    BY <2>2, <2>5 DEF Follows
  <2>7. PagesDescend'
    BY <2>2, <2>5 DEF PagesDescend
  <2>8. Behind'
    BY <2>2, <2>5 DEF Behind
  <2> QED
    BY <2>2, <2>3, <2>6, <2>7, <2>8
<1>8. CASE (\E a \in Ids : Delete(a) \/ ZAdd(a) \/ ZRem(a)) \/ KeyExpires
  <2>1. /\ UNCHANGED <<at, cand, page, seen, cursor, phase>>
        /\ live' \subseteq live /\ index' \subseteq index \cup Created
    BY <1>8 DEF Delete, ZAdd, ZRem, KeyExpires, client
  <2> QED
    BY <2>1 DEF Created, Follows, Newer, Behind, PagesDescend
<1>9. CASE UNCHANGED vars
  BY <1>9 DEF vars, Created, Follows, Newer, Behind, PagesDescend
<1> QED
  BY <1>1, <1>2, <1>3, <1>4, <1>5, <1>6, <1>7, <1>8, <1>9 DEF Next, Ask

LEMMA InitPagingInv ==
  ASSUME Init
  PROVE  PagingInv
<1>1. at \in [Ids -> Nat]
  <2>1. Times \cup {0} \subseteq Nat
    BY PagingAssumption
  <2>2. at \in [Ids -> Times \cup {0}]
    BY DEF Init
  <2> QED
    BY <2>1, <2>2
<1>2. /\ live = Created /\ index = Created /\ phase = "ask" /\ cursor = None
      /\ cand = {} /\ page = {} /\ seen = {}
  BY DEF Init
<1>3. Behind /\ PagesDescend
  BY <1>2 DEF Behind, PagesDescend
<1> QED
  BY <1>1, <1>2, <1>3 DEF PagingInv

\* No party is shown twice: every page is older than all before it, whichever
\* way it was read and whatever happened in between.
THEOREM PagesAlwaysDescend == Spec => []PagesDescend
<1>1. Init => PagingInv
  BY InitPagingInv
<1>2. PagingInv /\ [Next]_vars => PagingInv'
  BY NextPagingInv
<1>3. PagingInv => PagesDescend
  BY DEF PagingInv
<1> QED
  BY <1>1, <1>2, <1>3, PTL DEF Spec

-----------------------------------------------------------------------------
(* Types, and the size of a page. *)

\* n places take n members of a set at most, in either order.
LEMMA Ranks ==
  ASSUME NEW S, S \subseteq Ids, NEW n \in Nat, NEW rank \in [S -> Nat],
         \A a, b \in S : rank[a] = rank[b] => a = b
  PROVE  /\ IsFiniteSet({a \in S : rank[a] < n})
         /\ Cardinality({a \in S : rank[a] < n}) <= n
<1> DEFINE F == {a \in S : rank[a] < n}
           f == [a \in F |-> rank[a]]
<1>1. IsFiniteSet(0..(n - 1)) /\ Cardinality(0..(n - 1)) = n
  <2>1. CASE n = 0
    BY <2>1, FS_Interval
  <2>2. CASE n # 0
    BY <2>2, FS_Interval
  <2> QED
    BY <2>1, <2>2
<1>2. f \in Injection(F, 0..(n - 1))
  <2>1. f \in [F -> 0..(n - 1)]
    OBVIOUS
  <2>2. \A a, b \in F : f[a] = f[b] => a = b
    OBVIOUS
  <2> QED
    BY <2>1, <2>2 DEF Injection, IsInjective
<1> HIDE DEF F, f
<1>4. IsFiniteSet(F) /\ Cardinality(F) <= n
  BY <1>1, <1>2, FS_Injection
<1> QED
  BY <1>4 DEF F

LEMMA FirstBounded ==
  ASSUME at \in [Ids -> Nat], NEW S, S \subseteq Created, NEW n \in Nat
  PROVE  /\ IsFiniteSet(First(n, S, Newer)) /\ Cardinality(First(n, S, Newer)) <= n
         /\ IsFiniteSet(First(n, S, Sooner)) /\ Cardinality(First(n, S, Sooner)) <= n
<1>s. S \subseteq Ids /\ IsFiniteSet(S)
  BY PagingAssumption, FS_Subset DEF Created
<1>1. /\ IsFiniteSet(First(n, S, Newer)) /\ Cardinality(First(n, S, Newer)) <= n
  <2> DEFINE above(a) == {b \in S : Newer(b, a)}
             rank == [a \in S |-> Cardinality(above(a))]
  <2>1. \A a \in S : above(a) \subseteq S /\ IsFiniteSet(above(a))
    BY <1>s, FS_Subset
  <2>2. rank \in [S -> Nat]
    BY <2>1, FS_CardinalityType
  <2>3. ASSUME NEW a \in S, NEW b \in S, Newer(a, b) PROVE rank[a] # rank[b]
    <3>1. above(a) \subseteq above(b) /\ a \in above(b) /\ a \notin above(a)
      BY <1>s, <2>3, Transitive, Total
    <3> HIDE DEF above
    <3> QED
      BY <2>1, <3>1, FS_Subset
  <2>4. \A a, b \in S : rank[a] = rank[b] => a = b
    <3> HIDE DEF rank
    <3> QED
      BY <1>s, <2>3, Total
  <2>5. First(n, S, Newer) = {a \in S : rank[a] < n}
    BY DEF First
  <2> HIDE DEF rank
  <2> QED
    BY <1>s, <2>2, <2>4, <2>5, Ranks
<1>2. /\ IsFiniteSet(First(n, S, Sooner)) /\ Cardinality(First(n, S, Sooner)) <= n
  <2> DEFINE above(a) == {b \in S : Sooner(b, a)}
             rank == [a \in S |-> Cardinality(above(a))]
  <2>s. \A a \in S : a \in Ids /\ AsString[a] \in Int /\ at[a] \in Int
    BY <1>s, StringsAssumption
  <2>1. \A a \in S : above(a) \subseteq S /\ IsFiniteSet(above(a))
    BY <1>s, FS_Subset
  <2>2. rank \in [S -> Nat]
    BY <2>1, FS_CardinalityType
  <2>3. ASSUME NEW a \in S, NEW b \in S, Sooner(a, b) PROVE rank[a] # rank[b]
    <3>1. above(a) \subseteq above(b) /\ a \in above(b) /\ a \notin above(a)
      BY <2>s, <2>3 DEF Sooner
    <3> HIDE DEF above
    <3> QED
      BY <2>1, <3>1, FS_Subset
  <2>4. \A a, b \in S : rank[a] = rank[b] => a = b
    <3>1. ASSUME NEW a \in S, NEW b \in S PROVE a = b \/ Sooner(a, b) \/ Sooner(b, a)
      BY <2>s, StringsAssumption DEF Sooner
    <3> HIDE DEF rank
    <3> QED
      BY <2>3, <3>1
  <2>5. First(n, S, Sooner) = {a \in S : rank[a] < n}
    BY DEF First
  <2> HIDE DEF rank
  <2> QED
    BY <1>s, <2>2, <2>4, <2>5, Ranks
<1> QED
  BY <1>1, <1>2

PagingTypeInv ==
  /\ PagingInv
  /\ PagingTypeOK
  /\ Cardinality(cand) <= MaxSize

LEMMA Clamped ==
  ASSUME NEW limit \in Limits
  PROVE  Clamp(limit) \in Nat /\ Clamp(limit) <= MaxSize
BY PagingAssumption DEF Clamp

LEMMA NextPagingTypeInv ==
  ASSUME PagingTypeInv, [Next]_vars
  PROVE  PagingTypeInv'
<1> USE DEF PagingTypeInv
<1>c. Created \subseteq Ids /\ IsFiniteSet(Created)
  BY PagingAssumption, FS_Subset DEF Created
<1>e. Cardinality({}) <= MaxSize
  BY FS_EmptySet, PagingAssumption
<1>i. PagingInv'
  BY NextPagingInv
<1> USE DEF PagingTypeOK
<1>1. ASSUME NEW limit \in Limits, ReadTable(limit) PROVE PagingTypeInv'
  <2> DEFINE p == TablePage(Clamp(limit))
             S == {a \in live : Follows(a)}
  <2>1. /\ UNCHANGED <<at, live, index, cand, more, due, cut>>
        /\ page' = p.ids /\ seen' = seen \cup page
        /\ phase' \in {"ask", "end"}
    BY <1>1 DEF ReadTable, parties, Answer
  <2>2. p.ids = First(Clamp(limit), S, Newer) /\ S \subseteq Created
    BY DEF TablePage, Page
  <2> HIDE DEF p, S
  <2>3. Cardinality(page') <= MaxSize
    <3>1. Cardinality(p.ids) <= Clamp(limit)
      BY <2>2, Clamped, FirstBounded DEF PagingInv
    <3>2. IsFiniteSet(p.ids)
      BY <2>2, Clamped, FirstBounded DEF PagingInv
    <3>3. Cardinality(p.ids) \in Nat
      BY <3>2, FS_CardinalityType
    <3> QED
      BY <2>1, <3>1, <3>3, Clamped, PagingAssumption
  <2>4. Created' = Created
    BY <2>1 DEF Created
  <2> QED
    BY <1>i, <2>1, <2>3, <2>4 DEF PagingInv
<1>2. ASSUME NEW limit \in Limits, ReadIndex(limit) PROVE PagingTypeInv'
  <2> DEFINE n == Clamp(limit)
             S == First(n + 1, seekPartyIDs(n + 1), Sooner)
  <2>1. /\ UNCHANGED <<at, live, index, cursor, page, seen, cut>>
        /\ cand' = IndexPage(n).ids /\ more' = IndexPage(n).more
        /\ phase' = "fetch" /\ due' \subseteq due
    BY <1>2 DEF ReadIndex, parties
  <2>2. /\ IndexPage(n).ids = First(n, S, Sooner)
        /\ IndexPage(n).more \in BOOLEAN
        /\ S \subseteq Created
    BY DEF IndexPage, Page, First, seekPartyIDs
  <2>3. /\ Cardinality(First(n, S, Sooner)) <= n
        /\ IsFiniteSet(First(n, S, Sooner))
    <3> HIDE DEF S
    <3> QED
      BY <2>2, Clamped, FirstBounded DEF PagingInv
  <2> HIDE DEF n, S
  <2>4. Cardinality(cand') <= MaxSize
    <3>1. Cardinality(First(n, S, Sooner)) \in Nat
      BY <2>3, FS_CardinalityType
    <3> QED
      BY <2>1, <2>2, <2>3, <3>1, Clamped, PagingAssumption DEF n
  <2>5. Created' = Created
    BY <2>1 DEF Created
  <2> QED
    BY <1>i, <2>1, <2>2, <2>4, <2>5 DEF PagingInv
<1>3. CASE SeekFails
  BY <1>i, <1>3, <1>e DEF SeekFails, parties, Created
<1>4. CASE Fetch
  <2>1. /\ UNCHANGED <<at, live, due>> /\ cand' = {} /\ more' = FALSE
        /\ page' = cand \cap live /\ phase' \in {"ask", "end"}
        /\ seen' = seen \cup page /\ cut' \in BOOLEAN
    BY <1>4 DEF Fetch, Answer
  <2>2. index' \subseteq index
    BY <1>4 DEF Fetch
  <2>3. Cardinality(page') <= MaxSize
    <3>1. IsFiniteSet(cand) /\ page' \in SUBSET cand
      BY <2>1, <1>c, FS_Subset
    <3>2. Cardinality(page') <= Cardinality(cand) /\ IsFiniteSet(page')
      BY <3>1, FS_Subset
    <3> QED
      BY <3>1, <3>2, FS_CardinalityType, PagingAssumption
  <2>4. Created' = Created
    BY <2>1 DEF Created
  <2> QED
    BY <1>i, <1>e, <2>1, <2>2, <2>3, <2>4 DEF PagingInv
<1>5. CASE FetchFails
  BY <1>i, <1>5, <1>e DEF FetchFails, parties, Created
<1>6. CASE FirstPage
  BY <1>i, <1>6, <1>e DEF FirstPage, parties, Created
<1>7. ASSUME NEW a \in Ids, Insert(a) PROVE PagingTypeInv'
  <2>1. PICK t \in Times : at' = [at EXCEPT ![a] = t]
    BY <1>7 DEF Insert
  <2>2. /\ live' = live \cup {a} /\ t # 0
        /\ UNCHANGED <<index, phase, cursor, cand, more, page, seen, due, cut>>
    BY <1>7, PagingAssumption DEF Insert, client
  <2>3. Created' = Created \cup {a}
    BY <2>1, <2>2 DEF Created
  <2>4. at' \in [Ids -> Times \cup {0}]
    BY <2>1
  <2> QED
    BY <1>i, <2>2, <2>3, <2>4
<1>8. CASE (\E a \in Ids : Delete(a) \/ ZAdd(a) \/ ZRem(a)) \/ KeyExpires
  <2>1. /\ UNCHANGED <<at, phase, cursor, cand, more, page, seen, cut>>
        /\ live' \subseteq live /\ index' \subseteq index \cup Created
        /\ due' \subseteq live'
    BY <1>8 DEF Delete, ZAdd, ZRem, KeyExpires, client
  <2>2. Created' = Created
    BY <2>1 DEF Created
  <2> QED
    BY <1>i, <2>1, <2>2
<1>9. CASE UNCHANGED vars
  BY <1>i, <1>9 DEF vars, Created
<1> QED
  BY <1>1, <1>2, <1>3, <1>4, <1>5, <1>6, <1>7, <1>8, <1>9 DEF Next, Ask

LEMMA InitPagingTypeInv ==
  ASSUME Init
  PROVE  PagingTypeInv
<1>1. PagingInv
  BY InitPagingInv
<1>2. Cardinality({}) <= MaxSize
  BY FS_EmptySet, PagingAssumption
<1> QED
  BY <1>1, <1>2 DEF Init, PagingTypeInv, PagingTypeOK

\* The variables keep their types, no page is longer than MaxSize, and what
\* a client must get is live.
THEOREM PagingTypeCorrect == Spec => []PagingTypeOK
<1>1. Init => PagingTypeInv
  BY InitPagingTypeInv
<1>2. PagingTypeInv /\ [Next]_vars => PagingTypeInv'
  BY NextPagingTypeInv
<1>3. PagingTypeInv => PagingTypeOK
  BY DEF PagingTypeInv
<1> QED
  BY <1>1, <1>2, <1>3, PTL DEF Spec

-----------------------------------------------------------------------------
(* Both paths give the same pages.                                         *)

Above(a, S) == {b \in S : Newer(b, a)}

\* First in the order of the table.
Top(n, S) == {a \in S : Cardinality(Above(a, S)) < n}

LEMMA TopIsFirst ==
  ASSUME NEW S, NEW n
  PROVE  First(n, S, Newer) = Top(n, S)
BY DEF First, Top, Above

LEMMA CreatedFinite ==
  ASSUME NEW S, S \subseteq Created
  PROVE  S \subseteq Ids /\ IsFiniteSet(S) /\ Cardinality(S) \in Nat
<1>1. S \in SUBSET Ids
  BY DEF Created
<1>2. IsFiniteSet(S)
  BY <1>1, PagingAssumption, FS_Subset
<1> QED
  BY <1>1, <1>2, FS_CardinalityType

\* The rank of a party is one of the numbers below the size of the set, and
\* an older party has a higher one.
LEMMA RankRange ==
  ASSUME at \in [Ids -> Nat], NEW S, S \subseteq Created, NEW a \in S
  PROVE  /\ IsFiniteSet(Above(a, S))
         /\ Cardinality(Above(a, S)) \in Nat
         /\ Cardinality(Above(a, S)) < Cardinality(S)
<1>1. S \subseteq Ids /\ IsFiniteSet(S) /\ Cardinality(S) \in Nat
  BY CreatedFinite
<1>2. Above(a, S) \in SUBSET (S \ {a})
  BY <1>1, Total DEF Above
<1>3. IsFiniteSet(S \ {a}) /\ Cardinality(S \ {a}) = Cardinality(S) - 1
  BY <1>1, FS_RemoveElement
<1>4. IsFiniteSet(Above(a, S)) /\ Cardinality(Above(a, S)) <= Cardinality(S \ {a})
  BY <1>2, <1>3, FS_Subset
<1>5. Cardinality(Above(a, S)) \in Nat
  BY <1>4, FS_CardinalityType
<1> QED
  BY <1>1, <1>3, <1>4, <1>5

LEMMA RankRises ==
  ASSUME at \in [Ids -> Nat], NEW S, S \subseteq Created,
         NEW a \in S, NEW b \in S, Newer(a, b)
  PROVE  Cardinality(Above(a, S)) < Cardinality(Above(b, S))
<1>1. S \subseteq Ids
  BY CreatedFinite
<1>2. /\ Above(a, S) \in SUBSET Above(b, S)
      /\ a \in Above(b, S) /\ a \notin Above(a, S)
  BY <1>1, Transitive, Total DEF Above
<1>3. /\ IsFiniteSet(Above(b, S))
      /\ Cardinality(Above(a, S)) \in Nat /\ Cardinality(Above(b, S)) \in Nat
  BY RankRange
<1>4. /\ Cardinality(Above(a, S)) <= Cardinality(Above(b, S))
      /\ Cardinality(Above(b, S)) = Cardinality(Above(a, S))
           => Above(b, S) = Above(a, S)
  BY <1>2, <1>3, FS_Subset
<1> QED
  BY <1>2, <1>3, <1>4

\* n places are all taken when there are enough parties, and when there are
\* not, all parties have one.
LEMMA TopFills ==
  ASSUME at \in [Ids -> Nat], NEW S, S \subseteq Created, NEW n \in Nat
  PROVE  /\ Cardinality(S) <= n => Top(n, S) = S
         /\ n <= Cardinality(S) => Cardinality(Top(n, S)) = n
<1>s. S \subseteq Ids /\ IsFiniteSet(S) /\ Cardinality(S) \in Nat
  BY CreatedFinite
<1>1. ASSUME Cardinality(S) <= n PROVE Top(n, S) = S
  <2>1. \A a \in S : Cardinality(Above(a, S)) \in Nat /\ Cardinality(Above(a, S)) < n
    BY <1>1, <1>s, RankRange
  <2> QED
    BY <2>1 DEF Top
<1>2. ASSUME n <= Cardinality(S) PROVE Cardinality(Top(n, S)) = n
  <2> DEFINE rank == [a \in S |-> Cardinality(Above(a, S))]
             low == [a \in Top(n, S) |-> Cardinality(Above(a, S))]
             size == Cardinality(S)
  <2>1. \A a \in S : rank[a] \in 0..(size - 1)
    BY <1>s, RankRange
  <2>2. \A a, b \in S : rank[a] = rank[b] => a = b
    <3> SUFFICES ASSUME NEW a \in S, NEW b \in S, a # b
                 PROVE  rank[a] # rank[b]
      OBVIOUS
    <3>1. rank[a] \in Nat /\ rank[b] \in Nat
      BY <2>1, <1>s
    <3>2. Newer(a, b) \/ Newer(b, a)
      BY <1>s, Total
    <3>3. rank[a] < rank[b] \/ rank[b] < rank[a]
      BY <3>2, RankRises
    <3> HIDE DEF rank
    <3> QED
      BY <3>1, <3>3
  <2>3. IsFiniteSet(0..(size - 1)) /\ Cardinality(0..(size - 1)) = size
    BY <1>s, FS_Interval
  <2>4. rank \in Injection(S, 0..(size - 1))
    <3>1. rank \in [S -> 0..(size - 1)]
      BY <2>1
    <3> HIDE DEF rank
    <3> QED
      BY <2>2, <3>1 DEF Injection, IsInjective
  <2>5. rank \in Surjection(S, 0..(size - 1))
    <3> HIDE DEF rank
    <3> QED
      BY <2>3, <2>4, FS_Injection
  <2>6. \A k \in 0..(size - 1) : \E a \in S : rank[a] = k
    <3> HIDE DEF rank
    <3> QED
      BY <2>5 DEF Surjection
  <2>7. IsFiniteSet(0..(n - 1)) /\ Cardinality(0..(n - 1)) = n
    BY FS_Interval
  <2>8. /\ Top(n, S) \subseteq S
        /\ \A a \in S : a \in Top(n, S) <=> rank[a] < n
        /\ \A a \in Top(n, S) : low[a] = rank[a]
    BY DEF Top
  <2> HIDE DEF rank
  <2>9. low \in [Top(n, S) -> 0..(n - 1)]
    <3>1. \A a \in Top(n, S) : low[a] \in 0..(n - 1)
      BY <2>1, <2>8, <1>s
    <3> QED
      BY <3>1
  <2> HIDE DEF low
  <2>10. low \in Injection(Top(n, S), 0..(n - 1))
    BY <2>2, <2>8, <2>9 DEF Injection, IsInjective
  <2>11. \A k \in 0..(n - 1) : \E a \in Top(n, S) : low[a] = k
    <3> TAKE k \in 0..(n - 1)
    <3>1. k \in 0..(size - 1) /\ k < n
      BY <1>2, <1>s
    <3>2. PICK a \in S : rank[a] = k
      BY <2>6, <3>1
    <3> QED
      BY <2>8, <3>1, <3>2
  <2>12. low \in Surjection(Top(n, S), 0..(n - 1))
    BY <2>9, <2>11 DEF Surjection
  <2> QED
    BY <2>7, <2>10, <2>12, FS_Injection
<1> QED
  BY <1>1, <1>2

\* Who is left out is older than all who are not, and there was no place.
LEMMA LeftOut ==
  ASSUME at \in [Ids -> Nat], NEW S, S \subseteq Created, NEW n \in Nat,
         NEW d \in S, d \notin Top(n, S)
  PROVE  /\ \A a \in Top(n, S) : Newer(a, d)
         /\ n < Cardinality(S)
         /\ Cardinality(Top(n, S)) = n
<1>s. S \subseteq Ids /\ IsFiniteSet(S) /\ Cardinality(S) \in Nat
  BY CreatedFinite
<1>1. ~(Cardinality(Above(d, S)) < n) /\ Cardinality(Above(d, S)) \in Nat
  BY RankRange DEF Top
<1>2. ASSUME NEW a \in Top(n, S), ~Newer(a, d) PROVE FALSE
  <2>1. a \in S /\ Cardinality(Above(a, S)) < n /\ Cardinality(Above(a, S)) \in Nat
    BY RankRange DEF Top
  <2>2. a # d
    BY <1>1, <2>1
  <2>3. Newer(d, a)
    BY <1>2, <1>s, <2>1, <2>2, Total
  <2>4. Cardinality(Above(d, S)) < Cardinality(Above(a, S))
    BY <2>1, <2>3, RankRises
  <2> QED
    BY <1>1, <2>1, <2>4
<1>3. n < Cardinality(S)
  BY <1>s, <1>1, RankRange
<1> QED
  BY <1>2, <1>3, <1>s, TopFills

\* The first of a part that lacks none of them are the first of the whole.
LEMMA TopOfTop ==
  ASSUME NEW S, NEW T, T \subseteq S, NEW n,
         \A a \in T, b \in S : Newer(b, a) => b \in T,
         Top(n, S) \subseteq T
  PROVE  Top(n, T) = Top(n, S)
<1>1. \A a \in T : Above(a, T) = Above(a, S)
  BY DEF Above
<1> QED
  BY <1>1 DEF Top

\* Whoever is newer than one of the first is one of them.
LEMMA TopClosed ==
  ASSUME at \in [Ids -> Nat], NEW S, S \subseteq Created, NEW n \in Nat,
         NEW a \in Top(n, S), NEW b \in S, Newer(b, a)
  PROVE  b \in Top(n, S)
<1>1. S \subseteq Ids /\ a \in S
  BY CreatedFinite DEF Top
<1>2. ~Newer(a, b)
  BY <1>1, Total
<1> QED
  BY <1>2, LeftOut

\* Without the ids that sort differently, Redis orders as MySQL does.
LEMMA SameOrder ==
  ASSUME TiesSafe, NEW a \in Created, NEW b \in Created
  PROVE  Sooner(a, b) <=> Newer(a, b)
BY StringsAssumption DEF TiesSafe, Created, Sooner, Newer

LEMMA SameFirst ==
  ASSUME TiesSafe, NEW S, S \subseteq Created, NEW n
  PROVE  First(n, S, Sooner) = Top(n, S)
<1>1. \A a \in S : {b \in S : Sooner(b, a)} = Above(a, S)
  BY SameOrder DEF Above
<1> QED
  BY <1>1 DEF First, Top

\* What the seek reaches and the client has got already fits into the slack.
LEMMA SlackCovers ==
  ASSUME at \in [Ids -> Nat], TiesSafe, index \subseteq Created,
         cursor \in Created \cup {None}
  PROVE  LET late == {a \in index : Reached(a) /\ ~Follows(a)}
         IN  IsFiniteSet(late) /\ Cardinality(late) <= Slack
<1> DEFINE late == {a \in index : Reached(a) /\ ~Follows(a)}
<1>1. CASE cursor = None
  <2>1. late = {}
    BY <1>1 DEF Follows
  <2> QED
    BY <2>1, FS_EmptySet, PagingAssumption
<1>2. CASE cursor # None
  <2> DEFINE ties == {b \in Created : at[b] = at[cursor]}
  <2>1. cursor \in Created /\ Created \subseteq Ids
    BY <1>2 DEF Created
  <2>2. late \subseteq ties
    <3> SUFFICES ASSUME NEW a \in late PROVE at[a] = at[cursor]
      OBVIOUS
    <3>1. at[a] <= at[cursor] /\ ~Newer(cursor, a) /\ a \in Ids
      BY <1>2, <2>1 DEF Reached, Follows
    <3>2. at[a] \in Int /\ at[cursor] \in Int
      BY <2>1, <3>1
    <3> QED
      BY <3>1, <3>2 DEF Newer
  <2>3. Cardinality(ties) <= Slack
    BY <2>1 DEF TiesSafe
  <2>4. IsFiniteSet(ties) /\ Cardinality(ties) \in Nat
    BY CreatedFinite
  <2> HIDE DEF late, ties
  <2>5. IsFiniteSet(late) /\ Cardinality(late) <= Cardinality(ties)
    BY <2>2, <2>4, FS_Subset
  <2>6. Cardinality(late) \in Nat
    BY <2>5, FS_CardinalityType
  <2>7. IsFiniteSet(late) /\ Cardinality(late) <= Slack
    BY <2>3, <2>4, <2>5, <2>6, PagingAssumption
  <2> QED
    BY <2>7 DEF late
<1> QED
  BY <1>1, <1>2

\* The ids of the index that belong on later pages.
Ahead == {a \in index : Follows(a)}

\* The seek finds all of them, or n at least, and the newest first.
LEMMA SeekFinds ==
  ASSUME at \in [Ids -> Nat], TiesSafe, index \subseteq Created,
         cursor \in Created \cup {None}, NEW n \in Nat
  PROVE  /\ seekPartyIDs(n) \subseteq Ahead
         /\ \A a \in seekPartyIDs(n), b \in Ahead :
              Newer(b, a) => b \in seekPartyIDs(n)
         /\ Top(n, Ahead) \subseteq seekPartyIDs(n)
<1> DEFINE R == {b \in index : Reached(b)}
           late == {a \in index : Reached(a) /\ ~Follows(a)}
           K == Top(n + Slack, R)
           Q == {a \in K : Follows(a)}
<1>1. R \subseteq Created /\ Ahead \subseteq Created /\ Slack \in Nat
  BY PagingAssumption DEF Ahead
<1>2. seekPartyIDs(n) = Q
  BY <1>1, SameFirst DEF seekPartyIDs, Count
<1>3. Ahead \subseteq R
  <2> SUFFICES ASSUME NEW a \in Ahead, cursor # None PROVE at[a] <= at[cursor]
    BY DEF Ahead, Reached
  <2>1. Newer(cursor, a) /\ a \in Ids /\ cursor \in Ids
    BY DEF Ahead, Follows, Created
  <2>2. at[a] \in Int /\ at[cursor] \in Int
    BY <2>1
  <2> QED
    BY <2>1, <2>2 DEF Newer
<1>4. Q \subseteq Ahead /\ K \subseteq R /\ K \subseteq Q \cup late
  BY DEF Ahead, Top
<1>5. ASSUME NEW a \in Q, NEW b \in Ahead, Newer(b, a) PROVE b \in Q
  <2>1. b \in R /\ a \in K /\ Follows(b)
    BY <1>3 DEF Ahead
  <2> HIDE DEF R
  <2>2. b \in K
    BY <1>1, <1>5, <2>1, TopClosed
  <2> QED
    BY <2>1, <2>2
<1>6. ASSUME NEW d \in Top(n, Ahead), d \notin Q PROVE FALSE
  <2>1. d \in Ahead /\ Cardinality(Above(d, Ahead)) < n
    BY <1>6 DEF Top
  <2>2. d \in R /\ d \notin K
    BY <1>3, <1>6, <2>1 DEF Ahead
  <2>3. (\A a \in K : Newer(a, d)) /\ Cardinality(K) = n + Slack
    <3> HIDE DEF R
    <3> QED
      BY <1>1, <2>2, LeftOut
  <2>4. Q \subseteq Above(d, Ahead)
    BY <1>4, <2>3 DEF Above
  <2>5. IsFiniteSet(Above(d, Ahead)) /\ Cardinality(Above(d, Ahead)) \in Nat
    BY <1>1, <2>1, RankRange
  <2>6. IsFiniteSet(late) /\ Cardinality(late) <= Slack
    BY SlackCovers
  <2> HIDE DEF Q, K, late
  <2>7. /\ IsFiniteSet(Q) /\ Cardinality(Q) <= Cardinality(Above(d, Ahead))
        /\ Cardinality(Q) \in Nat /\ Cardinality(late) \in Nat
    BY <2>4, <2>5, <2>6, FS_Subset, FS_CardinalityType
  <2>8. /\ IsFiniteSet(Q \cup late)
        /\ Cardinality(Q \cup late)
             = Cardinality(Q) + Cardinality(late) - Cardinality(Q \cap late)
    BY <2>6, <2>7, FS_Union
  <2>9. Cardinality(Q \cap late) \in Nat
    BY <2>7, FS_Intersection, FS_CardinalityType
  <2>10. Cardinality(K) <= Cardinality(Q \cup late)
    BY <1>4, <2>8, FS_Subset
  <2> QED
    BY <1>1, <2>1, <2>3, <2>5, <2>6, <2>7, <2>8, <2>9, <2>10
<1> QED
  BY <1>2, <1>4, <1>5, <1>6

\* A page of the index is the first of what belongs on later pages.
LEMMA IndexPageIs ==
  ASSUME at \in [Ids -> Nat], TiesSafe, index \subseteq Created,
         cursor \in Created \cup {None}, NEW n \in Nat
  PROVE  IndexPage(n) = Page(n, Ahead, Newer)
<1> DEFINE Q == seekPartyIDs(n + 1)
           G == Top(n + 1, Ahead)
<1>1. Ahead \subseteq Created /\ n + 1 \in Nat
  BY DEF Ahead
<1>2. Q \subseteq Ahead /\ Top(n + 1, Q) = G
  <2>1. /\ Q \subseteq Ahead
        /\ \A a \in Q, b \in Ahead : Newer(b, a) => b \in Q
        /\ Top(n + 1, Ahead) \subseteq Q
    BY <1>1, SeekFinds
  <2> HIDE DEF Q
  <2> QED
    BY <2>1, TopOfTop
<1>3. First(n + 1, Q, Sooner) = G
  <2> HIDE DEF Q
  <2> QED
    BY <1>1, <1>2, SameFirst
<1>4. G \subseteq Ahead /\ \A a \in G, b \in Ahead : Newer(b, a) => b \in G
  BY <1>1, TopClosed DEF Top
<1>5. Top(n, Ahead) \subseteq G
  <2> SUFFICES ASSUME NEW a \in Top(n, Ahead) PROVE a \in G
    OBVIOUS
  <2>1. a \in Ahead /\ Cardinality(Above(a, Ahead)) < n
    BY DEF Top
  <2>2. Cardinality(Above(a, Ahead)) \in Nat
    BY <1>1, <2>1, RankRange
  <2> QED
    BY <2>1, <2>2 DEF Top
<1>6. Top(n, G) = Top(n, Ahead)
  <2> HIDE DEF G
  <2> QED
    BY <1>4, <1>5, TopOfTop
<1>7. Cardinality(G) > n <=> Cardinality(Ahead) > n
  <2>1. Cardinality(Ahead) \in Nat
    BY <1>1, CreatedFinite
  <2>2. Cardinality(Ahead) <= n + 1 => G = Ahead
    BY <1>1, TopFills
  <2>3. n + 1 <= Cardinality(Ahead) => Cardinality(G) = n + 1
    BY <1>1, TopFills
  <2> HIDE DEF G
  <2> QED
    BY <2>1, <2>2, <2>3
<1>8. First(n, G, Sooner) = Top(n, G)
  <2>1. G \subseteq Created
    BY <1>1, <1>4
  <2> HIDE DEF G
  <2> QED
    BY <2>1, SameFirst
<1>9. IndexPage(n) = [ids |-> First(n, G, Sooner), more |-> Cardinality(G) > n]
  BY <1>3 DEF IndexPage, Page
<1>10. Page(n, Ahead, Newer) = [ids |-> Top(n, Ahead), more |-> Cardinality(Ahead) > n]
  BY TopIsFirst DEF Page
<1> HIDE DEF G
<1> QED
  BY <1>6, <1>7, <1>8, <1>9, <1>10

\* Redis and the table give the same pages for the same cursor, if the index
\* is up to date and the slack covers the ties.
THEOREM PathsAlwaysAgree == Spec => []PathsAgree
<1>1. ASSUME PagingInv PROVE PathsAgree
  <2> SUFFICES ASSUME index = live, TiesSafe, NEW limit \in Limits
               PROVE  IndexPage(Clamp(limit)) = TablePage(Clamp(limit))
    BY DEF PathsAgree
  <2>1. IndexPage(Clamp(limit)) = Page(Clamp(limit), Ahead, Newer)
    BY <1>1, Clamped, IndexPageIs DEF PagingInv
  <2>2. Ahead = {a \in live : Follows(a)}
    BY DEF Ahead
  <2> QED
    BY <2>1, <2>2 DEF TablePage
<1>2. Init => PagingInv
  BY InitPagingInv
<1>3. PagingInv /\ [Next]_vars => PagingInv'
  BY NextPagingInv
<1> QED
  BY <1>1, <1>2, <1>3, PTL DEF Spec

-----------------------------------------------------------------------------
(* Nothing is skipped. *)

Got(d) == d \in seen \cup page

\* Until a page hides that there is more, whatever the client must get is
\* there, under way, or further down the list than all that is.
SkipInv ==
  ~cut /\ TiesSafe =>
    \A d \in due :
      \/ Got(d)
      \/ phase = "ask" /\ Follows(d)
      \/ phase = "fetch" /\ d \in cand
      \/ phase = "fetch" /\ more /\ Follows(d) /\ \A c \in cand : Newer(c, d)

\* A page from which d is missing has more after it.
LEMMA PageKeeps ==
  ASSUME at \in [Ids -> Nat], NEW S, S \subseteq Created,
         NEW n \in Nat, n > 0, NEW d \in S, d \notin Page(n, S, Newer).ids
  PROVE  /\ Page(n, S, Newer).more
         /\ Page(n, S, Newer).ids # {}
         /\ \A c \in Page(n, S, Newer).ids : Newer(c, d)
<1>1. /\ Page(n, S, Newer).ids = Top(n, S)
      /\ Page(n, S, Newer).more <=> Cardinality(S) > n
  BY TopIsFirst DEF Page
<1>2. /\ \A a \in Top(n, S) : Newer(a, d)
      /\ n < Cardinality(S)
      /\ Cardinality(Top(n, S)) = n
  BY <1>1, LeftOut
<1>3. Cardinality(S) \in Nat /\ Top(n, S) # {}
  BY <1>2, CreatedFinite, FS_EmptySet
<1> QED
  BY <1>1, <1>2, <1>3

\* An answer keeps what is still further down in front of the client.
LEMMA AnswerKeeps ==
  ASSUME UNCHANGED at, NEW items, NEW hasMore, Answer(items, hasMore), NEW d,
         Got(d) \/ d \in items
           \/ (hasMore /\ items # {} /\ \A c \in items : Newer(c, d))
  PROVE  Got(d)' \/ (phase' = "ask" /\ Follows(d)')
<1>1. page' = items /\ seen' = seen \cup page
  BY DEF Answer
<1>2. CASE Got(d) \/ d \in items
  BY <1>1, <1>2 DEF Got
<1>3. CASE hasMore /\ items # {} /\ \A c \in items : Newer(c, d)
  <2>1. PICK a \in items : cursor' = a
    BY <1>3 DEF Answer
  <2>2. phase' = "ask" /\ Newer(a, d)
    BY <1>3 DEF Answer
  <2>3. Follows(d)'
    BY <2>1, <2>2 DEF Follows, Newer
  <2> QED
    BY <2>2, <2>3
<1> QED
  BY <1>2, <1>3

LEMMA NextSkipInv ==
  ASSUME PagingTypeInv, SkipInv, [Next]_vars
  PROVE  SkipInv'
<1>i. /\ at \in [Ids -> Nat] /\ index \subseteq Created /\ live \subseteq Created
      /\ cursor \in Created \cup {None} /\ due \subseteq live
      /\ \A a \in cand : Follows(a)
      /\ phase # "fetch" => cand = {}
  BY DEF PagingTypeInv, PagingTypeOK, PagingInv
<1>c. ASSUME NEW limit \in Limits PROVE Clamp(limit) \in Nat /\ Clamp(limit) > 0
  BY PagingAssumption DEF Clamp
<1>t. UNCHANGED at => (TiesSafe' <=> TiesSafe)
  BY DEF TiesSafe, Created
<1>1. ASSUME NEW limit \in Limits, ReadTable(limit) PROVE SkipInv'
  <2> DEFINE n == Clamp(limit)
             S == {a \in live : Follows(a)}
             p == Page(n, S, Newer)
  <2>1. /\ phase = "ask" /\ UNCHANGED <<at, due, cut>>
        /\ Answer(p.ids, p.more)
    BY <1>1 DEF ReadTable, parties, TablePage
  <2>2. ASSUME ~cut, TiesSafe, NEW d \in due
        PROVE  Got(d)' \/ (phase' = "ask" /\ Follows(d)')
    <3>1. Got(d) \/ d \in S
      BY <1>i, <2>1, <2>2 DEF SkipInv
    <3>2. S \subseteq Created /\ n \in Nat /\ n > 0
      BY <1>i, <1>c
    <3> HIDE DEF S, n
    <3>3. Got(d) \/ d \in p.ids
            \/ (p.more /\ p.ids # {} /\ \A c \in p.ids : Newer(c, d))
      BY <1>i, <3>1, <3>2, PageKeeps
    <3> HIDE DEF p
    <3> QED
      BY <2>1, <3>3, AnswerKeeps
  <2> HIDE DEF p
  <2> QED
    BY <1>t, <2>1, <2>2 DEF SkipInv
<1>2. ASSUME NEW limit \in Limits, ReadIndex(limit) PROVE SkipInv'
  <2> DEFINE n == Clamp(limit)
             p == Page(n, Ahead, Newer)
  <2>1. /\ phase = "ask" /\ phase' = "fetch"
        /\ UNCHANGED <<at, cut, cursor, page, seen>> /\ due' = due \cap index
        /\ cand' = IndexPage(n).ids /\ more' = IndexPage(n).more
    BY <1>2 DEF ReadIndex, parties
  <2>2. ASSUME ~cut, TiesSafe, NEW d \in due', ~Got(d)
        PROVE  \/ d \in cand'
               \/ more' /\ Follows(d) /\ \A c \in cand' : Newer(c, d)
    <3>1. d \in Ahead /\ Follows(d) /\ Ahead \subseteq Created
      BY <1>i, <2>1, <2>2 DEF SkipInv, Ahead
    <3>2. n \in Nat /\ n > 0
      BY <1>c
    <3> HIDE DEF n
    <3>3. IndexPage(n) = p
      BY <1>i, <2>2, <3>2, IndexPageIs
    <3>4. d \in p.ids \/ (p.more /\ \A c \in p.ids : Newer(c, d))
      BY <1>i, <3>1, <3>2, PageKeeps
    <3> HIDE DEF p
    <3> QED
      BY <2>1, <3>1, <3>3, <3>4
  <2>3. \A d : (Got(d)' <=> Got(d)) /\ (Follows(d)' <=> Follows(d))
    BY <2>1 DEF Got, Follows, Newer
  <2>4. \A c, d : Newer(c, d)' <=> Newer(c, d)
    BY <2>1 DEF Newer
  <2> QED
    BY <1>t, <2>1, <2>2, <2>3, <2>4 DEF SkipInv
<1>3. CASE SeekFails
  BY <1>3 DEF SeekFails, SkipInv
<1>4. CASE Fetch
  <2> DEFINE items == cand \cap live
  <2>1. /\ phase = "fetch" /\ UNCHANGED <<at, due>>
        /\ Answer(items, more)
        /\ cut' = (cut \/ (more /\ items = {}))
    BY <1>4 DEF Fetch
  <2>2. ASSUME ~cut', TiesSafe, NEW d \in due
        PROVE  Got(d)' \/ (phase' = "ask" /\ Follows(d)')
    <3>1. \/ Got(d) \/ d \in items
          \/ more /\ items # {} /\ \A c \in items : Newer(c, d)
      BY <1>i, <2>1, <2>2 DEF SkipInv
    <3> HIDE DEF items
    <3> QED
      BY <2>1, <3>1, AnswerKeeps
  <2> HIDE DEF items
  <2> QED
    BY <1>t, <2>1, <2>2 DEF SkipInv
<1>5. CASE FetchFails
  <2>1. /\ phase = "fetch" /\ phase' = "ask" /\ cand' = {}
        /\ UNCHANGED <<at, due, cut, cursor, page, seen>>
    BY <1>5 DEF FetchFails, parties
  <2>2. \A d : (Got(d)' <=> Got(d)) /\ (Follows(d)' <=> Follows(d))
    BY <2>1 DEF Got, Follows, Newer
  <2> QED
    BY <1>i, <1>t, <2>1, <2>2 DEF SkipInv
<1>6. CASE FirstPage
  BY <1>6 DEF FirstPage, SkipInv, Follows
<1>7. ASSUME NEW a \in Ids, Insert(a) PROVE SkipInv'
  <2>1. PICK t \in Times : at' = [at EXCEPT ![a] = t]
    BY <1>7 DEF Insert
  <2>2. /\ at[a] = 0 /\ t # 0
        /\ UNCHANGED <<due, phase, cursor, cand, more, page, seen, cut>>
    BY <1>7, PagingAssumption DEF Insert, client
  <2>3. /\ Created \subseteq Created' /\ \A b \in Created : at'[b] = at[b]
        /\ Created' \in SUBSET Ids
    BY <1>i, <2>1, <2>2 DEF Created
  <2>4. TiesSafe' => TiesSafe
    <3> SUFFICES ASSUME TiesSafe' PROVE TiesSafe
      OBVIOUS
    <3>1. \A b, c \in Created : at[b] = at[c] => Digits[b] = Digits[c]
      BY <2>3 DEF TiesSafe
    <3>2. ASSUME NEW b \in Created
          PROVE  Cardinality({c \in Created : at[c] = at[b]}) <= Slack
      <4> DEFINE old == {c \in Created : at[c] = at[b]}
                 new == {c \in Created' : at'[c] = at'[b]}
      <4>1. Cardinality(new) <= Slack
        BY <2>3 DEF TiesSafe
      <4>2. old \subseteq new /\ new \in SUBSET Ids /\ old \subseteq Created
        BY <2>3
      <4> HIDE DEF old, new
      <4>3. IsFiniteSet(new) /\ Cardinality(new) \in Nat
        BY <4>2, PagingAssumption, FS_Subset, FS_CardinalityType
      <4>4. Cardinality(old) <= Cardinality(new) /\ Cardinality(old) \in Nat
        BY <4>2, <4>3, FS_Subset, CreatedFinite
      <4>5. Cardinality(old) <= Slack
        BY <4>1, <4>3, <4>4, PagingAssumption
      <4> QED
        BY <4>5 DEF old
    <3> QED
      BY <3>1, <3>2 DEF TiesSafe
  <2>5. \A b, d \in Created : Newer(b, d)' <=> Newer(b, d)
    BY <2>3 DEF Newer
  <2>6. \A d \in due : (Got(d)' <=> Got(d)) /\ (Follows(d)' <=> Follows(d))
    BY <1>i, <2>2, <2>5 DEF Got, Follows
  <2>7. cand \subseteq Created
    BY DEF PagingTypeInv, PagingTypeOK
  <2> QED
    BY <1>i, <2>2, <2>4, <2>5, <2>6, <2>7 DEF SkipInv
<1>8. CASE (\E a \in Ids : Delete(a) \/ ZAdd(a) \/ ZRem(a)) \/ KeyExpires
  <2>1. /\ UNCHANGED <<at, phase, cursor, cand, more, page, seen, cut>>
        /\ due' \subseteq due
    BY <1>8 DEF Delete, ZAdd, ZRem, KeyExpires, client
  <2>2. \A c, d : /\ Got(d)' <=> Got(d)
                  /\ Follows(d)' <=> Follows(d)
                  /\ Newer(c, d)' <=> Newer(c, d)
    BY <2>1 DEF Got, Follows, Newer
  <2> QED
    BY <1>t, <2>1, <2>2 DEF SkipInv
<1>9. CASE UNCHANGED vars
  <2>1. UNCHANGED <<at, due, phase, cursor, cand, more, page, seen, cut>>
    BY <1>9 DEF vars
  <2>2. \A c, d : /\ Got(d)' <=> Got(d)
                  /\ Follows(d)' <=> Follows(d)
                  /\ Newer(c, d)' <=> Newer(c, d)
    BY <2>1 DEF Got, Follows, Newer
  <2> QED
    BY <1>t, <2>1, <2>2 DEF SkipInv
<1> QED
  BY <1>1, <1>2, <1>3, <1>4, <1>5, <1>6, <1>7, <1>8, <1>9 DEF Next, Ask

\* Who pages to the end gets every party that was there all the time, from
\* either path and with any slack that covers the ties.
THEOREM WalkIsComplete == Spec => []NothingSkipped
<1>1. Init => PagingTypeInv /\ SkipInv
  <2>1. Init => SkipInv
    BY DEF Init, SkipInv, Follows
  <2> QED
    BY <2>1, InitPagingTypeInv
<1>2. PagingTypeInv /\ SkipInv /\ [Next]_vars => PagingTypeInv' /\ SkipInv'
  BY NextPagingTypeInv, NextSkipInv
<1>3. SkipInv => NothingSkipped
  BY DEF SkipInv, NothingSkipped, Got
<1> QED
  BY <1>1, <1>2, <1>3, PTL DEF Spec

=============================================================================
