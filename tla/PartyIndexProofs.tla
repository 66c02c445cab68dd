-------------------------- MODULE PartyIndexProofs --------------------------
(***************************************************************************)
(* Theorems about PartyIndex, for every number of parties and readers.     *)
(* Types and what readers clean hold under any faults.  That an index has  *)
(* a TTL unless it is being filled or was made by a late create holds      *)
(* until something fails: a crash before the EXPIRE loses it.              *)
(***************************************************************************)
EXTENDS PartyIndex, TLAPS

\* The parts of an action that have a name of their own are always expanded.
USE DEF store, Live, Exists, NoFault, Goto, Keep, Return, GiveUp, NeedsZAdd,
        StillGone, SetTtl, FetchFails, Missing, Clean, Rebuilding, KeyGoes

LEMMA InitIndexTypeOK == Init => IndexTypeOK
<1>1. 0 \in 0..MaxFaults
  BY IndexAssumption
<1> SUFFICES ASSUME Init PROVE IndexTypeOK
  OBVIOUS
<1>2. /\ index \subseteq Parties
      /\ \A r \in Readers : Rebuilding(r) <=> mu = r
  BY IndexAssumption DEF Init
<1>3. hasTtl \in BOOLEAN /\ ~hasTtl
  BY DEF Init
<1> QED
  BY <1>1, <1>2, <1>3 DEF Init, IndexTypeOK, ReaderSteps

\* What ZADD and ZREM leave is an index, with a TTL only if it has members.
LEMMA StoreOK ==
  ASSUME IndexTypeOK, NEW p \in Parties, ZAdd(p) \/ ZRem(p) \/ UNCHANGED store
  PROVE  /\ index' \subseteq Parties
         /\ hasTtl' \in BOOLEAN
         /\ hasTtl' => index' # {}
         /\ late' \subseteq Parties
<1> USE DEF IndexTypeOK, BetweenCommands
<1>1. CASE ZAdd(p)
  BY <1>1 DEF ZAdd
<1>2. CASE ZRem(p)
  <2>1. index' = index \ {p} /\ hasTtl' = (hasTtl /\ index # {p})
    BY <1>2 DEF ZRem
  <2>2. hasTtl' \in BOOLEAN
    BY <2>1
  <2>3. hasTtl => index # {} /\ index \subseteq Parties
    OBVIOUS
  <2>4. index # {} /\ index # {p} => index \ {p} # {}
    OBVIOUS
  <2>5. late' \subseteq Parties
    BY <1>2 DEF ZRem
  <2> QED
    BY <2>1, <2>2, <2>3, <2>4, <2>5
<1>3. CASE UNCHANGED store
  BY <1>3
<1> QED
  BY <1>1, <1>2, <1>3

\* A page holds ids of the index, whatever its cursor and limit.
LEMMA SeekReads ==
  ASSUME NEW r \in Readers, Seek(r)
  PROVE  /\ reader[r] = "seek"
         /\ \/ \E some \in SUBSET index : Keep(r, some) /\ Goto(r, "fetch")
            \/ Return(r)
         /\ UNCHANGED <<row, creator, deleting, store, mu>>
<1>1. \A cursor, limit : Newest(Below(cursor), limit) \in SUBSET index
  BY DEF Newest, Below
<1>2. CASE \E cursor \in Parties \cup {None}, limit \in Limits :
             Keep(r, Newest(Below(cursor), limit)) /\ Goto(r, "fetch")
  <2>1. PICK cursor \in Parties \cup {None}, limit \in Limits :
          Keep(r, Newest(Below(cursor), limit)) /\ Goto(r, "fetch")
    BY <1>2
  <2> QED
    BY <1>1, <2>1 DEF Seek
<1> QED
  BY <1>2 DEF Seek

\* What a step of one party or one reader may change, by cases.
LEMMA NextIndexTypeOK ==
  ASSUME IndexTypeOK, [Next]_vars
  PROVE  IndexTypeOK'
<1> USE IndexAssumption DEF IndexTypeOK, ReaderSteps
<1>f. faults' \in 0..MaxFaults
  <2>1. Fault \/ NoFault => faults' \in 0..MaxFaults
    BY DEF Fault
  <2> QED
    BY <2>1 DEF Next, Update, Serve, Insert, DeleteRow, CheckIndex, AddToIndex,
       RemoveFromIndex, Ready, Lock, Select, Fill, Expire, Seek, Fetch, Heal,
       KeyExpires, Crash, vars
<1>1. ASSUME NEW p \in Parties, Insert(p) \/ DeleteRow(p) \/ CheckIndex(p)
      PROVE  IndexTypeOK'
  <2>1. CASE Insert(p)
    BY <2>1, <1>f DEF Insert
  <2>2. CASE DeleteRow(p)
    BY <2>2, <1>f DEF DeleteRow
  <2>3. CASE CheckIndex(p)
    BY <2>3, <1>f DEF CheckIndex
  <2> QED
    BY <1>1, <2>1, <2>2, <2>3
<1>2. ASSUME NEW p \in Parties, AddToIndex(p) PROVE IndexTypeOK'
  BY <1>2, <1>f, StoreOK DEF AddToIndex
<1>3. ASSUME NEW p \in Parties, RemoveFromIndex(p) PROVE IndexTypeOK'
  BY <1>3, <1>f, StoreOK DEF RemoveFromIndex
<1>4. ASSUME NEW r \in Readers, Ready(r) PROVE IndexTypeOK'
  BY <1>4, <1>f DEF Ready
<1>5. ASSUME NEW r \in Readers, Lock(r) PROVE IndexTypeOK'
  BY <1>5, <1>f DEF Lock
<1>6. ASSUME NEW r \in Readers, Select(r) PROVE IndexTypeOK'
  BY <1>6, <1>f DEF Select
<1>7. ASSUME NEW r \in Readers, Fill(r) PROVE IndexTypeOK'
  <2>1. CASE Fault /\ GiveUp(r) /\ UNCHANGED store
    BY <1>7, <1>f, <2>1 DEF Fill
  <2>2. CASE \E p \in ids[r] :
               /\ ZAdd(p)
               /\ ids' = [ids EXCEPT ![r] = ids[r] \ {p}] \/ UNCHANGED ids
               /\ UNCHANGED <<mu, reader>>
    <3>1. PICK p \in ids[r] :
            /\ ZAdd(p)
            /\ ids' = [ids EXCEPT ![r] = ids[r] \ {p}] \/ UNCHANGED ids
            /\ UNCHANGED <<mu, reader>>
      BY <2>2
    <3>2. UNCHANGED <<row, creator, deleting>>
      BY <1>7 DEF Fill
    <3>3. ids' \in [Readers -> SUBSET Parties]
      BY <3>1
    <3> QED
      BY <1>f, <3>1, <3>2, <3>3 DEF ZAdd
  <2> QED
    BY <1>7, <2>1, <2>2 DEF Fill
<1>8. ASSUME NEW r \in Readers, Expire(r) PROVE IndexTypeOK'
  <2>1. reader[r] = "fill" /\ UNCHANGED <<row, creator, deleting, index, late>>
    BY <1>8 DEF Expire
  <2>2. /\ \/ Goto(r, "seek") /\ UNCHANGED ids
           \/ Return(r)
        /\ mu' = None
    BY <1>8 DEF Expire
  <2>3. hasTtl' = Exists \/ UNCHANGED hasTtl
    BY <1>8 DEF Expire
  <2>4. hasTtl' \in BOOLEAN /\ (hasTtl' => index' # {})
    <3>1. CASE hasTtl' = Exists
      <4>1. hasTtl' <=> index # {}
        BY <3>1
      <4>2. hasTtl' \in BOOLEAN
        BY <3>1, Zenon
      <4> QED
        BY <2>1, <4>1, <4>2
    <3>2. CASE UNCHANGED hasTtl
      BY <2>1, <3>2
    <3> QED
      BY <2>3, <3>1, <3>2
  <2> QED
    BY <1>f, <2>1, <2>2, <2>4
<1>9. ASSUME NEW r \in Readers, Seek(r) \/ Fetch(r) PROVE IndexTypeOK'
  <2>1. CASE Seek(r)
    <3>1. PICK some \in SUBSET index : Keep(r, some) \/ Keep(r, {})
      BY <2>1, SeekReads
    <3>2. ids' \in [Readers -> SUBSET Parties]
      BY <3>1
    <3>3. /\ reader[r] = "seek"
          /\ Goto(r, "fetch") \/ Goto(r, "idle")
          /\ UNCHANGED <<row, creator, deleting, store, mu>>
      BY <2>1, SeekReads
    <3> QED
      BY <1>f, <3>2, <3>3
  <2>2. CASE Fetch(r)
    BY <1>f, <2>2 DEF Fetch
  <2> QED
    BY <1>9, <2>1, <2>2
<1>10. ASSUME NEW r \in Readers, Heal(r) PROVE IndexTypeOK'
  <2>1. PICK p \in ids[r] :
          \/ ZRem(p) /\ Clean(r, ids[r] \ {p})
          \/ ZRem(p) /\ Clean(r, ids[r])
          \/ UNCHANGED store /\ Clean(r, ids[r] \ {p})
    BY <1>10 DEF Heal
  <2>5. PICK rest \in SUBSET ids[r] : Clean(r, rest)
    BY <2>1
  <2>2. /\ index' \subseteq Parties
        /\ hasTtl' \in BOOLEAN
        /\ hasTtl' => index' # {}
        /\ late' \subseteq Parties
    BY <2>1, StoreOK
  <2>3. reader[r] = "heal" /\ UNCHANGED <<row, creator, deleting, mu>>
    BY <1>10 DEF Heal
  <2>4. ids' \in [Readers -> SUBSET Parties]
    BY <2>5
  <2> QED
    BY <1>f, <2>2, <2>3, <2>4, <2>5
<1>11. CASE KeyExpires
  BY <1>11, <1>f DEF KeyExpires, BetweenCommands
<1>12. CASE Crash
  BY <1>12, <1>f DEF Crash
<1>13. CASE UNCHANGED vars
  BY <1>13 DEF vars
<1> QED
  BY <1>1, <1>2, <1>3, <1>4, <1>5, <1>6, <1>7, <1>8, <1>9, <1>10, <1>11,
     <1>12, <1>13 DEF Next, Update, Serve

\* The variables keep their types; only who holds the mutex rebuilds, and a
\* key without members has no TTL.
THEOREM IndexTypeCorrect == Spec => []IndexTypeOK
BY InitIndexTypeOK, NextIndexTypeOK, PTL DEF Spec

-----------------------------------------------------------------------------
(* The cleaning of the index by readers.                                   *)

\* Nobody deals with the id of a party that has not been inserted.
Inserted ==
  \A p \in Parties :
    p \in index \/ creator[p] # "none" \/ (\E r \in Readers : p \in ids[r])
      => row[p] # "absent"

\* What is to be taken out has been deleted.
OnlyDeletedGo ==
  /\ \A p \in Parties : deleting[p] => row[p] = "deleted"
  /\ \A r \in Readers : reader[r] = "heal" =>
       \A p \in ids[r] : row[p] = "deleted"

CleanInv == IndexTypeOK /\ Inserted /\ OnlyDeletedGo

LEMMA InitCleanInv == Init => CleanInv
BY InitIndexTypeOK DEF Init, CleanInv, Inserted, OnlyDeletedGo

LEMMA NextCleanInv ==
  ASSUME CleanInv, [Next]_vars
  PROVE  CleanInv'
<1>0. IndexTypeOK /\ IndexTypeOK'
  BY NextIndexTypeOK DEF CleanInv
<1> SUFFICES Inserted' /\ OnlyDeletedGo'
  BY <1>0 DEF CleanInv
<1> USE <1>0 DEF CleanInv, IndexTypeOK, Inserted, OnlyDeletedGo
<1>1. ASSUME NEW p \in Parties, Insert(p) \/ DeleteRow(p) \/ CheckIndex(p)
      PROVE  Inserted' /\ OnlyDeletedGo'
  BY <1>1 DEF Insert, DeleteRow, CheckIndex
<1>2. ASSUME NEW p \in Parties, AddToIndex(p)
      PROVE  Inserted' /\ OnlyDeletedGo'
  BY <1>2 DEF AddToIndex, ZAdd
<1>3. ASSUME NEW p \in Parties, RemoveFromIndex(p)
      PROVE  Inserted' /\ OnlyDeletedGo'
  BY <1>3 DEF RemoveFromIndex, ZRem
<1>4. ASSUME NEW r \in Readers, Ready(r) \/ Lock(r) \/ Select(r)
      PROVE  Inserted' /\ OnlyDeletedGo'
  BY <1>4 DEF Ready, Lock, Select
<1>5. ASSUME NEW r \in Readers, Fill(r)
      PROVE  Inserted' /\ OnlyDeletedGo'
  BY <1>5 DEF Fill, ZAdd
<1>6. ASSUME NEW r \in Readers, Expire(r) \/ Seek(r)
      PROVE  Inserted' /\ OnlyDeletedGo'
  <2>1. CASE Expire(r)
    BY <2>1 DEF Expire
  <2>2. CASE Seek(r)
    BY <2>2, SeekReads
  <2> QED
    BY <1>6, <2>1, <2>2
<1>7. ASSUME NEW r \in Readers, Fetch(r)
      PROVE  Inserted' /\ OnlyDeletedGo'
  BY <1>7 DEF Fetch
<1>8. ASSUME NEW r \in Readers, Heal(r)
      PROVE  Inserted' /\ OnlyDeletedGo'
  <2>1. PICK rest \in SUBSET ids[r] : Clean(r, rest)
    BY <1>8 DEF Heal
  <2>2. index' \subseteq index
    BY <1>8 DEF Heal, ZRem
  <2>3. reader[r] = "heal" /\ UNCHANGED <<row, creator, deleting, mu>>
    BY <1>8 DEF Heal
  <2> QED
    BY <2>1, <2>2, <2>3
<1>9. CASE KeyExpires \/ Crash
  BY <1>9 DEF KeyExpires, Crash
<1>10. CASE UNCHANGED vars
  BY <1>10 DEF vars
<1> QED
  BY <1>1, <1>2, <1>3, <1>4, <1>5, <1>6, <1>7, <1>8, <1>9, <1>10
  DEF Next, Update, Serve

-----------------------------------------------------------------------------
(* Refinement of PartyListing. *)

LEMMA NextListing ==
  ASSUME CleanInv, [Next]_vars
  PROVE  [Listing!Next]_(Listing!listingVars)
<1> USE DEF CleanInv, Inserted, OnlyDeletedGo, Listing!listingVars
<1>1. ASSUME NEW p \in Parties, ZAdd(p), row[p] # "absent", UNCHANGED row
      PROVE  Listing!Next
  BY <1>1 DEF ZAdd, Listing!List, Listing!Next
<1>2. ASSUME NEW p \in Parties, ZRem(p), row[p] = "deleted", UNCHANGED row
      PROVE  Listing!Next
  BY <1>2 DEF ZRem, Listing!Unlist, Listing!Next
<1>3. ASSUME NEW p \in Parties, Insert(p) \/ DeleteRow(p)
      PROVE  Listing!Next
  BY <1>3 DEF Insert, DeleteRow, Listing!Open, Listing!Close, Listing!Next
<1>4. ASSUME NEW p \in Parties, AddToIndex(p)
      PROVE  [Listing!Next]_(Listing!listingVars)
  BY <1>4, <1>1 DEF AddToIndex
<1>5. ASSUME NEW p \in Parties, RemoveFromIndex(p)
      PROVE  [Listing!Next]_(Listing!listingVars)
  BY <1>5, <1>2 DEF RemoveFromIndex
<1>6. ASSUME NEW r \in Readers, Fill(r)
      PROVE  [Listing!Next]_(Listing!listingVars)
  BY <1>6, <1>1 DEF Fill, IndexTypeOK
<1>7. ASSUME NEW r \in Readers, Heal(r)
      PROVE  [Listing!Next]_(Listing!listingVars)
  BY <1>7, <1>2 DEF Heal, IndexTypeOK
<1>8. CASE KeyExpires
  BY <1>8 DEF KeyExpires, Listing!Drop, Listing!Next
<1>9. CASE UNCHANGED <<row, index>>
  BY <1>9
<1> QED
  BY <1>3, <1>4, <1>5, <1>6, <1>7, <1>8, <1>9
  DEF Next, Update, Serve, CheckIndex, Ready, Lock, Select, Expire, Seek, Fetch,
      Crash, vars

\* Whatever fails and whoever else writes the index, a party comes in after
\* its INSERT and leaves an index that goes on only when it has been deleted.
THEOREM IndexImplementsListing == Spec => ImplementsListing
<1>1. Init => Listing!Init
  BY DEF Init, Listing!Init
<1>2. CleanInv /\ [Next]_vars => [Listing!Next]_(Listing!listingVars)
  BY NextListing
<1> QED
  BY <1>1, <1>2, InitCleanInv, NextCleanInv, PTL
  DEF Spec, ImplementsListing, Listing!ListingSpec

-----------------------------------------------------------------------------
(* The TTL of the index.                                                   *)

\* As long as nothing has failed, a create adds to an index that is there, or
\* went since its EXISTS.
ZAddFindsKey ==
  faults = 0 =>
    \A p \in Parties : creator[p] = "zadd" => Exists \/ p \in late

LateInserted == \A p \in late : row[p] # "absent"

TtlInv ==
  /\ CleanInv
  /\ TtlUnlessFilling
  /\ NoRedundantRebuild
  /\ ZAddFindsKey
  /\ LateInserted

LEMMA InitTtlInv == Init => TtlInv
BY InitCleanInv
DEF Init, TtlInv, TtlUnlessFilling, NoRedundantRebuild, ZAddFindsKey, LateInserted

LEMMA NextLateInserted ==
  ASSUME CleanInv, LateInserted, [Next]_vars
  PROVE  LateInserted'
<1> USE DEF CleanInv, IndexTypeOK, Inserted, LateInserted, BetweenCommands
<1>1. ASSUME NEW p \in Parties, Insert(p) \/ DeleteRow(p) \/ Update(p)
      PROVE  LateInserted'
  BY <1>1 DEF Insert, DeleteRow, Update, CheckIndex, AddToIndex,
     RemoveFromIndex, ZAdd, ZRem
<1>2. ASSUME NEW r \in Readers, Heal(r)
      PROVE  LateInserted'
  BY <1>2 DEF Heal, ZRem
<1>3. CASE KeyExpires
  BY <1>3 DEF KeyExpires
<1>4. CASE UNCHANGED <<row, late>>
  BY <1>4
<1> QED
  BY <1>1, <1>2, <1>3, <1>4
  DEF Next, Serve, Ready, Lock, Select, Fill, Expire, Seek, Fetch, Crash, ZAdd,
      vars

LEMMA NextTtlInv ==
  ASSUME TtlInv, [Next]_vars
  PROVE  TtlInv'
<1>0. IndexTypeOK /\ IndexTypeOK' /\ CleanInv' /\ LateInserted'
  BY NextCleanInv, NextLateInserted DEF TtlInv, CleanInv
<1> DEFINE Good == TtlUnlessFilling /\ NoRedundantRebuild /\ ZAddFindsKey
<1> SUFFICES ASSUME faults' = 0 PROVE Good'
  BY <1>0 DEF TtlInv, TtlUnlessFilling, NoRedundantRebuild, ZAddFindsKey
<1>f. ~Fault
  BY <1>0, IndexAssumption DEF Fault, IndexTypeOK
<1>n. faults = 0
  <2>1. ~Fault => UNCHANGED faults
    BY DEF Next, Update, Serve, Insert, DeleteRow, CheckIndex, AddToIndex,
       RemoveFromIndex, Ready, Lock, Select, Fill, Expire, Seek, Fetch, Heal,
       KeyExpires, Crash, vars
  <2> QED
    BY <2>1, <1>f
<1>c. \A p \in Parties : row[p] = "absent" => creator[p] = "none" /\ p \notin late
  BY DEF TtlInv, CleanInv, Inserted, LateInserted
<1> USE <1>0, <1>f, <1>n, <1>c
    DEF TtlInv, IndexTypeOK, TtlUnlessFilling, NoRedundantRebuild, ZAddFindsKey,
        MadeLate, BetweenCommands
<1>1. ASSUME NEW p \in Parties, Insert(p) \/ DeleteRow(p) \/ CheckIndex(p)
      PROVE  Good'
  <2>1. CASE Insert(p)
    BY <2>1 DEF Insert
  <2>2. CASE DeleteRow(p)
    BY <2>2 DEF DeleteRow
  <2>3. CASE CheckIndex(p)
    BY <2>3 DEF CheckIndex
  <2> QED
    BY <1>1, <2>1, <2>2, <2>3
<1>2. ASSUME NEW p \in Parties, AddToIndex(p) PROVE Good'
  BY <1>2 DEF AddToIndex, ZAdd
<1>3. ASSUME NEW p \in Parties, RemoveFromIndex(p) PROVE Good'
  BY <1>3 DEF RemoveFromIndex, ZRem
<1>4. ASSUME NEW r \in Readers, Ready(r) \/ Lock(r) PROVE Good'
  BY <1>4 DEF Ready, Lock
<1>5. ASSUME NEW r \in Readers, Select(r) PROVE Good'
  BY <1>5 DEF Select
<1>6. ASSUME NEW r \in Readers, Fill(r) PROVE Good'
  BY <1>6 DEF Fill, ZAdd
<1>7. ASSUME NEW r \in Readers, Expire(r) PROVE Good'
  BY <1>7 DEF Expire
<1>8. ASSUME NEW r \in Readers, Seek(r) \/ Fetch(r) PROVE Good'
  BY <1>8 DEF Seek, Fetch
<1>9. ASSUME NEW r \in Readers, Heal(r) PROVE Good'
  BY <1>9 DEF Heal, ZRem
<1>10. CASE KeyExpires
  BY <1>10 DEF KeyExpires
<1>11. CASE Crash
  BY <1>11 DEF Crash
<1>12. CASE UNCHANGED vars
  BY <1>12 DEF vars
<1> QED
  BY <1>1, <1>2, <1>3, <1>4, <1>5, <1>6, <1>7, <1>8, <1>9, <1>10, <1>11,
     <1>12 DEF Next, Update, Serve

\* Until something fails every index has a TTL unless it is being filled or was
\* made by a create whose index went between EXISTS and ZADD.
THEOREM TtlOrFilling == Spec => []TtlUnlessFilling
<1>1. TtlInv /\ [Next]_vars => TtlInv'
  BY NextTtlInv
<1>2. TtlInv => TtlUnlessFilling
  BY DEF TtlInv
<1> QED
  BY <1>1, <1>2, InitTtlInv, PTL DEF Spec

\* Until something fails, who reads the table for a rebuild finds the index
\* gone, or made by a late create.
THEOREM RebuildsWhenGone == Spec => []NoRedundantRebuild
<1>1. TtlInv /\ [Next]_vars => TtlInv'
  BY NextTtlInv
<1>2. TtlInv => NoRedundantRebuild
  BY DEF TtlInv
<1> QED
  BY <1>1, <1>2, InitTtlInv, PTL DEF Spec
=============================================================================
