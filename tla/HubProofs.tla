----------------------------- MODULE HubProofs -----------------------------
(***************************************************************************)
(* Theorems about Hub for every number of users, clients and parties and   *)
(* every channel capacity.  Types and the single login hold in general; no *)
(* goroutine panics, no room keeps a connection that has gone and the      *)
(* online key is accurate when the connections of a user do not overlap.   *)
(***************************************************************************)
EXTENDS Hub, TLAPS

\* The parts of an action that have a name of their own are always expanded.
USE DEF chans, Kick, NewTtl, Note, Offer, Offered, OfferTo, Audience, EmptyRooms,
        Renews

\* Run is past the rendezvous on Register with c.
Served(c) == reader[c] \notin {"off", "registering"}

\* The table holds clients under their own user.
OwnEntry == \A u \in Users : clients[u] # None => UserOf[clients[u]] = u

\* A user has one connection.
Alone ==
  \A c, d \in Clients :
    UserOf[c] = UserOf[d] /\ Connected(c) /\ Connected(d) => c = d

\* Who is served is in the table, or about to be put there, and who is in
\* the table is served, or about to be taken out.
TableServed ==
  \A c \in Clients :
    /\ Served(c) => clients[UserOf[c]] = c \/ hub = <<"register", c>>
    /\ clients[UserOf[c]] = c => Served(c) \/ hub = <<"unregister", c>>

\* Run registers into an empty slot and unregisters whom it holds.
HubExpects ==
  \A c \in Clients :
    /\ hub = <<"register", c>> => Served(c) /\ clients[UserOf[c]] = None
    /\ hub = <<"unregister", c>> => reader[c] = "off" /\ clients[UserOf[c]] = c

\* Rooms hold connected clients, which know that they are there.
RoomsKnown ==
  \A p \in Parties, c \in Clients :
    rooms[p][UserOf[c]] = c => p \in clientRooms[c] /\ Connected(c)

ClosedGone == \A c \in Clients : closed[c] => ~Connected(c)

HubInv ==
  /\ HubTypeOK
  /\ OwnEntry
  /\ Alone
  /\ TableServed
  /\ HubExpects
  /\ RoomsKnown
  /\ ClosedGone
  /\ ~panicked

LEMMA InitHubInv == Init => HubInv
<1> SUFFICES ASSUME Init PROVE HubInv
  OBVIOUS
<1>1. HubTypeOK
  <2>1. 0 \in 0..SendCap
    BY HubAssumption
  <2> QED
    BY <2>1 DEF Init, HubTypeOK, Readers, Frames, Select
<1>2. \A c \in Clients :
        /\ ~Connected(c) /\ ~Served(c) /\ ~closed[c]
        /\ clients[UserOf[c]] # c
        /\ hub # <<"register", c>> /\ hub # <<"unregister", c>>
        /\ \A p \in Parties : rooms[p][UserOf[c]] # c
  BY HubAssumption DEF Init, Connected, Served, Select
<1>3. OwnEntry /\ ~panicked
  BY DEF Init, OwnEntry
<1> QED
  BY <1>1, <1>2, <1>3
  DEF HubInv, Alone, TableServed, HubExpects, RoomsKnown, ClosedGone

LEMMA NextHubTypeOK ==
  ASSUME HubTypeOK, [Next]_vars
  PROVE  HubTypeOK'
<1> USE HubAssumption
    DEF HubTypeOK, Readers, Frames, HubOps, Select, conns, tables, CloseSend
<1>0. \A c \in Clients : UserOf[c] \in Users
  OBVIOUS
<1>h. hub # Select => hub[2] \in Clients /\ hub = <<hub[1], hub[2]>>
  OBVIOUS
<1>1. ASSUME NEW c \in Clients, Connect(c) PROVE HubTypeOK'
  BY <1>1 DEF Connect
<1>2. ASSUME NEW c \in Clients, TakeRegister(c) PROVE HubTypeOK'
  BY <1>2 DEF TakeRegister
<1>3. ASSUME NEW c \in Clients, NEW kind \in Frames, NEW p \in Parties,
             ReadFrame(c, kind, p)
      PROVE  HubTypeOK'
  BY <1>3 DEF ReadFrame
<1>4. ASSUME NEW c \in Clients, JoinRoom(c) PROVE HubTypeOK'
  <2> PICK p \in Parties : p = frame[c]
    BY <1>4 DEF JoinRoom
  <2>1. rooms' \in [Parties -> [Users -> Clients \cup {None}]]
    BY <1>4, <1>0 DEF JoinRoom
  <2>2. clientRooms' \in [Clients -> SUBSET Parties]
    BY <1>4 DEF JoinRoom
  <2>3. /\ UNCHANGED <<clients, queued, closed, open, frame, writing, hub,
                       online, panicked>>
        /\ reader' \in [Clients -> Readers]
        /\ \A d \in Clients : reader'[d] \in Frames => reader[d] \in Frames
    BY <1>4 DEF JoinRoom
  <2> QED
    BY <2>1, <2>2, <2>3
<1>5. ASSUME NEW c \in Clients, SendHistory(c) PROVE HubTypeOK'
  <2>1. CASE closed[c]
    BY <1>5, <2>1 DEF SendHistory
  <2>2. CASE ~closed[c]
    <3>1. queued[c] + 1 \in 0..SendCap
      BY <1>5, <2>2 DEF SendHistory
    <3>2. queued' \in [Clients -> 0..SendCap]
      BY <1>5, <2>2, <3>1 DEF SendHistory
    <3>3. /\ reader' = [reader EXCEPT ![c] = "reading"]
          /\ UNCHANGED <<clients, rooms, clientRooms, closed, open, frame,
                         writing, hub, online, panicked>>
      BY <1>5, <2>2 DEF SendHistory
    <3> QED
      BY <3>2, <3>3
  <2> QED
    BY <2>1, <2>2
<1>6. ASSUME NEW c \in Clients, LeaveRoom(c) PROVE HubTypeOK'
  BY <1>6, <1>0 DEF LeaveRoom
<1>7. ASSUME NEW c \in Clients, BroadcastToRoom(c) PROVE HubTypeOK'
  BY <1>7 DEF BroadcastToRoom
<1>8. ASSUME NEW c \in Clients, ReadFails(c) PROVE HubTypeOK'
  BY <1>8 DEF ReadFails
<1>9. ASSUME NEW c \in Clients, TakeUnregister(c) PROVE HubTypeOK'
  BY <1>9 DEF TakeUnregister
<1>10. ASSUME NEW c \in Clients,
              Write(c) \/ WriterStops(c) \/ Heartbeat(c) \/ PeerGone(c)
       PROVE  HubTypeOK'
  <2>1. CASE Write(c)
    BY <2>1 DEF Write
  <2>2. CASE WriterStops(c)
    BY <2>2 DEF WriterStops
  <2>3. CASE Heartbeat(c)
    BY <2>3, <1>0 DEF Heartbeat
  <2>4. CASE PeerGone(c)
    BY <2>4 DEF PeerGone
  <2> QED
    BY <1>10, <2>1, <2>2, <2>3, <2>4
<1>11. CASE HubRegister
  <2> PICK c \in Clients : hub = <<"register", c>>
    BY <1>11, <1>h DEF HubRegister
  <2> QED
    <3>1. clients' = [clients EXCEPT ![UserOf[c]] = c] /\ c \in Clients
      BY <1>11 DEF HubRegister
    <3>2. clients' \in [Users -> Clients \cup {None}]
      BY <3>1, <1>0
    <3>3. hub' \in {Select} \cup (HubOps \X Clients)
      BY <1>11 DEF HubRegister
    <3>4. closed' \in [Clients -> BOOLEAN] /\ open' \in [Clients -> BOOLEAN]
          /\ panicked' \in BOOLEAN
      <4> DEFINE old == clients[UserOf[c]]
      <4>1. old \in Clients \cup {None}
        BY <1>0
      <4>2. CASE old # None /\ Kick(old)
        <5>1. old \in Clients
          BY <4>1, <4>2
        <5>2. /\ closed' = [closed EXCEPT ![old] = TRUE]
              /\ open' = [open EXCEPT ![old] = FALSE]
              /\ panicked' = closed[old]
          BY <4>2
        <5> HIDE DEF old
        <5> QED
          BY <5>1, <5>2
      <4>3. CASE old = None /\ UNCHANGED <<closed, panicked, open>>
        BY <4>3
      <4>4. \/ old # None /\ Kick(old)
            \/ old = None /\ UNCHANGED <<closed, panicked, open>>
        BY <1>11 DEF HubRegister
      <4> QED
        BY <4>2, <4>3, <4>4
    <3>5. UNCHANGED <<rooms, clientRooms, queued, reader, frame, writing, online>>
      BY <1>11 DEF HubRegister
    <3> QED
      BY <3>2, <3>3, <3>4, <3>5
<1>12. CASE HubUnregister
  <2> PICK c \in Clients : hub = <<"unregister", c>>
    BY <1>12, <1>h DEF HubUnregister
  <2> QED
    BY <1>12, <1>0 DEF HubUnregister
<1>13. CASE MarkOnline \/ MarkOffline
  <2> PICK c \in Clients : hub[2] = c
    BY <1>13, <1>h DEF MarkOnline, MarkOffline
  <2> QED
    BY <1>13, <1>0 DEF MarkOnline, MarkOffline
<1>14. ASSUME NEW u \in Users, TtlRuns(u) PROVE HubTypeOK'
  BY <1>14 DEF TtlRuns
<1>15. CASE UNCHANGED vars
  BY <1>15 DEF vars
<1> HIDE DEF HubTypeOK
<1> QED
  BY <1>1, <1>2, <1>3, <1>4, <1>5, <1>6, <1>7, <1>8, <1>9, <1>10, <1>11,
     <1>12, <1>13, <1>14, <1>15 DEF Next, ClientStep, ReaderGoesOn, HubStep

LEMMA NextHubInv ==
  ASSUME ~Overlapping, HubInv, [Next]_vars
  PROVE  HubInv'
<1> USE HubAssumption
    DEF HubInv, HubTypeOK, OwnEntry, Alone, TableServed, HubExpects, RoomsKnown,
        ClosedGone, Connected, Served, Frames, HubOps, Select, conns, tables
<1>0. HubTypeOK' /\ \A c \in Clients : UserOf[c] \in Users
  BY NextHubTypeOK
<1>h. hub # Select => hub[2] \in Clients /\ hub = <<hub[1], hub[2]>>
  OBVIOUS
<1>1. ASSUME NEW c \in Clients, Connect(c) PROVE HubInv'
  <2>1. /\ ~Connected(c) /\ hub[2] # c
        /\ \A p \in Parties : rooms[p][UserOf[c]] # c
        /\ \A d \in Clients : UserOf[d] = UserOf[c] => ~Connected(d)
    BY <1>1 DEF Connect, InUse
  <2>2. UNCHANGED <<clients, rooms, hub, panicked>>
    BY <1>1 DEF Connect
  <2>3. /\ \A d \in Clients \ {c} : /\ reader'[d] = reader[d]
                                    /\ closed'[d] = closed[d]
                                    /\ clientRooms'[d] = clientRooms[d]
        /\ reader'[c] = "registering" /\ closed'[c] = FALSE
    BY <1>1 DEF Connect
  <2>4. OwnEntry' /\ Alone' /\ TableServed'
    BY <2>1, <2>2, <2>3
  <2>5. HubExpects' /\ RoomsKnown' /\ ClosedGone' /\ ~panicked'
    BY <2>1, <2>2, <2>3
  <2> QED
    BY <1>0, <2>4, <2>5
<1>2. ASSUME NEW c \in Clients, TakeRegister(c) PROVE HubInv'
  <2>1. /\ hub = Select /\ reader[c] = "registering" /\ hub' = <<"register", c>>
        /\ reader' = [reader EXCEPT ![c] = "reading"]
        /\ UNCHANGED <<clients, rooms, clientRooms, closed, panicked>>
    BY <1>2 DEF TakeRegister
  <2>2. clients[UserOf[c]] = None
    <3> SUFFICES ASSUME NEW d \in Clients, clients[UserOf[c]] = d PROVE FALSE
      BY <1>0
    <3>1. UserOf[d] = UserOf[c]
      BY <1>0
    <3>2. d = c
      BY <2>1, <3>1
    <3> QED
      BY <2>1, <3>2
  <2>3. \A d \in Clients : Connected(d)' <=> Connected(d)
    BY <2>1
  <2>4. OwnEntry' /\ Alone' /\ RoomsKnown' /\ ClosedGone' /\ ~panicked'
    BY <2>1, <2>3
  <2>5. TableServed' /\ HubExpects'
    BY <2>1, <2>2
  <2> QED
    BY <1>0, <2>4, <2>5
\* A step that leaves readers served, tables, channels and Run as they are.
<1>3. ASSUME UNCHANGED <<clients, rooms, clientRooms, closed, hub, panicked>>,
             \A c \in Clients : \/ reader'[c] = reader[c]
                                \/ Served(c) /\ Served(c)'
      PROVE  HubInv'
  <2>1. \A c \in Clients : /\ Connected(c)' <=> Connected(c)
                           /\ Served(c)' <=> Served(c)
                           /\ reader[c] = "off" <=> reader'[c] = "off"
    BY <1>3
  <2>2. OwnEntry' /\ Alone' /\ RoomsKnown' /\ ClosedGone' /\ ~panicked'
    BY <1>3, <2>1
  <2>3. TableServed' /\ HubExpects'
    BY <1>3, <2>1
  <2> QED
    BY <1>0, <2>2, <2>3
<1>4. ASSUME NEW c \in Clients, JoinRoom(c) \/ LeaveRoom(c) PROVE HubInv'
  <2> PICK p \in Parties : p = frame[c]
    BY <1>4 DEF JoinRoom, LeaveRoom
  <2>1. /\ Served(c) /\ Served(c)'
        /\ \A d \in Clients \ {c} : reader'[d] = reader[d]
        /\ UNCHANGED <<clients, closed, hub, panicked>>
    BY <1>4 DEF JoinRoom, LeaveRoom
  <2>2. \A d \in Clients : /\ Connected(d)' <=> Connected(d)
                           /\ Served(d)' <=> Served(d)
                           /\ reader[d] = "off" <=> reader'[d] = "off"
    BY <2>1
  <2>3. OwnEntry' /\ Alone' /\ ClosedGone' /\ ~panicked'
    BY <2>1, <2>2
  <2>4. TableServed' /\ HubExpects'
    BY <2>1, <2>2
  <2>5. CASE JoinRoom(c)
    <3>1. /\ rooms' = [rooms EXCEPT ![p][UserOf[c]] = c]
          /\ clientRooms' = [clientRooms EXCEPT ![c] = @ \cup {p}]
      BY <2>5 DEF JoinRoom
    <3>2. RoomsKnown'
      BY <1>0, <2>1, <2>2, <3>1
    <3> QED
      BY <1>0, <2>3, <2>4, <3>2
  <2>6. CASE LeaveRoom(c)
    <3>1. /\ rooms' = [rooms EXCEPT ![p][UserOf[c]] = None]
          /\ clientRooms' = [clientRooms EXCEPT ![c] = @ \ {p}]
      BY <2>6 DEF LeaveRoom
    <3>2. RoomsKnown'
      BY <1>0, <2>2, <3>1
    <3> QED
      BY <1>0, <2>3, <2>4, <3>2
  <2> QED
    BY <1>4, <2>5, <2>6
<1>5. ASSUME NEW c \in Clients, SendHistory(c) PROVE HubInv'
  <2>1. ~closed[c]
    BY <1>5 DEF SendHistory
  <2> QED
    BY <1>5, <2>1, <1>3 DEF SendHistory
<1>6. ASSUME NEW c \in Clients, BroadcastToRoom(c) PROVE HubInv'
  <2>1. frame[c] \in Parties
    BY <1>6 DEF BroadcastToRoom
  <2>2. \A d \in InRoom(frame[c]) : ~closed[d]
    BY <2>1 DEF InRoom
  <2>3. panicked' = panicked
    BY <1>6, <2>2 DEF BroadcastToRoom
  <2>4. /\ UNCHANGED <<clients, rooms, clientRooms, closed, hub>>
        /\ Served(c) /\ Served(c)'
        /\ \A d \in Clients \ {c} : reader'[d] = reader[d]
    BY <1>6 DEF BroadcastToRoom
  <2> QED
    BY <2>3, <2>4, <1>3
<1>7. ASSUME NEW c \in Clients, NEW kind \in Frames, NEW p \in Parties,
             ReadFrame(c, kind, p)
      PROVE  HubInv'
  BY <1>7, <1>3 DEF ReadFrame
<1>8. ASSUME NEW c \in Clients, ReadFails(c) PROVE HubInv'
  BY <1>8, <1>3 DEF ReadFails
<1>9. ASSUME NEW c \in Clients, TakeUnregister(c) PROVE HubInv'
  <2>1. /\ hub = Select /\ reader[c] = "unregistering"
        /\ hub' = <<"unregister", c>>
        /\ reader' = [reader EXCEPT ![c] = "off"]
        /\ UNCHANGED <<clients, rooms, clientRooms, closed, panicked>>
    BY <1>9 DEF TakeUnregister
  <2>2. clients[UserOf[c]] = c
    BY <2>1
  <2>3. \A d \in Clients : Connected(d)' <=> Connected(d)
    BY <2>1, <2>2
  <2>4. OwnEntry' /\ Alone' /\ RoomsKnown' /\ ClosedGone' /\ ~panicked'
    BY <2>1, <2>3
  <2>5. TableServed' /\ HubExpects'
    BY <2>1, <2>2
  <2> QED
    BY <1>0, <2>4, <2>5
<1>10. ASSUME NEW c \in Clients,
              Write(c) \/ WriterStops(c) \/ Heartbeat(c) \/ PeerGone(c)
       PROVE  HubInv'
  BY <1>10, <1>3 DEF Write, WriterStops, Heartbeat, PeerGone
<1>11. CASE HubRegister
  <2> PICK c \in Clients : hub = <<"register", c>>
    BY <1>11, <1>h DEF HubRegister
  <2>1. Served(c) /\ clients[UserOf[c]] = None
    OBVIOUS
  <2>2. /\ clients' = [clients EXCEPT ![UserOf[c]] = c]
        /\ hub' \in {Select, <<"set", c>>}
        /\ UNCHANGED <<rooms, clientRooms, closed, reader, panicked>>
    BY <1>11, <2>1 DEF HubRegister
  <2>3. \A d \in Clients : Connected(d)' <=> Connected(d)
    BY <1>0, <2>1, <2>2
  <2>4. OwnEntry' /\ Alone' /\ RoomsKnown' /\ ClosedGone' /\ ~panicked'
    BY <1>0, <2>2, <2>3
  <2>5. TableServed' /\ HubExpects'
    BY <1>0, <2>1, <2>2
  <2> QED
    BY <1>0, <2>4, <2>5
<1>12. CASE HubUnregister
  <2> PICK c \in Clients : hub = <<"unregister", c>>
    BY <1>12, <1>h DEF HubUnregister
  <2>1. reader[c] = "off" /\ clients[UserOf[c]] = c /\ ~closed[c]
    OBVIOUS
  <2>2. /\ clients' = [clients EXCEPT ![UserOf[c]] = None]
        /\ closed' = [closed EXCEPT ![c] = TRUE]
        /\ panicked' = panicked
        /\ hub' \in {Select, <<"del", c>>}
        /\ UNCHANGED <<clientRooms, reader>>
    BY <1>12, <2>1 DEF HubUnregister, CloseSend
  <2>3. /\ ~Connected(c)'
        /\ \A d \in Clients \ {c} : Connected(d)' <=> Connected(d)
    BY <1>0, <2>1, <2>2
  <2>4. \A p \in Parties, d \in Clients :
          rooms'[p][UserOf[d]] = d => rooms[p][UserOf[d]] = d /\ d # c
    BY <1>12, <1>0, <2>1 DEF HubUnregister
  <2>5. OwnEntry' /\ Alone' /\ ClosedGone' /\ ~panicked'
    BY <1>0, <2>2, <2>3
  <2>6. RoomsKnown'
    BY <2>2, <2>3, <2>4
  <2>7. TableServed' /\ HubExpects'
    BY <1>0, <2>1, <2>2
  <2> QED
    BY <1>0, <2>5, <2>6, <2>7
<1>13. CASE MarkOnline \/ MarkOffline
  <2>1. /\ hub' = Select /\ hub[1] \in {"set", "del"}
        /\ UNCHANGED <<clients, rooms, clientRooms, closed, reader, panicked>>
    BY <1>13 DEF MarkOnline, MarkOffline
  <2> QED
    BY <1>0, <2>1
<1>14. ASSUME NEW u \in Users, TtlRuns(u) PROVE HubInv'
  BY <1>14, <1>3 DEF TtlRuns
<1>15. CASE UNCHANGED vars
  BY <1>15, <1>3 DEF vars
<1>16. ASSUME NEW c \in Clients, ClientStep(c) PROVE HubInv'
  <2> HIDE DEF HubInv
  <2> QED
    BY <1>16, <1>1, <1>2, <1>4, <1>5, <1>6, <1>7, <1>8, <1>9, <1>10
       DEF ClientStep, ReaderGoesOn
<1>17. CASE HubStep
  <2> HIDE DEF HubInv
  <2> QED
    BY <1>17, <1>11, <1>12, <1>13 DEF HubStep
<1> HIDE DEF HubInv
<1> QED
  BY <1>14, <1>15, <1>16, <1>17 DEF Next

LEMMA HubInductive ==
  ASSUME ~Overlapping
  PROVE  Spec => []HubInv
<1>1. HubInv /\ [Next]_vars => HubInv'
  BY NextHubInv
<1> QED
  BY <1>1, InitHubInv, PTL DEF Spec

\* The variables have their types, with overlapping connections too.
THEOREM HubTypeCorrect == Spec => []HubTypeOK
<1>1. Init => HubTypeOK
  BY InitHubInv DEF HubInv
<1>2. HubTypeOK /\ [Next]_vars => HubTypeOK'
  BY NextHubTypeOK
<1> QED
  BY <1>1, <1>2, PTL DEF Spec

\* No goroutine panics: every send and every close finds an open channel.
THEOREM HubSafe ==
  ASSUME ~Overlapping
  PROVE  Spec => []NoPanic
<1>1. HubInv => NoPanic
  BY DEF HubInv, NoPanic
<1> QED
  BY <1>1, HubInductive, PTL

\* Whoever is in a room is connected, or is being taken out right now.
THEOREM RoomsClean ==
  ASSUME ~Overlapping
  PROVE  Spec => []NoGhostMembers
<1>1. ASSUME HubInv, NEW p \in Parties, NEW c \in Clients,
             rooms[p][UserOf[c]] = c
      PROVE  /\ p \in clientRooms[c]
             /\ ~closed[c]
             /\ reader[c] # "off" \/ hub = <<"unregister", c>>
  BY <1>1 DEF HubInv, RoomsKnown, ClosedGone, TableServed, Connected, Served
<1>2. HubInv => NoGhostMembers
  BY <1>1 DEF NoGhostMembers
<1> QED
  BY <1>2, HubInductive, PTL

\* Whoever is in the table has a reader, whose end takes it out, or is being
\* taken out, and whoever has a reader is in the table or about to be.
THEOREM EntriesServed ==
  ASSUME ~Overlapping
  PROVE  Spec => []TableServed
<1>1. HubInv => TableServed
  BY DEF HubInv
<1> QED
  BY <1>1, HubInductive, PTL

-----------------------------------------------------------------------------
(* One login per user, with overlapping connections too. *)

\* Run has carried out the Register of c, and not yet its Unregister.
Working(c) == Registered(c) \/ hub = <<"unregister", c>>

\* Until a panic the table holds every client whose channel still works.
OpenInTable ==
  ~panicked => \A c \in Clients :
                 Working(c) /\ ~closed[c] => clients[UserOf[c]] = c

LoginInv == HubTypeOK /\ OpenInTable /\ SingleLogin

\* A step that registers nobody and reopens no channel keeps SingleLogin, and
\* OpenInTable when it leaves the table alone.
LEMMA NobodyNew ==
  ASSUME LoginInv,
         \A c \in Clients : ~closed'[c] /\ Working(c)' => ~closed[c] /\ Working(c),
         \A c \in Clients :
           ~closed'[c] /\ Registered(c)' => ~closed[c] /\ Registered(c),
         ~panicked, UNCHANGED clients
  PROVE  OpenInTable' /\ SingleLogin'
<1>1. OpenInTable'
  BY DEF LoginInv, OpenInTable
<1>2. SingleLogin'
  BY DEF LoginInv, SingleLogin
<1> QED
  BY <1>1, <1>2

LEMMA NextLoginInv ==
  ASSUME LoginInv, Next
  PROVE  OpenInTable' /\ SingleLogin'
<1> USE HubAssumption DEF Working, Registered, conns, tables, Select
<1>t. HubTypeOK /\ ~panicked
  BY DEF LoginInv, Next
<1>h. hub # Select => hub[2] \in Clients /\ hub = <<hub[1], hub[2]>>
  BY <1>t DEF HubTypeOK
<1>1. ASSUME NEW c \in Clients, Connect(c)
      PROVE  OpenInTable' /\ SingleLogin'
  <2>1. /\ ~writing[c] /\ reader'[c] = "registering" /\ hub[2] # c
        /\ UNCHANGED <<clients, writing, hub>>
        /\ \A d \in Clients \ {c} : reader'[d] = reader[d] /\ closed'[d] = closed[d]
    BY <1>1, <1>t DEF Connect, InUse, HubTypeOK
  <2> QED
    BY <2>1, <1>t, NobodyNew
<1>2. ASSUME NEW c \in Clients, TakeRegister(c) \/ TakeUnregister(c)
      PROVE  OpenInTable' /\ SingleLogin'
  <2>1. /\ hub = Select /\ UNCHANGED <<clients, closed>>
        /\ \/ hub' = <<"register", c>>
           \/ hub' = <<"unregister", c>> /\ reader[c] = "unregistering"
              /\ UNCHANGED writing /\ reader'[c] = "off"
        /\ \A d \in Clients \ {c} :
             reader'[d] = reader[d] /\ writing'[d] = writing[d]
    BY <1>2, <1>t DEF TakeRegister, TakeUnregister, HubTypeOK
  <2> QED
    BY <2>1, <1>t, NobodyNew
<1>3. ASSUME NEW c \in Clients,
             \/ \E kind \in Frames, p \in Parties : ReadFrame(c, kind, p)
             \/ JoinRoom(c) \/ SendHistory(c) \/ LeaveRoom(c)
             \/ BroadcastToRoom(c) \/ ReadFails(c)
      PROVE  OpenInTable' /\ SingleLogin'
  <2>1. /\ UNCHANGED <<clients, closed, writing, hub>>
        /\ reader[c] \notin {"off", "registering"}
        /\ \A d \in Clients \ {c} : reader'[d] = reader[d]
    BY <1>3, <1>t
    DEF ReadFrame, JoinRoom, SendHistory, LeaveRoom, BroadcastToRoom, ReadFails,
        Frames, HubTypeOK
  <2> QED
    BY <2>1, <1>t, NobodyNew
<1>4. ASSUME NEW c \in Clients,
             Write(c) \/ WriterStops(c) \/ Heartbeat(c) \/ PeerGone(c)
      PROVE  OpenInTable' /\ SingleLogin'
  <2>1. /\ UNCHANGED <<clients, closed, reader, hub>>
        /\ \A d \in Clients : writing'[d] => writing[d]
    BY <1>4, <1>t DEF Write, WriterStops, Heartbeat, PeerGone, HubTypeOK
  <2> QED
    BY <2>1, <1>t, NobodyNew
<1>5. ASSUME NEW u \in Users, TtlRuns(u)
      PROVE  OpenInTable' /\ SingleLogin'
  BY <1>5, <1>t, NobodyNew DEF TtlRuns
<1>6. CASE MarkOnline \/ MarkOffline
  <2>1. /\ UNCHANGED <<clients, closed, reader, writing>> /\ hub' = Select
        /\ hub[1] \in {"set", "del"}
    BY <1>6 DEF MarkOnline, MarkOffline
  <2> QED
    BY <2>1, <1>t, NobodyNew
<1>7. CASE HubRegister
  <2> PICK c \in Clients : hub = <<"register", c>>
    BY <1>7, <1>h DEF HubRegister
  <2>1. /\ clients' = [clients EXCEPT ![UserOf[c]] = c]
        /\ \/ clients[UserOf[c]] # None
              /\ closed' = [closed EXCEPT ![clients[UserOf[c]]] = TRUE]
           \/ clients[UserOf[c]] = None /\ UNCHANGED closed
        /\ hub' \in {Select, <<"set", c>>} /\ UNCHANGED <<reader, writing>>
    BY <1>7 DEF HubRegister, CloseSend
  <2>2. \A d \in Clients : d # c /\ ~closed'[d] /\ (Working(d) \/ Registered(d))'
          => UserOf[d] # UserOf[c] /\ ~closed[d] /\ Registered(d)
    BY <2>1, <1>t DEF LoginInv, OpenInTable, HubTypeOK
  <2>3. OpenInTable'
    BY <2>1, <2>2, <1>t DEF LoginInv, OpenInTable, HubTypeOK
  <2>4. SingleLogin'
    BY <2>1, <2>2, <1>t DEF LoginInv, SingleLogin
  <2> QED
    BY <2>3, <2>4
<1>8. CASE HubUnregister
  <2> PICK c \in Clients : hub = <<"unregister", c>>
    BY <1>8, <1>h DEF HubUnregister
  <2>1. /\ \/ /\ clients[UserOf[c]] # None
              /\ clients' = [clients EXCEPT ![UserOf[c]] = None]
              /\ closed' = [closed EXCEPT ![c] = TRUE]
              /\ panicked' = closed[c]
           \/ clients[UserOf[c]] = None /\ UNCHANGED <<clients, closed, panicked>>
        /\ hub' \in {Select, <<"del", c>>} /\ UNCHANGED <<reader, writing>>
    BY <1>8 DEF HubUnregister, CloseSend
  <2>2. \A d \in Clients : ~closed'[d] /\ (Working(d) \/ Registered(d))'
          => ~closed[d] /\ Registered(d)
    BY <2>1, <1>t DEF HubTypeOK
  <2>3. OpenInTable'
    <3> SUFFICES ASSUME ~panicked', NEW d \in Clients, Working(d)', ~closed'[d]
                 PROVE  clients'[UserOf[d]] = d
      BY DEF OpenInTable
    <3>1. clients[UserOf[d]] = d
      BY <2>2, <1>t DEF LoginInv, OpenInTable
    <3>2. CASE clients[UserOf[c]] # None
      <4>1. ~closed[c] /\ clients[UserOf[c]] = c /\ closed'[c]
        BY <2>1, <3>2, <1>t DEF LoginInv, OpenInTable, HubTypeOK
      <4>2. UserOf[d] # UserOf[c]
        BY <4>1, <3>1
      <4> QED
        BY <2>1, <3>1, <3>2, <4>2, <1>t DEF HubTypeOK
    <3>3. CASE clients[UserOf[c]] = None
      BY <2>1, <3>1, <3>3
    <3> QED
      BY <3>2, <3>3
  <2>4. SingleLogin'
    BY <2>2, <1>t DEF LoginInv, SingleLogin
  <2> QED
    BY <2>3, <2>4
<1> QED
  BY <1>1, <1>2, <1>3, <1>4, <1>5, <1>6, <1>7, <1>8
  DEF Next, ClientStep, ReaderGoesOn, HubStep

LEMMA LoginInductive == Spec => []LoginInv
<1>1. Init => LoginInv
  <2> SUFFICES ASSUME Init PROVE LoginInv
    OBVIOUS
  <2>1. HubTypeOK
    BY InitHubInv DEF HubInv
  <2>2. \A c \in Clients : ~Working(c)
    BY DEF Init, Working, Registered, Select
  <2> QED
    BY <2>1, <2>2 DEF LoginInv, OpenInTable, SingleLogin, Working
<1>2. LoginInv /\ [Next]_vars => LoginInv'
  <2> SUFFICES ASSUME LoginInv, [Next]_vars PROVE LoginInv'
    OBVIOUS
  <2>1. HubTypeOK'
    BY NextHubTypeOK DEF LoginInv
  <2>2. CASE UNCHANGED vars
    BY <2>1, <2>2
    DEF vars, LoginInv, OpenInTable, SingleLogin, Working, Registered
  <2> QED
    BY <2>1, <2>2, NextLoginInv DEF LoginInv
<1> QED
  BY <1>1, <1>2, PTL DEF Spec

\* Of two registered connections of a user one has lost its channel, also when
\* the second one comes while the first is still connected.
THEOREM OneLogin == Spec => []SingleLogin
<1>1. LoginInv => SingleLogin
  BY DEF LoginInv
<1> QED
  BY <1>1, LoginInductive, PTL

\* Run deletes whatever the table holds for the user of the connection that
\* ends.  Also when connections overlap, it takes a newer one out only in a
\* step that panics: an open channel means that the table still holds the old
\* one, and a closed one is closed again.
THEOREM NewestNotEvicted == Spec => NoSilentEviction
<1> DEFINE Kept == (\A c \in Clients : LeavesDuly(c)) \/ panicked'
<1>1. ASSUME LoginInv, [Next]_vars PROVE Kept
  <2>1. CASE UNCHANGED clients
    BY <2>1 DEF LeavesDuly
  <2>2. CASE HubRegister
    BY <2>2 DEF HubRegister, LeavesDuly
  <2>3. CASE HubUnregister
    <3>1. PICK d \in Clients : hub = <<"unregister", d>>
      BY <1>1, <2>3 DEF HubUnregister, LoginInv, HubTypeOK, HubOps, Select
    <3>2. CASE UNCHANGED clients
      BY <3>2 DEF LeavesDuly
    <3>3. CASE /\ clients' = [clients EXCEPT ![UserOf[d]] = None]
               /\ panicked' = closed[d]
      <4>1. CASE closed[d]
        BY <3>3, <4>1
      <4>2. CASE ~closed[d]
        <5>1. ~panicked
          BY <1>1, <2>3, <3>1, <3>3, <4>2 DEF Next, vars, HubUnregister
        <5>2. clients[UserOf[d]] = d
          BY <1>1, <3>1, <4>2, <5>1 DEF LoginInv, OpenInTable, Working
        <5>3. \A c \in Clients : UserOf[c] # UserOf[d]
                => clients'[UserOf[c]] = clients[UserOf[c]]
          BY <1>1, <3>3, HubAssumption DEF LoginInv, HubTypeOK
        <5> QED
          BY <3>1, <5>2, <5>3 DEF LeavesDuly
      <4> QED
        BY <4>1, <4>2
    <3> QED
      BY <2>3, <3>1, <3>2, <3>3 DEF HubUnregister, CloseSend
  <2> QED
    BY <1>1, <2>1, <2>2, <2>3
    DEF Next, HubStep, ClientStep, ReaderGoesOn, Connect, TakeRegister,
        MarkOnline, TakeUnregister, MarkOffline, ReadFrame, JoinRoom,
        SendHistory, LeaveRoom, BroadcastToRoom, ReadFails, Write, WriterStops,
        Heartbeat, PeerGone, TtlRuns, tables, conns, vars
<1>2. LoginInv /\ [Next]_vars => [Kept]_vars
  BY <1>1
<1> QED
  BY <1>2, LoginInductive, PTL DEF Spec, NoSilentEviction

-----------------------------------------------------------------------------
(* The online key, when its SET and DEL do not fail. *)

\* Between two selects the key may lag behind the table, but only for the
\* user whose SET or DEL is next.
KeyLags ==
  Redis => \A u \in Users :
    /\ online[u] # "absent"
         => clients[u] # None \/ \E c \in Clients : hub = <<"del", c>> /\ UserOf[c] = u
    /\ clients[u] # None /\ online[u] = "absent"
         => ~writing[clients[u]] \/ hub = <<"set", clients[u]>>

\* Run is about to set or delete the key of the client it has just served.
JustServed ==
  \A c \in Clients :
    /\ hub = <<"set", c>> => clients[UserOf[c]] = c
    /\ hub = <<"del", c>> => clients[UserOf[c]] = None

LEMMA NextPresence ==
  ASSUME ~RedisFaults, HubInv, KeyLags, JustServed, Next
  PROVE  KeyLags' /\ JustServed'
<1> USE HubAssumption DEF KeyLags, JustServed, conns, tables, Select
<1>t. HubTypeOK /\ OwnEntry /\ TableServed /\ HubExpects
  BY DEF HubInv
<1>h. hub # Select => hub[2] \in Clients /\ hub = <<hub[1], hub[2]>>
  BY <1>t DEF HubTypeOK
<1>u. \A c \in Clients : UserOf[c] \in Users
  OBVIOUS
<1>1. ASSUME NEW c \in Clients, TakeRegister(c)
      PROVE  KeyLags' /\ JustServed'
  <2>1. /\ hub = Select /\ hub' = <<"register", c>>
        /\ UNCHANGED <<clients, online>>
        /\ \A d \in Clients \ {c} : writing'[d] = writing[d]
        /\ clients[UserOf[c]] # c
    BY <1>1, <1>t DEF TakeRegister, TableServed, Served, HubTypeOK
  <2>2. \A u \in Users : clients[u] # c
    BY <2>1, <1>t DEF OwnEntry
  <2>3. \A u \in Users : clients[u] \in Clients \cup {None}
    BY <1>t DEF HubTypeOK
  <2> QED
    BY <2>1, <2>2, <2>3
<1>2. ASSUME NEW c \in Clients, TakeUnregister(c)
      PROVE  KeyLags' /\ JustServed'
  BY <1>2 DEF TakeUnregister
<1>3. ASSUME NEW c \in Clients,
             \/ \E kind \in Frames, p \in Parties : ReadFrame(c, kind, p)
             \/ Connect(c) \/ JoinRoom(c) \/ SendHistory(c) \/ LeaveRoom(c)
             \/ BroadcastToRoom(c) \/ ReadFails(c) \/ Write(c) \/ PeerGone(c)
      PROVE  KeyLags' /\ JustServed'
  <2>1. UNCHANGED <<clients, writing, hub, online>>
    BY <1>3
    DEF ReadFrame, Connect, JoinRoom, SendHistory, LeaveRoom, BroadcastToRoom,
        ReadFails, Write, PeerGone
  <2> QED
    BY <2>1
<1>4. ASSUME NEW c \in Clients, WriterStops(c)
      PROVE  KeyLags' /\ JustServed'
  <2>1. /\ UNCHANGED <<clients, hub, online>>
        /\ \A d \in Clients : writing'[d] => writing[d]
    BY <1>4, <1>t DEF WriterStops, HubTypeOK
  <2>2. \A u \in Users : clients[u] \in Clients \cup {None}
    BY <1>t DEF HubTypeOK
  <2> QED
    BY <2>1, <2>2
<1>5. ASSUME NEW c \in Clients, Heartbeat(c)
      PROVE  KeyLags' /\ JustServed'
  <2>1. /\ UNCHANGED <<clients, writing, hub>>
        /\ \A u \in Users : online'[u] = "absent" <=> online[u] = "absent"
    BY <1>5, <1>t DEF Heartbeat, HubTypeOK
  <2> QED
    BY <2>1
<1>6. ASSUME NEW u \in Users, TtlRuns(u)
      PROVE  KeyLags' /\ JustServed'
  <2>1. /\ UNCHANGED <<clients, writing, hub>>
        /\ \A v \in Users : online[v] = "absent" => online'[v] = "absent"
        /\ \A v \in Users : online'[v] = "absent" /\ online[v] # "absent"
             => \A c \in Clients : UserOf[c] = v => ~writing[c]
    BY <1>6, <1>t DEF TtlRuns, HubTypeOK
  <2>2. \A v \in Users : clients[v] # None
          => clients[v] \in Clients /\ UserOf[clients[v]] = v
    BY <1>t DEF HubTypeOK, OwnEntry
  <2> QED
    BY <2>1, <2>2
<1>7. CASE MarkOnline
  <2> PICK c \in Clients : hub = <<"set", c>>
    BY <1>7, <1>h DEF MarkOnline
  <2>1. /\ UNCHANGED <<clients, writing>> /\ hub' = Select
        /\ online' = [online EXCEPT ![UserOf[c]] = "fresh"]
        /\ clients[UserOf[c]] = c
    BY <1>7 DEF MarkOnline
  <2>2. \A u \in Users : u # UserOf[c] => clients[u] # c /\ online'[u] = online[u]
    BY <2>1, <1>t DEF OwnEntry, HubTypeOK
  <2>3. online'[UserOf[c]] = "fresh"
    BY <2>1, <1>t, <1>u DEF HubTypeOK
  <2> QED
    BY <2>1, <2>2, <2>3
<1>8. CASE MarkOffline
  <2> PICK c \in Clients : hub = <<"del", c>>
    BY <1>8, <1>h DEF MarkOffline
  <2>1. /\ UNCHANGED <<clients, writing>> /\ hub' = Select
        /\ online' = [online EXCEPT ![UserOf[c]] = "absent"]
        /\ clients[UserOf[c]] = None
    BY <1>8 DEF MarkOffline
  <2>2. \A u \in Users : u # UserOf[c] => online'[u] = online[u]
    BY <2>1, <1>t DEF HubTypeOK
  <2>3. online'[UserOf[c]] = "absent"
    BY <2>1, <1>t, <1>u DEF HubTypeOK
  <2> QED
    BY <2>1, <2>2, <2>3
<1>9. CASE HubRegister
  <2> PICK c \in Clients : hub = <<"register", c>>
    BY <1>9, <1>h DEF HubRegister
  <2>1. /\ clients' = [clients EXCEPT ![UserOf[c]] = c]
        /\ hub' = IF Redis THEN <<"set", c>> ELSE Select
        /\ UNCHANGED <<writing, online>>
    BY <1>9 DEF HubRegister
  <2>2. /\ clients'[UserOf[c]] = c
        /\ \A u \in Users : u # UserOf[c] => clients'[u] = clients[u]
    BY <2>1, <1>t, <1>u DEF HubTypeOK
  <2>3. \A u \in Users : clients[u] # None
          => clients[u] \in Clients /\ UserOf[clients[u]] = u
    BY <1>t DEF HubTypeOK, OwnEntry
  <2> QED
    BY <2>1, <2>2, <2>3
<1>10. CASE HubUnregister
  <2> PICK c \in Clients : hub = <<"unregister", c>>
    BY <1>10, <1>h DEF HubUnregister
  <2>1. /\ clients' = [clients EXCEPT ![UserOf[c]] = None]
        /\ hub' = IF Redis THEN <<"del", c>> ELSE Select
        /\ UNCHANGED <<writing, online>>
    BY <1>10, <1>t DEF HubUnregister, HubExpects
  <2>2. /\ clients'[UserOf[c]] = None
        /\ \A u \in Users : u # UserOf[c] => clients'[u] = clients[u]
    BY <2>1, <1>t, <1>u DEF HubTypeOK
  <2> QED
    BY <2>1, <2>2
<1> QED
  BY <1>1, <1>2, <1>3, <1>4, <1>5, <1>6, <1>7, <1>8, <1>9, <1>10
  DEF Next, ClientStep, ReaderGoesOn, HubStep

\* At every select of Run the online key shows nobody who is not connected,
\* and misses nobody whose WritePump works.
THEOREM PresenceHolds ==
  ASSUME ~Overlapping, ~RedisFaults
  PROVE  Spec => []PresenceAccurate
<1> DEFINE Inv == HubInv /\ KeyLags /\ JustServed
<1>1. Init => Inv
  <2> SUFFICES ASSUME Init PROVE Inv
    OBVIOUS
  <2>1. KeyLags /\ JustServed
    BY DEF Init, KeyLags, JustServed, Select
  <2> QED
    BY <2>1, InitHubInv
<1>2. Inv /\ [Next]_vars => Inv'
  <2> SUFFICES ASSUME Inv, [Next]_vars PROVE Inv'
    OBVIOUS
  <2>1. HubInv'
    BY NextHubInv
  <2>2. CASE UNCHANGED vars
    BY <2>1, <2>2 DEF vars, KeyLags, JustServed
  <2> QED
    BY <2>1, <2>2, NextPresence
<1>3. Inv => PresenceAccurate
  BY DEF KeyLags, PresenceAccurate, Select
<1> QED
  BY <1>1, <1>2, <1>3, PTL DEF Spec

-----------------------------------------------------------------------------
(* Refinement of ChatRooms. *)

\* The mapping: who is there, and who is in which room.
Present == {c \in Clients : Connected(c)}
RoomOf  == [p \in Parties |-> InRoom(p)]

\* Whoever waits to send a history has entered that room and not left it.
HistoryOfMember ==
  \A c \in Clients :
    reader[c] = "send_history" => frame[c] \in Parties /\ c \in InRoom(frame[c])

LEMMA NextHistoryOfMember ==
  ASSUME ~Overlapping, HubInv, HistoryOfMember, Next
  PROVE  HistoryOfMember'
<1> USE HubAssumption DEF HistoryOfMember, InRoom, conns, tables, Select
<1>t. /\ HubTypeOK /\ Alone /\ RoomsKnown /\ HubExpects
      /\ \A c \in Clients : UserOf[c] \in Users
  BY DEF HubInv
<1>h. hub # Select => hub[2] \in Clients /\ hub = <<hub[1], hub[2]>>
  BY <1>t DEF HubTypeOK
<1>1. ASSUME NEW c \in Clients, JoinRoom(c) PROVE HistoryOfMember'
  <2> PICK p \in Parties : p = frame[c]
    BY <1>1, <1>t DEF JoinRoom, HubTypeOK, Frames
  <2>1. /\ rooms' = [rooms EXCEPT ![p][UserOf[c]] = c] /\ UNCHANGED frame
        /\ \A d \in Clients \ {c} : reader'[d] = reader[d]
        /\ Connected(c)
    BY <1>1, <1>t DEF JoinRoom, HubTypeOK, Connected
  <2>2. rooms'[p][UserOf[c]] = c
    BY <2>1, <1>t DEF HubTypeOK
  <2>3. \A d \in Clients \ {c} : reader[d] = "send_history" => UserOf[d] # UserOf[c]
    BY <2>1, <1>t DEF Alone, Connected
  <2>4. \A q \in Parties, d \in Clients :
          UserOf[d] # UserOf[c] => rooms'[q][UserOf[d]] = rooms[q][UserOf[d]]
    BY <2>1, <1>t DEF HubTypeOK
  <2> QED
    BY <2>1, <2>2, <2>3, <2>4
<1>2. ASSUME NEW c \in Clients, LeaveRoom(c) PROVE HistoryOfMember'
  <2> PICK p \in Parties : p = frame[c]
    BY <1>2, <1>t DEF LeaveRoom, HubTypeOK, Frames
  <2>1. /\ rooms' = [rooms EXCEPT ![p][UserOf[c]] = None] /\ UNCHANGED frame
        /\ \A d \in Clients \ {c} : reader'[d] = reader[d]
        /\ Connected(c) /\ reader'[c] = "reading"
    BY <1>2, <1>t DEF LeaveRoom, HubTypeOK, Connected
  <2>2. \A d \in Clients \ {c} : reader[d] = "send_history" => UserOf[d] # UserOf[c]
    BY <2>1, <1>t DEF Alone, Connected
  <2>3. \A q \in Parties, d \in Clients :
          UserOf[d] # UserOf[c] => rooms'[q][UserOf[d]] = rooms[q][UserOf[d]]
    BY <2>1, <1>t DEF HubTypeOK
  <2> QED
    BY <2>1, <2>2, <2>3
<1>3. ASSUME NEW c \in Clients, NEW kind \in Frames, NEW p \in Parties,
             ReadFrame(c, kind, p)
      PROVE  HistoryOfMember'
  <2>1. /\ UNCHANGED rooms /\ reader'[c] # "send_history"
        /\ \A d \in Clients \ {c} : reader'[d] = reader[d] /\ frame'[d] = frame[d]
    BY <1>3, <1>t DEF ReadFrame, HubTypeOK, Frames
  <2> QED
    BY <2>1
<1>4. ASSUME NEW c \in Clients, Connect(c) PROVE HistoryOfMember'
  <2>1. /\ UNCHANGED rooms /\ reader'[c] # "send_history"
        /\ \A d \in Clients \ {c} : reader'[d] = reader[d] /\ frame'[d] = frame[d]
    BY <1>4, <1>t DEF Connect, HubTypeOK
  <2> QED
    BY <2>1
<1>5. CASE HubUnregister
  <2> PICK c \in Clients : hub = <<"unregister", c>>
    BY <1>5, <1>h DEF HubUnregister
  <2>1. /\ UNCHANGED <<reader, frame>> /\ reader[c] = "off" /\ Connected(c)
        /\ \A q \in Parties, d \in Clients :
             UserOf[d] # UserOf[c] => rooms'[q][UserOf[d]] = rooms[q][UserOf[d]]
    BY <1>5, <1>t DEF HubUnregister, HubTypeOK, HubExpects, Connected
  <2>2. \A d \in Clients : reader[d] = "send_history" => UserOf[d] # UserOf[c]
    BY <2>1, <1>t DEF Alone, Connected
  <2> QED
    BY <2>1, <2>2
<1>6. ASSUME UNCHANGED <<rooms, frame>>,
             \A c \in Clients : reader'[c] = "send_history" => reader[c] = "send_history"
      PROVE  HistoryOfMember'
  BY <1>6
<1>7. ASSUME NEW c \in Clients,
             \/ TakeRegister(c) \/ SendHistory(c) \/ BroadcastToRoom(c)
             \/ ReadFails(c) \/ TakeUnregister(c) \/ Write(c) \/ WriterStops(c)
             \/ Heartbeat(c) \/ PeerGone(c)
      PROVE  HistoryOfMember'
  <2>1. UNCHANGED <<rooms, frame>>
    BY <1>7
    DEF TakeRegister, SendHistory, BroadcastToRoom, ReadFails, TakeUnregister,
        Write, WriterStops, Heartbeat, PeerGone
  <2>2. \/ UNCHANGED reader
        \/ \E x \in {"reading", "unregistering", "off"} : reader' = [reader EXCEPT ![c] = x]
    BY <1>7
    DEF TakeRegister, SendHistory, BroadcastToRoom, ReadFails, TakeUnregister,
        Write, WriterStops, Heartbeat, PeerGone
  <2>3. \A d \in Clients : reader'[d] = "send_history" => reader[d] = "send_history"
    BY <2>2, <1>t DEF HubTypeOK
  <2> QED
    BY <2>1, <2>3, <1>6
<1>8. CASE HubRegister \/ MarkOnline \/ MarkOffline
  BY <1>8, <1>6 DEF HubRegister, MarkOnline, MarkOffline
<1>9. ASSUME NEW u \in Users, TtlRuns(u) PROVE HistoryOfMember'
  BY <1>9, <1>6 DEF TtlRuns
<1> QED
  BY <1>1, <1>2, <1>3, <1>4, <1>5, <1>7, <1>8, <1>9
  DEF Next, ClientStep, ReaderGoesOn, HubStep

LEMMA InitRooms == Init => Rooms!Init
<1> SUFFICES ASSUME Init PROVE Rooms!Init
  OBVIOUS
<1>1. Present = {}
  BY HubAssumption DEF Init, Present, Connected
<1>2. RoomOf = [p \in Parties |-> {}]
  BY HubAssumption DEF Init, RoomOf, InRoom
<1>3. queued = [c \in Clients |-> 0]
  BY DEF Init
<1> QED
  BY <1>1, <1>2, <1>3 DEF Rooms!Init, Present, RoomOf

\* Steps that ChatRooms does not see.
LEMMA Unseen ==
  ASSUME UNCHANGED <<rooms, queued>>,
         \A c \in Clients : Connected(c)' <=> Connected(c)
  PROVE  UNCHANGED Rooms!roomVars
<1>1. Present' = Present
  BY DEF Present
<1>2. RoomOf' = RoomOf
  BY DEF RoomOf, InRoom
<1> QED
  BY <1>1, <1>2 DEF Rooms!roomVars, Present, RoomOf

LEMMA NextRooms ==
  ASSUME ~Overlapping, HubInv, HistoryOfMember, Next
  PROVE  [Rooms!Next]_(Rooms!roomVars)
<1> USE HubAssumption DEF conns, tables, Select
<1>t. /\ HubTypeOK /\ HubTypeOK' /\ Alone /\ RoomsKnown /\ HubExpects /\ TableServed
      /\ \A c \in Clients : UserOf[c] \in Users
  BY NextHubTypeOK DEF HubInv
<1>h. hub # Select => hub[2] \in Clients /\ hub = <<hub[1], hub[2]>>
  BY <1>t DEF HubTypeOK
<1>1. ASSUME NEW c \in Clients, Connect(c) PROVE Rooms!Arrive(c)
  <2>1. /\ \A d \in Present : UserOf[d] # UserOf[c]
        /\ queued' = [queued EXCEPT ![c] = 0]
        /\ UNCHANGED <<rooms, clients>>
    BY <1>1 DEF Connect, Present
  <2>2. Present' = Present \cup {c}
    BY <1>1, <1>t DEF Connect, Present, Connected, HubTypeOK
  <2>3. RoomOf' = RoomOf
    BY <2>1 DEF RoomOf, InRoom
  <2> QED
    BY <2>1, <2>2, <2>3 DEF Rooms!Arrive, Present, RoomOf
<1>2. ASSUME NEW c \in Clients, NEW p \in Parties, p = frame[c], JoinRoom(c)
      PROVE  Rooms!Enter(c, p)
  <2>1. /\ rooms' = [rooms EXCEPT ![p][UserOf[c]] = c]
        /\ UNCHANGED <<queued, clients>> /\ Connected(c)
        /\ \A d \in Clients : Connected(d)' <=> Connected(d)
    BY <1>2, <1>t DEF JoinRoom, Connected, HubTypeOK
  <2>2. Present' = Present /\ c \in Present
    BY <2>1 DEF Present
  <2>3. \A q \in Parties : InRoom(q)' = IF q = p THEN InRoom(q) \cup {c} ELSE InRoom(q)
    <3>1. \A d \in Clients \ {c} : rooms[p][UserOf[d]] = d => UserOf[d] # UserOf[c]
      BY <2>1, <1>t DEF Alone, RoomsKnown
    <3> QED
      BY <2>1, <3>1, <1>t DEF InRoom, HubTypeOK
  <2>4. RoomOf' = [RoomOf EXCEPT ![p] = @ \cup {c}]
    BY <2>3 DEF RoomOf
  <2> QED
    BY <2>1, <2>2, <2>4 DEF Rooms!Enter, Present, RoomOf
<1>3. ASSUME NEW c \in Clients, NEW p \in Parties, p = frame[c], LeaveRoom(c)
      PROVE  Rooms!Exit(c, p)
  <2>1. /\ rooms' = [rooms EXCEPT ![p][UserOf[c]] = None]
        /\ UNCHANGED <<queued, clients>> /\ Connected(c)
        /\ \A d \in Clients : Connected(d)' <=> Connected(d)
    BY <1>3, <1>t DEF LeaveRoom, Connected, HubTypeOK
  <2>2. Present' = Present
    BY <2>1 DEF Present
  <2>3. \A q \in Parties : InRoom(q)' = IF q = p THEN InRoom(q) \ {c} ELSE InRoom(q)
    <3>1. \A d \in Clients \ {c} : rooms[p][UserOf[d]] = d => UserOf[d] # UserOf[c]
      BY <2>1, <1>t DEF Alone, RoomsKnown
    <3> QED
      BY <2>1, <3>1, <1>t DEF InRoom, HubTypeOK
  <2>4. RoomOf' = [RoomOf EXCEPT ![p] = @ \ {c}]
    BY <2>3 DEF RoomOf
  <2> QED
    BY <2>1, <2>2, <2>4 DEF Rooms!Exit, Present, RoomOf
<1>4. ASSUME NEW c \in Clients, SendHistory(c)
      PROVE  Rooms!Deliver(frame[c], {c}) /\ {c} \subseteq RoomOf[frame[c]]
             /\ frame[c] \in Parties
  <2>1. /\ queued' = [queued EXCEPT ![c] = @ + 1]
        /\ UNCHANGED <<rooms, clients>>
        /\ \A d \in Clients : Connected(d)' <=> Connected(d)
    <3>1. ~closed[c]
      BY <1>4 DEF SendHistory, HubInv, ClosedGone, Connected
    <3> QED
      BY <1>4, <3>1, <1>t DEF SendHistory, Connected, HubTypeOK
  <2>2. queued' = [d \in Clients |-> IF d \in {c} THEN queued[d] + 1 ELSE queued[d]]
    BY <2>1, <1>t DEF HubTypeOK
  <2>3. Present' = Present /\ RoomOf' = RoomOf
    BY <2>1 DEF Present, RoomOf, InRoom
  <2>4. {c} \subseteq RoomOf[frame[c]] /\ frame[c] \in Parties
    BY <1>4 DEF SendHistory, HistoryOfMember, RoomOf
  <2> QED
    BY <2>2, <2>3, <2>4 DEF Rooms!Deliver, Present, RoomOf
<1>5. ASSUME NEW c \in Clients, BroadcastToRoom(c)
      PROVE  /\ frame[c] \in Parties
             /\ \E some \in SUBSET RoomOf[frame[c]] : Rooms!Deliver(frame[c], some)
  <2> DEFINE some == {d \in InRoom(frame[c]) : queued[d] < SendCap}
  <2>1. frame[c] \in Parties
    BY <1>5, <1>t DEF BroadcastToRoom, HubTypeOK, Frames
  <2>2. /\ UNCHANGED <<rooms, clients>>
        /\ \A d \in Clients : Connected(d)' <=> Connected(d)
        /\ queued' = [d \in Clients |-> IF d \in some THEN queued[d] + 1 ELSE queued[d]]
    BY <1>5, <1>t DEF BroadcastToRoom, Connected, HubTypeOK
  <2>3. Present' = Present /\ RoomOf' = RoomOf
    BY <2>2 DEF Present, RoomOf, InRoom
  <2>4. some \in SUBSET RoomOf[frame[c]]
    BY <2>1 DEF RoomOf
  <2>5. Rooms!Deliver(frame[c], some)
    BY <2>2, <2>3 DEF Rooms!Deliver, Present, RoomOf
  <2> QED
    BY <2>1, <2>4, <2>5
<1>6. ASSUME NEW c \in Clients, Write(c) PROVE Rooms!Take(c)
  <2>1. /\ queued[c] > 0 /\ queued' = [queued EXCEPT ![c] = @ - 1]
        /\ UNCHANGED <<rooms, clients, reader>>
    BY <1>6 DEF Write
  <2>2. Present' = Present /\ RoomOf' = RoomOf
    BY <2>1 DEF Present, RoomOf, InRoom, Connected
  <2> QED
    BY <2>1, <2>2 DEF Rooms!Take, Present, RoomOf
<1>7. ASSUME NEW c \in Clients, hub = <<"unregister", c>>, HubUnregister
      PROVE  Rooms!Depart(c)
  <2>1. /\ clients[UserOf[c]] = c /\ reader[c] = "off"
        /\ clients' = [clients EXCEPT ![UserOf[c]] = None]
        /\ UNCHANGED <<queued, reader>>
        /\ \A q \in Parties : rooms'[q] =
             IF q \in clientRooms[c] THEN [rooms[q] EXCEPT ![UserOf[c]] = None]
                                     ELSE rooms[q]
    BY <1>7, <1>t DEF HubUnregister, HubExpects
  <2>2. Present' = Present \ {c}
    <3>1. \A d \in Clients : clients'[UserOf[d]] = d
                              <=> clients[UserOf[d]] = d /\ d # c
      BY <2>1, <1>t DEF HubTypeOK
    <3> QED
      BY <2>1, <3>1 DEF Present, Connected
  <2>3. \A q \in Parties : InRoom(q)' = InRoom(q) \ {c}
    <3>1. \A d \in Clients \ {c}, q \in Parties :
            rooms[q][UserOf[d]] = d => UserOf[d] # UserOf[c]
      BY <2>1, <1>t DEF Alone, RoomsKnown, Connected
    <3>2. \A q \in Parties : rooms[q][UserOf[c]] = c => q \in clientRooms[c]
      BY <1>t DEF RoomsKnown
    <3>3. ASSUME NEW q \in Parties, NEW d \in Clients
          PROVE  rooms'[q][UserOf[d]] = d <=> rooms[q][UserOf[d]] = d /\ d # c
      <4>1. rooms[q] \in [Users -> Clients \cup {None}]
        BY <1>t DEF HubTypeOK
      <4> QED
        BY <2>1, <3>1, <3>2, <4>1, <1>t
    <3> QED
      BY <3>3 DEF InRoom
  <2>4. RoomOf' = [q \in Parties |-> RoomOf[q] \ {c}]
    BY <2>3 DEF RoomOf
  <2> QED
    BY <2>1, <2>2, <2>4 DEF Rooms!Depart, Present, RoomOf
<1>8. ASSUME NEW c \in Clients,
             \/ \E kind \in Frames, p \in Parties : ReadFrame(c, kind, p)
             \/ TakeRegister(c) \/ ReadFails(c) \/ WriterStops(c)
             \/ Heartbeat(c) \/ PeerGone(c)
      PROVE  UNCHANGED Rooms!roomVars
  <2>1. /\ UNCHANGED <<rooms, queued, clients>>
        /\ \A d \in Clients : reader'[d] = "off" <=> reader[d] = "off"
    BY <1>8, <1>t
    DEF ReadFrame, TakeRegister, ReadFails, WriterStops, Heartbeat, PeerGone,
        HubTypeOK, Frames
  <2> QED
    BY <2>1, Unseen DEF Connected
<1>9. ASSUME NEW c \in Clients, TakeUnregister(c) PROVE UNCHANGED Rooms!roomVars
  <2>1. /\ UNCHANGED <<rooms, queued, clients>> /\ reader[c] = "unregistering"
        /\ hub = Select
        /\ \A d \in Clients \ {c} : reader'[d] = reader[d]
    BY <1>9, <1>t DEF TakeUnregister, HubTypeOK
  <2>2. clients[UserOf[c]] = c
    BY <2>1, <1>t DEF TableServed, Served, Select
  <2> QED
    BY <2>1, <2>2, Unseen DEF Connected
<1>10. CASE HubRegister
  <2> PICK c \in Clients : hub = <<"register", c>>
    BY <1>10, <1>h DEF HubRegister
  <2>1. /\ Served(c) /\ clients[UserOf[c]] = None
        /\ clients' = [clients EXCEPT ![UserOf[c]] = c]
        /\ UNCHANGED <<rooms, queued, reader>>
    BY <1>10, <1>t DEF HubRegister, HubExpects
  <2>2. \A d \in Clients : Connected(d)' <=> Connected(d)
    BY <2>1, <1>t DEF Connected, Served, HubTypeOK
  <2> QED
    BY <2>1, <2>2, Unseen
<1>11. CASE MarkOnline \/ MarkOffline
  BY <1>11, Unseen DEF MarkOnline, MarkOffline, Connected
<1>12. ASSUME NEW u \in Users, TtlRuns(u) PROVE UNCHANGED Rooms!roomVars
  BY <1>12, Unseen DEF TtlRuns, Connected
<1>13. ASSUME NEW c \in Clients, JoinRoom(c) \/ LeaveRoom(c)
       PROVE  frame[c] \in Parties
  BY <1>13, <1>t DEF JoinRoom, LeaveRoom, HubTypeOK, Frames
<1>14. ASSUME NEW c \in Clients, ClientStep(c)
       PROVE  [Rooms!Next]_(Rooms!roomVars)
  <2>1. CASE Connect(c) \/ Write(c)
    BY <2>1, <1>1, <1>6 DEF Rooms!Next
  <2>2. CASE JoinRoom(c) \/ LeaveRoom(c)
    BY <2>2, <1>2, <1>3, <1>13 DEF Rooms!Next
  <2>3. CASE SendHistory(c) \/ BroadcastToRoom(c)
    <3>1. frame[c] \in Parties
            /\ \E some \in SUBSET RoomOf[frame[c]] : Rooms!Deliver(frame[c], some)
      BY <2>3, <1>4, <1>5
    <3> QED
      BY <3>1 DEF Rooms!Next, RoomOf
  <2> QED
    BY <1>14, <2>1, <2>2, <2>3, <1>8, <1>9 DEF ClientStep, ReaderGoesOn
<1>15. CASE HubStep
  <2>1. CASE HubUnregister
    <3> PICK c \in Clients : hub = <<"unregister", c>>
      BY <2>1, <1>h DEF HubUnregister
    <3> QED
      BY <2>1, <1>7 DEF Rooms!Next
  <2> QED
    BY <1>15, <2>1, <1>10, <1>11 DEF HubStep
<1> QED
  BY <1>12, <1>14, <1>15 DEF Next

\* Connections, rooms and channels behave as in ChatRooms, where a departing
\* connection leaves all its rooms at once and only members get messages.
THEOREM HubImplementsRooms ==
  ASSUME ~Overlapping
  PROVE  Spec => ImplementsRooms
<1> DEFINE Inv == HubInv /\ HistoryOfMember
<1>1. Init => Inv /\ Rooms!Init
  <2>1. Init => HistoryOfMember
    BY DEF Init, HistoryOfMember
  <2> QED
    BY <2>1, InitHubInv, InitRooms
<1>2. Inv /\ [Next]_vars => Inv'
  <2> SUFFICES ASSUME Inv, [Next]_vars PROVE Inv'
    OBVIOUS
  <2>1. HubInv'
    BY NextHubInv
  <2>2. CASE UNCHANGED vars
    BY <2>1, <2>2 DEF vars, HistoryOfMember, InRoom
  <2> QED
    BY <2>1, <2>2, NextHistoryOfMember
<1>3. Inv /\ [Next]_vars => [Rooms!Next]_(Rooms!roomVars)
  <2> SUFFICES ASSUME Inv, [Next]_vars PROVE [Rooms!Next]_(Rooms!roomVars)
    OBVIOUS
  <2>1. CASE UNCHANGED vars
    BY <2>1, Unseen DEF vars, Connected
  <2> QED
    BY <2>1, NextRooms
<1> QED
  BY <1>1, <1>2, <1>3, PTL DEF Spec, ImplementsRooms, Rooms!RoomsSpec

=============================================================================
