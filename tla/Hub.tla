-------------------------------- MODULE Hub --------------------------------
(***************************************************************************)
(* The WebSocket hub of service/ws_service.go: the Run loop, the rooms,    *)
(* and for every connection its ReadPump and its WritePump.                *)
(*                                                                         *)
(* A section under h.mu is one action, and so is BroadcastToRoom: its read *)
(* lock keeps rooms and closed channels as they are while it sends.  What  *)
(* is not under the lock is a step of its own: the rendezvous on Register  *)
(* and Unregister, the send of the chat history, the pumps, and the Redis  *)
(* commands for the online key.  A Client that nothing refers to any more  *)
(* may become the Client of the next connection of its user.               *)
(*                                                                         *)
(* A definition named X_Y is a faulty variant Y of X: no specification     *)
(* uses it; it shows that some property below notices the fault.           *)
(***************************************************************************)
EXTENDS Integers, FiniteSets

CONSTANTS
  Users,          \* user ids in tokens
  Clients,        \* Client objects
  UserOf,         \* UserOf[c]: the user of the connection c
  Parties,        \* party ids that name a room
  SendCap,        \* capacity of a Send channel (256 in the code)
  Overlapping,    \* whether a user may connect while still connected
  Redis,          \* whether config.RedisClient is set
  RedisFaults,    \* whether SET, DEL and EXPIRE of the online key may fail
  None            \* no client, no party

ASSUME HubAssumption ==
  /\ UserOf \in [Clients -> Users]
  /\ SendCap \in Nat \ {0}
  /\ {Overlapping, Redis, RedisFaults} \subseteq BOOLEAN
  /\ None \notin Clients \cup Parties

VARIABLES
  clients,      \* clients[u]: h.Clients
  rooms,        \* rooms[p][u]: h.Rooms
  clientRooms,  \* clientRooms[c]: c.Rooms
  queued,       \* queued[c]: how many messages c.Send buffers
  closed,       \* closed[c]: c.Send has been closed
  open,         \* open[c]: c.Conn works: nobody closed it, the peer is there
  reader,       \* reader[c]: where the handler or ReadPump of c is
  frame,        \* frame[c]: the party id of the frame ReadPump handles
  writing,      \* writing[c]: the WritePump of c runs
  hub,          \* what Run is doing, and for which client
  online,       \* online[u]: the key user:online:u and the age of its TTL
  panicked      \* a goroutine has panicked: the process is gone

conns   == <<reader, frame, writing>>
chans   == <<queued, closed, open>>
tables  == <<clients, rooms, clientRooms>>
vars == <<clients, rooms, clientRooms, queued, closed, open, reader, frame,
          writing, hub, online, panicked>>

Frames  == {"join_room", "leave_room", "chat"}
Readers == {"off", "registering", "reading", "send_history", "unregistering"}
             \cup Frames
HubOps  == {"register", "unregister", "set", "del"}
Select  == <<"select", None>>

HubTypeOK ==
  /\ clients \in [Users -> Clients \cup {None}]
  /\ rooms \in [Parties -> [Users -> Clients \cup {None}]]
  /\ clientRooms \in [Clients -> SUBSET Parties]
  /\ queued \in [Clients -> 0..SendCap]
  /\ closed \in [Clients -> BOOLEAN]
  /\ open \in [Clients -> BOOLEAN]
  /\ reader \in [Clients -> Readers]
  /\ frame \in [Clients -> Parties \cup {None}]
  /\ \A c \in Clients : reader[c] \in Frames => frame[c] \in Parties
  /\ writing \in [Clients -> BOOLEAN]
  /\ hub \in {Select} \cup (HubOps \X Clients)
  /\ online \in [Users -> {"absent", "fresh", "old"}]
  /\ panicked \in BOOLEAN

Init ==
  /\ clients = [u \in Users |-> None]
  /\ rooms = [p \in Parties |-> [u \in Users |-> None]]
  /\ clientRooms = [c \in Clients |-> {}]
  /\ queued = [c \in Clients |-> 0]
  /\ closed = [c \in Clients |-> FALSE]
  /\ open = [c \in Clients |-> FALSE]
  /\ reader = [c \in Clients |-> "off"]
  /\ frame = [c \in Clients |-> None]
  /\ writing = [c \in Clients |-> FALSE]
  /\ hub = Select
  /\ online = [u \in Users |-> "absent"]
  /\ panicked = FALSE

-----------------------------------------------------------------------------
(* A connection is upgraded; its handler offers the Client to Run, which   *)
(* puts it into the table and marks the user online.                       *)

\* The handler, the hub, the tables or a pump may still use c.
InUse(c) ==
  \/ reader[c] # "off"
  \/ writing[c]
  \/ hub[2] = c
  \/ clients[UserOf[c]] = c
  \/ \E p \in Parties : rooms[p][UserOf[c]] = c

\* c has been upgraded and its Unregister has not been carried out.
Connected(c) == reader[c] # "off" \/ clients[UserOf[c]] = c

Connect(c) ==
  /\ ~InUse(c)
  /\ Overlapping \/ \A d \in Clients : UserOf[d] = UserOf[c] => ~Connected(d)
  /\ reader' = [reader EXCEPT ![c] = "registering"]
  /\ queued' = [queued EXCEPT ![c] = 0]
  /\ closed' = [closed EXCEPT ![c] = FALSE]
  /\ open' = [open EXCEPT ![c] = TRUE]
  /\ clientRooms' = [clientRooms EXCEPT ![c] = {}]
  /\ frame' = [frame EXCEPT ![c] = None]
  /\ UNCHANGED <<clients, rooms, writing, hub, online, panicked>>

\* Run receives the client; the handler goes on and starts both pumps.
TakeRegister(c) ==
  /\ hub = Select
  /\ reader[c] = "registering"
  /\ hub' = <<"register", c>>
  /\ reader' = [reader EXCEPT ![c] = "reading"]
  /\ writing' = [writing EXCEPT ![c] = TRUE]
  /\ UNCHANGED <<tables, chans, frame, online, panicked>>

CloseSend_Forgotten(c) == UNCHANGED <<closed, panicked>>

\* close(c.Send); a second close panics.
CloseSend(c) ==
  /\ closed' = [closed EXCEPT ![c] = TRUE]
  /\ panicked' = closed[c]

\* Closes the connection only.
Kick_LeavesChannel(old) ==
  /\ open' = [open EXCEPT ![old] = FALSE]
  /\ UNCHANGED <<closed, panicked>>

Kick(old) ==
  /\ CloseSend(old)
  /\ open' = [open EXCEPT ![old] = FALSE]

HubRegister ==
  LET c == hub[2]
      old == clients[UserOf[c]]
  IN
  /\ hub[1] = "register"
  /\ \/ old # None /\ Kick(old)
     \/ old = None /\ UNCHANGED <<closed, panicked, open>>
  /\ clients' = [clients EXCEPT ![UserOf[c]] = c]
  /\ hub' = IF Redis THEN <<"set", c>> ELSE Select
  /\ UNCHANGED <<rooms, clientRooms, queued, conns, online>>

NewTtl_Persistent == "persistent"

NewTtl == "fresh"

\* The error of the SET is not looked at.
MarkOnline ==
  /\ hub[1] = "set"
  /\ \/ online' = [online EXCEPT ![UserOf[hub[2]]] = NewTtl]
     \/ RedisFaults /\ UNCHANGED online
  /\ hub' = Select
  /\ UNCHANGED <<tables, chans, conns, panicked>>

-----------------------------------------------------------------------------
(* ReadPump: frames that were received before the connection closed may    *)
(* still be in its read buffer, so a closed connection is read until its   *)
(* reader sees the error.                                                  *)

ReadFrame(c, kind, p) ==
  /\ reader[c] = "reading"
  /\ reader' = [reader EXCEPT ![c] = kind]
  /\ frame' = [frame EXCEPT ![c] = p]
  /\ UNCHANGED <<tables, chans, writing, hub, online, panicked>>

Note_Omitted(c, p) == UNCHANGED clientRooms

Note(c, p) == clientRooms' = [clientRooms EXCEPT ![c] = @ \cup {p}]

\* With Redis the history of the room is then read; if there is any, it is
\* the next thing to send.
JoinRoom(c) ==
  LET p == frame[c] IN
  /\ reader[c] = "join_room"
  /\ rooms' = [rooms EXCEPT ![p][UserOf[c]] = c]
  /\ Note(c, p)
  /\ \/ Redis /\ reader' = [reader EXCEPT ![c] = "send_history"]
     \/ reader' = [reader EXCEPT ![c] = "reading"]
  /\ UNCHANGED <<clients, chans, frame, writing, hub, online,
                 panicked>>

\* The only send without a default: it waits for room in the channel, and
\* panics when the channel is closed.
SendHistory(c) ==
  /\ reader[c] = "send_history"
  /\ \/ /\ ~closed[c]
        /\ queued[c] < SendCap
        /\ queued' = [queued EXCEPT ![c] = @ + 1]
        /\ reader' = [reader EXCEPT ![c] = "reading"]
        /\ UNCHANGED panicked
     \/ /\ closed[c]
        /\ panicked' = TRUE
        /\ UNCHANGED <<queued, reader>>
  /\ UNCHANGED <<tables, closed, open, frame, writing, hub, online>>

LeaveRoom(c) ==
  LET p == frame[c] IN
  /\ reader[c] = "leave_room"
  /\ rooms' = [rooms EXCEPT ![p][UserOf[c]] = None]
  /\ clientRooms' = [clientRooms EXCEPT ![c] = @ \ {p}]
  /\ reader' = [reader EXCEPT ![c] = "reading"]
  /\ UNCHANGED <<clients, chans, frame, writing, hub, online,
                 panicked>>

InRoom(p) == {d \in Clients : rooms[p][UserOf[d]] = d}

\* select with a default: a full channel stays as it is.
Offer(d) == IF queued[d] < SendCap THEN queued[d] + 1 ELSE queued[d]

Offered(to) == [d \in Clients |-> IF d \in to THEN Offer(d) ELSE queued[d]]

\* Without the default: waits for room in every channel.
OfferTo_Waits(to) == (\A d \in to : queued[d] < SendCap) /\ queued' = Offered(to)

OfferTo(to) == queued' = Offered(to)

\* Everybody in the table.
Audience_Everyone(c) == {d \in Clients : clients[UserOf[d]] = d}

Audience(c) == InRoom(frame[c])

\* Members whose channel is full miss the message; the sender need not be a
\* member.  A send to a closed channel panics.
BroadcastToRoom(c) ==
  LET to == Audience(c) IN
  /\ reader[c] = "chat"
  /\ OfferTo(to)
  /\ panicked' = \E d \in to : closed[d]
  /\ reader' = [reader EXCEPT ![c] = "reading"]
  /\ UNCHANGED <<tables, closed, open, frame, writing, hub, online>>

\* The connection is closed, or no pong came for pongWait.
ReadFails(c) ==
  /\ reader[c] = "reading"
  /\ reader' = [reader EXCEPT ![c] = "unregistering"]
  /\ UNCHANGED <<tables, chans, frame, writing, hub, online,
                 panicked>>

-----------------------------------------------------------------------------
(* A ReadPump that ends offers its client to Run, which takes it out of    *)
(* the rooms and the table, closes its channel and deletes the online key. *)

TakeUnregister(c) ==
  /\ hub = Select
  /\ reader[c] = "unregistering"
  /\ hub' = <<"unregister", c>>
  /\ reader' = [reader EXCEPT ![c] = "off"]
  /\ open' = [open EXCEPT ![c] = FALSE]
  /\ UNCHANGED <<tables, queued, closed, frame, writing, online, panicked>>

EmptyRooms_Skipped(c) == UNCHANGED rooms

EmptyRooms(c) ==
  rooms' = [p \in Parties |->
    IF p \in clientRooms[c] THEN [rooms[p] EXCEPT ![UserOf[c]] = None]
                            ELSE rooms[p]]

\* Whichever client the table holds for the user goes, and it is c whose
\* channel is closed.
HubUnregister ==
  LET c == hub[2] IN
  /\ hub[1] = "unregister"
  /\ EmptyRooms(c)
  /\ \/ /\ clients[UserOf[c]] # None
        /\ clients' = [clients EXCEPT ![UserOf[c]] = None]
        /\ CloseSend(c)
     \/ /\ clients[UserOf[c]] = None
        /\ UNCHANGED <<clients, closed, panicked>>
  /\ hub' = IF Redis THEN <<"del", c>> ELSE Select
  /\ UNCHANGED <<clientRooms, queued, open, conns, online>>

MarkOffline ==
  /\ hub[1] = "del"
  /\ \/ online' = [online EXCEPT ![UserOf[hub[2]]] = "absent"]
     \/ RedisFaults /\ UNCHANGED online
  /\ hub' = Select
  /\ UNCHANGED <<tables, chans, conns, panicked>>

-----------------------------------------------------------------------------
(* WritePump.  It ends when its channel is closed and drained, or when a   *)
(* write or a ping fails, and closes the connection.                       *)

Write(c) ==
  /\ writing[c]
  /\ queued[c] > 0
  /\ queued' = [queued EXCEPT ![c] = @ - 1]
  /\ UNCHANGED <<tables, closed, open, conns, hub, online, panicked>>

WriterStops(c) ==
  /\ writing[c]
  /\ writing' = [writing EXCEPT ![c] = FALSE]
  /\ open' = [open EXCEPT ![c] = FALSE]
  /\ UNCHANGED <<tables, queued, closed, reader, frame, hub, online, panicked>>

\* As if it were a SET.
Renews_Always(u) == TRUE

\* EXPIRE does nothing when the key is not there.
Renews(u) == online[u] = "old"

Heartbeat(c) ==
  /\ Redis
  /\ writing[c]
  /\ Renews(UserOf[c])
  /\ online' = [online EXCEPT ![UserOf[c]] = "fresh"]
  /\ UNCHANGED <<tables, chans, conns, hub, panicked>>

-----------------------------------------------------------------------------
(* The world: the peer goes away; the TTL runs down.                       *)

PeerGone(c) ==
  /\ open[c]
  /\ open' = [open EXCEPT ![c] = FALSE]
  /\ UNCHANGED <<tables, queued, closed, conns, hub, online, panicked>>

\* The TTL is 70 s and a WritePump renews it every 54 s, so the key does not
\* expire under a running WritePump unless its EXPIRE fails.
TtlRuns(u) ==
  /\ \/ online[u] = "fresh" /\ online' = [online EXCEPT ![u] = "old"]
     \/ /\ online[u] = "old"
        /\ RedisFaults \/ \A c \in Clients : UserOf[c] = u => ~writing[c]
        /\ online' = [online EXCEPT ![u] = "absent"]
  /\ UNCHANGED <<tables, chans, conns, hub, panicked>>

-----------------------------------------------------------------------------
\* What the handler or ReadPump of c does once it is no longer reading.
ReaderGoesOn(c) ==
  \/ TakeRegister(c)
  \/ JoinRoom(c)
  \/ SendHistory(c)
  \/ LeaveRoom(c)
  \/ BroadcastToRoom(c)
  \/ TakeUnregister(c)

ClientStep(c) ==
  \/ Connect(c)
  \/ \E kind \in Frames, p \in Parties : ReadFrame(c, kind, p)
  \/ ReadFails(c)
  \/ ReaderGoesOn(c)
  \/ Write(c)
  \/ WriterStops(c)
  \/ Heartbeat(c)
  \/ PeerGone(c)

HubStep == HubRegister \/ MarkOnline \/ HubUnregister \/ MarkOffline

Next ==
  /\ ~panicked
  /\ \/ \E c \in Clients : ClientStep(c)
     \/ HubStep
     \/ \E u \in Users : TtlRuns(u)

Spec == Init /\ [][Next]_vars

\* Goroutines run, lock and channel waiters are served in order, a select
\* picks every case sooner or later, the TTL runs down.  Where a reader waits,
\* only its own next step takes it on, so one condition covers all of these
\* steps.  A read fails on a closed connection once its buffered frames are
\* used up, a ping on it fails, and a write has a deadline (writeWait): it is
\* done or ends the WritePump.
Fairness ==
  /\ WF_vars(HubStep)
  /\ \A u \in Users : WF_vars(TtlRuns(u))
  /\ \A c \in Clients :
       /\ SF_vars(ReaderGoesOn(c))
       /\ SF_vars(ReadFails(c) /\ ~open[c])
       /\ WF_vars(Write(c))
       /\ WF_vars(WriterStops(c) /\ ~open[c])

FairSpec == Spec /\ Fairness

-----------------------------------------------------------------------------
(* Properties. *)

\* The hub has carried out the Register of c and its pumps still run.
Registered(c) ==
  /\ writing[c] \/ reader[c] \notin {"off", "registering"}
  /\ hub # <<"register", c>>

\* No goroutine ever sends to or closes a closed channel, whatever the order
\* of joins, broadcasts, disconnects and history sends: a panic in one of
\* them would end the whole server.  It holds when users do not overlap.
NoPanic == ~panicked

\* A user has at most one working session: of two registered connections one
\* has lost its channel, because it was kicked (README: 防重复登录) or because
\* its WritePump outlives its Unregister and a newer connection came meanwhile.
SingleLogin ==
  \A c, d \in Clients :
    c # d /\ UserOf[c] = UserOf[d] /\ Registered(c) /\ Registered(d)
      => closed[c] \/ closed[d]

\* A room holds no connection that has gone: whoever is in a room knows it,
\* still has a channel, and has a reader whose end will take it out or is
\* being taken out right now (Unregister removes a client from all rooms).
NoGhostMembers ==
  \A p \in Parties, c \in Clients :
    rooms[p][UserOf[c]] = c =>
      /\ p \in clientRooms[c]
      /\ ~closed[c]
      /\ reader[c] # "off" \/ hub = <<"unregister", c>>

\* When Run is at its select, the online key tells who is connected: nobody
\* is shown online without a connection, although heartbeats of a dying
\* WritePump race with the DEL, and nobody with a working WritePump is missed.
PresenceAccurate ==
  hub = Select /\ Redis => \A u \in Users :
    /\ online[u] # "absent" => clients[u] # None
    /\ clients[u] # None /\ online[u] = "absent" => ~writing[clients[u]]

\* The hub keeps what ChatRooms promises, although a connection, its rooms and
\* its channel are torn down by several goroutines: a connection is there until
\* Run has unregistered it, it leaves all its rooms in that one step, and only
\* members are sent the messages and the history of a room (comment in Run:
\* 从所有房间移除).  It holds when users do not overlap.
Rooms == INSTANCE ChatRooms WITH
  present <- {c \in Clients : Connected(c)},
  members <- [p \in Parties |-> InRoom(p)],
  inbox <- queued

ImplementsRooms == Rooms!RoomsSpec

\* Also when a DEL is lost, a user who stays away is shown offline in the end:
\* the key's TTL (comment in Run: 断连时 TTL 到期自动过期).
OnlineHeals ==
  \A u \in Users : []<>(clients[u] # None \/ online[u] = "absent" \/ panicked)

\* A connection that has closed is taken out of the table (comment in Run:
\* Unregister 也会主动删), unless its reader waits to send the history: it is
\* never kept by a broadcast of its own into channels that are full (缓冲区满，
\* 跳过), or by a newer connection of its user.
DisconnectCleansUp ==
  \A c \in Clients :
    []<>(\/ clients[UserOf[c]] # c
         \/ open[c]
         \/ reader[c] = "send_history"
         \/ panicked)

\* A ReadPump does not wait for a full channel for ever (README: 写缓冲满时
\* 非阻塞丢包).  Broadcasts keep to that, the chat history does not.
ReadersProceed ==
  \A c \in Clients : []<>(reader[c] # "send_history")

\* A connection leaves the table when it ends or when a newer one of its user
\* registers.
LeavesDuly(c) ==
  clients[UserOf[c]] = c /\ clients'[UserOf[c]] # c
    => hub = <<"unregister", c>> \/ hub[1] = "register"

\* A newer one kicks the old one, never the old one the newer
\* (README: 重复连接会踢掉旧连接).
NewestStays == [][\A c \in Clients : LeavesDuly(c)]_vars

\* The end of an old connection never takes a newer one out of the table while
\* the server goes on, though Run deletes whatever is there (ws_service.go:308):
\* its channel was closed by the kick, and the second close ends the process.
NoSilentEviction == [][(\A c \in Clients : LeavesDuly(c)) \/ panicked']_vars
=============================================================================
