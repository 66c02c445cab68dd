# Verification of the Splatoon team-up backend

TLA+ models of the Go backend in `src/` (Gin, GORM over MySQL, Redis,
RabbitMQ, gorilla/websocket), the TLC runs that check them and the theorems
that TLAPS proves about them. Paths below are relative to `src/`.

## The system

| Component | State | Operations | Interacts with |
|---|---|---|---|
| Party handlers (`service/party_service.go`, `models/models.go`) | tables `parties` (soft delete, `playernum`, `max_num`, `owner_id`) and `party_members` (soft delete, unique index `idx_party_user`) | `CreateParty`, `JoinParty`, `LeaveParty`, `DeleteParty`, reads | list index (ZADD, ZREM) |
| Party list (`service/party_cache.go`, `GetPartyList`) | Redis ZSET `party:list:ids` with a random TTL, a mutex per process | readiness check and rebuild, incremental ZADD/ZREM, keyset pages with cursors, fall-back to the database | tables, Redis |
| WebSocket hub (`service/ws_service.go`, `controller/controller_ws.go`) | `Clients`, `Rooms`, per connection a `Send` channel of 256 and a set of rooms, Redis keys `user:online:*` with a TTL | register, unregister, join/leave room, chat broadcast, history, write, heartbeat | Redis, the peers |
| Chat history cache (`service/ws_service.go`) | job queue of 4096, two workers, Redis lists `party:msgs:*` trimmed to 100 | enqueue or drop, RPUSH and LTRIM, LRANGE on join | hub |
| Registration and activation (`service/auth_service.go`, `service/mail_worker.go`) | table `users` (unique email, `active`), activation codes in Redis or in memory with a TTL | register, activate, log in | mail queue |
| Mail queue (`config/rabbitmq.go`, `service/mail_worker.go`) | durable queue `mail.welcome` | publish, consume, ack, nack | SMTP |
| Start-up, middleware, JWT, CORS | none that changes while serving | | |

Every HTTP request and every message pump is a goroutine. Requests share
nothing but the database and Redis; the party handlers use a transaction in
`JoinParty` only. The hub shares its maps under one `RWMutex`, hands clients
to `Run` through two unbuffered channels, and closes `Send` channels that
other goroutines send to.

What is hard here:

* statements of concurrent party requests interleave, and a handler may stop
  after any of them: does the counter `playernum` still bound the members?
* a connection is used by four goroutines (its two pumps, `Run`, a sender's
  `ReadPump`): does anyone touch a channel after `Run` has closed it?
* the online key is written by `Run` and renewed by a `WritePump`, outside the
  lock, over a Redis that may fail;
* the index and the history are caches filled in several steps beside the data
  they mirror, and pages of the list are read while both change;
* a registration is a row, a code and a mail in three systems, of which each may
  fail, restart or expire.

What makes each component correct: *party handlers*: no party seats more than
`max_num`, counter and table agree, a deleted party stays closed, who left may
come back; *list*: a party is listed soon after it was created, pages neither
skip nor repeat; *hub*: no panic, one session per user, rooms without dead
connections, connections that end are cleaned up, online keys that tell the
truth; *history*: the latest 100 pushes, in their order, and each message once;
*activation*: only a mailed, unexpired code activates, and once; a user who
registered can get in eventually.

## Modules

| Module | What it is |
|---|---|
| `PartyRoster` | abstract specification: parties with seats, people who enter and leave |
| `Party` | the four party handlers, one action per SQL statement |
| `PartyListing` | abstract specification: a list that parties enter after they open, leave once they have closed, and that goes as a whole |
| `PartyIndex` | the Redis index of the party list: creates, deletes, readers that rebuild, read pages and clean |
| `PartyPaging` | a client that pages through the list by cursors, from the index or from the table |
| `ChatRooms` | abstract specification: one connection per user, rooms that it leaves when it goes, messages to members |
| `Hub` | `Hub.Run`, rooms, `ReadPump`, `WritePump`, online key |
| `RoomLog` | abstract specification: messages recorded once, again only while a fault leaves it in doubt, and readers who see how the record ends |
| `ChatHistory` | the chat history of a room: job queue, workers, list, who joins |
| `Signup` | abstract specification: accounts that are registered, given one code and activated once |
| `Activation` | registration, activation codes, mail queue and mail worker |
| `PartyProofs`, `PartyIndexProofs`, `PartyPagingProofs`, `HubProofs`, `ChatHistoryProofs`, `ActivationProofs` | theorems about the module of that name |
| `MCParty`, `MCPartyIndex`, `MCPartyPaging`, `MCHub`, `MCChatHistory`, `MCActivation` | instances for TLC |

`Party` implements `PartyRoster`, `PartyIndex` implements `PartyListing`, `Hub`
implements `ChatRooms`, `ChatHistory` implements `RoomLog` and `Activation`
implements `Signup`. The modules each take over where one
ends: `PartyIndex` has the commands on the index that `Party` leaves out;
`PartyPaging` has the order, the cursors and the limits that `PartyIndex`
leaves out, and lets the index change as `PartyListing` allows: ids come one by
one, deleted ones go, and the whole index goes (`KeyExpires`);
`ChatHistory` has what becomes of a message that `Hub` broadcasts, and where
the history comes from that `Hub` sends.

A definition called `X_Y` is a faulty variant of `X`. No specification uses it;
it is there to show that a property notices that fault.

### Party

`status`, `playernum`, `maxNum`, `owner` are columns of `parties`,
`member[p][u]` is the only row the unique index allows for a party and a user
(`"deleted"` when soft-deleted, which still occupies the index). `pc` and `arg`
are a request's next statement and its party id. `rowLock[p]` is the InnoDB row
lock that `JoinParty`'s transaction holds from its UPDATE to its end; between
the two `playernum` holds the uncommitted value, and other writers of that row
wait. `failed` records whether a statement has failed: some properties hold
until then.

| Code | Actions |
|---|---|
| `CreateParty` | `CreateRow`, `CreateMember` |
| `JoinParty` | `JoinCheck` (`RuserinP`), `JoinReserve` (conditional UPDATE), `JoinInsert` (INSERT, then commit or roll back) |
| `LeaveParty` | `LeaveCheck`, `LeaveDelete` (hard), `LeaveDecrement` |
| `DeleteParty` | `DeleteCheck` (owner), `DeleteMembers`, `DeleteRow` |
| any error return | `StatementFails` |

Abstracted: titles and names; the SELECT of the user in `CreateParty`; malformed
party ids (rejected before anything changes); the ZADD and ZREM on the list
index, which do not touch these tables and are actions of `PartyIndex`. A
failing statement has no effect; a commit whose outcome the client cannot tell
is not modelled. The lock on the member row between the INSERT and the commit is
merged into `JoinInsert`. A member check may fail to see a member only when
statements can fail (`RuserinP` takes every error for "not a member").

### PartyIndex

`row[p]` is the row's state, `index` the members of `party:list:ids`, `hasTtl`
whether that key has a TTL (no members: no key). `mu` is `partyListMu`.
`creator[p]` and `deleting[p]` say what `CreateParty` and `DeleteParty` still
owe the index; `reader[r]` and `ids[r]` are the next command of a
`GetPartyList` and the ids it has in hand.

| Code | Actions |
|---|---|
| `CreateParty`, `partyListIndexZAdd` | `Insert`, `CheckIndex` (EXISTS), `AddToIndex` (ZADD) |
| `DeleteParty`, `partyListIndexZRem` | `DeleteRow`, `RemoveFromIndex` (ZREM) |
| `partyListIndexReady` | `Ready` (EXISTS), `Lock` (mutex, second EXISTS) |
| `rebuildPartyListIndex` | `Select`, `Fill` (one ZADD of the pipeline), `Expire` (EXPIRE, unlock) |
| `GetPartyList` | `Seek` (ZREVRANGEBYSCORE), `Fetch` (rows), `Heal` (one ZREM of a missing id) |
| the world | `KeyExpires`, `Crash` |

Parties are numbered in the order of the list, and `Seek` hands a reader what
`GetPartyList` asks for: as many ids as the limit, the newest ones below any
cursor. Ids on pages nobody asks for are not read and not cleaned. How ties,
the slack and creation times decide what a page holds is left to `PartyPaging`.

Every command can fail (`Fault`, at most `MaxFaults` times); an error of the
second EXISTS leads to a rebuild, every other one to the page from the table,
which changes nothing. `config.InitRedis` (config/redis.go:21) leaves go-redis
its default of three retries, so the client sends a command again when its
reply is lost: a ZADD, a ZREM or the pipeline may take effect and be sent once
more, and an EXPIRE may apply and be reported as failed. Each of these is a
fault too. A command that the client has given up and that reaches Redis later
is not modelled.

That the key goes between the EXISTS and the ZADD of a create is no fault: it is
the TTL at an unlucky moment. `late` records for the properties whose create was
there when the index last went; `MadeLate` is an index that such a create made.

Abstracted: a party that two requests delete (their ZREMs are idempotent); other
processes (the mutex is per process; the repository deploys one).

`PartyListing` has the rows and the list, and nothing of readers, the mutex and
commands: `ImplementsListing` maps its `listed` to `index`. A ZADD, one at a
time, is `List`, which may be late (the party may be deleted by then), a ZREM is
`Unlist` and needs a deleted row, expiry is `Drop`.

### PartyPaging

`at[a]` is `created_at` in milliseconds, the score of `a` in the index and half
of its cursor. `live` is the table, `index` the ZSET. One client asks page after
page: `cursor` is its next cursor (the last party it got; cursors encode the
time and the id of a party, which never change, so the party stands for them),
`cand` and `more` what the handler holds between the seek and the SELECT of the
rows, `page` and `seen` what the client has, `due` what it must get: parties
that have been live since its first page and were in the index at each of its
reads of the index. `cut` is a ghost: the walk went over a page that only looks
like the end.

| Code | Definitions |
|---|---|
| `parsePartyCursor`, `encodePartyCursor` | `cursor`, `Follows`, `Oldest` |
| `seekPartyIDs` | `seekPartyIDs`, `Reached`, `Count`, `Sooner` (ZREVRANGEBYSCORE compares members as strings) |
| `orderPartyRows`, `ORDER BY created_at desc, id desc` | `Newer` |
| `GetPartyList`, the limit | `Clamp` |
| `GetPartyList`, the index path | `ReadIndex`, `SeekFails` (an error is no ids and no error), `Fetch` (rows, ZREM of the missing), `FetchFails` |
| `getPartyListFromDB` | `ReadTable` |
| other requests | `Insert`, `Delete`, `ZAdd` (of a create or of a rebuild), `ZRem` |
| the TTL | `KeyExpires` |

`Late` and `Doomed` bound which parties are created and deleted while the client
pages. `AsString[a]` is the place of `a` among all ids when they are sorted as
strings, `Digits[a]` its number of digits; of the two only `StringsAssumption`
is used: no two ids are the same string, and strings of equal length sort as
numbers do.

Two parties that are created in one order may get creation times in the other
(the clock is that of the handler), so `Insert` chooses any time. The walk takes
either path for every page.

### Hub

`clients`, `rooms` are `h.Clients`, `h.Rooms` (an empty room and no room are the
same), `clientRooms[c]` is `c.Rooms`, `queued[c]` and `closed[c]` the channel
`c.Send`, `open[c]` whether `c.Conn` works. `reader[c]` is where the handler or
the `ReadPump` of `c` is, `writing[c]` whether its `WritePump` runs, `hub` what
`Run` is in the middle of, `online[u]` the Redis key and whether its TTL was
renewed recently.

| Code | Actions |
|---|---|
| `WebSocketHandler` | `Connect`, `TakeRegister` (rendezvous on `Register`) |
| `Run`, Register | `HubRegister` (under the lock), `MarkOnline` (SET) |
| `Run`, Unregister | `TakeUnregister` (rendezvous), `HubUnregister` (under the lock), `MarkOffline` (DEL) |
| `ReadPump` | `ReadFrame`, `JoinRoom`, `SendHistory`, `LeaveRoom`, `BroadcastToRoom`, `ReadFails` |
| `WritePump` | `Write`, `WriterStops`, `Heartbeat` |
| the world | `PeerGone`, `TtlRuns` |

A section under `h.mu` is one action. `BroadcastToRoom` is one action as well:
its read lock keeps the rooms as they are and channels from being closed by
`Run` while it sends; only `Write` may run in between, and it frees places. What
several broadcasts under the read lock do to the order of messages is not
visible here, as messages are only counted. `JoinRoom` includes the LRANGE,
which only decides whether there is a history to send. Frames that were
received before a connection closed are still handled (the read buffer). A
`Client` that nothing refers to any more stands for the next connection of its
user.

`TtlRuns` encodes the one assumption about time: the TTL is 70 s and a running
`WritePump` renews it every 54 s, so the key expires only when no `WritePump` of
that user runs, or when `RedisFaults` lets an EXPIRE fail (its error is not
looked at, and neither are those of SET and DEL). `Overlapping = FALSE` says
that a user connects only after `Run` has carried out the `Unregister` of the
last connection. The code does not enforce it: run `hub_reconnect` shows what
happens without.

`ChatRooms` is the hub without its table, lock, pumps and rendezvous:
`ImplementsRooms` maps `present` to the connections `Run` knows, `members[p]` to
the room of `p` and `inbox` to the counts of the channels. `HubRegister` is
`Arrive`, `HubUnregister` is `Depart` (all rooms at once), `JoinRoom` and
`LeaveRoom` are `Enter` and `Exit`, a broadcast and the history send are
`Deliver` to some members of a room; the rest stutters.

`SendToUser`, `NotifyUser` and `NotifyPartyMembers` have no callers and are not
modelled.

### ChatHistory

One room. `sent` numbers the broadcasts; `sending[s]` is the message that the
`ReadPump` `s` has broadcast and not yet offered to the queue; `queue` is
`cacheJobs`, `worker[w]` the next command of a worker, `list` the Redis list.
`step[j]` says how far the `join_room` frame of `j` is, `got[j]` the history it
read. Ghosts: `pushed` (every RPUSH in its order), `lost` (messages that never
will be), `untrimmed` (LTRIMs lost and RPUSHes sent again since the last LTRIM
that worked), `late[j]` (what was under way when `j` read), `joinedAt[j]`.

| Code | Actions |
|---|---|
| `ReadPump`, chat frame | `BroadcastToRoom`, `cacheMessageAsync` as `CacheMessageAsync` (`select` with default) |
| `cacheWorker`, `cacheMessageToRedis` | `TakeJob`, `RPush`, `LTrim` |
| `ReadPump`, `join_room` | `JoinRoom`, `SendChatHistory` (LRANGE), `LeaveRoom` |
| the world | `Crash` |

Both commands of a job are sent, in this order, and the errors of both are
ignored. go-redis sends a command again when its reply is lost
(config/redis.go:21 leaves the default of three retries), so an RPUSH may append
its message and be sent once more, which puts the message into the history
twice, and it may be reported as failed after an earlier try took effect. `RPush` and `LTrim` have
these outcomes, each for one fault; `MaxFaults` stands for the limit of retries.
Other rooms share the queue and the workers and nothing else; they can only make
the queue fuller, which the small queue of the instance stands for.

`RoomLog` has no queue, workers or list: `ImplementsLog` maps its `log` to
`pushed`, its `view` to `got` and its `doubt` to the messages that were pushed by
a command which is being sent again (`InDoubt`). RPUSH is `Record`: a message is
recorded after it was sent, and again only while it is in doubt; each time it
stays in doubt costs a fault. The LRANGE of a joiner is `Show`, the end of the
log and at least `MaxLen` messages or all; leaving is `Hide`, a failing command
and a crash are `Fail`.

### Activation

`user[e]` is the row of an email, `codes[s][e]` the code that Redis or the
process's memory holds for it, `store` which of the two this process uses and
`mq` its channel to RabbitMQ: both are decided at the start of the process, and
the server runs without either. `pc` and `task` are a request's next command and
its local variables. `queue` is `mail.welcome` (durable, with persistent
messages: a mail stays until it is acknowledged), `worker` the step of
`StartMailWorker`. Ghosts: `published`, `attempted`, `expired`, `welcomed`.

| Code | Actions |
|---|---|
| `Register_user` | `RegisterCheck`, `RegisterInsert` (unique email), `GenerateActivationCode` (SET with its error ignored, or the map), `PublishEvent` |
| `ActivateUser`, `VerifyActivationCode` | `VerifyGet`, `VerifyDel` with Redis, `VerifyMemory` with the map, then `ActivateUser` (UPDATE) |
| `StartMailWorker` | `Deliver`, `SendMail`, `Ack` |
| `InitRedis`, `InitRabbitMQ` | `Init`, `Restart` |
| the world | `Expire` (30 minutes), `ConnectionBreaks` (nobody dials again) |

`SendMail` stands for success and failure alike, as the worker acknowledges
either way. `rand.Read` in `GenerateActivationCode` does not fail: `go.mod` asks
for Go 1.25, and since Go 1.24 it never returns an error, so the error branches
at mail_worker.go:47 and auth_service.go:53 are left out. Codes are drawn at
random, so two emails may get the same one; nothing depends on that.

`Signup` has no requests, stores, queue and worker: `ImplementsSignup` maps
`account[e]` to the row of `e` (and to `"new"` while the one request that
inserted it has yet to make the code), `keys[e]` to the codes of `e` in stores,
mails and requests (`Circulating`), `posted` to `published` and `arrived` to
`attempted`. `RegisterInsert` is `Register`, `GenerateActivationCode` is `Issue`,
a publish is `Post`, `SendMail` is `HandOver`, the UPDATE of `ActivateUser` is
`Activate`; DEL, expiry and a restart are `Lose`.

Passwords and tokens are left out, and so is
`Login_user`, which changes no state. A refused request changes nothing and is
no action.

## Runs

All runs are exhaustive. `None` and the identities are model values.

| Run | Instance | Checks | Result |
|---|---|---|---|
| `party_serial` | 4 users with one request each at a time, 1 party, `max_num` 0 or 2, any statement may fail, fairness | `TypeOK`, `PlayernumWithinCapacity`, `NoOverbooking`, `HeadcountExact`, `HeadcountCovers`, `LeaversCanRejoin`, `DeletedStaysClosed`, `ImplementsRoster`, `HandlersReturn` | hold |
| `party_double_leave` | a user with two requests in flight and another user, one seat | `NoOverbooking` | violated |
| `index_rebuild` | 2 parties, 2 readers, pages of 1 and 2 after any cursor, 1 fault (a command failed or sent again, a crash), fairness | `IndexTypeOK`, `TtlUnlessFilling`, `NoRedundantRebuild`, `ImplementsListing`, `EventuallyIndexed`, `StaleDiesOut` | hold |
| `index_lone` | 2 parties, 1 reader, no faults | `NoLoneIndex` | violated |
| `paging` | parties 8, 9, 10 and a late 11, 10 may be deleted, the index may expire, 2 creation times, pages of 1, 2 and 3, slack 2, fairness | `PagingTypeOK`, `PagesDescend`, `NothingSkipped`, `PathsAgree`, `WalkEnds` | hold |
| `hub_sessions` | 2 users, one with two `Client`s in turn, 1 room, channel of 1, Redis | `NoPanic`, `NoGhostMembers`, `PresenceAccurate`, `ImplementsRooms` | hold |
| `hub_live` | 2 overlapping connections of one user, SET, DEL and EXPIRE may fail, fairness | `SingleLogin`, `NoSilentEviction`, `DisconnectCleansUp`, `OnlineHeals` | hold |
| `hub_reconnect` | 2 overlapping connections of one user | `NewestStays` | violated |
| `hub_history` | 2 users, history to send, fairness | `ReadersProceed` | violated |
| `chat` | 2 senders, 3 messages, queue of 1, 2 workers, list of 2, 1 joiner, 2 faults, fairness | `ChatTypeOK`, `HistoryBounded`, `HistoryRecent`, `JoinerCaughtUp`, `ImplementsLog`, `JobsDone` | hold |
| `activation` | 2 emails, 2 codes, 2 requests at a time, 1 fault, fairness | `ActivationTypeOK`, `OneCode`, `CodeNotWasted`, `MailKept`, `ImplementsSignup`, `RegistrationMailed` | hold |
| `activation_expired` | 1 email, 1 request, no faults | `ExpiredMayRegister` | violated |

Why these bounds are enough to see the interesting cases.

*Party*: parties do not share rows, so one party shows every race on it. Two
seats and four users give a creator, a member, and two contenders for the last
seat; `max_num` 0 is the edge where only the creator fits. The counter is not
bounded by the model: it stays finite because the code keeps it so, except under
double leaves, where TLC stops at the violation.

*PartyIndex*: two readers for the mutex and for a page during a rebuild, two
parties for one that is in the index while another is missing; ids are never
reused, so every behaviour of a party is finite and new rounds come from expiry.
Two parties and pages of one leave an id on a page that is not asked for. One
fault is a command that fails or is sent again, or a crash, at any point; the
theorems cover any number.

*PartyPaging*: 9 and 10 are where the order of strings and that of numbers part
(8 and 9 have one digit, 10 and 11 have two), and two times for four parties
make ties. With a slack of two some ties fit and three do not; pages of one and
two end in the middle of ties. Limit 0 takes the default (2), limit 4 the
maximum (3). Four parties and pages of one are a walk of four pages. One party
that may be deleted is enough for an id without a row in the index or on a page;
it is 10, which may share its time with the one that comes late.

*Hub*: a channel of capacity 1 is full after one message; two clients of one
user are enough for a connection and its successor, and the third client is
somebody else who broadcasts to the room. `hub_live` does without that third
client: a user's own messages come back to it and fill its channel. There and in
`hub_reconnect` the two connections overlap: every order of the kick, the ends
of the old pumps and the two `Register`s and `Unregister`s comes up.

*ChatHistory*: three messages are a full list of two and one more that overflows
it; or one in each worker and one in the queue of one, where a message that
comes before a worker is free is dropped. Two workers show every reordering of
two jobs. Two faults are a failed LTRIM and then a crash, an RPUSH that fails
beside one, or an RPUSH that is sent again twice, so that one message stands in
the list three times. More of each is in the theorems.

*Activation*: two requests of one email race in every step; the second email
occupies the worker. Two codes tell an old code from a new one.

Identities that are interchangeable are symmetric in `hub_sessions`, which checks
no liveness; the numbered parties of `PartyIndex` are not interchangeable.

`CHECK_DEADLOCK FALSE` appears in `hub_sessions`, `hub_live` and `hub_history`,
where every connection of the instance can be stuck in the history send, and in
`activation` and `activation_expired`, where all emails can be active and all
mails sent; the other runs check that something can always happen.

### What the violations show

* `party_double_leave`: `LeaveParty` (party_service.go:240-251) checks,
  deletes and decrements separately and ignores the number of deleted rows.
  Two requests of one member decrement twice, the counter falls below the
  number of members, and a user is seated beyond `max_num` (README:
  人满拒绝; comment at party_service.go:215).
* `index_lone`: `partyListIndexZAdd` is EXISTS, then ZADD. When the key expires
  in between, without any failure, the ZADD makes a key with one party and no TTL
  (the comment at party_cache.go:111 says the check prevents it). Nothing ends
  such an index, and the other parties stay out of it; this is the `MadeLate` of
  `TtlUnlessFilling`, `NoRedundantRebuild` and `EventuallyIndexed`.
* `hub_reconnect`: the `Unregister` of a kicked connection removes its
  successor from `h.Clients` and closes the kicked `Send` again, which panics
  (ws_service.go:307; README: 踢掉旧连接). `NoSilentEviction` and `SingleLogin`
  say what is left with overlap: the successor is removed only in a step that
  panics, and two connections of one user never both have a working channel.
* `hub_history`: `c.Send <- data` (ws_service.go:133) has no default. When the
  channel is full and the `WritePump` has ended, `ReadPump` waits for ever and
  its client is never unregistered (README: 非阻塞丢包).
* `activation_expired`: the mail says that an expired code is renewed by
  registering again (mail_worker.go:162), but `Register_user` refuses every
  email that has a row (auth_service.go:31-34). An inactive user whose code ran
  out can neither activate nor register.

### Known facts without a run

They are visible in the models, and the properties are stated around them.

* A join that commits between the two DELETEs of `DeleteParty` leaves a
  `JOINED` row in a deleted party (the comment at party_service.go:185 says
  that the members are deleted with it). `DeletedStaysClosed` says that nobody
  joins later.
* EXISTS finds the key after the first ZADD of a rebuild, so another reader
  pages through an incomplete index (the comment at party_service.go:85 says
  that an index that is not built yet is not used). `NothingSkipped` speaks of
  parties that are in the index at every read of the walk.
* The EXPIRE of a rebuild is a command of its own: a crash or a failure before
  it leaves a key without TTL (party_cache.go:107), which nothing but a flush
  removes while a party is in it. This is why `TtlUnlessFilling` and
  `EventuallyIndexed` hold until the first fault. Such an index also keeps the
  ids of deleted parties on pages that nobody asks for, because only a page that
  reads an id removes it; `StaleDiesOut` says that an id stops coming up, not
  that it is gone.
* Of a message whose RPUSH is sent again the history has two copies, and it is
  one entry longer until the next LTRIM; there is no message id to tell copies
  apart by.
* A page whose ids have all been deleted has `hasMore` and an empty
  `nextCursor`, though an empty cursor means the end (party_cache.go:46); a
  failed seek looks like the end as well (party_cache.go:156). `cut` records
  both. The last page has a cursor all the same; it leads to one more, empty
  page.
* Redis orders equal scores by the id as a string: ids 9 and 10 created in one
  millisecond, or more parties in one millisecond than the slack, make a page
  skip parties. `TiesSafe` excludes both.
* The error of the SET of an activation code is ignored, so Redis failing there
  leaves a mailed code that was never stored (mail_worker.go:53). The store in
  memory forgets the right code when a wrong one is tried (mail_worker.go:79-82),
  and all codes on a restart. `CodeNotWasted` therefore speaks of Redis, until
  the first fault.
* An error of a SELECT counts as "not found" in `RuserinP` and in
  `Register_user`; the unique columns keep this harmless.

## Fairness

`Party`: a goroutine keeps running and InnoDB serves lock waiters in order, so
`SF_vars(Proceed(r))` per request: a statement that waits for the row lock is
enabled again and again, not continuously. A statement that fails is such a step
too. Clients need not send requests.

`PartyIndex`: goroutines run (`WF_vars(Update(p))`, `WF_vars(Serve(r))`), the
mutex does not starve a waiter (`SF_vars(Lock(r))`; Go's mutex hands over after
1 ms), the TTL ends (`WF_vars(KeyExpires)`), and somebody asks for the list
again and again (`Ready` is part of `Serve`): a rebuild and a cleaning only
happen when somebody reads. Nobody has to create or delete.

`Hub`: weak fairness for `Run`'s own steps (`HubStep`), for the TTL (`TtlRuns`),
for writing (`Write`; it has a deadline) and for a `WritePump` on a dead
connection (`WriterStops`; its next ping fails). One strong fairness per
connection, `SF_vars(ReaderGoesOn(c))`, covers every step that a reader or its
handler waits in: the rendezvous with `Run` (a `select` over ready cases chooses
among them at random), the sections under the lock (`sync.RWMutex` does not
starve waiters) and the history send (waiters on a channel are served in order).
While a reader waits in one of them it does nothing else, so the one condition
says what one for each would. Strong fairness for a read on a closed
connection, too, whose buffered frames run out. Peers need not go away and
nobody has to connect. `DisconnectCleansUp` excepts readers in the history send,
which may block for ever (`hub_history`).

`PartyPaging`: the client asks on while there is a next page
(`WF_vars(Ask)` over the limits), and the SELECT of the rows does not fail for
ever (`SF_vars(Fetch)`: `FetchFails` leads back to asking). Nobody has to create
or delete.

`ChatHistory`: a sender offers its message, and a worker carries out the job it
has taken (`WF_vars(RPush(w) \/ LTrim(w))`; commands to Redis end with an answer
or an error). For taking jobs
it is enough that some worker does (`WF_vars(\E w : TakeJob(w))`), as idle
workers compete for the queue. Nobody has to write or join.

`Activation`: handlers run on (`WF_vars(Proceed(r))`) and the worker does
(`WF_vars(Worker)`). That assumes that every SMTP dialogue ends; `smtp.SendMail`
has no timeout of its own, so a server that neither answers nor closes would
stop the only worker. One weak fairness over all mails is enough because `queue`
empties: a mail leaves it once it was tried.

## Proofs

TLAPS proves the following for every value of the constants that satisfies the
assumption of the module (`PartyAssumption`, `IndexAssumption`, ...: finite sets
where something is counted, natural numbers of faults, capacities of at least 1,
`None` is none of the identities; for paging also what decimal strings are like).
TLC evaluates these assumptions on the instances.

| Theorem | Says | Assumes |
|---|---|---|
| `TypeCorrect` | `[]TypeOK` | |
| `CounterBounded` | `[]PlayernumWithinCapacity` | |
| `NeverUndercounts` | `[]HeadcountCovers` | `SerialUsers` |
| `ExactUntilFailure` | `[]HeadcountExact` | `SerialUsers` |
| `NeverOverbooked` | `[]NoOverbooking` | `SerialUsers` |
| `RejoinPossible` | `[]LeaversCanRejoin` | |
| `HandlersImplementRoster` | `Spec => ImplementsRoster` | `SerialUsers` |
| `ClosedForGood` | `DeletedStaysClosed` | `SerialUsers` |
| `LockIsGivenBack` | `[]LockHeld` | |
| `IndexTypeCorrect` | `[]IndexTypeOK` | |
| `IndexImplementsListing` | `Spec => ImplementsListing` | |
| `TtlOrFilling` | `[]TtlUnlessFilling` | |
| `RebuildsWhenGone` | `[]NoRedundantRebuild` | |
| `PagingTypeCorrect` | `[]PagingTypeOK` | |
| `PagesAlwaysDescend` | `[]PagesDescend` | |
| `PathsAlwaysAgree` | `[]PathsAgree` | |
| `WalkIsComplete` | `[]NothingSkipped` | |
| `HubTypeCorrect` | `[]HubTypeOK` (no run checks it) | |
| `OneLogin` | `[]SingleLogin` | |
| `HubSafe` | `[]NoPanic` | connections do not overlap |
| `RoomsClean` | `[]NoGhostMembers` | connections do not overlap |
| `PresenceHolds` | `[]PresenceAccurate` | connections do not overlap, Redis does not fail |
| `HubImplementsRooms` | `Spec => ImplementsRooms` | connections do not overlap |
| `EntriesServed` | `[]TableServed` | connections do not overlap |
| `NewestNotEvicted` | `NoSilentEviction` | |
| `ChatTypeCorrect` | `[]ChatTypeOK` | |
| `BoundedHistory` | `[]HistoryBounded` | |
| `RecentHistory` | `[]HistoryRecent` | |
| `JoinersCatchUp` | `[]JoinerCaughtUp` | |
| `HistoryImplementsLog` | `Spec => ImplementsLog` | |
| `NothingVanishes` | `[]Conserved` | |
| `ActivationTypeCorrect` | `[]ActivationTypeOK` | |
| `OneCodePerEmail` | `[]OneCode` | |
| `CodesSurvive` | `[]CodeNotWasted` | |
| `MailDurable` | `[]MailKept` | |
| `ActivationImplementsSignup` | `Spec => ImplementsSignup` | |
| `NoRegistrationForgotten` | `[]MailOwed` | |

`SerialUsers` says that a user waits for the answer to one request before
sending the next; `party_double_leave` and `hub_reconnect` show that this
assumption and the one on connections are needed. `OneLogin` and
`NewestNotEvicted` are about connections that do overlap. Where a property holds
only until the first failure, or not in an index that a create made too late,
the property itself says so and the theorem assumes nothing.

*Party.* `NoOverbooking` is not inductive: it speaks about the member table and
the UPDATE looks at the counter only. The link is `Holders(p)`, the users whose
seat the counter must cover: those with a row, the creator whose row is about
to be inserted, the leaver whose seat is about to be returned. The inductive
invariant `IInv` says that the committed counter is at least the number of
holders, and equal to it until a statement fails, and conjoins what that needs:
who holds the row lock is between its two statements and the party is live
(`LockInv`), a leaver's row is gone until it has decremented (`LeaverRow`, where
`SerialUsers` enters), only the owner deletes (`OwnersAct`), and the counter
stays within the capacity. One lemma per action shows what it does to `Holders`;
the cardinality arguments cite the library's theorems on finite sets. The
refinement uses `IInv` for the guard `Cardinality(roster[p]) < seats[p]` of
`Enter`: the code tested the counter one statement earlier, and the lock keeps
that test valid.

*PartyIndex.* `ImplementsListing` follows from two facts about what readers and
handlers hold in their hands: no id of a row that is not there yet
(`Inserted`), and what is on its way out has been deleted (`OnlyDeletedGo`);
they survive faults because a crash only drops ids. The first gives the guard of
`List` at every ZADD, the second that of `Unlist` at every ZREM.
`TtlUnlessFilling` is part of `TtlInv`, which holds until the first fault. It
needs that a create about to ZADD finds the key or is recorded in `late`
(`ZAddFindsKey`), that a rebuild starts without a key or with one that a late
create made (`NoRedundantRebuild`), and that creates in `late` are of parties
that have a row (`LateInserted`).

*PartyPaging.* `PagingInv` says that the cursor is the oldest party the client
has got and that every id under way is older than it. The next page is then
older than the cursor and so than everything before it, and its oldest member is
the new cursor, whatever path it came from: both paths end in the same condition
on the rows. `PagingTypeCorrect` rests on the lemma that `First(n, S)` has at
most `n` members, as equal ranks mean equal parties in a strict linear order;
for the order of the strings that is part of `StringsAssumption`. `PathsAgree` and
`NothingSkipped` suppose `TiesSafe`, under which both orders are one
(`SameOrder`). The key lemma is `IndexPageIs`: a page of the index is the first
`n` of all indexed ids that follow the cursor. What the seek reaches and the
client has already fits into the slack (`SlackCovers`), so that what is left
holds the first `n + 1` that follow, or all there are (`SeekFinds`, with
`TopFills`: ranks are a bijection). `NothingSkipped` is the end of `SkipInv`:
whatever the client must get is in its pages, under way, or older than
everything under way, and then there is more.

*Hub.* `HubInv` says that the table holds exactly the clients whose reader is
served or whose `Register`/`Unregister` `Run` has in hand (`TableServed`,
`HubExpects`), that a user has one connection (`Alone`), that rooms hold
connected clients which know it (`RoomsKnown`), and that a closed channel
belongs to nobody connected (`ClosedGone`). From it no send and no close meets a
closed channel. `SingleLogin` and `NoSilentEviction` are proved from an
invariant of their own, `LoginInv`, which holds with overlapping connections as
well: a registered connection whose channel is open is the one in the table
(`OpenInTable`). So the channel of an old connection that `Run` takes out while
the table holds a newer one is closed already, and closing it panics.
`PresenceAccurate` adds how far the online key may lag behind the table: only by
what `Run` has in hand (`KeyLags`). The refinement of `ChatRooms` adds
`HistoryOfMember` (who waits to send the history is still in that room); `Alone`
gives the guard of `Arrive`, and `RoomsKnown` that the rooms a connection knows
are all the rooms it is in, so that `HubUnregister` is a whole `Depart`.

*ChatHistory.* `HistoryBounded` counts: each RPUSH adds one message and one
LTRIM that is due, and a crash turns the LTRIMs that were due into lost ones.
`HistoryRecent` says that `list` is a suffix of `pushed`, which RPUSH extends
and LTRIM shortens from the front, and not below `MaxLen`. `JoinerCaughtUp`
rests on conservation: every message that was broadcast is lost, under way or
pushed (`Conserved`); pushed and not in the list means that the list was full.
The refinement of `RoomLog` needs the reverse, that a message is in at most one
place: a sender, the queue, a worker or `pushed`, except that one in `pushed`
may be at a worker that sends its RPUSH again (`Once`, kept by lemmas on what
`Append` and `Tail` do to a sequence without repetitions); that such a message
is in doubt and no other is (`NextInDoubt`); and that the list is the end of
`pushed` (`ListIsLast`).

*Activation.* `OneCode` is proved by `CodeInv`: one request at a time has
inserted an email and not yet published its mail (the unique column lets one
INSERT through), and before it has made its code no code of that email is
anywhere. `CodeNotWasted` needs only that a request which has taken the code out
of Redis goes on to the UPDATE. `MailKept` adds that the mail at the worker has
been handed to SMTP before it is acknowledged. The refinement of `Signup` adds
that a request about to make a code works for a row that is not active yet
(`Fresh`: to activate it takes a code, and by `CodeInv` there is none) and that
the worker only has mails that were published (`WorkerHasMail`).

Only model-checked: the liveness properties (`HandlersReturn`,
`EventuallyIndexed`, `StaleDiesOut`, `WalkEnds`, `DisconnectCleansUp`,
`OnlineHeals`, `JobsDone`, `RegistrationMailed`), which are beyond the prover.
For five of them the theorems give the part that is safety: that what must
happen is still on its way to happen.

* `HandlersReturn`: the lock a handler waits for is held by a join at its INSERT
  and by nobody else (`LockHeld`, for any users).
* `EventuallyIndexed`: an index without its TTL is being filled, or a late create
  made it (`TtlUnlessFilling`).
* `DisconnectCleansUp`: whoever is in the table has a reader or is being taken
  out (`TableServed`).
* `JobsDone`: a message that is not in the history is under way, was dropped or
  fell to a fault (`Conserved`).
* `RegistrationMailed`: an inactive user's mail was published or a request is
  about to publish it (`MailOwed`), and it stays in the queue (`MailKept`).

Each inductive invariant was model-checked on the instances above before it was
proved.

## Plan

Done: all modules above and their proofs, with a refinement for the party
handlers, the index, the hub, the history and the activation. Left: `Hub` and
`ChatHistory` composed, for the order in which one member sees history and
messages.

## Not modelled

Reading the configuration, CORS, routing and the JWT secret check run once or
keep no state; what a start finds (Redis, RabbitMQ or neither) is in
`Activation`. The authentication middleware is stateless: the models take the
user of a request as given. bcrypt, JWT signatures and the SMTP dialogue are
outside; the load generators and the end-to-end script under `ws_test/` are
clients. `SendToUser`, `NotifyUser` and `NotifyPartyMembers` of the hub have no
callers, so the models would have to invent who calls them.
