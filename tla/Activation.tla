----------------------------- MODULE Activation -----------------------------
(***************************************************************************)
(* Registration and activation: Register_user and ActivateUser of          *)
(* service/auth_service.go, the codes and the mail worker of               *)
(* service/mail_worker.go, and the queue of config/rabbitmq.go.            *)
(*                                                                         *)
(* One action is one command to MySQL, Redis or RabbitMQ, or one section   *)
(* under memCodesMux.  A request that is refused without a change is no    *)
(* action.  A command may fail, the connection to RabbitMQ may break, and  *)
(* the process may die: MaxFaults bounds how often.                        *)
(*                                                                         *)
(* A definition named X_Y is a faulty variant Y of X: no specification     *)
(* uses it; it shows that some property below notices the fault.           *)
(***************************************************************************)
EXTENDS Integers

CONSTANTS
  Emails,     \* the addresses that clients register
  Codes,      \* activation codes
  Requests,   \* request goroutines; each serves one request after another
  MaxFaults,  \* how many faults there may be
  None        \* no code, no email

ASSUME ActivationAssumption ==
  /\ MaxFaults \in Nat
  /\ None \notin Emails \cup Codes

Stores == {"redis", "memory"}
Mails  == Emails \X Codes    \* a MailTask
Resting == <<"idle", <<None, None>>>>

VARIABLES
  user,       \* user[e]: the row of e: "none", "inactive", "active"
  codes,      \* codes[s][e]: the code that store s holds for e
  store,      \* where this process keeps codes: whether RedisClient is set
  mq,         \* the channel to RabbitMQ: "none" (nil), "up" or "broken"
  pc,         \* pc[r]: the next command of request r, "idle" between requests
  task,       \* task[r]: the email and the code that request r works with
  queue,      \* the mails RabbitMQ keeps until they are acknowledged
  worker,     \* the step of the mail worker and the mail it is at
  published,  \* the mails that ever entered the queue
  attempted,  \* the mails that were ever handed to SMTP
  expired,    \* the emails whose code ran out unused
  welcomed,   \* welcomed[e]: how many activations of e were answered with yes
  faults      \* how many faults there were

vars == <<user, codes, store, mq, pc, task, queue, worker, published,
          attempted, expired, welcomed, faults>>
mail == <<queue, worker, published, attempted>>
here == <<store, mq>>

ActivationTypeOK ==
  /\ user \in [Emails -> {"none", "inactive", "active"}]
  /\ codes \in [Stores -> [Emails -> Codes \cup {None}]]
  /\ store \in Stores
  /\ mq \in {"none", "up", "broken"}
  /\ pc \in [Requests -> {"idle", "insert", "generate", "publish", "del", "update"}]
  /\ task \in [Requests -> (Emails \cup {None}) \X (Codes \cup {None})]
  /\ \A r \in Requests :
       /\ pc[r] # "idle" => task[r][1] \in Emails
       /\ pc[r] \in {"publish", "del", "update"} => task[r][2] \in Codes
  /\ queue \subseteq Mails /\ published \subseteq Mails /\ attempted \subseteq Mails
  /\ worker \in {Resting} \cup ({"send", "ack"} \X Mails)
  /\ expired \subseteq Emails
  /\ welcomed \in [Emails -> Nat]
  /\ faults \in 0..MaxFaults

\* InitRedis and InitRabbitMQ leave their client nil when they cannot connect,
\* and the server starts without it.
Init ==
  /\ user = [e \in Emails |-> "none"]
  /\ codes = [s \in Stores |-> [e \in Emails |-> None]]
  /\ store \in Stores
  /\ mq \in {"none", "up"}
  /\ pc = [r \in Requests |-> "idle"]
  /\ task = [r \in Requests |-> <<None, None>>]
  /\ queue = {} /\ worker = Resting
  /\ published = {} /\ attempted = {} /\ expired = {}
  /\ welcomed = [e \in Emails |-> 0]
  /\ faults = 0

\* Loses what the request works with.
Goto_Blank(r, label, t) ==
  /\ pc' = [pc EXCEPT ![r] = label]
  /\ task' = [task EXCEPT ![r] = <<None, None>>]

\* What a request works with is in local variables of its handler.
Goto(r, label, t) ==
  /\ pc' = [pc EXCEPT ![r] = label]
  /\ task' = [task EXCEPT ![r] = t]

Return(r) == Goto(r, "idle", <<None, None>>)

Fault == faults < MaxFaults /\ faults' = faults + 1

Fine == UNCHANGED faults

-----------------------------------------------------------------------------
(* Register_user: look for the email, INSERT the user, store a code, and   *)
(* publish a mail that carries it.                                         *)

MayRegister(e) == user[e] = "none"

\* Any error of the SELECT counts as "not found".
RegisterCheck(r, e) ==
  /\ pc[r] = "idle"
  /\ \/ MayRegister(e) /\ Fine
     \/ ~MayRegister(e) /\ Fault
  /\ Goto(r, "insert", <<e, None>>)
  /\ UNCHANGED <<user, codes, here, mail, expired, welcomed>>

Insertable_Always(e) == TRUE

\* The column email is unique.
Insertable(e) == user[e] = "none"

RegisterInsert(r) ==
  LET e == task[r][1] IN
  /\ pc[r] = "insert"
  /\ \/ /\ Insertable(e) /\ Fine
        /\ user' = [user EXCEPT ![e] = "inactive"]
        /\ Goto(r, "generate", <<e, None>>)
     \/ /\ (~Insertable(e) /\ Fine) \/ Fault
        /\ Return(r)
        /\ UNCHANGED user
  /\ UNCHANGED <<codes, here, mail, expired, welcomed>>

Put(s, e, c) == codes' = [codes EXCEPT ![s][e] = c]

\* The error of the SET is not looked at.
GenerateActivationCode(r) ==
  LET e == task[r][1] IN
  /\ pc[r] = "generate"
  /\ \E c \in Codes :
       /\ \/ Put(store, e, c) /\ Fine
          \/ store = "redis" /\ Fault /\ UNCHANGED codes
       /\ Goto(r, "publish", <<e, c>>)
  /\ UNCHANGED <<user, here, mail, expired, welcomed>>

Enqueue_Dropped(m) == UNCHANGED <<queue, published>>

Enqueue(m) == queue' = queue \cup {m} /\ published' = published \cup {m}

\* Without a channel the code goes to the console; an error is only logged.
PublishEvent(r) ==
  /\ pc[r] = "publish"
  /\ \/ mq = "up" /\ Enqueue(task[r]) /\ Fine
     \/ mq = "up" /\ Fault /\ UNCHANGED <<queue, published>>
     \/ mq # "up" /\ Fine /\ UNCHANGED <<queue, published>>
  /\ Return(r)
  /\ UNCHANGED <<user, codes, here, worker, attempted, expired, welcomed>>

-----------------------------------------------------------------------------
(* ActivateUser: verify the code, delete it, then UPDATE the user.  With   *)
(* Redis these are three commands; the memory store is read and written    *)
(* under its mutex, and a wrong code deletes the right one as well.        *)

\* Like the memory store, forgets a code when a wrong one is tried.
VerifyGet_Forgets(r, e, c) ==
  /\ store = "redis" /\ pc[r] = "idle"
  /\ IF codes[store][e] = c
     THEN Goto(r, "del", <<e, c>>) /\ UNCHANGED codes
     ELSE Put(store, e, None) /\ UNCHANGED <<pc, task>>
  /\ UNCHANGED <<user, here, mail, expired, welcomed, faults>>

VerifyGet(r, e, c) ==
  /\ store = "redis" /\ pc[r] = "idle"
  /\ codes[store][e] = c
  /\ Goto(r, "del", <<e, c>>)
  /\ UNCHANGED <<user, codes, here, mail, expired, welcomed, faults>>

\* The error of the DEL is not looked at.
VerifyDel(r) ==
  /\ pc[r] = "del"
  /\ \/ Put(store, task[r][1], None) /\ Fine
     \/ Fault /\ UNCHANGED codes
  /\ Goto(r, "update", task[r])
  /\ UNCHANGED <<user, here, mail, expired, welcomed>>

VerifyMemory(r, e, c) ==
  /\ store = "memory" /\ pc[r] = "idle"
  /\ Put(store, e, None)
  /\ IF codes[store][e] = c THEN Goto(r, "update", <<e, c>>)
                            ELSE UNCHANGED <<pc, task>>
  /\ UNCHANGED <<user, here, mail, expired, welcomed, faults>>

Activatable_Always(e) == TRUE

\* WHERE email = ? AND active = false; no row is an error.
Activatable(e) == user[e] = "inactive"

ActivateUser(r) ==
  LET e == task[r][1] IN
  /\ pc[r] = "update"
  /\ \/ /\ Activatable(e) /\ Fine
        /\ user' = [user EXCEPT ![e] = "active"]
        /\ welcomed' = [welcomed EXCEPT ![e] = @ + 1]
     \/ /\ (~Activatable(e) /\ Fine) \/ Fault
        /\ UNCHANGED <<user, welcomed>>
  /\ Return(r)
  /\ UNCHANGED <<codes, here, mail, expired>>

-----------------------------------------------------------------------------
(* The mail worker: take a mail, hand it to SMTP, acknowledge it whether   *)
(* that went well or not.  A mail stays in the queue until then.           *)

\* As with auto-ack.
Taken_Acked(m) == queue \ {m}

Taken(m) == queue

Deliver(m) ==
  /\ mq = "up" /\ worker = Resting
  /\ m \in queue
  /\ worker' = <<"send", m>>
  /\ queue' = Taken(m)
  /\ UNCHANGED <<user, codes, here, pc, task, published, attempted, expired,
                 welcomed, faults>>

SendMail ==
  /\ worker[1] = "send"
  /\ attempted' = attempted \cup {worker[2]}
  /\ worker' = <<"ack", worker[2]>>
  /\ UNCHANGED <<user, codes, here, pc, task, queue, published, expired,
                 welcomed, faults>>

\* On a broken channel the acknowledgement fails, and the mail stays.
Ack ==
  /\ worker[1] = "ack"
  /\ queue' = IF mq = "up" THEN queue \ {worker[2]} ELSE queue
  /\ worker' = Resting
  /\ UNCHANGED <<user, codes, here, pc, task, published, attempted, expired,
                 welcomed, faults>>

-----------------------------------------------------------------------------
(* The world: a code runs out after 30 minutes; the connection to RabbitMQ *)
(* breaks and nobody dials again; the process dies and is started again.   *)

Expire(s, e) ==
  /\ codes[s][e] # None
  /\ Put(s, e, None)
  /\ expired' = expired \cup {e}
  /\ UNCHANGED <<user, here, pc, task, mail, welcomed, faults>>

ConnectionBreaks ==
  /\ Fault
  /\ mq = "up" /\ mq' = "broken"
  /\ UNCHANGED <<user, codes, store, pc, task, mail, expired, welcomed>>

\* Whoever sees a broken channel restarts the server.
Restart ==
  /\ (mq = "broken" /\ Fine) \/ Fault
  /\ codes' = [codes EXCEPT !["memory"] = [e \in Emails |-> None]]
  /\ store' \in Stores
  /\ mq' \in {"none", "up"}
  /\ pc' = [r \in Requests |-> "idle"]
  /\ task' = [r \in Requests |-> <<None, None>>]
  /\ worker' = Resting
  /\ UNCHANGED <<user, queue, published, attempted, expired, welcomed>>

-----------------------------------------------------------------------------
\* The next command of a handler that is under way.
Proceed(r) ==
  \/ RegisterInsert(r)
  \/ GenerateActivationCode(r)
  \/ PublishEvent(r)
  \/ VerifyDel(r)
  \/ ActivateUser(r)

Worker == (\E m \in Mails : Deliver(m)) \/ SendMail \/ Ack

Next ==
  \/ \E r \in Requests : Proceed(r)
  \/ \E r \in Requests, e \in Emails : RegisterCheck(r, e)
  \/ \E r \in Requests, e \in Emails, c \in Codes :
       VerifyGet(r, e, c) \/ VerifyMemory(r, e, c)
  \/ Worker
  \/ \E s \in Stores, e \in Emails : Expire(s, e)
  \/ ConnectionBreaks
  \/ Restart

Spec == Init /\ [][Next]_vars

\* Handlers and the worker run on: every command and every SMTP dialogue ends
\* with an answer or an error.
FairSpec ==
  /\ Spec
  /\ \A r \in Requests : WF_vars(Proceed(r))
  /\ WF_vars(Worker)

-----------------------------------------------------------------------------
(* Properties. *)

\* The codes of e in the stores, in a mail, or with a request.
Circulating(e) ==
  ({codes[s][e] : s \in Stores} \ {None})
    \cup {m[2] : m \in {n \in published : n[1] = e}}
    \cup {task[r][2] : r \in {q \in Requests :
            pc[q] \in {"publish", "del", "update"} /\ task[q][1] = e}}

\* An email never has two codes: two registrations at once, a redelivered mail
\* or a restart never leave a mail whose code has been replaced in the store.
OneCode == \A e \in Emails : \A c, d \in Circulating(e) : c = d

Account(e) ==
  IF \E r \in Requests : pc[r] = "generate" /\ task[r][1] = e
  THEN "new" ELSE user[e]

\* Racing requests, two stores, a queue that delivers again and a process that
\* dies amount to what Signup promises: an email gets a code once, its mails
\* carry that code, and however many requests come with it at once, one is told
\* that it has activated the user, who is active from then on.
Accounts == INSTANCE Signup WITH
  account <- [e \in Emails |-> Account(e)],
  keys <- [e \in Emails |-> Circulating(e)],
  posted <- published,
  arrived <- attempted

ImplementsSignup == Accounts!SignupSpec

\* A code is gone from Redis only when it ran out or a request goes on to use
\* it: until a fault an inactive user has a valid code, unless it expired.
CodeNotWasted ==
  faults = 0 /\ store = "redis" =>
    \A e \in Emails : user[e] = "inactive" =>
      \/ codes["redis"][e] # None
      \/ e \in expired
      \/ \E r \in Requests : task[r][1] = e /\ pc[r] \in {"generate", "update"}

\* A mail that was published is not lost before SMTP has had it, through
\* restarts and broken connections (comment on QueueDeclare: 重启后队列还在).
MailKept == published \subseteq queue \cup attempted

\* A registration gets its mail while the channel is up, also the one whose
\* worker was interrupted; only a fault can keep it from entering the queue.
RegistrationMailed ==
  \A e \in Emails :
    user[e] = "inactive" ~>
      \/ \E c \in Codes : <<e, c>> \in attempted
      \/ mq # "up"
      \/ faults > 0 /\ \A c \in Codes : <<e, c>> \notin queue

\* Who let the code run out can register again, as the mail says.
ExpiredMayRegister ==
  \A e \in expired : user[e] = "inactive" => MayRegister(e)
=============================================================================
