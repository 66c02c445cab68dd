-------------------------- MODULE ActivationProofs --------------------------
(***************************************************************************)
(* Theorems about Activation, for every number of emails, codes, requests  *)
(* and faults.                                                             *)
(***************************************************************************)
EXTENDS Activation, TLAPS

USE DEF Put, Fine, Insertable, Activatable, MayRegister, Taken, Enqueue, here, mail

-----------------------------------------------------------------------------
(* Types. *)

LEMMA NextActivationTypeOK ==
  ASSUME ActivationTypeOK, [Next]_vars
  PROVE  ActivationTypeOK'
<1> USE ActivationAssumption
    DEF ActivationTypeOK, Goto, Return, Fault, Resting, Mails, Stores
<1>1. ASSUME NEW r \in Requests, NEW e \in Emails, RegisterCheck(r, e)
      PROVE  ActivationTypeOK'
  BY <1>1 DEF RegisterCheck
<1>2. ASSUME NEW r \in Requests, RegisterInsert(r)
      PROVE  ActivationTypeOK'
  <2>1. CASE Return(r) /\ UNCHANGED user
    BY <1>2, <2>1 DEF RegisterInsert
  <2>2. CASE /\ user' = [user EXCEPT ![task[r][1]] = "inactive"]
             /\ Goto(r, "generate", <<task[r][1], None>>) /\ Fine
    BY <1>2, <2>2 DEF RegisterInsert
  <2> QED
    BY <1>2, <2>1, <2>2 DEF RegisterInsert
<1>3. ASSUME NEW r \in Requests, GenerateActivationCode(r)
      PROVE  ActivationTypeOK'
  <2>1. PICK c \in Codes :
          /\ \/ codes' = [codes EXCEPT ![store][task[r][1]] = c] /\ Fine
             \/ Fault /\ UNCHANGED codes
          /\ Goto(r, "publish", <<task[r][1], c>>)
    BY <1>3 DEF GenerateActivationCode
  <2>2. /\ pc[r] = "generate" /\ task[r][1] \in Emails
        /\ UNCHANGED <<user, here, mail, expired, welcomed>>
    BY <1>3 DEF GenerateActivationCode
  <2>3. codes' \in [Stores -> [Emails -> Codes \cup {None}]] /\ faults' \in 0..MaxFaults
    BY <2>1, <2>2
  <2> QED
    BY <2>1, <2>2, <2>3
<1>4. ASSUME NEW r \in Requests, PublishEvent(r)
      PROVE  ActivationTypeOK'
  BY <1>4 DEF PublishEvent
<1>5. ASSUME NEW r \in Requests, NEW e \in Emails, NEW c \in Codes,
             VerifyGet(r, e, c) \/ VerifyMemory(r, e, c)
      PROVE  ActivationTypeOK'
  <2>1. /\ \/ Goto(r, "del", <<e, c>>)
           \/ Goto(r, "update", <<e, c>>)
           \/ UNCHANGED <<pc, task>>
        /\ \/ UNCHANGED codes
           \/ codes' = [codes EXCEPT ![store][e] = None]
        /\ UNCHANGED <<user, here, mail, expired, welcomed, faults>>
    BY <1>5 DEF VerifyGet, VerifyMemory
  <2>2. codes' \in [Stores -> [Emails -> Codes \cup {None}]]
    BY <2>1
  <2>3. CASE UNCHANGED <<pc, task>>
    BY <2>1, <2>2, <2>3
  <2>4. ASSUME NEW label \in {"del", "update"}, Goto(r, label, <<e, c>>)
        PROVE  ActivationTypeOK'
    BY <2>1, <2>2, <2>4
  <2> QED
    BY <2>1, <2>3, <2>4
<1>6. ASSUME NEW r \in Requests, VerifyDel(r)
      PROVE  ActivationTypeOK'
  BY <1>6 DEF VerifyDel
<1>7. ASSUME NEW r \in Requests, ActivateUser(r)
      PROVE  ActivationTypeOK'
  BY <1>7 DEF ActivateUser
<1>8. CASE Worker
  BY <1>8 DEF Worker, Deliver, SendMail, Ack
<1>9. ASSUME NEW s \in Stores, NEW e \in Emails, Expire(s, e)
      PROVE  ActivationTypeOK'
  BY <1>9 DEF Expire
<1>10. CASE ConnectionBreaks \/ Restart
  BY <1>10 DEF ConnectionBreaks, Restart
<1>11. CASE UNCHANGED vars
  BY <1>11 DEF vars
<1> QED
  BY <1>1, <1>2, <1>3, <1>4, <1>5, <1>6, <1>7, <1>8, <1>9, <1>10, <1>11
  DEF Next, Proceed

LEMMA InitActivationTypeOK == Init => ActivationTypeOK
BY ActivationAssumption DEF Init, ActivationTypeOK, Resting, Mails, Stores

\* The variables of Activation keep their types.
THEOREM ActivationTypeCorrect == Spec => []ActivationTypeOK
<1>1. Init => ActivationTypeOK
  BY InitActivationTypeOK
<1>2. ActivationTypeOK /\ [Next]_vars => ActivationTypeOK'
  BY NextActivationTypeOK
<1> QED
  BY <1>1, <1>2, PTL DEF Spec

-----------------------------------------------------------------------------
(* Mails are kept until SMTP has had them. *)

\* A mail is acknowledged after it was handed to SMTP.
MailInv ==
  /\ MailKept
  /\ worker[1] = "ack" => worker[2] \in attempted

\* A published mail is in the durable queue or was handed to SMTP, whatever
\* fails and however often the server restarts.
THEOREM MailDurable == Spec => []MailKept
<1>1. Init => MailInv
  BY DEF Init, MailInv, MailKept, Resting
<1>2. MailInv /\ [Next]_vars => MailInv'
  <2> SUFFICES ASSUME MailInv, [Next]_vars PROVE MailInv'
    OBVIOUS
  <2> USE DEF MailInv, MailKept
  <2>1. CASE UNCHANGED mail
    BY <2>1
  <2>2. ASSUME NEW r \in Requests, PublishEvent(r) PROVE MailInv'
    BY <2>2 DEF PublishEvent
  <2>3. CASE Worker
    BY <2>3 DEF Worker, Deliver, SendMail, Ack, Resting
  <2>4. CASE Restart
    BY <2>4 DEF Restart, Resting
  <2>5. \/ UNCHANGED mail \/ (\E r \in Requests : PublishEvent(r))
        \/ Worker \/ Restart
    BY DEF Next, Proceed, RegisterCheck, RegisterInsert, GenerateActivationCode,
           VerifyGet, VerifyDel, VerifyMemory, ActivateUser, Expire,
           ConnectionBreaks, vars
  <2> QED
    BY <2>1, <2>2, <2>3, <2>4, <2>5
<1>3. MailInv => MailKept
  BY DEF MailInv
<1> QED
  BY <1>1, <1>2, <1>3, PTL DEF Spec

-----------------------------------------------------------------------------
(* No registration is forgotten. *)

\* Until a fault and with a channel to RabbitMQ, who waits to be activated has
\* a mail that was published, or a request is about to publish it.
MailOwed ==
  faults = 0 /\ mq = "up" =>
    \A e \in Emails : user[e] = "inactive" =>
      \/ \E c \in Codes : <<e, c>> \in published
      \/ \E r \in Requests : pc[r] \in {"generate", "publish"} /\ task[r][1] = e

LEMMA NextMailOwed ==
  ASSUME ActivationTypeOK, MailOwed, faults = 0 => mq # "broken", [Next]_vars
  PROVE  MailOwed' /\ (faults' = 0 => mq' # "broken")
<1> USE ActivationAssumption DEF Goto, Return
<1>t. /\ DOMAIN pc = Requests /\ DOMAIN task = Requests
      /\ \A r \in Requests : pc[r] # "idle" => task[r][1] \in Emails
      /\ user \in [Emails -> {"none", "inactive", "active"}]
  BY DEF ActivationTypeOK
<1>f. faults' = 0 => faults = 0 /\ ~Fault
  BY DEF ActivationTypeOK, Next, Proceed, Worker, RegisterCheck, RegisterInsert,
         GenerateActivationCode, PublishEvent, VerifyGet, VerifyDel, VerifyMemory,
         ActivateUser, Deliver, SendMail, Ack, Expire, ConnectionBreaks, Restart,
         Fault, vars
<1>q. faults' = 0 => ~Restart /\ ~ConnectionBreaks /\ UNCHANGED mq
  BY <1>f
  DEF Next, Proceed, Worker, RegisterCheck, RegisterInsert,
      GenerateActivationCode, PublishEvent, VerifyGet, VerifyDel, VerifyMemory,
      ActivateUser, Deliver, SendMail, Ack, Expire, ConnectionBreaks, Restart, vars
<1> SUFFICES ASSUME faults' = 0, mq' = "up", NEW e \in Emails, user'[e] = "inactive"
             PROVE  \/ \E c \in Codes : <<e, c>> \in published'
                    \/ \E r \in Requests :
                         pc'[r] \in {"generate", "publish"} /\ task'[r][1] = e
  BY <1>f, <1>q DEF MailOwed
<1>0. faults = 0 /\ mq = "up" /\ ~Fault /\ ~Restart /\ ~ConnectionBreaks
  BY <1>f, <1>q
<1>1. CASE \E c \in Codes : <<e, c>> \in published
  <2>1. published \subseteq published'
    BY DEF Next, Proceed, Worker, RegisterCheck, RegisterInsert,
           GenerateActivationCode, PublishEvent, VerifyGet, VerifyDel,
           VerifyMemory, ActivateUser, Deliver, SendMail, Ack, Expire,
           ConnectionBreaks, Restart, vars
  <2> QED
    BY <1>1, <2>1
<1>2. ASSUME NEW r \in Requests, pc[r] \in {"generate", "publish"}, task[r][1] = e
      PROVE  \/ \E c \in Codes : <<e, c>> \in published'
             \/ pc'[r] \in {"generate", "publish"} /\ task'[r][1] = e
  <2>1. CASE GenerateActivationCode(r)
    BY <1>2, <2>1, <1>t DEF GenerateActivationCode
  <2>2. CASE PublishEvent(r)
    <3>1. task[r] = <<e, task[r][2]>> /\ task[r][2] \in Codes
      BY <1>2, <2>2 DEF ActivationTypeOK, PublishEvent
    <3>2. task[r] \in published'
      BY <1>0, <2>2 DEF PublishEvent
    <3> QED
      BY <3>1, <3>2
  <2>3. CASE pc'[r] = pc[r] /\ task'[r] = task[r]
    BY <1>2, <2>3
  <2>4. ASSUME NEW q \in Requests, q # r,
               \E label, t : Goto(q, label, t)
        PROVE  pc'[r] = pc[r] /\ task'[r] = task[r]
    BY <2>4, <1>t
  <2>5. ASSUME NEW q \in Requests, q # r, Proceed(q)
        PROVE  pc'[r] = pc[r] /\ task'[r] = task[r]
    BY <2>5, <2>4
    DEF Proceed, RegisterInsert, GenerateActivationCode, PublishEvent, VerifyDel,
        ActivateUser
  <2>6. CASE Proceed(r)
    BY <1>2, <2>1, <2>2, <2>6 DEF Proceed, RegisterInsert, VerifyDel, ActivateUser
  <2>7. ASSUME NEW q \in Requests, NEW f \in Emails, NEW c \in Codes,
               RegisterCheck(q, f) \/ VerifyGet(q, f, c) \/ VerifyMemory(q, f, c)
        PROVE  pc'[r] = pc[r] /\ task'[r] = task[r]
    <3>1. q # r
      BY <1>2, <2>7 DEF RegisterCheck, VerifyGet, VerifyMemory
    <3> QED
      BY <2>7, <3>1, <1>t DEF RegisterCheck, VerifyGet, VerifyMemory
  <2>8. ASSUME NEW q \in Requests, NEW f \in Emails, RegisterCheck(q, f)
        PROVE  pc'[r] = pc[r] /\ task'[r] = task[r]
    BY <1>2, <2>8, <1>t DEF RegisterCheck
  <2>9. CASE Worker \/ UNCHANGED vars \/ \E s \in Stores, f \in Emails : Expire(s, f)
    BY <2>9, <2>3 DEF Worker, Deliver, SendMail, Ack, Expire, vars
  <2> QED
    BY <1>0, <2>3, <2>5, <2>6, <2>7, <2>8, <2>9 DEF Next
<1>3. CASE user[e] = "inactive"
  BY <1>0, <1>1, <1>2, <1>3 DEF MailOwed
<1>4. CASE user[e] # "inactive"
  <2>1. PICK r \in Requests :
          /\ pc[r] = "insert" /\ e = task[r][1]
          /\ Goto(r, "generate", <<e, None>>)
    BY <1>4, <1>t
    DEF Next, Proceed, Worker, RegisterCheck, RegisterInsert,
        GenerateActivationCode, PublishEvent, VerifyGet, VerifyDel, VerifyMemory,
        ActivateUser, Deliver, SendMail, Ack, Expire, ConnectionBreaks, Restart, vars
  <2> QED
    BY <2>1, <1>t
<1> QED
  BY <1>3, <1>4

\* Each registration gets its mail into the queue, or is just doing so, as long
\* as nothing fails; with MailDurable, it is not lost from there.
THEOREM NoRegistrationForgotten == Spec => []MailOwed
<1> DEFINE Inv == ActivationTypeOK /\ MailOwed /\ (faults = 0 => mq # "broken")
<1>1. Init => Inv
  BY InitActivationTypeOK DEF Init, MailOwed
<1>2. Inv /\ [Next]_vars => Inv'
  BY NextActivationTypeOK, NextMailOwed
<1> QED
  BY <1>1, <1>2, PTL DEF Spec

-----------------------------------------------------------------------------
(* An email has one code.  The INSERT of the unique column admits one      *)
(* request per email to the generation of a code, and that one finds none. *)

\* The code c of e is in a store, in a mail, or with a request.
Has(e, c) ==
  \/ \E s \in Stores : codes[s][e] = c
  \/ <<e, c>> \in published
  \/ \E r \in Requests :
       pc[r] \in {"publish", "del", "update"} /\ task[r] = <<e, c>>

\* r has inserted e and has not yet published its mail.
Admitted(r, e) == pc[r] \in {"generate", "publish"} /\ task[r][1] = e

CodeInv ==
  \A e \in Emails :
    /\ user[e] = "none" => \A r \in Requests : ~Admitted(r, e)
    /\ user[e] = "none" => \A c \in Codes : ~Has(e, c)
    /\ \A r, q \in Requests : Admitted(r, e) /\ Admitted(q, e) => r = q
    /\ \A r \in Requests, c \in Codes :
         pc[r] = "generate" /\ task[r][1] = e => ~Has(e, c)
    /\ \A c, d \in Codes : Has(e, c) /\ Has(e, d) => c = d

LEMMA CirculatingHas ==
  ASSUME ActivationTypeOK, NEW e \in Emails, NEW c \in Circulating(e)
  PROVE  c \in Codes /\ Has(e, c)
<1>1. CASE c \in {codes[s][e] : s \in Stores} \ {None}
  BY <1>1 DEF ActivationTypeOK, Has, Stores
<1>2. ASSUME NEW m \in published, m[1] = e, c = m[2]
      PROVE  c \in Codes /\ Has(e, c)
  <2>1. m \in Emails \X Codes
    BY DEF ActivationTypeOK, Mails
  <2>2. m = <<m[1], m[2]>> /\ m[2] \in Codes
    BY <2>1
  <2>3. c \in Codes /\ <<e, c>> \in published
    BY <1>2, <2>2
  <2> QED
    BY <2>3 DEF Has
<1>3. ASSUME NEW r \in Requests, pc[r] \in {"publish", "del", "update"},
             task[r][1] = e, c = task[r][2]
      PROVE  c \in Codes /\ Has(e, c)
  <2>1. task[r] = <<e, c>> /\ c \in Codes
    BY <1>3 DEF ActivationTypeOK
  <2> QED
    BY <1>3, <2>1 DEF Has
<1> QED
  BY <1>1, <1>2, <1>3 DEF Circulating

\* A step that admits nobody and makes no new code keeps the invariant.
LEMMA NothingNew ==
  ASSUME CodeInv,
         \A e \in Emails : user'[e] = "none" <=> user[e] = "none",
         \A e \in Emails, r \in Requests : Admitted(r, e)' => Admitted(r, e),
         \A r \in Requests :
           pc'[r] = "generate" => pc[r] = "generate" /\ task'[r] = task[r],
         \A e \in Emails, c \in Codes : Has(e, c)' => Has(e, c)
  PROVE  CodeInv'
BY DEF CodeInv

LEMMA NextCodeInv ==
  ASSUME ActivationTypeOK, CodeInv, [Next]_vars
  PROVE  CodeInv'
<1> USE ActivationAssumption DEF Goto, Return
<1>u. user \in [Emails -> {"none", "inactive", "active"}]
  BY DEF ActivationTypeOK
<1>c. codes \in [Stores -> [Emails -> Codes \cup {None}]]
  BY DEF ActivationTypeOK
<1>k. /\ \A r \in Requests : pc[r] # "idle" => task[r][1] \in Emails
      /\ DOMAIN pc = Requests /\ DOMAIN task = Requests
  BY DEF ActivationTypeOK
<1>m. \A r \in Requests :
        pc[r] \in {"publish", "del", "update"} => task[r] = <<task[r][1], task[r][2]>>
  BY DEF ActivationTypeOK
<1>t. /\ \A r \in Requests : pc[r] # "idle" => task[r][1] \in Emails
      /\ \A r \in Requests :
           pc[r] \in {"publish", "del", "update"}
             => task[r] = <<task[r][1], task[r][2]>>
      /\ DOMAIN pc = Requests /\ DOMAIN task = Requests
      /\ DOMAIN codes = Stores /\ \A s \in Stores : DOMAIN codes[s] = Emails
  BY <1>c, <1>k, <1>m
<1>1. ASSUME NEW r \in Requests, RegisterInsert(r) PROVE CodeInv'
  <2> DEFINE a == task[r][1]
  <2>1. pc[r] = "insert" /\ a \in Emails /\ UNCHANGED <<codes, published>>
    BY <1>1, <1>t DEF RegisterInsert
  <2>2. CASE Return(r) /\ UNCHANGED user
    <3>1. \A e \in Emails, c \in Codes : Has(e, c)' => Has(e, c)
      BY <2>1, <2>2, <1>t DEF Has
    <3>2. \A e \in Emails, q \in Requests : Admitted(q, e)' => Admitted(q, e)
      BY <2>1, <2>2, <1>t DEF Admitted
    <3> QED
      BY <2>2, <3>1, <3>2, <1>t, NothingNew
  <2>3. CASE /\ user[a] = "none" /\ user' = [user EXCEPT ![a] = "inactive"]
             /\ Goto(r, "generate", <<a, None>>)
    <3>1. \A e \in Emails, c \in Codes : Has(e, c)' => Has(e, c)
      BY <2>1, <2>3, <1>t DEF Has
    <3>2. \A e \in Emails, q \in Requests :
            Admitted(q, e)' => Admitted(q, e) \/ (q = r /\ e = a)
      BY <2>1, <2>3, <1>t DEF Admitted
    <3>3. \A e \in Emails : user'[e] = "none" => user[e] = "none" /\ e # a
      BY <2>1, <2>3, <1>u
    <3>4. /\ \A q \in Requests : ~Admitted(q, a)
          /\ \A c \in Codes : ~Has(a, c)
      BY <2>1, <2>3 DEF CodeInv
    <3>5. \A q \in Requests : pc'[q] = "generate" =>
            \/ pc[q] = "generate" /\ task'[q] = task[q]
            \/ q = r /\ task'[q][1] = a
      BY <2>1, <2>3, <1>t
    <3> QED
      BY <3>1, <3>2, <3>3, <3>4, <3>5 DEF CodeInv
  <2> QED
    BY <1>1, <2>2, <2>3 DEF RegisterInsert
<1>2. ASSUME NEW r \in Requests, GenerateActivationCode(r) PROVE CodeInv'
  <2> DEFINE a == task[r][1]
  <2>1. PICK c \in Codes :
          /\ \/ codes' = [codes EXCEPT ![store][a] = c]
             \/ UNCHANGED codes
          /\ Goto(r, "publish", <<a, c>>)
    BY <1>2 DEF GenerateActivationCode
  <2>2. pc[r] = "generate" /\ a \in Emails /\ UNCHANGED <<user, published>>
    BY <1>2, <1>t DEF GenerateActivationCode
  <2>3. \A d \in Codes : ~Has(a, d)
    BY <2>2 DEF CodeInv
  <2>4. \A e \in Emails, d \in Codes :
          Has(e, d)' => Has(e, d) \/ (e = a /\ d = c)
    <3>1. \A s \in Stores, e \in Emails :
            codes'[s][e] = codes[s][e] \/ (e = a /\ codes'[s][e] = c)
      BY <2>1, <2>2, <1>c
    <3>2. \A q \in Requests : pc'[q] \in {"publish", "del", "update"} =>
            \/ pc[q] \in {"publish", "del", "update"} /\ task'[q] = task[q]
            \/ task'[q] = <<a, c>>
      BY <2>1, <2>2, <1>t
    <3> QED
      BY <2>2, <3>1, <3>2 DEF Has
  <2>5. \A e \in Emails, q \in Requests : Admitted(q, e)' => Admitted(q, e)
    BY <2>1, <2>2, <1>t DEF Admitted
  <2>6. \A q \in Requests : pc'[q] = "generate" =>
          q # r /\ pc[q] = "generate" /\ task'[q] = task[q]
    BY <2>1, <2>2, <1>t
  <2>7. user[a] # "none" /\ Admitted(r, a)
    BY <2>2 DEF CodeInv, Admitted
  <2>8. \A q \in Requests : pc'[q] = "generate" => task'[q][1] # a
    BY <2>6, <2>7, <2>2 DEF CodeInv, Admitted
  <2> QED
    BY <2>2, <2>3, <2>4, <2>5, <2>6, <2>7, <2>8 DEF CodeInv
<1>3. ASSUME NEW r \in Requests, PublishEvent(r) PROVE CodeInv'
  <2>1. /\ pc[r] = "publish" /\ Return(r) /\ UNCHANGED <<user, codes>>
        /\ published' \in {published, published \cup {task[r]}}
    BY <1>3 DEF PublishEvent
  <2>2. \A e \in Emails, c \in Codes : Has(e, c)' => Has(e, c)
    BY <2>1, <1>t DEF Has
  <2>3. \A e \in Emails, q \in Requests : Admitted(q, e)' => Admitted(q, e)
    BY <2>1, <1>t DEF Admitted
  <2> QED
    BY <2>1, <2>2, <2>3, <1>t, NothingNew
<1>4. ASSUME NEW r \in Requests, NEW label \in {"idle", "insert", "del", "update"},
             NEW t, Goto(r, label, t), pc[r] \notin {"generate", "publish"},
             label \in {"del", "update"} => \E e \in Emails, c \in Codes :
                                               t = <<e, c>> /\ Has(e, c),
             UNCHANGED published,
             \A e \in Emails : user'[e] = "none" <=> user[e] = "none",
             \A s \in Stores, e \in Emails :
               codes'[s][e] = codes[s][e] \/ codes'[s][e] = None
      PROVE  CodeInv'
  <2>1. \A q \in Requests : pc'[q] \in {"generate", "publish"}
          => pc'[q] = pc[q] /\ task'[q] = task[q]
    BY <1>4, <1>t
  <2>2. \A e \in Emails, c \in Codes : Has(e, c)' => Has(e, c)
    <3>1. \A q \in Requests : pc'[q] \in {"publish", "del", "update"} =>
            \/ pc[q] \in {"publish", "del", "update"} /\ task'[q] = task[q]
            \/ task'[q] = t /\ label \in {"del", "update"}
      BY <1>4, <1>t
    <3> SUFFICES ASSUME NEW e \in Emails, NEW c \in Codes, Has(e, c)'
                 PROVE  Has(e, c)
      OBVIOUS
    <3>2. CASE \E s \in Stores : codes'[s][e] = c
      BY <3>2, <1>4 DEF Has
    <3>3. CASE <<e, c>> \in published'
      BY <3>3, <1>4 DEF Has
    <3>4. CASE \E q \in Requests :
                 pc'[q] \in {"publish", "del", "update"} /\ task'[q] = <<e, c>>
      <4>1. CASE \E q \in Requests :
                   pc[q] \in {"publish", "del", "update"} /\ task[q] = <<e, c>>
        BY <4>1 DEF Has
      <4>2. CASE t = <<e, c>> /\ label \in {"del", "update"}
        <5>1. PICK f \in Emails, d \in Codes : t = <<f, d>> /\ Has(f, d)
          BY <1>4, <4>2
        <5>2. f = e /\ d = c
          BY <4>2, <5>1
        <5> QED
          BY <5>1, <5>2
      <4> QED
        BY <3>1, <3>4, <4>1, <4>2
    <3> QED
      BY <3>2, <3>3, <3>4 DEF Has
  <2>3. \A e \in Emails, q \in Requests : Admitted(q, e)' => Admitted(q, e)
    BY <2>1 DEF Admitted
  <2> QED
    BY <2>1, <2>2, <2>3, <1>4, NothingNew
<1>5. ASSUME NEW r \in Requests, NEW e \in Emails, RegisterCheck(r, e)
      PROVE  CodeInv'
  BY <1>5, <1>4 DEF RegisterCheck
<1>6. ASSUME NEW r \in Requests, VerifyDel(r) PROVE CodeInv'
  <2>1. /\ pc[r] = "del" /\ Goto(r, "update", task[r]) /\ UNCHANGED <<user, published>>
        /\ UNCHANGED codes \/ codes' = [codes EXCEPT ![store][task[r][1]] = None]
    BY <1>6 DEF VerifyDel
  <2>2. \A s \in Stores, e \in Emails :
          codes'[s][e] = codes[s][e] \/ codes'[s][e] = None
    BY <2>1, <1>t
  <2>3. \E e \in Emails, c \in Codes : task[r] = <<e, c>> /\ Has(e, c)
    <3>1. /\ task[r] = <<task[r][1], task[r][2]>>
          /\ task[r][1] \in Emails /\ task[r][2] \in Codes
      BY <2>1, <1>t DEF ActivationTypeOK
    <3>2. Has(task[r][1], task[r][2])
      BY <2>1, <3>1 DEF Has
    <3> QED
      BY <3>1, <3>2
  <2> QED
    BY <2>1, <2>2, <2>3, <1>4
<1>7. ASSUME NEW r \in Requests, ActivateUser(r) PROVE CodeInv'
  <2>1. /\ pc[r] = "update" /\ Return(r) /\ UNCHANGED <<codes, published>>
        /\ \A e \in Emails : user'[e] = "none" <=> user[e] = "none"
    BY <1>7 DEF ActivateUser, ActivationTypeOK
  <2> QED
    BY <2>1, <1>4
<1>8. ASSUME UNCHANGED <<user, published>>,
             pc' = [r \in Requests |-> "idle"] \/ UNCHANGED <<pc, task>>,
             \A s \in Stores, e \in Emails :
               codes'[s][e] = codes[s][e] \/ codes'[s][e] = None
      PROVE  CodeInv'
  <2>1. \A q \in Requests : pc'[q] # "idle" => pc'[q] = pc[q] /\ task'[q] = task[q]
    BY <1>8
  <2>2. \A e \in Emails, c \in Codes : Has(e, c)' => Has(e, c)
    BY <2>1, <1>8 DEF Has
  <2>3. \A e \in Emails, q \in Requests : Admitted(q, e)' => Admitted(q, e)
    BY <2>1 DEF Admitted
  <2> QED
    BY <2>1, <2>2, <2>3, <1>8, NothingNew
<1>9. ASSUME NEW r \in Requests, NEW e \in Emails, NEW c \in Codes,
             VerifyGet(r, e, c) \/ VerifyMemory(r, e, c)
      PROVE  CodeInv'
  <2>1. /\ pc[r] = "idle" /\ UNCHANGED <<user, published>>
        /\ \/ /\ Goto(r, "del", <<e, c>>) \/ Goto(r, "update", <<e, c>>)
              /\ codes[store][e] = c
           \/ UNCHANGED <<pc, task>>
        /\ UNCHANGED codes \/ codes' = [codes EXCEPT ![store][e] = None]
    BY <1>9 DEF VerifyGet, VerifyMemory
  <2>2. \A s \in Stores, f \in Emails :
          codes'[s][f] = codes[s][f] \/ codes'[s][f] = None
    BY <2>1, <1>t
  <2>3. CASE UNCHANGED <<pc, task>>
    BY <2>1, <2>2, <2>3, <1>8
  <2>4. CASE codes[store][e] = c
    <3>1. Has(e, c)
      BY <2>4 DEF Has, ActivationTypeOK
    <3> QED
      BY <2>1, <2>2, <2>3, <3>1, <1>4
  <2> QED
    BY <2>1, <2>3, <2>4
<1>10. CASE Worker \/ ConnectionBreaks \/ Restart \/ UNCHANGED vars
           \/ \E s \in Stores, e \in Emails : Expire(s, e)
  <2>1. /\ UNCHANGED <<user, published>>
        /\ pc' = [r \in Requests |-> "idle"] \/ UNCHANGED <<pc, task>>
    BY <1>10
    DEF Worker, Deliver, SendMail, Ack, ConnectionBreaks, Restart, Expire, vars
  <2>2. \A s \in Stores, e \in Emails :
          codes'[s][e] = codes[s][e] \/ codes'[s][e] = None
    BY <1>10, <1>t
    DEF Worker, Deliver, SendMail, Ack, ConnectionBreaks, Restart, Expire, vars
  <2> QED
    BY <2>1, <2>2, <1>8
<1> QED
  BY <1>1, <1>2, <1>3, <1>5, <1>6, <1>7, <1>9, <1>10 DEF Next, Proceed

\* The codes of an email in stores, mails and requests are all the same.
THEOREM OneCodePerEmail == Spec => []OneCode
<1> DEFINE Inv == ActivationTypeOK /\ CodeInv
<1>1. Init => Inv
  BY InitActivationTypeOK, ActivationAssumption
  DEF Init, CodeInv, Has, Admitted
<1>2. Inv /\ [Next]_vars => Inv'
  BY NextActivationTypeOK, NextCodeInv
<1>3. Inv => OneCode
  BY CirculatingHas DEF OneCode, CodeInv
<1> QED
  BY <1>1, <1>2, <1>3, PTL DEF Spec

-----------------------------------------------------------------------------
(* The refinement of Signup. *)

\* Who is about to get a code has a row and is not active.
Fresh ==
  \A r \in Requests : pc[r] = "generate" => user[task[r][1]] = "inactive"

\* The worker has mails that were published.
WorkerHasMail ==
  /\ queue \subseteq published
  /\ worker[1] = "send" => worker[2] \in published

LEMMA NextFresh ==
  ASSUME ActivationTypeOK, CodeInv, Fresh, [Next]_vars
  PROVE  Fresh'
<1> USE DEF Goto, Return
<1>t. /\ DOMAIN pc = Requests /\ DOMAIN task = Requests
      /\ \A r \in Requests : pc[r] # "idle" => task[r][1] \in Emails
      /\ user \in [Emails -> {"none", "inactive", "active"}]
  BY DEF ActivationTypeOK
<1>1. ASSUME NEW r \in Requests, RegisterInsert(r) PROVE Fresh'
  <2> DEFINE a == task[r][1]
  <2>1. pc[r] = "insert" /\ a \in Emails
    BY <1>1, <1>t DEF RegisterInsert
  <2>2. CASE Return(r) /\ UNCHANGED user
    BY <2>1, <2>2, <1>t DEF Fresh
  <2>3. CASE /\ user' = [user EXCEPT ![a] = "inactive"]
             /\ Goto(r, "generate", <<a, None>>)
    <3>1. task'[r][1] = a /\ user'[a] = "inactive"
      BY <2>1, <2>3, <1>t
    <3>2. \A q \in Requests \ {r} : pc'[q] = pc[q] /\ task'[q] = task[q]
      BY <2>3, <1>t
    <3>3. \A e \in Emails : e # a => user'[e] = user[e]
      BY <2>3, <1>t
    <3> QED
      BY <3>1, <3>2, <3>3, <1>t DEF Fresh
  <2> QED
    BY <1>1, <2>2, <2>3 DEF RegisterInsert
<1>2. ASSUME NEW r \in Requests, ActivateUser(r) PROVE Fresh'
  <2> DEFINE a == task[r][1]
  <2>1. /\ pc[r] = "update" /\ a \in Emails /\ Return(r)
        /\ user' = [user EXCEPT ![a] = "active"] \/ UNCHANGED user
    BY <1>2, <1>t DEF ActivateUser
  <2>2. \A q \in Requests : pc'[q] = "generate" =>
          q # r /\ pc[q] = "generate" /\ task'[q] = task[q]
    BY <2>1, <1>t
  <2>3. Has(a, task[r][2]) /\ task[r][2] \in Codes
    BY <2>1 DEF Has, ActivationTypeOK
  <2>4. \A q \in Requests : pc[q] = "generate" => task[q][1] # a
    BY <2>1, <2>3 DEF CodeInv
  <2>5. \A e \in Emails : e # a => user'[e] = user[e]
    BY <2>1, <1>t
  <2> QED
    BY <2>2, <2>4, <2>5, <1>t DEF Fresh
<1>3. ASSUME NEW r \in Requests, NEW label, label # "generate", NEW t,
             Goto(r, label, t), UNCHANGED user
      PROVE  Fresh'
  BY <1>3, <1>t DEF Fresh
<1>4. ASSUME UNCHANGED user, UNCHANGED <<pc, task>> \/ Restart PROVE Fresh'
  BY <1>4 DEF Fresh, Restart
<1>5. ASSUME NEW r \in Requests,
             \/ GenerateActivationCode(r) \/ PublishEvent(r) \/ VerifyDel(r)
             \/ \E e \in Emails : RegisterCheck(r, e)
             \/ \E e \in Emails, c \in Codes : VerifyGet(r, e, c) \/ VerifyMemory(r, e, c)
      PROVE  Fresh'
  <2>1. \/ \E label \in {"idle", "insert", "publish", "del", "update"} :
           \E t : Goto(r, label, t)
        \/ UNCHANGED <<pc, task>>
    BY <1>5 DEF GenerateActivationCode, PublishEvent, VerifyDel, RegisterCheck,
                VerifyGet, VerifyMemory
  <2>2. UNCHANGED user
    BY <1>5 DEF GenerateActivationCode, PublishEvent, VerifyDel, RegisterCheck,
                VerifyGet, VerifyMemory
  <2> QED
    BY <2>1, <2>2, <1>3, <1>4
<1>6. CASE Worker \/ ConnectionBreaks \/ Restart \/ UNCHANGED vars
           \/ \E s \in Stores, e \in Emails : Expire(s, e)
  BY <1>6, <1>4
  DEF Worker, Deliver, SendMail, Ack, ConnectionBreaks, Restart, Expire, vars
<1> QED
  BY <1>1, <1>2, <1>5, <1>6 DEF Next, Proceed

LEMMA NextWorkerHasMail ==
  ASSUME WorkerHasMail, [Next]_vars
  PROVE  WorkerHasMail'
<1> USE DEF WorkerHasMail
<1>1. CASE UNCHANGED mail
  BY <1>1
<1>2. ASSUME NEW r \in Requests, PublishEvent(r) PROVE WorkerHasMail'
  BY <1>2 DEF PublishEvent
<1>3. CASE Worker \/ Restart
  BY <1>3 DEF Worker, Deliver, SendMail, Ack, Restart, Resting
<1> QED
  BY <1>1, <1>2, <1>3
  DEF Next, Proceed, RegisterCheck, RegisterInsert, GenerateActivationCode,
      VerifyGet, VerifyDel, VerifyMemory, ActivateUser, Expire,
      ConnectionBreaks, vars

Keys(e) == {c \in Codes : Has(e, c)}

LEMMA CirculatingAreKeys ==
  ActivationTypeOK => \A e \in Emails : Circulating(e) = Keys(e)
<1> SUFFICES ASSUME ActivationTypeOK, NEW e \in Emails
             PROVE  Circulating(e) = Keys(e)
  OBVIOUS
<1>1. ASSUME NEW c \in Codes, Has(e, c) PROVE c \in Circulating(e)
  <2>1. CASE \E s \in Stores : codes[s][e] = c
    BY <2>1, ActivationAssumption DEF Circulating
  <2>2. CASE <<e, c>> \in published
    <3>1. <<e, c>>[1] = e /\ <<e, c>>[2] = c
      OBVIOUS
    <3>2. <<e, c>> \in {m \in published : m[1] = e}
      BY <2>2, <3>1
    <3>3. c \in {m[2] : m \in {n \in published : n[1] = e}}
      BY <3>1, <3>2
    <3> QED
      BY <3>3 DEF Circulating
  <2>3. CASE \E r \in Requests :
               pc[r] \in {"publish", "del", "update"} /\ task[r] = <<e, c>>
    BY <2>3 DEF Circulating
  <2> QED
    BY <1>1, <2>1, <2>2, <2>3 DEF Has
<1>2. ASSUME NEW c \in Circulating(e) PROVE c \in Keys(e)
  BY CirculatingHas DEF Keys
<1> QED
  BY <1>1, <1>2 DEF Keys

\* Keys that go, and a change of accounts that no request brings about.
LEMMA Losing ==
  ASSUME ActivationTypeOK, ActivationTypeOK',
         \A e \in Emails, c \in Codes : Has(e, c)' => Has(e, c),
         UNCHANGED <<published, attempted, welcomed>>,
         NEW left \in SUBSET Emails,
         \A e \in Emails : Account(e)' = IF e \in left /\ Account(e) = "new"
                                         THEN "inactive" ELSE Account(e)
  PROVE  Accounts!Lose(left)
<1>1. \A e \in Emails : Circulating(e) = Keys(e)
  BY CirculatingAreKeys
<1>2. \A e \in Emails : Circulating(e)' = Keys(e)'
  <2>1. ActivationTypeOK' => (\A e \in Emails : Circulating(e) = Keys(e))'
    BY CirculatingAreKeys, PTL
  <2> QED
    BY <2>1
<1>3. \A e \in Emails : Keys(e)' \subseteq Keys(e) /\ Keys(e)' \subseteq Codes
  BY DEF Keys
<1>4. Accounts!KeysMayGo
  BY <1>1, <1>2, <1>3 DEF Accounts!KeysMayGo
<1> QED
  BY <1>4 DEF Accounts!Lose

LEMMA NextAccounts ==
  ASSUME ActivationTypeOK, ActivationTypeOK', CodeInv, Fresh, WorkerHasMail,
         [Next]_vars
  PROVE  [Accounts!Next]_(Accounts!signupVars)
<1> USE DEF Goto, Return
<1>t. /\ DOMAIN pc = Requests /\ DOMAIN task = Requests
      /\ \A r \in Requests : pc[r] # "idle" => task[r][1] \in Emails
      /\ user \in [Emails -> {"none", "inactive", "active"}]
      /\ codes \in [Stores -> [Emails -> Codes \cup {None}]]
  BY DEF ActivationTypeOK
<1>c. \A r \in Requests : pc[r] \in {"publish", "del", "update"} =>
        task[r] = <<task[r][1], task[r][2]>> /\ task[r][2] \in Codes
  BY DEF ActivationTypeOK
<1>k. \A e \in Emails : Circulating(e) = Keys(e) /\ Keys(e) \subseteq Codes
  BY CirculatingAreKeys DEF Keys
<1>l. \A e \in Emails : Circulating(e)' = Keys(e)' /\ Keys(e)' \subseteq Codes
  <2>1. ActivationTypeOK' => (\A e \in Emails : Circulating(e) = Keys(e))'
    BY CirculatingAreKeys, PTL
  <2> QED
    BY <2>1 DEF Keys
\* A step that only makes requests go on, or codes vanish.
<1>s. ASSUME \A e \in Emails, c \in Codes : Has(e, c)' => Has(e, c),
             UNCHANGED <<published, attempted, welcomed>>,
             \A e \in Emails : Account(e)' = Account(e)
      PROVE  Accounts!Next
  <2>1. Accounts!Lose({})
    BY <1>s, Losing
  <2> QED
    BY <2>1 DEF Accounts!Next
<1>1. ASSUME NEW r \in Requests, RegisterInsert(r)
      PROVE  Accounts!Next
  <2>1. PICK a \in Emails :
          /\ pc[r] = "insert" /\ task[r][1] = a
          /\ UNCHANGED <<codes, published, attempted, welcomed>>
    BY <1>1, <1>t DEF RegisterInsert
  <2>2. CASE Return(r) /\ UNCHANGED user
    <3>1. \A e \in Emails, c \in Codes : Has(e, c)' => Has(e, c)
      BY <2>1, <2>2, <1>t DEF Has
    <3>2. \A e \in Emails : Account(e)' = Account(e)
      BY <2>1, <2>2, <1>t DEF Account
    <3> QED
      BY <2>1, <3>1, <3>2, <1>s
  <2>3. CASE /\ user[a] = "none" /\ user' = [user EXCEPT ![a] = "inactive"]
             /\ Goto(r, "generate", <<a, None>>)
    <3>1. \A q \in Requests \ {r} : pc'[q] = pc[q] /\ task'[q] = task[q]
      BY <2>3, <1>t
    <3>2. pc'[r] = "generate" /\ task'[r][1] = a
      BY <2>1, <2>3, <1>t
    <3>3. \A e \in Emails, c \in Codes : Has(e, c)' <=> Has(e, c)
      BY <2>1, <3>1, <3>2 DEF Has
    <3>4. Account(a) = "none" /\ Account(a)' = "new"
      BY <2>1, <2>3, <3>2 DEF Account, CodeInv, Admitted
    <3>5. \A e \in Emails : e # a => Account(e)' = Account(e)
      BY <2>1, <2>3, <3>1, <3>2, <1>t DEF Account
    <3>6. \A e \in Emails : Keys(e)' = Keys(e)
      BY <3>3 DEF Keys
    <3>7. Accounts!Register(a)
      <4>1. [e \in Emails |-> Account(e)]'
              = [[e \in Emails |-> Account(e)] EXCEPT ![a] = "new"]
        BY <2>1, <3>4, <3>5
      <4>2. UNCHANGED [e \in Emails |-> Circulating(e)]
        BY <3>6, <1>k, <1>l
      <4> QED
        BY <2>1, <3>4, <4>1, <4>2 DEF Accounts!Register
    <3> QED
      BY <2>1, <3>7 DEF Accounts!Next
  <2> QED
    BY <1>1, <2>1, <2>2, <2>3 DEF RegisterInsert
<1>2. ASSUME NEW r \in Requests, GenerateActivationCode(r)
      PROVE  Accounts!Next
  <2>1. PICK a \in Emails :
          /\ pc[r] = "generate" /\ task[r][1] = a
          /\ UNCHANGED <<user, published, attempted, welcomed>>
    BY <1>2, <1>t DEF GenerateActivationCode
  <2>2. PICK c \in Codes :
          /\ \/ codes' = [codes EXCEPT ![store][a] = c]
             \/ UNCHANGED codes
          /\ Goto(r, "publish", <<a, c>>)
    BY <1>2, <2>1 DEF GenerateActivationCode
  <2>3. /\ \A q \in Requests \ {r} : pc'[q] = pc[q] /\ task'[q] = task[q]
        /\ pc'[r] = "publish" /\ task'[r] = <<a, c>>
    BY <2>2, <1>t
  <2>4. Keys(a) = {} /\ Account(a) = "new"
    BY <2>1 DEF Keys, CodeInv, Account
  <2>5. Account(a)' = "inactive"
    <3>1. \A q \in Requests : ~(pc'[q] = "generate" /\ task'[q][1] = a)
      BY <2>1, <2>3 DEF CodeInv, Admitted
    <3>2. user'[a] = "inactive"
      BY <2>1 DEF Fresh
    <3> QED
      BY <3>1, <3>2 DEF Account
  <2>6. \A e \in Emails : e # a => Account(e)' = Account(e)
    BY <2>1, <2>3 DEF Account
  <2>7. /\ \A s \in Stores, e \in Emails : e # a => codes'[s][e] = codes[s][e]
        /\ \A s \in Stores : codes'[s][a] \in {c, codes[s][a]}
    BY <2>2, <2>1, <1>t
  <2>8. Keys(a)' = {c}
    <3>1. Has(a, c)'
      BY <2>3 DEF Has
    <3>2. ASSUME NEW d \in Codes, Has(a, d)' PROVE d = c
      <4>1. ~Has(a, d)
        BY <2>4 DEF Keys
      <4>2. <<a, d>> = <<a, c>> => d = c
        OBVIOUS
      <4> QED
        BY <3>2, <4>1, <4>2, <2>1, <2>3, <2>7 DEF Has
    <3> QED
      BY <3>1, <3>2 DEF Keys
  <2>9. \A e \in Emails : e # a => Keys(e)' = Keys(e)
    <3>1. ASSUME NEW e \in Emails, e # a, NEW d \in Codes PROVE Has(e, d)' <=> Has(e, d)
      <4>1. task'[r] # <<e, d>>
        BY <3>1, <2>3
      <4> QED
        BY <3>1, <4>1, <2>1, <2>3, <2>7 DEF Has
    <3> QED
      BY <3>1 DEF Keys
  <2>10. Accounts!Issue(a, c)
    <3>1. [e \in Emails |-> Account(e)]'
            = [[e \in Emails |-> Account(e)] EXCEPT ![a] = "inactive"]
      BY <2>1, <2>5, <2>6
    <3>2. [e \in Emails |-> Circulating(e)]'
            = [[e \in Emails |-> Circulating(e)] EXCEPT ![a] = {c}]
      BY <2>1, <2>8, <2>9, <1>k, <1>l
    <3>3. Circulating(a) = {}
      BY <2>1, <2>4, <1>k
    <3> QED
      BY <2>1, <2>4, <3>1, <3>2, <3>3 DEF Accounts!Issue
  <2> QED
    BY <2>1, <2>10 DEF Accounts!Next
<1>3. ASSUME NEW r \in Requests, PublishEvent(r)
      PROVE  Accounts!Next
  <2> DEFINE a == task[r][1]
             c == task[r][2]
  <2>1. /\ pc[r] = "publish" /\ Return(r) /\ task[r] = <<a, c>>
        /\ a \in Emails /\ c \in Codes
        /\ UNCHANGED <<user, codes, attempted, welcomed>>
        /\ published' = published \cup {task[r]} \/ UNCHANGED published
    BY <1>3, <1>t, <1>c DEF PublishEvent
  <2>2. /\ \A q \in Requests \ {r} : pc'[q] = pc[q] /\ task'[q] = task[q]
        /\ pc'[r] = "idle"
    BY <2>1, <1>t
  <2>3. \A e \in Emails : Account(e)' = Account(e)
    BY <2>1, <2>2 DEF Account
  <2>4. \A e \in Emails, d \in Codes : Has(e, d)' => Has(e, d)
    BY <2>1, <2>2 DEF Has
  <2>5. CASE published' = published \cup {<<a, c>>}
    <3>1. \A e \in Emails, d \in Codes : Has(e, d) => Has(e, d)'
      BY <2>1, <2>2, <2>5 DEF Has
    <3>2. \A e \in Emails : Keys(e)' = Keys(e)
      BY <2>4, <3>1 DEF Keys
    <3>3. c \in Keys(a)
      BY <2>1 DEF Keys, Has
    <3>4. Accounts!Post(a, c)
      BY <2>1, <2>3, <2>5, <3>2, <3>3, <1>k, <1>l DEF Accounts!Post
    <3> QED
      BY <2>1, <3>4 DEF Accounts!Next
  <2>6. CASE UNCHANGED published
    BY <2>1, <2>3, <2>4, <2>6, <1>s
  <2> QED
    BY <2>1, <2>5, <2>6
<1>4. ASSUME NEW r \in Requests, ActivateUser(r)
      PROVE  Accounts!Next
  <2>1. PICK a \in Emails :
          /\ pc[r] = "update" /\ task[r][1] = a /\ Return(r)
          /\ UNCHANGED <<codes, published, attempted>>
    BY <1>4, <1>t DEF ActivateUser
  <2>2. /\ \A q \in Requests \ {r} : pc'[q] = pc[q] /\ task'[q] = task[q]
        /\ pc'[r] = "idle"
    BY <2>1, <1>t
  <2>3. \A e \in Emails, d \in Codes : Has(e, d)' => Has(e, d)
    BY <2>1, <2>2 DEF Has
  <2>4. CASE UNCHANGED <<user, welcomed>>
    <3>1. \A e \in Emails : Account(e)' = Account(e)
      BY <2>1, <2>2, <2>4 DEF Account
    <3> QED
      BY <2>1, <2>3, <2>4, <3>1, <1>s
  <2>5. CASE /\ user[a] = "inactive" /\ user' = [user EXCEPT ![a] = "active"]
             /\ welcomed' = [welcomed EXCEPT ![a] = @ + 1]
    <3>1. task[r][2] \in Keys(a)
      BY <2>1, <1>c DEF Keys, Has
    <3>2. \A q \in Requests : ~(pc[q] = "generate" /\ task[q][1] = a)
      BY <2>1, <3>1 DEF Keys, CodeInv
    <3>3. Account(a) = "inactive"
      BY <2>5, <3>2 DEF Account
    <3>4. Account(a)' = "active"
      <4>1. \A q \in Requests : ~(pc'[q] = "generate" /\ task'[q][1] = a)
        BY <2>2, <3>2
      <4>2. user'[a] = "active"
        BY <2>1, <2>5, <1>t
      <4> QED
        BY <4>1, <4>2 DEF Account
    <3>5. \A e \in Emails : e # a => Account(e)' = Account(e)
      BY <2>1, <2>2, <2>5, <1>t DEF Account
    <3>6. \A e \in Emails : Keys(e)' \subseteq Keys(e)
      BY <2>3 DEF Keys
    <3>7. Accounts!KeysMayGo
      BY <3>6, <1>k, <1>l DEF Accounts!KeysMayGo
    <3>8. Accounts!Activate(a)
      <4>1. [e \in Emails |-> Account(e)]'
              = [[e \in Emails |-> Account(e)] EXCEPT ![a] = "active"]
        BY <2>1, <3>4, <3>5
      <4>2. Circulating(a) # {}
        BY <2>1, <3>1, <1>k
      <4> QED
        BY <2>1, <2>5, <3>3, <3>7, <4>1, <4>2 DEF Accounts!Activate
    <3> QED
      BY <2>1, <3>8 DEF Accounts!Next
  <2> QED
    BY <1>4, <2>1, <2>4, <2>5 DEF ActivateUser
<1>5. ASSUME NEW r \in Requests, NEW label \in {"insert", "del", "update"}, NEW t,
             Goto(r, label, t), pc[r] \in {"idle", "del"},
             label # "insert" => \E e \in Emails, c \in Codes :
                                   t = <<e, c>> /\ Has(e, c),
             UNCHANGED <<user, published, attempted, welcomed>>,
             \A s \in Stores, e \in Emails : codes'[s][e] \in {codes[s][e], None}
      PROVE  Accounts!Next
  <2>1. /\ \A q \in Requests \ {r} : pc'[q] = pc[q] /\ task'[q] = task[q]
        /\ pc'[r] = label /\ task'[r] = t
    BY <1>5, <1>t
  <2>2. \A e \in Emails : Account(e)' = Account(e)
    BY <1>5, <2>1 DEF Account
  <2>3. ASSUME NEW e \in Emails, NEW c \in Codes, Has(e, c)' PROVE Has(e, c)
    <3>1. CASE label # "insert" /\ t = <<e, c>>
      <4>1. PICK f \in Emails, d \in Codes : t = <<f, d>> /\ Has(f, d)
        BY <1>5, <3>1
      <4>2. f = e /\ d = c
        BY <3>1, <4>1
      <4> QED
        BY <4>1, <4>2
    <3>2. CASE ~(label # "insert" /\ t = <<e, c>>)
      BY <2>3, <3>2, <2>1, <1>5, ActivationAssumption DEF Has
    <3> QED
      BY <3>1, <3>2
  <2> QED
    BY <1>5, <2>2, <2>3, <1>s
<1>6. ASSUME UNCHANGED <<pc, task, user, published, attempted, welcomed>>,
             \A s \in Stores, e \in Emails : codes'[s][e] \in {codes[s][e], None}
      PROVE  Accounts!Next
  <2>1. \A e \in Emails : Account(e)' = Account(e)
    BY <1>6 DEF Account
  <2>2. \A e \in Emails, c \in Codes : Has(e, c)' => Has(e, c)
    BY <1>6, ActivationAssumption DEF Has
  <2> QED
    BY <1>6, <2>1, <2>2, <1>s
<1>7. ASSUME NEW r \in Requests, NEW e \in Emails, RegisterCheck(r, e)
      PROVE  Accounts!Next
  BY <1>7, <1>5 DEF RegisterCheck
<1>8. ASSUME NEW r \in Requests, VerifyDel(r)
      PROVE  Accounts!Next
  <2>1. /\ pc[r] = "del" /\ Goto(r, "update", task[r])
        /\ UNCHANGED <<user, published, attempted, welcomed>>
        /\ UNCHANGED codes \/ codes' = [codes EXCEPT ![store][task[r][1]] = None]
    BY <1>8 DEF VerifyDel
  <2>2. \A s \in Stores, e \in Emails : codes'[s][e] \in {codes[s][e], None}
    BY <2>1, <1>t
  <2>3. /\ task[r] = <<task[r][1], task[r][2]>>
        /\ task[r][1] \in Emails /\ task[r][2] \in Codes
    BY <2>1, <1>t, <1>c
  <2>4. Has(task[r][1], task[r][2])
    BY <2>1, <2>3 DEF Has
  <2> QED
    BY <2>1, <2>2, <2>3, <2>4, <1>5
<1>9. ASSUME NEW r \in Requests, NEW e \in Emails, NEW c \in Codes,
             VerifyGet(r, e, c) \/ VerifyMemory(r, e, c)
      PROVE  Accounts!Next
  <2>1. /\ pc[r] = "idle" /\ store \in Stores
        /\ UNCHANGED <<user, published, attempted, welcomed>>
        /\ \/ /\ Goto(r, "del", <<e, c>>) \/ Goto(r, "update", <<e, c>>)
              /\ codes[store][e] = c
           \/ UNCHANGED <<pc, task>>
        /\ UNCHANGED codes \/ codes' = [codes EXCEPT ![store][e] = None]
    BY <1>9 DEF VerifyGet, VerifyMemory, ActivationTypeOK
  <2>2. \A s \in Stores, f \in Emails : codes'[s][f] \in {codes[s][f], None}
    BY <2>1, <1>t
  <2>3. codes[store][e] = c => Has(e, c)
    BY <2>1 DEF Has
  <2> QED
    BY <2>1, <2>2, <2>3, <1>5, <1>6
<1>10. CASE \/ \E m \in Mails : Deliver(m)
            \/ Ack \/ ConnectionBreaks
            \/ \E s \in Stores, e \in Emails : Expire(s, e)
  <2>1. UNCHANGED <<pc, task, user, published, attempted, welcomed>>
    BY <1>10 DEF Deliver, Ack, ConnectionBreaks, Expire
  <2>2. UNCHANGED codes
        \/ \E s \in Stores, e \in Emails : codes' = [codes EXCEPT ![s][e] = None]
    BY <1>10 DEF Deliver, Ack, ConnectionBreaks, Expire
  <2>3. \A s \in Stores, e \in Emails : codes'[s][e] \in {codes[s][e], None}
    BY <2>2, <1>t
  <2> QED
    BY <2>1, <2>3, <1>6
<1>11. CASE SendMail
  <2>1. /\ worker[2] \in published /\ attempted' = attempted \cup {worker[2]}
        /\ UNCHANGED <<user, codes, pc, task, published, welcomed>>
    BY <1>11 DEF SendMail, WorkerHasMail
  <2>2. \A e \in Emails : Circulating(e)' = Circulating(e) /\ Account(e)' = Account(e)
    BY <2>1 DEF Circulating, Account
  <2>3. Accounts!HandOver(worker[2])
    BY <2>1, <2>2 DEF Accounts!HandOver
  <2> QED
    BY <2>1, <2>3 DEF Accounts!Next
<1>12. CASE Restart
  <2>1. /\ pc' = [r \in Requests |-> "idle"]
        /\ UNCHANGED <<user, published, attempted, welcomed>>
        /\ codes' = [codes EXCEPT !["memory"] = [e \in Emails |-> None]]
    BY <1>12 DEF Restart
  <2>2. \A e \in Emails : Account(e)' = IF e \in Emails /\ Account(e) = "new"
                                        THEN "inactive" ELSE Account(e)
    BY <2>1, <1>t DEF Account, Fresh
  <2>3. \A s \in Stores, e \in Emails : codes'[s][e] \in {codes[s][e], None}
    BY <2>1, <1>t
  <2>4. \A e \in Emails, c \in Codes : Has(e, c)' => Has(e, c)
    BY <2>1, <2>3, ActivationAssumption DEF Has
  <2>5. Accounts!Lose(Emails)
    BY <2>1, <2>2, <2>4, Losing
  <2> QED
    BY <2>5 DEF Accounts!Next
<1>13. CASE UNCHANGED vars
  BY <1>13 DEF vars, Accounts!signupVars, Account, Circulating
<1> QED
  BY <1>1, <1>2, <1>3, <1>4, <1>7, <1>8, <1>9, <1>10, <1>11, <1>12, <1>13
  DEF Next, Proceed, Worker

\* Requests, stores, the queue and the worker together keep the promises of
\* Signup, with any number of faults: one code, its mail, one activation.
THEOREM ActivationImplementsSignup == Spec => ImplementsSignup
<1> DEFINE Inv == ActivationTypeOK /\ CodeInv /\ Fresh /\ WorkerHasMail
<1>1. Init => Inv
  BY InitActivationTypeOK, ActivationAssumption
  DEF Init, CodeInv, Has, Admitted, Fresh, WorkerHasMail, Resting
<1>2. Init => Accounts!Init
  <2> SUFFICES ASSUME Init PROVE Accounts!Init
    OBVIOUS
  <2>1. \A e \in Emails : Account(e) = "none" /\ Circulating(e) = {}
    BY DEF Init, Account, Circulating
  <2> QED
    BY <2>1 DEF Init, Accounts!Init
<1>3. Inv /\ [Next]_vars => Inv'
  BY NextActivationTypeOK, NextCodeInv, NextFresh, NextWorkerHasMail
<1>4. Inv /\ [Next]_vars => [Accounts!Next]_(Accounts!signupVars)
  BY NextActivationTypeOK, NextAccounts
<1> QED
  BY <1>1, <1>2, <1>3, <1>4, PTL DEF Spec, ImplementsSignup, Accounts!SignupSpec

-----------------------------------------------------------------------------
(* Codes in Redis are not wasted. *)

\* The right to activate e is in Redis, has run out, or is with a request.
Alive(e) ==
  \/ codes["redis"][e] # None
  \/ e \in expired
  \/ \E r \in Requests : task[r][1] = e /\ pc[r] \in {"generate", "update"}

WasteInv == CodeNotWasted /\ (faults = 0 => mq # "broken")

\* Without faults a step that keeps the requests at "generate" and "update",
\* the code in Redis and the row keeps CodeNotWasted.
LEMMA NothingWasted ==
  ASSUME WasteInv, faults = 0, store = "redis",
         \A e \in Emails : user'[e] = "inactive" /\ Alive(e) => Alive(e)',
         \A e \in Emails : user'[e] = "inactive" => user[e] = "inactive" \/ Alive(e)'
  PROVE  CodeNotWasted'
<1>1. \A e \in Emails : user[e] = "inactive" => Alive(e)
  BY DEF WasteInv, CodeNotWasted, Alive
<1>2. \A e \in Emails : user'[e] = "inactive" => Alive(e)'
  BY <1>1
<1> QED
  BY <1>2 DEF CodeNotWasted, Alive

LEMMA NextWasteInv ==
  ASSUME ActivationTypeOK, WasteInv, [Next]_vars
  PROVE  WasteInv'
<1> USE ActivationAssumption DEF Goto, Return
<1>u. user \in [Emails -> {"none", "inactive", "active"}]
  BY DEF ActivationTypeOK
<1>c. codes \in [Stores -> [Emails -> Codes \cup {None}]]
  BY DEF ActivationTypeOK
<1>k. /\ \A r \in Requests : pc[r] # "idle" => task[r][1] \in Emails
      /\ DOMAIN pc = Requests /\ DOMAIN task = Requests
  BY DEF ActivationTypeOK
<1>f. faults \in Nat /\ (faults' = 0 => faults = 0 /\ UNCHANGED faults)
  BY DEF ActivationTypeOK, Next, Proceed, Worker, RegisterCheck, RegisterInsert,
         GenerateActivationCode, PublishEvent, VerifyGet, VerifyDel, VerifyMemory,
         ActivateUser, Deliver, SendMail, Ack, Expire, ConnectionBreaks, Restart,
         Fault, vars
<1>g. faults' = 0 => ~Fault
  BY <1>f DEF Fault
<1>b. faults' = 0 => mq' # "broken"
  BY <1>f, <1>g
  DEF WasteInv, Next, Proceed, Worker, RegisterCheck, RegisterInsert,
      GenerateActivationCode, PublishEvent, VerifyGet, VerifyDel, VerifyMemory,
      ActivateUser, Deliver, SendMail, Ack, Expire, ConnectionBreaks, Restart, vars
<1>s. SUFFICES ASSUME faults' = 0, store' = "redis", faults = 0, store = "redis",
                      ~Fault, ~Restart, ~ConnectionBreaks
               PROVE  CodeNotWasted'
  <2>1. faults' = 0 => ~Restart /\ ~ConnectionBreaks
    BY <1>f, <1>g DEF Restart, ConnectionBreaks, WasteInv
  <2>2. UNCHANGED store \/ Restart
    BY DEF Next, Proceed, Worker, RegisterCheck, RegisterInsert,
           GenerateActivationCode, PublishEvent, VerifyGet, VerifyDel,
           VerifyMemory, ActivateUser, Deliver, SendMail, Ack, Expire,
           ConnectionBreaks, vars
  <2> QED
    BY <1>b, <1>f, <1>g, <2>1, <2>2 DEF WasteInv, CodeNotWasted
<1>1. ASSUME NEW r \in Requests, NEW label \in {"idle", "insert", "del"}, NEW t,
             Goto(r, label, t), pc[r] \notin {"generate", "update"},
             UNCHANGED <<user, codes, expired>>
      PROVE  CodeNotWasted'
  <2>1. \A e \in Emails : Alive(e) => Alive(e)'
    BY <1>1, <1>k DEF Alive
  <2> QED
    BY <2>1, <1>1, <1>s, NothingWasted
<1>2. ASSUME UNCHANGED <<user, codes, expired, pc, task>> PROVE CodeNotWasted'
  BY <1>2, <1>s, NothingWasted DEF Alive
<1>3. ASSUME NEW r \in Requests, RegisterInsert(r) PROVE CodeNotWasted'
  <2> DEFINE a == task[r][1]
  <2>1. pc[r] = "insert" /\ a \in Emails /\ UNCHANGED <<codes, expired>>
    BY <1>3, <1>k DEF RegisterInsert
  <2>2. CASE Return(r) /\ UNCHANGED user
    BY <2>1, <2>2, <1>1
  <2>3. CASE /\ user' = [user EXCEPT ![a] = "inactive"]
             /\ Goto(r, "generate", <<a, None>>)
    <3>1. task'[r][1] = a /\ pc'[r] = "generate"
      BY <2>3, <1>k
    <3>2. \A e \in Emails : e = a => Alive(e)'
      BY <3>1 DEF Alive
    <3>3. \A e \in Emails : Alive(e) => Alive(e)'
      BY <2>1, <2>3, <1>k DEF Alive
    <3>4. \A e \in Emails : e # a => user'[e] = user[e]
      BY <2>3, <1>u
    <3> QED
      BY <3>2, <3>3, <3>4, <1>s, NothingWasted
  <2> QED
    BY <1>3, <1>s, <2>2, <2>3 DEF RegisterInsert
<1>4. ASSUME NEW r \in Requests, GenerateActivationCode(r) PROVE CodeNotWasted'
  <2> DEFINE a == task[r][1]
  <2>1. PICK c \in Codes :
          /\ codes' = [codes EXCEPT !["redis"][a] = c]
          /\ Goto(r, "publish", <<a, c>>)
    BY <1>4, <1>s DEF GenerateActivationCode
  <2>2. pc[r] = "generate" /\ a \in Emails /\ UNCHANGED <<user, expired>>
    BY <1>4, <1>k DEF GenerateActivationCode
  <2>3. codes'["redis"][a] = c
    BY <2>1, <2>2, <1>c DEF Stores
  <2>4. \A e \in Emails : e # a => codes'["redis"][e] = codes["redis"][e]
    BY <2>1, <2>2, <1>c DEF Stores
  <2>5. \A e \in Emails : Alive(e) => Alive(e)'
    <3> SUFFICES ASSUME NEW e \in Emails, Alive(e) PROVE Alive(e)'
      OBVIOUS
    <3>1. CASE e = a
      BY <2>3, <3>1 DEF Alive
    <3>2. CASE e # a
      BY <2>1, <2>2, <2>4, <3>2, <1>k DEF Alive
    <3> QED
      BY <3>1, <3>2
  <2> QED
    BY <2>2, <2>5, <1>s, NothingWasted
<1>5. ASSUME NEW r \in Requests, VerifyDel(r) PROVE CodeNotWasted'
  <2> DEFINE a == task[r][1]
  <2>1. /\ pc[r] = "del" /\ a \in Emails /\ UNCHANGED <<user, expired>>
        /\ codes' = [codes EXCEPT !["redis"][a] = None]
        /\ Goto(r, "update", task[r])
    BY <1>5, <1>s, <1>k DEF VerifyDel
  <2>2. task'[r][1] = a /\ pc'[r] = "update"
    BY <2>1, <1>k
  <2>3. \A e \in Emails : e # a => codes'["redis"][e] = codes["redis"][e]
    BY <2>1, <1>c DEF Stores
  <2>4. \A e \in Emails : Alive(e) => Alive(e)'
    <3> SUFFICES ASSUME NEW e \in Emails, Alive(e) PROVE Alive(e)'
      OBVIOUS
    <3>1. CASE e = a
      BY <2>2, <3>1 DEF Alive
    <3>2. CASE e # a
      BY <2>1, <2>3, <3>2, <1>k DEF Alive
    <3> QED
      BY <3>1, <3>2
  <2> QED
    BY <2>1, <2>4, <1>s, NothingWasted
<1>6. ASSUME NEW r \in Requests, ActivateUser(r) PROVE CodeNotWasted'
  <2> DEFINE a == task[r][1]
  <2>1. /\ pc[r] = "update" /\ a \in Emails /\ UNCHANGED <<codes, expired>>
        /\ Return(r)
        /\ \/ user[a] = "inactive" /\ user' = [user EXCEPT ![a] = "active"]
           \/ user[a] # "inactive" /\ UNCHANGED user
    BY <1>6, <1>s, <1>k DEF ActivateUser
  <2>2. user'[a] # "inactive" /\ \A e \in Emails : e # a => user'[e] = user[e]
    BY <2>1, <1>u
  <2>3. \A e \in Emails : e # a /\ Alive(e) => Alive(e)'
    BY <2>1, <1>k DEF Alive
  <2> QED
    BY <2>2, <2>3, <1>s, NothingWasted
<1>7. ASSUME NEW s \in Stores, NEW e \in Emails, Expire(s, e) PROVE CodeNotWasted'
  <2>1. /\ codes' = [codes EXCEPT ![s][e] = None] /\ expired' = expired \cup {e}
        /\ UNCHANGED <<user, pc, task>>
    BY <1>7 DEF Expire
  <2>2. \A f \in Emails : f # e => codes'["redis"][f] = codes["redis"][f]
    BY <2>1, <1>c DEF Stores
  <2>3. \A f \in Emails : Alive(f) => Alive(f)'
    BY <2>1, <2>2 DEF Alive
  <2> QED
    BY <2>1, <2>3, <1>s, NothingWasted
<1>8. CASE Worker \/ UNCHANGED vars
  BY <1>8, <1>2 DEF Worker, Deliver, SendMail, Ack, vars
<1>9. ASSUME NEW r \in Requests, PublishEvent(r) PROVE CodeNotWasted'
  BY <1>9, <1>1 DEF PublishEvent
<1>10. ASSUME NEW r \in Requests, NEW e \in Emails, NEW c \in Codes,
              VerifyGet(r, e, c) \/ VerifyMemory(r, e, c)
       PROVE  CodeNotWasted'
  BY <1>10, <1>1, <1>s DEF VerifyGet, VerifyMemory
<1>11. ASSUME NEW r \in Requests, NEW e \in Emails, RegisterCheck(r, e)
       PROVE  CodeNotWasted'
  BY <1>11, <1>1 DEF RegisterCheck
<1> QED
  BY <1>3, <1>4, <1>5, <1>6, <1>7, <1>8, <1>9, <1>10, <1>11, <1>s
  DEF Next, Proceed

\* With Redis and until a fault, who is inactive has a valid code, let it run
\* out, or is being served.
THEOREM CodesSurvive == Spec => []CodeNotWasted
<1> DEFINE Inv == ActivationTypeOK /\ WasteInv
<1>1. Init => Inv
  BY InitActivationTypeOK DEF Init, WasteInv, CodeNotWasted
<1>2. Inv /\ [Next]_vars => Inv'
  BY NextActivationTypeOK, NextWasteInv
<1>3. Inv => CodeNotWasted
  BY DEF WasteInv
<1> QED
  BY <1>1, <1>2, <1>3, PTL DEF Spec

=============================================================================
