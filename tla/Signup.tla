------------------------------- MODULE Signup -------------------------------
(***************************************************************************)
(* What registration and activation promise, without requests, stores, a   *)
(* queue and a worker: an email is given one code, in its mail it finds no *)
(* other, and it becomes active once and only while that code is known.    *)
(* Codes can be lost, and are not replaced.  Module Activation is shown to *)
(* implement this.                                                         *)
(***************************************************************************)
EXTENDS Integers

CONSTANTS
  Emails,  \* those who sign up
  Codes    \* activation codes

VARIABLES
  account,   \* account[e]: "none", "new" (without a code), "inactive", "active"
  keys,      \* keys[e]: the codes of e that somebody or something knows
  posted,    \* the mails that were written
  arrived,   \* the mails that were handed over for delivery
  welcomed   \* welcomed[e]: how often e was told that it is active now

signupVars == <<account, keys, posted, arrived, welcomed>>

Init ==
  /\ account = [e \in Emails |-> "none"]
  /\ keys = [e \in Emails |-> {}]
  /\ posted = {} /\ arrived = {}
  /\ welcomed = [e \in Emails |-> 0]

Register(e) ==
  /\ account[e] = "none"
  /\ account' = [account EXCEPT ![e] = "new"]
  /\ UNCHANGED <<keys, posted, arrived, welcomed>>

Issue(e, c) ==
  /\ account[e] = "new" /\ keys[e] = {}
  /\ account' = [account EXCEPT ![e] = "inactive"]
  /\ keys' = [keys EXCEPT ![e] = {c}]
  /\ UNCHANGED <<posted, arrived, welcomed>>

Post(e, c) ==
  /\ c \in keys[e]
  /\ posted' = posted \cup {<<e, c>>}
  /\ UNCHANGED <<account, keys, arrived, welcomed>>

HandOver(m) ==
  /\ m \in posted
  /\ arrived' = arrived \cup {m}
  /\ UNCHANGED <<account, keys, posted, welcomed>>

KeysMayGo ==
  /\ keys' \in [Emails -> SUBSET Codes]
  /\ \A e \in Emails : keys'[e] \subseteq keys[e]

Activate(e) ==
  /\ account[e] = "inactive" /\ keys[e] # {}
  /\ account' = [account EXCEPT ![e] = "active"]
  /\ welcomed' = [welcomed EXCEPT ![e] = @ + 1]
  /\ KeysMayGo
  /\ UNCHANGED <<posted, arrived>>

\* Who is new among those who are left never gets a code.
Lose(left) ==
  /\ account' = [e \in Emails |-> IF e \in left /\ account[e] = "new"
                                  THEN "inactive" ELSE account[e]]
  /\ KeysMayGo
  /\ UNCHANGED <<posted, arrived, welcomed>>

Next ==
  \/ \E e \in Emails : Register(e) \/ Activate(e)
  \/ \E e \in Emails, c \in Codes : Issue(e, c) \/ Post(e, c)
  \/ \E m \in posted : HandOver(m)
  \/ \E left \in SUBSET Emails : Lose(left)

SignupSpec == Init /\ [][Next]_signupVars
=============================================================================
