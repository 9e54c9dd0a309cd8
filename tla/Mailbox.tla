------------------------------ MODULE Mailbox -------------------------------
(***************************************************************************)
(* What store-and-forward promises, with no executor, queue or rows: a     *)
(* posted message enters the mailbox it is addressed to, whole and once,   *)
(* and never leaves it; its sender is told "completed" only when it is     *)
(* there, "rejected" only when the address is no mailbox, "canceled" only  *)
(* when it is not there and, unless the hub dies, is told something.       *)
(* Delivery implements it.                                                 *)
(***************************************************************************)
EXTENDS Identity

CONSTANTS Tasks, NoOne

VARIABLES
  address, \* the recipient each message was posted to
  inbox,   \* the messages delivered to each mailbox
  told     \* what its sender knows of each message

mailboxVars == <<address, inbox, told>>

Delivered(t) == \E m \in Mailboxes : t \in inbox[m]

MailboxInit ==
  /\ address = [t \in Tasks |-> NoOne]
  /\ inbox = [m \in Mailboxes |-> {}]
  /\ told = [t \in Tasks |-> "none"]

Post(t, a) ==
  /\ told[t] = "none"
  /\ address' = [address EXCEPT ![t] = a]
  /\ told' = [told EXCEPT ![t] = "waiting"]
  /\ UNCHANGED inbox

Deliver(t) ==
  /\ told[t] = "waiting"
  /\ is_valid_identity(address[t]) /\ ~Delivered(t)
  /\ inbox' = [inbox EXCEPT ![address[t]] = @ \cup {t}]
  /\ UNCHANGED <<address, told>>

Tell(t, verdict) ==
  /\ told[t] = "waiting"
  /\ \/ verdict = "completed" /\ Delivered(t)
     \/ verdict = "rejected" /\ ~is_valid_identity(address[t])
     \/ verdict = "canceled" /\ ~Delivered(t)
  /\ told' = [told EXCEPT ![t] = verdict]
  /\ UNCHANGED <<address, inbox>>

\* The hub dies: nobody who waits will be told, what is delivered stays.
Forget ==
  /\ told' = [t \in Tasks |-> IF told[t] = "waiting" THEN "lost" ELSE told[t]]
  /\ UNCHANGED <<address, inbox>>

TellSomething(t) ==
  \E verdict \in {"completed", "rejected", "canceled"} : Tell(t, verdict)

MailboxNext ==
  \/ \E t \in Tasks, a \in Addresses : Post(t, a)
  \/ \E t \in Tasks : Deliver(t) \/ TellSomething(t)
  \/ Forget

MailboxSteps == MailboxInit /\ [][MailboxNext]_mailboxVars

MailboxSpec == MailboxSteps /\ \A t \in Tasks : WF_mailboxVars(TellSomething(t))
=============================================================================
