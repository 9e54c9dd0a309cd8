-------------------------------- MODULE Marks --------------------------------
(***************************************************************************)
(* Message marks over the delivery of messages: the recipient of a message *)
(* records that it was processed, discarded or awaits a decision, and the  *)
(* sender may read what became of it.  Marking first asks the task store   *)
(* whether the message is in the caller's mailbox and later writes the     *)
(* mark; deliveries, cancellations, other marks and the death of the       *)
(* process come in between.                                                *)
(***************************************************************************)
EXTENDS Delivery, FiniteSets

CONSTANT MaxPending \* bound: marks authorised and not yet written

ASSUME MarksAssumption == MaxPending \in Nat

VARIABLES
  pending, \* set_mark calls between the mailbox check and the write
  marks    \* the message_marks table, one row per (task, identity)

marksVars == <<pending, marks>>
vars == <<deliveryVars, marksVars>>

STATES == {"processed", "discarded", "awaiting"}
CLOSED_STATES == {"processed", "discarded"}

MarkRows == [state : STATES, sender : Callers \cup {NoOne}]
NoMark == [state |-> "unmarked", sender |-> NoOne]
MarkCalls == [task : Tasks, identity : Callers, mark : MarkRows]

\* Mutation of sender_of: the owner of the row taken for its sender.
sender_ofOwner(t) == rows[t].owner

\* The sender the routes read from the stored artifact, NoOne before it is saved.
sender_of(t) == rows[t].sender

-----------------------------------------------------------------------------
(* Writing a mark *)

\* Mutation of AuthoriseMark: get instead of get_from_mailbox.
AuthoriseMarkByAnyReader(c, t, state) ==
  /\ get(c, t)
  /\ Cardinality(pending) < MaxPending
  /\ pending' = pending \cup
       {[task |-> t, identity |-> c, mark |-> [state |-> state, sender |-> sender_of(t)]]}
  /\ UNCHANGED <<deliveryVars, marks>>

\* A mark clean_mark accepts, on a message get_from_mailbox finds for the caller;
\* every refusal answers without changing anything.
AuthoriseMark(c, t, state) ==
  /\ get_from_mailbox(c, t)
  /\ Cardinality(pending) < MaxPending
  /\ pending' = pending \cup
       {[task |-> t, identity |-> c, mark |-> [state |-> state, sender |-> sender_of(t)]]}
  /\ UNCHANGED <<deliveryVars, marks>>

\* MessageMarks.set_mark inserts or replaces this identity's row, its sender too.
WriteMark(call) ==
  /\ pending' = pending \ {call}
  /\ marks' = [marks EXCEPT ![call.task][call.identity] = call.mark]
  /\ UNCHANGED deliveryVars

-----------------------------------------------------------------------------
(* Reading marks back *)

get_marks(t) == {c \in Callers : marks[t][c] # NoMark}

\* Mutations of get_mark: every mark to everybody; no re-reading by the sender.
get_markToAnyone(c, t) == get_marks(t)
get_markToMailbox(c, t) ==
  IF get_from_mailbox(c, t) THEN get_marks(t)
  ELSE {i \in get_marks(t) : marks[t][i].sender = c}

\* GET /marks/{task}: everything for who may read the task, otherwise only the
\* marks that record the caller as the sender.
get_mark(c, t) ==
  IF get(c, t) THEN get_marks(t) ELSE {i \in get_marks(t) : marks[t][i].sender = c}

\* GET /marks?sent=true.
sent_by(c) == {k \in Tasks \X Callers : marks[k[1]][k[2]] # NoMark /\ marks[k[1]][k[2]].sender = c}

\* What the caller has marked.
marked_by(c) == {t \in Tasks : marks[t][c] # NoMark}

\* Mutation of closed: anybody's closing mark closes the message.
closedByAnyone(c) == {t \in Tasks : \E i \in Callers : marks[t][i].state \in CLOSED_STATES}

\* GET /marks.
closed(c) == {t \in marked_by(c) : marks[t][c].state \in CLOSED_STATES}

\* What "inbox --unprocessed" keeps of the mailbox.
Unprocessed(c) == Listed(c) \ closed(c)

-----------------------------------------------------------------------------
Init ==
  /\ DeliveryInit
  /\ pending = {}
  /\ marks = [t \in Tasks |-> [c \in Callers |-> NoMark]]

\* A crash also ends the marking calls in progress; the table survives.
MarksCrash == Crash /\ pending' = {} /\ UNCHANGED marks

Next ==
  \/ Work /\ UNCHANGED marksVars
  \/ MarksCrash
  \/ \E c \in Callers, t \in Tasks, state \in STATES : AuthoriseMark(c, t, state)
  \/ \E call \in pending : WriteMark(call)

Spec == Init /\ [][Next]_vars

-----------------------------------------------------------------------------
(* Properties *)

MarksTypeOK ==
  /\ pending \subseteq MarkCalls
  /\ marks \in [Tasks -> [Callers -> MarkRows \cup {NoMark}]]

\* What the mailbox check leaves true of a message: who passed it is its sender or reads
\* the mailbox it names; a sender read then is the message's, and was read where the
\* message went unless that row is orphaned or canceled and never delivered.
Authorised(t, c, sender) ==
  /\ pc[t] # "new"
  /\ c = from[t] \/ (Routable(t) /\ to[t] \in ReadOwners(c))
  /\ sender # NoOne =>
       /\ sender = from[t]
       /\ to[t] \in ReadOwners(c) \/ (~live[t] /\ rows[t].state # "completed")

\* The inductive invariant: whatever happens between the check and the write, and after
\* it, every mark in progress and every stored mark stays one its author may make.
MarksInv ==
  /\ DeliveryInv
  /\ MarksTypeOK
  /\ \A call \in pending : Authorised(call.task, call.identity, call.mark.sender)
  /\ \A t \in Tasks, c \in Callers : marks[t][c] # NoMark => Authorised(t, c, marks[t][c].sender)

\* Whoever marks a message that was delivered is one of those it was addressed to, although
\* the mark is written some awaits after the mailbox was checked (set_mark's use of
\* get_from_mailbox, not get); but for a sender that was quicker than its own delivery,
\* whose mark records no sender and so is never listed among what became of its messages.
DeliveredMarksAreTheRecipients ==
  \A t \in Tasks, c \in Callers :
     rows[t].state = "completed" /\ marks[t][c] # NoMark =>
        to[t] \in ReadOwners(c) \/ (c = from[t] /\ marks[t][c].sender = NoOne)

\* Marks on a message can be read by its sender and by those who read the mailbox it
\* names, never by a third party probing task ids (get_mark).
MarksReadByPartiesOnly ==
  \A t \in Tasks, c \in Callers : get_mark(c, t) # {} =>
     c = from[t] \/ (Routable(t) /\ to[t] \in ReadOwners(c))

\* A mark never names a sender other than the message's, so "what happened to what I
\* sent" lists the caller's own messages only (sent_by).
SentByIsOwnSends ==
  \A c \in Callers : \A k \in sent_by(c) : from[k[1]] = c

\* The sender of a delivered message sees every mark on it, also those written before
\* the artifact was saved and so without a sender (get_mark through store.get).
SenderSeesEveryMark ==
  \A t \in Tasks : rows[t].state = "completed" => get_mark(from[t], t) = get_marks(t)

\* A delivered message leaves a caller's unprocessed queue only by that caller's own
\* closing mark: on a broadcast one session does not discharge another.
OnlyOwnMarkDischarges ==
  [][\A t \in Tasks, c \in Callers :
       rows[t].state = "completed" /\ t \in Unprocessed(c) /\ t \notin Unprocessed(c)' =>
          \E call \in pending : /\ call.task = t /\ call.identity = c
                                /\ call.mark.state \in CLOSED_STATES]_vars
=============================================================================
