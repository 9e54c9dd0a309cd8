----------------------------- MODULE MarksProofs -----------------------------
(***************************************************************************)
(* MarksInv is an invariant of the marks over deliveries, for any agents,  *)
(* tasks, crashes and marks in progress, and the properties of Marks       *)
(* follow from it.  What a delivery does is cited from DeliveryProofs.     *)
(***************************************************************************)
EXTENDS Marks, DeliveryProofs

\* A delivery, a cancellation or a crash never moves a task back, readdresses it, or
\* completes one that no executor is attached to.
LEMMA TaskGoesForward ==
  ASSUME DeliveryInv, [DeliveryNext]_deliveryVars, NEW t \in Tasks, pc[t] # "new"
  PROVE  /\ pc'[t] # "new" /\ from'[t] = from[t] /\ to'[t] = to[t]
         /\ ~live[t] => ~live'[t] /\ (rows'[t] = rows[t] \/ rows'[t].state = "canceled")
<1>0. /\ DeliveryTypeOK
      /\ rows[t] # NoRow => rows[t] \in Rows
  BY DEF DeliveryInv, DeliveryTypeOK
<1>1. CASE Crash
  BY <1>0, <1>1 DEF Crash, DeliveryTypeOK
<1>2. CASE Work
  <2>1. ASSUME NEW u \in Tasks, NEW c \in Callers, NEW a \in Addresses, SendMessage(c, a, u)
        PROVE  u # t
    BY <2>1 DEF SendMessage
  <2>2. ASSUME NEW u \in Tasks, NEW c \in Callers, CancelOrphan(c, u)
        PROVE  rows'[t] = rows[t] \/ rows'[t].state = "canceled"
    <3>1. CASE u = t
      <4>1. rows[t] \in Rows
        BY <1>0, <2>2, <3>1 DEF CancelOrphan, Cancelable, get, get_from_mailbox, get_as_sender, Stored
      <4>2. QED BY <4>1, <2>2, <3>1, <1>0 DEF CancelOrphan, Rows, DeliveryTypeOK
    <3>2. CASE u # t
      BY <2>2, <3>2, <1>0 DEF CancelOrphan, DeliveryTypeOK
    <3>3. QED BY <3>1, <3>2
  <2>3. QED
    BY <1>0, <1>2, <2>1, <2>2 DEF Work, Executor, Consumer, SendMessage, EnsureTask, Reject,
       AddArtifact, Complete, SaveEvent, SaveLastEvent, Answer, CancelLive, CancelOrphan, Goto,
       DeliveryTypeOK
<1>3. CASE UNCHANGED deliveryVars
  BY <1>3 DEF deliveryVars
<1>4. QED
  BY <1>1, <1>2, <1>3 DEF DeliveryNext

\* What the mailbox check leaves true stays true, whatever the deliveries do.
LEMMA AuthorisedStays ==
  ASSUME DeliveryInv, [DeliveryNext]_deliveryVars, NEW t \in Tasks, NEW c \in Callers,
         NEW s, Authorised(t, c, s)
  PROVE  Authorised(t, c, s)'
<1>1. /\ pc'[t] # "new" /\ from'[t] = from[t] /\ to'[t] = to[t]
      /\ ~live[t] => ~live'[t] /\ (rows'[t] = rows[t] \/ rows'[t].state = "canceled")
  BY TaskGoesForward DEF Authorised
<1>2. QED
  BY <1>1 DEF Authorised, Routable

\* The mailbox check and the sender read with it authorise the mark.
LEMMA CheckAuthorises ==
  ASSUME DeliveryInv, NEW t \in Tasks, NEW c \in Callers, get_from_mailbox(c, t)
  PROVE  Authorised(t, c, sender_of(t)) /\ sender_of(t) \in Callers \cup {NoOne}
<1>1. Shape(t) /\ DeliveryTypeOK /\ Stored(t)
  BY DEF DeliveryInv, Shape, get_from_mailbox
<1>2. pc[t] # "new"
  BY <1>1 DEF Shape, CallShape
<1>3. c = from[t] \/ (Routable(t) /\ to[t] \in ReadOwners(c))
  BY GetIsRightful DEF get
<1>4. ASSUME rows[t].sender # NoOne
      PROVE  /\ rows[t].sender = from[t]
             /\ to[t] \in ReadOwners(c) \/ (~live[t] /\ rows[t].state # "completed")
  BY <1>1, <1>4 DEF Shape, RowShape, get_from_mailbox
<1>5. sender_of(t) \in Callers \cup {NoOne}
  BY <1>1, StoredRow DEF sender_of
<1>6. QED
  BY <1>2, <1>3, <1>4, <1>5 DEF Authorised, sender_of

\* With no message there is no mark.
LEMMA MarksInitInv == Init => MarksInv
<1> SUFFICES ASSUME Init PROVE MarksInv
  OBVIOUS
<1>1. DeliveryInv
  BY DeliveryInitInv DEF Init
<1>2. MarksTypeOK
  BY DEF Init, MarksTypeOK, NoMark
<1>3. \A t \in Tasks, c \in Callers : marks[t][c] = NoMark
  BY DEF Init
<1>4. QED
  BY <1>1, <1>2, <1>3 DEF Init, MarksInv

\* A delivery leaves every mark authorised; a crash ends the calls in progress.
LEMMA DeliveryKeepsMarks ==
  ASSUME MarksInv, [DeliveryNext]_deliveryVars, UNCHANGED marks, pending' \in {pending, {}}
  PROVE  MarksInv'
<1>1. DeliveryInv'
  BY DeliveryNextInv DEF MarksInv
<1>2. MarksTypeOK'
  BY DEF MarksInv, MarksTypeOK
<1>3. ASSUME NEW call \in pending PROVE Authorised(call.task, call.identity, call.mark.sender)'
  <2>1. call.task \in Tasks /\ call.identity \in Callers
    BY DEF MarksInv, MarksTypeOK, MarkCalls
  <2>2. QED
    BY <2>1, AuthorisedStays DEF MarksInv
<1>4. ASSUME NEW t \in Tasks, NEW c \in Callers, marks[t][c] # NoMark
      PROVE  Authorised(t, c, marks[t][c].sender)'
  BY <1>4, AuthorisedStays DEF MarksInv
<1>5. QED
  BY <1>1, <1>2, <1>3, <1>4 DEF MarksInv

\* The check made, the call is in progress.
LEMMA AuthoriseMarkStep ==
  ASSUME MarksInv, NEW c \in Callers, NEW t \in Tasks, NEW state \in STATES,
         AuthoriseMark(c, t, state)
  PROVE  MarksInv'
<1> DEFINE new == [task |-> t, identity |-> c, mark |-> [state |-> state, sender |-> sender_of(t)]]
<1>1. DeliveryInv'
  BY DeliveryNextInv DEF AuthoriseMark, MarksInv
<1>2. Authorised(t, c, sender_of(t)) /\ sender_of(t) \in Callers \cup {NoOne}
  BY CheckAuthorises DEF AuthoriseMark, MarksInv
<1>3. new \in MarkCalls
  BY <1>2 DEF MarkCalls, MarkRows
<1>4. pending' = pending \cup {new} /\ UNCHANGED <<deliveryVars, marks>>
  BY DEF AuthoriseMark
<1>5. MarksTypeOK'
  BY <1>3, <1>4 DEF MarksInv, MarksTypeOK
<1>6. \A u \in Tasks, d \in Callers : \A s : Authorised(u, d, s) => Authorised(u, d, s)'
  BY <1>4 DEF Authorised, Routable, deliveryVars
<1>7. ASSUME NEW call \in pending' PROVE Authorised(call.task, call.identity, call.mark.sender)'
  <2>1. Authorised(call.task, call.identity, call.mark.sender)
    BY <1>2, <1>4 DEF MarksInv
  <2>2. call.task \in Tasks /\ call.identity \in Callers
    BY <1>5 DEF MarksTypeOK, MarkCalls
  <2>3. QED BY <2>1, <2>2, <1>6
<1>8. QED
  BY <1>1, <1>4, <1>5, <1>6, <1>7 DEF MarksInv

\* The mark is written.
LEMMA WriteMarkStep ==
  ASSUME MarksInv, NEW call \in pending, WriteMark(call)
  PROVE  MarksInv'
<1>1. DeliveryInv'
  BY DeliveryNextInv DEF WriteMark, MarksInv
<1>2. /\ call.task \in Tasks /\ call.identity \in Callers /\ call.mark \in MarkRows
      /\ marks \in [Tasks -> [Callers -> MarkRows \cup {NoMark}]]
  BY DEF MarksInv, MarksTypeOK, MarkCalls
<1>3. ASSUME NEW t \in Tasks, NEW c \in Callers
      PROVE  marks'[t][c] = IF t = call.task /\ c = call.identity THEN call.mark ELSE marks[t][c]
  BY <1>2 DEF WriteMark
<1>4. MarksTypeOK'
  BY <1>2 DEF WriteMark, MarksInv, MarksTypeOK
<1>5. \A u \in Tasks, d \in Callers : \A s : Authorised(u, d, s) => Authorised(u, d, s)'
  BY DEF WriteMark, Authorised, Routable, deliveryVars
<1>6. ASSUME NEW other \in pending' PROVE Authorised(other.task, other.identity, other.mark.sender)'
  <2>1. other \in pending /\ other.task \in Tasks /\ other.identity \in Callers
    BY DEF WriteMark, MarksInv, MarksTypeOK, MarkCalls
  <2>2. QED BY <2>1, <1>5 DEF MarksInv
<1>7. ASSUME NEW t \in Tasks, NEW c \in Callers, marks'[t][c] # NoMark
      PROVE  Authorised(t, c, marks[t][c].sender)'
  <2>1. PICK s : s = marks'[t][c].sender
    OBVIOUS
  <2>2. Authorised(t, c, s)
    BY <1>3, <1>7, <2>1 DEF MarksInv
  <2>3. Authorised(t, c, s)'
    BY <2>2, <1>5
  <2>4. QED
    BY <2>1, <2>3 DEF Authorised
<1>8. QED
  BY <1>1, <1>4, <1>6, <1>7 DEF MarksInv

\* Every step of the deliveries and of the marking calls keeps the invariant.
LEMMA MarksNextInv == MarksInv /\ [Next]_vars => MarksInv'
<1> SUFFICES ASSUME MarksInv, [Next]_vars PROVE MarksInv'
  OBVIOUS
<1>1. CASE Work /\ UNCHANGED marksVars
  BY <1>1, DeliveryKeepsMarks DEF DeliveryNext, marksVars
<1>2. CASE MarksCrash
  BY <1>2, DeliveryKeepsMarks DEF DeliveryNext, MarksCrash
<1>3. ASSUME NEW c \in Callers, NEW t \in Tasks, NEW state \in STATES, AuthoriseMark(c, t, state)
      PROVE  MarksInv'
  BY <1>3, AuthoriseMarkStep
<1>4. ASSUME NEW call \in pending, WriteMark(call) PROVE MarksInv'
  BY <1>4, WriteMarkStep
<1>5. CASE UNCHANGED vars
  BY <1>5, DeliveryKeepsMarks DEF vars, marksVars
<1>6. QED
  BY <1>1, <1>2, <1>3, <1>4, <1>5 DEF Next

\* Every reachable mark, in progress or stored, is one its author may make: set_mark's
\* check holds although the write comes some awaits later.
THEOREM MarksInvariant == Spec => []MarksInv
<1>1. QED
  BY MarksInitInv, MarksNextInv, PTL DEF Spec

\* The values of the table and of the calls in progress.
THEOREM MarksTypeTheorem == Spec => []MarksTypeOK
<1>1. QED
  BY MarksInvariant, PTL DEF MarksInv

\* A mark on a delivered message was made by a reader of the addressed mailbox, or by the
\* sender before the artifact was saved.
THEOREM MarkersTheorem == Spec => []DeliveredMarksAreTheRecipients
<1>1. MarksInv => DeliveredMarksAreTheRecipients
  <2> SUFFICES ASSUME MarksInv, NEW t \in Tasks, NEW c \in Callers,
                      rows[t].state = "completed", marks[t][c] # NoMark
               PROVE  to[t] \in ReadOwners(c) \/ (c = from[t] /\ marks[t][c].sender = NoOne)
    BY DEF DeliveredMarksAreTheRecipients
  <2>1. QED
    BY DEF MarksInv, Authorised
<1>2. QED
  BY <1>1, MarksInvariant, PTL

\* A recorded sender is the message's.
LEMMA RecordedSender ==
  ASSUME MarksInv, NEW t \in Tasks, NEW i \in Callers, NEW c \in Callers, marks[t][i].sender = c
  PROVE  from[t] = c
<1>1. c # NoOne
  BY DeliveryAssumption DEF Addresses, Mailboxes
<1>2. marks[t][i] # NoMark
  BY <1>1 DEF NoMark
<1>3. QED
  BY <1>1, <1>2 DEF MarksInv, Authorised

\* Nobody but the parties of a message sees a mark on it.
THEOREM MarkReadersTheorem == Spec => []MarksReadByPartiesOnly
<1>1. MarksInv => MarksReadByPartiesOnly
  <2> SUFFICES ASSUME MarksInv, NEW t \in Tasks, NEW c \in Callers, get_mark(c, t) # {}
               PROVE  c = from[t] \/ (Routable(t) /\ to[t] \in ReadOwners(c))
    BY DEF MarksReadByPartiesOnly
  <2>1. CASE get(c, t)
    BY <2>1, GetIsRightful DEF MarksInv
  <2>2. CASE ~get(c, t)
    <3>1. PICK i \in Callers : marks[t][i].sender = c
      BY <2>2 DEF get_mark, get_marks
    <3>2. QED BY <3>1, RecordedSender
  <2>3. QED BY <2>1, <2>2
<1>2. QED
  BY <1>1, MarksInvariant, PTL

\* "What happened to what I sent" lists the caller's own messages only.
THEOREM SentByTheorem == Spec => []SentByIsOwnSends
<1>1. MarksInv => SentByIsOwnSends
  BY RecordedSender DEF SentByIsOwnSends, sent_by
<1>2. QED
  BY <1>1, MarksInvariant, PTL

\* The sender of a delivered message sees every mark on it.
THEOREM SenderSeesTheorem == Spec => []SenderSeesEveryMark
<1>1. MarksInv => SenderSeesEveryMark
  <2> SUFFICES ASSUME MarksInv, NEW t \in Tasks, rows[t].state = "completed"
               PROVE  get_mark(from[t], t) = get_marks(t)
    BY DEF SenderSeesEveryMark
  <2>1. rows[t].sender = from[t] /\ Stored(t)
    BY DEF MarksInv, DeliveryInv, RowShape, Stored, NoRow
  <2>2. get(from[t], t)
    BY <2>1 DEF get, get_as_sender
  <2>3. QED BY <2>2 DEF get_mark
<1>2. QED
  BY <1>1, MarksInvariant, PTL

\* A delivered message leaves a caller's queue only when that caller's own closing mark is
\* written: no delivery, cancellation, crash or other mark discharges it.
THEOREM DischargeTheorem == Spec => OnlyOwnMarkDischarges
<1>1. MarksInv /\ [Next]_vars =>
        [\A t \in Tasks, c \in Callers :
           rows[t].state = "completed" /\ t \in Unprocessed(c) /\ t \notin Unprocessed(c)' =>
              \E call \in pending : /\ call.task = t /\ call.identity = c
                                    /\ call.mark.state \in CLOSED_STATES]_vars
  <2> SUFFICES ASSUME MarksInv, Next, NEW t \in Tasks, NEW c \in Callers,
                      rows[t].state = "completed", t \in Unprocessed(c), t \notin Unprocessed(c)'
               PROVE  \E call \in pending : /\ call.task = t /\ call.identity = c
                                            /\ call.mark.state \in CLOSED_STATES
    OBVIOUS
  <2>1. rows'[t] = rows[t]
    <3>1. CASE UNCHANGED deliveryVars
      BY <3>1 DEF deliveryVars
    <3>2. CASE DeliveryNext
      <4>1. Settled(t)
        BY DEF Settled, Terminal
      <4>2. QED BY <4>1, <3>2, SettledStays DEF MarksInv
    <3>3. QED
      BY <3>1, <3>2 DEF Next, MarksCrash, DeliveryNext, AuthoriseMark, WriteMark
  <2>2. t \in Listed(c) /\ t \in Listed(c)'
    BY <2>1 DEF Unprocessed, Listed, get_from_mailbox, Stored
  <2>3. t \notin closed(c) /\ t \in closed(c)'
    BY <2>2 DEF Unprocessed
  <2>4. marks' # marks
    BY <2>3 DEF closed, marked_by
  <2>5. PICK call \in pending : WriteMark(call)
    BY <2>4 DEF Next, MarksCrash, AuthoriseMark, marksVars
  <2>6. /\ call.task \in Tasks /\ call.identity \in Callers
        /\ marks \in [Tasks -> [Callers -> MarkRows \cup {NoMark}]]
    BY DEF MarksInv, MarksTypeOK, MarkCalls
  <2>7. marks'[t][c] = IF t = call.task /\ c = call.identity THEN call.mark ELSE marks[t][c]
    BY <2>5, <2>6 DEF WriteMark
  <2>8. t = call.task /\ c = call.identity
    BY <2>3, <2>7 DEF closed, marked_by
  <2>9. call.mark.state \in CLOSED_STATES
    BY <2>3, <2>7, <2>8 DEF closed
  <2>10. QED BY <2>8, <2>9
<1>2. QED
  BY <1>1, MarksInvariant, PTL DEF Spec, OnlyOwnMarkDischarges
=============================================================================
