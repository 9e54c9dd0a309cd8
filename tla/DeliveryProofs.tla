--------------------------- MODULE DeliveryProofs ---------------------------
(***************************************************************************)
(* DeliveryInv is an invariant of DeliverySpec for any agents, callers,    *)
(* addresses, tasks and number of crashes, and the safety properties of    *)
(* Delivery follow from it.  Then Delivery is shown to implement Mailbox.  *)
(***************************************************************************)
EXTENDS Delivery, TLAPS

Shape(t) == CallShape(t) /\ QueueShape(t) /\ RowShape(t)

\* What appending an event to a queue does to its positions.
LEMMA AppendQueue ==
  ASSUME NEW q \in Seq(Events), NEW e \in Events
  PROVE  /\ Append(q, e) \in Seq(Events)
         /\ Append(q, e) # <<>>
         /\ Len(q) \in Nat
         /\ Len(Append(q, e)) = Len(q) + 1
         /\ \A i \in 1..Len(q) : Append(q, e)[i] = q[i]
         /\ Append(q, e)[Len(q) + 1] = e
  OBVIOUS

\* What removing the first event of a queue does to its positions.
LEMMA TailQueue ==
  ASSUME NEW q \in Seq(Events), q # <<>>
  PROVE  /\ Tail(q) \in Seq(Events)
         /\ Head(q) = q[1]
         /\ Head(q) \in Events
         /\ Len(q) \in Nat
         /\ Len(q) >= 1
         /\ Len(Tail(q)) = Len(q) - 1
         /\ \A i \in 1..Len(q) - 1 : Tail(q)[i] = q[i + 1]
  OBVIOUS

\* A task none of whose fields changes keeps its shape.
LEMMA Frame ==
  ASSUME NEW u \in Tasks, Shape(u),
         pc'[u] = pc[u], from'[u] = from[u], to'[u] = to[u],
         override'[u] = override[u], queue'[u] = queue[u], live'[u] = live[u],
         rows'[u] = rows[u], receipt'[u] = receipt[u]
  PROVE  Shape(u)'
  BY DEF Shape, CallShape, QueueShape, RowShape, ArtifactBefore, RightfulOwner, Stored,
         Settled, Routable

\* A stored row is a whole row, and an empty one is not settled.
LEMMA StoredRow ==
  ASSUME DeliveryTypeOK, NEW t \in Tasks
  PROVE  /\ Stored(t) => rows[t] \in Rows
         /\ Stored(t) => rows[t].owner \in Mailboxes /\ rows[t].state \in Terminal \cup {"submitted"}
         /\ Settled(t) => Stored(t)
         /\ ~Stored(t) => rows[t].sender = NoOne
         /\ rows[t].sender \in Callers \cup {NoOne}
  BY DEF DeliveryTypeOK, Stored, Settled, Rows, NoRow, Terminal

\* The empty hub satisfies the invariant.
LEMMA DeliveryInitInv == DeliveryInit => DeliveryInv
<1> SUFFICES ASSUME DeliveryInit PROVE DeliveryInv
  OBVIOUS
<1>1. DeliveryTypeOK
  BY DeliveryAssumption DEF DeliveryInit, DeliveryTypeOK
<1>2. ASSUME NEW t \in Tasks PROVE CallShape(t) /\ QueueShape(t) /\ RowShape(t)
  BY <1>2 DEF DeliveryInit, CallShape, QueueShape, RowShape, ArtifactBefore, RightfulOwner,
     Stored, Settled, Routable, NoRow, Terminal
<1>3. QED
  BY <1>1, <1>2 DEF DeliveryInv

\* A new SendMessage starts from nothing.
LEMMA SendMessageStep ==
  ASSUME DeliveryInv, NEW t \in Tasks, NEW c \in Callers, NEW a \in Addresses,
         SendMessage(c, a, t)
  PROVE  DeliveryInv'
<1>1. DeliveryTypeOK'
  BY DEF DeliveryInv, DeliveryTypeOK, SendMessage
<1>2. ASSUME NEW u \in Tasks PROVE Shape(u)'
  <2>1. CASE u # t
    BY <2>1, Frame DEF DeliveryInv, DeliveryTypeOK, Shape, SendMessage
  <2>2. CASE u = t
    BY <2>2, StoredRow, DeliveryAssumption DEF DeliveryInv, DeliveryTypeOK, Shape, SendMessage, CallShape,
       QueueShape, RowShape, ArtifactBefore, RightfulOwner, Stored, Settled, Routable,
       NoRow, Terminal
  <2>3. QED BY <2>1, <2>2
<1>3. QED
  BY <1>1, <1>2 DEF DeliveryInv, Shape

\* Enqueueing the SUBMITTED task.
LEMMA EnsureTaskStep ==
  ASSUME DeliveryInv, NEW t \in Tasks, EnsureTask(t)
  PROVE  DeliveryInv'
<1> USE DEF EnsureTask, Goto, Emit
<1>0. "submitted" \in Events /\ queue[t] \in Seq(Events)
  BY DEF DeliveryInv, DeliveryTypeOK, Events
<1>1. DeliveryTypeOK'
  BY <1>0, AppendQueue DEF DeliveryInv, DeliveryTypeOK
<1>2. ASSUME NEW u \in Tasks PROVE Shape(u)'
  <2>1. CASE u # t
    BY <2>1, Frame DEF DeliveryInv, DeliveryTypeOK, Shape
  <2>2. CASE u = t
    <3>1. live[t] /\ pc[t] = "start" /\ pc'[t] = "validate" /\ queue[t] = <<>> /\ ~Stored(t)
      BY DEF DeliveryInv, DeliveryTypeOK, CallShape
    <3>2. queue'[t] = Append(queue[t], "submitted") /\ Len(queue[t]) = 0
      BY <3>1 DEF DeliveryInv, DeliveryTypeOK
    <3>3. queue'[t] # <<>> /\ Len(queue'[t]) = 1 /\ queue'[t][1] = "submitted"
      BY <3>2, <1>0, AppendQueue
    <3>4. Shape(t)
      BY DEF DeliveryInv, Shape
    <3>5. CallShape(t)'
      BY <3>1, <3>3, <3>4 DEF Shape, CallShape, Stored, Settled, Routable
    <3>6. QueueShape(t)'
      BY <3>1, <3>3, <3>4 DEF Shape, QueueShape, Stored
    <3>7. RowShape(t)'
      BY <3>1, <3>4 DEF Shape, RowShape, RightfulOwner, Stored, Routable
    <3>8. QED
      BY <2>2, <3>5, <3>6, <3>7 DEF Shape
  <2>3. QED BY <2>1, <2>2
<1>3. QED
  BY <1>1, <1>2 DEF DeliveryInv, Shape

\* What enqueueing an event keeps of the shape of a queue; the conditions are the
\* ones QueueShape puts on the new event.
LEMMA EmitShape ==
  ASSUME DeliveryTypeOK, NEW t \in Tasks, QueueShape(t), NEW e \in Events, Emit(t, e),
         live[t], UNCHANGED <<from, to, live, rows>>,
         queue[t] # <<>> \/ Stored(t),
         e # "submitted",
         override[t] = to[t] => override'[t] = to[t],
         e \in {"artifact", "completed"} => override'[t] = to[t] /\ Routable(t),
         e = "rejected" => ~Routable(t),
         e = "completed" => ArtifactBefore(t, Len(queue[t]) + 1)
  PROVE  /\ QueueShape(t)'
         /\ queue'[t] # <<>>
         /\ queue'[t] \in Seq(Events)
         /\ e = "artifact" => ArtifactBefore(t, Len(queue[t]) + 1)'
<1> DEFINE q == queue[t]
<1>1. q \in Seq(Events) /\ queue'[t] = Append(q, e)
  BY DEF DeliveryTypeOK, Emit
<1>2. /\ Len(q) \in Nat
      /\ Len(queue'[t]) = Len(q) + 1
      /\ queue'[t] # <<>>
      /\ queue'[t] \in Seq(Events)
      /\ \A i \in 1..Len(q) : queue'[t][i] = q[i]
      /\ queue'[t][Len(q) + 1] = e
  BY <1>1, AppendQueue
<1>3. \A n \in 1..Len(q) + 1 : ArtifactBefore(t, n) => ArtifactBefore(t, n)'
  BY <1>2 DEF ArtifactBefore
<1>4. e = "artifact" => ArtifactBefore(t, Len(queue[t]) + 1)'
  BY <1>2 DEF ArtifactBefore
<1>5. QueueShape(t)'
  <2>1. ASSUME NEW i \in 1..Len(queue'[t])
        PROVE  /\ queue'[t][i] = "submitted" => i = 1 /\ ~Stored(t)
               /\ queue'[t][i] \in {"artifact", "completed"} => override'[t] = to[t] /\ Routable(t)
               /\ queue'[t][i] = "rejected" => ~Routable(t)
               /\ queue'[t][i] = "completed" => ArtifactBefore(t, i)'
    <3>1. CASE i \in 1..Len(q)
      BY <3>1, <1>2, <1>3 DEF QueueShape
    <3>2. CASE i = Len(q) + 1
      BY <3>2, <1>2, <1>3
    <3>3. QED BY <3>1, <3>2, <1>2
  <2>2. queue'[t] # <<>> /\ ~Stored(t) => queue'[t][1] = "submitted"
    <3>1. SUFFICES ASSUME ~Stored(t) PROVE queue'[t][1] = "submitted"
      OBVIOUS
    <3>2. q # <<>> /\ q[1] = "submitted"
      BY <3>1 DEF QueueShape
    <3>3. 1 \in 1..Len(q)
      BY <3>2, <1>1, TailQueue
    <3>4. QED BY <3>2, <3>3, <1>2
  <2>3. Stored(t)' = Stored(t) /\ Routable(t)' = Routable(t) /\ live'[t]
    BY DEF Stored, Routable
  <2>4. QED BY <2>1, <2>2, <2>3 DEF QueueShape
<1>6. QED
  BY <1>2, <1>3, <1>4, <1>5

\* Refusing a bad address.
LEMMA RejectStep ==
  ASSUME DeliveryInv, NEW t \in Tasks, Reject(t)
  PROVE  DeliveryInv'
<1> USE DEF Reject, Goto
<1>0. "rejected" \in Events /\ queue[t] \in Seq(Events) /\ Shape(t) /\ DeliveryTypeOK
  BY DEF DeliveryInv, DeliveryTypeOK, Events, Terminal, Shape
<1>1. queue[t] # <<>> \/ Stored(t)
  BY <1>0 DEF Shape, CallShape
<1>2. QueueShape(t)' /\ queue'[t] # <<>> /\ queue'[t] \in Seq(Events)
  BY <1>0, <1>1, EmitShape DEF Shape
<1>3. DeliveryTypeOK'
  BY <1>0, <1>2 DEF DeliveryTypeOK, Emit
<1>4. ASSUME NEW u \in Tasks PROVE Shape(u)'
  <2>1. CASE u # t
    BY <2>1, Frame DEF DeliveryInv, DeliveryTypeOK, Shape, Emit
  <2>2. CASE u = t
    <3>1. pc'[t] = "done"
      BY <1>0 DEF DeliveryTypeOK
    <3>2. CallShape(t)'
      BY <3>1, <1>0 DEF Shape, CallShape, Stored, Settled, Routable
    <3>3. RowShape(t)'
      BY <1>0 DEF Shape, RowShape, RightfulOwner, Stored, Routable
    <3>4. QED BY <2>2, <1>2, <3>2, <3>3 DEF Shape
  <2>3. QED BY <2>1, <2>2
<1>5. QED
  BY <1>3, <1>4 DEF DeliveryInv, Shape

\* Routing the message and enqueueing its content.
LEMMA AddArtifactStep ==
  ASSUME DeliveryInv, NEW t \in Tasks, AddArtifact(t)
  PROVE  DeliveryInv'
<1> USE DEF AddArtifact, Goto
<1>0. "artifact" \in Events /\ queue[t] \in Seq(Events) /\ Shape(t) /\ DeliveryTypeOK
  BY DEF DeliveryInv, DeliveryTypeOK, Events, Terminal, Shape
<1>1. queue[t] # <<>> \/ Stored(t)
  BY <1>0 DEF Shape, CallShape
<1>2. override'[t] = to[t] /\ to[t] \in Mailboxes
  BY <1>0 DEF DeliveryTypeOK, Routable, is_valid_identity
<1>3. /\ QueueShape(t)' /\ queue'[t] # <<>> /\ queue'[t] \in Seq(Events)
      /\ ArtifactBefore(t, Len(queue[t]) + 1)'
  BY <1>0, <1>1, <1>2, EmitShape DEF Shape
<1>4. DeliveryTypeOK'
  BY <1>0, <1>2, <1>3 DEF DeliveryTypeOK, Emit
<1>5. ASSUME NEW u \in Tasks PROVE Shape(u)'
  <2>1. CASE u # t
    BY <2>1, Frame DEF DeliveryInv, DeliveryTypeOK, Shape, Emit
  <2>2. CASE u = t
    <3>1. pc'[t] = "routed"
      BY <1>0 DEF DeliveryTypeOK
    <3>2. CallShape(t)'
      BY <3>1, <1>0, <1>2, <1>3 DEF Shape, CallShape, Stored, Settled, Routable
    <3>3. RowShape(t)'
      BY <1>0, <1>2 DEF Shape, RowShape, CallShape, RightfulOwner, Stored, Routable
    <3>4. QED BY <2>2, <1>3, <3>2, <3>3 DEF Shape
  <2>3. QED BY <2>1, <2>2
<1>6. QED
  BY <1>4, <1>5 DEF DeliveryInv, Shape

\* Enqueueing the completion.
LEMMA CompleteStep ==
  ASSUME DeliveryInv, NEW t \in Tasks, Complete(t)
  PROVE  DeliveryInv'
<1> USE DEF Complete, Goto
<1>0. "completed" \in Events /\ queue[t] \in Seq(Events) /\ Shape(t) /\ DeliveryTypeOK
  BY DEF DeliveryInv, DeliveryTypeOK, Events, Terminal, Shape
<1>1. /\ queue[t] # <<>> \/ Stored(t)
      /\ override[t] = to[t] /\ ArtifactBefore(t, Len(queue[t]) + 1)
      /\ to[t] \in Addresses
  BY <1>0 DEF Shape, CallShape
<1>2. Routable(t)
  BY <1>0, <1>1, DeliveryAssumption DEF Shape, CallShape
<1>3. QueueShape(t)' /\ queue'[t] # <<>> /\ queue'[t] \in Seq(Events)
  BY <1>0, <1>1, <1>2, EmitShape DEF Shape
<1>4. DeliveryTypeOK'
  BY <1>0, <1>3 DEF DeliveryTypeOK, Emit
<1>5. ASSUME NEW u \in Tasks PROVE Shape(u)'
  <2>1. CASE u # t
    BY <2>1, Frame DEF DeliveryInv, DeliveryTypeOK, Shape, Emit
  <2>2. CASE u = t
    <3>1. pc'[t] = "done"
      BY <1>0 DEF DeliveryTypeOK
    <3>2. CallShape(t)'
      BY <3>1, <1>0 DEF Shape, CallShape, Stored, Settled, Routable
    <3>3. RowShape(t)'
      BY <1>0 DEF Shape, RowShape, RightfulOwner, Stored, Routable
    <3>4. QED BY <2>2, <1>3, <3>2, <3>3 DEF Shape
  <2>3. QED BY <2>1, <2>2
<1>6. QED
  BY <1>4, <1>5 DEF DeliveryInv, Shape

\* A cancellation joining a running delivery.
LEMMA CancelLiveStep ==
  ASSUME DeliveryInv, NEW t \in Tasks, NEW c \in Callers, CancelLive(c, t)
  PROVE  DeliveryInv'
<1> USE DEF CancelLive
<1>0. "canceled" \in Events /\ queue[t] \in Seq(Events) /\ Shape(t) /\ DeliveryTypeOK
  BY DEF DeliveryInv, DeliveryTypeOK, Events, Terminal, Shape
<1>1. Stored(t)
  BY DEF Cancelable, get, get_from_mailbox, get_as_sender
<1>2. QueueShape(t)' /\ queue'[t] # <<>> /\ queue'[t] \in Seq(Events)
  BY <1>0, <1>1, EmitShape DEF Shape
<1>3. DeliveryTypeOK'
  BY <1>0, <1>2 DEF DeliveryTypeOK, Emit
<1>4. ASSUME NEW u \in Tasks PROVE Shape(u)'
  <2>1. CASE u # t
    BY <2>1, Frame DEF DeliveryInv, DeliveryTypeOK, Shape, Emit
  <2>2. CASE u = t
    <3>1. pc'[t] = pc[t] \/ pc'[t] = "done"
      BY <1>0 DEF DeliveryTypeOK
    <3>2. ArtifactBefore(t, Len(queue[t]) + 1) => ArtifactBefore(t, Len(queue[t]) + 1)'
      <4>1. queue'[t] = Append(queue[t], "canceled")
        BY <1>0 DEF DeliveryTypeOK, Emit
      <4>2. /\ Len(queue[t]) \in Nat /\ Len(queue'[t]) = Len(queue[t]) + 1
            /\ \A i \in 1..Len(queue[t]) : queue'[t][i] = queue[t][i]
        BY <4>1, <1>0, AppendQueue
      <4>3. QED BY <4>2 DEF ArtifactBefore
    <3>3. CallShape(t)'
      BY <3>1, <3>2, <1>0, <1>1, <1>2 DEF Shape, CallShape, Stored, Settled, Routable
    <3>4. RowShape(t)'
      BY <1>0 DEF Shape, RowShape, RightfulOwner, Stored, Routable
    <3>5. QED BY <2>2, <1>2, <3>3, <3>4 DEF Shape
  <2>3. QED BY <2>1, <2>2
<1>5. QED
  BY <1>3, <1>4 DEF DeliveryInv, Shape

\* The event a running consumer saves next: the resolver's owner is rightful, and
\* the row it makes is a whole one.
LEMMA NextEvent ==
  ASSUME DeliveryTypeOK, NEW t \in Tasks, Shape(t), live[t], queue[t] # <<>>
  PROVE  /\ Head(queue[t]) = queue[t][1] /\ Head(queue[t]) \in Events
         /\ Head(queue[t]) # "submitted" => Stored(t) /\ rows[t].state = "submitted"
         /\ pc[t] # "new" /\ from[t] \in Callers /\ to[t] \in Addresses
         /\ hub_owner_resolver(t) \in Mailboxes
         /\ hub_owner_resolver(t) = from[t] \/ (hub_owner_resolver(t) = to[t] /\ Routable(t))
         /\ Merge(t, Head(queue[t])) \in Rows
<1>1. /\ queue[t] \in Seq(Events) /\ Len(queue[t]) >= 1 /\ Len(queue[t]) \in Nat
      /\ Head(queue[t]) = queue[t][1] /\ Head(queue[t]) \in Events
  BY TailQueue DEF DeliveryTypeOK
<1>2. Head(queue[t]) # "submitted" => Stored(t)
  BY <1>1 DEF Shape, QueueShape
<1>3. Stored(t) => rows[t].state = "submitted"
  BY StoredRow DEF Shape, CallShape, Settled
<1>4. pc[t] # "new" /\ from[t] \in Callers /\ to[t] \in Addresses
  BY DEF Shape, CallShape
<1>5. /\ hub_owner_resolver(t) \in Mailboxes
      /\ hub_owner_resolver(t) = from[t] \/ (hub_owner_resolver(t) = to[t] /\ Routable(t))
  BY <1>4 DEF Shape, CallShape, hub_owner_resolver, Mailboxes, Routable, is_valid_identity
<1>6. Merge(t, Head(queue[t])) \in Rows
  <2>1. rows[t].sender \in Callers \cup {NoOne}
    BY StoredRow
  <2>2. (IF Head(queue[t]) = "artifact" THEN rows[t].state ELSE Head(queue[t]))
          \in Terminal \cup {"submitted"}
    BY <1>1, <1>2, <1>3 DEF Events
  <2>3. QED BY <1>4, <1>5, <2>1, <2>2 DEF Merge, Rows
<1>7. QED
  BY <1>1, <1>2, <1>3, <1>4, <1>5, <1>6

\* Saving an event that is not the last.
LEMMA SaveEventStep ==
  ASSUME DeliveryInv, NEW t \in Tasks, SaveEvent(t)
  PROVE  DeliveryInv'
<1> USE DEF SaveEvent
<1> DEFINE e == Head(queue[t])
<1>0. Shape(t) /\ DeliveryTypeOK /\ queue[t] \in Seq(Events) /\ live[t] /\ queue[t] # <<>>
  BY DEF DeliveryInv, DeliveryTypeOK, Shape
<1>1. /\ e = queue[t][1] /\ e \in {"submitted", "artifact"}
      /\ e # "submitted" => Stored(t) /\ rows[t].state = "submitted"
      /\ from[t] \in Callers /\ to[t] \in Addresses /\ pc[t] # "new"
      /\ hub_owner_resolver(t) = from[t] \/ (hub_owner_resolver(t) = to[t] /\ Routable(t))
      /\ Merge(t, e) \in Rows
  BY <1>0, NextEvent DEF Events
<1>2. /\ queue'[t] = Tail(queue[t]) /\ rows'[t] = Merge(t, e)
      /\ Len(queue[t]) \in Nat /\ Len(queue[t]) >= 1
      /\ queue'[t] \in Seq(Events) /\ Len(queue'[t]) = Len(queue[t]) - 1
      /\ \A i \in 1..Len(queue[t]) - 1 : queue'[t][i] = queue[t][i + 1]
  BY <1>0, TailQueue DEF DeliveryTypeOK
<1>3. DeliveryTypeOK'
  BY <1>0, <1>1, <1>2 DEF DeliveryTypeOK
<1>4. ASSUME NEW u \in Tasks PROVE Shape(u)'
  <2>1. CASE u # t
    BY <2>1, Frame DEF DeliveryInv, DeliveryTypeOK, Shape
  <2>2. CASE u = t
    <3>1. Stored(t)' /\ rows'[t].state = "submitted" /\ ~Settled(t)'
      BY <1>1, <1>2 DEF Stored, Settled, NoRow, Merge, Rows, Terminal
    <3>2. rows'[t].owner = hub_owner_resolver(t)
      BY <1>2 DEF Merge
    <3>3. /\ e = "artifact" => rows'[t].sender = from[t] /\ override[t] = to[t] /\ Routable(t)
          /\ e = "submitted" => rows'[t].sender = NoOne /\ rows[t].sender = NoOne
      <4>1. 1 \in 1..Len(queue[t])
        BY <1>2
      <4>2. e = "submitted" => ~Stored(t)
        BY <4>1, <1>0, <1>1 DEF Shape, QueueShape
      <4>3. e = "artifact" => override[t] = to[t] /\ Routable(t)
        BY <4>1, <1>0, <1>1 DEF Shape, QueueShape
      <4>4. QED BY <4>2, <4>3, <1>2, <1>0, StoredRow DEF Merge
    <3>4. override[t] = to[t] => hub_owner_resolver(t) = to[t]
      BY <1>1, DeliveryAssumption DEF hub_owner_resolver
    <3>5. ASSUME NEW n \in Nat, ArtifactBefore(t, n + 1), n <= Len(queue[t])
          PROVE  ArtifactBefore(t, n)'
      <4>1. CASE e = "artifact"
        BY <4>1, <3>3 DEF ArtifactBefore
      <4>2. CASE e = "submitted"
        <5>1. rows[t].sender # from[t]
          BY <4>2, <3>3, <1>1, DeliveryAssumption DEF Addresses, Mailboxes
        <5>2. PICK i \in 1..Len(queue[t]) : i < n + 1 /\ queue[t][i] = "artifact"
          BY <3>5, <5>1 DEF ArtifactBefore
        <5>3. i # 1
          BY <5>2, <4>2, <1>1
        <5>4. i - 1 \in 1..Len(queue[t]) - 1 /\ (i - 1) + 1 = i /\ i - 1 < n
          BY <5>2, <5>3, <1>2, <3>5
        <5>5. i - 1 \in 1..Len(queue'[t]) /\ queue'[t][i - 1] = "artifact"
          BY <5>2, <5>4, <1>2
        <5>6. QED BY <5>4, <5>5 DEF ArtifactBefore
      <4>3. QED BY <4>1, <4>2, <1>1
    <3>6. CallShape(t)'
      <4>1. pc[t] = "routed" => ArtifactBefore(t, Len(queue[t]) + 1)'
        <5>1. SUFFICES ASSUME pc[t] = "routed" PROVE ArtifactBefore(t, Len(queue[t]) + 1)'
          OBVIOUS
        <5>2. ArtifactBefore(t, Len(queue[t]) + 1)
          BY <5>1, <1>0 DEF Shape, CallShape
        <5>3. PICK n \in Nat : n = Len(queue[t]) /\ n = Len(queue'[t]) + 1
          BY <1>2
        <5>4. ArtifactBefore(t, n)'
          BY <5>2, <5>3, <3>5
        <5>5. QED BY <5>3, <5>4
      <4>2. pc[t] # "start"
        BY <1>0 DEF Shape, CallShape
      <4>3. QED BY <4>1, <4>2, <3>1, <1>0, <1>1 DEF Shape, CallShape, Routable
    <3>7. QueueShape(t)'
      <4>1. ASSUME NEW i \in 1..Len(queue'[t])
            PROVE  /\ queue'[t][i] # "submitted"
                   /\ queue'[t][i] \in {"artifact", "completed"} => override[t] = to[t] /\ Routable(t)
                   /\ queue'[t][i] = "rejected" => ~Routable(t)
                   /\ queue'[t][i] = "completed" => ArtifactBefore(t, i)'
        <5>1. /\ i \in Nat /\ i + 1 \in 1..Len(queue[t]) /\ i + 1 # 1
              /\ i <= Len(queue[t]) /\ queue'[t][i] = queue[t][i + 1]
          BY <1>2
        <5>2. QED BY <5>1, <3>5, <1>0 DEF Shape, QueueShape
      <4>2. QED BY <4>1, <3>1, <1>0 DEF QueueShape, Routable
    <3>8. RowShape(t)'
      <4>1. Shape(t)
        BY <1>0
      <4>2. QED
        BY <4>1, <3>1, <3>2, <3>3, <3>4, <1>1 DEF Shape, CallShape, RowShape, RightfulOwner, Routable, Terminal
    <3>9. QED BY <2>2, <3>6, <3>7, <3>8 DEF Shape
  <2>3. QED BY <2>1, <2>2
<1>5. QED
  BY <1>3, <1>4 DEF DeliveryInv, Shape

\* Saving the terminal event: the call is over.
LEMMA SaveLastEventStep ==
  ASSUME DeliveryInv, NEW t \in Tasks, SaveLastEvent(t)
  PROVE  DeliveryInv'
<1> USE DEF SaveLastEvent
<1> DEFINE e == Head(queue[t])
<1>0. Shape(t) /\ DeliveryTypeOK /\ queue[t] \in Seq(Events) /\ live[t] /\ queue[t] # <<>>
  BY DEF DeliveryInv, DeliveryTypeOK, Shape
<1>1. /\ e = queue[t][1] /\ e \in Terminal /\ e # "submitted" /\ e # "artifact"
      /\ Stored(t) /\ rows[t].state = "submitted"
      /\ from[t] \in Callers /\ to[t] \in Addresses /\ pc[t] # "new"
      /\ hub_owner_resolver(t) = from[t] \/ (hub_owner_resolver(t) = to[t] /\ Routable(t))
      /\ Merge(t, e) \in Rows
  BY <1>0, NextEvent DEF Terminal
<1>2. queue'[t] = <<>> /\ rows'[t] = Merge(t, e) /\ ~live'[t]
  BY <1>0 DEF DeliveryTypeOK
<1>3. DeliveryTypeOK'
  BY <1>0, <1>1 DEF DeliveryTypeOK
<1>4. ASSUME NEW u \in Tasks PROVE Shape(u)'
  <2>1. CASE u # t
    BY <2>1, Frame DEF DeliveryInv, DeliveryTypeOK, Shape
  <2>2. CASE u = t
    <3>1. /\ rows'[t].owner = hub_owner_resolver(t) /\ rows'[t].state = e
          /\ rows'[t].sender = rows[t].sender
      BY <1>1, <1>2 DEF Merge
    <3>2. e = "completed" => rows[t].sender = from[t] /\ override[t] = to[t] /\ Routable(t)
      <4>1. SUFFICES ASSUME e = "completed"
                     PROVE  rows[t].sender = from[t] /\ override[t] = to[t] /\ Routable(t)
        OBVIOUS
      <4>2. 1 \in 1..Len(queue[t])
        BY <1>0, TailQueue
      <4>3. override[t] = to[t] /\ Routable(t) /\ ArtifactBefore(t, 1)
        BY <4>1, <4>2, <1>0, <1>1 DEF Shape, QueueShape
      <4>4. QED BY <4>3 DEF ArtifactBefore
    <3>3. e = "rejected" => ~Routable(t)
      <4>1. 1 \in 1..Len(queue[t])
        BY <1>0, TailQueue
      <4>2. QED BY <4>1, <1>0, <1>1 DEF Shape, QueueShape
    <3>4. override[t] = to[t] => hub_owner_resolver(t) = to[t]
      BY <1>1, DeliveryAssumption DEF hub_owner_resolver
    <3>5. CallShape(t)'
      BY <1>0, <1>1, <1>2 DEF Shape, CallShape, Routable
    <3>6. QueueShape(t)'
      BY <1>2 DEF QueueShape
    <3>7. RowShape(t)'
      BY <3>1, <3>2, <3>3, <3>4, <1>0, <1>1, <1>2
         DEF Shape, CallShape, RowShape, RightfulOwner, Routable, Terminal
    <3>8. QED BY <2>2, <3>5, <3>6, <3>7 DEF Shape
  <2>3. QED BY <2>1, <2>2
<1>5. QED
  BY <1>3, <1>4 DEF DeliveryInv, Shape

\* Answering the sender.
LEMMA AnswerStep ==
  ASSUME DeliveryInv, NEW t \in Tasks, Answer(t)
  PROVE  DeliveryInv'
<1> USE DEF Answer
<1>0. Shape(t) /\ DeliveryTypeOK /\ receipt'[t] = rows[t].state /\ rows[t].state \in Terminal
  BY DEF DeliveryInv, DeliveryTypeOK, Shape, Settled
<1>1. DeliveryTypeOK'
  BY <1>0 DEF DeliveryTypeOK
<1>2. ASSUME NEW u \in Tasks PROVE Shape(u)'
  <2>1. CASE u # t
    BY <2>1, Frame DEF DeliveryInv, DeliveryTypeOK, Shape
  <2>2. CASE u = t
    <3>1. ~live[t] /\ Stored(t)
      BY <1>0, StoredRow DEF Shape, CallShape
    <3>2. CallShape(t)'
      BY <3>1, <1>0 DEF Shape, CallShape, Stored, Routable
    <3>3. QueueShape(t)'
      BY <3>1, <1>0 DEF Shape, QueueShape
    <3>4. RowShape(t)'
      BY <1>0 DEF Shape, RowShape, RightfulOwner, Stored, Routable
    <3>5. QED BY <2>2, <3>2, <3>3, <3>4 DEF Shape
  <2>3. QED BY <2>1, <2>2
<1>3. QED
  BY <1>1, <1>2 DEF DeliveryInv, Shape

\* A caller who may fetch a task is its sender or reads the mailbox it names.
LEMMA GetIsRightful ==
  ASSUME DeliveryInv, NEW t \in Tasks, NEW c \in Callers, get(c, t)
  PROVE  c = from[t] \/ (Routable(t) /\ to[t] \in ReadOwners(c))
<1>0. Shape(t) /\ DeliveryTypeOK /\ Stored(t)
  BY DEF DeliveryInv, Shape, get, get_from_mailbox, get_as_sender
<1>1. from[t] \in Callers
  BY <1>0 DEF Shape, CallShape
<1>2. ASSUME NEW m \in Callers, m \in ReadOwners(c) PROVE m = c
  BY <1>2, IdentityAssumption DEF ReadOwners, principal_of
<1>3. CASE get_as_sender(c, t)
  BY <1>0, <1>3, DeliveryAssumption DEF Shape, RowShape, get_as_sender, Addresses, Mailboxes
<1>4. CASE get_from_mailbox(c, t)
  BY <1>0, <1>1, <1>2, <1>4 DEF Shape, RowShape, RightfulOwner, get_from_mailbox
<1>5. QED BY <1>3, <1>4 DEF get

\* Cancelling a task nobody delivers any more.
LEMMA CancelOrphanStep ==
  ASSUME DeliveryInv, NEW t \in Tasks, NEW c \in Callers, CancelOrphan(c, t)
  PROVE  DeliveryInv'
<1> USE DEF CancelOrphan
<1>0. Shape(t) /\ DeliveryTypeOK /\ Stored(t) /\ ~Settled(t) /\ ~live[t] /\ rows[t] \in Rows
  BY StoredRow DEF DeliveryInv, DeliveryTypeOK, Shape, Cancelable, get, get_from_mailbox,
     get_as_sender
<1>1. /\ rows'[t] = [owner |-> c, state |-> "canceled", sender |-> rows[t].sender]
      /\ rows'[t] \in Rows
  BY <1>0 DEF DeliveryTypeOK, Rows, Mailboxes, Terminal
<1>2. DeliveryTypeOK'
  BY <1>0, <1>1 DEF DeliveryTypeOK
<1>3. c = from[t] \/ (Routable(t) /\ to[t] \in ReadOwners(c))
  BY GetIsRightful DEF Cancelable
<1>4. ASSUME NEW u \in Tasks PROVE Shape(u)'
  <2>1. CASE u # t
    BY <2>1, Frame DEF DeliveryInv, DeliveryTypeOK, Shape
  <2>2. CASE u = t
    <3>1. receipt[t] \notin Terminal
      BY <1>0 DEF Shape, RowShape, Settled
    <3>2. CallShape(t)'
      BY <1>0 DEF Shape, CallShape, Routable
    <3>3. QueueShape(t)'
      BY <1>0 DEF Shape, QueueShape
    <3>4. RowShape(t)'
      BY <1>0, <1>1, <1>3, <3>1 DEF Shape, RowShape, RightfulOwner, Routable
    <3>5. QED BY <2>2, <3>2, <3>3, <3>4 DEF Shape
  <2>3. QED BY <2>1, <2>2
<1>5. QED
  BY <1>2, <1>4 DEF DeliveryInv, Shape

\* The death of the process.
LEMMA CrashStep ==
  ASSUME DeliveryInv, Crash
  PROVE  DeliveryInv'
<1> USE DEF Crash
<1>1. DeliveryTypeOK'
  BY DeliveryAssumption DEF DeliveryInv, DeliveryTypeOK
<1>2. ASSUME NEW t \in Tasks PROVE Shape(t)'
  <2>0. Shape(t) /\ DeliveryTypeOK
    BY DEF DeliveryInv, Shape
  <2>1. /\ pc'[t] = (IF pc[t] = "new" THEN "new" ELSE "done") /\ override'[t] = NoOne
        /\ queue'[t] = <<>> /\ ~live'[t]
        /\ receipt'[t] = (IF receipt[t] = "waiting" THEN "lost" ELSE receipt[t])
    OBVIOUS
  <2>2. CallShape(t)'
    BY <2>0, <2>1 DEF Shape, CallShape, Stored
  <2>3. QueueShape(t)'
    BY <2>1 DEF QueueShape
  <2>4. RowShape(t)'
    BY <2>0, <2>1 DEF Shape, RowShape, RightfulOwner, Stored, Routable, Terminal
  <2>5. QED BY <2>2, <2>3, <2>4 DEF Shape
<1>3. QED
  BY <1>1, <1>2 DEF DeliveryInv, Shape

\* Every step of the running process or its death keeps the invariant.
LEMMA DeliveryNextInv == DeliveryInv /\ [DeliveryNext]_deliveryVars => DeliveryInv'
<1> SUFFICES ASSUME DeliveryInv, [DeliveryNext]_deliveryVars PROVE DeliveryInv'
  OBVIOUS
<1>1. CASE Crash
  BY <1>1, CrashStep
<1>2. ASSUME NEW t \in Tasks, NEW c \in Callers, NEW a \in Addresses, SendMessage(c, a, t)
      PROVE  DeliveryInv'
  BY <1>2, SendMessageStep
<1>3. ASSUME NEW t \in Tasks, Executor(t) PROVE DeliveryInv'
  BY <1>3, EnsureTaskStep, RejectStep, AddArtifactStep, CompleteStep DEF Executor
<1>4. ASSUME NEW t \in Tasks, Consumer(t) PROVE DeliveryInv'
  BY <1>4, SaveEventStep, SaveLastEventStep DEF Consumer
<1>5. ASSUME NEW t \in Tasks, Answer(t) PROVE DeliveryInv'
  BY <1>5, AnswerStep
<1>6. ASSUME NEW t \in Tasks, NEW c \in Callers, CancelLive(c, t) \/ CancelOrphan(c, t)
      PROVE  DeliveryInv'
  BY <1>6, CancelLiveStep, CancelOrphanStep
<1>7. CASE UNCHANGED deliveryVars
  <2>1. DeliveryTypeOK'
    BY <1>7 DEF DeliveryInv, DeliveryTypeOK, deliveryVars
  <2>2. ASSUME NEW t \in Tasks PROVE Shape(t)'
    BY <1>7, Frame DEF DeliveryInv, Shape, deliveryVars
  <2>3. QED BY <2>1, <2>2 DEF DeliveryInv, Shape
<1>8. QED
  BY <1>1, <1>2, <1>3, <1>4, <1>5, <1>6, <1>7 DEF DeliveryNext, Work

\* The invariant holds in every reachable state: types, and the shape of each call,
\* queue and row (all of execute, the consumer's saves, CancelTask and crashes).
THEOREM DeliveryInvariant == DeliverySpec => []DeliveryInv
<1>1. QED
  BY DeliveryInitInv, DeliveryNextInv, PTL DEF DeliverySpec

\* A COMPLETED answer means the whole message is in the addressed mailbox, for good.
THEOREM ReceiptTheorem == DeliverySpec => []ReceiptMeansDelivered
<1>1. DeliveryInv => ReceiptMeansDelivered
  <2> SUFFICES ASSUME DeliveryInv, NEW t \in Tasks, receipt[t] = "completed"
               PROVE  rows[t] = [owner |-> to[t], state |-> "completed", sender |-> from[t]]
    BY DEF ReceiptMeansDelivered
  <2>1. rows[t].state = "completed" /\ rows[t].owner = to[t] /\ rows[t].sender = from[t]
    BY DEF DeliveryInv, RowShape, Terminal
  <2>2. rows[t] \in Rows
    BY <2>1, StoredRow DEF DeliveryInv, Settled, Terminal
  <2>3. QED BY <2>1, <2>2 DEF Rows
<1>2. QED
  BY <1>1, DeliveryInvariant, PTL

\* Only the sender and the readers of the addressed mailbox can fetch a task.
THEOREM IsolationTheorem == DeliverySpec => []Isolation
<1>1. DeliveryInv => Isolation
  BY GetIsRightful DEF Isolation
<1>2. QED
  BY <1>1, DeliveryInvariant, PTL

\* A bad address leaves its row with the sender, without content.
THEOREM RefusedTheorem == DeliverySpec => []RefusedStaysWithSender
<1>1. DeliveryInv => RefusedStaysWithSender
  BY DEF DeliveryInv, RefusedStaysWithSender, RowShape, RightfulOwner
<1>2. QED
  BY <1>1, DeliveryInvariant, PTL

\* No step rewrites a settled task.
LEMMA SettledStays ==
  ASSUME DeliveryInv, DeliveryNext, NEW t \in Tasks, Settled(t)
  PROVE  rows'[t] = rows[t]
<1>1. ~live[t] /\ rows \in [Tasks -> Rows \cup {NoRow}]
  BY DEF DeliveryInv, DeliveryTypeOK, CallShape
<1>2. CASE Crash
  BY <1>2 DEF Crash
<1>3. CASE Work
  BY <1>1, <1>3 DEF Work, SendMessage, Executor, EnsureTask, Reject, AddArtifact, Complete,
     Consumer, SaveEvent, SaveLastEvent, Answer, CancelLive, CancelOrphan, Cancelable
<1>4. QED BY <1>2, <1>3 DEF DeliveryNext

\* CancelTask cannot un-deliver, and no late event reopens, a settled task.
THEOREM SettledTheorem == DeliverySpec => SettledIsForever
<1>1. DeliveryInv /\ [DeliveryNext]_deliveryVars =>
        [\A t \in Tasks : Settled(t) => rows'[t] = rows[t]]_deliveryVars
  BY SettledStays
<1>2. QED
  BY <1>1, DeliveryInvariant, PTL DEF DeliverySpec, SettledIsForever

\* The sender of a delivered message can always re-read it, and only the readers of the
\* addressed mailbox have it listed.
THEOREM RereadTheorem == DeliverySpec => []SenderRereadsWithoutListing
<1>1. DeliveryInv => SenderRereadsWithoutListing
  <2> SUFFICES ASSUME DeliveryInv, NEW t \in Tasks, rows[t].state = "completed"
               PROVE  /\ get(from[t], t)
                      /\ \A c \in Callers : t \in Listed(c) <=> to[t] \in ReadOwners(c)
    BY DEF SenderRereadsWithoutListing
  <2>1. rows[t].owner = to[t] /\ rows[t].sender = from[t] /\ Stored(t)
    BY DEF DeliveryInv, RowShape, Stored, NoRow
  <2>2. QED BY <2>1 DEF get, get_as_sender, get_from_mailbox, Listed
<1>2. QED
  BY <1>1, DeliveryInvariant, PTL

\* Whatever is saved after the content leaves it in its mailbox, a cancellation excepted.
THEOREM ContentTheorem == DeliverySpec => ContentStaysPut
<1>1. DeliveryInv /\ [DeliveryNext]_deliveryVars =>
        [\A t \in Tasks :
           rows[t].sender # NoOne /\ rows'[t].owner # rows[t].owner =>
              rows'[t].state = "canceled"]_deliveryVars
  <2> SUFFICES ASSUME DeliveryInv, DeliveryNext, NEW t \in Tasks,
                      rows[t].sender # NoOne, rows'[t].owner # rows[t].owner
               PROVE  rows'[t].state = "canceled"
    OBVIOUS
  <2>1. rows \in [Tasks -> Rows \cup {NoRow}] /\ Stored(t)
    BY DEF DeliveryInv, DeliveryTypeOK, Stored, NoRow
  <2>2. live[t] => hub_owner_resolver(t) = rows[t].owner
    BY DeliveryAssumption DEF DeliveryInv, RowShape, CallShape, hub_owner_resolver,
       Routable, is_valid_identity, Addresses
  <2>3. CASE Crash
    BY <2>3 DEF Crash
  <2>4. ASSUME NEW u \in Tasks, Consumer(u) PROVE FALSE
    <3>1. u = t /\ live[t]
      BY <2>1, <2>4 DEF Consumer, SaveEvent, SaveLastEvent
    <3>2. rows'[t].owner = hub_owner_resolver(t)
      BY <2>1, <2>4, <3>1 DEF Consumer, SaveEvent, SaveLastEvent, Merge
    <3>3. QED BY <2>2, <3>1, <3>2
  <2>5. ASSUME NEW u \in Tasks, NEW c \in Callers, CancelOrphan(c, u)
        PROVE  rows'[t].state = "canceled"
    <3>1. u = t
      BY <2>1, <2>5 DEF CancelOrphan
    <3>2. rows[t] \in Rows
      BY <2>1 DEF Stored
    <3>3. QED BY <2>1, <2>5, <3>1, <3>2 DEF CancelOrphan, Rows
  <2>6. CASE rows' = rows
    BY <2>6
  <2>7. QED
    BY <2>3, <2>4, <2>5, <2>6 DEF DeliveryNext, Work, SendMessage, Executor, EnsureTask,
       Reject, AddArtifact, Complete, Answer, CancelLive
<1>2. QED
  BY <1>1, DeliveryInvariant, PTL DEF DeliverySpec, ContentStaysPut

-----------------------------------------------------------------------------
(***************************************************************************)
(* Delivery implements the abstract mailbox, step by step: posting a       *)
(* message, putting it whole into the mailbox it names, telling its sender *)
(* and forgetting whom to tell are single steps of Delivery, and whatever  *)
(* else execute, the consumer and CancelTask do is invisible in Mailbox.   *)
(* That a sender is told something is liveness, and left to TLC.           *)
(***************************************************************************)

\* The messages delivered to a mailbox, as Promise maps them.
InboxOf(m) == {t \in Tasks : rows[t].state = "completed" /\ rows[t].owner = m}
Inboxes == [m \in Mailboxes |-> InboxOf(m)]

\* Both speak of the same mailboxes and addresses.
LEMMA SameIdentities ==
  /\ Promise!Mailboxes = Mailboxes
  /\ Promise!Addresses = Addresses
  /\ \A a : Promise!is_valid_identity(a) <=> is_valid_identity(a)
  BY DEF Mailboxes, Addresses, is_valid_identity, principal_of, Promise!Mailboxes,
     Promise!Addresses, Promise!is_valid_identity, Promise!principal_of

\* What the abstract mailbox calls delivered is a completed row.
LEMMA DeliveredIsCompleted ==
  ASSUME DeliveryTypeOK, NEW t \in Tasks
  PROVE  Promise!Delivered(t) <=> rows[t].state = "completed"
<1>1. rows[t].state = "completed" => rows[t].owner \in Mailboxes
  BY StoredRow DEF Settled, Terminal
<1>2. QED
  BY <1>1, SameIdentities DEF Promise!Delivered

\* A step that tells nobody anything and completes no row is a stutter.
LEMMA Stutter ==
  ASSUME UNCHANGED <<to, receipt>>,
         \A t \in Tasks : rows'[t] = rows[t] \/ (rows[t].state # "completed" /\ rows'[t].state # "completed")
  PROVE  UNCHANGED Promise!mailboxVars
<1>1. \A m \in Mailboxes : InboxOf(m)' = InboxOf(m)
  BY DEF InboxOf
<1>2. Inboxes' = Inboxes
  BY <1>1 DEF Inboxes
<1>3. QED
  BY <1>2 DEF Promise!mailboxVars, Inboxes, InboxOf

\* SendMessage posts.
LEMMA SendMessagePosts ==
  ASSUME DeliveryInv, NEW t \in Tasks, NEW c \in Callers, NEW a \in Addresses, SendMessage(c, a, t)
  PROVE  Promise!Post(t, a)
<1>1. receipt[t] = "none"
  BY DEF DeliveryInv, CallShape, SendMessage
<1>2. QED
  BY <1>1 DEF SendMessage, Promise!Post

\* Saving an event that is not the last shows nothing.
LEMMA SaveEventStutters ==
  ASSUME DeliveryInv, NEW t \in Tasks, SaveEvent(t)
  PROVE  UNCHANGED Promise!mailboxVars
<1>1. /\ Shape(t) /\ rows \in [Tasks -> Rows \cup {NoRow}]
      /\ live[t] /\ queue[t] # <<>> /\ Head(queue[t]) \notin Terminal
  BY DEF DeliveryInv, DeliveryTypeOK, Shape, SaveEvent
<1>2. rows[t].state # "completed" /\ rows'[t].state # "completed"
  BY <1>1 DEF Shape, CallShape, Settled, SaveEvent, Merge, Terminal
<1>3. \A u \in Tasks : u # t => rows'[u] = rows[u]
  BY <1>1 DEF SaveEvent
<1>4. QED
  BY <1>2, <1>3, Stutter DEF SaveEvent

\* The last event puts a completed message into the mailbox it names, once; a rejected or
\* canceled one shows nothing yet.
LEMMA SaveLastEventDelivers ==
  ASSUME DeliveryInv, NEW t \in Tasks, SaveLastEvent(t)
  PROVE  Promise!Deliver(t) \/ UNCHANGED Promise!mailboxVars
<1> DEFINE e == Head(queue[t])
<1>1. /\ Shape(t) /\ DeliveryTypeOK /\ live[t] /\ queue[t] # <<>> /\ e \in Terminal
  BY DEF DeliveryInv, DeliveryTypeOK, Shape, SaveLastEvent
<1>2. /\ rows[t].state # "completed" /\ receipt[t] = "waiting"
  BY <1>1 DEF Shape, CallShape, Settled, Terminal
<1>3. /\ rows'[t].state = e
      /\ rows'[t].owner = hub_owner_resolver(t)
      /\ \A u \in Tasks : u # t => rows'[u] = rows[u]
  BY <1>1 DEF SaveLastEvent, DeliveryTypeOK, Merge, Terminal
<1>4. CASE e # "completed"
  BY <1>2, <1>3, <1>4, Stutter DEF SaveLastEvent
<1>5. CASE e = "completed"
  <2>1. 1 \in 1..Len(queue[t]) /\ e = queue[t][1]
    BY <1>1, TailQueue DEF DeliveryTypeOK
  <2>2. override[t] = to[t] /\ Routable(t) /\ to[t] \in Mailboxes
    BY <2>1, <1>1, <1>5 DEF Shape, QueueShape, Routable, is_valid_identity
  <2>3. rows'[t].owner = to[t]
    BY <1>3, <2>2, DeliveryAssumption DEF hub_owner_resolver, Addresses
  <2>4. ~Promise!Delivered(t)
    BY <1>1, <1>2, DeliveredIsCompleted
  <2>5. \A m \in Mailboxes : InboxOf(m)' = IF m = to[t] THEN InboxOf(m) \cup {t} ELSE InboxOf(m)
    BY <1>2, <1>3, <1>5, <2>3 DEF InboxOf
  <2>6. Inboxes' = [Inboxes EXCEPT ![to[t]] = @ \cup {t}]
    BY <2>2, <2>5 DEF Inboxes
  <2>7. Promise!Deliver(t)
    BY <1>2, <2>2, <2>4, <2>6, SameIdentities DEF Promise!Deliver, SaveLastEvent, Routable, Inboxes, InboxOf
  <2>8. QED BY <2>7
<1>6. QED
  BY <1>4, <1>5

\* SendMessage's answer is the verdict the mailbox bears out.
LEMMA AnswerTells ==
  ASSUME DeliveryInv, NEW t \in Tasks, Answer(t)
  PROVE  Promise!TellSomething(t)
<1>1. DeliveryTypeOK /\ RowShape(t) /\ rows[t].state \in Terminal /\ receipt[t] = "waiting"
  BY DEF DeliveryInv, Answer, Settled
<1>2. \/ rows[t].state = "completed" /\ Promise!Delivered(t)
      \/ rows[t].state = "rejected" /\ ~is_valid_identity(to[t])
      \/ rows[t].state = "canceled" /\ ~Promise!Delivered(t)
  BY <1>1, DeliveredIsCompleted DEF Terminal, RowShape, Routable
<1>3. UNCHANGED Inboxes
  BY DEF Answer, Inboxes, InboxOf
<1>4. Promise!Tell(t, rows[t].state)
  BY <1>1, <1>2, <1>3, SameIdentities DEF Answer, Promise!Tell, Inboxes, InboxOf
<1>5. QED
  BY <1>1, <1>4 DEF Promise!TellSomething, Terminal

\* A task that is cancelled after a crash was not delivered, and is not.
LEMMA CancelOrphanStutters ==
  ASSUME DeliveryInv, NEW t \in Tasks, NEW c \in Callers, CancelOrphan(c, t)
  PROVE  UNCHANGED Promise!mailboxVars
<1>1. rows \in [Tasks -> Rows \cup {NoRow}] /\ Stored(t) /\ ~Settled(t)
  BY DEF DeliveryInv, DeliveryTypeOK, CancelOrphan, Cancelable, get, get_from_mailbox, get_as_sender
<1>2. rows[t] \in Rows /\ rows[t].state # "completed"
  BY <1>1 DEF Stored, Settled, Terminal
<1>3. rows'[t].state = "canceled" /\ \A u \in Tasks : u # t => rows'[u] = rows[u]
  BY <1>1, <1>2 DEF CancelOrphan, Rows
<1>4. QED
  BY <1>2, <1>3, Stutter DEF CancelOrphan

\* The death of the process forgets whom to tell, and takes nothing out of a mailbox.
LEMMA CrashForgets == Crash => Promise!Forget
  BY DEF Crash, Promise!Forget

\* Every step of Delivery is a step of the mailbox or is not seen there.
LEMMA StepIsMailboxStep ==
  DeliveryInv /\ [DeliveryNext]_deliveryVars =>
     Promise!MailboxNext \/ UNCHANGED Promise!mailboxVars
<1> SUFFICES ASSUME DeliveryInv, [DeliveryNext]_deliveryVars
             PROVE  Promise!MailboxNext \/ UNCHANGED Promise!mailboxVars
  OBVIOUS
<1>1. CASE Crash
  BY <1>1, CrashForgets DEF Promise!MailboxNext
<1>2. ASSUME NEW t \in Tasks, NEW c \in Callers, NEW a \in Addresses, SendMessage(c, a, t)
      PROVE  Promise!MailboxNext
  BY <1>2, SendMessagePosts, SameIdentities DEF Promise!MailboxNext
<1>3. ASSUME NEW t \in Tasks, Consumer(t)
      PROVE  Promise!MailboxNext \/ UNCHANGED Promise!mailboxVars
  BY <1>3, SaveEventStutters, SaveLastEventDelivers DEF Consumer, Promise!MailboxNext
<1>4. ASSUME NEW t \in Tasks, Answer(t) PROVE Promise!MailboxNext
  BY <1>4, AnswerTells DEF Promise!MailboxNext
<1>5. ASSUME NEW t \in Tasks, NEW c \in Callers, CancelOrphan(c, t)
      PROVE  UNCHANGED Promise!mailboxVars
  BY <1>5, CancelOrphanStutters
<1>6. CASE UNCHANGED <<to, receipt, rows>>
  BY <1>6, Stutter
<1>7. ASSUME NEW t \in Tasks, Executor(t) PROVE UNCHANGED <<to, receipt, rows>>
  BY <1>7 DEF Executor, EnsureTask, Reject, AddArtifact, Complete
<1>8. ASSUME NEW t \in Tasks, NEW c \in Callers, CancelLive(c, t)
      PROVE  UNCHANGED <<to, receipt, rows>>
  BY <1>8 DEF CancelLive
<1>9. CASE UNCHANGED deliveryVars
  BY <1>6, <1>9 DEF deliveryVars
<1>10. QED
  BY <1>1, <1>2, <1>3, <1>4, <1>5, <1>6, <1>7, <1>8, <1>9 DEF DeliveryNext, Work

\* The empty hub is the empty mailbox.
LEMMA InitIsMailboxInit == DeliveryInit => Promise!MailboxInit
  BY SameIdentities DEF DeliveryInit, Promise!MailboxInit, NoRow

\* Delivery implements the mailbox: a message enters the mailbox it names whole and once
\* and never leaves it, and no sender is told anything the mailbox does not bear out.
THEOREM MailboxTheorem == DeliverySpec => Promise!MailboxSteps
<1>1. QED
  BY InitIsMailboxInit, StepIsMailboxStep, DeliveryInvariant, PTL
     DEF DeliverySpec, Promise!MailboxSteps
=============================================================================
