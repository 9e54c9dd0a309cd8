------------------------------ MODULE Delivery ------------------------------
(***************************************************************************)
(* The life of one message: SendMessage runs the executor, whose events    *)
(* cross a queue to a consumer that writes the task row under the owner    *)
(* the resolver computes at that moment; GetTask, ListTasks and CancelTask *)
(* read the same rows; the process may die between any two steps.          *)
(*                                                                         *)
(* The executor (execute) and the consumer are coroutines of one event     *)
(* loop: every await is a place where the other may run, so each enqueue   *)
(* and each save is an action.  The queue, the consumer and the database   *)
(* rows belong to the SDK and are modelled from how the hub uses them.     *)
(***************************************************************************)
EXTENDS Identity, Naturals, Sequences

CONSTANTS
  Tasks,      \* task ids, one for each SendMessage
  NoOne,      \* absence of an owner, a sender or a row
  MaxCrashes  \* bound: how often the process dies

ASSUME DeliveryAssumption ==
  /\ NoOne \notin Addresses
  /\ MaxCrashes \in Nat

VARIABLES
  pc,       \* where execute() stands for this task
  from,     \* the caller of SendMessage
  to,       \* the recipient the message names
  override, \* owner_override in the state of that call
  queue,    \* events emitted and not yet saved
  live,     \* an executor and a consumer are attached to the task
  rows,     \* the tasks table
  receipt,  \* what SendMessage answered
  crashes   \* how often the process has died

deliveryVars == <<pc, from, to, override, queue, live, rows, receipt, crashes>>

Terminal == {"completed", "rejected", "canceled"}
Events == Terminal \cup {"submitted", "artifact"}
Rows == [owner : Mailboxes, state : Terminal \cup {"submitted"},
         sender : Callers \cup {NoOne}]
NoRow == [owner |-> NoOne, state |-> "none", sender |-> NoOne]

Stored(t) == rows[t] # NoRow
Settled(t) == rows[t].state \in Terminal
Routable(t) == is_valid_identity(to[t])

-----------------------------------------------------------------------------
(* Reading *)

\* HubTaskStore.get_from_mailbox: the task is in a mailbox the caller reads.
get_from_mailbox(c, t) == Stored(t) /\ rows[t].owner \in ReadOwners(c)

\* _get_as_sender: the stored artifact names the caller as its sender.
get_as_sender(c, t) == Stored(t) /\ rows[t].sender = c

\* Mutations of get: any id is served; the sender cannot re-read.
getAnything(c, t) == Stored(t)
getOwnMailboxOnly(c, t) == get_from_mailbox(c, t)

get(c, t) == get_from_mailbox(c, t) \/ get_as_sender(c, t)

\* What ListTasks enumerates for a caller (paging is the subject of Listing).
Listed(c) == {t \in Tasks : get_from_mailbox(c, t)}

-----------------------------------------------------------------------------
(* The executor *)

Emit(t, e) == queue' = [queue EXCEPT ![t] = Append(@, e)]
Goto(t, here, there) == live[t] /\ pc[t] = here /\ pc' = [pc EXCEPT ![t] = there]

SendMessage(c, a, t) ==
  /\ pc[t] = "new"
  /\ pc' = [pc EXCEPT ![t] = "start"]
  /\ from' = [from EXCEPT ![t] = c]
  /\ to' = [to EXCEPT ![t] = a]
  /\ live' = [live EXCEPT ![t] = TRUE]
  /\ receipt' = [receipt EXCEPT ![t] = "waiting"]
  /\ UNCHANGED <<override, queue, rows, crashes>>

\* _ensure_task: the SUBMITTED task is enqueued before anything is validated.
EnsureTask(t) ==
  /\ Goto(t, "start", "validate")
  /\ Emit(t, "submitted")
  /\ UNCHANGED <<from, to, override, live, rows, receipt, crashes>>

\* Mutations of Reject: routed before it is validated; no event for the refusal.
RejectRouted(t) ==
  /\ Goto(t, "validate", "done")
  /\ ~Routable(t)
  /\ override' = [override EXCEPT ![t] = to[t]]
  /\ Emit(t, "rejected")
  /\ UNCHANGED <<from, to, live, rows, receipt, crashes>>

RejectSilently(t) ==
  /\ Goto(t, "validate", "done")
  /\ ~Routable(t)
  /\ UNCHANGED <<from, to, override, queue, live, rows, receipt, crashes>>

Reject(t) ==
  /\ Goto(t, "validate", "done")
  /\ ~Routable(t)
  /\ Emit(t, "rejected")
  /\ UNCHANGED <<from, to, override, live, rows, receipt, crashes>>

\* Mutation of AddArtifact: the recipient is not validated.
AddArtifactUnvalidated(t) ==
  /\ Goto(t, "validate", "routed")
  /\ override' = [override EXCEPT ![t] = to[t]]
  /\ Emit(t, "artifact")
  /\ UNCHANGED <<from, to, live, rows, receipt, crashes>>

\* From here on the task is owned by the recipient; no await separates the
\* override from the artifact's enqueue.
AddArtifact(t) ==
  /\ Goto(t, "validate", "routed")
  /\ Routable(t)
  /\ override' = [override EXCEPT ![t] = to[t]]
  /\ Emit(t, "artifact")
  /\ UNCHANGED <<from, to, live, rows, receipt, crashes>>

Complete(t) ==
  /\ Goto(t, "routed", "done")
  /\ Emit(t, "completed")
  /\ UNCHANGED <<from, to, override, live, rows, receipt, crashes>>

-----------------------------------------------------------------------------
(* The consumer *)

\* Mutations of hub_owner_resolver: the override is ignored, or is gone when
\* execute has returned.
resolve_caller(t) == from[t]
resolve_running(t) ==
  IF override[t] # NoOne /\ pc[t] # "done" THEN override[t] ELSE from[t]

hub_owner_resolver(t) == IF override[t] # NoOne THEN override[t] ELSE from[t]

\* The row after an event; the artifact carries the sender the executor stamped.
Merge(t, e) ==
  [owner  |-> hub_owner_resolver(t),
   state  |-> IF e = "artifact" THEN rows[t].state ELSE e,
   sender |-> IF e = "artifact" THEN from[t] ELSE rows[t].sender]

SaveEvent(t) ==
  /\ live[t] /\ queue[t] # <<>> /\ Head(queue[t]) \notin Terminal
  /\ rows' = [rows EXCEPT ![t] = Merge(t, Head(queue[t]))]
  /\ queue' = [queue EXCEPT ![t] = Tail(@)]
  /\ UNCHANGED <<pc, from, to, override, live, receipt, crashes>>

\* A terminal event is the last one consumed: the executor is detached and
\* whatever is still queued is dropped.
SaveLastEvent(t) ==
  /\ live[t] /\ queue[t] # <<>> /\ Head(queue[t]) \in Terminal
  /\ rows' = [rows EXCEPT ![t] = Merge(t, Head(queue[t]))]
  /\ queue' = [queue EXCEPT ![t] = <<>>]
  /\ live' = [live EXCEPT ![t] = FALSE]
  /\ UNCHANGED <<pc, from, to, override, receipt, crashes>>

\* SendMessage answers with the settled task.
Answer(t) ==
  /\ receipt[t] = "waiting" /\ Settled(t)
  /\ receipt' = [receipt EXCEPT ![t] = rows[t].state]
  /\ UNCHANGED <<pc, from, to, override, queue, live, rows, crashes>>

-----------------------------------------------------------------------------
(* CancelTask and the death of the process *)

Cancelable(c, t) == get(c, t) /\ ~Settled(t)

\* The event joins the running delivery; the executor coroutine may or may not
\* get to emit more.  Bound: one cancellation waits in a queue at a time.
CancelLive(c, t) ==
  /\ Cancelable(c, t) /\ live[t]
  /\ \A i \in 1..Len(queue[t]) : queue[t][i] # "canceled"
  /\ Emit(t, "canceled")
  /\ \/ UNCHANGED pc
     \/ pc' = [pc EXCEPT ![t] = "done"]
  /\ UNCHANGED <<from, to, override, live, rows, receipt, crashes>>

\* Mutation of CancelOrphan: a settled task too.
CancelAnything(c, t) ==
  /\ get(c, t) /\ ~live[t]
  /\ rows' = [rows EXCEPT ![t] = [@ EXCEPT !.owner = c, !.state = "canceled"]]
  /\ UNCHANGED <<pc, from, to, override, queue, live, receipt, crashes>>

\* Nobody is delivering the task any more: the cancellation is saved in the
\* canceller's own context, whose owner is the canceller.
CancelOrphan(c, t) ==
  /\ Cancelable(c, t) /\ ~live[t]
  /\ rows' = [rows EXCEPT ![t] = [@ EXCEPT !.owner = c, !.state = "canceled"]]
  /\ UNCHANGED <<pc, from, to, override, queue, live, receipt, crashes>>

\* The rows survive; calls in progress, their queues and contexts do not.
Crash ==
  /\ crashes < MaxCrashes
  /\ crashes' = crashes + 1
  /\ pc' = [t \in Tasks |-> IF pc[t] = "new" THEN "new" ELSE "done"]
  /\ override' = [t \in Tasks |-> NoOne]
  /\ queue' = [t \in Tasks |-> <<>>]
  /\ live' = [t \in Tasks |-> FALSE]
  /\ receipt' = [t \in Tasks |-> IF receipt[t] = "waiting" THEN "lost" ELSE receipt[t]]
  /\ UNCHANGED <<from, to, rows>>

-----------------------------------------------------------------------------
DeliveryInit ==
  /\ pc = [t \in Tasks |-> "new"]
  /\ from = [t \in Tasks |-> NoOne]
  /\ to = [t \in Tasks |-> NoOne]
  /\ override = [t \in Tasks |-> NoOne]
  /\ queue = [t \in Tasks |-> <<>>]
  /\ live = [t \in Tasks |-> FALSE]
  /\ rows = [t \in Tasks |-> NoRow]
  /\ receipt = [t \in Tasks |-> "none"]
  /\ crashes = 0

Executor(t) == EnsureTask(t) \/ Reject(t) \/ AddArtifact(t) \/ Complete(t)
Consumer(t) == SaveEvent(t) \/ SaveLastEvent(t)

\* What the running process does, as opposed to its death.
Work ==
  \/ \E t \in Tasks, c \in Callers, a \in Addresses : SendMessage(c, a, t)
  \/ \E t \in Tasks : Executor(t) \/ Consumer(t) \/ Answer(t)
  \/ \E t \in Tasks, c \in Callers : CancelLive(c, t) \/ CancelOrphan(c, t)

DeliveryNext == Work \/ Crash

DeliverySpec == DeliveryInit /\ [][DeliveryNext]_deliveryVars

\* The event loop runs every coroutine that can go on; no client has to act.
DeliveryFairness ==
  \A t \in Tasks : /\ WF_deliveryVars(Executor(t))
                   /\ WF_deliveryVars(Consumer(t))
                   /\ WF_deliveryVars(Answer(t))

DeliveryFairSpec == DeliverySpec /\ DeliveryFairness

-----------------------------------------------------------------------------
(* Properties *)

\* The values every variable may take.
DeliveryTypeOK ==
  /\ pc \in [Tasks -> {"new", "start", "validate", "routed", "done"}]
  /\ from \in [Tasks -> Callers \cup {NoOne}]
  /\ to \in [Tasks -> Addresses \cup {NoOne}]
  /\ override \in [Tasks -> Mailboxes \cup {NoOne}]
  /\ queue \in [Tasks -> Seq(Events)]
  /\ live \in [Tasks -> BOOLEAN]
  /\ rows \in [Tasks -> Rows \cup {NoRow}]
  /\ receipt \in [Tasks -> Terminal \cup {"none", "waiting", "lost"}]
  /\ crashes \in 0..MaxCrashes

\* The artifact of t is stored, or waits in the queue before position n.
ArtifactBefore(t, n) ==
  \/ rows[t].sender = from[t]
  \/ \E i \in 1..Len(queue[t]) : i < n /\ queue[t][i] = "artifact"

\* Who may own the row of t: its sender or, for a good address, the recipient or a
\* reader of the recipient's mailbox who cancelled the task.
RightfulOwner(t, m) ==
  \/ m = from[t]
  \/ Routable(t) /\ (m = to[t] \/ (m \in Callers /\ to[t] \in ReadOwners(m)))

\* The call: before it starts nothing exists; while it runs its sender waits, its
\* recipient is set, and owner_override is nothing or a valid recipient.
CallShape(t) ==
  /\ pc[t] = "new" => /\ ~live[t] /\ ~Stored(t)
                      /\ receipt[t] = "none" /\ override[t] = NoOne
  /\ pc[t] # "new" => from[t] \in Callers /\ to[t] \in Addresses
  /\ override[t] # NoOne => override[t] = to[t] /\ Routable(t)
  /\ live[t] => receipt[t] = "waiting" /\ ~Settled(t)
  /\ live[t] /\ pc[t] = "start" => queue[t] = <<>> /\ ~Stored(t)
  /\ live[t] /\ pc[t] \in {"validate", "routed"} => Stored(t) \/ queue[t] # <<>>
  /\ live[t] /\ pc[t] = "routed" => override[t] = to[t] /\ ArtifactBefore(t, Len(queue[t]) + 1)

\* The queue: the SUBMITTED task comes first, a delivery's events only under its
\* override and in order, and nothing is queued once the executor is detached.
QueueShape(t) ==
  /\ ~live[t] => queue[t] = <<>>
  /\ queue[t] # <<>> /\ ~Stored(t) => queue[t][1] = "submitted"
  /\ \A i \in 1..Len(queue[t]) :
       /\ queue[t][i] = "submitted" => i = 1 /\ ~Stored(t)
       /\ queue[t][i] \in {"artifact", "completed"} => override[t] = to[t] /\ Routable(t)
       /\ queue[t][i] = "rejected" => ~Routable(t)
       /\ queue[t][i] = "completed" => ArtifactBefore(t, i)

\* The row: who may own it, what its sender stamp, its state and its receipt say.
RowShape(t) ==
  /\ Stored(t) => RightfulOwner(t, rows[t].owner)
  /\ rows[t].sender # NoOne => rows[t].sender = from[t] /\ Routable(t)
  /\ live[t] /\ rows[t].sender # NoOne => override[t] = to[t] /\ rows[t].owner = to[t]
  /\ rows[t].state = "completed" => rows[t].owner = to[t] /\ rows[t].sender = from[t]
  /\ rows[t].state = "rejected" => ~Routable(t)
  /\ receipt[t] \in Terminal => rows[t].state = receipt[t]

\* The inductive invariant: what makes every receipt, owner and sender stamp right
\* in every interleaving of execute with the saves, cancellations and crashes.
DeliveryInv ==
  /\ DeliveryTypeOK
  /\ \A t \in Tasks : CallShape(t) /\ QueueShape(t) /\ RowShape(t)

\* SendMessage that answered COMPLETED (execute, then the save of its last event)
\* means the whole message is in the addressed mailbox under its true sender, and
\* stays so across crashes, later cancellations and other deliveries.
ReceiptMeansDelivered ==
  \A t \in Tasks : receipt[t] = "completed" =>
     rows[t] = [owner |-> to[t], state |-> "completed", sender |-> from[t]]

\* A stored message can be fetched (HubTaskStore.get) only by its sender and by the
\* callers who read the mailbox it names, whatever was interrupted or cancelled.
Isolation ==
  \A t \in Tasks, c \in Callers : get(c, t) =>
     \/ c = from[t]
     \/ Routable(t) /\ to[t] \in ReadOwners(c)

\* A bad address never reaches anyone else's mailbox, and the row it leaves with the
\* sender never claims to carry a delivered message (the reject paths of execute).
RefusedStaysWithSender ==
  \A t \in Tasks : Stored(t) /\ ~Routable(t) =>
     rows[t].owner = from[t] /\ rows[t].sender = NoOne

\* The id of a delivered message lets its sender re-read it (_get_as_sender) without
\* putting it into any listing but the recipient's.
SenderRereadsWithoutListing ==
  \A t \in Tasks : rows[t].state = "completed" =>
     /\ get(from[t], t)
     /\ \A c \in Callers : t \in Listed(c) <=> to[t] \in ReadOwners(c)

\* A settled task is never written again: CancelTask cannot un-deliver a message and
\* an event emitted late cannot reopen it.
SettledIsForever ==
  [][\A t \in Tasks : Settled(t) => rows'[t] = rows[t]]_deliveryVars

\* Once the content is stored, only a cancellation may change the mailbox it is in
\* (hub_owner_resolver decides the owner anew at every save).
ContentStaysPut ==
  [][\A t \in Tasks :
       rows[t].sender # NoOne /\ rows'[t].owner # rows[t].owner =>
          rows'[t].state = "canceled"]_deliveryVars

\* Every SendMessage is answered or was cut off by the death of the process:
\* every path through execute, cancellation included, ends in a terminal event.
SendIsAnswered ==
  \A t \in Tasks : receipt[t] = "waiting" ~> receipt[t] # "waiting"

\* The abstract mailbox: the delivered rows of an owner, and the receipts.
Promise == INSTANCE Mailbox WITH
  address <- to,
  inbox <- [m \in Mailboxes |->
              {t \in Tasks : rows[t].state = "completed" /\ rows[t].owner = m}],
  told <- receipt

\* Delivery implements the mailbox, the obligation to answer included.
ImplementsMailbox == Promise!MailboxSpec
=============================================================================
