# Verification of a2a-hub

a2a-hub is a store-and-forward mail hub for agents: a server (Starlette, the A2A SDK and
SQLite) where a session leaves a message for another agent, the recipient polls its
mailbox, marks what it did with each message, and a register tells who is around. This
directory holds TLA+ models of it, TLC runs on small instances, and proofs checked by TLAPS.

## Inventory

| Component | State | Operations | Hard behaviour | What makes it correct |
|---|---|---|---|---|
| Identity (`auth.py`) | token map, frozen set of known agents | resolve a token, `principal_of`, `is_valid_identity` | rotation of tokens against the frozen set | a caller reads its own mailbox and its agent's, nothing else |
| Executor (`executor.py`) | `owner_override` of a call, its event queue | `execute`, `cancel` | executor and consumer are two coroutines; refusals after the row exists; crash | COMPLETED means delivered; a refusal reaches nobody; every send is answered |
| Task store (`store.py`) | the tasks table | `get`, `get_from_mailbox`, `_get_as_sender`, `list` | the owner is computed anew at every save; a merged listing over moving data | isolation; a walk misses nothing that was settled |
| Marks (`marks.py`, `routes_marks.py`) | `message_marks`, one row per (message, identity) | set, read, list | awaits between the authorisation and the write; broadcasts | only recipients' marks on delivered messages; the sender sees them; nobody closes for another |
| Register (`registry.py`, `routes_registry.py`) | `agent_registrations`, the touch cache | touch, declare, status, retire, list | clock, read and write of one call are separated by awaits; throttling; restart | `last_seen` is true within a known lag; managers and reuse are remarked |
| Client (`client.py`) | none on disk but its configuration | walk, inbox, marks, register, CLI | a walk over pages while messages arrive; commands of several requests; a session shared by a host; options in free text | it warns when it must and only then; nothing owed is hidden; nobody overwrites another's entry |
| Wiring, configuration, middleware (`app.py`, `config.py`, `auth.py`) | token map, known agents | start, lifespan, rotation, stop | requests while the schema is migrated; rotation | presence never breaks a request; a hub that ran its lifespan has its tables |
| Cards, extensions, server | fixed at start | - | - | - |
| Schema migration (`schema.py`, both `create_schema`) | the tables' columns, `_ready`, the lock | create a table, add missing columns | several first calls at once, a crash between two statements, a statement that fails | whoever returns finds its columns; the lock is given back |
| Promotion (`ci.yml`, `record_promoted.sh`) | images and their tags, the `promoted` branch | build, find, promote, record, carry | cancelled, overtaken and re-run jobs | the recorded image has the code of the recorded commit |
| Prune (`registry-prune.yml` and its scripts) | what the run has read so far | list, plan, confirm, delete | check-then-delete against outside changes | nothing referenced is deleted |
| A2A SDK (external) | event queues, tasks table | request handler, consumer, `DatabaseTaskStore` | - | modelled from its use |

Interaction: the middleware stamps the register (`touch`) and then calls a handler; the SDK's
handler runs the executor and consumes its queue into the store, asking
`hub_owner_resolver` for the owner at each save; the mark routes ask the store whether the
caller may read a task and then use the marks table; the client only sees HTTP answers.
`PROJECT.json` lists every component, the hazards with their lines and the map from
definitions to source lines.

## Modules

* `Identity` - addresses as values; the text of an identity is abstracted to `agentOf`.
  `Misaddressed` stands for every recipient `is_valid_identity` refuses, and for none given.
* `Mailbox` - the abstract specification of store-and-forward: `Post`, `Deliver`, `Tell`,
  `Forget`. What is delivered never leaves, and the sender is only told the truth.
* `Delivery` (extends `Identity`) - one action per await of `execute`
  (`EnsureTask`, `Reject`, `AddArtifact`, `Complete`), per save of the consumer (`SaveEvent`,
  `SaveLastEvent`), the answer, `CancelTask` on a running and on an abandoned delivery, and
  `Crash`, which keeps `rows` and loses the rest. `rows[t]` is the stored task: owner, state
  and the sender stamped in its artifact.
* `Marks` (extends `Delivery`) - `AuthoriseMark` is the route up to the mailbox check, with
  the sender it read; `WriteMark` is the upsert, any number of steps later. The reading
  operations are operators over `rows` and `marks`.
* `Listing` - `HubTaskStore.list` for a session and the client's `list_all_tasks`. A request
  lists the session's mailbox, then the agent's, in two steps; the second merges, answers and
  the client follows the token. `Arrive`, `Reroute` and `Settle` are what `Delivery` does to
  the mailboxes, seen from the reader: stored without a timestamp, moved from the
  sender's to the recipient's mailbox, settled with a timestamp taken earlier, in the
  canceller's mailbox if it was abandoned.
* `Register` - every request passes `Request`, the steps of `touch` and then a handler.
  `arrived` and `seen` record the truth `last_seen` is compared with.
* `Promotion` - pull requests, their CI and the publish job of a push. A tree is the set of
  changes it contains, so a merge or a rebase is a union and a pull request behind main has a
  head tree that differs from its merge tree, the one CI builds. The tag of a tree is held by
  the newest image built from it (`Tagged`); `built` is the image of a pull request's present
  head, none once the branch is rebased and until its CI has run again.
* `Prune` (extends `Promotion`) - one armed run. `World` is any step of `Promotion`, possible between
  any two calls of the job; `known` is what the run has read, `ever` and `before` are history. A
  listing of pull requests returns at most `ListLimit` of them, any of those there are.
* `Inbox` (extends `Marks`) - the commands `inbox` and `introduce` of one session, `Reader`, one
  action per request: `Walk` reads any part of the mailbox (that a walk may miss what moves is
  `Listing`'s matter), `AskRegister` the register, `Display` the marks, whose closing ones and
  the cutoff make `Hidden`. `row` is the session's entry; every request may stamp it. Between two requests
  any step of `Marks` and any other process of the session may come. `owed` is history.
* `CommandLine` - one invocation: `SessionFlag`, `Help`, `UnknownFlags`, `Load` in the order of
  `main`, then the command. A word is a value; what counts is whether it is an option, and
  where. `inbox` stands for the commands without free text, `processed` for the marks.
* `Schema` - `create_schema` of both tables, one action per statement, by any number of calls;
  `db` holds the columns the database has, a prefix of today's at first. The register's calls hold
  `lock`, those of the marks do not.
* `Server` (extends `Schema`) - `Start`, the lifespan as one more call of `create_schema`
  (`Boot`), requests that pass the middleware's `touch` and then a handler, `Rotate`, `Kill`.
* `MCDelivery`, `MCMarks`, `MCInbox`, `MCRegister`, `MCServer` - the instances.
* `DeliveryProofs` (with the implementation of `Mailbox`), `MarksProofs`, `InboxProofs`,
  `RegisterProofs`, `ServerProofs` (with `Schema`), `PruneProofs` (with `Promotion`),
  `CommandLineProofs`, `ListingProofs` - the proofs.

Definitions introduced by "Mutation of ..." are deliberate faults; no specification uses
them. Each property was seen to fail when the definition named is replaced by one of them.

What belongs to the SDK is an assumption here, taken from the hub's use of it: events are
saved in the order they are emitted; a save merges by id and stores the owner the resolver
computes at that moment; a terminal event ends the consumption; a cancellation of a task
nobody is delivering is saved in the canceller's context; a mailbox is listed newest first,
without timestamp last, ties by id, from the token's task on, and a token whose task is no
longer there is refused. Of SQLite and its driver it is assumed that each DDL statement commits
by itself, so a migration that dies leaves what it had done.

## Runs

| Run | Bounds | Shows |
|---|---|---|
| `Delivery` | 1 message, 3 sessions of 2 agents, a bad address, 2 crashes, fairness | the invariant; the promises about receipts, isolation, refusals, re-reading, settled tasks and content; every send is answered; `Delivery` implements `Mailbox` |
| `Marks` | 1 message, 2 marking calls in progress, 1 crash | who marks, who reads marks, what discharges a message |
| `Inbox` | 1 message, 2 sessions of an agent, 1 marking call in progress, timestamps in the cutoff's second and after it | nothing owed is hidden; the warning of an undeclared session fits the register; an introduction that did not take was withdrawn |
| `InboxRegister` | the same | violation: a register that cannot be reached ends the command, the docstring says it is tolerated |
| `CommandLine` | every line of up to 5 words, 3 environments, with and without a shared session | no misspelt option is sent as text; nobody introduces itself under a session it did not name; a shared identity is announced, a named one is not; success means done |
| `Listing` | 3 messages, 3 timestamps, pages of 1, 3 changes during the walk | nothing settled is missed; a walk is refused only over a token whose task had not settled and has left; an undisturbed walk is exact and its first page the newest |
| `ListingComplete` | 3 messages, 1 change | violation: the counts agree, one message was returned twice and another not at all |
| `Register` | 2 sessions, 2 calls at a time, 3 requests, clock to 5, windows 2, 3 and 5, delay 1 | `last_seen` against the truth, warnings that are never withheld, no half-filled entry, retired until introduced |
| `RegisterManagers` | 2 sessions, 2 requests | violation: two managers introduced at the same time are both unremarked |
| `Server` | 2 requests at a time, tables of 3 and 2 columns from any release, 1 token, 2 agents | whoever returns from `create_schema` finds its columns; the register never migrates twice at once; after the lifespan both tables are complete and no request is refused for them; presence never breaks or blocks a request |
| `Prune` | a code and a documentation pull request, 3 builds, 1 re-run, listings of 1 pull request | the recorded digest has the recorded commit's code; what was promoted when the run read it is kept |
| `PruneOpen` | the same, 1 build, whole listings | violation: the image built for the present head of an open pull request behind main is deleted, the job looks for its head's tree and CI tagged the merge's |

Why the bounds are enough to meet the cases: messages share nothing but their callers (each
action changes one message, and a crash all of them alike), so one shows every interleaving of a
delivery with cancellation, crash and marks, and `DeliveryProofs` proves the invariants for any number; three sessions give a broadcast two readers and an outsider. Pages of one make
every listing of two messages a walk, batches of two windows and, with three messages, either
mailbox to end before the other; a change can hit between the two listings of one
request, between windows and between batches, and three of them let a message arrive, move and
settle while one that had settled is awaited. Three requests are a manager, its later request
suppressed by the cache, and another manager; the windows keep the order of the real ones
(60 s, 900 s, 3600 s), and the bound `Lag` is tight: one unit less is violated. Three builds let a
tree's tag move twice, before and after its promotion; a cancelled code push followed by one of
documentation is what the carried digest is guarded against. `MaxDelay` is an
assumption: a database access takes bounded time, which the code does not enforce.
Two requests are two concurrent migrations, one to win and one to wait for it, or to clash with it
where there is no lock; a table of two or three columns can be absent, old, half migrated or of today, and
the third column of the register is one that cannot be added to an existing table.
Five words hold a command, its fixed words, `--` or `--session NAME`, and what follows.
In `Inbox` the two sessions are the reader and another reader, or the sender, of the same broadcast.
Deadlock is not checked: with all messages settled and the bounds used up, a model stops.

Fairness (`DeliveryFairness`): weak fairness of the executor, the consumer and the answer of
each task. The event loop resumes each coroutine that can go on; nothing is assumed of
clients, and a crash may always intervene. `Server!Fairness` assumes the same of requests and
migrations, and strong fairness of `Acquire`: `asyncio.Lock` wakes those that wait in
the order they came, so a call cannot be passed over for ever.

## Proofs

Every theorem is about all values of the constants: any tasks, sessions, columns, clocks, words,
numbers of crashes, calls and changes. It rests on the `...Assumption` of its module
(types and non-emptiness; in `RegisterProofs`, also that a database access takes at most `MaxDelay`,
which is what the model's `Tick` guards) and on nothing else. None of the properties is inductive. Each
module states the strengthening as `...Inv`, which TLC checked before it was proved, and the
proofs have one lemma per action.

* `DeliveryProofs` - `DeliveryInv`. That COMPLETED means delivered rests on the artifact
  preceding it in the queue, on the override being that of the recipient while it is
  queued, and on the row's owner following it: `CallShape`, `QueueShape` and `RowShape`.
  The promises are consequences (`ReceiptTheorem`, `IsolationTheorem`, `RefusedTheorem`,
  `RereadTheorem`) or hold of a step that starts in it (`SettledTheorem`, `ContentTheorem`).
  `MailboxTheorem`: under the mapping of `Promise` every step is `Post`, `Deliver`, `Tell`, `Forget` or a
  stutter of `Mailbox`; the save that completes a row is the one that must find the whole content
  in the mailbox it names.
* `MarksProofs` - `MarksInv` adds to `DeliveryInv` what the mailbox check leaves true of a mark
  (`Authorised`), in progress or stored. Between the check and the write a task only goes
  forward (`TaskGoesForward`): it is not readdressed, and one that nobody delivers any more is never
  completed, so a mark that records the sender, made by that sender on its own undelivered row,
  never becomes one on a delivered message; one made before the artifact was saved records no
  sender and may, as `DeliveredMarksAreTheRecipients` says. The properties of `Marks` follow.
* `InboxProofs` - `InboxInv` adds what a command remembers of its earlier requests: a task
  read with a timestamp keeps it (`SettledStays`), the history holds what is owed
  now, and an introduction stands until it is overtaken.
* `RegisterProofs` - `RegisterInv` relates three clocks: `last_seen` in the row, the touch cache and
  the moment of the last request (`Stamps`), and says of each call in progress what it has read and since
  when (`CallKnows`). That a cached touch is not written is why `last_seen` may lag, and by no
  more than `Lag`; that a manager is noticed despite it is the difference of the windows.
* `ServerProofs` - `SchemaInv` says what each call of `create_schema` knows of its table
  (`CallKnows`): a table seen absent may appear under a caller that does not hold the lock, columns
  seen are never taken away, those added are those that were missing. `ServerInv` adds what a
  request in progress relies on (`RequestShape`) and what the lifespan has settled (`LifespanShape`).
* `PruneProofs` - `PromotionInv`: main only grows, trees included, and a commit is tagged with an image of
  its very tree; so the digest a job carries over has the code of the commit it records. `PruneInv`: what was
  once promoted still is, or has lost its tag to a newer image of the same tree, and nothing the
  run has confirmed was promoted when it read the record.
* `CommandLineProofs` - `CommandLineInv`: what is left of the words keeps their order
  (`InOrder`: taking `--session NAME` out moves no option before a `--` it stood behind), and
  the session is the one the flag, the environment or the file names (`SessionRead`).
* `ListingProofs` - `ListingInv` is `WalkInv`, `QuietInv` and `TokensHold`: a token that names a
  settled message is that of its mailbox, so the SDK never refuses it. `WalkInv`, of any walk: a settled message not returned yet is ahead of its mailbox's token, and
  its place in the next batch is not before the window to come (`Awaits`; `AwaitsAgent` between the
  two listings of one request). That place is its own in its mailbox plus its neighbours' in the
  other (`BatchPlaces`, the stable sort), and a change may only add to either (`PlacesGrow`): what
  settled stays, so nothing before it disappears. `Sorted` places each element by its rank, so
  what it returns follows from counting (`SortedByRank`), with no induction. `QuietInv`, of a walk
  nothing disturbs: what was returned is what the cursor has passed (`Passed`), and so it was for each
  token followed; a page returns at least one message besides (`QuietFollow`), so no token
  comes twice, there are no more pages than messages, and the last token leaves nothing.

Only model-checked:

* what must eventually happen - `SendIsAnswered`, `PresenceNeverBreaksTheRequest` and the fairness
  that `ImplementsMailbox` includes: fairness and `ENABLED` are beyond the prover;
* the four disagreements, which are counterexamples.

## Not modelled

* Text (identities, details, notices), the formatting of tasks, agents and ages, cards,
  extensions, uvicorn, the release build: no state, nothing that two steps could get wrong.
* `SendMessage` onto an existing task id, and what the SDK does with an executor that raises: both
  are decided in the SDK, which is not in this repository. A delivery that dies alone leaves
  what a crash leaves with one message, and that is modelled.
* Unreadable page tokens: the client only sends back what the hub gave it.
* The order of two timestamps within the cutoff's own second: `NothingOwedIsHidden` is stated for
  later seconds, as a fraction of that second sorts before its whole.

Behaviour the models show that no property excludes: the prune run deletes an image whose pull
request has been merged and whose publish job has not promoted it yet, or that is promoted
between its confirmation and its deletion; the client warns of missing messages when one arrived
between two pages; a sender may mark its message while the row is in its own mailbox, and the mark
stays, although `routes_marks.py` says a sender must never write one; agents and
tokens differ after a rotation, until the hub is started again; `_ensure_task` emits before the override is set; `--help` and `--session` are taken out of a line after `--` as well,
so `send bob -- --help` sends nothing and succeeds. Each is listed among the hazards.

## Plan

1. Done: `Identity`, `Mailbox`, `Delivery` with its proofs, `Marks`, `Inbox`, `Listing`, `Register`,
   `Schema`, `Server`, `CommandLine`, `Promotion`, `Prune`.
2. Done: the theorems of `Delivery` with the implementation of `Mailbox`, `Marks`, `Inbox`, `Listing`,
   `Register`, `Schema` and `Server`, `Promotion` and `Prune`, `CommandLine`.
3. Open: the filters of `ListTasks` and unreadable page tokens, if the client comes to use them.
