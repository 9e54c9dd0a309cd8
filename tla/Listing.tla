------------------------------- MODULE Listing -------------------------------
(***************************************************************************)
(* Reading a whole mailbox page by page while messages keep arriving.      *)
(*                                                                         *)
(* ListTasks of a session merges two mailboxes, its own and its agent's:   *)
(* the store lists a page of each, sorts the batch newest first and hands  *)
(* it out in windows; the page token carries the token of each mailbox,    *)
(* the offset in the batch and the totals of the first page.  The client   *)
(* (list_all_tasks) follows the tokens and judges from the counts whether  *)
(* it read everything.                                                     *)
(***************************************************************************)
EXTENDS Integers, Sequences, FiniteSets, SequencesExt

CONSTANTS
  MaxTasks,  \* bound: tasks 1..MaxTasks, the number being the order of their ids
  MaxClock,  \* bound: distinct timestamps
  MaxChanges, \* bound: changes of the mailboxes during the walk
  PageSize,  \* page_size of the client's requests
  MaxPages,  \* max_pages of list_all_tasks
  Start,     \* the empty token: from the newest task on
  EXHAUSTED  \* the mailbox has been read to the end

ASSUME ListingAssumption ==
  /\ MaxTasks \in Nat /\ MaxClock \in Nat /\ MaxChanges \in Nat
  /\ PageSize \in Nat \ {0} /\ MaxPages \in Nat \ {0}
  /\ {Start, EXHAUSTED} \cap (1..MaxTasks) = {} /\ Start # EXHAUSTED

Tasks == 1..MaxTasks
Owners == {"session", "agent"}
Nowhere == {"none", "gone"}  \* not delivered yet, moved to somebody else

VARIABLES
  owner,   \* the mailbox each stored task is in
  stamp,   \* its timestamp, 0 while it is only SUBMITTED
  clock,   \* the latest timestamp
  phase,   \* what the reader does next
  cursor,  \* the token of the page being read
  own,     \* the answer for the session's mailbox, while the agent's is read
  got,     \* ids returned so far, in order
  total,   \* totalSize of the last page
  pages,   \* pages read
  seen,    \* tokens followed
  incomplete, \* the walk was cut short
  atStart, \* history: where tasks were, and which had settled, when the walk began
  changes  \* history: how often the mailboxes have changed since

vars == <<owner, stamp, clock, phase, cursor, own, got, total, pages, seen,
          incomplete, atStart, changes>>
mailboxVars == <<owner, stamp, clock>>
readerVars == <<cursor, got, total, pages, seen, incomplete>>

-----------------------------------------------------------------------------
(* The store *)

Stored == {t \in Tasks : owner[t] \notin Nowhere}

\* The elements of a finite set in the strict order R, each at the place its rank gives it.
Rank(x, S, R) == Cardinality({y \in S : <<y, x>> \in R})
Sorted(S, R) == [i \in 1..Cardinality(S) |-> CHOOSE x \in S : Rank(x, S, R) = i - 1]

\* Order of one mailbox: newest first, no timestamp last, ties by descending id.
Newer(s, t) == stamp[s] > stamp[t] \/ (stamp[s] = stamp[t] /\ s > t)
NewestFirst == {p \in Tasks \X Tasks : Newer(p[1], p[2])}

Mailbox(o) == {t \in Tasks : owner[t] = o}

\* The mailbox from the token's task on.
Rest(o, token) == {t \in Mailbox(o) : token = Start \/ token = t \/ Newer(token, t)}

\* DatabaseTaskStore.list of one owner: a page, the id of the task after
\* it, and the size of the whole mailbox.
ListOwner(o, token) ==
  LET rest == Sorted(Rest(o, token), NewestFirst)
      more == Len(rest) > PageSize
      page == IF more THEN SubSeq(rest, 1, PageSize) ELSE rest
  IN  [tasks |-> [i \in DOMAIN page |-> [id |-> page[i], stamp |-> stamp[page[i]]]],
       next |-> IF more THEN rest[PageSize + 1] ELSE Start,
       total |-> Cardinality(Mailbox(o))]

\* A mailbox read to the end is not asked again.
Respond(o, token) ==
  IF token = EXHAUSTED THEN [tasks |-> <<>>, next |-> Start, total |-> 0]
  ELSE ListOwner(o, token)

NoTotals == [o \in Owners |-> -1]
FirstCursor == [tokens |-> [o \in Owners |-> Start], skip |-> 0, totals |-> NoTotals]
NoCursor == [FirstCursor EXCEPT !.skip = -1]

\* The sort of the merged batch is stable: among equal timestamps the session's
\* mailbox comes first and each mailbox keeps its order.
MergeBatch(answer) ==
  LET batch == answer["session"].tasks \o answer["agent"].tasks
      places == 1..Len(batch)
      before == {p \in places \X places :
                   \/ batch[p[1]].stamp > batch[p[2]].stamp
                   \/ batch[p[1]].stamp = batch[p[2]].stamp /\ p[1] < p[2]}
      order == Sorted(places, before)
  IN  [i \in DOMAIN order |-> batch[order[i]].id]

\* Mutation of Forward: a mailbox read to the end looks like one never started.
ForwardUnmarked(answer) == [o \in Owners |-> answer[o].next]

\* Mutation of Forward: each mailbox is given the other's token.
ForwardCrossed(answer) ==
  LET next(o) == answer[IF o = "session" THEN "agent" ELSE "session"].next
  IN  [o \in Owners |-> IF next(o) = Start THEN EXHAUSTED ELSE next(o)]

Forward(answer) ==
  [o \in Owners |-> IF answer[o].next = Start THEN EXHAUSTED ELSE answer[o].next]

\* Mutations of NextCursor: the rest of the batch is dropped; one window too many.
NextCursorNoRest(c, size, totals, forward) ==
  IF \E o \in Owners : forward[o] # EXHAUSTED
  THEN [tokens |-> forward, skip |-> 0, totals |-> totals]
  ELSE NoCursor

NextCursorOffByOne(c, size, totals, forward) ==
  IF c.skip + PageSize <= size
  THEN [tokens |-> c.tokens, skip |-> c.skip + PageSize, totals |-> totals]
  ELSE NextCursorNoRest(c, size, totals, forward)

\* The rest of this batch first; when it is exhausted, each mailbox's own token.
NextCursor(c, size, totals, forward) ==
  IF c.skip + PageSize < size
  THEN [tokens |-> c.tokens, skip |-> c.skip + PageSize, totals |-> totals]
  ELSE IF \E o \in Owners : forward[o] # EXHAUSTED
  THEN [tokens |-> forward, skip |-> 0, totals |-> totals]
  ELSE NoCursor

\* HubTaskStore.list from the answers for both mailboxes: a window of the batch, and
\* the totals of the first page.
MergePages(c, answer) ==
  LET batch == MergeBatch(answer)
      totals == [o \in Owners |-> IF c.totals[o] = -1 THEN answer[o].total ELSE c.totals[o]]
      end == IF c.skip + PageSize < Len(batch) THEN c.skip + PageSize ELSE Len(batch)
  IN  [tasks |-> SubSeq(batch, c.skip + 1, end),
       total |-> totals["session"] + totals["agent"],
       next |-> NextCursor(c, Len(batch), totals, Forward(answer))]

-----------------------------------------------------------------------------
(* Deliveries (see Delivery): a task is stored, may move, and settles *)

\* Bound: at most MaxChanges of them during the walk, and none after it.
Change ==
  /\ phase \notin {"done", "failed"}
  /\ changes' = IF phase = "idle" THEN 0 ELSE changes + 1
  /\ changes' <= MaxChanges
  /\ UNCHANGED <<phase, own, readerVars, atStart>>

Arrive(t, o) ==
  /\ owner[t] = "none"
  /\ owner' = [owner EXCEPT ![t] = o]
  /\ Change
  /\ UNCHANGED <<stamp, clock>>

\* A message the reading session is itself sending: its SUBMITTED row, saved in the
\* sender's mailbox, moves when the artifact is saved under owner_override.
Reroute(t, o) ==
  /\ t \in Stored /\ stamp[t] = 0 /\ owner[t] = "session"
  /\ owner' = [owner EXCEPT ![t] = o]
  /\ Change
  /\ UNCHANGED <<stamp, clock>>

\* The task's timestamp is taken before its row is stored, so rows may settle with
\* equal timestamps or in another order than their timestamps.  It settles where it
\* is, or, when it was abandoned, in the mailbox of whoever cancels it: this session, the
\* agent itself, another session of it or the sender.
Settle(t, o, now) ==
  /\ t \in Stored /\ stamp[t] = 0
  /\ owner' = [owner EXCEPT ![t] = o]
  /\ now <= clock + 1
  /\ clock' = IF now > clock THEN now ELSE clock
  /\ stamp' = [stamp EXCEPT ![t] = now]
  /\ Change

-----------------------------------------------------------------------------
(* The reader *)

Begin ==
  /\ phase = "idle"
  /\ phase' = "session"
  /\ atStart' = [owner |-> owner, settled |-> {t \in Stored : stamp[t] > 0}]
  /\ UNCHANGED <<mailboxVars, own, readerVars, changes>>

Valid(o) == cursor.tokens[o] \in {Start, EXHAUSTED} \cup {t \in Tasks : owner[t] = o}

\* One ListTasks lists the two mailboxes one after the other ...
ListSession ==
  /\ phase = "session" /\ Valid("session")
  /\ phase' = "agent"
  /\ own' = Respond("session", cursor.tokens["session"])
  /\ UNCHANGED <<mailboxVars, readerVars, atStart, changes>>

\* ... merges them, and the client takes the page and follows its token.
ListAgentAndFollow ==
  /\ phase = "agent" /\ Valid("agent")
  /\ LET page == MergePages(cursor, [o \in Owners |->
                   IF o = "session" THEN own ELSE Respond("agent", cursor.tokens["agent"])])
         last == page.next = NoCursor
         stop == page.next \in seen \/ pages + 1 >= MaxPages
     IN  /\ got' = got \o page.tasks
         /\ total' = page.total
         /\ incomplete' = (~last /\ stop)
         /\ phase' = IF last \/ stop THEN "done" ELSE "session"
         /\ cursor' = IF last \/ stop THEN cursor ELSE page.next
         /\ seen' = IF last \/ stop THEN seen ELSE seen \cup {page.next}
  /\ pages' = pages + 1
  /\ own' = <<>>
  /\ UNCHANGED <<mailboxVars, atStart, changes>>

\* The task a token names has left the mailbox: the request is refused and the
\* client's walk ends in its error.
Fail ==
  /\ phase \in Owners /\ ~Valid(phase)
  /\ phase' = "failed"
  /\ UNCHANGED <<mailboxVars, own, readerVars, atStart, changes>>

-----------------------------------------------------------------------------
Init ==
  /\ owner = [t \in Tasks |-> "none"]
  /\ stamp = [t \in Tasks |-> 0]
  /\ clock = 0
  /\ phase = "idle"
  /\ cursor = FirstCursor
  /\ own = <<>>
  /\ got = <<>>
  /\ total = 0
  /\ pages = 0
  /\ seen = {}
  /\ incomplete = FALSE
  /\ atStart = [owner |-> owner, settled |-> {}]
  /\ changes = 0

Next ==
  \/ \E t \in Tasks, o \in Owners : Arrive(t, o)
  \/ \E t \in Tasks, o \in {"agent", "gone"} : Reroute(t, o)
  \/ \E t \in Tasks, o \in Owners \cup {"gone"}, now \in 1..MaxClock : Settle(t, o, now)
  \/ Begin
  \/ ListSession
  \/ ListAgentAndFollow
  \/ Fail

Spec == Init /\ [][Next]_vars

-----------------------------------------------------------------------------
(* Properties *)

Entries == [id : Tasks, stamp : Nat]
Cursors == [tokens : [Owners -> Tasks \cup {Start, EXHAUSTED}], skip : 0..(2 * PageSize - 1),
            totals : [Owners -> Nat \cup {-1}]]

ListingTypeOK ==
  /\ owner \in [Tasks -> Owners \cup Nowhere]
  /\ stamp \in [Tasks -> 0..MaxClock] /\ clock \in 0..MaxClock
  /\ phase \in {"idle", "session", "agent", "done", "failed"}
  /\ cursor \in Cursors
  /\ phase = "agent" => /\ own.tasks \in Seq(Entries) /\ Len(own.tasks) <= PageSize
                        /\ own.next \in Tasks \cup {Start} /\ own.total \in Nat
  /\ got \in Seq(Tasks) /\ total \in Nat
  /\ pages \in 0..MaxPages /\ (phase # "done" => pages < MaxPages)
  /\ incomplete \in BOOLEAN /\ changes \in 0..MaxChanges

Finished == phase = "done" /\ ~incomplete

\* The client's "complete" (inbox): not cut short and as many messages as totalSize.
Complete == Finished /\ Len(got) = total

\* A walk that reached the last token read every message that was settled when it
\* began, however many arrived or settled between its pages (HubTaskStore.list).
NothingSettledIsMissed == Finished => atStart.settled \subseteq ToSet(got)

\* With nothing changing, the walk ends by itself and returns the mailbox exactly, each
\* message once, as many as totalSize says, and its first page holds the newest.  A bound of
\* one page for each message and one more is enough for that.
QuietWalkIsExact ==
  phase \in {"done", "failed"} /\ changes = 0 /\ MaxPages > MaxTasks =>
     /\ Complete
     /\ ToSet(got) = Stored
     /\ IsInjective(got)
     /\ \A i, j \in DOMAIN got : i <= PageSize /\ i < j => stamp[got[i]] >= stamp[got[j]]

\* list_all_tasks "stops without raising": the one request of a walk that is refused is for
\* a token whose task had not settled when the walk began and has left its mailbox since.
\* Settled mail alone is read to the end, whatever happens to the rest.
RefusedOnlyForUnsettled ==
  phase = "failed" =>
    \E o \in Owners : LET t == cursor.tokens[o]
                      IN  t \in Tasks \ atStart.settled /\ owner[t] # o

\* client.py lets "complete" stand for "the whole mailbox was actually read": every
\* message that stayed in its mailbox since the read began is among those returned.
CompleteIsWhole ==
  Complete => {t \in Stored : owner[t] = atStart.owner[t]} \subseteq ToSet(got)

-----------------------------------------------------------------------------
(* Why nothing settled is missed: no change takes away a task before a settled one, so that
   its place in the batch never comes nearer than the windows already returned. *)

Least(m, n) == IF m <= n THEN m ELSE n

\* What a token leaves to be read of a mailbox, and the cursor's.
Ahead(o, token) == IF token = EXHAUSTED THEN {} ELSE Rest(o, token)
Left(o) == Ahead(o, cursor.tokens[o])

\* The tasks of A with a timestamp of at least c, and the entries of a page.
Since(A, c) == {s \in A : stamp[s] >= c}
NewerIn(page, c) == Cardinality({i \in 1..Len(page) : page[i].stamp >= c})

Descends(page) == \A i, j \in 1..Len(page) : i < j => page[i].stamp >= page[j].stamp

\* How many precede a task: of its own mailbox, and of the page of the other one.
Place(t) == Rank(t, Left(owner[t]), NewestFirst)
Beside(t) ==
  Least(PageSize, Cardinality(IF owner[t] = "session" THEN Since(Left("agent"), stamp[t] + 1)
                              ELSE Since(Left("session"), stamp[t])))

\* The task is behind this page of its mailbox, or not before the next window of the batch.
Awaits(t) ==
  /\ t \in Left(owner[t])
  /\ Place(t) >= PageSize \/ Place(t) + Beside(t) >= cursor.skip

\* The same when the session's page was read and the agent's is not.
AwaitsAgent(t) ==
  /\ t \in Left(owner[t])
  /\ IF owner[t] = "agent"
     THEN /\ NewerIn(own.tasks, stamp[t]) <= Beside(t)
          /\ Place(t) >= PageSize \/ Place(t) + NewerIn(own.tasks, stamp[t]) >= cursor.skip
     ELSE \/ \E i \in 1..Len(own.tasks) :
               /\ own.tasks[i] = [id |-> t, stamp |-> stamp[t]]
               /\ i - 1 <= Place(t) /\ i - 1 + Beside(t) >= cursor.skip
          \/ Place(t) >= PageSize /\ own.next \in Tasks /\ (t = own.next \/ Newer(own.next, t))

\* What is inductive of any walk.
WalkInv ==
  /\ ListingTypeOK
  /\ phase = "idle" => cursor = FirstCursor /\ atStart.settled = {}
  /\ phase = "agent" => Descends(own.tasks)
  /\ \A t \in atStart.settled : t \in Tasks /\ owner[t] \in Owners /\ stamp[t] > 0
  /\ \A t \in atStart.settled \ ToSet(got) :
       /\ phase = "session" => Awaits(t)
       /\ phase = "agent" => AwaitsAgent(t)
       /\ phase = "done" => incomplete

(* Why an undisturbed walk is exact: what was returned is what the cursor has passed. *)

\* The batch a cursor is about, and the tasks before its next window.
BatchAt(c) == MergeBatch([o \in Owners |-> Respond(o, c.tokens[o])])
Passed(c) ==
  {t \in Stored : t \notin Ahead(owner[t], c.tokens[owner[t]])}
    \cup {BatchAt(c)[i] : i \in 1..c.skip}

\* Nothing is newer than a message of the first page but those returned before it.
NewestCameFirst ==
  \A i \in 1..Len(got) : i <= PageSize =>
    /\ \A j \in 1..Len(got) : i < j => stamp[got[i]] >= stamp[got[j]]
    /\ \A t \in Stored \ ToSet(got) : stamp[got[i]] >= stamp[t]

QuietInv ==
  /\ phase = "idle" => got = <<>> /\ pages = 0 /\ seen = {}
  /\ changes = 0 /\ phase # "idle" =>
      /\ phase # "failed" /\ IsInjective(got) /\ NewestCameFirst
      /\ phase = "agent" => own = Respond("session", cursor.tokens["session"])
      /\ phase # "done" =>
           /\ ToSet(got) = Passed(cursor) /\ pages <= Len(got)
           /\ \A o \in Owners : cursor.tokens[o] \in {Start, EXHAUSTED} \cup Mailbox(o)
           /\ \A c \in seen : Passed(c) \subseteq ToSet(got)
           /\ IF pages = 0 THEN cursor = FirstCursor
              ELSE /\ Len(got) >= PageSize /\ cursor.skip < Len(BatchAt(cursor))
                   /\ cursor.totals = [o \in Owners |-> Cardinality(Mailbox(o))]
      /\ phase = "done" /\ MaxPages > MaxTasks =>
           ~incomplete /\ ToSet(got) = Stored /\ Len(got) = total

(* Why settled mail is never refused: a token that names it is that of its mailbox. *)

TokensHold ==
  /\ \A o \in Owners : cursor.tokens[o] \in atStart.settled => owner[cursor.tokens[o]] = o
  /\ phase = "agent" /\ own.next \in atStart.settled => owner[own.next] = "session"
  /\ RefusedOnlyForUnsettled

\* The inductive invariant of the module.
ListingInv == WalkInv /\ QuietInv /\ TokensHold
=============================================================================
