------------------------------ MODULE Register ------------------------------
(***************************************************************************)
(* The agent register: what sessions declare about themselves and when the *)
(* server last saw them.                                                   *)
(*                                                                         *)
(* Every authenticated request first stamps last_seen (AgentRegistry.touch,*)
(* throttled by a cache in memory), then its handler runs.  Both read the  *)
(* clock before they await the database, so calls interleave between their *)
(* reading of the clock, their reading of the rows and their writing.      *)
(***************************************************************************)
EXTENDS Integers

CONSTANTS
  Sessions,      \* identities that call
  Calls,         \* bound: requests in progress at the same time
  Roles,         \* roles that can be declared, ROLES
  Projects,      \* lists of projects that can be declared
  Nothing,       \* the role and projects of a row nobody declared
  TOUCH_INTERVAL, REUSE_WINDOW, MANAGER_WINDOW,
  MaxRequests,   \* bound: requests ever made
  MaxDelay,      \* how long a database access may take
  MaxTime        \* bound: the clock

ASSUME RegisterAssumption ==
  /\ "manager" \in Roles /\ Nothing \notin Roles \cup Projects
  /\ {TOUCH_INTERVAL, REUSE_WINDOW, MANAGER_WINDOW} \subseteq Nat \ {0}
  /\ MaxDelay \in Nat /\ MaxRequests \in Nat /\ MaxTime \in Nat

VARIABLES
  now,        \* the clock
  rows,       \* the table agent_registrations, per identity
  last_write, \* the cache of touch, per identity
  calls,      \* requests in progress
  requests,   \* how many were made
  arrived,    \* history: when an identity last sent something
  seen        \* history: arrival of its last request whose touch did not fail

vars == <<now, rows, last_write, calls, requests, arrived, seen>>

Never == -1
Times == 0..MaxTime
Declarations == [role : Roles, projects : Projects]
NoDeclaration == [role |-> Nothing, projects |-> Nothing]
NoRow == [present |-> FALSE, says |-> NoDeclaration, declared_at |-> Never,
          last_seen |-> Never, retired |-> FALSE]
Idle == [step |-> "idle"]

-----------------------------------------------------------------------------
(* The rules of the register *)

Listed(i) == rows[i].present /\ ~rows[i].retired

\* Mutation of Reused: only the projects are compared.
ReusedByProjects(i, says, at) ==
  /\ Listed(i) /\ rows[i].says.projects # says.projects
  /\ rows[i].declared_at # Never /\ at - rows[i].declared_at < REUSE_WINDOW

\* A session whose own entry says something else, declared lately.
Reused(i, says, at) ==
  /\ Listed(i) /\ rows[i].says # says
  /\ rows[i].declared_at # Never /\ at - rows[i].declared_at < REUSE_WINDOW

\* Mutation of OtherManagers: the age of the declaration instead of last_seen.
OtherManagersDeclared(i, at) ==
  {j \in Sessions \ {i} :
     /\ Listed(j) /\ rows[j].says.role = "manager"
     /\ at - rows[j].declared_at < MANAGER_WINDOW}

\* The managers that were seen lately.
OtherManagers(i, at) ==
  {j \in Sessions \ {i} :
     /\ Listed(j) /\ rows[j].says.role = "manager"
     /\ rows[j].last_seen # Never /\ at - rows[j].last_seen < MANAGER_WINDOW}

\* The warnings, each named by the identity whose row it is about.
_warnings_for(i, says, at) ==
  (IF Reused(i, says, at) THEN {i} ELSE {})
    \cup (IF says.role = "manager" THEN OtherManagers(i, at) ELSE {})

\* GET /agents: an identity never seen is quieter than any threshold.
list_agents(include_retired, quiet_for) ==
  {i \in Sessions :
     /\ rows[i].present /\ (include_retired \/ ~rows[i].retired)
     /\ rows[i].last_seen # Never => now - rows[i].last_seen >= quiet_for}

-----------------------------------------------------------------------------
(* The middleware: touch *)

At(k, step) == calls[k].step = step
Step(k, step) == calls' = [calls EXCEPT ![k].step = step]
Done(k) == calls' = [calls EXCEPT ![k] = Idle]

Fresh(i) == last_write[i] # Never /\ now - last_write[i] < TOUCH_INTERVAL

Later(s, t) == IF s > t THEN s ELSE t

\* Mutation of Request: the cache is updated before the row is written.
RequestCachedEarly(k, i) ==
  /\ At(k, "idle") /\ requests < MaxRequests
  /\ requests' = requests + 1
  /\ calls' = [calls EXCEPT ![k] =
       [step |-> IF Fresh(i) THEN "handle" ELSE "touch", who |-> i, at |-> now]]
  /\ arrived' = [arrived EXCEPT ![i] = now]
  /\ seen' = IF Fresh(i) THEN [seen EXCEPT ![i] = now] ELSE seen
  /\ last_write' = IF Fresh(i) THEN last_write ELSE [last_write EXCEPT ![i] = now]
  /\ UNCHANGED <<now, rows>>

\* Any authenticated request; its touch reads the clock and the cache at once.
Request(k, i) ==
  /\ At(k, "idle") /\ requests < MaxRequests
  /\ requests' = requests + 1
  /\ calls' = [calls EXCEPT ![k] =
       [step |-> IF Fresh(i) THEN "handle" ELSE "touch", who |-> i, at |-> now]]
  /\ arrived' = [arrived EXCEPT ![i] = now]
  /\ seen' = IF Fresh(i) THEN [seen EXCEPT ![i] = now] ELSE seen
  /\ UNCHANGED <<now, rows, last_write>>

\* Mutation of TouchWrite: whoever sends something is listed again.
TouchWriteUnretires(k) ==
  /\ At(k, "touch")
  /\ rows' = [rows EXCEPT ![calls[k].who].present = TRUE,
                          ![calls[k].who].last_seen = calls[k].at,
                          ![calls[k].who].retired = FALSE]
  /\ Step(k, "cache")
  /\ UNCHANGED <<now, last_write, arrived, seen, requests>>

\* The upsert sets last_seen and nothing else.
TouchWrite(k) ==
  /\ At(k, "touch")
  /\ rows' = [rows EXCEPT ![calls[k].who].present = TRUE,
                          ![calls[k].who].last_seen = calls[k].at]
  /\ Step(k, "cache")
  /\ UNCHANGED <<now, last_write, arrived, seen, requests>>

\* The cache is updated when the coroutine resumes after the commit.
TouchCache(k) ==
  /\ At(k, "cache")
  /\ last_write' = [last_write EXCEPT ![calls[k].who] = calls[k].at]
  /\ seen' = [seen EXCEPT ![calls[k].who] = Later(@, calls[k].at)]
  /\ Step(k, "handle")
  /\ UNCHANGED <<now, rows, arrived, requests>>

\* A touch that raises is swallowed, and the request goes on.
TouchFails(k) ==
  /\ At(k, "touch")
  /\ Step(k, "handle")
  /\ UNCHANGED <<now, rows, last_write, arrived, seen, requests>>

-----------------------------------------------------------------------------
(* The handlers *)

\* A request that does not change the register, or whose body is refused.
Other(k) ==
  /\ At(k, "handle")
  /\ Done(k)
  /\ UNCHANGED <<now, rows, last_write, arrived, seen, requests>>

Declare(k, says) ==
  /\ At(k, "handle")
  /\ calls' = [calls EXCEPT ![k] =
       [step |-> "read", who |-> @.who, at |-> now, says |-> says]]
  /\ arrived' = [arrived EXCEPT ![calls[k].who] = now]
  /\ UNCHANGED <<now, rows, last_write, seen, requests>>

DeclareRead(k) ==
  /\ At(k, "read")
  /\ LET call == calls[k]
     IN  calls' = [calls EXCEPT ![k] =
           [step |-> "write", who |-> call.who, at |-> call.at, says |-> call.says,
            warned |-> _warnings_for(call.who, call.says, call.at)]]
  /\ UNCHANGED <<now, rows, last_write, arrived, seen, requests>>

\* Introducing yourself un-retires you.
DeclareWrite(k) ==
  /\ At(k, "write")
  /\ rows' = [rows EXCEPT ![calls[k].who] =
       [present |-> TRUE, says |-> calls[k].says, declared_at |-> calls[k].at,
        last_seen |-> calls[k].at, retired |-> FALSE]]
  /\ Done(k)
  /\ UNCHANGED <<now, last_write, arrived, seen, requests>>

UpdateStatus(k) ==
  /\ At(k, "handle")
  /\ calls' = [calls EXCEPT ![k].step = "status", ![k].at = now]
  /\ arrived' = [arrived EXCEPT ![calls[k].who] = now]
  /\ UNCHANGED <<now, rows, last_write, seen, requests>>

\* Mutation of StatusWrite: a status invents a row nobody declared.
StatusWriteUnchecked(k) ==
  /\ At(k, "status")
  /\ rows' = [rows EXCEPT ![calls[k].who].declared_at = calls[k].at,
                          ![calls[k].who].last_seen = calls[k].at]
  /\ Done(k)
  /\ UNCHANGED <<now, last_write, requests, arrived, seen>>

\* Refused unless the identity introduced itself; a retired row stays retired.
StatusWrite(k) ==
  /\ At(k, "status")
  /\ LET i == calls[k].who
     IN  rows' = IF rows[i].declared_at = Never THEN rows
                 ELSE [rows EXCEPT ![i].declared_at = calls[k].at,
                                   ![i].last_seen = calls[k].at]
  /\ Done(k)
  /\ UNCHANGED <<now, last_write, arrived, seen, requests>>

Retire(k) ==
  /\ At(k, "handle")
  /\ rows' = [rows EXCEPT ![calls[k].who].retired = rows[calls[k].who].present]
  /\ Done(k)
  /\ UNCHANGED <<now, last_write, arrived, seen, requests>>

-----------------------------------------------------------------------------
\* Time passes while no database access exceeds MaxDelay.
Tick ==
  /\ now < MaxTime
  /\ \A k \in Calls :
       calls[k].step \in {"touch", "cache", "read", "write", "status"} => now - calls[k].at < MaxDelay
  /\ now' = now + 1
  /\ UNCHANGED <<rows, last_write, calls, arrived, seen, requests>>

\* The process restarts: the table survives, calls and cache do not.
Restart ==
  /\ calls' = [k \in Calls |-> Idle]
  /\ last_write' = [i \in Sessions |-> Never]
  /\ UNCHANGED <<now, rows, arrived, seen, requests>>

Init ==
  /\ now = 0
  /\ rows = [i \in Sessions |-> NoRow]
  /\ last_write = [i \in Sessions |-> Never]
  /\ calls = [k \in Calls |-> Idle]
  /\ requests = 0
  /\ arrived = [i \in Sessions |-> Never]
  /\ seen = [i \in Sessions |-> Never]

Touch(k) == TouchWrite(k) \/ TouchCache(k) \/ TouchFails(k)

Handler(k) ==
  \/ Other(k)
  \/ \E says \in Declarations : Declare(k, says)
  \/ DeclareRead(k) \/ DeclareWrite(k)
  \/ UpdateStatus(k) \/ StatusWrite(k)
  \/ Retire(k)

Next ==
  \/ \E k \in Calls, i \in Sessions : Request(k, i)
  \/ \E k \in Calls : Touch(k) \/ Handler(k)
  \/ Tick
  \/ Restart

Spec == Init /\ [][Next]_vars

-----------------------------------------------------------------------------
(* Properties *)

\* Values, and no half-filled entry: declared_at is set where a declaration is.
RegisterTypeOK ==
  /\ now \in Times
  /\ rows \in [Sessions -> [present : BOOLEAN, says : Declarations \cup {NoDeclaration},
                            declared_at : Times \cup {Never},
                            last_seen : Times \cup {Never}, retired : BOOLEAN]]
  /\ \A i \in Sessions : /\ rows[i].declared_at # Never <=> rows[i].says # NoDeclaration
                         /\ rows[i].says # NoDeclaration \/ rows[i].retired => rows[i].present
  /\ last_write \in [Sessions -> Times \cup {Never}]
  /\ requests \in 0..MaxRequests
  /\ arrived \in [Sessions -> Times \cup {Never}]
  /\ seen \in [Sessions -> Times \cup {Never}]

\* How far last_seen may lag behind the last request: it is not stamped again within
\* TOUCH_INTERVAL, and a slow touch may overwrite a newer stamp.
Lag == TOUCH_INTERVAL + MaxDelay

\* What a call holds at each step: whose request it is, when its last clock was read, and
\* while it declares what it says and the warnings it has worked out.
Held(steps) == [step : steps, who : Sessions, at : Times]
CallRecords ==
  {Idle} \cup Held({"touch", "cache", "handle", "status"})
    \cup [step : {"read"}, who : Sessions, at : Times, says : Declarations]
    \cup [step : {"write"}, who : Sessions, at : Times, says : Declarations,
          warned : SUBSET Sessions]

\* last_seen is no later than the last request and lags behind the cache, and the last
\* request that was noticed, by what a throttled and a slow touch may lose.
Stamps(i) ==
  /\ rows[i].last_seen <= arrived[i]
  /\ arrived[i] <= now /\ seen[i] <= now /\ last_write[i] <= now
  /\ last_write[i] # Never => rows[i].last_seen # Never
                             /\ last_write[i] <= rows[i].last_seen + MaxDelay
  /\ seen[i] # Never => rows[i].last_seen # Never /\ seen[i] < rows[i].last_seen + Lag

\* Whom a declaration that is about to be stored replaces, or joins as a manager: what was
\* declared, and seen, before it can have begun to read.
Replaced(i, says, at) ==
  /\ Listed(i) /\ rows[i].says # says
  /\ rows[i].declared_at # Never
  /\ rows[i].declared_at + MaxDelay < at /\ at < rows[i].declared_at + REUSE_WINDOW

Joined(i, at) ==
  /\ Listed(i) /\ rows[i].says.role = "manager"
  /\ rows[i].declared_at + MaxDelay < at
  /\ seen[i] # Never
  /\ at - MANAGER_WINDOW + Lag <= seen[i] /\ seen[i] + MaxDelay < at

Accessing == {"touch", "cache", "read", "write", "status"}

\* What a call may rely on: its clock is not old while it waits for the database, a touch
\* that is stored stays visible, and its warnings name everybody they should.
CallKnows(k) ==
  LET call == calls[k]
  IN  /\ call.step # "idle" => call.at <= arrived[call.who]
      /\ call.step \in Accessing => now - call.at <= MaxDelay
      /\ call.step = "cache" => rows[call.who].last_seen # Never
                               /\ call.at <= rows[call.who].last_seen + MaxDelay
      /\ call.step = "write" /\ Replaced(call.who, call.says, call.at) => call.who \in call.warned
      /\ call.step = "write" /\ call.says.role = "manager" =>
           \A j \in Sessions \ {call.who} : Joined(j, call.at) => j \in call.warned

\* The inductive invariant of the register.
RegisterInv ==
  /\ RegisterTypeOK
  /\ calls \in [Calls -> CallRecords]
  /\ \A k \in Calls : CallKnows(k)
  /\ \A i \in Sessions : Stamps(i)

\* "Who has gone quiet" is the server's own observation, both ways, whatever calls are
\* in progress: an agent listed as quiet sent nothing later than the threshold less the
\* lag, and an agent left out of that listing has sent something within the threshold.
QuietListingIsTrue ==
  \A q \in 0..MaxTime :
    LET quiet == list_agents(TRUE, q)
    IN  /\ \A i \in quiet : seen[i] # Never => now - seen[i] > q - Lag
        /\ \A i \in Sessions \ quiet : rows[i].present => now - arrived[i] < q

\* A manager that introduced itself, and made a request lately, is named in the answer
\* to whoever introduces itself as a manager after it, touch being throttled or not.
ActiveManagerIsNoticed ==
  [][\A k \in Calls : DeclareWrite(k) /\ calls[k].says.role = "manager" =>
       \A j \in Sessions \ {calls[k].who} :
         Joined(j, calls[k].at) => j \in calls[k].warned]_vars

\* Two processes that share a session: a declaration that replaces a different one made
\* within REUSE_WINDOW is answered with a warning, unless the two overlap.
ReuseIsNoticed ==
  [][\A k \in Calls :
       DeclareWrite(k) /\ Replaced(calls[k].who, calls[k].says, calls[k].at) =>
         calls[k].who \in calls[k].warned]_vars

\* An entry belongs to its identity: what it says changes only by its own introduction,
\* and a session that retired stays out of the listing, whatever it or anybody else sends,
\* its status included, until it introduces itself again.
RetiredUntilIntroduced ==
  [][\A i \in Sessions :
       \/ rows[i].says # rows'[i].says
       \/ rows[i].retired /\ ~rows'[i].retired
       => \E k \in Calls : DeclareWrite(k) /\ calls[k].who = i]_vars

\* declare: "What must never happen is that either passes unremarked": of two managers
\* that introduce themselves, the second to be stored is told of the first.
SecondManagerIsRemarked ==
  [][\A k \in Calls :
       /\ DeclareWrite(k) /\ calls[k].says.role = "manager"
       /\ rows[calls[k].who].declared_at = Never
       => OtherManagers(calls[k].who, calls[k].at) \subseteq calls[k].warned]_vars
=============================================================================
