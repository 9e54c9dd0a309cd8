------------------------------- MODULE Server -------------------------------
(***************************************************************************)
(* The hub as a process: it starts from the configured tokens, its         *)
(* lifespan migrates the two tables of its own, and every authenticated    *)
(* request is stamped in the register before its handler runs.  Both       *)
(* touch and the handlers call create_schema again, for a transport that   *)
(* runs no lifespan.  Tokens may be rotated while it serves, and it may be *)
(* killed at any moment and started on the same database.                  *)
(***************************************************************************)
EXTENDS Schema

CONSTANTS
  Requests, \* requests in progress at a time
  Boot,     \* the coroutine of the lifespan
  Tokens, Agents,
  NoAgent   \* a token that is not configured

ASSUME ServerAssumption ==
  /\ Calls = Requests \cup {Boot} /\ Boot \notin Requests
  /\ NoAgent \notin Agents

VARIABLES
  proc,     \* down, starting or serving
  lifespan, \* the transport runs the lifespan
  tokens,   \* TokenRegistry
  known,    \* the executor's known agents
  call      \* the requests in progress

hubVars == <<proc, lifespan, tokens, known>>
vars == <<schemaVars, hubVars, call>>

TokenMaps == [Tokens -> Agents \cup {NoAgent}]
Holders(m) == {m[t] : t \in Tokens} \ {NoAgent}

\* What a request is for: JSON-RPC, the register's routes, those of the marks.
Kinds == {"mail"} \cup Tables
Idle == [step |-> "idle", kind |-> "none"]

-----------------------------------------------------------------------------
(* Start and stop *)

\* create_app refuses to start without a token and fixes the known agents.
Start(m, skips) ==
  /\ proc = "down" /\ Holders(m) # {}
  /\ tokens' = m /\ known' = Holders(m)
  /\ lifespan' = ~skips
  /\ IF skips THEN proc' = "serving" /\ UNCHANGED mig
     ELSE proc' = "starting" /\ mig' = [mig EXCEPT ![Boot] = Entered("agents")]
  /\ UNCHANGED <<db, ready, lock, call>>

\* Mutation of Started: the marks are left to the first request.
StartedWithRegister ==
  /\ At(Boot, "returned")
  /\ mig' = [mig EXCEPT ![Boot] = Out] /\ proc' = "serving"
  /\ UNCHANGED <<db, ready, lock, lifespan, tokens, known, call>>

\* The lifespan: the register's schema, then that of the marks, then requests.
Started ==
  /\ At(Boot, "returned")
  /\ IF mig[Boot].on = "agents"
     THEN mig' = [mig EXCEPT ![Boot] = Entered("marks")] /\ UNCHANGED proc
     ELSE mig' = [mig EXCEPT ![Boot] = Out] /\ proc' = "serving"
  /\ UNCHANGED <<db, ready, lock, lifespan, tokens, known, call>>

Stop ==
  /\ proc' = "down"
  /\ call' = [r \in Requests |-> Idle]
  /\ Forget
  /\ UNCHANGED <<lifespan, tokens, known>>

\* A lifespan that raises ends the process; so does its death, at any moment.
StartFails == At(Boot, "raised") /\ Stop
Kill == proc # "down" /\ Stop

\* TokenRegistry.replace: the executor's known agents are not touched.
Rotate(m) ==
  /\ proc = "serving"
  /\ tokens' = m
  /\ UNCHANGED <<schemaVars, proc, lifespan, known, call>>

-----------------------------------------------------------------------------
(* A request *)

\* The agent a bearer token belongs to.
resolve(t) == tokens[t]

Goes(r, step) == call' = [call EXCEPT ![r].step = step]
Leaves(r) == mig' = [mig EXCEPT ![r] = Out]

\* Body size, token and session are judged without an await, and a refusal changes
\* nothing; an accepted request is stamped unless that was done lately.
Arrive(r, t, kind) ==
  /\ proc = "serving" /\ call[r] = Idle
  /\ resolve(t) # NoAgent
  /\ \/ /\ call' = [call EXCEPT ![r] = [step |-> "touch", kind |-> kind]]
        /\ mig' = [mig EXCEPT ![r] = Entered("agents")]
     \/ /\ ready["agents"]
        /\ call' = [call EXCEPT ![r] = [step |-> "handle", kind |-> kind]]
        /\ UNCHANGED mig
  /\ UNCHANGED <<db, ready, lock, hubVars>>

\* Mutation of TouchEnds: what the register raises is the answer.
TouchEndsRaising(r) ==
  /\ call[r].step = "touch" /\ mig[r].at \in {"returned", "raised"}
  /\ call' = [call EXCEPT ![r] = IF At(r, "raised") THEN Idle ELSE [@ EXCEPT !.step = "handle"]]
  /\ Leaves(r)
  /\ UNCHANGED <<db, ready, lock, hubVars>>

\* Whatever the register raises is swallowed.
TouchEnds(r) ==
  /\ call[r].step = "touch" /\ mig[r].at \in {"returned", "raised"}
  /\ Goes(r, "handle") /\ Leaves(r)
  /\ UNCHANGED <<db, ready, lock, hubVars>>

\* JSON-RPC uses the SDK's tables alone; so does a request that is refused.
Answer(r) ==
  /\ call[r].step = "handle"
  /\ call' = [call EXCEPT ![r] = Idle]
  /\ UNCHANGED <<schemaVars, hubVars>>

\* The register's and the marks' handlers look after their table first.
Query(r) ==
  /\ call[r].step = "handle" /\ call[r].kind \in Tables
  /\ Goes(r, "schema")
  /\ mig' = [mig EXCEPT ![r] = Entered(call[r].kind)]
  /\ UNCHANGED <<db, ready, lock, hubVars>>

\* Then they query it, or answer 500.
QueryEnds(r) ==
  /\ call[r].step = "schema" /\ mig[r].at \in {"returned", "raised"}
  /\ call' = [call EXCEPT ![r] = Idle]
  /\ Leaves(r)
  /\ UNCHANGED <<db, ready, lock, hubVars>>

-----------------------------------------------------------------------------
Init ==
  /\ SchemaInit
  /\ proc = "down" /\ lifespan = FALSE
  /\ tokens = [t \in Tokens |-> NoAgent] /\ known = {}
  /\ call = [r \in Requests |-> Idle]

Migrate(k) == create_schema(k) /\ UNCHANGED <<hubVars, call>>

Serve(r) == TouchEnds(r) \/ Answer(r) \/ Query(r) \/ QueryEnds(r)

Next ==
  \/ \E m \in TokenMaps, skips \in BOOLEAN : Start(m, skips)
  \/ Started \/ StartFails \/ Kill
  \/ \E m \in TokenMaps : Rotate(m)
  \/ \E r \in Requests, t \in Tokens, kind \in Kinds : Arrive(r, t, kind)
  \/ \E r \in Requests : Serve(r)
  \/ \E k \in Calls : Migrate(k)
  \/ \E k \in Calls : DatabaseFails(k) /\ UNCHANGED <<hubVars, call>>

\* The event loop resumes every coroutine that can go on, and asyncio.Lock wakes those
\* that wait for it in turn.
Fairness ==
  /\ WF_vars(Started \/ StartFails)
  /\ \A k \in Calls : WF_vars(Migrate(k)) /\ SF_vars(Acquire(k) /\ UNCHANGED <<hubVars, call>>)
  /\ \A r \in Requests : WF_vars(Serve(r))

Spec == Init /\ [][Next]_vars /\ Fairness

-----------------------------------------------------------------------------
(* Properties *)

\* Values; a call is in create_schema exactly while it touches or queries, and the lock
\* is held by a call that migrates the register.
ServerTypeOK ==
  /\ \A b \in Tables : db[b] \in Older(b)
  /\ ready \in [Tables -> BOOLEAN]
  /\ lock # NoCall =>
       mig[lock].on = "agents" /\ mig[lock].at \in {"exists", "create", "inspect", "alter"}
  /\ \A r \in Requests : mig[r] = Out <=> call[r].step \in {"idle", "handle"}
  /\ proc \in {"down", "starting", "serving"}
  /\ tokens \in TokenMaps /\ known \subseteq Agents

CallRecords == [step : {"idle", "touch", "handle", "schema"}, kind : Kinds \cup {"none"}]

\* Where a request and the lifespan stand: a request is in create_schema exactly while it
\* touches or queries, and only a serving hub has any; Boot is there while the hub starts.
RequestShape(r) ==
  /\ At(r, "out") <=> call[r].step \in {"idle", "handle"}
  /\ call[r].step # "idle" => proc = "serving"

LifespanShape ==
  /\ proc = "starting" <=> ~At(Boot, "out")
  /\ proc = "starting" => known = Holders(tokens)
  /\ mig[Boot].on = "marks" => ready["agents"]
  /\ lifespan /\ proc = "serving" =>
       /\ \A b \in Tables : ready[b]
       /\ \A r \in Requests : mig[r].at \in {"out", "lock", "returned"}

\* The inductive invariant: what the migration knows, and what the lifespan leaves the
\* requests of a hub that ran it.
ServerInv ==
  /\ SchemaInv
  /\ ServerTypeOK
  /\ call \in [Requests -> CallRecords]
  /\ \A r \in Requests : RequestShape(r)
  /\ LifespanShape

\* "Every listing failed with no such column" (add_missing_columns): whoever returns
\* from create_schema finds every column it will name, on a database of any release,
\* whatever was interrupted and whoever else is migrating.
QueriesFindTheirColumns ==
  \A k \in Calls : At(k, "returned") => db[mig[k].on] = Columns(mig[k].on)

\* Two first calls never add a column, or create a table, twice in the register.
RegisterNeverClashes ==
  \A k \in Calls : mig[k].why = "clash" => mig[k].on = "marks"

\* A schema that cannot be migrated "raises here, loudly and at boot": a hub that ran
\* its lifespan serves with both tables complete, and none of its requests is refused
\* because of them, those of the unlocked marks included.  A transport that runs no
\* lifespan is promised neither.
LifespanSettlesTheSchema ==
  lifespan /\ proc = "serving" =>
    /\ \A b \in Tables : db[b] = Columns(b)
    /\ \A r \in Requests : ~At(r, "raised")

\* "Presence must never be able to break the request it rides on": an accepted request
\* reaches its handler however the register's migration ends or waits for its lock, and
\* ends, one that meets a failing migration itself included.
PresenceNeverBreaksTheRequest ==
  \A r \in Requests :
    /\ call[r].step = "touch" ~> call[r].step = "handle" \/ proc = "down"
    /\ call[r].step # "idle" ~> call[r].step = "idle"
=============================================================================
