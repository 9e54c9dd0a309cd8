---------------------------- MODULE ServerProofs ----------------------------
(***************************************************************************)
(* ServerInv is an invariant of the hub for any requests, tokens, agents   *)
(* and columns, and the safety properties of Server follow from it.        *)
(*                                                                         *)
(* First the schema: every statement of create_schema, every failure of    *)
(* one, and the death of the process keep SchemaInv, for any number of     *)
(* callers.  Only the register's callers are serialised by the lock; what  *)
(* the others may rely on is that columns are never taken away.            *)
(***************************************************************************)
EXTENDS Server, TLAPS

\* A database of any release has no column that today's has not.
LEMMA OlderIsPart ==
  ASSUME NEW b \in Tables
  PROVE  /\ Columns(b) \in Older(b) /\ Columns(b) \subseteq AllColumns /\ Columns(b) # {}
         /\ \A cols \in Older(b) : cols \subseteq Columns(b)
<1>1. columns[b] \in Seq(STRING) /\ columns[b] # <<>>
  BY SchemaAssumption
<1>2. Len(columns[b]) \in Nat /\ DOMAIN columns[b] = 1..Len(columns[b]) /\ 1 \in 1..Len(columns[b])
      /\ Len(columns[b]) \in 0..Len(columns[b])
  BY <1>1
<1>3. Columns(b) = {columns[b][i] : i \in 1..Len(columns[b])}
  BY <1>2 DEF Columns
<1>4. Columns(b) \in Older(b)
  BY <1>2, <1>3 DEF Older
<1>5. Columns(b) # {} /\ Columns(b) \subseteq AllColumns
  <2>1. columns[b][1] \in Columns(b)
    BY <1>2, <1>3
  <2>2. QED BY <2>1 DEF AllColumns
<1>6. \A cols \in Older(b) : cols \subseteq Columns(b)
  BY <1>2, <1>3 DEF Older
<1>7. QED BY <1>4, <1>5, <1>6

\* Adding the first column that is missing makes the database of a later release.
LEMMA OlderGrows ==
  ASSUME NEW b \in Tables, NEW cols \in Older(b), NEW found \in SUBSET cols,
         NEW c, c \notin cols, FirstMissing(b, c, found)
  PROVE  cols \cup {c} \in Older(b)
<1>1. columns[b] \in Seq(STRING) /\ DOMAIN columns[b] = 1..Len(columns[b]) /\ Len(columns[b]) \in Nat
  BY SchemaAssumption
<1>2. PICK n \in 0..Len(columns[b]) : cols = {columns[b][j] : j \in 1..n}
  BY DEF Older
<1>3. PICK i \in 1..Len(columns[b]) : columns[b][i] = c /\ \A j \in 1..(i - 1) : columns[b][j] \in found
  BY <1>1 DEF FirstMissing
<1>4. i > n
  BY <1>1, <1>2, <1>3
<1>5. cols \cup {c} = {columns[b][j] : j \in 1..i}
  <2>1. \A j \in 1..i : columns[b][j] \in cols \cup {c}
    BY <1>3
  <2>2. \A x \in cols \cup {c} : \E j \in 1..i : x = columns[b][j]
    BY <1>2, <1>3, <1>4
  <2>3. QED BY <2>1, <2>2
<1>6. i \in 0..Len(columns[b])
  BY <1>1
<1>7. QED BY <1>5, <1>6 DEF Older

\* What a call knows survives the steps of the others: columns are only added, a table is
\* not forgotten to be ready, and those of the register wait while it holds the lock.
LEMMA OthersKnow ==
  ASSUME NEW j \in Calls, CallKnows(j), mig'[j] = mig[j], lock' = j <=> lock = j,
         \A b \in Tables : db[b] \subseteq db'[b] /\ (ready[b] => ready'[b]),
         lock = j => db'["agents"] = db["agents"]
  PROVE  CallKnows(j)'
<1>1. ~At(j, "out") => mig[j].on \in Tables
  BY DEF CallKnows
<1>2. At(j, "alter") => ~At(j, "out")
  BY DEF At
<1>3. At(j, "returned") => ~At(j, "out")
  BY DEF At
<1>4. QED
  BY <1>1, <1>2, <1>3 DEF CallKnows, At

\* A call that enters or leaves create_schema disturbs nobody.
LEMMA EnterOrLeave ==
  ASSUME SchemaInv, NEW k \in Calls, mig[k].at \in {"out", "returned", "raised"},
         NEW to, to = Out \/ (\E b \in Tables : to = Entered(b)),
         mig' = [mig EXCEPT ![k] = to], UNCHANGED <<db, ready, lock>>
  PROVE  SchemaInv'
<1>1. to \in MigRecords
  BY DEF Entered, Out, MigRecords, Migrating
<1>2. /\ mig'[k] = to /\ mig' \in [Calls -> MigRecords]
      /\ \A j \in Calls : j # k => mig'[j] = mig[j]
  BY <1>1 DEF SchemaInv
<1>3. lock # k
  BY DEF SchemaInv, CallKnows, Migrating
<1>4. CallKnows(k)'
  <2>1. CASE to = Out
    BY <2>1, <1>2, <1>3 DEF CallKnows, At, Out, Migrating
  <2>2. ASSUME NEW b \in Tables, to = Entered(b) PROVE CallKnows(k)'
    BY <2>2, <1>2, <1>3 DEF Entered, CallKnows, At, Migrating, Tables
  <2>3. QED BY <2>1, <2>2
<1>5. ASSUME NEW j \in Calls, j # k PROVE CallKnows(j)'
  BY <1>2, <1>5, OthersKnow DEF SchemaInv
<1>6. QED
  BY <1>2, <1>4, <1>5 DEF SchemaInv

\* The lock is taken, or found to be no longer needed.
LEMMA AcquireStep ==
  ASSUME SchemaInv, NEW k \in Calls, Acquire(k)
  PROVE  SchemaInv'
<1>0. CallKnows(k) /\ mig[k] \in MigRecords /\ mig[k].on = "agents"
  BY DEF SchemaInv, Acquire, CallKnows
<1>1. mig' = [mig EXCEPT ![k].at = IF ready["agents"] THEN "returned" ELSE "exists"]
  BY DEF Acquire, Step
<1>2. /\ mig'[k].at = (IF ready["agents"] THEN "returned" ELSE "exists")
      /\ mig'[k].on = "agents" /\ mig'[k].why = mig[k].why
      /\ mig'[k] \in MigRecords /\ mig' \in [Calls -> MigRecords]
      /\ \A j \in Calls : j # k => mig'[j] = mig[j]
  BY <1>0, <1>1 DEF SchemaInv, MigRecords, Migrating
<1>3. /\ lock = NoCall /\ UNCHANGED <<db, ready>>
      /\ lock' = IF ready["agents"] THEN NoCall ELSE k
  BY DEF Acquire
<1>4. k # NoCall /\ \A j \in Calls : j # NoCall
  BY SchemaAssumption
<1>5. CallKnows(k)'
  BY <1>0, <1>2, <1>3, <1>4 DEF CallKnows, At, Migrating, Tables
<1>6. ASSUME NEW j \in Calls, j # k PROVE CallKnows(j)'
  BY <1>2, <1>3, <1>4, <1>6, OthersKnow DEF SchemaInv
<1>7. QED
  BY <1>2, <1>3, <1>5, <1>6 DEF SchemaInv

\* A call that ends badly lets the lock go.
LEMMA RaiseStep ==
  ASSUME SchemaInv, NEW k \in Calls, mig[k].at \in Migrating,
         NEW why \in {"clash", "required", "database"}, why = "clash" => mig[k].on = "marks",
         Raise(k, why)
  PROVE  SchemaInv'
<1>0. CallKnows(k) /\ mig[k] \in MigRecords /\ mig[k].on \in Tables
  BY DEF SchemaInv, CallKnows, At, Migrating
<1>1. /\ mig'[k] = [at |-> "raised", on |-> mig[k].on, found |-> {}, why |-> why]
      /\ \A j \in Calls : j # k => mig'[j] = mig[j]
      /\ mig' \in [Calls -> MigRecords]
  BY <1>0 DEF SchemaInv, Raise, MigRecords
<1>2. UNCHANGED <<db, ready>> /\ lock' = IF lock = k THEN NoCall ELSE lock
  BY DEF Raise, Unlock
<1>3. k # NoCall /\ \A j \in Calls : j # NoCall
  BY SchemaAssumption
<1>4. CallKnows(k)'
  BY <1>0, <1>1, <1>2, <1>3 DEF CallKnows, At, Migrating
<1>5. ASSUME NEW j \in Calls, j # k PROVE CallKnows(j)'
  BY <1>1, <1>2, <1>3, <1>5, OthersKnow DEF SchemaInv
<1>6. QED
  BY <1>1, <1>2, <1>4, <1>5 DEF SchemaInv

\* A database error, wherever it comes.
LEMMA DatabaseFailsStep ==
  ASSUME SchemaInv, NEW k \in Calls, DatabaseFails(k)
  PROVE  SchemaInv'
  BY RaiseStep DEF DatabaseFails, Migrating

\* Looking whether the table exists, and reading its columns: the calls of the register
\* that do so hold the lock, so what they see stays true until they have acted on it.
LEMMA LookStep ==
  ASSUME SchemaInv, NEW k \in Calls, TableExists(k) \/ Inspect(k)
  PROVE  SchemaInv'
<1>0. CallKnows(k) /\ mig[k] \in MigRecords /\ mig[k].on \in Tables /\ mig[k].at \in {"exists", "inspect"}
  BY DEF SchemaInv, TableExists, Inspect, CallKnows, At
<1>1. /\ mig'[k].at \in {"create", "inspect", "alter"}
      /\ mig'[k].at = "create" => db[mig[k].on] = {}
      /\ mig'[k].at = "alter" => mig'[k].found = db[mig[k].on]
      /\ mig'[k].on = mig[k].on /\ mig'[k].why = mig[k].why
      /\ mig' \in [Calls -> MigRecords]
      /\ \A j \in Calls : j # k => mig'[j] = mig[j]
      /\ UNCHANGED <<db, ready, lock>>
  <2>1. CASE TableExists(k)
    BY <1>0, <2>1 DEF SchemaInv, TableExists, Step, At, MigRecords, Migrating
  <2>2. CASE Inspect(k)
    BY <1>0, <2>2 DEF SchemaInv, Inspect, At, MigRecords, Migrating
  <2>3. QED BY <2>1, <2>2
<1>2. CallKnows(k)'
  BY <1>0, <1>1 DEF CallKnows, At, Migrating
<1>3. ASSUME NEW j \in Calls, j # k PROVE CallKnows(j)'
  BY <1>1, <1>3, OthersKnow DEF SchemaInv
<1>4. QED
  BY <1>1, <1>2, <1>3 DEF SchemaInv

\* Adding columns to the table of a call that is migrating it: the database stays one of
\* some release, and a table that was ready was complete.
LEMMA Adding ==
  ASSUME SchemaInv, NEW b \in Tables,
         NEW cols \in Older(b), db[b] \subseteq cols, db' = [db EXCEPT ![b] = cols]
  PROVE  /\ db' \in [Tables -> SUBSET AllColumns]
         /\ db'[b] = cols
         /\ \A c \in Tables : c # b => db'[c] = db[c]
         /\ \A c \in Tables : db'[c] \in Older(c) /\ (ready[c] => db'[c] = Columns(c))
<1>1. cols \subseteq Columns(b) /\ cols \in SUBSET AllColumns
  BY OlderIsPart
<1>2. /\ db' \in [Tables -> SUBSET AllColumns] /\ db'[b] = cols
      /\ \A c \in Tables : c # b => db'[c] = db[c]
  BY <1>1 DEF SchemaInv
<1>3. ready[b] => cols = Columns(b)
  BY <1>1 DEF SchemaInv
<1>4. QED
  BY <1>2, <1>3 DEF SchemaInv

\* The other calls do not notice: those of the register wait for the lock.
LEMMA AddingUnnoticed ==
  ASSUME SchemaInv, NEW k \in Calls, NEW b \in Tables, mig[k].on = b, mig[k].at \in Migrating,
         UNCHANGED <<ready, lock>>, db[b] \subseteq db'[b],
         \A c \in Tables : c # b => db'[c] = db[c],
         NEW j \in Calls, j # k, mig'[j] = mig[j]
  PROVE  CallKnows(j)'
<1>1. \A c \in Tables : db[c] \subseteq db'[c] /\ (ready[c] => ready'[c])
  OBVIOUS
<1>2. lock = j => b # "agents"
  BY DEF SchemaInv, CallKnows
<1>3. lock = j => db'["agents"] = db["agents"]
  BY <1>2 DEF Tables
<1>4. QED
  BY <1>1, <1>3, OthersKnow DEF SchemaInv

\* CREATE TABLE makes a complete table, or finds that another call has made one.
LEMMA CreateTableStep ==
  ASSUME SchemaInv, NEW k \in Calls, CreateTable(k)
  PROVE  SchemaInv'
<1> DEFINE b == mig[k].on
<1>0. CallKnows(k) /\ mig[k] \in MigRecords /\ b \in Tables /\ mig[k].at = "create"
  BY DEF SchemaInv, CreateTable, CallKnows, At
<1>1. CASE db[b] # {}
  <2>1. b = "marks"
    BY <1>0, <1>1 DEF CallKnows, At, Migrating, Tables
  <2>2. QED
    BY <1>0, <1>1, <2>1, RaiseStep DEF CreateTable, Migrating
<1>2. CASE db[b] = {}
  <2>1. /\ db' = [db EXCEPT ![b] = Columns(b)] /\ UNCHANGED <<ready, lock>>
        /\ mig' = [mig EXCEPT ![k].at = "inspect"]
    BY <1>2 DEF CreateTable, Step
  <2>2. /\ mig'[k].at = "inspect" /\ mig'[k].on = b /\ mig'[k].why = mig[k].why
        /\ mig' \in [Calls -> MigRecords]
        /\ \A j \in Calls : j # k => mig'[j] = mig[j]
    BY <1>0, <2>1 DEF SchemaInv, MigRecords, Migrating
  <2>3. /\ db' \in [Tables -> SUBSET AllColumns]
        /\ \A c \in Tables : db'[c] \in Older(c) /\ (ready[c] => db'[c] = Columns(c))
        /\ db[b] \subseteq db'[b] /\ \A c \in Tables : c # b => db'[c] = db[c]
    BY <1>0, <1>2, <2>1, OlderIsPart, Adding
  <2>4. CallKnows(k)'
    BY <1>0, <2>1, <2>2 DEF CallKnows, At, Migrating
  <2>5. ASSUME NEW j \in Calls, j # k PROVE CallKnows(j)'
    BY <1>0, <2>1, <2>2, <2>3, <2>5, AddingUnnoticed DEF Migrating
  <2>6. QED
    BY <2>1, <2>2, <2>3, <2>4, <2>5 DEF SchemaInv
<1>3. QED BY <1>1, <1>2

\* ALTER TABLE adds the first missing column; on the register it cannot be there already.
LEMMA AlterTableStep ==
  ASSUME SchemaInv, NEW k \in Calls, AlterTable(k)
  PROVE  SchemaInv'
<1> DEFINE b == mig[k].on
<1>0. CallKnows(k) /\ mig[k] \in MigRecords /\ b \in Tables /\ mig[k].at = "alter"
  BY DEF SchemaInv, AlterTable, CallKnows, At
<1>1. PICK c \in Columns(b) \ mig[k].found :
        /\ FirstMissing(b, c, mig[k].found)
        /\ IF c \in Undefaulted THEN Raise(k, "required")
           ELSE IF c \in db[b] THEN Raise(k, "clash")
           ELSE /\ db' = [db EXCEPT ![b] = @ \cup {c}]
                /\ mig' = [mig EXCEPT ![k].found = @ \cup {c}]
                /\ UNCHANGED <<ready, lock>>
  BY DEF AlterTable
<1>2. CASE c \in Undefaulted
  BY <1>0, <1>1, <1>2, RaiseStep DEF Migrating
<1>3. CASE c \notin Undefaulted /\ c \in db[b]
  <2>1. b = "marks"
    BY <1>0, <1>1, <1>3 DEF CallKnows, At, Migrating, Tables
  <2>2. QED
    BY <1>0, <1>1, <1>3, <2>1, RaiseStep DEF Migrating
<1>4. CASE c \notin Undefaulted /\ c \notin db[b]
  <2>1. /\ db' = [db EXCEPT ![b] = db[b] \cup {c}] /\ UNCHANGED <<ready, lock>>
        /\ mig' = [mig EXCEPT ![k].found = mig[k].found \cup {c}]
    BY <1>1, <1>4
  <2>2. c \in AllColumns /\ mig[k].found \subseteq AllColumns /\ mig[k].found \subseteq db[b]
    BY <1>0, <1>1 DEF MigRecords, CallKnows, At, AllColumns
  <2>3. /\ mig'[k].at = "alter" /\ mig'[k].on = b /\ mig'[k].why = mig[k].why
        /\ mig'[k].found = mig[k].found \cup {c}
        /\ mig' \in [Calls -> MigRecords]
        /\ \A j \in Calls : j # k => mig'[j] = mig[j]
    BY <1>0, <2>1, <2>2 DEF SchemaInv, MigRecords
  <2>4. db[b] \cup {c} \in Older(b)
    BY <1>0, <1>1, <1>4, <2>2, OlderGrows DEF SchemaInv
  <2>5. /\ db' \in [Tables -> SUBSET AllColumns]
        /\ db'[b] = db[b] \cup {c}
        /\ \A d \in Tables : db'[d] \in Older(d) /\ (ready[d] => db'[d] = Columns(d))
        /\ \A d \in Tables : d # b => db'[d] = db[d]
    BY <1>0, <2>1, <2>4, Adding
  <2>6. CallKnows(k)'
    BY <1>0, <2>1, <2>2, <2>3, <2>5 DEF CallKnows, At, Migrating
  <2>7. ASSUME NEW j \in Calls, j # k PROVE CallKnows(j)'
    BY <1>0, <2>1, <2>3, <2>5, <2>7, AddingUnnoticed DEF Migrating
  <2>8. QED
    BY <2>1, <2>3, <2>5, <2>6, <2>7 DEF SchemaInv
<1>5. QED BY <1>2, <1>3, <1>4

\* _ready is set when every column was found or added.
LEMMA FinishStep ==
  ASSUME SchemaInv, NEW k \in Calls, Finish(k)
  PROVE  SchemaInv' /\ ready'[mig[k].on]
<1> DEFINE b == mig[k].on
<1>0. CallKnows(k) /\ mig[k] \in MigRecords /\ b \in Tables /\ mig[k].at = "alter"
  BY DEF SchemaInv, Finish, CallKnows, At
<1>1. /\ mig'[k].at = "returned" /\ mig'[k].on = b /\ mig'[k].why = mig[k].why
      /\ mig' \in [Calls -> MigRecords]
      /\ \A j \in Calls : j # k => mig'[j] = mig[j]
  BY <1>0 DEF SchemaInv, Finish, MigRecords
<1>2. /\ ready' \in [Tables -> BOOLEAN] /\ ready'[b]
      /\ \A c \in Tables : c # b => ready'[c] = ready[c]
      /\ UNCHANGED db /\ lock' = IF lock = k THEN NoCall ELSE lock
  BY <1>0 DEF SchemaInv, Finish, Unlock
<1>3. db[b] = Columns(b)
  BY <1>0, OlderIsPart DEF SchemaInv, Finish, CallKnows
<1>4. k # NoCall /\ \A j \in Calls : j # NoCall
  BY SchemaAssumption
<1>5. CallKnows(k)'
  BY <1>0, <1>1, <1>2, <1>4 DEF CallKnows, At, Migrating
<1>6. ASSUME NEW j \in Calls, j # k PROVE CallKnows(j)'
  BY <1>1, <1>2, <1>4, <1>6, OthersKnow DEF SchemaInv
<1>7. QED
  BY <1>1, <1>2, <1>3, <1>5, <1>6 DEF SchemaInv

\* Each step of create_schema.
LEMMA CreateSchemaStep ==
  ASSUME SchemaInv, NEW k \in Calls, create_schema(k)
  PROVE  SchemaInv'
  BY AcquireStep, LookStep, CreateTableStep, AlterTableStep, FinishStep DEF create_schema

\* The database keeps what the process leaves; the calls are gone.
LEMMA ForgetStep ==
  ASSUME SchemaInv, Forget
  PROVE  SchemaInv'
<1>1. mig' \in [Calls -> MigRecords]
  BY DEF Forget, Out, MigRecords
<1>2. ASSUME NEW k \in Calls PROVE CallKnows(k)'
  BY SchemaAssumption DEF Forget, CallKnows, At, Out, Migrating
<1>3. QED
  BY <1>1, <1>2 DEF SchemaInv, Forget

\* A database of any release, and no call yet.
LEMMA SchemaInitInv == SchemaInit => SchemaInv
<1> SUFFICES ASSUME SchemaInit PROVE SchemaInv
  OBVIOUS
<1>1. /\ db \in [Tables -> UNION {Older(b) : b \in Tables}]
      /\ \A b \in Tables : db[b] \in Older(b)
  BY DEF SchemaInit
<1>2. db \in [Tables -> SUBSET AllColumns]
  BY <1>1, OlderIsPart
<1>3. mig \in [Calls -> MigRecords]
  BY DEF SchemaInit, Out, MigRecords
<1>4. ASSUME NEW k \in Calls PROVE CallKnows(k)
  BY SchemaAssumption DEF SchemaInit, CallKnows, At, Out, Migrating
<1>5. QED
  BY <1>1, <1>2, <1>3, <1>4 DEF SchemaInit, SchemaInv

-----------------------------------------------------------------------------
(* The hub *)

\* ServerInv without what its other parts imply.
Core ==
  /\ SchemaInv
  /\ proc \in {"down", "starting", "serving"}
  /\ tokens \in TokenMaps /\ known \subseteq Agents
  /\ call \in [Requests -> CallRecords]
  /\ \A r \in Requests : RequestShape(r)
  /\ LifespanShape

LEMMA CoreIsEnough == Core <=> ServerInv
<1>1. ServerInv => Core
  BY DEF ServerInv, ServerTypeOK, Core
<1>2. ASSUME Core PROVE ServerTypeOK
  <2>1. \A k \in Calls : At(k, "out") <=> mig[k] = Out
    <3>1. Out.at = "out"
      BY DEF Out
    <3>2. QED BY <1>2, <3>1 DEF Core, SchemaInv, CallKnows, At
  <2>2. lock # NoCall => mig[lock].on = "agents" /\ mig[lock].at \in {"exists", "create", "inspect", "alter"}
    BY <1>2 DEF Core, SchemaInv, CallKnows, Migrating
  <2>3. QED
    BY <1>2, <2>1, <2>2, ServerAssumption DEF Core, SchemaInv, RequestShape, ServerTypeOK
<1>3. QED
  BY <1>1, <1>2 DEF Core, ServerInv

\* The agents that hold a token of a map are configured agents.
LEMMA HoldersAreAgents ==
  ASSUME NEW m \in TokenMaps
  PROVE  Holders(m) \subseteq Agents
  BY DEF TokenMaps, Holders

\* What a step of create_schema changes for others and for its own call.
LEMMA MigrateShape ==
  ASSUME SchemaInv, NEW k \in Calls, create_schema(k) \/ DatabaseFails(k)
  PROVE  /\ \A j \in Calls : j # k => mig'[j] = mig[j]
         /\ mig[k].at \in Migrating \cup {"lock"} /\ mig'[k].at # "out"
         /\ mig'[k].on = mig[k].on
         /\ \A b \in Tables : ready[b] => ready'[b]
         /\ At(k, "lock") /\ ready["agents"] => mig'[k].at = "returned"
<1>0. mig \in [Calls -> MigRecords] /\ mig[k] \in MigRecords /\ ready \in [Tables -> BOOLEAN]
  BY DEF SchemaInv
<1>1. ASSUME NEW why, Raise(k, why), mig[k].at \in Migrating
      PROVE  /\ \A j \in Calls : j # k => mig'[j] = mig[j]
             /\ mig'[k].at = "raised" /\ mig'[k].on = mig[k].on
             /\ ready' = ready
  BY <1>0, <1>1 DEF Raise, MigRecords
<1>2. CASE Acquire(k)
  BY <1>0, <1>2 DEF Acquire, Step, At, MigRecords, Migrating
<1>3. CASE TableExists(k) \/ Inspect(k)
  BY <1>0, <1>3 DEF TableExists, Inspect, Step, At, MigRecords, Migrating
<1>4. CASE CreateTable(k)
  BY <1>0, <1>1, <1>4 DEF CreateTable, Step, At, MigRecords, Migrating
<1>5. CASE AlterTable(k)
  BY <1>0, <1>1, <1>5 DEF AlterTable, At, MigRecords, Migrating
<1>6. CASE Finish(k)
  BY <1>0, <1>6 DEF Finish, At, MigRecords, Migrating
<1>7. CASE DatabaseFails(k)
  BY <1>1, <1>7 DEF DatabaseFails, Migrating, At
<1>8. QED
  BY <1>2, <1>3, <1>4, <1>5, <1>6, <1>7 DEF create_schema

\* A step of create_schema, or a failing statement of it.
LEMMA MigrateStep ==
  ASSUME Core, NEW k \in Calls, create_schema(k) \/ DatabaseFails(k), UNCHANGED <<hubVars, call>>
  PROVE  Core'
<1>1. SchemaInv'
  BY CreateSchemaStep, DatabaseFailsStep DEF Core
<1>2. /\ \A j \in Calls : j # k => mig'[j] = mig[j]
      /\ mig[k].at \in Migrating \cup {"lock"} /\ mig'[k].at # "out"
      /\ mig'[k].on = mig[k].on
      /\ \A b \in Tables : ready[b] => ready'[b]
      /\ At(k, "lock") /\ ready["agents"] => mig'[k].at = "returned"
  BY MigrateShape DEF Core
<1>3. UNCHANGED <<proc, lifespan, tokens, known, call>>
  BY DEF hubVars
<1>4. \A j \in Calls : At(j, "out")' = At(j, "out")
  BY <1>2 DEF At, Migrating
<1>5. \A r \in Requests : r \in Calls /\ Boot \in Calls
  BY ServerAssumption
<1>6. \A r \in Requests : RequestShape(r)'
  BY <1>3, <1>4, <1>5 DEF Core, RequestShape
<1>7. LifespanShape'
  <2>1. /\ proc' = "starting" <=> ~At(Boot, "out")'
        /\ proc' = "starting" => known' = Holders(tokens')
    BY <1>3, <1>4, ServerAssumption DEF Core, LifespanShape
  <2>2. mig'[Boot].on = "marks" => ready'["agents"]
    BY <1>2, ServerAssumption DEF Core, LifespanShape, Tables
  <2>3. ASSUME lifespan, proc = "serving"
        PROVE  /\ \A b \in Tables : ready'[b]
               /\ \A r \in Requests : mig'[r].at \in {"out", "lock", "returned"}
    BY <1>2, <1>5, <2>3, ServerAssumption DEF Core, LifespanShape, At, Migrating, Tables
  <2>4. QED
    BY <1>3, <2>1, <2>2, <2>3 DEF LifespanShape
<1>8. QED
  BY <1>1, <1>3, <1>6, <1>7 DEF Core

\* A request that goes on: its own place in create_schema is the only one it changes.
LEMMA RequestStep ==
  ASSUME Core, NEW r \in Requests, mig[r].at \in {"out", "returned", "raised"},
         UNCHANGED <<db, ready, lock, hubVars>>,
         NEW to, to = Out \/ (\E b \in Tables : to = Entered(b)),
         mig' = [mig EXCEPT ![r] = to],
         NEW next \in CallRecords, call' = [call EXCEPT ![r] = next],
         to.at = "out" <=> next.step \in {"idle", "handle"},
         next.step # "idle" => proc = "serving"
  PROVE  Core'
<1>0. r \in Calls /\ Boot \in Calls /\ r # Boot
  BY ServerAssumption
<1>1. SchemaInv'
  BY <1>0, EnterOrLeave DEF Core
<1>2. /\ mig'[r] = to /\ \A k \in Calls : k # r => mig'[k] = mig[k]
      /\ call'[r] = next /\ \A q \in Requests : q # r => call'[q] = call[q]
      /\ call' \in [Requests -> CallRecords]
  BY <1>0 DEF Core, SchemaInv
<1>3. UNCHANGED <<proc, lifespan, tokens, known, ready>>
  BY DEF hubVars
<1>4. ASSUME NEW q \in Requests PROVE RequestShape(q)'
  <2>1. CASE q = r
    BY <2>1, <1>2, <1>3 DEF RequestShape, At
  <2>2. CASE q # r
    BY <2>2, <1>2, <1>3, ServerAssumption DEF Core, RequestShape, At
  <2>3. QED BY <2>1, <2>2
<1>5. LifespanShape'
  <2>1. mig'[Boot] = mig[Boot]
    BY <1>0, <1>2
  <2>2. ASSUME \A b \in Tables : ready[b] PROVE to.at \in {"out", "lock", "returned"}
    BY <2>2 DEF Out, Entered
  <2>3. ASSUME lifespan, proc = "serving", NEW q \in Requests
        PROVE  mig'[q].at \in {"out", "lock", "returned"}
    <3>1. (\A b \in Tables : ready[b]) /\ mig[q].at \in {"out", "lock", "returned"} /\ q \in Calls
      BY <2>3, ServerAssumption DEF Core, LifespanShape
    <3>2. QED BY <3>1, <2>2, <1>2
  <2>4. QED
    BY <1>3, <2>1, <2>3 DEF Core, LifespanShape, At
<1>6. QED
  BY <1>1, <1>2, <1>3, <1>4, <1>5 DEF Core

\* An authenticated request arrives.
LEMMA ArriveStep ==
  ASSUME Core, NEW r \in Requests, NEW t \in Tokens, NEW kind \in Kinds, Arrive(r, t, kind)
  PROVE  Core'
<1>0. /\ proc = "serving" /\ call[r] = Idle /\ UNCHANGED <<db, ready, lock, hubVars>>
      /\ mig[r].at = "out" /\ mig \in [Calls -> MigRecords] /\ r \in Calls
  BY ServerAssumption DEF Arrive, Core, RequestShape, At, Idle, SchemaInv
<1>1. CASE /\ call' = [call EXCEPT ![r] = [step |-> "touch", kind |-> kind]]
           /\ mig' = [mig EXCEPT ![r] = Entered("agents")]
  <2>1. /\ "agents" \in Tables /\ Entered("agents").at = "lock"
        /\ [step |-> "touch", kind |-> kind] \in CallRecords
    BY DEF Tables, Entered, CallRecords
  <2>2. QED BY <1>0, <1>1, <2>1, RequestStep
<1>2. CASE /\ call' = [call EXCEPT ![r] = [step |-> "handle", kind |-> kind]]
           /\ UNCHANGED mig
  <2>1. mig[r] = Out /\ Out.at = "out"
    BY <1>0 DEF Core, SchemaInv, CallKnows, At, Out
  <2>2. mig' = [mig EXCEPT ![r] = Out] /\ [step |-> "handle", kind |-> kind] \in CallRecords
    BY <1>0, <1>2, <2>1 DEF CallRecords
  <2>3. QED BY <1>0, <1>2, <2>1, <2>2, RequestStep
<1>3. QED
  BY <1>1, <1>2 DEF Arrive

\* A request goes from its touch to its handler, to the tables, and away.
LEMMA ServeStep ==
  ASSUME Core, NEW r \in Requests, Serve(r)
  PROVE  Core'
<1>0. /\ r \in Calls /\ RequestShape(r) /\ CallKnows(r)
      /\ call[r] \in CallRecords /\ mig \in [Calls -> MigRecords] /\ call \in [Requests -> CallRecords]
      /\ Out.at = "out" /\ Idle.step = "idle" /\ Idle \in CallRecords
  BY ServerAssumption DEF Core, SchemaInv, Out, Idle, CallRecords
<1> DEFINE Move(step) == [step |-> step, kind |-> call[r].kind]
<1>1. ASSUME NEW step \in {"handle", "schema"}, Goes(r, step)
      PROVE  call' = [call EXCEPT ![r] = Move(step)] /\ Move(step) \in CallRecords
  <2>1. Move(step) \in CallRecords
    BY <1>0 DEF CallRecords
  <2>2. Move(step) = [call[r] EXCEPT !.step = step]
    BY <1>0 DEF CallRecords
  <2>3. call' = [call EXCEPT ![r] = [call[r] EXCEPT !.step = step]]
    BY <1>0, <1>1 DEF Goes
  <2>4. QED BY <2>1, <2>2, <2>3
<1>2. CASE TouchEnds(r)
  <2>1. /\ call' = [call EXCEPT ![r] = Move("handle")] /\ Move("handle") \in CallRecords
        /\ mig' = [mig EXCEPT ![r] = Out] /\ UNCHANGED <<db, ready, lock, hubVars>>
        /\ mig[r].at \in {"out", "returned", "raised"} /\ proc = "serving"
    BY <1>0, <1>1, <1>2 DEF TouchEnds, Leaves, RequestShape
  <2>2. QED BY <2>1, <1>0, RequestStep
<1>3. CASE Answer(r)
  <2>1. /\ call' = [call EXCEPT ![r] = Idle] /\ mig' = [mig EXCEPT ![r] = Out]
        /\ UNCHANGED <<db, ready, lock, hubVars>> /\ mig[r].at = "out"
    BY <1>0, <1>3 DEF Answer, schemaVars, RequestShape, CallKnows, At
  <2>2. QED BY <2>1, <1>0, RequestStep
<1>4. CASE Query(r)
  <2>1. /\ call' = [call EXCEPT ![r] = Move("schema")] /\ Move("schema") \in CallRecords
        /\ mig' = [mig EXCEPT ![r] = Entered(call[r].kind)] /\ call[r].kind \in Tables
        /\ UNCHANGED <<db, ready, lock, hubVars>>
        /\ mig[r].at = "out" /\ proc = "serving" /\ Entered(call[r].kind).at # "out"
    BY <1>0, <1>1, <1>4 DEF Query, RequestShape, At, Entered
  <2>2. QED BY <2>1, RequestStep
<1>5. CASE QueryEnds(r)
  <2>1. /\ call' = [call EXCEPT ![r] = Idle] /\ mig' = [mig EXCEPT ![r] = Out]
        /\ UNCHANGED <<db, ready, lock, hubVars>>
        /\ mig[r].at \in {"out", "returned", "raised"}
    BY <1>0, <1>5 DEF QueryEnds, Leaves
  <2>2. QED BY <2>1, <1>0, RequestStep
<1>6. QED
  BY <1>2, <1>3, <1>4, <1>5 DEF Serve

\* A hub that does not serve has no requests.
LEMMA NoRequests ==
  ASSUME Core, proc # "serving", NEW r \in Requests
  PROVE  At(r, "out")
  BY DEF Core, RequestShape

\* The lifespan moves on, from nothing to the register, to the marks, to serving.
LEMMA BootStep ==
  ASSUME Core, (\E m \in TokenMaps, skips \in BOOLEAN : Start(m, skips)) \/ Started
  PROVE  Core'
<1>0. /\ Boot \in Calls /\ \A r \in Requests : r # Boot /\ r \in Calls
      /\ mig \in [Calls -> MigRecords] /\ CallKnows(Boot)
      /\ proc # "serving" /\ UNCHANGED <<db, ready, lock, call>>
  BY ServerAssumption DEF Core, SchemaInv, Start, Started, LifespanShape, At
<1>1. ASSUME NEW to, to = Out \/ (\E b \in Tables : to = Entered(b)),
             mig[Boot].at \in {"out", "returned", "raised"}, mig' = [mig EXCEPT ![Boot] = to]
      PROVE  /\ SchemaInv' /\ mig'[Boot] = to
             /\ \A r \in Requests : mig'[r] = mig[r]
  BY <1>0, <1>1, EnterOrLeave DEF Core
<1>2. ASSUME NEW m \in TokenMaps, NEW skips \in BOOLEAN, Start(m, skips) PROVE Core'
  <2>1. /\ proc = "down" /\ mig[Boot].at = "out" /\ mig[Boot] = Out
        /\ known' = Holders(m) /\ tokens' = m /\ lifespan' = ~skips
        /\ known' \subseteq Agents
    BY <1>0, <1>2, HoldersAreAgents DEF Start, Core, LifespanShape, CallKnows, At
  <2>2. CASE skips
    <3>1. proc' = "serving" /\ UNCHANGED mig /\ ~lifespan'
      BY <1>2, <2>1, <2>2 DEF Start
    <3>2. SchemaInv'
      BY <1>0, <3>1 DEF Core, SchemaInv, CallKnows, At
    <3>3. \A r \in Requests : RequestShape(r)'
      BY <1>0, <3>1 DEF Core, RequestShape, At
    <3>4. LifespanShape'
      BY <1>0, <2>1, <3>1 DEF Core, LifespanShape, At
    <3>5. QED BY <1>0, <2>1, <3>1, <3>2, <3>3, <3>4 DEF Core
  <2>3. CASE ~skips
    <3>1. /\ proc' = "starting" /\ mig' = [mig EXCEPT ![Boot] = Entered("agents")]
          /\ "agents" \in Tables
      BY <1>2, <2>3 DEF Start, Tables
    <3>2. /\ SchemaInv' /\ mig'[Boot] = Entered("agents")
          /\ \A r \in Requests : mig'[r] = mig[r]
      BY <2>1, <3>1, <1>1
    <3>3. \A r \in Requests : RequestShape(r)'
      BY <1>0, <2>1, <3>1, <3>2 DEF Core, RequestShape, At
    <3>4. LifespanShape'
      BY <2>1, <3>1, <3>2 DEF LifespanShape, At, Entered
    <3>5. QED BY <1>0, <2>1, <3>1, <3>2, <3>3, <3>4 DEF Core
  <2>4. QED BY <2>2, <2>3
<1>3. CASE Started
  <2>1. /\ mig[Boot].at = "returned" /\ ready[mig[Boot].on] /\ mig[Boot].on \in Tables
        /\ proc = "starting" /\ known = Holders(tokens)
        /\ mig[Boot].on = "marks" => ready["agents"]
        /\ UNCHANGED <<lifespan, tokens, known>>
        /\ mig[Boot].on = "agents" => mig' = [mig EXCEPT ![Boot] = Entered("marks")] /\ UNCHANGED proc
        /\ mig[Boot].on = "marks" => mig' = [mig EXCEPT ![Boot] = Out] /\ proc' = "serving"
    BY <1>0, <1>3 DEF Started, Core, LifespanShape, CallKnows, At, Tables
  <2>2. CASE mig[Boot].on = "agents"
    <3>1. /\ SchemaInv' /\ mig'[Boot] = Entered("marks")
          /\ \A r \in Requests : mig'[r] = mig[r]
      BY <2>1, <2>2, <1>1 DEF Tables
    <3>2. \A r \in Requests : RequestShape(r)'
      BY <1>0, <2>1, <2>2, <3>1 DEF Core, RequestShape, At
    <3>3. LifespanShape'
      BY <1>0, <2>1, <2>2, <3>1 DEF LifespanShape, At, Entered
    <3>4. QED BY <1>0, <2>1, <2>2, <3>1, <3>2, <3>3 DEF Core
  <2>3. CASE mig[Boot].on = "marks"
    <3>1. /\ SchemaInv' /\ mig'[Boot] = Out
          /\ \A r \in Requests : mig'[r] = mig[r]
      BY <2>1, <2>3, <1>1
    <3>2. \A r \in Requests : RequestShape(r)' /\ mig'[r].at = "out"
      BY <1>0, <2>1, <2>3, <3>1, NoRequests DEF Core, RequestShape, At
    <3>3. LifespanShape'
      BY <1>0, <2>1, <2>3, <3>1, <3>2 DEF LifespanShape, At, Out, Tables
    <3>4. QED BY <1>0, <2>1, <2>3, <3>1, <3>2, <3>3 DEF Core
  <2>4. QED BY <2>1, <2>2, <2>3 DEF Tables
<1>4. QED
  BY <1>2, <1>3

\* The process ends, by a failed start or otherwise.
LEMMA StopStep ==
  ASSUME Core, Stop
  PROVE  Core'
<1>1. SchemaInv'
  BY ForgetStep DEF Core, Stop
<1>2. /\ proc' = "down" /\ UNCHANGED <<tokens, known>>
      /\ \A r \in Requests : call'[r] = Idle
      /\ \A k \in Calls : mig'[k] = Out
      /\ call' \in [Requests -> CallRecords]
  BY DEF Stop, Forget, Idle, CallRecords
<1>3. \A r \in Requests : RequestShape(r)'
  BY <1>2, ServerAssumption DEF RequestShape, Idle, Out, At
<1>4. LifespanShape'
  BY <1>2, ServerAssumption DEF LifespanShape, Out, At
<1>5. QED
  BY <1>1, <1>2, <1>3, <1>4 DEF Core

\* Tokens are rotated.
LEMMA RotateStep ==
  ASSUME Core, NEW m \in TokenMaps, Rotate(m)
  PROVE  Core'
<1>1. proc = "serving" /\ tokens' = m /\ UNCHANGED <<db, ready, lock, mig, proc, lifespan, known, call>>
  BY DEF Rotate, schemaVars
<1>2. SchemaInv'
  BY <1>1 DEF Core, SchemaInv, CallKnows, At
<1>3. (\A r \in Requests : RequestShape(r)') /\ LifespanShape'
  BY <1>1 DEF Core, RequestShape, LifespanShape, At
<1>4. QED
  BY <1>1, <1>2, <1>3 DEF Core

LEMMA ServerInitInv ==
  ASSUME Init
  PROVE  Core
<1>1. /\ SchemaInv /\ \A k \in Calls : mig[k] = Out
      /\ proc = "down" /\ lifespan = FALSE /\ known = {}
      /\ tokens = [t \in Tokens |-> NoAgent] /\ call = [r \in Requests |-> Idle]
  BY SchemaInitInv DEF Init, SchemaInit
<1>2. tokens \in TokenMaps /\ call \in [Requests -> CallRecords]
  BY <1>1 DEF TokenMaps, CallRecords, Idle
<1>3. \A r \in Requests : RequestShape(r)
  BY <1>1, ServerAssumption DEF RequestShape, Idle, Out, At
<1>4. LifespanShape
  BY <1>1, ServerAssumption DEF LifespanShape, Out, At
<1>5. QED
  BY <1>1, <1>2, <1>3, <1>4 DEF Core

LEMMA ServerNextInv ==
  ASSUME Core, [Next]_vars
  PROVE  Core'
<1>1. CASE (\E m \in TokenMaps, skips \in BOOLEAN : Start(m, skips)) \/ Started
  BY <1>1, BootStep
<1>2. CASE StartFails \/ Kill
  BY <1>2, StopStep DEF StartFails, Kill
<1>3. CASE \E m \in TokenMaps : Rotate(m)
  BY <1>3, RotateStep
<1>4. CASE \E r \in Requests, t \in Tokens, kind \in Kinds : Arrive(r, t, kind)
  BY <1>4, ArriveStep
<1>5. CASE \E r \in Requests : Serve(r)
  BY <1>5, ServeStep
<1>6. CASE \E k \in Calls : Migrate(k)
  BY <1>6, MigrateStep DEF Migrate
<1>7. CASE \E k \in Calls : DatabaseFails(k) /\ UNCHANGED <<hubVars, call>>
  BY <1>7, MigrateStep
<1>8. CASE UNCHANGED vars
  <2>1. UNCHANGED <<db, ready, lock, mig, proc, lifespan, tokens, known, call>>
    BY <1>8 DEF vars, schemaVars, hubVars
  <2>2. SchemaInv'
    BY <2>1 DEF Core, SchemaInv, CallKnows, At
  <2>3. (\A r \in Requests : RequestShape(r)') /\ LifespanShape'
    BY <2>1 DEF Core, RequestShape, LifespanShape, At
  <2>4. QED BY <2>1, <2>2, <2>3 DEF Core
<1>9. QED
  BY <1>1, <1>2, <1>3, <1>4, <1>5, <1>6, <1>7, <1>8 DEF Next

-----------------------------------------------------------------------------
\* ServerInv holds in every state of the hub: what a migrating call knows of its table,
\* where each request stands, and what the lifespan leaves to those that come after it.
THEOREM ServerInvariant == Spec => []ServerInv
<1>1. Init => Core
  BY ServerInitInv
<1>2. Core /\ [Next]_vars => Core'
  BY ServerNextInv
<1>3. Core => ServerInv
  BY CoreIsEnough
<1>4. QED
  BY <1>1, <1>2, <1>3, PTL DEF Spec

\* The values of the hub, and where a request can be while it is in create_schema.
THEOREM ServerTypeTheorem == Spec => []ServerTypeOK
<1>1. ServerInv => ServerTypeOK
  BY DEF ServerInv
<1>2. QED
  BY <1>1, ServerInvariant, PTL

\* add_missing_columns: whoever returns from create_schema finds every column it will
\* name, however many calls migrate a database of whatever release.
THEOREM ColumnsTheorem == Spec => []QueriesFindTheirColumns
<1>1. ServerInv => QueriesFindTheirColumns
  BY DEF ServerInv, SchemaInv, CallKnows, At, QueriesFindTheirColumns
<1>2. QED
  BY <1>1, ServerInvariant, PTL

\* AgentRegistry._lock: no first call of the register clashes with another.
THEOREM ClashTheorem == Spec => []RegisterNeverClashes
<1>1. ServerInv => RegisterNeverClashes
  BY DEF ServerInv, SchemaInv, CallKnows, RegisterNeverClashes
<1>2. QED
  BY <1>1, ServerInvariant, PTL

\* A hub that ran its lifespan and serves has both tables complete and refuses no request
\* because of them, for any columns, older release and number of requests.
THEOREM LifespanTheorem == Spec => []LifespanSettlesTheSchema
<1>1. ServerInv => LifespanSettlesTheSchema
  BY DEF ServerInv, SchemaInv, LifespanShape, LifespanSettlesTheSchema, At
<1>2. QED
  BY <1>1, ServerInvariant, PTL
=============================================================================
