------------------------------- MODULE Schema -------------------------------
(***************************************************************************)
(* create_schema of the register and of the marks: the table is created if *)
(* absent and the columns an older release did not have are added, one     *)
(* statement after another.  SQLite commits each of these statements by    *)
(* itself, so calls interleave between them and a crash leaves what was    *)
(* done so far.  The register's callers are serialised by a lock, those of *)
(* the marks are not.                                                      *)
(***************************************************************************)
EXTENDS Naturals, Sequences

CONSTANTS
  Calls,      \* coroutines of the process that may call create_schema
  NoCall,     \* nobody holds the lock
  columns,    \* the columns of each table, in the order of its metadata
  Undefaulted \* columns that are NOT NULL without a server default

Tables == {"agents", "marks"}
Columns(b) == {columns[b][i] : i \in DOMAIN columns[b]}

ASSUME SchemaAssumption ==
  /\ NoCall \notin Calls
  /\ \A b \in Tables : columns[b] \in Seq(STRING) \ {<<>>}

VARIABLES
  db,    \* the columns of each table, none when it does not exist
  ready, \* _ready of AgentRegistry and of MessageMarks
  lock,  \* the call that holds AgentRegistry._lock
  mig    \* where each call stands in create_schema

schemaVars == <<db, ready, lock, mig>>

Out == [at |-> "out", on |-> "none", found |-> {}, why |-> "none"]

At(k, step) == mig[k].at = step
Step(k, step) == mig' = [mig EXCEPT ![k].at = step]

\* "async with self._lock": released however the body ends.
Unlock(k) == lock' = IF lock = k THEN NoCall ELSE lock

\* Mutation of Raise: the lock is released only when all goes well.
RaiseLocked(k, why) ==
  /\ mig' = [mig EXCEPT ![k].at = "raised", ![k].why = why, ![k].found = {}]
  /\ UNCHANGED <<db, ready, lock>>

Raise(k, why) ==
  /\ mig' = [mig EXCEPT ![k].at = "raised", ![k].why = why, ![k].found = {}]
  /\ Unlock(k)
  /\ UNCHANGED <<db, ready>>

-----------------------------------------------------------------------------
\* What a caller does to enter create_schema of a table.
Entered(b) ==
  [at |-> IF b = "agents" THEN "lock" ELSE IF ready[b] THEN "returned" ELSE "exists",
   on |-> b, found |-> {}, why |-> "none"]

\* Mutation of Acquire: no lock, as in MessageMarks.
AcquireUnlocked(k) ==
  /\ At(k, "lock")
  /\ Step(k, IF ready["agents"] THEN "returned" ELSE "exists")
  /\ UNCHANGED <<db, ready, lock>>

\* The lock and, under it, a second look at _ready.
Acquire(k) ==
  /\ At(k, "lock") /\ lock = NoCall
  /\ IF ready["agents"] THEN Step(k, "returned") /\ UNCHANGED lock
     ELSE Step(k, "exists") /\ lock' = k
  /\ UNCHANGED <<db, ready>>

\* create_all looks whether the table exists, and creates it with every column.
TableExists(k) ==
  /\ At(k, "exists")
  /\ Step(k, IF db[mig[k].on] = {} THEN "create" ELSE "inspect")
  /\ UNCHANGED <<db, ready, lock>>

CreateTable(k) ==
  /\ At(k, "create")
  /\ LET b == mig[k].on
     IN  IF db[b] # {} THEN Raise(k, "clash")
         ELSE /\ db' = [db EXCEPT ![b] = Columns(b)]
              /\ Step(k, "inspect")
              /\ UNCHANGED <<ready, lock>>

\* add_missing_columns reads the columns once and compares with what it has read.
Inspect(k) ==
  /\ At(k, "inspect")
  /\ mig' = [mig EXCEPT ![k].at = "alter", ![k].found = db[mig[k].on]]
  /\ UNCHANGED <<db, ready, lock>>

\* The columns of the metadata that come before c have been found or added.
FirstMissing(b, c, found) ==
  \E i \in DOMAIN columns[b] :
     columns[b][i] = c /\ \A j \in 1..(i - 1) : columns[b][j] \in found

\* The first column it did not find is added, if that can be done.
AlterTable(k) ==
  /\ At(k, "alter")
  /\ LET b == mig[k].on
     IN  \E c \in Columns(b) \ mig[k].found :
           /\ FirstMissing(b, c, mig[k].found)
           /\ IF c \in Undefaulted THEN Raise(k, "required")
              ELSE IF c \in db[b] THEN Raise(k, "clash")
              ELSE /\ db' = [db EXCEPT ![b] = @ \cup {c}]
                   /\ mig' = [mig EXCEPT ![k].found = @ \cup {c}]
                   /\ UNCHANGED <<ready, lock>>

\* Mutation of Finish: what create_all did is taken for enough.
FinishUnaltered(k) ==
  /\ At(k, "alter")
  /\ ready' = [ready EXCEPT ![mig[k].on] = TRUE]
  /\ mig' = [mig EXCEPT ![k].at = "returned", ![k].found = {}]
  /\ Unlock(k)
  /\ UNCHANGED db

Finish(k) ==
  /\ At(k, "alter") /\ Columns(mig[k].on) \subseteq mig[k].found
  /\ ready' = [ready EXCEPT ![mig[k].on] = TRUE]
  /\ mig' = [mig EXCEPT ![k].at = "returned", ![k].found = {}]
  /\ Unlock(k)
  /\ UNCHANGED db

\* A statement fails for a reason of its own, a locked or a full database.
DatabaseFails(k) ==
  /\ mig[k].at \in {"exists", "create", "inspect", "alter"}
  /\ Raise(k, "database")

create_schema(k) ==
  \/ Acquire(k) \/ TableExists(k) \/ CreateTable(k)
  \/ Inspect(k) \/ AlterTable(k) \/ Finish(k)

-----------------------------------------------------------------------------
\* A database of this or an older release: a prefix of today's columns.
Older(b) == {{columns[b][i] : i \in 1..n} : n \in 0..Len(columns[b])}

SchemaInit ==
  /\ db \in {d \in [Tables -> UNION {Older(b) : b \in Tables}] : \A b \in Tables : d[b] \in Older(b)}
  /\ ready = [b \in Tables |-> FALSE]
  /\ lock = NoCall
  /\ mig = [k \in Calls |-> Out]

\* The process is gone; the database stays as it is.
Forget ==
  /\ ready' = [b \in Tables |-> FALSE]
  /\ lock' = NoCall
  /\ mig' = [k \in Calls |-> Out]
  /\ UNCHANGED db

-----------------------------------------------------------------------------
Migrating == {"exists", "create", "inspect", "alter"}
AllColumns == UNION {Columns(b) : b \in Tables}
MigRecords == [at : Migrating \cup {"out", "lock", "returned", "raised"}, on : Tables \cup {"none"},
               found : SUBSET AllColumns, why : {"none", "clash", "required", "database"}]

\* What a call in create_schema may rely on: that the columns it has found are there, on
\* the register that nobody else changes them, and when it returns that all are.
CallKnows(k) ==
  /\ IF At(k, "out") THEN mig[k] = Out ELSE mig[k].on \in Tables
  /\ At(k, "lock") => mig[k].on = "agents"
  /\ lock = k <=> mig[k].on = "agents" /\ mig[k].at \in Migrating
  /\ lock = k /\ At(k, "create") => db["agents"] = {}
  /\ At(k, "alter") => mig[k].found \subseteq db[mig[k].on]
  /\ lock = k /\ At(k, "alter") => mig[k].found = db["agents"]
  /\ At(k, "returned") => ready[mig[k].on]
  /\ mig[k].why = "clash" => mig[k].on = "marks"

\* The inductive invariant of the migration: _ready is only said of a complete table.
SchemaInv ==
  /\ db \in [Tables -> SUBSET AllColumns] /\ \A b \in Tables : db[b] \in Older(b)
  /\ ready \in [Tables -> BOOLEAN] /\ \A b \in Tables : ready[b] => db[b] = Columns(b)
  /\ lock \in Calls \cup {NoCall}
  /\ mig \in [Calls -> MigRecords]
  /\ \A k \in Calls : CallKnows(k)
=============================================================================
