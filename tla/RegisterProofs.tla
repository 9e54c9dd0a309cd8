--------------------------- MODULE RegisterProofs ---------------------------
(***************************************************************************)
(* RegisterInv is an invariant of the register for any sessions, calls,    *)
(* declarations and windows, and what the register promises follows from   *)
(* it.  The argument is about stale values: whatever a call writes is a    *)
(* clock it read at most MaxDelay ago, so that a row that changes while    *)
(* another call is between its read and its write is a row that call may   *)
(* miss, and no other.                                                     *)
(***************************************************************************)
EXTENDS Register, TLAPS

Rows == [present : BOOLEAN, says : Declarations \cup {NoDeclaration},
         declared_at : Times \cup {Never}, last_seen : Times \cup {Never}, retired : BOOLEAN]

\* The constants as numbers.
LEMMA Constants ==
  /\ TOUCH_INTERVAL \in Nat /\ TOUCH_INTERVAL > 0
  /\ REUSE_WINDOW \in Nat /\ MANAGER_WINDOW \in Nat
  /\ MaxDelay \in Nat /\ MaxRequests \in Nat /\ MaxTime \in Nat
  /\ Lag = TOUCH_INTERVAL + MaxDelay
  /\ \A t \in Times : t \in Nat
  /\ \A t \in Times \cup {Never} : t \in Int
  /\ Never = -1
  BY RegisterAssumption DEF Lag, Times, Never

\* A row nobody declared names nobody a manager.
LEMMA NobodyManages == NoDeclaration.role # "manager" /\ NoDeclaration \notin Declarations
  BY RegisterAssumption DEF NoDeclaration, Declarations

\* What a call is, by the step it is at.
LEMMA ShapeByStep ==
  ASSUME NEW k \in Calls, calls \in [Calls -> CallRecords]
  PROVE  /\ calls[k].step = "idle" <=> calls[k] = Idle
         /\ calls[k].step \in {"touch", "cache", "handle", "status"} =>
              calls[k] \in Held({"touch", "cache", "handle", "status"})
         /\ calls[k].step = "read" =>
              calls[k] \in [step : {"read"}, who : Sessions, at : Times, says : Declarations]
         /\ calls[k].step = "write" =>
              calls[k] \in [step : {"write"}, who : Sessions, at : Times, says : Declarations,
                            warned : SUBSET Sessions]
         /\ calls[k].step # "idle" => calls[k].who \in Sessions /\ calls[k].at \in Times
         /\ calls[k].step \in {"idle", "touch", "cache", "handle", "read", "write", "status"}
<1>1. calls[k] \in CallRecords
  OBVIOUS
<1>2. QED
  BY <1>1 DEF CallRecords, Held, Idle

\* The record of a call that goes on, with the clock it had or another.
LEMMA Goes ==
  ASSUME NEW r \in Held({"touch", "cache", "handle", "status"}), NEW to, NEW t
  PROVE  /\ [r EXCEPT !.step = to] = [step |-> to, who |-> r.who, at |-> r.at]
         /\ [r EXCEPT !.step = to, !.at = t] = [step |-> to, who |-> r.who, at |-> t]
<1>0. r \in [step : {"touch", "cache", "handle", "status"}, who : Sessions, at : Times]
  BY DEF Held
<1>1. [r EXCEPT !.step = to] = [step |-> to, who |-> r.who, at |-> r.at]
  BY <1>0
<1>2. [r EXCEPT !.step = to, !.at = t] = [[r EXCEPT !.step = to] EXCEPT !.at = t]
  OBVIOUS
<1>3. [[step |-> to, who |-> r.who, at |-> r.at] EXCEPT !.at = t]
        = [step |-> to, who |-> r.who, at |-> t]
  OBVIOUS
<1>4. QED
  BY <1>1, <1>2, <1>3

\* The parts of RegisterTypeOK that a step must keep.
RowSound(i) ==
  /\ rows[i].declared_at # Never <=> rows[i].says # NoDeclaration
  /\ rows[i].says # NoDeclaration \/ rows[i].retired => rows[i].present

Values ==
  /\ now \in Times
  /\ rows \in [Sessions -> Rows] /\ \A i \in Sessions : RowSound(i)
  /\ last_write \in [Sessions -> Times \cup {Never}]
  /\ requests \in 0..MaxRequests
  /\ arrived \in [Sessions -> Times \cup {Never}]
  /\ seen \in [Sessions -> Times \cup {Never}]

\* RegisterInv without what its other parts imply.
Core ==
  /\ Values
  /\ calls \in [Calls -> CallRecords]
  /\ \A k \in Calls : CallKnows(k)
  /\ \A i \in Sessions : Stamps(i)

LEMMA CoreIsEnough == Core <=> RegisterInv
  BY DEF Core, RegisterInv, RegisterTypeOK, Values, RowSound, Rows

\* A row is left alone, or what changes in it is a clock read lately.
RowMoves(i) ==
  /\ \/ rows'[i].last_seen = rows[i].last_seen
     \/ rows'[i].last_seen # Never /\ now <= rows'[i].last_seen + MaxDelay
                                   /\ rows'[i].last_seen <= arrived'[i]
  /\ \/ now <= rows'[i].declared_at + MaxDelay
     \/ /\ rows'[i].says = rows[i].says /\ rows'[i].declared_at = rows[i].declared_at
        /\ rows[i].declared_at # Never /\ Listed(i)' => Listed(i)

SeenMoves(i) ==
  seen'[i] = seen[i] \/ now <= seen'[i] + MaxDelay

\* The calls that do not move keep what they rely on: a row that changed is too young
\* for them to have missed.
LEMMA OthersKnow ==
  ASSUME Core, Values', now' = now, NEW k \in Calls, calls'[k] = calls[k],
         \A i \in Sessions : arrived[i] <= arrived'[i] /\ RowMoves(i) /\ SeenMoves(i)
  PROVE  CallKnows(k)'
<1>0. CallKnows(k)
  BY DEF Core
<1> DEFINE call == calls[k]
<1>2. CASE call.step = "idle"
  BY <1>2 DEF CallKnows, Accessing
<1>3. CASE call.step # "idle"
  <2>1. call.who \in Sessions /\ call.at \in Times
    BY <1>3, ShapeByStep DEF Core
  <2>2. PICK i \in Sessions, t \in Times : i = call.who /\ t = call.at
    BY <2>1
  <2>3. t \in Nat /\ now \in Nat /\ arrived[i] \in Int /\ arrived'[i] \in Int
    BY Constants DEF Core, Values
  <2>4. t <= arrived[i] /\ arrived[i] <= arrived'[i] /\ arrived[i] <= now
    BY <1>0, <1>3, <2>2 DEF CallKnows, Core, Stamps
  <2>5. t <= now /\ t <= arrived'[i]
    BY <2>3, <2>4
  <2>6. ASSUME NEW j \in Sessions
        PROVE  /\ RowMoves(j) /\ SeenMoves(j) /\ RowSound(j)
               /\ rows[j].last_seen \in Int /\ rows'[j].last_seen \in Int
               /\ rows[j].declared_at \in Int /\ rows'[j].declared_at \in Int
               /\ seen[j] \in Int /\ seen'[j] \in Int
    BY Constants DEF Core, Values, Rows
  <2>7. ASSUME call.step = "cache"
        PROVE  rows'[i].last_seen # Never /\ t <= rows'[i].last_seen + MaxDelay
    <3>1. rows[i].last_seen # Never /\ t <= rows[i].last_seen + MaxDelay
      BY <1>0, <2>2, <2>7 DEF CallKnows
    <3>2. QED BY <2>3, <2>5, <2>6, <3>1, Constants DEF RowMoves
  <2>8. ASSUME NEW j \in Sessions, Replaced(j, call.says, t)'
        PROVE  Replaced(j, call.says, t)
    <3>1. Listed(j)' /\ rows'[j].declared_at # Never /\ rows'[j].says # call.says
          /\ rows'[j].declared_at + MaxDelay < t /\ t < rows'[j].declared_at + REUSE_WINDOW
      BY <2>8 DEF Replaced
    <3>2. ~ now <= rows'[j].declared_at + MaxDelay
      BY <2>3, <2>5, <2>6, <3>1, Constants
    <3>3. QED BY <2>6, <3>1, <3>2 DEF RowMoves, Replaced
  <2>9. ASSUME NEW j \in Sessions, Joined(j, t)'
        PROVE  Joined(j, t)
    <3>1. /\ Listed(j)' /\ rows'[j].says.role = "manager"
          /\ rows'[j].declared_at + MaxDelay < t
          /\ seen'[j] # Never
          /\ t - MANAGER_WINDOW + Lag <= seen'[j] /\ seen'[j] + MaxDelay < t
      BY <2>9 DEF Joined
    <3>2. ~ now <= rows'[j].declared_at + MaxDelay /\ ~ now <= seen'[j] + MaxDelay
      BY <2>3, <2>5, <2>6, <3>1, Constants
    <3>3. /\ rows'[j].says = rows[j].says /\ rows'[j].declared_at = rows[j].declared_at
          /\ seen'[j] = seen[j]
          /\ rows[j].declared_at # Never => Listed(j)
      BY <2>6, <3>1, <3>2 DEF RowMoves, SeenMoves
    <3>4. rows[j].declared_at # Never
      BY <2>6, <3>1, <3>3, NobodyManages DEF RowSound
    <3>5. QED BY <3>1, <3>3, <3>4 DEF Joined
  <2>10. QED
    BY <1>0, <2>2, <2>5, <2>7, <2>8, <2>9 DEF CallKnows
<1>4. QED
  BY <1>2, <1>3

\* The state as a step finds it.
LEMMA Given ==
  ASSUME Core
  PROVE  /\ now \in Times /\ now \in Nat
         /\ \A i \in Sessions :
              /\ rows[i] \in Rows /\ RowSound(i) /\ Stamps(i)
              /\ rows[i].last_seen \in Int /\ rows[i].declared_at \in Int
              /\ arrived[i] \in Int /\ seen[i] \in Int /\ last_write[i] \in Int
              /\ arrived[i] <= now /\ seen[i] <= now /\ last_write[i] <= now
  BY Constants DEF Core, Values, Rows, Stamps

\* What the cache and the history of an identity become when a call of it goes on: nothing
\* new, the clock of a touch that is still visible, or the present under a fresh cache.
StampMoves(i) ==
  /\ arrived[i] <= arrived'[i] /\ arrived'[i] <= now
  /\ \/ last_write'[i] = last_write[i] \/ last_write'[i] = Never
     \/ last_write'[i] <= now /\ rows'[i].last_seen # Never
                              /\ last_write'[i] <= rows'[i].last_seen + MaxDelay
  /\ \/ seen'[i] = seen[i]
     \/ seen'[i] <= now /\ rows'[i].last_seen # Never /\ seen'[i] < rows'[i].last_seen + Lag

LEMMA StampsMove ==
  ASSUME Core, Values', now' = now, NEW i \in Sessions, RowMoves(i), StampMoves(i)
  PROVE  Stamps(i)'
<1>1. /\ now \in Int /\ rows[i].last_seen \in Int /\ rows'[i].last_seen \in Int
      /\ arrived[i] \in Int /\ arrived'[i] \in Int /\ seen[i] \in Int /\ seen'[i] \in Int
      /\ last_write[i] \in Int /\ last_write'[i] \in Int
  BY Constants DEF Core, Values, Rows
<1>2. Stamps(i)
  BY DEF Core
<1>3. \/ rows'[i].last_seen = rows[i].last_seen
      \/ rows'[i].last_seen # Never /\ now <= rows'[i].last_seen + MaxDelay
                                    /\ rows'[i].last_seen <= arrived'[i]
  BY DEF RowMoves
<1>4. /\ rows'[i].last_seen <= arrived'[i]
      /\ arrived'[i] <= now /\ seen'[i] <= now /\ last_write'[i] <= now
  BY <1>1, <1>2, <1>3, Given, Constants DEF Stamps, StampMoves
<1>5. last_write'[i] # Never => /\ rows'[i].last_seen # Never
                                /\ last_write'[i] <= rows'[i].last_seen + MaxDelay
  BY <1>1, <1>2, <1>3, Constants DEF Stamps, StampMoves
<1>6. seen'[i] # Never => rows'[i].last_seen # Never /\ seen'[i] < rows'[i].last_seen + Lag
  BY <1>1, <1>2, <1>3, Constants DEF Stamps, StampMoves
<1>7. QED
  BY <1>4, <1>5, <1>6 DEF Stamps

\* A step of one call at one moment.
LEMMA CallStep ==
  ASSUME Core, Values', now' = now, NEW k \in Calls,
         NEW c \in CallRecords, calls' = [calls EXCEPT ![k] = c], CallKnows(k)',
         \A i \in Sessions : RowMoves(i) /\ SeenMoves(i) /\ StampMoves(i)
  PROVE  Core'
<1>1. \A i \in Sessions : Stamps(i)'
  BY StampsMove
<1>2. \A i \in Sessions : arrived[i] <= arrived'[i] /\ RowMoves(i) /\ SeenMoves(i)
  BY DEF StampMoves
<1>3. calls' \in [Calls -> CallRecords] /\ \A q \in Calls \ {k} : calls'[q] = calls[q]
  BY DEF Core
<1>4. ASSUME NEW q \in Calls PROVE CallKnows(q)'
  BY <1>2, <1>3, OthersKnow
<1>5. QED
  BY <1>1, <1>3, <1>4 DEF Core

LEMMA GivenCall ==
  ASSUME Core, NEW k \in Calls, calls[k].step # "idle"
  PROVE  /\ calls[k].who \in Sessions /\ calls[k].at \in Times /\ calls[k].at \in Int
         /\ CallKnows(k)
         /\ calls[k].at <= arrived[calls[k].who] /\ calls[k].at <= now
         /\ calls[k].step \in Accessing => now <= calls[k].at + MaxDelay
<1>1. CallKnows(k)
  BY DEF Core
<1>2. calls[k].who \in Sessions /\ calls[k].at \in Times /\ calls[k].at \in Int
  BY ShapeByStep, Constants DEF Core
<1>3. calls[k].at <= arrived[calls[k].who]
  BY <1>1 DEF CallKnows
<1>4. now \in Int /\ arrived[calls[k].who] \in Int /\ arrived[calls[k].who] <= now
  BY <1>2, Given
<1>5. calls[k].step \in Accessing => now - calls[k].at <= MaxDelay
  BY <1>1 DEF CallKnows
<1>6. QED
  BY <1>1, <1>2, <1>3, <1>4, <1>5, Constants

\* A request arrives.
LEMMA RequestStep ==
  ASSUME Core, NEW k \in Calls, NEW i \in Sessions, Request(k, i)
  PROVE  Core'
<1>1. /\ UNCHANGED <<now, rows, last_write>> /\ arrived' = [arrived EXCEPT ![i] = now]
      /\ requests < MaxRequests /\ requests' = requests + 1
      /\ seen' = IF Fresh(i) THEN [seen EXCEPT ![i] = now] ELSE seen
      /\ calls' = [calls EXCEPT ![k] =
           [step |-> IF Fresh(i) THEN "handle" ELSE "touch", who |-> i, at |-> now]]
  BY DEF Request
<1>2. Values'
  BY <1>1, Given, Constants DEF Core, Values, RowSound
<1>3. \A j \in Sessions : RowMoves(j)
  BY <1>1 DEF RowMoves, Listed
<1>4. \A j \in Sessions : SeenMoves(j)
  BY <1>1, Given, Constants DEF SeenMoves, Core, Values
<1>5. ASSUME NEW j \in Sessions PROVE StampMoves(j)
  <2>1. arrived[j] <= arrived'[j] /\ arrived'[j] <= now
    BY <1>1, Given DEF Core, Values
  <2>2. CASE j = i /\ Fresh(i)
    <3>1. seen'[j] = now /\ last_write[j] # Never /\ now - last_write[j] < TOUCH_INTERVAL
      BY <1>1, <2>2 DEF Fresh, Core, Values
    <3>2. rows[j].last_seen # Never /\ last_write[j] <= rows[j].last_seen + MaxDelay
      BY <3>1, Given DEF Stamps
    <3>3. now < rows[j].last_seen + Lag
      BY <3>1, <3>2, Given, Constants
    <3>4. QED BY <1>1, <2>1, <3>1, <3>2, <3>3, Given DEF StampMoves
  <2>3. CASE ~(j = i /\ Fresh(i))
    BY <1>1, <2>1, <2>3 DEF StampMoves, Core, Values
  <2>4. QED BY <2>2, <2>3
<1>6. PICK c \in CallRecords :
        /\ c = [step |-> IF Fresh(i) THEN "handle" ELSE "touch", who |-> i, at |-> now]
        /\ calls' = [calls EXCEPT ![k] = c]
  <2>1. [step |-> IF Fresh(i) THEN "handle" ELSE "touch", who |-> i, at |-> now] \in CallRecords
    BY Given DEF CallRecords, Held
  <2>2. QED BY <1>1, <2>1
<1>7. CallKnows(k)'
  <2>1. calls'[k] = c
    BY <1>6 DEF Core
  <2>2. arrived'[i] = now
    BY <1>1 DEF Core, Values
  <2>3. QED
    BY <1>1, <1>6, <2>1, <2>2, Given, Constants DEF CallKnows, Accessing
<1>8. QED
  BY <1>1, <1>2, <1>3, <1>4, <1>5, <1>6, <1>7, CallStep

\* A call that only goes on: the register stays as it is.
LEMMA QuietStep ==
  ASSUME Core, NEW k \in Calls, UNCHANGED <<now, rows, last_write, seen, requests, arrived>>,
         NEW c \in CallRecords, calls' = [calls EXCEPT ![k] = c], CallKnows(k)'
  PROVE  Core'
<1>1. Values'
  BY DEF Core, Values, RowSound
<1>2. \A i \in Sessions : RowMoves(i) /\ SeenMoves(i) /\ StampMoves(i)
  BY Given DEF RowMoves, Listed, SeenMoves, StampMoves
<1>3. QED
  BY <1>1, <1>2, CallStep

\* Nothing is asked of a call that is over.
LEMMA IdleKnows ==
  ASSUME NEW k \in Calls, calls'[k] = Idle
  PROVE  CallKnows(k)'
  BY DEF CallKnows, Idle, Accessing

\* A request that a handler ends without a change, and a touch that fails.
LEMMA PassStep ==
  ASSUME Core, NEW k \in Calls, Other(k) \/ TouchFails(k)
  PROVE  Core'
<1>1. CASE Other(k)
  <2>1. Idle \in CallRecords /\ calls' = [calls EXCEPT ![k] = Idle]
    BY <1>1 DEF Other, Done, CallRecords
  <2>2. CallKnows(k)'
    BY <2>1, IdleKnows DEF Core
  <2>3. QED BY <1>1, <2>1, <2>2, QuietStep DEF Other
<1>2. CASE TouchFails(k)
  <2>1. PICK c \in CallRecords :
          /\ c = [calls[k] EXCEPT !.step = "handle"] /\ c.step = "handle"
          /\ c.who = calls[k].who /\ c.at = calls[k].at
    <3>1. calls[k] \in Held({"touch", "cache", "handle", "status"})
      BY <1>2, ShapeByStep DEF TouchFails, At, Core
    <3>2. [calls[k] EXCEPT !.step = "handle"]
            = [step |-> "handle", who |-> calls[k].who, at |-> calls[k].at]
      BY <3>1, Goes
    <3>3. [step |-> "handle", who |-> calls[k].who, at |-> calls[k].at] \in CallRecords
      BY <3>1 DEF Held, CallRecords
    <3>4. QED BY <3>2, <3>3
  <2>2. calls' = [calls EXCEPT ![k] = c]
    BY <1>2, <2>1 DEF TouchFails, Step
  <2>3. CallKnows(k)'
    BY <1>2, <2>1, <2>2, GivenCall DEF TouchFails, At, CallKnows, Accessing, Core
  <2>4. QED BY <1>2, <2>2, <2>3, QuietStep DEF TouchFails
<1>3. QED
  BY <1>1, <1>2

\* A handler that reads the clock.
LEMMA ClockStep ==
  ASSUME Core, NEW k \in Calls, UpdateStatus(k) \/ \E says \in Declarations : Declare(k, says)
  PROVE  Core'
<1>0. /\ calls[k].step = "handle" /\ UNCHANGED <<now, rows, last_write, seen, requests>>
      /\ arrived' = [arrived EXCEPT ![calls[k].who] = now]
  BY DEF UpdateStatus, Declare, At
<1>1. calls[k].who \in Sessions /\ calls[k] \in Held({"touch", "cache", "handle", "status"})
  BY <1>0, GivenCall, ShapeByStep DEF Core
<1>2. PICK i \in Sessions : i = calls[k].who
  BY <1>1
<1>3. Values' /\ arrived'[i] = now
  BY <1>0, <1>2, Given DEF Core, Values, RowSound
<1>4. \A j \in Sessions : RowMoves(j) /\ SeenMoves(j) /\ StampMoves(j)
  BY <1>0, <1>2, Given DEF RowMoves, Listed, SeenMoves, StampMoves, Core, Values
<1>5. PICK c \in CallRecords :
        /\ c.who = i /\ c.at = now /\ c.step \in {"read", "status"}
        /\ calls' = [calls EXCEPT ![k] = c]
  <2>1. CASE UpdateStatus(k)
    <3>1. [step |-> "status", who |-> i, at |-> now] \in CallRecords
      BY Given DEF CallRecords, Held
    <3>2. [[calls[k] EXCEPT !.step = "status"] EXCEPT !.at = now] = [step |-> "status", who |-> i, at |-> now]
      BY <1>1, <1>2, Goes
    <3>3. calls' = [calls EXCEPT ![k] = [step |-> "status", who |-> i, at |-> now]]
      BY <2>1, <3>2 DEF UpdateStatus, Core
    <3>4. QED BY <3>1, <3>3
  <2>2. ASSUME NEW says \in Declarations, Declare(k, says)
        PROVE  /\ [step |-> "read", who |-> i, at |-> now, says |-> says] \in CallRecords
               /\ calls' = [calls EXCEPT ![k] = [step |-> "read", who |-> i, at |-> now, says |-> says]]
    BY <1>2, <2>2, Given DEF Declare, CallRecords
  <2>3. QED BY <2>1, <2>2
<1>6. CallKnows(k)'
  <2>1. calls'[k] = c
    BY <1>5 DEF Core
  <2>2. QED BY <1>0, <1>3, <1>5, <2>1, Given, Constants DEF CallKnows, Accessing
<1>7. QED
  BY <1>0, <1>3, <1>4, <1>5, <1>6, CallStep

\* The warnings are worked out: whoever is replaced or joined is seen.
LEMMA ReadStep ==
  ASSUME Core, NEW k \in Calls, DeclareRead(k)
  PROVE  Core'
<1>0. /\ calls[k].step = "read" /\ UNCHANGED <<now, rows, last_write, seen, requests, arrived>>
      /\ calls[k] \in [step : {"read"}, who : Sessions, at : Times, says : Declarations]
  BY ShapeByStep DEF DeclareRead, At, Core
<1>1. PICK i \in Sessions, t \in Times, says \in Declarations :
        i = calls[k].who /\ t = calls[k].at /\ says = calls[k].says
  BY <1>0
<1> DEFINE c == [step |-> "write", who |-> i, at |-> t, says |-> says,
                 warned |-> _warnings_for(i, says, t)]
<1>2. c \in CallRecords /\ calls' = [calls EXCEPT ![k] = c]
  <2>1. _warnings_for(i, says, t) \in SUBSET Sessions
    BY DEF _warnings_for, OtherManagers
  <2>2. QED BY <1>1, <2>1 DEF DeclareRead, CallRecords
<1>3. ASSUME Replaced(i, says, t) PROVE i \in c.warned
  <2>1. Reused(i, says, t)
    BY <1>3, Given, Constants DEF Replaced, Reused
  <2>2. QED BY <2>1 DEF _warnings_for
<1>4. ASSUME NEW j \in Sessions \ {i}, says.role = "manager", Joined(j, t) PROVE j \in c.warned
  <2>1. rows[j].last_seen # Never /\ seen[j] < rows[j].last_seen + Lag
    BY <1>4, Given DEF Stamps, Joined
  <2>2. t - rows[j].last_seen < MANAGER_WINDOW
    BY <1>4, <2>1, Given, Constants DEF Joined
  <2>3. j \in OtherManagers(i, t)
    BY <1>4, <2>1, <2>2 DEF Joined, OtherManagers
  <2>4. QED BY <1>4, <2>3 DEF _warnings_for
<1>5. CallKnows(k)'
  <2>1. calls'[k] = c
    BY <1>2 DEF Core
  <2>2. t <= arrived[i] /\ now - t <= MaxDelay
    BY <1>0, <1>1, GivenCall DEF CallKnows, Accessing
  <2>3. /\ c.step = "write" /\ c.who = i /\ c.at = t /\ c.says = says
        /\ Replaced(i, says, t)' = Replaced(i, says, t)
        /\ \A j \in Sessions : Joined(j, t)' = Joined(j, t)
    BY <1>0 DEF Replaced, Joined, Listed
  <2>4. QED BY <1>0, <1>3, <1>4, <2>1, <2>2, <2>3 DEF CallKnows, Accessing
<1>6. QED
  BY <1>0, <1>2, <1>5, QuietStep

\* A call writes its clock into the row of its identity.
LEMMA WriteStep ==
  ASSUME Core, NEW k \in Calls, calls[k].step \in Accessing,
         UNCHANGED <<now, last_write, seen, requests, arrived>>,
         NEW i \in Sessions, i = calls[k].who,
         NEW t \in Times, t = calls[k].at,
         NEW row \in Rows, rows' = [rows EXCEPT ![i] = row],
         RowSound(i)',
         row.last_seen = t,
         \/ row.declared_at = t
         \/ /\ row.says = rows[i].says /\ row.declared_at = rows[i].declared_at
            /\ row.declared_at # Never /\ row.present /\ ~row.retired => Listed(i),
         NEW c \in CallRecords, calls' = [calls EXCEPT ![k] = c], CallKnows(k)'
  PROVE  Core'
<1>2. t \in Int /\ t # Never /\ t <= arrived[i] /\ now <= t + MaxDelay
  BY GivenCall, Constants DEF Accessing
<1>3. /\ rows'[i] = row
      /\ \A j \in Sessions \ {i} : rows'[j] = rows[j]
      /\ rows' \in [Sessions -> Rows]
  BY DEF Core, Values
<1>4. \A j \in Sessions : RowSound(j)'
  BY <1>3, Given DEF RowSound
<1>5. Values'
  BY <1>3, <1>4 DEF Core, Values
<1>6. ASSUME NEW j \in Sessions PROVE RowMoves(j)
  <2>1. CASE j = i
    <3>1. rows'[j].last_seen # Never /\ now <= rows'[j].last_seen + MaxDelay
                                     /\ rows'[j].last_seen <= arrived'[j]
      BY <1>2, <1>3, <2>1
    <3>2. \/ now <= rows'[j].declared_at + MaxDelay
          \/ /\ rows'[j].says = rows[j].says /\ rows'[j].declared_at = rows[j].declared_at
             /\ rows[j].declared_at # Never /\ Listed(j)' => Listed(j)
      BY <1>2, <1>3, <2>1 DEF Listed
    <3>3. QED BY <3>1, <3>2 DEF RowMoves
  <2>2. CASE j # i
    BY <1>3, <2>2 DEF RowMoves, Listed
  <2>3. QED BY <2>1, <2>2
<1>7. \A j \in Sessions : SeenMoves(j) /\ StampMoves(j)
  BY Given DEF SeenMoves, StampMoves
<1>8. QED
  BY <1>5, <1>6, <1>7, CallStep

\* The upsert of touch.
LEMMA TouchWriteStep ==
  ASSUME Core, NEW k \in Calls, TouchWrite(k)
  PROVE  Core'
<1>0. /\ calls[k].step = "touch" /\ calls[k].step \in Accessing
      /\ UNCHANGED <<now, last_write, seen, requests, arrived>>
      /\ calls[k] \in Held({"touch", "cache", "handle", "status"})
  BY ShapeByStep DEF TouchWrite, At, Accessing, Core
<1>1. PICK i \in Sessions, t \in Times : i = calls[k].who /\ t = calls[k].at
  BY <1>0, GivenCall
<1> DEFINE row == [rows[i] EXCEPT !.present = TRUE, !.last_seen = t]
           c == [step |-> "cache", who |-> i, at |-> t]
<1>2. /\ row \in Rows /\ row.present = TRUE /\ row.last_seen = t
      /\ row.says = rows[i].says /\ row.declared_at = rows[i].declared_at
      /\ row.retired = rows[i].retired
  BY Given DEF Rows
<1>3. rows' = [rows EXCEPT ![i] = row]
  BY <1>1 DEF TouchWrite, Core, Values
<1>4. c \in CallRecords /\ calls' = [calls EXCEPT ![k] = c]
  <2>1. [calls[k] EXCEPT !.step = "cache"] = c
    BY <1>0, <1>1, Goes
  <2>2. QED BY <2>1 DEF TouchWrite, Step, CallRecords, Held
<1>5. rows'[i] = row
  BY <1>3 DEF Core, Values
<1>6. RowSound(i)'
  BY <1>2, <1>5, Given DEF RowSound
<1>7. row.declared_at # Never /\ row.present /\ ~row.retired => Listed(i)
  BY <1>2, Given DEF RowSound, Listed
<1>8. CallKnows(k)'
  <2>1. calls'[k] = c
    BY <1>4 DEF Core
  <2>2. t <= arrived[i] /\ now - t <= MaxDelay
    BY <1>0, <1>1, GivenCall DEF CallKnows
  <2>3. t \in Int /\ t # Never /\ t <= t + MaxDelay
    BY Constants
  <2>4. rows'[i].last_seen = t
    BY <1>2, <1>5
  <2>5. calls'[k].step = "cache" /\ calls'[k].who = i /\ calls'[k].at = t
    BY <2>1
  <2>6. UNCHANGED <<now, arrived>>
    BY <1>0
  <2>7. QED BY <2>2, <2>3, <2>4, <2>5, <2>6 DEF CallKnows
<1>9. QED
  BY <1>0, <1>1, <1>2, <1>3, <1>4, <1>6, <1>7, <1>8, WriteStep

\* The coroutine of touch resumes: what it caches is still to be seen in the row.
LEMMA TouchCacheStep ==
  ASSUME Core, NEW k \in Calls, TouchCache(k)
  PROVE  Core'
<1>0. /\ calls[k].step = "cache" /\ calls[k].step \in Accessing
      /\ UNCHANGED <<now, rows, requests, arrived>>
      /\ calls[k] \in Held({"touch", "cache", "handle", "status"})
  BY ShapeByStep DEF TouchCache, At, Accessing, Core
<1>1. PICK i \in Sessions, t \in Times : i = calls[k].who /\ t = calls[k].at
  BY <1>0, GivenCall
<1>2. /\ t \in Int /\ t <= arrived[i] /\ t <= now /\ now <= t + MaxDelay
      /\ rows[i].last_seen # Never /\ t <= rows[i].last_seen + MaxDelay
  BY <1>0, <1>1, GivenCall, Constants DEF CallKnows
<1>3. /\ last_write' = [last_write EXCEPT ![i] = t]
      /\ seen' = [seen EXCEPT ![i] = Later(seen[i], t)]
  BY <1>1 DEF TouchCache, Core, Values
<1>4. Later(seen[i], t) \in Times \cup {Never} /\ Later(seen[i], t) \in {seen[i], t}
  BY DEF Later, Core, Values
<1>5. Values'
  BY <1>0, <1>3, <1>4 DEF Core, Values, RowSound
<1>6. ASSUME NEW j \in Sessions PROVE RowMoves(j) /\ SeenMoves(j) /\ StampMoves(j)
  <2>1. RowMoves(j)
    BY <1>0 DEF RowMoves, Listed
  <2>2. CASE j = i
    <3>1. last_write'[j] = t /\ (seen'[j] = seen[j] \/ seen'[j] = t)
      BY <1>3, <1>4, <2>2 DEF Core, Values
    <3>2. t < rows[j].last_seen + Lag
      BY <1>2, <2>2, Given, Constants
    <3>3. QED BY <1>0, <1>2, <2>1, <2>2, <3>1, <3>2, Given DEF SeenMoves, StampMoves
  <2>3. CASE j # i
    BY <1>0, <1>3, <2>1, <2>3, Given DEF SeenMoves, StampMoves, Core, Values
  <2>4. QED BY <2>2, <2>3
<1> DEFINE c == [step |-> "handle", who |-> i, at |-> t]
<1>7. c \in CallRecords /\ calls' = [calls EXCEPT ![k] = c]
  <2>1. [calls[k] EXCEPT !.step = "handle"] = c
    BY <1>0, <1>1, Goes
  <2>2. QED BY <2>1 DEF TouchCache, Step, CallRecords, Held
<1>8. CallKnows(k)'
  <2>1. calls'[k].step = "handle" /\ calls'[k].who = i /\ calls'[k].at = t
    BY <1>7 DEF Core
  <2>2. QED BY <1>0, <1>2, <2>1 DEF CallKnows, Accessing
<1>9. QED
  BY <1>0, <1>5, <1>6, <1>7, <1>8, CallStep

\* A declaration is stored.
LEMMA DeclareWriteStep ==
  ASSUME Core, NEW k \in Calls, DeclareWrite(k)
  PROVE  Core'
<1>0. /\ calls[k].step = "write" /\ calls[k].step \in Accessing
      /\ UNCHANGED <<now, last_write, seen, requests, arrived>>
      /\ calls[k].says \in Declarations
      /\ Idle \in CallRecords /\ calls' = [calls EXCEPT ![k] = Idle]
  BY ShapeByStep DEF DeclareWrite, At, Accessing, Core, Done, CallRecords
<1>1. PICK i \in Sessions, t \in Times, says \in Declarations :
        i = calls[k].who /\ t = calls[k].at /\ says = calls[k].says
  BY <1>0, GivenCall
<1> DEFINE row == [present |-> TRUE, says |-> says, declared_at |-> t,
                   last_seen |-> t, retired |-> FALSE]
<1>2. row \in Rows /\ rows' = [rows EXCEPT ![i] = row]
  BY <1>1 DEF DeclareWrite, Rows
<1>3. RowSound(i)'
  <2>1. rows'[i] = row
    BY <1>2 DEF Core, Values
  <2>2. t # Never /\ says # NoDeclaration
    BY Constants, NobodyManages
  <2>3. QED BY <2>1, <2>2 DEF RowSound
<1>4. CallKnows(k)'
  BY <1>0, IdleKnows DEF Core
<1>5. QED
  BY <1>0, <1>1, <1>2, <1>3, <1>4, WriteStep

\* A status is stored, or refused to a session that never introduced itself.
LEMMA StatusWriteStep ==
  ASSUME Core, NEW k \in Calls, StatusWrite(k)
  PROVE  Core'
<1>0. /\ calls[k].step = "status" /\ calls[k].step \in Accessing
      /\ UNCHANGED <<now, last_write, seen, requests, arrived>>
      /\ Idle \in CallRecords /\ calls' = [calls EXCEPT ![k] = Idle]
  BY DEF StatusWrite, At, Accessing, Done, CallRecords
<1>1. PICK i \in Sessions, t \in Times : i = calls[k].who /\ t = calls[k].at
  BY <1>0, GivenCall
<1>2. CallKnows(k)'
  BY <1>0, IdleKnows DEF Core
<1>3. CASE rows[i].declared_at = Never
  <2>1. rows' = rows
    BY <1>1, <1>3 DEF StatusWrite
  <2>2. QED BY <1>0, <1>2, <2>1, QuietStep
<1>4. CASE rows[i].declared_at # Never
  <2> DEFINE row == [rows[i] EXCEPT !.declared_at = t, !.last_seen = t]
  <2>1. /\ row \in Rows /\ row.declared_at = t /\ row.last_seen = t
        /\ row.says = rows[i].says /\ row.present = rows[i].present
        /\ row.retired = rows[i].retired
    BY Given DEF Rows
  <2>2. rows' = [rows EXCEPT ![i] = row]
    BY <1>1, <1>4 DEF StatusWrite, Core, Values
  <2>3. RowSound(i)'
    <3>1. rows'[i] = row /\ t # Never
      BY <2>2, Constants DEF Core, Values
    <3>2. QED BY <1>4, <2>1, <3>1, Given DEF RowSound
  <2>4. QED BY <1>0, <1>1, <1>2, <2>1, <2>2, <2>3, WriteStep
<1>5. QED
  BY <1>3, <1>4

\* A session retires: nobody is listed who was not.
LEMMA RetireStep ==
  ASSUME Core, NEW k \in Calls, Retire(k)
  PROVE  Core'
<1>0. /\ calls[k].step = "handle"
      /\ UNCHANGED <<now, last_write, seen, requests, arrived>>
      /\ Idle \in CallRecords /\ calls' = [calls EXCEPT ![k] = Idle]
  BY DEF Retire, At, Done, CallRecords
<1>1. PICK i \in Sessions : i = calls[k].who
  BY <1>0, GivenCall
<1>2. CallKnows(k)'
  BY <1>0, IdleKnows DEF Core
<1> DEFINE row == [rows[i] EXCEPT !.retired = rows[i].present]
<1>3. /\ row \in Rows /\ row.declared_at = rows[i].declared_at
      /\ row.last_seen = rows[i].last_seen /\ row.says = rows[i].says
      /\ row.present = rows[i].present /\ row.retired = rows[i].present
  BY Given DEF Rows
<1>4. rows' = [rows EXCEPT ![i] = row]
  BY <1>1 DEF Retire, Core, Values
<1>5. /\ rows'[i] = row /\ \A j \in Sessions \ {i} : rows'[j] = rows[j]
      /\ rows' \in [Sessions -> Rows]
  BY <1>3, <1>4 DEF Core, Values
<1>6. \A j \in Sessions : RowSound(j)'
  BY <1>3, <1>5, Given DEF RowSound
<1>7. Values'
  BY <1>0, <1>5, <1>6 DEF Core, Values
<1>8. \A j \in Sessions : RowMoves(j)
  BY <1>3, <1>5 DEF RowMoves, Listed
<1>9. \A j \in Sessions : SeenMoves(j) /\ StampMoves(j)
  BY <1>0, Given DEF SeenMoves, StampMoves
<1>10. QED
  BY <1>0, <1>2, <1>7, <1>8, <1>9, CallStep

\* Time passes.
LEMMA TickStep ==
  ASSUME Core, Tick
  PROVE  Core'
<1>0. /\ now' = now + 1 /\ now < MaxTime /\ now \in Nat
      /\ UNCHANGED <<rows, last_write, calls, arrived, seen, requests>>
  BY Given DEF Tick
<1>1. now' \in Times /\ now <= now'
  BY <1>0, Constants DEF Times
<1>2. Values'
  BY <1>0, <1>1 DEF Core, Values, RowSound
<1>3. \A i \in Sessions : Stamps(i)'
  BY <1>0, <1>1, Given DEF Stamps
<1>4. ASSUME NEW k \in Calls PROVE CallKnows(k)'
  <2>1. CASE calls[k].step = "idle"
    BY <1>0, <2>1 DEF CallKnows, Accessing
  <2>2. CASE calls[k].step # "idle"
    <3>1. calls[k].at \in Int /\ CallKnows(k)
      BY <2>2, GivenCall
    <3>2. calls[k].step \in Accessing => now' - calls[k].at <= MaxDelay
      BY <1>0, <3>1, Constants DEF Tick, Accessing
    <3>3. QED BY <1>0, <3>1, <3>2 DEF CallKnows, Replaced, Joined, Listed
  <2>3. QED BY <2>1, <2>2
<1>5. QED
  BY <1>0, <1>2, <1>3, <1>4 DEF Core

\* The process is started again.
LEMMA RestartStep ==
  ASSUME Core, Restart
  PROVE  Core'
<1>0. /\ UNCHANGED <<now, rows, arrived, seen, requests>>
      /\ last_write' = [i \in Sessions |-> Never] /\ calls' = [k \in Calls |-> Idle]
  BY DEF Restart
<1>1. Values' /\ calls' \in [Calls -> CallRecords]
  BY <1>0 DEF Core, Values, RowSound, CallRecords
<1>2. \A k \in Calls : CallKnows(k)'
  BY <1>0, IdleKnows
<1>3. \A i \in Sessions : Stamps(i)'
  BY <1>0, Given, Constants DEF Stamps
<1>4. QED
  BY <1>1, <1>2, <1>3 DEF Core

LEMMA RegisterInitInv ==
  ASSUME Init
  PROVE  Core
<1>1. /\ now = 0 /\ rows = [i \in Sessions |-> NoRow] /\ requests = 0
      /\ last_write = [i \in Sessions |-> Never] /\ calls = [k \in Calls |-> Idle]
      /\ arrived = [i \in Sessions |-> Never] /\ seen = [i \in Sessions |-> Never]
  BY DEF Init
<1>2. 0 \in Times /\ 0 \in 0..MaxRequests /\ NoRow \in Rows
  BY Constants DEF Times, NoRow, Rows
<1>3. Values /\ calls \in [Calls -> CallRecords]
  BY <1>1, <1>2 DEF Values, RowSound, NoRow, CallRecords
<1>4. \A k \in Calls : CallKnows(k)
  BY <1>1 DEF CallKnows, Idle, Accessing
<1>5. \A i \in Sessions : Stamps(i)
  <2>1. NoRow.last_seen = Never /\ Never = -1
    BY DEF NoRow, Never
  <2>2. ASSUME NEW i \in Sessions
        PROVE  /\ rows[i].last_seen = -1 /\ last_write[i] = -1
               /\ arrived[i] = -1 /\ seen[i] = -1
    BY <1>1, <2>1
  <2>3. now = 0 /\ -1 <= 0 /\ -1 <= -1
    BY <1>1
  <2>4. ASSUME NEW i \in Sessions
        PROVE  /\ rows[i].last_seen <= arrived[i]
               /\ arrived[i] <= now /\ seen[i] <= now /\ last_write[i] <= now
               /\ last_write[i] = Never /\ seen[i] = Never
    BY <2>1, <2>2, <2>3
  <2>5. QED BY <2>4 DEF Stamps
<1>6. QED
  BY <1>3, <1>4, <1>5 DEF Core

LEMMA RegisterNextInv ==
  ASSUME Core, [Next]_vars
  PROVE  Core'
<1>1. CASE \E k \in Calls, i \in Sessions : Request(k, i)
  BY <1>1, RequestStep
<1>2. CASE \E k \in Calls : Touch(k)
  BY <1>2, TouchWriteStep, TouchCacheStep, PassStep DEF Touch
<1>3. CASE \E k \in Calls : Handler(k)
  BY <1>3, PassStep, ClockStep, ReadStep, DeclareWriteStep, StatusWriteStep, RetireStep DEF Handler
<1>4. CASE Tick
  BY <1>4, TickStep
<1>5. CASE Restart
  BY <1>5, RestartStep
<1>6. CASE UNCHANGED vars
  <2>1. UNCHANGED <<now, rows, last_write, calls, arrived, seen, requests>>
    BY <1>6 DEF vars
  <2>2. Values' /\ (\A i \in Sessions : Stamps(i)')
    BY <2>1 DEF Core, Values, RowSound, Stamps
  <2>3. \A k \in Calls : CallKnows(k)'
    BY <2>1 DEF Core, CallKnows, Replaced, Joined, Listed
  <2>4. QED BY <2>1, <2>2, <2>3 DEF Core
<1>7. QED
  BY <1>1, <1>2, <1>3, <1>4, <1>5, <1>6 DEF Next

-----------------------------------------------------------------------------
\* RegisterInv holds in every state of the register: how far its stamps lag, and what a
\* call between its clock and its write may rely on.
THEOREM RegisterInvariant == Spec => []RegisterInv
<1>1. Init => Core
  BY RegisterInitInv
<1>2. Core /\ [Next]_vars => Core'
  BY RegisterNextInv
<1>3. Core => RegisterInv
  BY CoreIsEnough
<1>4. QED
  BY <1>1, <1>2, <1>3, PTL DEF Spec

\* The values of the register, and no half-filled entry.
THEOREM RegisterTypeTheorem == Spec => []RegisterTypeOK
<1>1. RegisterInv => RegisterTypeOK
  BY DEF RegisterInv
<1>2. QED
  BY <1>1, RegisterInvariant, PTL

\* AgentRegistry.list_agents: quiet_for is the server's own observation, both ways, within
\* what a throttled and a slow touch may lose.
THEOREM QuietTheorem == Spec => []QuietListingIsTrue
<1>1. ASSUME Core PROVE QuietListingIsTrue
  <2>1. SUFFICES ASSUME NEW q \in 0..MaxTime
        PROVE  /\ \A i \in list_agents(TRUE, q) : seen[i] # Never => now - seen[i] > q - Lag
               /\ \A i \in Sessions \ list_agents(TRUE, q) : rows[i].present => now - arrived[i] < q
    BY DEF QuietListingIsTrue
  <2>2. q \in Int /\ Lag \in Int
    BY Constants
  <2>3. ASSUME NEW i \in list_agents(TRUE, q), seen[i] # Never PROVE now - seen[i] > q - Lag
    <3>1. i \in Sessions /\ (rows[i].last_seen # Never => now - rows[i].last_seen >= q)
      BY DEF list_agents
    <3>2. rows[i].last_seen # Never /\ seen[i] < rows[i].last_seen + Lag
      BY <1>1, <2>3, <3>1, Given DEF Stamps
    <3>3. QED BY <1>1, <2>2, <3>1, <3>2, Given
  <2>4. ASSUME NEW i \in Sessions \ list_agents(TRUE, q), rows[i].present
        PROVE  now - arrived[i] < q
    <3>1. ~ now - rows[i].last_seen >= q
      BY <2>4 DEF list_agents
    <3>2. rows[i].last_seen <= arrived[i]
      BY <1>1, Given DEF Stamps
    <3>3. QED BY <1>1, <2>2, <3>1, <3>2, Given
  <2>5. QED BY <2>3, <2>4
<1>2. Init => Core
  BY RegisterInitInv
<1>3. Core /\ [Next]_vars => Core'
  BY RegisterNextInv
<1>4. QED
  BY <1>1, <1>2, <1>3, PTL DEF Spec

\* AgentRegistry.declare, its two warnings: a manager that was there is named to the one
\* that joins it.
THEOREM ManagerTheorem == Spec => ActiveManagerIsNoticed
<1>1. ASSUME Core, NEW k \in Calls, DeclareWrite(k), calls[k].says.role = "manager",
             NEW j \in Sessions \ {calls[k].who}, Joined(j, calls[k].at)
      PROVE  j \in calls[k].warned
  BY <1>1 DEF Core, CallKnows, DeclareWrite, At
<1>2. Core /\ [Next]_vars =>
        \A k \in Calls : DeclareWrite(k) /\ calls[k].says.role = "manager" =>
          \A j \in Sessions \ {calls[k].who} : Joined(j, calls[k].at) => j \in calls[k].warned
  BY <1>1
<1>3. Init => Core
  BY RegisterInitInv
<1>4. Core /\ [Next]_vars => Core'
  BY RegisterNextInv
<1>5. QED
  BY <1>2, <1>3, <1>4, PTL DEF Spec, ActiveManagerIsNoticed

\* ... and a session whose entry says something else is told of it.
THEOREM ReuseTheorem == Spec => ReuseIsNoticed
<1>1. Core /\ [Next]_vars =>
        \A k \in Calls :
          DeclareWrite(k) /\ Replaced(calls[k].who, calls[k].says, calls[k].at) =>
            calls[k].who \in calls[k].warned
  BY DEF Core, CallKnows, DeclareWrite, At
<1>2. Init => Core
  BY RegisterInitInv
<1>3. Core /\ [Next]_vars => Core'
  BY RegisterNextInv
<1>4. QED
  BY <1>1, <1>2, <1>3, PTL DEF Spec, ReuseIsNoticed

\* AgentRegistry.retire: who retired is listed again only by its own introduction, and
\* nothing else changes what an entry says.
THEOREM RetiredTheorem == Spec => RetiredUntilIntroduced
<1>1. ASSUME Core, [Next]_vars, NEW i \in Sessions,
             rows[i].says # rows'[i].says \/ (rows[i].retired /\ ~rows'[i].retired)
      PROVE  \E k \in Calls : DeclareWrite(k) /\ calls[k].who = i
  <2>1. rows \in [Sessions -> Rows] /\ rows[i] \in Rows /\ RowSound(i)
    BY <1>1, Given DEF Core, Values
  <2>2. ~ UNCHANGED rows
    BY <1>1
  <2>3. ASSUME NEW k \in Calls, TouchWrite(k) \/ StatusWrite(k) PROVE FALSE
    BY <1>1, <2>1, <2>3 DEF TouchWrite, StatusWrite, Rows
  <2>4. ASSUME NEW k \in Calls, Retire(k) PROVE FALSE
    BY <1>1, <2>1, <2>4 DEF Retire, Rows, RowSound
  <2>5. ASSUME NEW k \in Calls, DeclareWrite(k) PROVE calls[k].who = i
    BY <1>1, <2>1, <2>5 DEF DeclareWrite
  <2>6. QED
    BY <1>1, <2>2, <2>3, <2>4, <2>5
    DEF Next, Request, Touch, TouchCache, TouchFails, Handler, Other, Declare, DeclareRead,
        UpdateStatus, Tick, Restart, vars
<1>2. Init => Core
  BY RegisterInitInv
<1>3. Core /\ [Next]_vars => Core'
  BY RegisterNextInv
<1>4. Core /\ [Next]_vars =>
        \A i \in Sessions :
          \/ rows[i].says # rows'[i].says
          \/ rows[i].retired /\ ~rows'[i].retired
          => \E k \in Calls : DeclareWrite(k) /\ calls[k].who = i
  BY <1>1
<1>5. QED
  BY <1>2, <1>3, <1>4, PTL DEF Spec, RetiredUntilIntroduced
=============================================================================
