-------------------------------- MODULE Inbox --------------------------------
(***************************************************************************)
(* Two commands of the client, each a sequence of requests by one session  *)
(* while the hub delivers and other processes, of this session too, mark   *)
(* messages, introduce themselves and retire.                              *)
(*                                                                         *)
(* "inbox [--unprocessed]" reads the mailbox, asks the register about the  *)
(* session when nothing in it is addressed to it, then reads its marks and *)
(* hides what they close.  "introduce" declares the session and reads the  *)
(* register back.                                                          *)
(***************************************************************************)
EXTENDS Marks

CONSTANTS
  Reader, \* the session that runs the commands
  Stamps, \* timestamps a message may be settled with
  Cutoff  \* the second of MARKS_AVAILABLE_SINCE, written without a fraction

ASSUME InboxAssumption ==
  /\ Reader \in Callers
  /\ Stamps \subseteq [second : Nat, fraction : BOOLEAN]
  /\ Cutoff \in Nat

VARIABLES
  stamp,     \* the timestamp each message carries once settled
  row,       \* the register's row of the session
  cmd,       \* the command in progress
  owed       \* history: in the mailbox and not closed ever since the command began

inboxVars == <<stamp, row, cmd, owed>>
allVars == <<vars, inboxVars>>

Idle == [step |-> "idle", mail |-> {}, dated |-> {}, undeclared |-> FALSE,
         filtered |-> FALSE, overtaken |-> FALSE]

\* The comparison of the two texts: they agree up to the second, where a fraction
\* begins with "." and the cutoff ends in "Z", and "." sorts before "Z".
SortsBeforeCutoff(t) ==
  \/ stamp[t].second < Cutoff
  \/ stamp[t].second = Cutoff /\ stamp[t].fraction

\* A message of a later second than the cutoff's that the session has not closed.
Owed(t) ==
  t \in Unprocessed(Reader) /\ (Settled(t) => stamp[t].second > Cutoff)

-----------------------------------------------------------------------------
(* The register as these commands see it *)

\* Every request is stamped by touch, which makes the row, unless touch fails.
Touched == row' \in {row, [row EXCEPT !.present = TRUE]}

\* Mutation of IntroducedRow: declaring again does not undo a retirement.
IntroducedRowRetired == [row EXCEPT !.present = TRUE, !.declared = TRUE]

IntroducedRow == [present |-> TRUE, declared |-> TRUE, retired |-> FALSE]

InListing == row.present /\ ~row.retired

\* Mutation of declared_in_register: the existence of the row is taken for a declaration.
declared_in_registerByRow == TRUE

\* No row at all: nothing is said rather than accuse.
declared_in_register == InListing => row.declared

-----------------------------------------------------------------------------
(* inbox *)

\* The executor stamps the recipient into the artifact.
Addressed(t) == rows[t].sender # NoOne /\ to[t] = Reader

\* list_all_tasks returned some of the mailbox; whether the counts agree says little
\* about it (CompleteIsWhole in Listing), so complete is any value.
Walk(mail, complete, filtered) ==
  /\ cmd.step = "idle"
  /\ cmd' = [Idle EXCEPT
       !.step = IF complete /\ \A t \in mail : ~Addressed(t) THEN "register" ELSE "marks",
       !.mail = mail, !.dated = {t \in mail : Settled(t)}, !.filtered = filtered]
  /\ Touched

\* The listing is of a request that is stamped first.
AskRegister ==
  /\ cmd.step = "register" /\ Touched
  /\ cmd' = [cmd EXCEPT !.step = "marks", !.undeclared = ~declared_in_register']

\* An answer that carries an error is tolerated.
RegisterRefuses == cmd.step = "register" /\ cmd' = [cmd EXCEPT !.step = "marks"] /\ Touched

\* A status of 400 or more, or no answer, is an exception of urllib that nobody catches.
RegisterUnreachable ==
  cmd.step = "register" /\ cmd' = Idle /\ Touched

\* Mutation of Hidden: what awaits a decision is hidden as well.
HiddenMarked ==
  {t \in cmd.mail : marks[t][Reader] # NoMark \/ (t \in cmd.dated /\ SortsBeforeCutoff(t))}

\* What the filter leaves out: closed by this session, or dated before marking existed.
Hidden ==
  {t \in cmd.mail : t \in closed(Reader) \/ (t \in cmd.dated /\ SortsBeforeCutoff(t))}

Shown == IF cmd.filtered THEN cmd.mail \ Hidden ELSE cmd.mail

Display ==
  /\ cmd.step = "marks"
  /\ cmd' = Idle
  /\ IF cmd.filtered THEN Touched ELSE UNCHANGED row

\* Without the marks nothing is printed.
MarksUnreadable == cmd.step = "marks" /\ cmd.filtered /\ cmd' = Idle /\ Touched

-----------------------------------------------------------------------------
(* introduce, and what other processes of the session do *)

Introduce ==
  /\ cmd.step = "idle"
  /\ row' = IntroducedRow
  /\ cmd' = [Idle EXCEPT !.step = "readback"]

\* It ends with an error when the session is not listed; a listing that cannot be
\* read does not accuse a healthy introduction.
ReadBack == cmd.step = "readback" /\ cmd' = Idle /\ Touched

OtherIntroduces == row' = IntroducedRow /\ UNCHANGED cmd

\* Retiring updates a row that exists; "overtaken" is history.
OtherRetires ==
  /\ InListing
  /\ row' = [row EXCEPT !.retired = TRUE]
  /\ cmd' = [cmd EXCEPT !.overtaken = cmd.step = "readback" \/ @]

-----------------------------------------------------------------------------
InboxInit ==
  /\ Init
  /\ stamp \in [Tasks -> Stamps]
  /\ row = [present |-> FALSE, declared |-> FALSE, retired |-> FALSE]
  /\ cmd = Idle
  /\ owed = {}

StartCommand ==
  \/ \E mail \in SUBSET Listed(Reader), complete, filtered \in BOOLEAN :
       Walk(mail, complete, filtered)
  \/ Introduce

Continue ==
  \/ AskRegister \/ RegisterRefuses \/ RegisterUnreachable
  \/ Display \/ MarksUnreadable
  \/ ReadBack
  \/ OtherIntroduces \/ OtherRetires

\* The history begins and ends with a command that filters.
Remember == owed' = {t \in owed : cmd' # Idle /\ Owed(t)'}

InboxNext ==
  /\ UNCHANGED stamp
  /\ \/ /\ StartCommand
        /\ owed' = {t \in Tasks : cmd'.filtered /\ Owed(t)}
        /\ UNCHANGED vars
     \/ Continue /\ UNCHANGED vars /\ Remember
     \/ Next /\ UNCHANGED <<row, cmd>> /\ Remember

InboxSpec == InboxInit /\ [][InboxNext]_allVars

-----------------------------------------------------------------------------
(* Properties *)

\* "inbox --unprocessed" reads the mailbox and the marks in two requests; whatever is
\* delivered, marked or marked anew in between, a message that was read and was owed an
\* answer all along is shown, one parked on a decision included.
NothingOwedIsHidden ==
  [][Display => owed \cap cmd.mail \subseteq Shown]_allVars

\* Who introduced itself before the register is asked is never told that it "has never
\* introduced itself", its row being retired meanwhile or not; and a mistyped session is
\* told, although the very requests of the command have made it a row.
WarningFitsTheRegister ==
  [][/\ cmd.step = "register" /\ row.declared => ~cmd'.undeclared
     /\ AskRegister /\ InListing /\ ~row.declared => cmd'.undeclared]_allVars

\* "introduce" reports a declaration that did not take only when another process of
\* the session withdrew it before it was read back.
IntroductionTakes == [][ReadBack /\ ~InListing => cmd.overtaken]_allVars

\* _declared_in_register: "Tolerant of its own failure, deliberately: an unreadable
\* register returns True": a mailbox that has been read is printed without it.
UnreadableRegisterIsTolerated ==
  [][cmd.step = "register" => cmd' # Idle]_allVars

InboxTypeOK ==
  /\ stamp \in [Tasks -> [second : Nat, fraction : BOOLEAN]]
  /\ row \in [present : BOOLEAN, declared : BOOLEAN, retired : BOOLEAN]
  /\ cmd \in [step : {"idle", "register", "marks", "readback"},
              mail : SUBSET Tasks, dated : SUBSET Tasks,
              undeclared : BOOLEAN, filtered : BOOLEAN, overtaken : BOOLEAN]

\* The inductive invariant: what was read with a timestamp keeps it, the history holds what is
\* owed now, nothing is said of the register before it is asked, and
\* an introduction stands until somebody overtakes it.
InboxInv ==
  /\ MarksInv
  /\ InboxTypeOK
  /\ \A t \in cmd.dated : Settled(t)
  /\ owed \subseteq {t \in Tasks : Owed(t)}
  /\ cmd.undeclared => cmd.step = "marks"
  /\ cmd.step = "readback" => row.present /\ (row.retired => cmd.overtaken)
=============================================================================
