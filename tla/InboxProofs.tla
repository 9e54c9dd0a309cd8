----------------------------- MODULE InboxProofs -----------------------------
(***************************************************************************)
(* InboxInv is an invariant of the two commands of a session, for any      *)
(* messages, sessions and timestamps and whatever happens between their    *)
(* requests, and the properties of Inbox follow from it.                   *)
(***************************************************************************)
EXTENDS Inbox, MarksProofs

\* A message that has settled stays so while the hub takes any step.
LEMMA StaysSettled ==
  ASSUME MarksInv, [Next]_vars, NEW t \in Tasks, Settled(t)
  PROVE  Settled(t)'
<1>1. CASE DeliveryNext
  BY <1>1, SettledStays DEF MarksInv, Settled
<1>2. CASE UNCHANGED deliveryVars
  BY <1>2 DEF deliveryVars, Settled
<1>3. QED
  BY <1>1, <1>2 DEF Next, MarksCrash, DeliveryNext, AuthoriseMark, WriteMark, vars

\* While the hub stands still, what is owed does so too.
LEMMA StandsStill ==
  ASSUME UNCHANGED vars, UNCHANGED stamp, NEW t
  PROVE  /\ Owed(t)' <=> Owed(t)
         /\ Settled(t)' <=> Settled(t)
  BY DEF vars, deliveryVars, marksVars, Owed, Settled, Unprocessed, closed, marked_by,
     Listed, get_from_mailbox, Stored

\* A request may make the row, and changes nothing else of it.
LEMMA TouchedRow ==
  ASSUME InboxTypeOK, Touched
  PROVE  /\ row' \in [present : BOOLEAN, declared : BOOLEAN, retired : BOOLEAN]
         /\ row'.declared = row.declared /\ row'.retired = row.retired
         /\ row.present => row'.present
  BY DEF InboxTypeOK, Touched

-----------------------------------------------------------------------------
(* The steps *)

\* A command begins.
LEMMA StartStep ==
  ASSUME InboxInv, StartCommand, UNCHANGED <<vars, stamp>>,
         owed' = {t \in Tasks : cmd'.filtered /\ Owed(t)}
  PROVE  InboxInv'
<1>1. MarksInv'
  BY MarksNextInv DEF InboxInv
<1>2. owed' \subseteq {t \in Tasks : Owed(t)'}
  BY StandsStill
<1>3. CASE Introduce
  BY <1>1, <1>2, <1>3 DEF InboxInv, InboxTypeOK, Introduce, IntroducedRow, Idle
<1>4. ASSUME NEW mail \in SUBSET Listed(Reader), NEW complete \in BOOLEAN, NEW filtered \in BOOLEAN,
             Walk(mail, complete, filtered)
      PROVE  InboxInv'
  <2>1. mail \subseteq Tasks
    BY DEF Listed
  <2>2. /\ cmd'.step \in {"register", "marks"} /\ cmd'.dated = {t \in mail : Settled(t)}
        /\ cmd'.undeclared = FALSE
        /\ cmd' \in [step : {"idle", "register", "marks", "readback"},
              mail : SUBSET Tasks, dated : SUBSET Tasks,
              undeclared : BOOLEAN, filtered : BOOLEAN, overtaken : BOOLEAN]
    BY <1>4, <2>1 DEF Walk, Idle
  <2>3. \A t \in cmd'.dated : Settled(t)'
    BY <2>2, StandsStill
  <2>4. InboxTypeOK'
    BY <1>4, <2>2, TouchedRow DEF InboxInv, InboxTypeOK, Walk
  <2>5. QED
    BY <1>1, <1>2, <2>2, <2>3, <2>4 DEF InboxInv
<1>5. QED
  BY <1>3, <1>4 DEF StartCommand

\* A command goes on or ends, or another process of the session does something.
LEMMA ContinueStep ==
  ASSUME InboxInv, Continue, UNCHANGED <<vars, stamp>>, Remember
  PROVE  InboxInv'
<1>1. MarksInv'
  BY MarksNextInv DEF InboxInv
<1>2. owed' \subseteq {t \in Tasks : Owed(t)'}
  BY DEF Remember, InboxInv
<1>3. InboxTypeOK
  BY DEF InboxInv
<1>4. /\ cmd'.dated \in {{}, cmd.dated} /\ InboxTypeOK'
      /\ cmd'.undeclared => cmd'.step = "marks"
      /\ cmd'.step = "readback" => row'.present /\ (row'.retired => cmd'.overtaken)
  <2>1. CASE AskRegister
    <3>1. declared_in_register' \in BOOLEAN
      BY DEF declared_in_register
    <3>2. cmd' = [cmd EXCEPT !.step = "marks", !.undeclared = ~declared_in_register']
      BY <2>1 DEF AskRegister
    <3>3. /\ cmd'.step = "marks" /\ cmd'.dated = cmd.dated
          /\ cmd' \in [step : {"idle", "register", "marks", "readback"},
                       mail : SUBSET Tasks, dated : SUBSET Tasks,
                       undeclared : BOOLEAN, filtered : BOOLEAN, overtaken : BOOLEAN]
      BY <3>1, <3>2, <1>3 DEF InboxTypeOK
    <3>4. row' \in [present : BOOLEAN, declared : BOOLEAN, retired : BOOLEAN] /\ stamp' = stamp
      BY <2>1, <1>3, TouchedRow DEF AskRegister
    <3>5. QED BY <3>3, <3>4, <1>3 DEF InboxTypeOK
  <2>2. CASE RegisterRefuses
    BY <2>2, <1>3, TouchedRow DEF RegisterRefuses, InboxTypeOK
  <2>3. CASE RegisterUnreachable \/ Display \/ MarksUnreadable \/ ReadBack
    <3>1. cmd' = Idle /\ (Touched \/ UNCHANGED row)
      BY <2>3 DEF RegisterUnreachable, Display, MarksUnreadable, ReadBack
    <3>2. QED BY <3>1, <1>3, TouchedRow DEF Idle, InboxTypeOK
  <2>4. CASE OtherIntroduces
    BY <2>4, <1>3 DEF OtherIntroduces, IntroducedRow, InboxInv, InboxTypeOK
  <2>5. CASE OtherRetires
    <3>1. /\ row' = [row EXCEPT !.retired = TRUE] /\ row.present
          /\ cmd' = [cmd EXCEPT !.overtaken = cmd.step = "readback" \/ cmd.overtaken]
      BY <2>5, <1>3 DEF OtherRetires, InListing, InboxTypeOK
    <3>2. cmd' \in [step : {"idle", "register", "marks", "readback"},
                   mail : SUBSET Tasks, dated : SUBSET Tasks,
                   undeclared : BOOLEAN, filtered : BOOLEAN, overtaken : BOOLEAN]
      BY <3>1, <1>3 DEF InboxTypeOK
    <3>3. /\ cmd'.dated = cmd.dated /\ cmd'.step = cmd.step /\ cmd'.undeclared = cmd.undeclared
          /\ cmd.step = "readback" => cmd'.overtaken
      BY <3>1, <1>3 DEF InboxTypeOK
    <3>4. row' \in [present : BOOLEAN, declared : BOOLEAN, retired : BOOLEAN] /\ row'.present
      BY <3>1, <1>3 DEF InboxTypeOK
    <3>5. QED BY <3>2, <3>3, <3>4, <1>3 DEF InboxInv, InboxTypeOK
  <2>6. QED
    BY <2>1, <2>2, <2>3, <2>4, <2>5 DEF Continue
<1>5. \A t \in cmd'.dated : Settled(t)'
  BY <1>4, StandsStill DEF InboxInv
<1>6. QED
  BY <1>1, <1>2, <1>4, <1>5 DEF InboxInv

\* The hub delivers, marks or crashes.
LEMMA HubStep ==
  ASSUME InboxInv, Next, UNCHANGED <<row, cmd, stamp>>, Remember
  PROVE  InboxInv'
<1>1. MarksInv'
  BY MarksNextInv DEF InboxInv
<1>2. owed' \subseteq {t \in Tasks : Owed(t)'}
  BY DEF Remember, InboxInv
<1>3. \A t \in cmd'.dated : Settled(t)'
  <2>1. cmd.dated \subseteq Tasks /\ \A t \in cmd.dated : Settled(t)
    BY DEF InboxInv, InboxTypeOK
  <2>2. QED BY <2>1, StaysSettled DEF InboxInv
<1>4. QED
  BY <1>1, <1>2, <1>3 DEF InboxInv, InboxTypeOK

LEMMA InboxNextInv ==
  ASSUME InboxInv, [InboxNext]_allVars
  PROVE  InboxInv'
<1>1. CASE InboxNext
  BY <1>1, StartStep, ContinueStep, HubStep DEF InboxNext
<1>2. CASE UNCHANGED allVars
  <2>1. UNCHANGED <<vars, stamp, row, cmd, owed>>
    BY <1>2 DEF allVars, inboxVars
  <2>2. MarksInv'
    BY <2>1, MarksNextInv DEF InboxInv
  <2>3. \A t : (Owed(t)' <=> Owed(t)) /\ (Settled(t)' <=> Settled(t))
    BY <2>1, StandsStill
  <2>4. QED
    BY <2>1, <2>2, <2>3 DEF InboxInv, InboxTypeOK
<1>3. QED
  BY <1>1, <1>2

LEMMA InboxInitInv == InboxInit => InboxInv
<1> SUFFICES ASSUME InboxInit PROVE InboxInv
  OBVIOUS
<1>1. MarksInv
  BY MarksInitInv DEF InboxInit
<1>2. InboxTypeOK
  BY InboxAssumption DEF InboxInit, InboxTypeOK, Idle
<1>3. QED
  BY <1>1, <1>2 DEF InboxInit, InboxInv, Idle

-----------------------------------------------------------------------------
\* What a command remembers of its earlier requests stays true while others act between them.
THEOREM InboxInvariant == InboxSpec => []InboxInv
<1>1. InboxInv /\ [InboxNext]_allVars => InboxInv'
  BY InboxNextInv
<1>2. QED
  BY <1>1, InboxInitInv, PTL DEF InboxSpec

\* client.py, inbox --unprocessed: the message that was read and was owed an answer all along is
\* neither closed nor dated before marking existed, so the filter keeps it.
THEOREM OwedTheorem == InboxSpec => NothingOwedIsHidden
<1>1. InboxInv /\ [InboxNext]_allVars => [Display => owed \cap cmd.mail \subseteq Shown]_allVars
  <2> SUFFICES ASSUME InboxInv, NEW t \in owed, t \in cmd.mail
               PROVE  t \in Shown
    OBVIOUS
  <2>1. t \in Tasks /\ Owed(t) /\ (t \in cmd.dated => Settled(t))
    BY DEF InboxInv
  <2>2. t \notin closed(Reader) /\ (t \in cmd.dated => stamp[t].second > Cutoff)
    BY <2>1 DEF Owed, Unprocessed
  <2>3. stamp[t].second \in Nat /\ Cutoff \in Nat
    BY <2>1, InboxAssumption DEF InboxInv, InboxTypeOK
  <2>4. t \notin Hidden
    BY <2>2, <2>3 DEF Hidden, SortsBeforeCutoff
  <2>5. QED BY <2>4 DEF Shown
<1>2. QED
  BY <1>1, InboxInvariant, PTL DEF InboxSpec, NothingOwedIsHidden

\* client.py, declared_in_register: the warning is given to an undeclared session that is listed, and
\* never to one that had introduced itself.
THEOREM WarningTheorem == InboxSpec => WarningFitsTheRegister
<1>1. ASSUME InboxInv, [InboxNext]_allVars
      PROVE  [/\ cmd.step = "register" /\ row.declared => ~cmd'.undeclared
              /\ AskRegister /\ InListing /\ ~row.declared => cmd'.undeclared]_allVars
  <2>1. ASSUME cmd.step = "register", row.declared, InboxNext PROVE ~cmd'.undeclared
    <3>1. ~cmd.undeclared /\ InboxTypeOK
      BY <1>1, <2>1 DEF InboxInv
    <3>2. CASE AskRegister
      BY <3>1, <3>2, <2>1, TouchedRow DEF AskRegister, declared_in_register, InboxTypeOK
    <3>3. CASE ~AskRegister /\ Continue
      BY <3>1, <3>3, <2>1 DEF Continue, RegisterRefuses, RegisterUnreachable, Display,
         MarksUnreadable, ReadBack, OtherIntroduces, OtherRetires, Idle, InboxTypeOK
    <3>4. CASE UNCHANGED cmd
      BY <3>1, <3>4
    <3>5. QED
      BY <2>1, <3>2, <3>3, <3>4 DEF InboxNext, StartCommand, Walk, Introduce
  <2>2. ASSUME AskRegister, InListing, ~row.declared PROVE cmd'.undeclared
    <3>1. InListing' /\ ~row'.declared
      BY <1>1, <2>2, TouchedRow DEF AskRegister, InListing, InboxInv
    <3>2. QED BY <1>1, <2>2, <3>1 DEF AskRegister, declared_in_register, InboxInv, InboxTypeOK
  <2>3. QED BY <2>1, <2>2, <1>1
<1>2. QED
  BY <1>1, InboxInvariant, PTL DEF InboxSpec, WarningFitsTheRegister

\* client.py, introduce: a declaration that is not listed when it is read back was withdrawn by
\* another process of the session.
THEOREM TakesTheorem == InboxSpec => IntroductionTakes
<1>1. InboxInv /\ [InboxNext]_allVars => [ReadBack /\ ~InListing => cmd.overtaken]_allVars
  BY DEF InboxInv, ReadBack, InListing
<1>2. QED
  BY <1>1, InboxInvariant, PTL DEF InboxSpec, IntroductionTakes
=============================================================================
