----------------------------- MODULE CommandLine -----------------------------
(***************************************************************************)
(* One invocation of the client: what was typed is read, the configuration *)
(* merged from the environment of the process and the file shared by every *)
(* process of the host, and at most one request sent under the resulting   *)
(* session.  A word is a member of a small set; what counts is whether it  *)
(* is an option and where it stands.                                       *)
(***************************************************************************)
EXTENDS Naturals, SequencesExt

CONSTANT MaxWords \* bound: the words typed

ASSUME CommandLineAssumption == MaxWords \in Nat \ {0}

Options == {"--", "--session", "--help", "--json", "--body-file"}

\* The options of the commands that take no free text ...
KNOWN_FLAGS == [inbox |-> {"--json"}, whoami |-> {}]

\* ... and where the free text of the others begins.
FreeFrom == [status |-> 2, processed |-> 3, introduce |-> 4]

Commands == DOMAIN KNOWN_FLAGS \cup DOMAIN FreeFrom \cup {"send"}

\* SESSION_PATTERN: no option and nothing blank is the name of a session.
Names == Commands \cup {"word", "mine", "shared"}

Words == Options \cup Commands \cup {"word"}

VARIABLES
  typed,   \* the words of the invocation
  env,     \* A2A_HUB_SESSION of the process, "unset" or of blanks only perhaps
  file,    \* A2A_HUB_SESSION of the shared file
  step,    \* how far main has come
  args,    \* what is left of the words
  config,  \* the session and session_from_shared_file
  warned,  \* the warning about a shared session was printed
  request, \* the request the hub accepted
  exit     \* the exit status

vars == <<typed, env, file, step, args, config, warned, request, exit>>
input == <<typed, env, file>>

None == [command |-> "none"]
Unread == [session |-> "unset", shared |-> FALSE]

Ends(status) == step' = "end" /\ exit' = status
Refuses == Ends(1) /\ UNCHANGED <<args, config, warned, request>>

-----------------------------------------------------------------------------
\* The first "--session" of the words.
FlagAt(words, i) ==
  /\ i \in DOMAIN words /\ words[i] = "--session"
  /\ \A j \in 1..(i - 1) : words[j] # "--session"

\* Somewhere in the words, "--session NAME".
SessionFlag ==
  /\ step = "typed"
  /\ \/ /\ "--session" \notin ToSet(args)
        /\ step' = "help" /\ UNCHANGED <<args, config, exit>>
     \/ /\ FlagAt(args, Len(args))
        /\ Ends(1) /\ UNCHANGED <<args, config>>
     \/ \E i \in 1..(Len(args) - 1) :
          /\ FlagAt(args, i)
          /\ args' = RemoveAt(RemoveAt(args, i), i)
          /\ config' = [session |-> args[i + 1], shared |-> FALSE]
          /\ step' = "help"
          /\ UNCHANGED exit
  /\ UNCHANGED <<warned, request, input>>

Help ==
  /\ step = "help"
  /\ IF args = <<>> \/ "--help" \in ToSet(args) THEN Ends(0) ELSE step' = "flags" /\ UNCHANGED exit
  /\ UNCHANGED <<args, config, warned, request, input>>

unknown_flags ==
  IF args[1] \in DOMAIN KNOWN_FLAGS
  THEN (ToSet(Tail(args)) \cap Options) \ KNOWN_FLAGS[args[1]] ELSE {}

UnknownFlags ==
  /\ step = "flags"
  /\ IF unknown_flags # {} THEN Ends(2) ELSE step' = "load" /\ UNCHANGED exit
  /\ UNCHANGED <<args, config, warned, request, input>>

\* Mutation of load: the host's default passes for the process's own session.
loadUnmarked == [session |-> IF env # "unset" THEN env ELSE file, shared |-> FALSE]

\* The environment wins over the file; shared unless it holds more than blanks.
load == [session |-> IF env # "unset" THEN env ELSE file, shared |-> env \in {"unset", "blank"}]

\* Mutation of Load: naming the session by the flag leaves the file's mark on it.
LoadUncleared ==
  /\ step = "load"
  /\ IF load.session = "unset" THEN Ends(1) /\ UNCHANGED <<config, warned>>
     ELSE LET chosen == IF config.session = "unset" THEN load
                        ELSE [load EXCEPT !.session = config.session]
          IN  /\ config' = chosen
              /\ warned' = (chosen.shared /\ args[1] # "whoami")
              /\ step' = "run" /\ UNCHANGED exit
  /\ UNCHANGED <<args, request, input>>

\* A session must be configured even when the flag then overrides it; every command
\* under a shared one is warned about.
Load ==
  /\ step = "load"
  /\ IF load.session = "unset" THEN Ends(1) /\ UNCHANGED <<config, warned>>
     ELSE LET chosen == IF config.session = "unset" THEN load ELSE config
          IN  /\ config' = chosen
              /\ warned' = (chosen.shared /\ args[1] # "whoami")
              /\ step' = "run" /\ UNCHANGED exit
  /\ UNCHANGED <<args, request, input>>

-----------------------------------------------------------------------------
(* The commands *)

At(command) == step = "run" /\ args[1] = command

From(i) == SubSeq(args, i, Len(args))

\* The middleware accepts only a session of the pattern; then the hub carries the request
\* out or not, and answers or not.
Sends(text) ==
  \/ Refuses
  \/ /\ config.session \in Names
     /\ request' = [command |-> args[1], session |-> config.session, text |-> text]
     /\ Ends(0) \/ Ends(1)
     /\ UNCHANGED <<args, config, warned>>

WhoAmI == At("whoami") /\ Ends(0) /\ UNCHANGED <<args, config, warned, request>>

\* It stands for read, agents, marks and retire as well.
Inbox == At("inbox") /\ Sends(<<>>)

\* Whether free text is refused, and what of it travels.
OpensWithFlag(words) == words # <<>> /\ words[1] \in Options \ {"--"}
Unescaped(words) == IF words # <<>> /\ words[1] = "--" THEN Tail(words) ELSE words

\* Mutation of FreeText: the empty detail is let through and not sent.
FreeTextSilent(command) ==
  /\ At(command)
  /\ LET words == From(FreeFrom[command])
     IN  IF Len(args) < FreeFrom[command] - 1 \/ OpensWithFlag(words) THEN Refuses
         ELSE IF command = "processed" /\ Unescaped(words) = <<>>
         THEN Ends(0) /\ UNCHANGED <<args, config, warned, request>>
         ELSE IF command = "introduce" /\ config.shared THEN Refuses
         ELSE Sends(Unescaped(words))

\* introduce refuses a shared session; a mark needs its detail, a status a first word.
FreeText(command) ==
  /\ At(command)
  /\ LET words == From(FreeFrom[command])
     IN  IF \/ command = "introduce" /\ config.shared
            \/ Len(args) < FreeFrom[command] - 1
            \/ command = "status" /\ words = <<>>
            \/ OpensWithFlag(words)
            \/ command = "processed" /\ Unescaped(words) = <<>>
         THEN Refuses
         ELSE Sends(Unescaped(words))

\* Mutation of Send: what is not the option is the text.
SendAnything ==
  /\ At("send")
  /\ IF Len(args) < 3 THEN Refuses
     ELSE IF args[3] = "--body-file" /\ Len(args) >= 4 THEN Sends(<<"body">>)
     ELSE Sends(From(3))

\* A body from a file, which may be unreadable, or the rest of the words.
Send ==
  /\ At("send")
  /\ IF Len(args) < 3 THEN Refuses
     ELSE IF args[3] = "--body-file" /\ Len(args) >= 4 THEN Sends(<<"body">>)
     ELSE IF OpensWithFlag(From(3)) THEN Refuses
     ELSE Sends(Unescaped(From(3)))

NoCommand == step = "run" /\ args[1] \notin Commands /\ Refuses

Run ==
  /\ \/ WhoAmI \/ Inbox \/ Send \/ NoCommand
     \/ \E command \in DOMAIN FreeFrom : FreeText(command)
  /\ UNCHANGED input

-----------------------------------------------------------------------------
\* Lines of options and words, with one command somewhere.
Lines ==
  {line \in SeqOf(Words, MaxWords) :
     \E i \in DOMAIN line :
       line[i] \in Commands /\ \A j \in DOMAIN line \ {i} : line[j] \notin Commands}

Init ==
  /\ typed \in Lines
  /\ env \in {"unset", "blank", "mine"} /\ file \in {"unset", "shared"}
  /\ step = "typed" /\ args = typed
  /\ config = Unread
  /\ warned = FALSE /\ request = None
  /\ exit = 0

Next == SessionFlag \/ Help \/ UnknownFlags \/ Load \/ Run

Spec == Init /\ [][Next]_vars

-----------------------------------------------------------------------------
(* Properties *)

\* What the process was told its session is, by the flag or by its own environment.
NamedByFlag == "--session" \in ToSet(typed)
Named == NamedByFlag \/ env = "mine"
ItsSession(name) ==
  IF NamedByFlag THEN \E i \in DOMAIN typed : FlagAt(typed, i) /\ name = typed[i + 1]
  ELSE name = env

\* "It would travel as the literal text of your command": an option that is misspelt, or
\* not one of this command's, is never the beginning of what is sent, unless the words
\* typed before it end the options; taking "--session NAME" out of the middle of a line
\* does not change that.
MisspeltFlagNeverTravels ==
  request # None /\ OpensWithFlag(request.text) =>
    \E i, j \in DOMAIN typed : i < j /\ typed[i] = "--" /\ typed[j] = request.text[1]

\* "Registering under it silently overwrites whoever registered last": no two processes
\* of the host introduce themselves as the same session unless each of them named it.
OnlyNamedSessionsIntroduce ==
  request # None /\ request.command = "introduce" =>
    Named /\ ItsSession(request.session)

\* Whatever is read or signed as the host's default is announced as that, and a process
\* that did name its session, by either way, is never told to.
SharedIdentityIsAnnounced ==
  request # None => (warned <=> ~Named) /\ (warned => request.session = file)

\* A command that ends well has done what it was for: only help and whoami ask nothing of
\* the hub.
SuccessMeansDone ==
  step = "end" /\ exit = 0 =>
    request # None \/ "--help" \in ToSet(typed) \/ args = <<>> \/ args[1] = "whoami"

\* What is left of the words keeps their order.
InOrder ==
  /\ ToSet(args) \subseteq ToSet(typed)
  /\ \A p, q \in DOMAIN args : p < q =>
       \E i, j \in DOMAIN typed : i < j /\ typed[i] = args[p] /\ typed[j] = args[q]

\* Whose session it is, as far as main has read: the flag's, else what load says.
SessionRead ==
  IF NamedByFlag
  THEN ~config.shared /\ \E i \in 1..(Len(typed) - 1) :
                           FlagAt(typed, i) /\ config.session = typed[i + 1]
  ELSE config = IF step = "run" THEN load ELSE Unread

\* The inductive invariant of an invocation.
CommandLineInv ==
  /\ typed \in Seq(Words) /\ args \in Seq(Words)
  /\ env \in {"unset", "blank", "mine"} /\ file \in {"unset", "shared"}
  /\ config \in [session : Words \cup {"unset", "blank", "mine", "shared"}, shared : BOOLEAN]
  /\ step \in {"typed", "help", "flags", "load", "run", "end"}
  /\ InOrder
  /\ step = "typed" => args = typed /\ config = Unread
  /\ step \in {"help", "flags", "load", "run"} => SessionRead
  /\ step \in {"flags", "load", "run"} => args # <<>>
  /\ step = "run" => warned = (config.shared /\ args[1] # "whoami")
  /\ step # "end" => request = None
  /\ MisspeltFlagNeverTravels /\ OnlyNamedSessionsIntroduce
  /\ SharedIdentityIsAnnounced /\ SuccessMeansDone
=============================================================================
