-------------------------- MODULE CommandLineProofs --------------------------
(***************************************************************************)
(* What is sent, and under whose name, for any line of words and any        *)
(* environment and shared file: the four properties of an invocation are   *)
(* proved with one inductive invariant, CommandLineInv, of how far main    *)
(* has come.                                                               *)
(***************************************************************************)
EXTENDS CommandLine, SequenceTheorems, TLAPS

\* A sequence without its i-th element.
LEMMA Removed ==
  ASSUME NEW S, NEW s \in Seq(S), NEW i \in 1..Len(s)
  PROVE  /\ RemoveAt(s, i) \in Seq(S) /\ Len(RemoveAt(s, i)) = Len(s) - 1
         /\ \A p \in 1..(Len(s) - 1) : RemoveAt(s, i)[p] = IF p < i THEN s[p] ELSE s[p + 1]
<1> DEFINE a == SubSeq(s, 1, i - 1)
           b == SubSeq(s, i + 1, Len(s))
<1>1. /\ a \in Seq(S) /\ Len(a) = i - 1
      /\ \A p \in 1..(i - 1) : a[p] = s[p]
  OBVIOUS
<1>2. /\ b \in Seq(S) /\ Len(b) = Len(s) - i
      /\ \A p \in 1..(Len(s) - i) : b[p] = s[i + p]
  OBVIOUS
<1>3. RemoveAt(s, i) = a \o b
  BY DEF RemoveAt
<1> HIDE DEF a, b
<1>4. a \o b \in Seq(S) /\ Len(a \o b) = Len(s) - 1
  <2>1. a \o b \in Seq(S) /\ Len(a \o b) = Len(a) + Len(b)
    BY <1>1, <1>2, ConcatProperties
  <2>2. Len(s) \in Nat /\ i \in Int /\ (i - 1) + (Len(s) - i) = Len(s) - 1
    OBVIOUS
  <2>3. QED BY <1>1, <1>2, <2>1, <2>2
<1>5. ASSUME NEW p \in 1..(Len(s) - 1) PROVE (a \o b)[p] = IF p < i THEN s[p] ELSE s[p + 1]
  <2>1. CASE p < i
    BY <1>1, <1>2, <2>1
  <2>2. CASE ~ p < i
    <3>1. (a \o b)[p] = b[p - (i - 1)]
      BY <1>1, <1>2, <2>2
    <3>2. p - (i - 1) \in 1..(Len(s) - i) /\ i + (p - (i - 1)) = p + 1
      BY <2>2
    <3>3. QED BY <1>2, <2>2, <3>1, <3>2
  <2>3. QED BY <2>1, <2>2
<1>6. QED
  BY <1>3, <1>4, <1>5

\* A sequence without its first element, and from a place on.
LEMMA Behind ==
  ASSUME NEW S, NEW s \in Seq(S), s # <<>>
  PROVE  Tail(s) \in Seq(S) /\ \A p \in DOMAIN Tail(s) : p + 1 \in DOMAIN s /\ Tail(s)[p] = s[p + 1]
  BY HeadTailProperties

LEMMA FromThere ==
  ASSUME NEW S, NEW s \in Seq(S), NEW i \in 1..4
  PROVE  /\ SubSeq(s, i, Len(s)) \in Seq(S)
         /\ \A p \in DOMAIN SubSeq(s, i, Len(s)) :
              (i - 1) + p \in DOMAIN s /\ SubSeq(s, i, Len(s))[p] = s[(i - 1) + p]
  OBVIOUS

\* Without a flag and its name, the words keep their order.
LEMMA RemovedTwice ==
  ASSUME NEW S, NEW s \in Seq(S), NEW i \in 1..(Len(s) - 1)
  PROVE  /\ RemoveAt(RemoveAt(s, i), i) \in Seq(S)
         /\ Len(RemoveAt(RemoveAt(s, i), i)) = Len(s) - 2
         /\ \A p \in 1..(Len(s) - 2) :
              RemoveAt(RemoveAt(s, i), i)[p] = IF p < i THEN s[p] ELSE s[p + 2]
<1>0. i \in 1..Len(s)
  OBVIOUS
<1>1. PICK r \in Seq(S) :
        /\ r = RemoveAt(s, i) /\ Len(r) = Len(s) - 1
        /\ \A p \in 1..(Len(s) - 1) : r[p] = IF p < i THEN s[p] ELSE s[p + 1]
  BY <1>0, Removed
<1>2. i \in 1..Len(r) /\ Len(s) \in Nat /\ i \in Int
  BY <1>1
<1>3. /\ RemoveAt(r, i) \in Seq(S) /\ Len(RemoveAt(r, i)) = Len(r) - 1
      /\ \A p \in 1..(Len(r) - 1) : RemoveAt(r, i)[p] = IF p < i THEN r[p] ELSE r[p + 1]
  BY <1>2, Removed
<1>4. Len(r) - 1 = Len(s) - 2
  BY <1>1, <1>2
<1>5. ASSUME NEW p \in 1..(Len(s) - 2)
      PROVE  RemoveAt(r, i)[p] = IF p < i THEN s[p] ELSE s[p + 2]
  <2>1. p \in 1..(Len(r) - 1) /\ p \in 1..(Len(s) - 1) /\ p + 1 \in 1..(Len(s) - 1)
        /\ (p + 1) + 1 = p + 2 /\ p \in Int
    BY <1>2, <1>4
  <2>2. CASE p < i
    BY <1>1, <1>3, <2>1, <2>2
  <2>3. CASE ~ p < i
    <3>1. ~ p + 1 < i
      BY <1>2, <2>1, <2>3
    <3>2. RemoveAt(r, i)[p] = r[p + 1] /\ r[p + 1] = s[(p + 1) + 1]
      BY <1>1, <1>3, <2>1, <2>3, <3>1
    <3>3. QED BY <2>1, <2>3, <3>2
  <2>4. QED BY <2>2, <2>3
<1>6. QED
  BY <1>1, <1>3, <1>4, <1>5

\* Free text that is sent begins with an option only behind a "--" that was typed before.
LEMMA TextTravels ==
  ASSUME args \in Seq(Words), InOrder, NEW n \in 1..4,
         ~OpensWithFlag(From(n)), OpensWithFlag(Unescaped(From(n)))
  PROVE  \E i, j \in DOMAIN typed :
           i < j /\ typed[i] = "--" /\ typed[j] = Unescaped(From(n))[1]
<1> DEFINE words == From(n)
<1>1. /\ words \in Seq(Words)
      /\ \A p \in DOMAIN words : (n - 1) + p \in DOMAIN args /\ words[p] = args[(n - 1) + p]
  BY FromThere DEF From
<1> HIDE DEF words
<1>2. /\ words # <<>> /\ words[1] = "--" /\ Unescaped(words) = Tail(words)
      /\ Tail(words) # <<>>
  BY DEF words, OpensWithFlag, Unescaped
<1>3. /\ Tail(words) \in Seq(Words)
      /\ \A p \in DOMAIN Tail(words) : p + 1 \in DOMAIN words /\ Tail(words)[p] = words[p + 1]
  BY <1>1, <1>2, Behind
<1>4. 1 \in DOMAIN words /\ 1 \in DOMAIN Tail(words)
  BY <1>1, <1>2, <1>3
<1>5. 2 \in DOMAIN words /\ Tail(words)[1] = words[2]
  BY <1>3, <1>4
<1>6. /\ n \in DOMAIN args /\ n + 1 \in DOMAIN args
      /\ args[n] = "--" /\ args[n + 1] = Tail(words)[1] /\ n < n + 1
  <2>1. (n - 1) + 1 = n /\ (n - 1) + 2 = n + 1 /\ n < n + 1
    OBVIOUS
  <2>2. (n - 1) + 1 \in DOMAIN args /\ words[1] = args[(n - 1) + 1]
    BY <1>1, <1>4
  <2>3. (n - 1) + 2 \in DOMAIN args /\ words[2] = args[(n - 1) + 2]
    BY <1>1, <1>5
  <2>4. QED BY <1>2, <1>5, <2>1, <2>2, <2>3
<1>7. \E i, j \in DOMAIN typed : i < j /\ typed[i] = args[n] /\ typed[j] = args[n + 1]
  BY <1>6 DEF InOrder
<1>8. Unescaped(From(n))[1] = Tail(words)[1]
  BY <1>2 DEF words
<1>9. QED
  BY <1>6, <1>7, <1>8

\* An invocation that ends without a request.
LEMMA EndsStep ==
  ASSUME CommandLineInv, step # "end", step' = "end",
         UNCHANGED <<input, args, config, warned, request>>,
         exit' = 0 => "--help" \in ToSet(typed) \/ args = <<>> \/ args[1] = "whoami"
  PROVE  CommandLineInv'
<1>1. request' = None
  BY DEF CommandLineInv
<1>2. UNCHANGED <<typed, env, file>>
  BY DEF input
<1>3. /\ MisspeltFlagNeverTravels' /\ OnlyNamedSessionsIntroduce'
      /\ SharedIdentityIsAnnounced' /\ SuccessMeansDone'
  BY <1>1, <1>2 DEF MisspeltFlagNeverTravels, OnlyNamedSessionsIntroduce,
                    SharedIdentityIsAnnounced, SuccessMeansDone
<1>4. InOrder'
  BY <1>2 DEF CommandLineInv, InOrder
<1>5. QED
  BY <1>1, <1>2, <1>3, <1>4 DEF CommandLineInv

\* An invocation that ends with a request, or with the refusal of one.
LEMMA SendsStep ==
  ASSUME CommandLineInv, step = "run", NEW text, Sends(text), UNCHANGED input,
         args[1] \in Commands \ {"whoami"},
         args[1] = "introduce" => ~config.shared,
         OpensWithFlag(text) =>
           \E i, j \in DOMAIN typed : i < j /\ typed[i] = "--" /\ typed[j] = text[1]
  PROVE  CommandLineInv'
<1>1. CASE Refuses
  BY <1>1, EndsStep DEF Refuses, Ends
<1>2. CASE ~Refuses
  <2>1. /\ config.session \in Names /\ step' = "end"
        /\ request' = [command |-> args[1], session |-> config.session, text |-> text]
        /\ UNCHANGED <<typed, env, file, args, config, warned>>
    BY <1>2 DEF Sends, Ends, input
  <2>2. request' # None /\ request'.command = args[1] /\ request'.session = config.session
        /\ request'.text = text
    <3>1. args[1] # "none"
      BY DEF Commands, KNOWN_FLAGS, FreeFrom
    <3>2. QED BY <2>1, <3>1 DEF None
  <2>3. MisspeltFlagNeverTravels'
    BY <2>1, <2>2 DEF MisspeltFlagNeverTravels, OpensWithFlag
  <2>4. /\ config.shared <=> ~Named
        /\ ItsSession(config.session) \/ ~Named
        /\ config.shared => config.session = file
    <3>1. CASE NamedByFlag
      BY <3>1 DEF CommandLineInv, SessionRead, Named, ItsSession
    <3>2. CASE ~NamedByFlag
      <4>1. config = load /\ env \in {"unset", "blank", "mine"}
        BY <3>2 DEF CommandLineInv, SessionRead
      <4>2. config.session # "blank"
        BY <2>1 DEF Names, Commands, KNOWN_FLAGS, FreeFrom
      <4>3. QED BY <3>2, <4>1, <4>2 DEF load, Named, ItsSession
    <3>3. QED BY <3>1, <3>2
  <2>5. UNCHANGED <<Named, file>> /\ (ItsSession(request.session))' = ItsSession(config.session)
    BY <2>1, <2>2 DEF Named, NamedByFlag, ItsSession
  <2>6. OnlyNamedSessionsIntroduce'
    BY <2>2, <2>4, <2>5 DEF OnlyNamedSessionsIntroduce
  <2>7. SharedIdentityIsAnnounced'
    <3>1. warned = config.shared
      BY DEF CommandLineInv
    <3>2. QED BY <2>1, <2>2, <2>4, <2>5, <3>1 DEF SharedIdentityIsAnnounced
  <2>8. SuccessMeansDone'
    BY <2>2 DEF SuccessMeansDone
  <2>9. InOrder'
    BY <2>1 DEF CommandLineInv, InOrder
  <2>10. QED
    BY <2>1, <2>3, <2>6, <2>7, <2>8, <2>9 DEF CommandLineInv
<1>3. QED
  BY <1>1, <1>2

\* The steps before a command that leave no request.
LEMMA GoesOn ==
  ASSUME CommandLineInv, UNCHANGED <<input, request>>, step # "end", step' # "end",
         step' \in {"help", "flags", "load", "run"},
         args' \in Seq(Words), InOrder',
         config' \in [session : Words \cup {"unset", "blank", "mine", "shared"}, shared : BOOLEAN],
         SessionRead',
         step' \in {"flags", "load", "run"} => args' # <<>>,
         step' = "run" => warned' = (config'.shared /\ args'[1] # "whoami")
  PROVE  CommandLineInv'
<1>1. request' = None /\ UNCHANGED <<typed, env, file>>
  BY DEF CommandLineInv, input
<1>2. /\ MisspeltFlagNeverTravels' /\ OnlyNamedSessionsIntroduce'
      /\ SharedIdentityIsAnnounced' /\ SuccessMeansDone'
  BY <1>1 DEF MisspeltFlagNeverTravels, OnlyNamedSessionsIntroduce,
              SharedIdentityIsAnnounced, SuccessMeansDone
<1>3. QED
  BY <1>1, <1>2 DEF CommandLineInv

\* "--session NAME" is taken out; what is left keeps its order.
LEMMA SessionFlagStep ==
  ASSUME CommandLineInv, SessionFlag
  PROVE  CommandLineInv'
<1>0. /\ step = "typed" /\ args = typed /\ config = Unread /\ typed \in Seq(Words)
      /\ InOrder /\ UNCHANGED <<warned, request, input>> /\ UNCHANGED typed
  BY DEF SessionFlag, CommandLineInv, input
<1>1. CASE /\ "--session" \notin ToSet(args)
           /\ step' = "help" /\ UNCHANGED <<args, config, exit>>
  <2>1. SessionRead'
    BY <1>0, <1>1 DEF SessionRead, NamedByFlag
  <2>2. InOrder'
    BY <1>0, <1>1 DEF InOrder
  <2>3. QED BY <1>0, <1>1, <2>1, <2>2, GoesOn DEF CommandLineInv
<1>2. CASE /\ FlagAt(args, Len(args))
           /\ Ends(1) /\ UNCHANGED <<args, config>>
  BY <1>0, <1>2, EndsStep DEF Ends
<1>3. ASSUME NEW i \in 1..(Len(args) - 1), FlagAt(args, i),
             args' = RemoveAt(RemoveAt(args, i), i),
             config' = [session |-> args[i + 1], shared |-> FALSE],
             step' = "help"
      PROVE  CommandLineInv'
  <2>1. /\ args' \in Seq(Words) /\ Len(args') = Len(typed) - 2
        /\ \A p \in 1..(Len(typed) - 2) : args'[p] = IF p < i THEN typed[p] ELSE typed[p + 2]
    BY <1>0, <1>3, RemovedTwice
  <2>2. Len(typed) \in Nat /\ i \in Int /\ DOMAIN typed = 1..Len(typed) /\ DOMAIN args' = 1..(Len(typed) - 2)
    BY <1>0, <2>1
  <2>3. ASSUME NEW p \in DOMAIN args'
        PROVE  LET g(x) == IF x < i THEN x ELSE x + 2
               IN  g(p) \in DOMAIN typed /\ args'[p] = typed[g(p)] /\ p \in Int
    BY <2>1, <2>2
  <2>4. InOrder'
    <3>1. ToSet(args') \subseteq ToSet(typed)
      BY <2>3 DEF ToSet
    <3>2. ASSUME NEW p \in DOMAIN args', NEW q \in DOMAIN args', p < q
          PROVE  \E a, b \in DOMAIN typed : a < b /\ typed[a] = args'[p] /\ typed[b] = args'[q]
      <4>1. LET g(x) == IF x < i THEN x ELSE x + 2
            IN  g(p) < g(q)
        BY <2>2, <2>3, <3>2
      <4>2. QED BY <2>3, <4>1
    <3>3. QED BY <1>0, <3>1, <3>2 DEF InOrder
  <2>5. args[i + 1] \in Words
    BY <1>0, <1>3
  <2>6. NamedByFlag
    BY <1>0, <1>3 DEF NamedByFlag, FlagAt, ToSet
  <2>7. SessionRead'
    BY <1>0, <1>3, <2>6 DEF SessionRead, NamedByFlag
  <2>8. QED BY <1>0, <1>3, <2>1, <2>4, <2>5, <2>7, GoesOn
<1>4. QED
  BY <1>1, <1>2, <1>3 DEF SessionFlag

LEMMA HelpStep ==
  ASSUME CommandLineInv, Help \/ UnknownFlags
  PROVE  CommandLineInv'
<1>0. /\ step \in {"help", "flags"} /\ UNCHANGED <<args, config, warned, request, input>>
      /\ UNCHANGED typed
  BY DEF Help, UnknownFlags, input
<1>1. CASE step' = "end"
  <2>1. ToSet(args) \subseteq ToSet(typed)
    BY DEF CommandLineInv, InOrder
  <2>2. exit' = 0 => "--help" \in ToSet(typed) \/ args = <<>>
    BY <1>1, <2>1 DEF Help, UnknownFlags, Ends
  <2>3. QED BY <1>0, <1>1, <2>2, EndsStep
<1>2. CASE step' # "end"
  <2>1. step' \in {"flags", "load"} /\ args # <<>>
    BY <1>2 DEF Help, UnknownFlags, Ends, CommandLineInv
  <2>2. SessionRead'
    BY <1>0, <2>1 DEF CommandLineInv, SessionRead, NamedByFlag
  <2>3. InOrder'
    BY <1>0 DEF CommandLineInv, InOrder
  <2>4. QED BY <1>0, <2>1, <2>2, <2>3, GoesOn DEF CommandLineInv
<1>3. QED
  BY <1>1, <1>2

\* The session is the flag's, or what the environment and the file say.
LEMMA LoadStep ==
  ASSUME CommandLineInv, Load
  PROVE  CommandLineInv'
<1>0. /\ step = "load" /\ UNCHANGED <<args, request, input>> /\ UNCHANGED <<typed, env, file>>
      /\ args # <<>>
  BY DEF Load, input, CommandLineInv
<1>1. CASE load.session = "unset"
  BY <1>0, <1>1, EndsStep DEF Load, Ends
<1>2. CASE load.session # "unset"
  <2>1. /\ config' = IF config.session = "unset" THEN load ELSE config
        /\ warned' = (config'.shared /\ args[1] # "whoami")
        /\ step' = "run"
    BY <1>0, <1>2 DEF Load
  <2>2. config.session = "unset" <=> ~NamedByFlag
    <3>1. CASE NamedByFlag
      <4>1. PICK i \in 1..(Len(typed) - 1) : config.session = typed[i + 1]
        BY <1>0, <3>1 DEF CommandLineInv, SessionRead
      <4>2. typed[i + 1] \in Words
        BY DEF CommandLineInv
      <4>3. "unset" \notin Words
        BY DEF Words, Options, Commands, KNOWN_FLAGS, FreeFrom
      <4>4. QED BY <3>1, <4>1, <4>2, <4>3
    <3>2. CASE ~NamedByFlag
      BY <1>0, <3>2 DEF CommandLineInv, SessionRead, Unread
    <3>3. QED BY <3>1, <3>2
  <2>3. SessionRead'
    BY <1>0, <2>1, <2>2 DEF CommandLineInv, SessionRead, NamedByFlag, load
  <2>4. config' \in [session : Words \cup {"unset", "blank", "mine", "shared"}, shared : BOOLEAN]
    BY <2>1 DEF CommandLineInv, load
  <2>5. InOrder'
    BY <1>0 DEF CommandLineInv, InOrder
  <2>6. QED BY <1>0, <2>1, <2>3, <2>4, <2>5, GoesOn DEF CommandLineInv
<1>3. QED
  BY <1>1, <1>2

\* A command: what it refuses, and what it sends.
LEMMA RunStep ==
  ASSUME CommandLineInv, Run
  PROVE  CommandLineInv'
<1>0. step = "run" /\ UNCHANGED input
  BY DEF Run, WhoAmI, Inbox, Send, NoCommand, FreeText, At
<1>1. CASE Refuses
  BY <1>0, <1>1, EndsStep DEF Refuses, Ends
<1>2. CASE WhoAmI
  BY <1>0, <1>2, EndsStep DEF WhoAmI, Ends, At
<1>3. CASE Inbox
  <2>1. args[1] = "inbox" /\ Sends(<<>>) /\ ~OpensWithFlag(<<>>)
    BY <1>3 DEF Inbox, At, OpensWithFlag
  <2>2. "inbox" \in Commands \ {"whoami"}
    BY DEF Commands, KNOWN_FLAGS
  <2>3. QED BY <1>0, <2>1, <2>2, SendsStep
<1>4. CASE Send /\ ~Refuses
  <2>1. args[1] = "send" /\ "send" \in Commands \ {"whoami"}
    BY <1>4 DEF Send, At, Commands
  <2>2. CASE Sends(<<"body">>)
    <3>1. ~OpensWithFlag(<<"body">>)
      BY DEF OpensWithFlag, Options
    <3>2. QED BY <1>0, <2>1, <2>2, <3>1, SendsStep
  <2>3. CASE Sends(Unescaped(From(3))) /\ ~OpensWithFlag(From(3))
    <3>1. OpensWithFlag(Unescaped(From(3))) =>
            \E i, j \in DOMAIN typed : i < j /\ typed[i] = "--" /\ typed[j] = Unescaped(From(3))[1]
      BY <2>3, TextTravels DEF CommandLineInv
    <3>2. QED BY <1>0, <2>1, <2>3, <3>1, SendsStep
  <2>4. QED BY <1>4, <2>2, <2>3 DEF Send
<1>5. ASSUME NEW command \in DOMAIN FreeFrom, FreeText(command), ~Refuses
      PROVE  CommandLineInv'
  <2>1. /\ args[1] = command /\ command \in Commands \ {"whoami"} /\ FreeFrom[command] \in 1..4
        /\ Sends(Unescaped(From(FreeFrom[command]))) /\ ~OpensWithFlag(From(FreeFrom[command]))
        /\ command = "introduce" => ~config.shared
    BY <1>5 DEF FreeText, At, Commands, FreeFrom
  <2>2. PICK n \in 1..4 : n = FreeFrom[command]
    BY <2>1
  <2>3. OpensWithFlag(Unescaped(From(n))) =>
          \E i, j \in DOMAIN typed : i < j /\ typed[i] = "--" /\ typed[j] = Unescaped(From(n))[1]
    BY <2>1, <2>2, TextTravels DEF CommandLineInv
  <2>4. QED BY <1>0, <2>1, <2>2, <2>3, SendsStep
<1>6. QED
  BY <1>1, <1>2, <1>3, <1>4, <1>5 DEF Run, NoCommand

LEMMA CommandLineNextInv ==
  ASSUME CommandLineInv, [Next]_vars
  PROVE  CommandLineInv'
<1>1. CASE Next
  BY <1>1, SessionFlagStep, HelpStep, LoadStep, RunStep DEF Next
<1>2. CASE UNCHANGED vars
  <2>1. UNCHANGED <<typed, env, file, step, args, config, warned, request, exit>>
    BY <1>2 DEF vars
  <2>2. /\ MisspeltFlagNeverTravels' /\ OnlyNamedSessionsIntroduce'
        /\ SharedIdentityIsAnnounced' /\ SuccessMeansDone' /\ InOrder' /\ SessionRead' = SessionRead
    BY <2>1 DEF CommandLineInv, MisspeltFlagNeverTravels, OnlyNamedSessionsIntroduce, ItsSession,
                SharedIdentityIsAnnounced, SuccessMeansDone, Named, NamedByFlag, InOrder,
                SessionRead, load
  <2>3. QED BY <2>1, <2>2 DEF CommandLineInv
<1>3. QED
  BY <1>1, <1>2

LEMMA CommandLineInitInv ==
  ASSUME Init
  PROVE  CommandLineInv
<1>1. typed \in SeqOf(Words, MaxWords)
  BY DEF Init, Lines
<1>2. PICK m \in 0..MaxWords : typed \in [1..m -> Words]
  BY <1>1 DEF SeqOf
<1>3. m \in Nat
  BY <1>2, CommandLineAssumption
<1>7. typed \in Seq(Words)
  BY <1>2, <1>3
<1>8. /\ args = typed /\ config = Unread /\ step = "typed" /\ request = None /\ warned = FALSE
      /\ env \in {"unset", "blank", "mine"} /\ file \in {"unset", "shared"}
  BY DEF Init
<1>9. InOrder
  BY <1>7, <1>8 DEF InOrder
<1>10. /\ MisspeltFlagNeverTravels /\ OnlyNamedSessionsIntroduce
       /\ SharedIdentityIsAnnounced /\ SuccessMeansDone
  BY <1>8 DEF MisspeltFlagNeverTravels, OnlyNamedSessionsIntroduce,
              SharedIdentityIsAnnounced, SuccessMeansDone
<1>11. QED
  BY <1>7, <1>8, <1>9, <1>10 DEF CommandLineInv, Unread

-----------------------------------------------------------------------------
\* CommandLineInv holds at every step of an invocation.
THEOREM CommandLineInvariant == Spec => []CommandLineInv
<1>1. Init => CommandLineInv
  BY CommandLineInitInv
<1>2. CommandLineInv /\ [Next]_vars => CommandLineInv'
  BY CommandLineNextInv
<1>3. QED
  BY <1>1, <1>2, PTL DEF Spec

\* client.py, _free_text_or_refuse: no line of words makes an option the beginning of a text that
\* is sent, but behind a "--" that was typed before it.
THEOREM FlagTheorem == Spec => []MisspeltFlagNeverTravels
<1>1. CommandLineInv => MisspeltFlagNeverTravels
  BY DEF CommandLineInv
<1>2. QED
  BY <1>1, CommandLineInvariant, PTL

\* client.py, introduce: whoever introduces itself has named its own session.
THEOREM IntroducesTheorem == Spec => []OnlyNamedSessionsIntroduce
<1>1. CommandLineInv => OnlyNamedSessionsIntroduce
  BY DEF CommandLineInv
<1>2. QED
  BY <1>1, CommandLineInvariant, PTL

\* client.py, the warning of main: a request is announced as the host's exactly when it is.
THEOREM SharedTheorem == Spec => []SharedIdentityIsAnnounced
<1>1. CommandLineInv => SharedIdentityIsAnnounced
  BY DEF CommandLineInv
<1>2. QED
  BY <1>1, CommandLineInvariant, PTL

\* The exit status: no command ends well without the request it is for.
THEOREM SuccessTheorem == Spec => []SuccessMeansDone
<1>1. CommandLineInv => SuccessMeansDone
  BY DEF CommandLineInv
<1>2. QED
  BY <1>1, CommandLineInvariant, PTL
=============================================================================
