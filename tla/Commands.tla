------------------------------ MODULE Commands ------------------------------
(***************************************************************************)
(* One run of the program (main.go, internal/cmd): the arguments parsed    *)
(* (Args), flags that need it looked at, inputs opened in order, the       *)
(* sandbox closed, the flow run, and what comes out reported in text or    *)
(* JSON with an exit status.  A flow is what its result and errors look    *)
(* like; VerifyFlow, CheckFlow and SignFlow are the details, and so is     *)
(* Config of a reference and SignersDir of the default signers.            *)
(***************************************************************************)
EXTENDS Args, FiniteSets

CONSTANT CommandLines

Request ==
    [command : CommandName,
     json : BOOLEAN,
     timestamp : {"none", "good", "bad"},
     namespace : BOOLEAN, noNamespace : BOOLEAN,          \* namespace: not empty
     key : {"none", "key", "alias", "junk"}, noKey : BOOLEAN,
     signers : {"default", "file"},
     stdin : SUBSET {"signature", "data"}]                \* inputs that have no path

ASSUME CommandsAssumption == \A argv \in CommandLines : argv \in Seq(Argument)

VARIABLES
    argv,
    terminal,   \* standard input is one
    config,     \* what it has for an alias, or for sign.key: a key, none, or it is refused
    request,
    opened,     \* how many of the inputs are open
    restricted, \* restrict was called: paths are out of reach, where the kernel helps
    zone,       \* the local time zone is loaded
    contents,   \* history: the inputs whose contents were read
    denied,     \* history: a path was looked up although restricted
    result,     \* the command returned a result
    errs,       \* the errors it returned
    out,        \* what was written to stdout
    exit, pc

vars == <<argv, terminal, config, request, opened, restricted, zone, contents, denied,
          result, errs, out, exit, pc>>

command == request.command

-----------------------------------------------------------------------------

\* What is opened, in this order; the agent's socket is one of them.
Inputs ==
    CASE command = "inspect" -> <<"signature">>
      [] command = "sign"    -> <<"data", "agent">>
      [] command = "verify"  -> <<"signers", "signature", "data">>
      [] command = "check"   -> <<"signature", "data">>

Usage == {"timestamp", "namespace", "alias", "key", "missing", "arguments"}

NoRequest ==
    [command |-> "version", json |-> FALSE, timestamp |-> "none", namespace |-> FALSE,
     noNamespace |-> FALSE, key |-> "none", noKey |-> FALSE, signers |-> "default", stdin |-> {}]

Init ==
    /\ argv \in CommandLines
    /\ terminal \in BOOLEAN
    /\ config \in {"key", "none", "refused"}
    /\ request = NoRequest
    /\ opened = 0 /\ restricted = FALSE /\ zone = FALSE
    /\ contents = {} /\ denied = FALSE
    /\ result = FALSE /\ errs = {}
    /\ out = {} /\ exit = -1
    /\ pc = "command"

\* A path is looked up.
LookUp == denied' = (denied \/ restricted)

\* The command returns.
Return(some, errors) ==
    /\ result' = some
    /\ errs' = errors
    /\ pc' = "report"
    /\ UNCHANGED <<argv, terminal, config, request, out, exit>>

Fail(error) ==
    /\ Return(FALSE, {error})
    /\ UNCHANGED <<opened, restricted, zone, contents>>

TakeFlags(loaded) ==
    /\ zone' \in {zone, loaded}
    /\ pc' = "inputs"
    /\ UNCHANGED <<argv, terminal, config, request, opened, restricted, contents, result, errs,
                   out, exit>>

-----------------------------------------------------------------------------

Stop(label, errors) ==
    /\ pc' = label
    /\ errs' = errors
    /\ UNCHANGED <<argv, terminal, config, opened, restricted, zone, contents, denied, result, out,
                   exit>>

\* The name of the command, and the arguments that follow it.
Main ==
    /\ pc = "command"
    /\ LET parsed == ParseCommand(argv)
           rest == ParseFlags(Root, argv).rest
       IN  \/ parsed = "invalid" /\ Stop("report", {"arguments"}) /\ UNCHANGED request
           \/ parsed = "help" /\ Stop("help", {}) /\ UNCHANGED request
           \/ /\ parsed = "valid" /\ Stop("arguments", {})
              /\ request' = [NoRequest EXCEPT !.command = rest[1].text]

\* An alias is one the config may have or not (Config).
KeyOf(text) ==
    CASE text = "" -> "none"
      [] text = "key" -> "key"
      [] text \in {"time", "junk"} -> "junk"
      [] OTHER -> "alias"

\* verify and check look for <verify-file>.sig rather than have a signature typed.
FromStdin(name, given) ==
    CASE name = "sign" -> IF Changed(given, "f") THEN {} ELSE {"data"}
      [] name = "inspect" -> IF Changed(given, "s") THEN {} ELSE {"signature"}
      [] name \in {"verify", "check"} ->
            IF Changed(given, "s") \/ terminal THEN {} ELSE {"signature"}
      [] OTHER -> {}

RequestOf(name, given) ==
    [command |-> name, json |-> Changed(given, "j"),
     timestamp |-> IF ~Changed(given, "t") THEN "none"
                   ELSE IF ValueOf(given, "t", "") = "time" THEN "good" ELSE "bad",
     namespace |-> ValueOf(given, "n", IF name = "verify" THEN "" ELSE "file") # "",
     noNamespace |-> Changed(given, "N"),
     key |-> KeyOf(ValueOf(given, "k", "")), noKey |-> Changed(given, "K"),
     signers |-> IF Changed(given, "a") THEN "file" ELSE "default",
     stdin |-> FromStdin(name, given)]

Arguments == Tail(ParseFlags(Root, argv).rest)

ParseArguments ==
    /\ pc = "arguments"
    /\ LET parsed == Parse(SetOf(command), Arguments)
           given == ParseFlags(SetOf(command), Arguments).given
       IN  \/ parsed = "invalid" /\ Stop("report", {"arguments"}) /\ UNCHANGED request
           \/ parsed = "help" /\ Stop("help", {}) /\ UNCHANGED request
           \/ parsed = "valid" /\ Stop("flags", {}) /\ request' = RequestOf(command, given)

Version ==
    /\ pc = "flags" /\ command = "version"
    /\ Return(TRUE, {})
    /\ UNCHANGED <<opened, restricted, zone, contents, denied>>

InspectFlags == pc = "flags" /\ command = "inspect" /\ TakeFlags(FALSE) /\ UNCHANGED denied

\* A time without a zone is local, which loads the zone.
VerifyFlags ==
    /\ pc = "flags" /\ command = "verify"
    /\ \/ request.timestamp # "bad" /\ TakeFlags(request.timestamp = "good")
       \/ request.timestamp = "bad" /\ Fail("timestamp")
    /\ LookUp

\* The reference is the option, or else sign.key (Config).
SignFlags ==
    /\ pc = "flags" /\ command = "sign"
    /\ \/ /\ request.key = "key" \/ (request.key # "junk" /\ config = "key")
          /\ TakeFlags(FALSE)
       \/ request.key = "junk" /\ Fail("key")
       \/ request.key \in {"alias", "none"} /\ config = "refused" /\ Fail("config")
       \/ request.key = "alias" /\ config = "none" /\ Fail("alias")
       \/ /\ request.key = "none" /\ config = "none"
          /\ \E error \in {"sign.key", "missing"} : Fail(error)
    /\ LookUp

ErrorIf(wrong, error) == IF wrong THEN {error} ELSE {}

AliasTried == request.key = "alias" /\ ~request.noKey
AliasErrors ==
    ErrorIf(AliasTried /\ config = "refused", "config")
      \cup ErrorIf(AliasTried /\ config = "none", "alias")

\* flow.CheckAuthKey, of the key that an alias stands for once it is found.
CheckAuthKey ==
    /\ (request.key # "none") # request.noKey
    /\ request.key # "junk" /\ (request.key = "alias" => AliasTried /\ config = "key")

\* Mutant: an alias that was not found is looked at as a key as well.
KeyErrorsAgain == ErrorIf(~CheckAuthKey, "key")

KeyErrors == ErrorIf(AliasErrors = {} /\ ~CheckAuthKey, "key")

\* check drops the default of -n.
CheckErrors ==
    ErrorIf(request.timestamp = "bad", "timestamp")
      \cup AliasErrors \cup KeyErrors
      \cup ErrorIf(~request.noNamespace /\ ~request.namespace, "namespace")

CheckFlags ==
    /\ pc = "flags" /\ command = "check"
    /\ \/ CheckErrors = {} /\ TakeFlags(request.timestamp = "good")
       \/ /\ CheckErrors # {} /\ Return(FALSE, CheckErrors)
          /\ UNCHANGED <<opened, restricted, zone, contents>>
    /\ LookUp

-----------------------------------------------------------------------------

Opening == pc = "inputs" /\ opened < Len(Inputs)
input == Inputs[opened + 1]

\* The default files are examined as they are read.
ReadAtOnce == input = "signers" /\ request.signers = "default"

Open ==
    /\ Opening
    /\ opened' = opened + 1
    /\ contents' = IF ReadAtOnce THEN contents \cup {input} ELSE contents
    /\ denied' = (denied \/ (restricted /\ input \notin request.stdin))
    /\ UNCHANGED <<argv, terminal, config, request, restricted, zone, result, errs, out, exit, pc>>

OpenFails ==
    /\ Opening /\ input \notin request.stdin
    /\ \/ /\ Return(FALSE, {"open"})
          /\ contents' = contents \/ (ReadAtOnce /\ contents' = contents \cup {input})
       \/ ReadAtOnce /\ Return(FALSE, {"missing"}) /\ UNCHANGED contents
    /\ LookUp
    /\ UNCHANGED <<opened, restricted, zone>>

\* Mutant: the zone is left to whoever needs it first.
RestrictUnzoned ==
    /\ pc = "inputs" /\ opened = Len(Inputs)
    /\ restricted' = TRUE
    /\ pc' = "flow"
    /\ UNCHANGED <<argv, terminal, config, request, opened, zone, contents, denied, result, errs,
                   out, exit>>

Restrict ==
    /\ pc = "inputs" /\ opened = Len(Inputs)
    /\ restricted' = TRUE
    /\ zone' = TRUE
    /\ pc' = "flow"
    /\ UNCHANGED <<argv, terminal, config, request, opened, contents, denied, result, errs, out, exit>>

RestrictFails ==
    /\ pc = "inputs" /\ opened = Len(Inputs)
    /\ Return(FALSE, {"restrict"})
    /\ zone' = TRUE
    /\ UNCHANGED <<opened, restricted, contents, denied>>

-----------------------------------------------------------------------------

\* Verify and Check may return a result along with errors.
Outcomes ==
    {<<TRUE, {}>>, <<FALSE, {"flow"}>>}
      \cup (IF command \in {"verify", "check"} THEN {<<TRUE, {"flow"}>>} ELSE {})

\* The flow may need the zone, for times in the allowed signers.
Flow ==
    /\ pc = "flow"
    /\ \E o \in Outcomes : Return(o[1], o[2])
    /\ contents' = contents \cup {Inputs[j] : j \in DOMAIN Inputs}
    /\ denied' = (denied \/ (command = "verify" /\ ~zone))
    /\ UNCHANGED <<opened, restricted, zone>>

-----------------------------------------------------------------------------

Exit(status, written) ==
    /\ exit' = status
    /\ out' = written
    /\ pc' = "done"
    /\ UNCHANGED <<argv, terminal, config, request, opened, restricted, zone, contents, denied,
                   result, errs>>

\* The text of the help may not be written.
Help == pc = "help" /\ \E status \in {0, 1} : Exit(status, IF status = 0 THEN {"help"} ELSE {"part"})

Misused == errs \cap Usage # {}

DieUsage == pc = "report" /\ Misused /\ Exit(2, {})

Printed == errs \cup (IF result THEN {"result"} ELSE {})

ReportJSON ==
    /\ pc = "report" /\ ~Misused /\ request.json
    /\ Exit(IF errs = {} THEN 0 ELSE 1, Printed)

Die == pc = "report" /\ ~Misused /\ ~request.json /\ errs # {} /\ Exit(1, {})

ReportText ==
    /\ pc = "report" /\ ~Misused /\ ~request.json /\ errs = {}
    /\ Exit(0, Printed)

\* Mutant: a text that could not be written is no failure.
WriteFailsSilently ==
    /\ pc = "report" /\ ~Misused
    /\ request.json \/ errs = {}
    /\ Exit(0, {"part"})

\* The output is written in part, or not at all.
WriteFails ==
    /\ pc = "report" /\ ~Misused
    /\ request.json \/ errs = {}
    /\ Exit(1, {"part"})

Next ==
    \/ Main \/ ParseArguments \/ Help \/ Version
    \/ InspectFlags \/ VerifyFlags \/ SignFlags \/ CheckFlags
    \/ Open \/ OpenFails \/ Restrict \/ RestrictFails
    \/ Flow
    \/ DieUsage \/ ReportJSON \/ Die \/ ReportText \/ WriteFails

Spec == Init /\ [][Next]_vars

-----------------------------------------------------------------------------

\* README.md: "each command opens its inputs and then uses Landlock": nothing is looked
\* up any more that the sandbox would refuse, so that a run is the same without it, and
\* nothing that others may have written is read before, but for the default signers files.
Sandboxed ==
    /\ ~denied
    /\ ~restricted => contents \subseteq IF request.signers = "default" THEN {"signers"} ELSE {}

\* README.md: "exits 0 when the command succeeds, 1 on runtime errors and 2 on user
\* errors": with 0 the flow ran in the sandbox and its whole result is out, or the help
\* is; a user error is found before any input is opened.
ExitTells ==
    pc = "done" =>
        /\ exit = 0 <=>
             \/ out = {"help"}
             \/ errs = {} /\ out = {"result"} /\ (restricted \/ command = "version")
        /\ exit = 2 <=> Misused
        /\ exit = 2 => out = {}
        /\ exit = 2 \/ "help" \in out => contents = {} /\ opened = 0
        /\ request.json /\ exit = 1 => out = {"part"} \/ errs \subseteq out

AboutKey == {"key", "alias", "config"}

KeyRight ==
    IF request.noKey THEN request.key = "none"
    ELSE request.key = "key" \/ (request.key = "alias" /\ config = "key")

\* cmd/check.go: "Report all invalid flags together": check opens nothing before its flags
\* are right, and when it reports one it reports every one that is wrong and no other; the
\* key with one error, be it no key, an alias that is not found, or not to be looked up.
FlagsTogether ==
    command = "check" =>
        /\ pc \in {"inputs", "flow"} \/ opened > 0 \/ result =>
             request.timestamp # "bad" /\ (request.namespace \/ request.noNamespace) /\ KeyRight
        /\ errs \cap ({"timestamp", "namespace"} \cup AboutKey) # {} =>
             /\ opened = 0 /\ ~result
             /\ "timestamp" \in errs <=> request.timestamp = "bad"
             /\ "namespace" \in errs <=> ~request.namespace /\ ~request.noNamespace
             /\ errs \cap AboutKey = {} <=> KeyRight
             /\ \A e, f \in errs \cap AboutKey : e = f

-----------------------------------------------------------------------------

\* How an argument with flags reads on its own: which of them takes a value, or one past the
\* last if none does, and whether the value is yet to come.
Taker(set, argument) ==
    CHOOSE k \in 1..Len(argument.flags) + 1 :
        /\ \A j \in 1..k - 1 : argument.flags[j] \notin set.strings
        /\ k <= Len(argument.flags) => argument.flags[k] \in set.strings
Takes(set, argument) == Taker(set, argument) <= Len(argument.flags)
Hungry(set, argument) == Taker(set, argument) = Len(argument.flags) /\ argument.text = NoText

WellFormed(set, argument) ==
    /\ argument.form \in {"long", "short"}
    /\ \A k \in 1..Taker(set, argument) :
         k <= Len(argument.flags) => argument.flags[k] \in set.strings \cup set.plain
    /\ ~Takes(set, argument) => argument.text = NoText

\* The arguments that "starts" has are flags, the others the value of the flag before them.
Reads(set, args, end, starts) ==
    \A i \in 1..end :
        /\ i \in starts <=> ~(i - 1 \in starts /\ Hungry(set, args[i - 1]))
        /\ i \in starts => WellFormed(set, args[i]) /\ (Hungry(set, args[i]) => i < end)

Value(set, args, i) ==
    IF Hungry(set, args[i]) THEN Whole(args[i + 1])
    ELSE IF Taker(set, args[i]) < Len(args[i].flags) THEN Attached(args[i].text)
    ELSE args[i].text
Plain(set, args, starts, flag) ==
    \E i \in starts : \E k \in 1..Taker(set, args[i]) - 1 : args[i].flags[k] = flag
Given(set, args, starts, flag) ==
    {i \in starts : Takes(set, args[i]) /\ args[i].flags[Taker(set, args[i])] = flag}
Last(set, args, starts, flag, default) ==
    LET at == Given(set, args, starts, flag)
    IN  IF at = {} THEN default ELSE Value(set, args, CHOOSE i \in at : \A j \in at : j <= i)

\* What the request is if these are the flags.
Written(args, starts) ==
    LET IsPlain(flag) == Plain(SetOf(command), args, starts, flag)
        IsGiven(flag) == Given(SetOf(command), args, starts, flag) # {}
        LastOf(flag, default) == Last(SetOf(command), args, starts, flag, default)
    IN  /\ request.json = IsPlain("j") /\ ~IsPlain("h")
        /\ request.noNamespace = IsPlain("N") /\ request.noKey = IsPlain("K")
        /\ request.key = KeyOf(LastOf("k", ""))
        /\ request.timestamp = "none" <=> ~IsGiven("t")
        /\ request.timestamp = "good" <=> LastOf("t", "") = "time"
        /\ request.signers = "file" <=> IsGiven("a")
        /\ command \in {"verify", "check"} => IsGiven("f")
        /\ ~(IsGiven("n") /\ IsPlain("N")) /\ ~(IsGiven("k") /\ IsPlain("K"))
        /\ request.namespace =
             (LastOf("n", IF command = "verify" THEN "" ELSE "file") # "")
        /\ "data" \in request.stdin <=> command = "sign" /\ ~IsGiven("f")
        /\ "signature" \in request.stdin =>
             ~IsGiven("s") /\ command # "sign" /\ (command = "inspect" \/ ~terminal)

NameAt(args) == IF args[1].form = "end" THEN 2 ELSE 1

\* args.go: a flag is "-f x", "-fx", "--file x" or "--file=x" anywhere before "--", alone or
\* at the end of a cluster.  What runs is what was written: the command is the first
\* argument, or the second after "--"; every argument that follows it is a known flag, or the
\* value of the flag right before it that had none; of a flag that is repeated the last value
\* counts; and nothing runs on flags that exclude each other.
RanAsWritten ==
    LET args == SubSeq(argv, NameAt(argv) + 1, Len(argv))
    IN  pc \in {"flags", "inputs", "flow"} =>
          /\ argv[NameAt(argv)].form = "word" /\ argv[NameAt(argv)].text = command
          /\ \E ended \in {0, 1} : \E starts \in SUBSET (1..Len(args) - ended) :
               /\ ended = 1 => args[Len(args)].form = "end"
               /\ Reads(SetOf(command), args, Len(args) - ended, starts)
               /\ Written(args, starts)
=============================================================================
