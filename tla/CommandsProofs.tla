--------------------------- MODULE CommandsProofs ---------------------------
(***************************************************************************)
(* Whatever the command line: a run looks nothing up in its sandbox, its   *)
(* exit status tells what happened, and check reports all wrong flags, for *)
(* which it does not matter what the arguments are parsed to; and what it  *)
(* runs is what was written, by what the parser reads, from the last       *)
(* argument back to the first.                                             *)
(***************************************************************************)
EXTENDS Commands, TLAPS, WellFoundedInduction

Starting == {"command", "arguments", "flags", "help"}
Runtime == {"config", "sign.key", "open", "restrict", "flow"}

Typed ==
    /\ command \in CommandName /\ config \in {"key", "none", "refused"}
    /\ request.noKey \in BOOLEAN /\ request.key \in {"none", "key", "alias", "junk"}

\* No input is open yet.
Untouched == opened = 0 /\ contents = {}

AtStart == pc \in Starting => Untouched /\ errs = {} /\ ~restricted /\ ~result

AtInputs ==
    pc = "inputs" =>
        /\ opened \in Nat /\ (opened = 0 => contents = {})
        /\ command # "version"
        /\ errs = {} /\ ~restricted

AtFlow == pc = "flow" => errs = {} /\ restricted /\ zone

\* What is to be reported: user errors are found first, and no error is a result.
Reported ==
    pc = "report" =>
        /\ errs \subseteq Usage \cup Runtime
        /\ Misused => Untouched
        /\ errs = {} => result /\ (restricted \/ command = "version")

\* check opens nothing and has no result while a flag is wrong, and its errors are all that
\* are wrong if one of them is.
FlagErrors == {"timestamp", "namespace"} \cup AboutKey
FlagsTold ==
    command = "check" =>
        /\ pc \in {"inputs", "flow"} \/ opened > 0 \/ result => CheckErrors = {}
        /\ errs \cap FlagErrors # {} => opened = 0 /\ ~result /\ errs = CheckErrors

IInv ==
    /\ Typed /\ AtStart /\ AtInputs /\ AtFlow
    /\ Reported /\ FlagsTold /\ Sandboxed /\ ExitTells

-----------------------------------------------------------------------------

LEMMA InitIInv == Init => IInv
<1> SUFFICES ASSUME Init PROVE IInv
  OBVIOUS
<1>1. request.command = "version" /\ request.noKey = FALSE /\ request.key = "none"
  BY DEF Init, NoRequest
<1>2. Typed
  BY <1>1 DEF Init, Typed, command, CommandName
<1>3. pc = "command" /\ Untouched /\ errs = {} /\ ~restricted /\ ~denied /\ ~result
  BY DEF Init, Untouched
<1>5. command # "check"
  BY <1>1 DEF command
<1>4. QED
  BY <1>2, <1>3, <1>5
  DEF IInv, AtStart, AtInputs, AtFlow, Reported, FlagsTold, Sandboxed, ExitTells, Starting, Untouched

LEMMA SameErrors == UNCHANGED <<request, config>> => CheckErrors' = CheckErrors
BY DEF CheckErrors, KeyErrors, AliasErrors, AliasTried, CheckAuthKey, ErrorIf

LEMMA ErrorsKnown == CheckErrors \subseteq FlagErrors /\ FlagErrors \subseteq Usage \cup Runtime
BY DEF CheckErrors, KeyErrors, AliasErrors, ErrorIf, FlagErrors, AboutKey, Usage, Runtime

\* A command returns, with user errors only if it has opened nothing, and with a result if
\* there are none.
LEMMA Returned ==
    ASSUME NEW some, NEW errors, Return(some, errors), Typed,
           errors \subseteq Usage \cup Runtime,
           errors \cap Usage # {} => Untouched',
           errors = {} => some /\ (restricted' \/ command = "version"),
           command = "check" => CheckErrors = {} \/ (opened' = 0 /\ ~some),
           command = "check" /\ errors \cap FlagErrors # {} => opened' = 0 /\ ~some /\ errors = CheckErrors,
           ~denied',
           ~restricted' => contents' \subseteq IF request.signers = "default" THEN {"signers"} ELSE {}
    PROVE  IInv'
<1>1. pc' = "report" /\ errs' = errors /\ result' = some /\ request' = request /\ config' = config
  BY DEF Return
<1>2. Typed' /\ command' = command /\ CheckErrors' = CheckErrors
  BY <1>1, SameErrors DEF Typed, command
<1>3. AtStart' /\ AtInputs' /\ AtFlow' /\ ExitTells'
  BY <1>1 DEF AtStart, AtInputs, AtFlow, ExitTells, Starting
<1>4. Reported'
  BY <1>1, <1>2 DEF Reported, Misused
<1>5. FlagsTold'
  <2>1. pc' \notin {"inputs", "flow"} /\ ~(0 > 0)
    BY <1>1
  <2>2. QED
    BY <1>1, <1>2, <2>1 DEF FlagsTold
<1>6. Sandboxed'
  BY <1>1 DEF Sandboxed
<1>7. QED
  BY <1>2, <1>3, <1>4, <1>5, <1>6 DEF IInv

\* The arguments are parsed, or wrong.
LEMMA Stopped ==
    ASSUME IInv, pc \in Starting, NEW label, NEW errors, Stop(label, errors), Typed',
           \/ label \in Starting /\ errors = {}
           \/ label = "report" /\ errors = {"arguments"}
    PROVE  IInv'
<1>1. pc' = label /\ errs' = errors /\ UNCHANGED <<opened, restricted, contents, denied, result>>
  BY DEF Stop
<1>2. Untouched' /\ ~restricted' /\ ~denied' /\ ~result'
  BY <1>1 DEF IInv, AtStart, Sandboxed, Untouched
<1>3. Sandboxed'
  BY <1>2 DEF Sandboxed, Untouched
<1>4. AtStart' /\ AtInputs' /\ AtFlow' /\ ExitTells' /\ Reported'
  BY <1>1, <1>2 DEF AtStart, AtInputs, AtFlow, ExitTells, Reported, Starting, Usage, Misused
<1>5. FlagsTold'
  BY <1>1, <1>2 DEF FlagsTold, Untouched, Starting, FlagErrors, AboutKey
<1>6. QED
  BY <1>3, <1>4, <1>5 DEF IInv

LEMMA MainStep == IInv /\ Main => IInv'
<1> SUFFICES ASSUME IInv, Main PROVE IInv'
  OBVIOUS
<1>1. pc = "command" /\ pc \in Starting
  BY DEF Main, Starting
<1> DEFINE rest == ParseFlags(Root, argv).rest
<1>2. \/ Stop("report", {"arguments"}) /\ request' = request
      \/ Stop("help", {}) /\ request' = request
      \/ /\ ParseCommand(argv) = "valid" /\ Stop("arguments", {})
         /\ request' = [NoRequest EXCEPT !.command = rest[1].text]
  BY DEF Main
<1>3. CASE Stop("report", {"arguments"}) /\ request' = request
  <2>1. Typed'
    BY <1>3 DEF IInv, Typed, command, Stop
  <2>2. QED
    BY <1>1, <1>3, <2>1, Stopped
<1>4. CASE Stop("help", {}) /\ request' = request
  <2>1. Typed'
    BY <1>4 DEF IInv, Typed, command, Stop
  <2>2. QED
    BY <1>1, <1>4, <2>1, Stopped DEF Starting
<1>5. CASE /\ ParseCommand(argv) = "valid" /\ Stop("arguments", {})
           /\ request' = [NoRequest EXCEPT !.command = rest[1].text]
  <2>1. IsCommand(rest)
    BY <1>5 DEF ParseCommand
  <2>2. rest[1].text \in CommandName
    BY <2>1 DEF IsCommand
  <2>3. request'.command = rest[1].text /\ request'.noKey = FALSE /\ request'.key = "none"
    BY <1>5 DEF NoRequest
  <2>4. Typed'
    <3>1. config' \in {"key", "none", "refused"}
      BY <1>5 DEF IInv, Typed, Stop
    <3>2. QED
      BY <2>2, <2>3, <3>1 DEF Typed, command
  <2>5. QED
    BY <1>1, <1>5, <2>4, Stopped DEF Starting
<1>6. QED
  BY <1>2, <1>3, <1>4, <1>5

LEMMA ParseArgumentsStep == IInv /\ ParseArguments => IInv'
<1> SUFFICES ASSUME IInv, ParseArguments PROVE IInv'
  OBVIOUS
<1>1. pc = "arguments" /\ pc \in Starting
  BY DEF ParseArguments, Starting
<1> DEFINE given == ParseFlags(SetOf(command), Arguments).given
<1>2. \/ Stop("report", {"arguments"}) /\ request' = request
      \/ Stop("help", {}) /\ request' = request
      \/ Stop("flags", {}) /\ request' = RequestOf(command, given)
  BY DEF ParseArguments
<1>3. CASE Stop("report", {"arguments"}) /\ request' = request
  <2>1. Typed'
    BY <1>3 DEF IInv, Typed, command, Stop
  <2>2. QED
    BY <1>1, <1>3, <2>1, Stopped
<1>4. CASE Stop("help", {}) /\ request' = request
  <2>1. Typed'
    BY <1>4 DEF IInv, Typed, command, Stop
  <2>2. QED
    BY <1>1, <1>4, <2>1, Stopped DEF Starting
<1>5. CASE Stop("flags", {}) /\ request' = RequestOf(command, given)
  <2>1. /\ request'.command = command /\ request'.noKey = Changed(given, "K")
        /\ request'.key = KeyOf(ValueOf(given, "k", ""))
    BY <1>5 DEF RequestOf
  <2>2. /\ Changed(given, "K") \in BOOLEAN
        /\ \A t : KeyOf(t) \in {"none", "key", "alias", "junk"}
    BY DEF Changed, KeyOf
  <2>3. Typed'
    <3>1. config' \in {"key", "none", "refused"}
      BY <1>5 DEF IInv, Typed, Stop
    <3>2. QED
      BY <2>1, <2>2, <3>1 DEF IInv, Typed, command
  <2>4. QED
    BY <1>1, <1>5, <2>3, Stopped DEF Starting
<1>6. QED
  BY <1>2, <1>3, <1>4, <1>5

-----------------------------------------------------------------------------

\* What holds before any flag is looked at.
LEMMA AtFlags ==
    ASSUME IInv, pc = "flags"
    PROVE  Typed /\ Untouched /\ errs = {} /\ ~restricted /\ ~denied /\ ~result
BY DEF IInv, AtStart, Sandboxed, Starting

\* A command that returns from its flags has touched nothing.
LEMMA FailedFlags ==
    ASSUME IInv, pc = "flags", NEW errors, Return(FALSE, errors),
           UNCHANGED <<opened, restricted, zone, contents>>, ~denied',
           errors \subseteq Usage \cup Runtime, errors # {},
           command = "check" => errors = CheckErrors
    PROVE  IInv'
<1>1. Untouched' /\ ~restricted' /\ opened' = 0 /\ contents' = {}
  BY AtFlags DEF Untouched
<1>2. QED
  BY <1>1, AtFlags, Returned

LEMMA TookFlags ==
    ASSUME IInv, pc = "flags", command # "version", NEW loaded, TakeFlags(loaded), ~denied',
           command = "check" => CheckErrors = {}
    PROVE  IInv'
<1>1. pc' = "inputs" /\ UNCHANGED <<request, config, opened, restricted, contents, errs, result>>
  BY DEF TakeFlags
<1>2. Typed' /\ Untouched' /\ errs' = {} /\ ~restricted'
  BY <1>1, AtFlags DEF Typed, command, Untouched
<1>3. AtStart' /\ AtFlow' /\ ExitTells' /\ Reported'
  BY <1>1 DEF AtStart, AtFlow, ExitTells, Reported, Starting
<1>4. AtInputs' /\ Sandboxed'
  BY <1>1, <1>2 DEF AtInputs, Sandboxed, Untouched, command
<1>5. FlagsTold'
  BY <1>1, <1>2, SameErrors DEF FlagsTold, command
<1>6. QED
  BY <1>2, <1>3, <1>4, <1>5 DEF IInv

LEMMA NotDenied == ASSUME ~denied, ~restricted, LookUp PROVE ~denied'
BY DEF LookUp

LEMMA VersionStep == IInv /\ Version => IInv'
<1> SUFFICES ASSUME IInv, Version PROVE IInv'
  OBVIOUS
<1>1. /\ pc = "flags" /\ command = "version" /\ Return(TRUE, {})
      /\ UNCHANGED <<opened, restricted, zone, contents, denied>>
  BY DEF Version
<1>2. ~denied' /\ contents' = {}
  BY <1>1, AtFlags DEF Untouched
<1>3. QED
  BY <1>1, <1>2, AtFlags, Returned

LEMMA InspectFlagsStep == IInv /\ InspectFlags => IInv'
<1> SUFFICES ASSUME IInv, InspectFlags PROVE IInv'
  OBVIOUS
<1>1. pc = "flags" /\ command = "inspect" /\ TakeFlags(FALSE) /\ denied' = denied
  BY DEF InspectFlags
<1>2. QED
  BY <1>1, AtFlags, TookFlags

LEMMA VerifyFlagsStep == IInv /\ VerifyFlags => IInv'
<1> SUFFICES ASSUME IInv, VerifyFlags PROVE IInv'
  OBVIOUS
<1>1. pc = "flags" /\ command = "verify" /\ LookUp
  BY DEF VerifyFlags
<1>2. ~denied'
  BY <1>1, AtFlags, NotDenied
<1>3. TakeFlags(request.timestamp = "good") \/ Fail("timestamp")
  BY DEF VerifyFlags
<1>4. ASSUME Fail("timestamp") PROVE IInv'
  BY <1>1, <1>2, <1>4, FailedFlags DEF Fail, Usage
<1>5. QED
  BY <1>1, <1>2, <1>3, <1>4, TookFlags

LEMMA SignFlagsStep == IInv /\ SignFlags => IInv'
<1> SUFFICES ASSUME IInv, SignFlags PROVE IInv'
  OBVIOUS
<1>1. pc = "flags" /\ command = "sign" /\ LookUp
  BY DEF SignFlags
<1>2. ~denied'
  BY <1>1, AtFlags, NotDenied
<1>3. TakeFlags(FALSE) \/ \E error \in {"key", "config", "alias", "sign.key", "missing"} : Fail(error)
  BY DEF SignFlags
<1>4. ASSUME NEW error \in {"key", "config", "alias", "sign.key", "missing"}, Fail(error) PROVE IInv'
  BY <1>1, <1>2, <1>4, FailedFlags DEF Fail, Usage, Runtime
<1>5. QED
  BY <1>1, <1>2, <1>3, <1>4, TookFlags

LEMMA CheckFlagsStep == IInv /\ CheckFlags => IInv'
<1> SUFFICES ASSUME IInv, CheckFlags PROVE IInv'
  OBVIOUS
<1>1. pc = "flags" /\ command = "check" /\ LookUp
  BY DEF CheckFlags
<1>2. ~denied'
  BY <1>1, AtFlags, NotDenied
<1>3. \/ CheckErrors = {} /\ TakeFlags(request.timestamp = "good")
      \/ /\ CheckErrors # {} /\ Return(FALSE, CheckErrors)
         /\ UNCHANGED <<opened, restricted, zone, contents>>
  BY DEF CheckFlags
<1>4. ASSUME CheckErrors # {}, Return(FALSE, CheckErrors), UNCHANGED <<opened, restricted, zone, contents>>
      PROVE  IInv'
  <2>1. CheckErrors \subseteq Usage \cup Runtime
    BY ErrorsKnown
  <2>2. QED
    BY <1>1, <1>2, <1>4, <2>1, FailedFlags
<1>5. QED
  BY <1>1, <1>2, <1>3, <1>4, TookFlags

-----------------------------------------------------------------------------

\* The default signers files are the first of the inputs of verify, and of no other.
LEMMA SignersFirst ==
    ASSUME Typed, opened \in Nat, command # "version", Opening, input = "signers"
    PROVE  opened = 0 /\ command = "verify"
<1>1. CASE command = "inspect"
  BY <1>1 DEF Opening, input, Inputs
<1>2. CASE command = "sign"
  BY <1>2 DEF Opening, input, Inputs
<1>3. CASE command = "verify"
  BY <1>3 DEF Opening, input, Inputs
<1>4. CASE command = "check"
  BY <1>4 DEF Opening, input, Inputs
<1>5. QED
  BY <1>1, <1>2, <1>3, <1>4 DEF Typed, CommandName

LEMMA AtOpening ==
    ASSUME IInv, pc = "inputs"
    PROVE  /\ Typed /\ opened \in Nat /\ (opened = 0 => contents = {})
           /\ command # "version"
           /\ errs = {} /\ ~restricted /\ ~denied
           /\ contents \subseteq IF request.signers = "default" THEN {"signers"} ELSE {}
           /\ command = "check" => CheckErrors = {}
BY DEF IInv, AtInputs, Sandboxed, FlagsTold

LEMMA NoFlagError == {} \cap FlagErrors = {} /\ \A e \in {"open", "restrict", "flow"} : {e} \cap FlagErrors = {}
BY DEF FlagErrors, AboutKey

LEMMA OpenStep == IInv /\ Open => IInv'
<1> SUFFICES ASSUME IInv, Open PROVE IInv'
  OBVIOUS
<1>1. pc = "inputs" /\ pc' = "inputs" /\ opened' = opened + 1
  BY DEF Open, Opening
<1>2. UNCHANGED <<request, config, restricted, errs>> /\ ~denied'
  BY <1>1, AtOpening DEF Open
<1>3. contents' = IF ReadAtOnce THEN contents \cup {input} ELSE contents
  BY DEF Open
<1>4. Typed' /\ AtInputs'
  BY <1>1, <1>2, AtOpening DEF Typed, command, AtInputs
<1>5. Sandboxed'
  BY <1>1, <1>2, <1>3, AtOpening DEF Sandboxed, ReadAtOnce
<1>6. AtStart' /\ AtFlow' /\ ExitTells' /\ Reported'
  BY <1>1 DEF AtStart, AtFlow, ExitTells, Reported, Starting
<1>7. FlagsTold'
  BY <1>1, <1>2, AtOpening, SameErrors, NoFlagError DEF FlagsTold, command
<1>8. QED
  BY <1>4, <1>5, <1>6, <1>7 DEF IInv

LEMMA OpenFailsStep == IInv /\ OpenFails => IInv'
<1> SUFFICES ASSUME IInv, OpenFails PROVE IInv'
  OBVIOUS
<1>1. pc = "inputs" /\ Opening /\ LookUp /\ UNCHANGED <<opened, restricted, zone>>
  BY DEF OpenFails, Opening
<1>2. ~denied' /\ ~restricted'
  BY <1>1, AtOpening, NotDenied
<1>3. \/ /\ Return(FALSE, {"open"})
         /\ contents' = contents \/ (ReadAtOnce /\ contents' = contents \cup {input})
      \/ ReadAtOnce /\ Return(FALSE, {"missing"}) /\ contents' = contents
  BY DEF OpenFails
<1>4. CASE /\ Return(FALSE, {"open"})
           /\ contents' = contents \/ (ReadAtOnce /\ contents' = contents \cup {input})
  <2>1. contents' \subseteq IF request.signers = "default" THEN {"signers"} ELSE {}
    BY <1>1, <1>4, AtOpening DEF ReadAtOnce
  <2>2. {"open"} \subseteq Usage \cup Runtime /\ {"open"} \cap Usage = {}
    BY DEF Usage, Runtime
  <2>3. QED
    BY <1>1, <1>2, <1>4, <2>1, <2>2, AtOpening, NoFlagError, Returned
<1>5. CASE ReadAtOnce /\ Return(FALSE, {"missing"}) /\ contents' = contents
  <2>1. opened = 0 /\ command = "verify"
    BY <1>1, <1>5, AtOpening, SignersFirst DEF ReadAtOnce
  <2>2. Untouched' /\ contents' = {}
    BY <1>1, <1>5, <2>1, AtOpening DEF Untouched
  <2>3. {"missing"} \subseteq Usage \cup Runtime
    BY DEF Usage
  <2>4. QED
    BY <1>1, <1>2, <1>5, <2>1, <2>2, <2>3, AtOpening, Returned
<1>6. QED
  BY <1>3, <1>4, <1>5

LEMMA RestrictStep == IInv /\ Restrict => IInv'
<1> SUFFICES ASSUME IInv, Restrict PROVE IInv'
  OBVIOUS
<1>1. /\ pc = "inputs" /\ pc' = "flow" /\ restricted' /\ zone'
      /\ UNCHANGED <<request, config, denied, errs>>
  BY DEF Restrict
<1>2. Typed' /\ AtFlow' /\ Sandboxed'
  BY <1>1, AtOpening DEF Typed, command, AtFlow, Sandboxed
<1>3. AtStart' /\ AtInputs' /\ ExitTells' /\ Reported'
  BY <1>1 DEF AtStart, AtInputs, ExitTells, Reported, Starting
<1>4. FlagsTold'
  BY <1>1, AtOpening, SameErrors, NoFlagError DEF FlagsTold, command
<1>5. QED
  BY <1>2, <1>3, <1>4 DEF IInv

LEMMA RestrictFailsStep == IInv /\ RestrictFails => IInv'
<1> SUFFICES ASSUME IInv, RestrictFails PROVE IInv'
  OBVIOUS
<1>1. /\ pc = "inputs" /\ Return(FALSE, {"restrict"})
      /\ UNCHANGED <<opened, restricted, contents, denied>>
  BY DEF RestrictFails
<1>2. ~denied' /\ contents' \subseteq IF request.signers = "default" THEN {"signers"} ELSE {}
  BY <1>1, AtOpening
<1>3. {"restrict"} \subseteq Usage \cup Runtime /\ {"restrict"} \cap Usage = {}
  BY DEF Usage, Runtime
<1>4. QED
  BY <1>1, <1>2, <1>3, AtOpening, NoFlagError, Returned

LEMMA FlowStep == IInv /\ Flow => IInv'
<1> SUFFICES ASSUME IInv, Flow PROVE IInv'
  OBVIOUS
<1>1. /\ pc = "flow" /\ Typed /\ ~denied /\ restricted /\ zone
      /\ command = "check" => CheckErrors = {}
  BY DEF IInv, AtFlow, Sandboxed, FlagsTold, Flow
<1>2. ~denied' /\ restricted' = restricted
  BY <1>1 DEF Flow
<1>3. PICK o \in Outcomes : Return(o[1], o[2])
  BY DEF Flow
<1>4. o \in {<<TRUE, {}>>, <<FALSE, {"flow"}>>, <<TRUE, {"flow"}>>}
  BY Zenon DEF Outcomes
<1>5. {"flow"} \subseteq Usage \cup Runtime /\ {"flow"} \cap Usage = {}
  BY DEF Usage, Runtime
<1>6. CASE o = <<TRUE, {}>>
  <2>1. Return(TRUE, {})
    BY <1>3, <1>6, Zenon
  <2>2. QED
    BY <1>1, <1>2, <2>1, NoFlagError, Returned
<1>7. CASE o = <<FALSE, {"flow"}>>
  <2>1. Return(FALSE, {"flow"})
    BY <1>3, <1>7, Zenon
  <2>2. QED
    BY <1>1, <1>2, <1>5, <2>1, NoFlagError, Returned
<1>8. CASE o = <<TRUE, {"flow"}>>
  <2>1. Return(TRUE, {"flow"})
    BY <1>3, <1>8, Zenon
  <2>2. QED
    BY <1>1, <1>2, <1>5, <2>1, NoFlagError, Returned
<1>9. QED
  BY <1>4, <1>6, <1>7, <1>8

-----------------------------------------------------------------------------

\* The program exits as ExitTells says.
LEMMA Exited ==
    ASSUME IInv, pc \in {"report", "help"}, NEW status, NEW written, Exit(status, written), ExitTells'
    PROVE  IInv'
<1>1. pc' = "done" /\ UNCHANGED <<request, config, opened, restricted, contents, denied, errs, result>>
  BY DEF Exit
<1>2. Typed' /\ Sandboxed'
  BY <1>1 DEF IInv, Typed, command, Sandboxed
<1>3. AtStart' /\ AtInputs' /\ AtFlow' /\ Reported'
  BY <1>1 DEF AtStart, AtInputs, AtFlow, Reported, Starting
<1>4. FlagsTold'
  BY <1>1, SameErrors DEF IInv, FlagsTold, command
<1>5. QED
  BY <1>2, <1>3, <1>4 DEF IInv

LEMMA AtReport ==
    ASSUME IInv, pc = "report"
    PROVE  /\ "help" \notin errs /\ "part" \notin errs /\ "result" \notin errs
           /\ Misused => Untouched /\ errs # {}
           /\ errs = {} => result /\ (restricted \/ command = "version")
<1>1. /\ errs \subseteq Usage \cup Runtime
      /\ Misused => Untouched
      /\ errs = {} => result /\ (restricted \/ command = "version")
  BY DEF IInv, Reported
<1>2. QED
  BY <1>1 DEF Usage, Runtime, Misused

\* An exit tells what happened if its status and output do.
LEMMA Told ==
    ASSUME NEW status, NEW written, Exit(status, written),
           status = 0 <=>
               \/ written = {"help"}
               \/ errs = {} /\ written = {"result"} /\ (restricted \/ command = "version"),
           status = 2 <=> Misused,
           status = 2 => written = {},
           status = 2 \/ "help" \in written => Untouched,
           request.json /\ status = 1 => written = {"part"} \/ errs \subseteq written
    PROVE  ExitTells'
<1>1. /\ exit' = status /\ out' = written
      /\ request' = request /\ opened' = opened /\ contents' = contents /\ errs' = errs
      /\ restricted' = restricted
  BY DEF Exit
<1>2. Misused' = Misused /\ command' = command
  BY <1>1 DEF Misused, command
<1>3. QED
  BY <1>1, <1>2 DEF ExitTells, Untouched

LEMMA HelpStep == IInv /\ Help => IInv'
<1> SUFFICES ASSUME IInv, Help PROVE IInv'
  OBVIOUS
<1>1. pc = "help" /\ Untouched /\ errs = {} /\ ~Misused
  BY DEF IInv, AtStart, Starting, Help, Misused
<1>2. Exit(0, {"help"}) \/ Exit(1, {"part"})
  BY DEF Help
<1>3. ASSUME Exit(0, {"help"}) PROVE ExitTells'
  BY <1>1, <1>3, Told
<1>4. ASSUME Exit(1, {"part"}) PROVE ExitTells'
  BY <1>1, <1>4, Told
<1>5. QED
  BY <1>1, <1>2, <1>3, <1>4, Exited

LEMMA DieUsageStep == IInv /\ DieUsage => IInv'
<1> SUFFICES ASSUME IInv, DieUsage PROVE IInv'
  OBVIOUS
<1>1. pc = "report" /\ Misused /\ Exit(2, {})
  BY DEF DieUsage
<1>2. Untouched /\ errs # {}
  BY <1>1, AtReport
<1>3. ExitTells'
  BY <1>1, <1>2, Told
<1>4. QED
  BY <1>1, <1>3, Exited

LEMMA ReportJSONStep == IInv /\ ReportJSON => IInv'
<1> SUFFICES ASSUME IInv, ReportJSON PROVE IInv'
  OBVIOUS
<1>1. pc = "report" /\ ~Misused /\ Exit(IF errs = {} THEN 0 ELSE 1, Printed)
  BY DEF ReportJSON
<1>2. "help" \notin Printed /\ errs \subseteq Printed
  BY <1>1, AtReport DEF Printed
<1>3. errs = {} => Printed = {"result"} /\ (restricted \/ command = "version")
  BY <1>1, AtReport DEF Printed
<1>4. ExitTells'
  <2>1. CASE errs = {}
    BY <1>1, <1>2, <1>3, <2>1, Told
  <2>2. CASE errs # {}
    BY <1>1, <1>2, <2>2, Told
  <2>3. QED
    BY <2>1, <2>2
<1>5. QED
  BY <1>1, <1>4, Exited

LEMMA DieStep == IInv /\ Die => IInv'
<1> SUFFICES ASSUME IInv, Die PROVE IInv'
  OBVIOUS
<1>1. pc = "report" /\ ~Misused /\ ~request.json /\ errs # {} /\ Exit(1, {})
  BY DEF Die
<1>2. ExitTells'
  BY <1>1, Told
<1>3. QED
  BY <1>1, <1>2, Exited

LEMMA ReportTextStep == IInv /\ ReportText => IInv'
<1> SUFFICES ASSUME IInv, ReportText PROVE IInv'
  OBVIOUS
<1>1. pc = "report" /\ ~Misused /\ errs = {} /\ Exit(0, Printed)
  BY DEF ReportText
<1>2. Printed = {"result"} /\ (restricted \/ command = "version")
  BY <1>1, AtReport DEF Printed
<1>3. ExitTells'
  BY <1>1, <1>2, Told
<1>4. QED
  BY <1>1, <1>3, Exited

LEMMA WriteFailsStep == IInv /\ WriteFails => IInv'
<1> SUFFICES ASSUME IInv, WriteFails PROVE IInv'
  OBVIOUS
<1>1. pc = "report" /\ ~Misused /\ Exit(1, {"part"})
  BY DEF WriteFails
<1>2. ExitTells'
  BY <1>1, Told
<1>3. QED
  BY <1>1, <1>2, Exited

-----------------------------------------------------------------------------

LEMMA StutterStep == IInv /\ UNCHANGED vars => IInv'
<1> SUFFICES ASSUME IInv, UNCHANGED vars PROVE IInv'
  OBVIOUS
<1>1. UNCHANGED <<request, config, opened, restricted, zone, contents, denied, result, errs, out, exit, pc>>
  BY DEF vars
<1>2. command' = command /\ Misused' = Misused /\ CheckErrors' = CheckErrors
  BY <1>1, SameErrors DEF command, Misused
<1>3. Typed' /\ AtStart' /\ AtInputs' /\ AtFlow'
  BY <1>1, <1>2 DEF IInv, Typed, AtStart, AtInputs, AtFlow, Untouched
<1>4. Reported' /\ FlagsTold'
  BY <1>1, <1>2 DEF IInv, Reported, FlagsTold, Untouched
<1>5. Sandboxed'
  BY <1>1 DEF IInv, Sandboxed
<1>6. ExitTells'
  BY <1>1, <1>2 DEF IInv, ExitTells
<1>7. QED
  BY <1>3, <1>4, <1>5, <1>6 DEF IInv

LEMMA StepIInv == IInv /\ [Next]_vars => IInv'
BY MainStep, ParseArgumentsStep, HelpStep, VersionStep, InspectFlagsStep, VerifyFlagsStep,
   SignFlagsStep, CheckFlagsStep, OpenStep, OpenFailsStep, RestrictStep, RestrictFailsStep,
   FlowStep, DieUsageStep, ReportJSONStep, DieStep, ReportTextStep, WriteFailsStep, StutterStep
DEF Next

LEMMA Inductive == Spec => []IInv
<1>1. Init => IInv
  BY InitIInv
<1>2. IInv /\ [Next]_vars => IInv'
  BY StepIInv
<1>3. QED
  BY <1>1, <1>2, PTL DEF Spec

\* No path is looked up after the restriction, and nothing others wrote is read before it
\* but the default signers files, for all command lines.
THEOREM SandboxSuffices == Spec => []Sandboxed
<1>1. IInv => Sandboxed
  BY DEF IInv
<1>2. QED
  BY <1>1, Inductive, PTL

\* The exit status is 0 exactly if the whole result is out or the help is, and 2 exactly
\* for user errors, which are found before an input is opened.
THEOREM ExitStatusTells == Spec => []ExitTells
<1>1. IInv => ExitTells
  BY DEF IInv
<1>2. QED
  BY <1>1, Inductive, PTL

\* The errors of check in terms of what is asked, the config and the flags.
LEMMA WrongFlagsAre ==
    ASSUME request.noKey \in BOOLEAN, request.key \in {"none", "key", "alias", "junk"},
           config \in {"key", "none", "refused"}
    PROVE  /\ "timestamp" \in CheckErrors <=> request.timestamp = "bad"
           /\ "namespace" \in CheckErrors <=> ~request.namespace /\ ~request.noNamespace
           /\ CheckErrors \cap AboutKey = {} <=> KeyRight
           /\ \A e, f \in CheckErrors \cap AboutKey : e = f
<1> DEFINE about == AliasErrors \cup KeyErrors
<1>1. about \subseteq AboutKey
  BY DEF AliasErrors, KeyErrors, ErrorIf, AboutKey
<1>2. about = {} <=> KeyRight
  BY DEF AliasErrors, KeyErrors, ErrorIf, AliasTried, CheckAuthKey, KeyRight
<1>3. \A e, f \in about : e = f
  BY DEF AliasErrors, KeyErrors, ErrorIf
<1>4. CheckErrors = ErrorIf(request.timestamp = "bad", "timestamp") \cup about
                      \cup ErrorIf(~request.noNamespace /\ ~request.namespace, "namespace")
  BY DEF CheckErrors
<1> HIDE DEF about
<1>5. CheckErrors \cap AboutKey = about
  BY <1>1, <1>4 DEF AboutKey, ErrorIf
<1>6. "timestamp" \notin about /\ "namespace" \notin about
  BY <1>1 DEF AboutKey
<1>7. /\ "timestamp" \in CheckErrors <=> request.timestamp = "bad"
      /\ "namespace" \in CheckErrors <=> ~request.namespace /\ ~request.noNamespace
  BY <1>4, <1>6 DEF ErrorIf
<1>8. QED
  BY <1>2, <1>3, <1>5, <1>7

\* Whatever the command line and the config: check opens nothing while a flag is wrong, and
\* reports every one that is, the key with exactly one error whether it is missing, wrong, an
\* alias that is not found, or one that could not be looked up.
THEOREM WrongFlagsReported == Spec => []FlagsTogether
<1>1. IInv => FlagsTogether
  <2> SUFFICES ASSUME IInv, command = "check"
               PROVE  FlagsTogether
    BY DEF FlagsTogether
  <2>1. /\ request.noKey \in BOOLEAN /\ request.key \in {"none", "key", "alias", "junk"}
        /\ config \in {"key", "none", "refused"}
    BY DEF IInv, Typed
  <2>2. /\ pc \in {"inputs", "flow"} \/ opened > 0 \/ result => CheckErrors = {}
        /\ errs \cap FlagErrors # {} => opened = 0 /\ ~result /\ errs = CheckErrors
    BY DEF IInv, FlagsTold
  <2>3. QED
    BY <2>1, <2>2, WrongFlagsAre DEF FlagsTogether, FlagErrors
<1>2. QED
  BY <1>1, Inductive, PTL

-----------------------------------------------------------------------------

LEMMA LeastOf ==
    ASSUME NEW S \in SUBSET Nat, S # {}
    PROVE  \E k \in S : \A m \in S : k <= m
<1>1. PICK k \in S : \A m \in S : ~ (<<m, k>> \in OpToRel(<, Nat))
  BY WFMin, NatLessThanWellFounded, Zenon
<1>2. \A m \in S : ~(m < k)
  BY <1>1 DEF OpToRel
<1>3. QED
  BY <1>2

\* An argument with flags has at least one, which are in a sequence.
LEMMA FlagsOf ==
    ASSUME NEW a \in Argument, a.form \in {"long", "short"}
    PROVE  /\ a.flags \in Seq(STRING) /\ Len(a.flags) \in Nat \ {0}
           /\ DOMAIN a.flags = 1..Len(a.flags)
           /\ a.form = "long" => Len(a.flags) = 1
<1>1. CASE a.form = "long"
  <2>1. a.flags \in [1..1 -> STRING]
    BY <1>1 DEF Argument
  <2>2. PICK flag \in STRING : a.flags = <<flag>>
    <3> DEFINE one == a.flags[1]
    <3>1. one \in STRING /\ DOMAIN a.flags = 1..1 /\ a.flags = [i \in 1..1 |-> a.flags[i]]
      BY <2>1
    <3>2. <<one>> = [i \in 1..1 |-> a.flags[i]]
      OBVIOUS
    <3>3. QED
      BY <3>1, <3>2, Zenon
  <2>3. <<flag>> \in Seq(STRING) /\ Len(<<flag>>) = 1 /\ DOMAIN <<flag>> = 1..1
    OBVIOUS
  <2>4. QED
    BY <2>2, <2>3, <1>1
<1>2. CASE a.form = "short"
  <2>1. a.flags \in Seq(STRING) \ {<<>>}
    BY <1>2 DEF Argument
  <2>2. QED
    BY <2>1, <1>2
<1>3. QED
  BY <1>1, <1>2

\* The flag that takes a value, if there is one, is the first that may.
LEMMA TakerFacts ==
    ASSUME NEW set, NEW a \in Argument, a.form \in {"long", "short"}
    PROVE  /\ Taker(set, a) \in 1..Len(a.flags) + 1
           /\ \A j \in 1..Taker(set, a) - 1 : a.flags[j] \notin set.strings
           /\ Taker(set, a) <= Len(a.flags) => a.flags[Taker(set, a)] \in set.strings
<1> DEFINE n == Len(a.flags)
           S == {k \in 1..n + 1 : k <= n => a.flags[k] \in set.strings}
<1>1. n \in Nat
  BY FlagsOf
<1>2. n + 1 \in S /\ S \in SUBSET Nat
  BY <1>1
<1>3. PICK k \in S : \A m \in S : k <= m
  BY <1>2, LeastOf
<1>4. \A j \in 1..k - 1 : a.flags[j] \notin set.strings
  BY <1>1, <1>3
<1>5. \E i \in 1..n + 1 :
        /\ \A j \in 1..i - 1 : a.flags[j] \notin set.strings
        /\ i <= n => a.flags[i] \in set.strings
  BY <1>3, <1>4
<1>6. QED
  BY <1>5, Zenon DEF Taker

LEMMA PlainlyFacts ==
    ASSUME NEW flags \in Seq(STRING)
    PROVE  /\ Plainly(flags) \in Seq(STRING \X {Empty})
           /\ Len(Plainly(flags)) = Len(flags)
           /\ \A i \in 1..Len(flags) : Plainly(flags)[i] = <<flags[i], Empty>>
BY DEF Plainly

\* What an argument comes to: the flags up to the one that takes a value, with that value.
UpToTaker(set, a, value) ==
    LET k == Taker(set, a)
    IN  IF Takes(set, a) THEN Append(Plainly(SubSeq(a.flags, 1, k - 1)), <<a.flags[k], value>>)
        ELSE Plainly(a.flags)
ValueBefore(set, a, next) ==
    IF Hungry(set, a) THEN Whole(next[1])
    ELSE IF Taker(set, a) < Len(a.flags) THEN Attached(a.text) ELSE a.text

TakenAsRead(set, a, next, taken) ==
    /\ WellFormed(set, a)
    /\ taken.used = IF Hungry(set, a) THEN 1 ELSE 0
    /\ Hungry(set, a) => next # <<>>
    /\ taken.given = UpToTaker(set, a, ValueBefore(set, a, next))

LEMMA LongAsRead ==
    ASSUME NEW set, set.plain \cap set.strings = {}, NEW a \in Argument, a.form = "long",
           NEW next \in Seq(Argument), ParseLong(set, a, next).ok
    PROVE  TakenAsRead(set, a, next, ParseLong(set, a, next))
<1> DEFINE flag == a.flags[1]
           k == Taker(set, a)
<1>1. Len(a.flags) = 1 /\ k \in 1..2
  BY FlagsOf, TakerFacts
<1>2. CASE flag \in set.strings
  <2>1. k = 1 /\ Takes(set, a) /\ (Hungry(set, a) <=> a.text = NoText)
    BY <1>1, <1>2, TakerFacts DEF Takes, Hungry
  <2>2. WellFormed(set, a)
    BY <1>1, <1>2, <2>1 DEF WellFormed
  <2>3. \A v : UpToTaker(set, a, v) = <<<<flag, v>>>>
    <3>1. SubSeq(a.flags, 1, 0) = <<>>
      BY FlagsOf
    <3>2. Plainly(<<>>) = <<>>
      <4>1. <<>> \in Seq(STRING) /\ Len(<<>>) = 0
        OBVIOUS
      <4>2. Plainly(<<>>) \in Seq(STRING \X {Empty}) /\ Len(Plainly(<<>>)) = 0
        BY <4>1, PlainlyFacts, Zenon
      <4>3. QED
        BY <4>2
    <3>3. \A v : Append(<<>>, <<flag, v>>) = <<<<flag, v>>>>
      OBVIOUS
    <3>4. a.flags[k] = flag /\ k - 1 = 0
      BY <2>1
    <3>5. \A v : UpToTaker(set, a, v) = Append(Plainly(SubSeq(a.flags, 1, 0)), <<flag, v>>)
      BY <2>1, <3>4, Zenon DEF UpToTaker
    <3>6. QED
      BY <3>1, <3>2, <3>3, <3>5, Zenon
  <2>4. CASE a.text = NoText
    <3>1. ParseLong(set, a, next) = FromNext(<<>>, flag, next)
      BY <1>2, <2>4 DEF ParseLong
    <3>2. next # <<>>
      BY <3>1 DEF FromNext, Bad
    <3>3. ParseLong(set, a, next) = Taken(<<<<flag, Whole(next[1])>>>>, 1)
      BY <3>1, <3>2 DEF FromNext
    <3>4. QED
      BY <2>1, <2>2, <2>3, <2>4, <3>2, <3>3 DEF TakenAsRead, Taken, ValueBefore
  <2>5. CASE a.text # NoText
    <3>1. ParseLong(set, a, next) = Taken(<<<<flag, a.text>>>>, 0)
      BY <1>2, <2>5 DEF ParseLong
    <3>2. QED
      BY <1>1, <2>1, <2>2, <2>3, <2>5, <3>1 DEF TakenAsRead, Taken, ValueBefore
  <2>6. QED
    BY <2>4, <2>5
<1>3. CASE flag \notin set.strings
  <2>1. flag \in set.plain /\ a.text = NoText /\ ParseLong(set, a, next) = Taken(<<<<flag, Empty>>>>, 0)
    BY <1>3 DEF ParseLong, Bad
  <2>2. k = 2 /\ ~Takes(set, a) /\ ~Hungry(set, a)
    BY <1>1, <1>3, TakerFacts DEF Takes, Hungry
  <2>3. WellFormed(set, a)
    BY <1>1, <2>1, <2>2 DEF WellFormed
  <2>4. \A v : UpToTaker(set, a, v) = <<<<flag, Empty>>>>
    BY <1>1, <2>2 DEF UpToTaker, Plainly
  <2>5. QED
    BY <2>1, <2>2, <2>3, <2>4 DEF TakenAsRead, Taken
<1>4. QED
  BY <1>2, <1>3

LEMMA ShortAsRead ==
    ASSUME NEW set, set.plain \cap set.strings = {}, NEW a \in Argument, a.form = "short",
           NEW next \in Seq(Argument), ParseShort(set, a, next).ok
    PROVE  TakenAsRead(set, a, next, ParseShort(set, a, next))
<1> DEFINE flags == a.flags
           n == Len(flags)
           k == Taker(set, a)
           others == {i \in DOMAIN flags : flags[i] \notin set.plain}
           first == CHOOSE i \in others : \A j \in others : i <= j
           plain == Plainly(SubSeq(flags, 1, first - 1))
           P == ParseShort(set, a, next)
<1>0. P = IF others = {} THEN IF a.text = NoText THEN Taken(Plainly(flags), 0) ELSE Bad
          ELSE IF flags[first] \notin set.strings THEN Bad
          ELSE IF first < n THEN Taken(Append(plain, <<flags[first], Attached(a.text)>>), 0)
          ELSE IF a.text # NoText THEN Taken(Append(plain, <<flags[first], a.text>>), 0)
          ELSE FromNext(plain, flags[first], next)
  BY DEF ParseShort
<1>1. flags \in Seq(STRING) /\ n \in Nat \ {0} /\ DOMAIN flags = 1..n
  BY FlagsOf
<1>2. /\ k \in 1..n + 1
      /\ \A j \in 1..k - 1 : flags[j] \notin set.strings
      /\ k <= n => flags[k] \in set.strings
  BY TakerFacts
<1>3. CASE others = {}
  <2>1. a.text = NoText /\ P = Taken(Plainly(flags), 0)
    BY <1>0, <1>3 DEF Bad
  <2>2. k = n + 1 /\ ~Takes(set, a) /\ ~Hungry(set, a)
    BY <1>1, <1>2, <1>3 DEF Takes, Hungry
  <2>3. WellFormed(set, a)
    BY <1>1, <1>3, <2>1, <2>2 DEF WellFormed
  <2>4. \A v : UpToTaker(set, a, v) = Plainly(flags)
    BY <1>1, <2>2 DEF UpToTaker, Plainly
  <2>5. QED
    BY <2>1, <2>2, <2>3, <2>4 DEF TakenAsRead, Taken
<1>4. CASE others # {}
  <2>1. others \in SUBSET Nat
    BY <1>1
  <2>2. \E i \in others : \A j \in others : i <= j
    BY <1>4, <2>1, LeastOf
  <2>3. first \in others /\ \A j \in others : first <= j
    BY <2>2, Zenon
  <2>4. flags[first] \in set.strings
    BY <1>0, <1>4 DEF Bad
  <2> HIDE DEF first
  <2>5. k = first /\ k \in 1..n
    BY <1>1, <1>2, <2>3, <2>4
  <2>6. Takes(set, a) /\ (Hungry(set, a) <=> ~(k < n) /\ a.text = NoText)
    BY <1>1, <2>5 DEF Takes, Hungry
  <2>7. WellFormed(set, a)
    <3>1. \A i \in 1..k : flags[i] \in set.strings \cup set.plain
      BY <1>1, <2>3, <2>4, <2>5
    <3>2. \A i \in 1..Taker(set, a) :
            i <= Len(a.flags) => a.flags[i] \in set.strings \cup set.plain
      BY <3>1
    <3>3. a.form \in {"long", "short"} /\ (~Takes(set, a) => a.text = NoText)
      BY <2>6
    <3>4. QED
      BY <3>2, <3>3, Zenon DEF WellFormed
  <2>8. \A v : UpToTaker(set, a, v) = Append(plain, <<flags[k], v>>)
    BY <2>5, <2>6 DEF UpToTaker
  <2> HIDE DEF plain
  <2>9. CASE k < n
    <3>1. P = Taken(Append(plain, <<flags[k], Attached(a.text)>>), 0)
      BY <1>0, <1>4, <2>4, <2>5, <2>9
    <3>2. QED
      BY <2>6, <2>7, <2>8, <2>9, <3>1 DEF TakenAsRead, Taken, ValueBefore
  <2>10. CASE ~(k < n) /\ a.text # NoText
    <3>1. P = Taken(Append(plain, <<flags[k], a.text>>), 0)
      BY <1>0, <1>4, <2>4, <2>5, <2>10
    <3>2. QED
      BY <2>6, <2>7, <2>8, <2>10, <3>1 DEF TakenAsRead, Taken, ValueBefore
  <2>11. CASE ~(k < n) /\ a.text = NoText
    <3>1. P = FromNext(plain, flags[k], next)
      BY <1>0, <1>4, <2>4, <2>5, <2>11
    <3>2. next # <<>> /\ P = Taken(Append(plain, <<flags[k], Whole(next[1])>>), 1)
      BY <3>1 DEF FromNext, Bad
    <3>3. QED
      BY <2>6, <2>7, <2>8, <2>11, <3>2 DEF TakenAsRead, Taken, ValueBefore
  <2>12. QED
    BY <2>9, <2>10, <2>11
<1>5. QED
  BY <1>3, <1>4

-----------------------------------------------------------------------------

\* An argument that is no word and not the end of the flags has flags.
LEMMA TakenAtAsRead ==
    ASSUME NEW set, set.plain \cap set.strings = {}, NEW args \in Seq(Argument),
           NEW i \in 1..Len(args), args[i].form \notin {"word", "end"}, TakenAt(set, args, i).ok
    PROVE  /\ args[i] \in Argument /\ args[i].form \in {"long", "short"}
           /\ TakenAsRead(set, args[i], SubSeq(args, i + 1, Len(args)), TakenAt(set, args, i))
<1> DEFINE next == SubSeq(args, i + 1, Len(args))
<1>1. args[i] \in Argument
  OBVIOUS
<1>2. args[i].form \in {"long", "short"}
  BY <1>1 DEF Argument
<1>3. next \in Seq(Argument)
  OBVIOUS
<1>4. TakenAt(set, args, i) = IF args[i].form = "long" THEN ParseLong(set, args[i], next)
                              ELSE ParseShort(set, args[i], next)
  BY DEF TakenAt
<1> HIDE DEF next
<1>5. CASE args[i].form = "long"
  BY <1>1, <1>3, <1>4, <1>5, LongAsRead DEF next
<1>6. CASE args[i].form = "short"
  BY <1>1, <1>3, <1>4, <1>6, ShortAsRead DEF next
<1>7. QED
  BY <1>1, <1>2, <1>5, <1>6

LEMMA TakenUsed ==
    ASSUME NEW set, set.plain \cap set.strings = {}, NEW args \in Seq(Argument),
           NEW i \in 1..Len(args), args[i].form \notin {"word", "end"}, TakenAt(set, args, i).ok
    PROVE  TakenAt(set, args, i).used \in {0, 1}
BY TakenAtAsRead DEF TakenAsRead

\* What an argument comes to depends on later ones only.
LEMMA ParsedFromLater ==
    ASSUME NEW set, set.plain \cap set.strings = {}, NEW args \in Seq(Argument),
           NEW i \in 1..Len(args) + 2, NEW f, NEW g,
           \A j \in i + 1..Len(args) + 2 : f[j] = g[j]
    PROVE  ParsedAt(set, args, f, i) = ParsedAt(set, args, g, i)
<1>1. CASE i > Len(args) \/ args[i].form \in {"word", "end"}
  BY <1>1 DEF ParsedAt
<1>2. CASE ~(i > Len(args)) /\ args[i].form \notin {"word", "end"}
  <2>1. CASE TakenAt(set, args, i).ok
    <3>1. i + 1 + TakenAt(set, args, i).used \in i + 1..Len(args) + 2
      BY <1>2, <2>1, TakenUsed
    <3>2. f[i + 1 + TakenAt(set, args, i).used] = g[i + 1 + TakenAt(set, args, i).used]
      BY <3>1
    <3>3. QED
      BY <1>2, <2>1, <3>2, Zenon DEF ParsedAt
  <2>2. CASE ~TakenAt(set, args, i).ok
    BY <1>2, <2>2, Zenon DEF ParsedAt
  <2>3. QED
    BY <2>1, <2>2
<1>3. QED
  BY <1>1, <1>2

LEMMA ParsedExists ==
    ASSUME NEW set, set.plain \cap set.strings = {}, NEW args \in Seq(Argument)
    PROVE  \E f : f = [i \in 1..Len(args) + 2 |-> ParsedAt(set, args, f, i)]
<1> DEFINE n == Len(args) + 2
           Solves(f, m) == \A i \in m..n : f[i] = ParsedAt(set, args, f, i)
           Unsolved == {m \in 0..n : ~\E f : Solves(f, n + 1 - m)}
<1>1. n \in Nat
  OBVIOUS
<1>2. ASSUME NEW m \in 1..n, NEW g, Solves(g, m + 1)
      PROVE  \E f : Solves(f, m)
  <2> DEFINE f == [i \in 1..n |-> IF i = m THEN ParsedAt(set, args, g, m) ELSE g[i]]
  <2>1. \A i \in m + 1..n : f[i] = g[i]
    BY <1>1
  <2>2. f[m] = ParsedAt(set, args, g, m)
    BY <1>1
  <2> HIDE DEF f
  <2>3. ASSUME NEW i \in m..n PROVE f[i] = ParsedAt(set, args, f, i)
    <3>1. \A j \in i + 1..n : f[j] = g[j]
      BY <1>1, <2>1
    <3>2. i \in 1..n
      BY <1>1
    <3>3. ParsedAt(set, args, f, i) = ParsedAt(set, args, g, i)
      BY <3>1, <3>2, ParsedFromLater, Zenon
    <3>4. f[i] = ParsedAt(set, args, g, i)
      BY <1>1, <1>2, <2>1, <2>2
    <3>5. QED
      BY <3>3, <3>4, Zenon
  <2>4. QED
    BY <2>3, Zenon
<1> HIDE DEF Solves
<1>3. Unsolved = {}
  <2>1. SUFFICES ASSUME Unsolved # {} PROVE FALSE
    OBVIOUS
  <2>2. PICK m \in Unsolved : \A k \in Unsolved : m <= k
    <3>1. Unsolved \in SUBSET Nat
      BY <1>1
    <3>2. QED
      BY <2>1, <3>1, LeastOf, Zenon
  <2>3. m # 0
    <3>1. Solves(args, n + 1)
      BY <1>1 DEF Solves
    <3>2. QED
      BY <1>1, <2>2, <3>1
  <2>4. m - 1 \in 0..n /\ m - 1 \notin Unsolved /\ n + 1 - m \in 1..n
    BY <1>1, <2>2, <2>3
  <2>5. PICK g : Solves(g, n + 1 - (m - 1))
    BY <2>4
  <2>6. n + 1 - (m - 1) = (n + 1 - m) + 1
    BY <1>1, <2>2
  <2>7. \E f : Solves(f, n + 1 - m)
    <3>1. Solves(g, (n + 1 - m) + 1)
      BY <2>5, <2>6, Zenon
    <3>2. QED
      BY <1>2, <2>4, <3>1, Zenon
  <2>8. QED
    BY <2>2, <2>7
<1>4. PICK g : Solves(g, 1)
  <2>1. n \in 0..n /\ n + 1 - n = 1
    BY <1>1
  <2>2. QED
    BY <1>3, <2>1
<1> DEFINE f == [i \in 1..n |-> g[i]]
<1>5. \A i \in 1..n : f[i] = g[i]
  OBVIOUS
<1>6. f = [i \in 1..n |-> f[i]]
  OBVIOUS
<1> HIDE DEF f
<1>7. ASSUME NEW i \in 1..n PROVE f[i] = ParsedAt(set, args, f, i)
  <2>1. \A j \in i + 1..n : f[j] = g[j]
    BY <1>1, <1>5
  <2>2. ParsedAt(set, args, f, i) = ParsedAt(set, args, g, i)
    BY <2>1, ParsedFromLater, Zenon
  <2>3. QED
    BY <1>4, <1>5, <2>2 DEF Solves
<1>8. f = [i \in 1..n |-> ParsedAt(set, args, f, i)]
  BY <1>6, <1>7, Zenon
<1>9. QED
  BY <1>8, Zenon

ParsedFrom(set, args) ==
    CHOOSE f : f = [i \in 1..Len(args) + 2 |-> ParsedAt(set, args, f, i)]

LEMMA ParsedFromFacts ==
    ASSUME NEW set, set.plain \cap set.strings = {}, NEW args \in Seq(Argument)
    PROVE  /\ ParseFlags(set, args) = ParsedFrom(set, args)[1]
           /\ \A i \in 1..Len(args) + 2 :
                ParsedFrom(set, args)[i] = ParsedAt(set, args, ParsedFrom(set, args), i)
<1>1. ParseFlags(set, args) = ParsedFrom(set, args)[1]
  BY Zenon DEF ParseFlags, ParsedFrom
<1>2. ParsedFrom(set, args)
        = [i \in 1..Len(args) + 2 |-> ParsedAt(set, args, ParsedFrom(set, args), i)]
  BY ParsedExists, Zenon DEF ParsedFrom
<1> DEFINE from == ParsedFrom(set, args)
<1> HIDE DEF from
<1>3. from = [i \in 1..Len(args) + 2 |-> ParsedAt(set, args, from, i)]
  BY <1>2, Zenon DEF from
<1>4. \A i \in 1..Len(args) + 2 : from[i] = ParsedAt(set, args, from, i)
  <2>1. SUFFICES ASSUME NEW i \in 1..Len(args) + 2 PROVE from[i] = ParsedAt(set, args, from, i)
    OBVIOUS
  <2>2. [k \in 1..Len(args) + 2 |-> ParsedAt(set, args, from, k)][i] = ParsedAt(set, args, from, i)
    BY Zenon
  <2>3. QED
    BY <1>3, <2>2, Zenon
<1>5. QED
  BY <1>1, <1>4, Zenon DEF from

-----------------------------------------------------------------------------

\* A set of numbers that is bounded has a greatest one.
LEMMA GreatestOf ==
    ASSUME NEW n \in Nat, NEW S \in SUBSET (1..n), S # {}
    PROVE  \E k \in S : \A m \in S : m <= k
<1> DEFINE From == {n - k : k \in S}
<1>1. From \in SUBSET Nat /\ From # {}
  <2>1. \A k \in S : n - k \in Nat
    OBVIOUS
  <2>2. QED
    BY <2>1, Zenon
<1>2. PICK l \in From : \A m \in From : l <= m
  BY <1>1, LeastOf, Zenon
<1>3. PICK k \in S : l = n - k
  <2>1. l \in From
    BY <1>2
  <2>2. QED
    BY <2>1, Zenon
<1>4. \A m \in S : l <= n - m
  BY <1>2
<1>5. \A m \in S : m <= k
  BY <1>3, <1>4
<1>6. QED
  BY <1>5

\* The value of a flag is that of its last occurrence.
LastAt(given, n, flag, k) ==
    /\ n \in Nat /\ DOMAIN given = 1..n
    /\ k \in 1..n
    /\ given[k][1] = flag
    /\ \A j \in 1..n : given[j][1] = flag => j <= k

LEMMA GreatestIs ==
    ASSUME NEW S \in SUBSET Int, NEW k \in S, \A j \in S : j <= k
    PROVE  (CHOOSE i \in S : \A j \in S : j <= i) = k
<1>1. \A i \in S : (\A j \in S : j <= i) => i = k
  OBVIOUS
<1>2. \E i \in S : \A j \in S : j <= i
  OBVIOUS
<1>3. QED
  BY <1>1, <1>2, Zenon

LEMMA ValueOfLast ==
    ASSUME NEW given, NEW n, NEW flag, NEW k, LastAt(given, n, flag, k)
    PROVE  \A d : ValueOf(given, flag, d) = given[k][2]
<1> SUFFICES ASSUME NEW d PROVE ValueOf(given, flag, d) = given[k][2]
  OBVIOUS
<1> DEFINE places == {i \in DOMAIN given : given[i][1] = flag}
<1>1. k \in places /\ places \in SUBSET Int /\ \A j \in places : j <= k
  BY DEF LastAt
<1>2. ValueOf(given, flag, d)
        = IF places = {} THEN d ELSE given[CHOOSE i \in places : \A j \in places : j <= i][2]
  BY DEF ValueOf
<1> HIDE DEF places
<1>3. (CHOOSE i \in places : \A j \in places : j <= i) = k
  BY <1>1, GreatestIs, Zenon
<1>4. QED
  BY <1>1, <1>2, <1>3, Zenon

LEMMA ChangedLast ==
    ASSUME NEW given, NEW n \in Nat, DOMAIN given = 1..n, NEW flag, Changed(given, flag)
    PROVE  \E k : LastAt(given, n, flag, k) /\ \A d : ValueOf(given, flag, d) = given[k][2]
<1> DEFINE places == {k \in 1..n : given[k][1] = flag}
<1>1. places \in SUBSET (1..n) /\ places # {}
  BY DEF Changed
<1>2. PICK k \in places : \A j \in places : j <= k
  BY <1>1, GreatestOf, Zenon
<1>3. LastAt(given, n, flag, k)
  BY <1>2 DEF LastAt
<1> HIDE DEF places
<1>4. \A d : ValueOf(given, flag, d) = given[k][2]
  BY <1>3, ValueOfLast, Zenon
<1>5. QED
  BY <1>3, <1>4, Zenon

LEMMA NotChanged ==
    \A given, flag, d : ~Changed(given, flag) => ValueOf(given, flag, d) = d
BY DEF Changed, ValueOf

\* c is a and then b.
Joins(a, b, c, m, n) ==
    /\ DOMAIN a = 1..m /\ DOMAIN b = 1..n /\ DOMAIN c = 1..m + n
    /\ \A i \in 1..m : c[i] = a[i]
    /\ \A i \in 1..n : c[m + i] = b[i]

LEMMA Joined ==
    ASSUME NEW m \in Nat, NEW n \in Nat, NEW a, NEW b, NEW c, NEW flag, Joins(a, b, c, m, n)
    PROVE  /\ Changed(c, flag) <=> Changed(a, flag) \/ Changed(b, flag)
           /\ \A d :
                ValueOf(c, flag, d)
                  = IF Changed(b, flag) THEN ValueOf(b, flag, d) ELSE ValueOf(a, flag, d)
<1>0. /\ m + n \in Nat
      /\ DOMAIN a = 1..m /\ DOMAIN b = 1..n /\ DOMAIN c = 1..m + n
  BY DEF Joins
<1>1. \A i \in 1..m + n : ~(i <= m) => i - m \in 1..n /\ c[i] = b[i - m]
  <2>1. SUFFICES ASSUME NEW i \in 1..m + n, ~(i <= m) PROVE i - m \in 1..n /\ c[i] = b[i - m]
    OBVIOUS
  <2>2. i - m \in 1..n /\ m + (i - m) = i
    BY <2>1
  <2>3. QED
    BY <2>2 DEF Joins
<1>2. CASE Changed(b, flag)
  <2>1. PICK k : LastAt(b, n, flag, k) /\ \A d : ValueOf(b, flag, d) = b[k][2]
    BY <1>0, <1>2, ChangedLast
  <2>2. m + k \in 1..m + n /\ c[m + k] = b[k] /\ c[m + k][1] = flag
    BY <2>1 DEF LastAt, Joins
  <2>3. LastAt(c, m + n, flag, m + k)
    BY <1>0, <1>1, <2>1, <2>2 DEF LastAt
  <2>4. \A d : ValueOf(c, flag, d) = c[m + k][2]
    BY <2>3, ValueOfLast, Zenon
  <2>5. Changed(c, flag)
    BY <1>0, <2>2 DEF Changed
  <2>6. QED
    BY <1>2, <2>1, <2>2, <2>4, <2>5, Zenon
<1>3. CASE ~Changed(b, flag) /\ Changed(a, flag)
  <2>1. PICK k : LastAt(a, m, flag, k) /\ \A d : ValueOf(a, flag, d) = a[k][2]
    BY <1>0, <1>3, ChangedLast
  <2>2. k \in 1..m + n /\ c[k] = a[k] /\ c[k][1] = flag
    BY <2>1 DEF LastAt, Joins
  <2>3. \A j \in 1..m + n : c[j][1] = flag => j <= k
    <3>1. \A i \in 1..n : b[i][1] # flag
      BY <1>0, <1>3 DEF Changed
    <3>2. SUFFICES ASSUME NEW j \in 1..m + n, c[j][1] = flag PROVE j <= k
      OBVIOUS
    <3>3. j <= m
      BY <1>1, <3>1, <3>2
    <3>4. QED
      BY <2>1, <3>2, <3>3 DEF LastAt, Joins
  <2>4. \A d : ValueOf(c, flag, d) = c[k][2]
    <3>1. LastAt(c, m + n, flag, k)
      BY <1>0, <2>2, <2>3 DEF LastAt
    <3>2. QED
      BY <3>1, ValueOfLast, Zenon
  <2>5. Changed(c, flag)
    BY <1>0, <2>2 DEF Changed
  <2>6. QED
    BY <1>3, <2>1, <2>2, <2>4, <2>5, Zenon
<1>4. CASE ~Changed(b, flag) /\ ~Changed(a, flag)
  <2>1. ~Changed(c, flag)
    BY <1>1, <1>4 DEF Changed, Joins
  <2>2. QED
    BY <1>4, <2>1, NotChanged, Zenon
<1>5. QED
  BY <1>2, <1>3, <1>4

LEMMA Concatenated ==
    ASSUME NEW S, NEW a \in Seq(S), NEW b \in Seq(S), NEW flag
    PROVE  /\ Changed(a \o b, flag) <=> Changed(a, flag) \/ Changed(b, flag)
           /\ \A d :
                ValueOf(a \o b, flag, d)
                  = IF Changed(b, flag) THEN ValueOf(b, flag, d) ELSE ValueOf(a, flag, d)
<1>1. /\ Len(a) \in Nat /\ Len(b) \in Nat
      /\ Joins(a, b, a \o b, Len(a), Len(b))
  BY DEF Joins
<1>2. QED
  BY <1>1, Joined, Zenon

-----------------------------------------------------------------------------

\* An argument gives its flags up to the one that takes a value, one after the other.
InOrder(set, a, v, given) ==
    /\ given \in Seq(STRING \X {v, Empty})
    /\ Len(given) = IF Takes(set, a) THEN Taker(set, a) ELSE Taker(set, a) - 1
    /\ \A j \in 1..Taker(set, a) - 1 : given[j] = <<a.flags[j], Empty>>
    /\ Takes(set, a) => given[Taker(set, a)] = <<a.flags[Taker(set, a)], v>>

LEMMA GivenInOrder ==
    ASSUME NEW set, NEW a \in Argument, a.form \in {"long", "short"}, NEW v
    PROVE  InOrder(set, a, v, UpToTaker(set, a, v))
<1> DEFINE flags == a.flags
           k == Taker(set, a)
           given == UpToTaker(set, a, v)
<1>1. flags \in Seq(STRING) /\ Len(flags) \in Nat /\ k \in 1..Len(flags) + 1
  BY FlagsOf, TakerFacts
<1>2. Takes(set, a) <=> k <= Len(flags)
  BY DEF Takes
<1>3. given = IF Takes(set, a) THEN Append(Plainly(SubSeq(flags, 1, k - 1)), <<flags[k], v>>)
              ELSE Plainly(flags)
  BY Zenon DEF UpToTaker
<1> HIDE DEF flags, k, given
<1>4. CASE Takes(set, a)
  <2> DEFINE before == SubSeq(flags, 1, k - 1)
  <2>1. before \in Seq(STRING) /\ Len(before) = k - 1 /\ \A j \in 1..k - 1 : before[j] = flags[j]
    BY <1>1, <1>2, <1>4
  <2>2. flags[k] \in STRING
    BY <1>1, <1>2, <1>4
  <2> HIDE DEF before
  <2> DEFINE pairs == Plainly(before)
  <2>3. /\ pairs \in Seq(STRING \X {Empty}) /\ Len(pairs) = k - 1
        /\ \A j \in 1..k - 1 : pairs[j] = <<flags[j], Empty>>
    BY <2>1, PlainlyFacts
  <2> HIDE DEF pairs
  <2>4. pairs \in Seq(STRING \X {v, Empty}) /\ <<flags[k], v>> \in STRING \X {v, Empty}
    BY <2>2, <2>3
  <2>5. given = Append(pairs, <<flags[k], v>>)
    BY <1>3, <1>4 DEF pairs, before
  <2> DEFINE S == STRING \X {v, Empty}
             last == <<flags[k], v>>
  <2> HIDE DEF S, last
  <2>6. pairs \in Seq(S) /\ last \in S /\ given = Append(pairs, last)
    BY <2>4, <2>5 DEF S, last
  <2>7. /\ given \in Seq(S) /\ Len(given) = k /\ given[k] = last
        /\ \A j \in 1..k - 1 : given[j] = pairs[j]
    BY <1>1, <2>3, <2>6
  <2>8. QED
    BY <1>4, <2>3, <2>7 DEF InOrder, S, last, k, given, flags
<1>5. CASE ~Takes(set, a)
  <2>1. k = Len(flags) + 1 /\ given = Plainly(flags)
    BY <1>1, <1>2, <1>3, <1>5
  <2>2. /\ given \in Seq(STRING \X {Empty}) /\ Len(given) = k - 1
        /\ \A j \in 1..k - 1 : given[j] = <<flags[j], Empty>>
    BY <1>1, <2>1, PlainlyFacts
  <2>3. given \in Seq(STRING \X {v, Empty})
    BY <2>2
  <2>4. QED
    BY <1>5, <2>2, <2>3 DEF InOrder, k, given, flags
<1>6. QED
  BY <1>4, <1>5

\* What the flags of one argument are changed to.
AsGiven(set, a, v, given, flag) ==
    /\ flag \notin set.strings =>
         (Changed(given, flag) <=> \E j \in 1..Taker(set, a) - 1 : a.flags[j] = flag)
    /\ flag \notin set.plain =>
         /\ Changed(given, flag) <=> Takes(set, a) /\ a.flags[Taker(set, a)] = flag
         /\ Changed(given, flag) => \A d : ValueOf(given, flag, d) = v

LEMMA GivenByOne ==
    ASSUME NEW set, set.plain \cap set.strings = {}, NEW a \in Argument,
           a.form \in {"long", "short"}, WellFormed(set, a), NEW v, NEW flag
    PROVE  AsGiven(set, a, v, UpToTaker(set, a, v), flag)
<1> DEFINE k == Taker(set, a)
           given == UpToTaker(set, a, v)
<1>1. /\ Len(given) = IF Takes(set, a) THEN k ELSE k - 1
      /\ given \in Seq(STRING \X {v, Empty})
      /\ \A j \in 1..k - 1 : given[j] = <<a.flags[j], Empty>>
      /\ Takes(set, a) => given[k] = <<a.flags[k], v>>
  <2>1. InOrder(set, a, v, given)
    BY GivenInOrder, Zenon
  <2>2. QED
    BY <2>1, Zenon DEF InOrder
<1>2. k \in 1..Len(a.flags) + 1 /\ Len(a.flags) \in Nat /\ (Takes(set, a) <=> k <= Len(a.flags))
  BY FlagsOf, TakerFacts DEF Takes
<1>3. \A j \in 1..k - 1 : a.flags[j] \in set.plain /\ a.flags[j] \notin set.strings
  BY <1>2, TakerFacts DEF WellFormed
<1>4. Takes(set, a) => a.flags[k] \in set.strings /\ a.flags[k] \notin set.plain
  BY <1>2, TakerFacts
<1> HIDE DEF k, given
<1>5. DOMAIN given = 1..Len(given) /\ Len(given) \in Nat
  BY <1>1
<1>6. Changed(given, flag) <=> (\E j \in 1..k - 1 : a.flags[j] = flag) \/ (Takes(set, a) /\ a.flags[k] = flag)
  <2>1. \A j \in 1..k - 1 : j \in DOMAIN given /\ given[j][1] = a.flags[j]
    BY <1>1, <1>2, <1>5
  <2>2. Takes(set, a) => k \in DOMAIN given /\ given[k][1] = a.flags[k]
    BY <1>1, <1>2, <1>5
  <2>3. \A j \in DOMAIN given : j \in 1..k - 1 \/ (Takes(set, a) /\ j = k)
    BY <1>1, <1>2, <1>5
  <2>4. QED
    BY <2>1, <2>2, <2>3, Zenon DEF Changed
<1>7. ASSUME flag \notin set.plain, Changed(given, flag) PROVE \A d : ValueOf(given, flag, d) = v
  <2>1. Takes(set, a) /\ a.flags[k] = flag
    BY <1>3, <1>6, <1>7
  <2>2. LastAt(given, Len(given), flag, k)
    BY <1>1, <1>2, <1>5, <2>1 DEF LastAt
  <2>3. QED
    BY <1>1, <2>1, <2>2, ValueOfLast
<1>8. flag \notin set.strings => (Changed(given, flag) <=> \E j \in 1..k - 1 : a.flags[j] = flag)
  BY <1>4, <1>6
<1>9. flag \notin set.plain => (Changed(given, flag) <=> Takes(set, a) /\ a.flags[k] = flag)
  BY <1>3, <1>6
<1>10. QED
  BY <1>7, <1>8, <1>9, Zenon DEF AsGiven, k, given

-----------------------------------------------------------------------------

\* The arguments from the i-th to "end" are the flags at "starts" and their values, and come
\* to "given".
ReadsFrom(set, args, i, end, starts) ==
    /\ starts \subseteq i..end
    /\ \A j \in i..end :
         /\ j \in starts <=> ~(j - 1 \in starts /\ Hungry(set, args[j - 1]))
         /\ j \in starts => WellFormed(set, args[j]) /\ (Hungry(set, args[j]) => j < end)

Agrees(set, args, starts, given, flag) ==
    /\ flag \notin set.strings => (Changed(given, flag) <=> Plain(set, args, starts, flag))
    /\ flag \notin set.plain =>
         /\ Changed(given, flag) <=> Given(set, args, starts, flag) # {}
         /\ \A d : ValueOf(given, flag, d) = Last(set, args, starts, flag, d)

LEMMA ReadsOne ==
    ASSUME NEW set, NEW args, NEW i \in Nat, NEW end \in Int, NEW starts, NEW used,
           used = IF Hungry(set, args[i]) THEN 1 ELSE 0,
           WellFormed(set, args[i]), i + used <= end,
           ReadsFrom(set, args, i + 1 + used, end, starts)
    PROVE  ReadsFrom(set, args, i, end, {i} \cup starts)
<1> DEFINE all == {i} \cup starts
<1>1. starts \subseteq i + 1 + used..end /\ used \in {0, 1}
  BY DEF ReadsFrom
<1>2. \A j : j \in all <=> j = i \/ j \in starts
  OBVIOUS
<1> HIDE DEF all
<1>3. all \subseteq i..end
  <2>1. \A j \in starts : j \in i + 1 + used..end
    BY <1>1
  <2>2. \A j \in i + 1 + used..end : j \in i..end
    BY <1>1
  <2>3. i \in i..end
    BY <1>1
  <2>4. QED
    BY <1>2, <2>1, <2>2, <2>3, Zenon
<1>4. ASSUME NEW j \in i..end
      PROVE  /\ j \in all <=> ~(j - 1 \in all /\ Hungry(set, args[j - 1]))
             /\ j \in all => WellFormed(set, args[j]) /\ (Hungry(set, args[j]) => j < end)
  <2>1. CASE j = i
    BY <1>1, <1>2, <2>1
  <2>2. CASE j = i + 1 /\ used = 1
    <3>1. j - 1 = i /\ j \notin all /\ Hungry(set, args[i])
      BY <1>1, <1>2, <2>2
    <3>2. QED
      BY <1>2, <3>1
  <2>3. CASE j \in i + 1 + used..end
    <3>1. /\ j \in starts <=> ~(j - 1 \in starts /\ Hungry(set, args[j - 1]))
          /\ j \in starts => WellFormed(set, args[j]) /\ (Hungry(set, args[j]) => j < end)
      BY <2>3 DEF ReadsFrom
    <3>2. j \in all <=> j \in starts
      BY <1>1, <1>2, <2>3
    <3>3. j - 1 = i => ~Hungry(set, args[j - 1])
      BY <1>1, <2>3
    <3>4. QED
      BY <1>2, <3>1, <3>2, <3>3
  <2>4. QED
    BY <1>1, <2>1, <2>2, <2>3
<1>5. QED
  BY <1>3, <1>4 DEF ReadsFrom, all

\* The last of the flags that are given is the last that one more is followed by, or that one.
Follow(i, n, starts) == i \in Nat /\ n \in Nat /\ starts \in SUBSET (i + 1..n)

\* The argument has a value for the flag.
Gives(set, a, flag) == Takes(set, a) /\ a.flags[Taker(set, a)] = flag

LastWith(set, args, i, starts, flag, d) ==
    LET old == Given(set, args, starts, flag)
        last == Last(set, args, {i} \cup starts, flag, d)
    IN  /\ old # {} => last = Last(set, args, starts, flag, d)
        /\ old = {} /\ Gives(set, args[i], flag) => last = Value(set, args, i)
        /\ old = {} /\ ~Gives(set, args[i], flag) => last = d

LEMMA LastOfMore ==
    ASSUME NEW set, NEW args, NEW i, NEW n, NEW starts, Follow(i, n, starts), NEW flag, NEW d
    PROVE  LastWith(set, args, i, starts, flag, d)
<1> DEFINE old == Given(set, args, starts, flag)
           new == Given(set, args, {i} \cup starts, flag)
           Holds == Gives(set, args[i], flag)
<1>0. i \in Nat /\ n \in Nat /\ starts \in SUBSET (i + 1..n)
  BY DEF Follow
<1>1. \A j : j \in new <=> j \in old \/ (j = i /\ Holds)
  BY DEF Given, Gives
<1>2. old \subseteq starts
  BY DEF Given
<1>3. Last(set, args, {i} \cup starts, flag, d)
        = IF new = {} THEN d ELSE Value(set, args, CHOOSE k \in new : \A j \in new : j <= k)
  BY Zenon DEF Last
<1>4. Last(set, args, starts, flag, d)
        = IF old = {} THEN d ELSE Value(set, args, CHOOSE k \in old : \A j \in old : j <= k)
  BY Zenon DEF Last
<1> HIDE DEF old, new, Holds
<1>5. CASE old # {}
  <2>1. old \in SUBSET (1..n)
    BY <1>0, <1>2
  <2>2. PICK k \in old : \A j \in old : j <= k
    BY <1>0, <1>5, <2>1, GreatestOf, Zenon
  <2>3. old \in SUBSET Int /\ new \in SUBSET Int
    <3>1. \A j \in 1..n : j \in Int
      BY <1>0
    <3>2. i \in Int
      BY <1>0
    <3>3. QED
      BY <1>1, <2>1, <3>1, <3>2, Zenon
  <2>4. k \in new /\ \A j \in new : j <= k
    <3>1. \A j \in starts : j \in i + 1..n
      BY <1>0
    <3>2. \A j \in i + 1..n : i <= j
      BY <1>0
    <3>3. i <= k
      BY <1>2, <2>2, <3>1, <3>2, Zenon
    <3>4. QED
      BY <1>1, <2>2, <3>3, Zenon
  <2>5. (CHOOSE m \in old : \A j \in old : j <= m) = k
    BY <2>2, <2>3, GreatestIs, Zenon
  <2>6. (CHOOSE m \in new : \A j \in new : j <= m) = k
    BY <2>3, <2>4, GreatestIs, Zenon
  <2>7. new # {}
    BY <2>4
  <2>8. QED
    BY <1>3, <1>4, <1>5, <2>5, <2>6, <2>7, Zenon DEF LastWith, old
<1>6. CASE old = {} /\ Holds
  <2>1. new \in SUBSET Int /\ i \in new /\ new # {} /\ \A j \in new : j <= i
    BY <1>0, <1>1, <1>6
  <2>2. (CHOOSE m \in new : \A j \in new : j <= m) = i
    BY <2>1, GreatestIs, Zenon
  <2>3. QED
    BY <1>3, <1>6, <2>1, <2>2, Zenon DEF LastWith, old, Holds
<1>7. CASE old = {} /\ ~Holds
  <2>1. new = {}
    BY <1>1, <1>7
  <2>2. QED
    BY <1>3, <1>7, <2>1, Zenon DEF LastWith, old, Holds
<1>8. QED
  BY <1>5, <1>6, <1>7

LEMMA AgreesOne ==
    ASSUME NEW set, set.plain \cap set.strings = {}, NEW args \in Seq(Argument),
           NEW i \in 1..Len(args), args[i].form \in {"long", "short"}, NEW taken,
           TakenAsRead(set, args[i], SubSeq(args, i + 1, Len(args)), taken),
           NEW starts \in SUBSET (i + 1..Len(args)), NEW S, NEW after \in Seq(S), NEW flag,
           Agrees(set, args, starts, after, flag)
    PROVE  Agrees(set, args, {i} \cup starts, taken.given \o after, flag)
<1> DEFINE a == args[i]
           next == SubSeq(args, i + 1, Len(args))
           v == ValueBefore(set, a, next)
           one == UpToTaker(set, a, v)
           T == (STRING \X {v, Empty}) \cup S
<1>1. a \in Argument /\ a.form \in {"long", "short"} /\ WellFormed(set, a) /\ taken.given = one
  BY DEF TakenAsRead
<1>2. Value(set, args, i) = v
  <2>1. Hungry(set, a) => next # <<>>
    BY DEF TakenAsRead
  <2>2. next # <<>> => next[1] = args[i + 1]
    OBVIOUS
  <2>3. QED
    BY <2>1, <2>2 DEF Value, ValueBefore
<1> HIDE DEF next, v
<1>3. InOrder(set, a, v, one)
  BY <1>1, GivenInOrder, Zenon
<1>4. AsGiven(set, a, v, one, flag)
  BY <1>1, GivenByOne, Zenon
<1> HIDE DEF one, a
<1>5. one \in Seq(STRING \X {v, Empty})
  BY <1>3 DEF InOrder
<1>6. one \in Seq(T) /\ after \in Seq(T)
  BY <1>5
<1> HIDE DEF T
<1>7. /\ Changed(one \o after, flag) <=> Changed(one, flag) \/ Changed(after, flag)
      /\ \A d :
           ValueOf(one \o after, flag, d)
             = IF Changed(after, flag) THEN ValueOf(after, flag, d) ELSE ValueOf(one, flag, d)
  BY <1>6, Concatenated, Zenon
<1> DEFINE all == {i} \cup starts
<1>9. Plain(set, args, all, flag)
        <=> (\E j \in 1..Taker(set, a) - 1 : a.flags[j] = flag) \/ Plain(set, args, starts, flag)
  BY DEF Plain, a
<1>10. Given(set, args, all, flag) # {}
         <=> (Takes(set, a) /\ a.flags[Taker(set, a)] = flag) \/ Given(set, args, starts, flag) # {}
  BY DEF Given, a
<1>11. \A d :
         /\ Given(set, args, starts, flag) # {} =>
              Last(set, args, all, flag, d) = Last(set, args, starts, flag, d)
         /\ Given(set, args, starts, flag) = {} /\ Gives(set, a, flag) =>
              Last(set, args, all, flag, d) = v
         /\ Given(set, args, starts, flag) = {} /\ ~Gives(set, a, flag) =>
              Last(set, args, all, flag, d) = d
  <2>1. Follow(i, Len(args), starts)
    BY DEF Follow
  <2>2. \A d : LastWith(set, args, i, starts, flag, d)
    BY <2>1, LastOfMore, Zenon
  <2>3. QED
    BY <1>2, <2>2, Zenon DEF LastWith, a
<1> HIDE DEF all
<1>12. flag \notin set.strings => (Changed(one \o after, flag) <=> Plain(set, args, all, flag))
  BY <1>4, <1>7, <1>9 DEF AsGiven, Agrees
<1>13. ASSUME flag \notin set.plain
       PROVE  /\ Changed(one \o after, flag) <=> Given(set, args, all, flag) # {}
              /\ \A d : ValueOf(one \o after, flag, d) = Last(set, args, all, flag, d)
  <2>1. /\ Changed(after, flag) <=> Given(set, args, starts, flag) # {}
        /\ \A d : ValueOf(after, flag, d) = Last(set, args, starts, flag, d)
        /\ Changed(one, flag) <=> Takes(set, a) /\ a.flags[Taker(set, a)] = flag
        /\ Changed(one, flag) => \A d : ValueOf(one, flag, d) = v
    BY <1>4, <1>13, Zenon DEF AsGiven, Agrees
  <2>2. \A d : ~Changed(one, flag) => ValueOf(one, flag, d) = d
    BY NotChanged, Zenon
  <2>3. Changed(one \o after, flag) <=> Given(set, args, all, flag) # {}
    BY <1>7, <1>10, <2>1, Zenon
  <2>4. \A d : ValueOf(one \o after, flag, d) = Last(set, args, all, flag, d)
    <3>1. SUFFICES ASSUME NEW d PROVE ValueOf(one \o after, flag, d) = Last(set, args, all, flag, d)
      OBVIOUS
    <3>2. ValueOf(one \o after, flag, d)
            = IF Changed(after, flag) THEN ValueOf(after, flag, d) ELSE ValueOf(one, flag, d)
      BY <1>7
    <3>3. CASE Changed(after, flag)
      BY <1>11, <2>1, <3>2, <3>3, Zenon
    <3>4. CASE ~Changed(after, flag) /\ Changed(one, flag)
      BY <1>11, <2>1, <3>2, <3>4, Zenon DEF Gives
    <3>5. CASE ~Changed(after, flag) /\ ~Changed(one, flag)
      BY <1>11, <2>1, <2>2, <3>2, <3>5, Zenon DEF Gives
    <3>6. QED
      BY <3>3, <3>4, <3>5
  <2>5. QED
    BY <2>3, <2>4
<1>14. QED
  BY <1>1, <1>12, <1>13, Zenon DEF Agrees, all

-----------------------------------------------------------------------------

\* "from" is what the arguments from each of them on come to.
Solves(set, args, from) ==
    \A i \in 1..Len(args) + 2 : from[i] = ParsedAt(set, args, from, i)

\* An argument with flags that are taken, and what comes after it.
GoesOn(set, args, from, i, taken) ==
    LET after == from[i + 1 + taken.used]
    IN  /\ taken.ok
        /\ from[i].ok = after.ok
        /\ from[i].given = taken.given \o after.given
        /\ from[i].rest = after.rest

LEMMA ParsedOn ==
    ASSUME NEW set, NEW args \in Seq(Argument), NEW from, Solves(set, args, from),
           NEW i \in 1..Len(args), args[i].form \notin {"word", "end"}
    PROVE  \/ ~from[i].ok /\ from[i].given = <<>>
           \/ GoesOn(set, args, from, i, TakenAt(set, args, i))
<1>1. i \in 1..Len(args) + 2 /\ ~(i > Len(args))
  OBVIOUS
<1>2. from[i] = ParsedAt(set, args, from, i)
  BY <1>1 DEF Solves
<1> DEFINE taken == TakenAt(set, args, i)
           after == from[i + 1 + taken.used]
<1>3. CASE taken.ok
  <2> DEFINE on == [ok |-> after.ok, given |-> taken.given \o after.given, rest |-> after.rest]
             off == [ok |-> FALSE, given |-> <<>>, rest |-> <<>>]
  <2>1. args[i].form # "word" /\ args[i].form # "end"
    OBVIOUS
  <2>2. ParsedAt(set, args, from, i) = IF taken.ok THEN on ELSE off
    BY <1>1, <2>1 DEF ParsedAt
  <2> HIDE DEF on, off
  <2>3. from[i] = on
    BY <1>2, <1>3, <2>2, Zenon
  <2> HIDE DEF after, taken
  <2>4. on.ok = after.ok /\ on.given = taken.given \o after.given /\ on.rest = after.rest
    BY DEF on
  <2>5. QED
    BY <1>3, <2>3, <2>4, Zenon DEF GoesOn, after, taken
<1>4. CASE ~taken.ok
  <2>1. from[i] = [ok |-> FALSE, given |-> <<>>, rest |-> <<>>]
    BY <1>1, <1>2, <1>4, Zenon DEF ParsedAt
  <2>2. QED
    BY <2>1
<1>5. QED
  BY <1>3, <1>4

StopsAt(args, from, i) ==
    /\ from[i].ok /\ from[i].given = <<>>
    /\ i <= Len(args) /\ args[i].form = "word" => from[i].rest = SubSeq(args, i, Len(args))
    /\ i <= Len(args) /\ args[i].form = "end" => from[i].rest = SubSeq(args, i + 1, Len(args))

LEMMA ParsedNoFlags ==
    ASSUME NEW set, NEW args \in Seq(Argument), NEW from, Solves(set, args, from),
           NEW i \in 1..Len(args) + 2, i > Len(args) \/ args[i].form \in {"word", "end"}
    PROVE  StopsAt(args, from, i)
<1> USE DEF StopsAt
<1>1. from[i] = ParsedAt(set, args, from, i)
  BY DEF Solves
<1>2. CASE i > Len(args)
  <2>1. from[i] = [ok |-> TRUE, given |-> <<>>, rest |-> <<>>]
    BY <1>1, <1>2, Zenon DEF ParsedAt
  <2>2. ~(i <= Len(args))
    BY <1>2
  <2>3. QED
    BY <2>1, <2>2
<1>3. CASE ~(i > Len(args)) /\ args[i].form = "word"
  <2>1. from[i] = [ok |-> TRUE, given |-> <<>>, rest |-> SubSeq(args, i, Len(args))]
    BY <1>1, <1>3, Zenon DEF ParsedAt
  <2>2. QED
    BY <1>3, <2>1
<1>4. CASE ~(i > Len(args)) /\ args[i].form = "end"
  <2>1. args[i].form # "word"
    BY <1>4
  <2>2. from[i] = [ok |-> TRUE, given |-> <<>>, rest |-> SubSeq(args, i + 1, Len(args))]
    BY <1>1, <1>4, <2>1, Zenon DEF ParsedAt
  <2>3. QED
    BY <1>4, <2>2
<1>5. QED
  BY <1>2, <1>3, <1>4

LEMMA GivenIsSeq ==
    ASSUME NEW set, set.plain \cap set.strings = {}, NEW args \in Seq(Argument), NEW from,
           Solves(set, args, from)
    PROVE  \A i \in 1..Len(args) + 2 : \E S : from[i].given \in Seq(S)
<1> DEFINE n == Len(args) + 2
           IsSeq(i) == \E S : from[i].given \in Seq(S)
           Others == {i \in 1..n : ~IsSeq(i)}
<1>1. n \in Nat
  OBVIOUS
<1>2. SUFFICES ASSUME Others # {} PROVE FALSE
  BY Zenon
<1>3. PICK i \in Others : \A k \in Others : k <= i
  BY <1>1, <1>2, GreatestOf, Zenon
<1>4. i \in 1..n /\ ~IsSeq(i)
  BY <1>3
<1>5. <<>> \in Seq({})
  OBVIOUS
<1>6. from[i].given # <<>>
  BY <1>4, <1>5, Zenon
<1>7. i \in 1..Len(args) /\ args[i].form \notin {"word", "end"}
  <2>1. ~(i > Len(args) \/ args[i].form \in {"word", "end"})
    BY <1>4, <1>6, ParsedNoFlags, Zenon DEF StopsAt
  <2>2. QED
    BY <1>1, <1>4, <2>1
<1> DEFINE taken == TakenAt(set, args, i)
           k == i + 1 + taken.used
<1>8. taken.ok /\ from[i].given = taken.given \o from[k].given
  <2>1. GoesOn(set, args, from, i, taken)
    BY <1>6, <1>7, ParsedOn, Zenon
  <2>2. QED
    BY <2>1, Zenon DEF GoesOn
<1>9. k \in 1..n /\ k > i
  <2>1. taken.used \in {0, 1}
    BY <1>7, <1>8, TakenUsed
  <2> HIDE DEF taken
  <2>2. QED
    BY <1>7, <2>1
<1>10. PICK S : from[k].given \in Seq(S)
  <2>1. k \notin Others
    BY <1>3, <1>4, <1>9
  <2>2. QED
    BY <1>9, <2>1, Zenon
<1>11. \E T : taken.given \in Seq(T)
  <2> DEFINE a == args[i]
             v == ValueBefore(set, a, SubSeq(args, i + 1, Len(args)))
  <2>1. a \in Argument /\ a.form \in {"long", "short"} /\ taken.given = UpToTaker(set, a, v)
    BY <1>7, <1>8, TakenAtAsRead, Zenon DEF TakenAsRead
  <2>2. InOrder(set, a, v, UpToTaker(set, a, v))
    BY <2>1, GivenInOrder, Zenon
  <2>3. QED
    BY <2>1, <2>2, Zenon DEF InOrder
<1>12. PICK T : taken.given \in Seq(T)
  BY <1>11
<1> HIDE DEF taken, k
<1>13. taken.given \in Seq(S \cup T) /\ from[k].given \in Seq(S \cup T)
  BY <1>10, <1>12
<1>14. taken.given \o from[k].given \in Seq(S \cup T)
  BY <1>13
<1>15. QED
  BY <1>4, <1>8, <1>14, Zenon

LEMMA RestNotEmpty ==
    ASSUME NEW S, NEW s \in Seq(S), NEW i \in 1..Len(s)
    PROVE  SubSeq(s, i, Len(s)) # <<>>
<1>1. Len(SubSeq(s, i, Len(s))) > 0
  OBVIOUS
<1>2. Len(<<>>) = 0 /\ ~(0 > 0)
  OBVIOUS
<1>3. QED
  BY <1>1, <1>2, Zenon

LEMMA AgreesNone == ASSUME NEW set, NEW args, NEW flag PROVE Agrees(set, args, {}, <<>>, flag)
<1>1. ~Changed(<<>>, flag)
  BY DEF Changed
<1>2. \A d : ValueOf(<<>>, flag, d) = d
  BY <1>1, NotChanged, Zenon
<1>3. ~Plain(set, args, {}, flag) /\ Given(set, args, {}, flag) = {}
  BY DEF Plain, Given
<1>4. \A d : Last(set, args, {}, flag, d) = d
  BY <1>3, Zenon DEF Last
<1>5. QED
  BY <1>1, <1>2, <1>3, <1>4, Zenon DEF Agrees

\* The arguments from the i-th on read as they were parsed.
ReadAs(set, args, i, end, starts, given) ==
    /\ end \in {Len(args) - 1, Len(args)}
    /\ end < Len(args) => i <= Len(args) /\ args[Len(args)].form = "end"
    /\ ReadsFrom(set, args, i, end, starts)
    /\ \A flag : Agrees(set, args, starts, given, flag)

LEMMA ReadBackwards ==
    ASSUME NEW set, set.plain \cap set.strings = {}, NEW args \in Seq(Argument), NEW from,
           Solves(set, args, from)
    PROVE  \A i \in 1..Len(args) + 2 :
             from[i].ok /\ from[i].rest = <<>> =>
               \E end, starts : ReadAs(set, args, i, end, starts, from[i].given)
<1> DEFINE n == Len(args) + 2
           Read(i) == from[i].ok /\ from[i].rest = <<>> =>
                        \E end, starts : ReadAs(set, args, i, end, starts, from[i].given)
           Others == {i \in 1..n : ~Read(i)}
<1>1. n \in Nat /\ Len(args) \in Nat
  OBVIOUS
<1> HIDE DEF Read
<1>2. SUFFICES ASSUME Others # {} PROVE FALSE
  BY Zenon DEF Read
<1>3. PICK i \in Others : \A k \in Others : k <= i
  BY <1>1, <1>2, GreatestOf, Zenon
<1>4. i \in 1..n /\ ~Read(i)
  BY <1>3
<1>5. from[i].ok /\ from[i].rest = <<>> /\ ~\E end, starts : ReadAs(set, args, i, end, starts, from[i].given)
  BY <1>4, Zenon DEF Read
<1>6. CASE i > Len(args) \/ args[i].form \in {"word", "end"}
  <2>1. /\ from[i].given = <<>>
        /\ i <= Len(args) /\ args[i].form = "word" => from[i].rest = SubSeq(args, i, Len(args))
        /\ i <= Len(args) /\ args[i].form = "end" => from[i].rest = SubSeq(args, i + 1, Len(args))
    <3>1. StopsAt(args, from, i)
      BY <1>4, <1>6, ParsedNoFlags, Zenon
    <3>2. QED
      BY <3>1, Zenon DEF StopsAt
  <2>2. \A flag : Agrees(set, args, {}, from[i].given, flag)
    BY <2>1, AgreesNone, Zenon
  <2>3. CASE i > Len(args)
    <3>1. ReadsFrom(set, args, i, Len(args), {})
      BY <1>1, <1>4, <2>3 DEF ReadsFrom
    <3>2. ReadAs(set, args, i, Len(args), {}, from[i].given)
      BY <1>1, <2>2, <3>1 DEF ReadAs
    <3>3. QED
      BY <1>5, <3>2, Zenon
  <2>4. CASE i <= Len(args) /\ args[i].form = "word"
    <3>1. SubSeq(args, i, Len(args)) # <<>>
      <4>1. i \in 1..Len(args)
        BY <1>1, <1>4, <2>4
      <4>2. QED
        BY <4>1, RestNotEmpty, Zenon
    <3>2. QED
      BY <1>5, <2>1, <2>4, <3>1
  <2>5. CASE i <= Len(args) /\ args[i].form = "end"
    <3>1. i = Len(args)
      <4>1. i \in 1..Len(args)
        BY <1>1, <1>4, <2>5
      <4>2. SubSeq(args, i + 1, Len(args)) = <<>>
        BY <1>5, <2>1, <2>5, Zenon
      <4>3. i < Len(args) => i + 1 \in 1..Len(args)
        BY <4>1
      <4>4. ~(i < Len(args))
        BY <4>2, <4>3, RestNotEmpty, Zenon
      <4>5. QED
        BY <4>1, <4>4
    <3>2. ReadsFrom(set, args, i, Len(args) - 1, {})
      BY <1>1, <3>1 DEF ReadsFrom
    <3>3. ReadAs(set, args, i, Len(args) - 1, {}, from[i].given)
      BY <1>1, <2>2, <2>5, <3>1, <3>2 DEF ReadAs
    <3>4. QED
      BY <1>5, <3>3, Zenon
  <2>6. QED
    BY <1>1, <1>4, <1>6, <2>3, <2>4, <2>5
<1>7. CASE i <= Len(args) /\ args[i].form \notin {"word", "end"}
  <2> DEFINE taken == TakenAt(set, args, i)
             next == SubSeq(args, i + 1, Len(args))
             k == i + 1 + taken.used
             after == from[k].given
  <2>1. i \in 1..Len(args)
    BY <1>1, <1>4, <1>7
  <2>2. GoesOn(set, args, from, i, taken)
    BY <1>5, <1>7, <2>1, ParsedOn, Zenon
  <2>3. /\ taken.ok /\ from[k].ok /\ from[k].rest = <<>>
        /\ from[i].given = taken.given \o after
    BY <1>5, <2>2, Zenon DEF GoesOn
  <2>4. args[i] \in Argument /\ args[i].form \in {"long", "short"} /\ TakenAsRead(set, args[i], next, taken)
    BY <1>7, <2>1, <2>3, TakenAtAsRead, Zenon
  <2>5. /\ WellFormed(set, args[i])
        /\ taken.used = IF Hungry(set, args[i]) THEN 1 ELSE 0
        /\ Hungry(set, args[i]) => next # <<>>
    BY <2>4, Zenon DEF TakenAsRead
  <2>6. taken.used \in {0, 1} /\ (taken.used = 1 => i + 1 <= Len(args))
    <3>1. next # <<>> => i + 1 <= Len(args)
      BY <2>1
    <3> HIDE DEF next, taken
    <3>2. QED
      BY <2>5, <3>1
  <2>7. k \in 1..n /\ k > i
    <3> HIDE DEF taken
    <3>1. QED
      BY <2>1, <2>6
  <2>8. PICK end, starts : ReadAs(set, args, k, end, starts, after)
    <3>1. k \notin Others
      BY <1>3, <1>4, <2>7
    <3>2. Read(k)
      BY <2>7, <3>1
    <3>3. QED
      BY <2>3, <3>2, Zenon DEF Read
  <2>9. PICK S : after \in Seq(S)
    BY <2>7, GivenIsSeq, Zenon
  <2> HIDE DEF taken, next, after, k
  <2>10. end \in Int /\ end <= Len(args) /\ ReadsFrom(set, args, k, end, starts) /\ i + taken.used <= end
    <3>1. end < Len(args) => k <= Len(args)
      BY <2>8, Zenon DEF ReadAs
    <3>2. end \in {Len(args) - 1, Len(args)} /\ ReadsFrom(set, args, k, end, starts)
      BY <2>8, Zenon DEF ReadAs
    <3>3. QED
      BY <1>1, <2>1, <2>6, <3>1, <3>2 DEF k
  <2>11. ReadsFrom(set, args, i, end, {i} \cup starts)
    <3>1. i \in Nat
      BY <2>1
    <3>2. QED
      BY <2>5, <2>10, <3>1, ReadsOne, Zenon DEF k
  <2>12. starts \in SUBSET (i + 1..Len(args))
    <3>1. starts \subseteq k..end
      BY <2>10, Zenon DEF ReadsFrom
    <3>2. \A j \in k..end : j \in i + 1..Len(args)
      BY <1>1, <2>1, <2>6, <2>10 DEF k
    <3>3. QED
      BY <3>1, <3>2, Zenon
  <2>13. ASSUME NEW flag PROVE Agrees(set, args, {i} \cup starts, from[i].given, flag)
    <3>1. Agrees(set, args, starts, after, flag)
      BY <2>8, Zenon DEF ReadAs
    <3>2. Agrees(set, args, {i} \cup starts, taken.given \o after, flag)
      BY <2>1, <2>4, <2>9, <2>12, <3>1, AgreesOne DEF next
    <3>3. QED
      BY <2>3, <3>2, Zenon
  <2>14. end < Len(args) => i <= Len(args) /\ args[Len(args)].form = "end"
    BY <1>7, <2>8, Zenon DEF ReadAs
  <2>15. ReadAs(set, args, i, end, {i} \cup starts, from[i].given)
    BY <2>8, <2>11, <2>13, <2>14, Zenon DEF ReadAs
  <2>16. QED
    BY <1>5, <2>15, Zenon
<1>8. QED
  BY <1>1, <1>4, <1>6, <1>7

-----------------------------------------------------------------------------

\* The sets of flags keep those that take a value from those that take none.
LEMMA SetFacts ==
    ASSUME NEW c \in CommandName
    PROVE  /\ SetOf(c).plain \cap SetOf(c).strings = {}
           /\ {"j", "h", "N", "K"} \cap SetOf(c).strings = {}
           /\ {"k", "t", "a", "f", "n", "s"} \cap SetOf(c).plain = {}
           /\ c \in {"verify", "check"} => "f" \in SetOf(c).required
           /\ "N" \in SetOf(c).plain /\ "n" \in SetOf(c).strings => {"n", "N"} \in SetOf(c).exclusive
           /\ "K" \in SetOf(c).plain /\ "k" \in SetOf(c).strings => {"k", "K"} \in SetOf(c).exclusive
<1>1. CASE c = "inspect"
  BY <1>1 DEF SetOf, Set, Common
<1>2. CASE c = "sign"
  BY <1>2 DEF SetOf, Set, Common
<1>3. CASE c = "verify"
  BY <1>3 DEF SetOf, Set, Common
<1>4. CASE c = "check"
  BY <1>4 DEF SetOf, Set, Common
<1>5. CASE c = "version"
  BY <1>5 DEF SetOf, Set, Common
<1>6. QED
  BY <1>1, <1>2, <1>3, <1>4, <1>5 DEF CommandName

\* What is parsed to the end is read from the first argument on.
LEMMA ReadFromFirst ==
    ASSUME NEW set, set.plain \cap set.strings = {}, NEW args \in Seq(Argument),
           ParseFlags(set, args).ok, ParseFlags(set, args).rest = <<>>
    PROVE  \E end, starts : ReadAs(set, args, 1, end, starts, ParseFlags(set, args).given)
<1> DEFINE from == ParsedFrom(set, args)
<1>1. ParseFlags(set, args) = from[1] /\ Solves(set, args, from)
  BY ParsedFromFacts, Zenon DEF Solves
<1>2. 1 \in 1..Len(args) + 2
  OBVIOUS
<1> HIDE DEF from
<1>3. QED
  BY <1>1, <1>2, ReadBackwards, Zenon

\* Before the name of a command stands nothing but "--".
LEMMA NameFirst ==
    ASSUME NEW args \in Seq(Argument), ParseCommand(args) = "valid"
    PROVE  /\ NameAt(args) \in 1..Len(args)
           /\ ParseFlags(Root, args).rest = SubSeq(args, NameAt(args), Len(args))
           /\ IsCommand(ParseFlags(Root, args).rest)
<1> DEFINE from == ParsedFrom(Root, args)
           rest == ParseFlags(Root, args).rest
<1>1. Root.plain = {"h"} /\ Root.strings = {} /\ Root.plain \cap Root.strings = {}
  BY DEF Root, Set
<1>2. ParseFlags(Root, args) = from[1] /\ Solves(Root, args, from)
  BY <1>1, ParsedFromFacts, Zenon DEF Solves
<1>3. /\ args # <<>> /\ from[1].ok /\ ~Changed(from[1].given, "h") /\ IsCommand(from[1].rest)
      /\ rest = from[1].rest
  <2>1. args # <<>> /\ ParseFlags(Root, args).ok
    BY DEF ParseCommand
  <2>2. ~Changed(ParseFlags(Root, args).given, "h") /\ IsCommand(ParseFlags(Root, args).rest)
    BY <2>1 DEF ParseCommand
  <2>3. QED
    BY <1>2, <2>1, <2>2, Zenon
<1>4. Len(args) \in Nat \ {0} /\ 1 \in 1..Len(args) /\ 1 \in 1..Len(args) + 2
  BY <1>3
<1> HIDE DEF from
<1>5. CASE args[1].form \notin {"word", "end"}
  <2> DEFINE taken == TakenAt(Root, args, 1)
             a == args[1]
             k == 1 + 1 + taken.used
  <2>1. GoesOn(Root, args, from, 1, taken)
    BY <1>2, <1>3, <1>4, <1>5, ParsedOn, Zenon
  <2>2. taken.ok /\ from[1].given = taken.given \o from[k].given
    BY <2>1, Zenon DEF GoesOn
  <2>3. /\ a \in Argument /\ a.form \in {"long", "short"}
        /\ TakenAsRead(Root, a, SubSeq(args, 2, Len(args)), taken)
    <3>1. 1 + 1 = 2
      OBVIOUS
    <3>2. QED
      BY <1>1, <1>4, <1>5, <2>2, <3>1, TakenAtAsRead, Zenon
  <2> DEFINE v == ValueBefore(Root, a, SubSeq(args, 2, Len(args)))
             one == UpToTaker(Root, a, v)
  <2>4. WellFormed(Root, a) /\ taken.given = one /\ taken.used = IF Hungry(Root, a) THEN 1 ELSE 0
    BY <2>3, Zenon DEF TakenAsRead
  <2>5. InOrder(Root, a, v, one) /\ AsGiven(Root, a, v, one, "h")
    BY <1>1, <2>3, <2>4, GivenInOrder, GivenByOne, Zenon
  <2>6. k \in 1..Len(args) + 2
    <3>1. taken.used \in {0, 1}
      BY <2>4
    <3> HIDE DEF taken
    <3>2. QED
      BY <1>4, <3>1
  <2>7. PICK S : from[k].given \in Seq(S)
    BY <1>1, <1>2, <2>6, GivenIsSeq, Zenon
  <2>8. Changed(one, "h")
    <3>1. Taker(Root, a) > 1
      BY <1>1, <2>3, TakerFacts, FlagsOf
    <3>2. a.flags[1] = "h"
      BY <1>1, <2>3, <2>4, <3>1, TakerFacts, FlagsOf DEF WellFormed
    <3>3. 1 \in 1..Taker(Root, a) - 1
      BY <2>3, <3>1, TakerFacts, FlagsOf
    <3>4. "h" \notin Root.strings
      BY <1>1
    <3>5. QED
      BY <2>5, <3>2, <3>3, <3>4, Zenon DEF AsGiven
  <2> HIDE DEF one, k, taken
  <2> DEFINE T == (STRING \X {v, Empty}) \cup S
             after == from[k].given
  <2>9. one \in Seq(T) /\ after \in Seq(T)
    BY <2>5, <2>7 DEF InOrder
  <2> HIDE DEF T, after
  <2>10. \A flag : Changed(one \o after, flag) <=> Changed(one, flag) \/ Changed(after, flag)
    BY <2>9, Concatenated, Zenon
  <2>11. Changed(one \o after, "h")
    BY <2>8, <2>10, Zenon
  <2>12. QED
    BY <1>3, <2>2, <2>4, <2>11, Zenon DEF one, taken, after
<1>6. CASE args[1].form = "word"
  <2>1. StopsAt(args, from, 1)
    BY <1>2, <1>4, <1>6, ParsedNoFlags
  <2>2. rest = SubSeq(args, 1, Len(args))
    BY <1>3, <1>4, <1>6, <2>1 DEF StopsAt
  <2>3. NameAt(args) = 1
    BY <1>6 DEF NameAt
  <2>4. QED
    BY <1>3, <1>4, <2>2, <2>3
<1>7. CASE args[1].form = "end"
  <2>1. StopsAt(args, from, 1)
    BY <1>2, <1>4, <1>7, ParsedNoFlags
  <2>2. rest = SubSeq(args, 2, Len(args))
    BY <1>3, <1>4, <1>7, <2>1 DEF StopsAt
  <2>3. NameAt(args) = 2
    BY <1>7 DEF NameAt
  <2>4. 2 <= Len(args)
    <3>1. SubSeq(args, 2, Len(args)) # <<>>
      BY <1>3, <2>2, Zenon DEF IsCommand
    <3>2. ~(2 <= Len(args)) => SubSeq(args, 2, Len(args)) = <<>>
      BY <1>4
    <3>3. QED
      BY <3>1, <3>2
  <2>5. QED
    BY <1>3, <1>4, <2>2, <2>3, <2>4
<1>8. QED
  BY <1>5, <1>6, <1>7

\* Flags that exclude each other were not both given.
LEMMA NotBoth ==
    ASSUME NEW set, NEW given, NEW a, NEW b, a # b, {a, b} \in set.exclusive, Validate(set, given)
    PROVE  ~(Changed(given, a) /\ Changed(given, b))
<1>1. \A x, y \in {a, b} : Changed(given, x) /\ Changed(given, y) => x = y
  BY Zenon DEF Validate
<1>2. QED
  BY <1>1, Zenon

\* Flags that read well are those of the set.
LEMMA KnownFlags ==
    ASSUME NEW set, NEW args, NEW starts, NEW flag,
           \A i \in starts : args[i] \in Argument /\ WellFormed(set, args[i])
    PROVE  /\ Plain(set, args, starts, flag) => flag \in set.plain
           /\ Given(set, args, starts, flag) # {} => flag \in set.strings
<1>1. ASSUME NEW i \in starts, NEW k \in 1..Taker(set, args[i]) - 1, args[i].flags[k] = flag
      PROVE  flag \in set.plain
  <2> DEFINE a == args[i]
             first == Taker(set, a)
             n == Len(a.flags)
  <2>1. a \in Argument /\ WellFormed(set, a) /\ a.form \in {"long", "short"}
    BY DEF WellFormed
  <2>2. n \in Nat
    BY <2>1, FlagsOf
  <2>3. /\ first \in 1..n + 1
        /\ \A j \in 1..first - 1 : a.flags[j] \notin set.strings
    BY <2>1, TakerFacts
  <2>4. \A j \in 1..first : j <= n => a.flags[j] \in set.strings \cup set.plain
    BY <2>1 DEF WellFormed
  <2> HIDE DEF first, n
  <2>5. k \in 1..first /\ k <= n /\ k \in 1..first - 1
    BY <1>1, <2>2, <2>3 DEF first
  <2> HIDE DEF a
  <2>6. QED
    BY <1>1, <2>3, <2>4, <2>5 DEF a
<1>2. ASSUME NEW i \in Given(set, args, starts, flag)
      PROVE  flag \in set.strings
  <2>1. i \in starts /\ Takes(set, args[i]) /\ args[i].flags[Taker(set, args[i])] = flag
    BY DEF Given
  <2>2. args[i] \in Argument /\ args[i].form \in {"long", "short"}
    BY <2>1 DEF WellFormed
  <2>3. QED
    BY <2>1, <2>2, TakerFacts, Zenon DEF Takes
<1>3. QED
  BY <1>1, <1>2, Zenon DEF Plain

\* What is read from standard input.
LEMMA Stdin ==
    ASSUME NEW c \in CommandName, NEW given
    PROVE  /\ "data" \in FromStdin(c, given) <=> c = "sign" /\ ~Changed(given, "f")
           /\ "signature" \in FromStdin(c, given) =>
                ~Changed(given, "s") /\ c # "sign" /\ (c = "inspect" \/ ~terminal)
<1>1. CASE c = "sign"
  BY <1>1 DEF FromStdin
<1>2. CASE c = "inspect"
  BY <1>2 DEF FromStdin
<1>3. CASE c \in {"verify", "check"}
  BY <1>3 DEF FromStdin
<1>4. CASE c = "version"
  BY <1>4 DEF FromStdin
<1>5. QED
  BY <1>1, <1>2, <1>3, <1>4 DEF CommandName

\* The request is the one that was written.
LEMMA RequestWritten ==
    ASSUME NEW c \in CommandName, NEW args, NEW starts, NEW given,
           \A i \in starts : args[i] \in Argument /\ WellFormed(SetOf(c), args[i]),
           \A flag : Agrees(SetOf(c), args, starts, given, flag),
           ~Changed(given, "h"), Validate(SetOf(c), given),
           request' = RequestOf(c, given), terminal' = terminal
    PROVE  Written(args, starts)'
<1> DEFINE set == SetOf(c)
           IsPlain(flag) == Plain(set, args, starts, flag)
           IsGiven(flag) == Given(set, args, starts, flag) # {}
           LastOf(flag, d) == Last(set, args, starts, flag, d)
           Asked == RequestOf(c, given)
<1>1. \A flag \in {"j", "h", "N", "K"} : Changed(given, flag) = IsPlain(flag)
  <2>1. \A flag \in {"j", "h", "N", "K"} : flag \notin set.strings
    BY SetFacts
  <2>2. \A flag : Changed(given, flag) \in BOOLEAN /\ IsPlain(flag) \in BOOLEAN
    BY DEF Changed, Plain
  <2>3. TAKE flag \in {"j", "h", "N", "K"}
  <2>4. Agrees(set, args, starts, given, flag)
    OBVIOUS
  <2>5. Changed(given, flag) <=> IsPlain(flag)
    BY <2>1, <2>4, Zenon DEF Agrees
  <2>6. QED
    BY <2>2, <2>5, Zenon
<1>2. \A flag \in {"k", "t", "a", "f", "n", "s"} :
        /\ Changed(given, flag) <=> IsGiven(flag)
        /\ \A d : ValueOf(given, flag, d) = LastOf(flag, d)
  <2>1. \A flag \in {"k", "t", "a", "f", "n", "s"} : flag \notin set.plain
    BY SetFacts
  <2>2. TAKE flag \in {"k", "t", "a", "f", "n", "s"}
  <2>3. Agrees(set, args, starts, given, flag)
    OBVIOUS
  <2>4. QED
    BY <2>1, <2>3, Zenon DEF Agrees
<1>3. c \in {"verify", "check"} => Changed(given, "f")
  BY SetFacts, Zenon DEF Validate
<1>4. /\ "N" \in set.plain /\ "n" \in set.strings => ~(Changed(given, "n") /\ Changed(given, "N"))
      /\ "K" \in set.plain /\ "k" \in set.strings => ~(Changed(given, "k") /\ Changed(given, "K"))
  <2>1. "n" # "N" /\ "k" # "K"
    OBVIOUS
  <2>2. QED
    BY <2>1, SetFacts, NotBoth, Zenon
<1>5. ~(IsGiven("n") /\ IsPlain("N")) /\ ~(IsGiven("k") /\ IsPlain("K"))
  <2>1. \A flag : (IsPlain(flag) => flag \in set.plain) /\ (IsGiven(flag) => flag \in set.strings)
    BY KnownFlags, Zenon
  <2> HIDE DEF set, IsPlain, IsGiven
  <2>2. QED
    BY <1>1, <1>2, <1>4, <2>1
<1>6. /\ Asked.command = c /\ Asked.json = Changed(given, "j")
      /\ Asked.noNamespace = Changed(given, "N") /\ Asked.noKey = Changed(given, "K")
      /\ Asked.timestamp = IF ~Changed(given, "t") THEN "none"
                           ELSE IF ValueOf(given, "t", "") = "time" THEN "good" ELSE "bad"
      /\ Asked.namespace = (ValueOf(given, "n", IF c = "verify" THEN "" ELSE "file") # "")
      /\ Asked.key = KeyOf(ValueOf(given, "k", ""))
      /\ Asked.signers = IF Changed(given, "a") THEN "file" ELSE "default"
      /\ Asked.stdin = FromStdin(c, given)
  BY DEF RequestOf
<1> HIDE DEF Asked
<1>7. request' = Asked /\ command' = c
  BY <1>6 DEF command, Asked
<1>8. ~IsGiven("t") => LastOf("t", "") = ""
  BY DEF Last
<1> HIDE DEF set, IsPlain, IsGiven, LastOf
<1>9. /\ Asked.json = IsPlain("j") /\ ~IsPlain("h")
      /\ Asked.noNamespace = IsPlain("N") /\ Asked.noKey = IsPlain("K")
  BY <1>1, <1>6, Zenon
<1>10. /\ Asked.timestamp = "none" <=> ~IsGiven("t")
       /\ Asked.timestamp = "good" <=> LastOf("t", "") = "time"
       /\ Asked.signers = "file" <=> IsGiven("a")
       /\ c \in {"verify", "check"} => IsGiven("f")
  BY <1>2, <1>3, <1>6, <1>8
<1>11. /\ Asked.key = KeyOf(LastOf("k", ""))
       /\ Asked.namespace = (LastOf("n", IF c = "verify" THEN "" ELSE "file") # "")
  BY <1>2, <1>6
<1>12. /\ "data" \in Asked.stdin <=> c = "sign" /\ ~IsGiven("f")
       /\ "signature" \in Asked.stdin =>
            ~IsGiven("s") /\ c # "sign" /\ (c = "inspect" \/ ~terminal')
  <2>1. /\ Changed(given, "f") <=> IsGiven("f")
        /\ Changed(given, "s") <=> IsGiven("s")
    BY <1>2
  <2>2. /\ "data" \in FromStdin(c, given) <=> c = "sign" /\ ~Changed(given, "f")
        /\ "signature" \in FromStdin(c, given) =>
             ~Changed(given, "s") /\ c # "sign" /\ (c = "inspect" \/ ~terminal)
    BY Stdin
  <2>3. Asked.stdin = FromStdin(c, given)
    BY <1>6
  <2>4. QED
    BY <2>1, <2>2, <2>3
<1>13. QED
  BY <1>5, <1>7, <1>9, <1>10, <1>11, <1>12, Zenon DEF Written, set, IsPlain, IsGiven, LastOf

-----------------------------------------------------------------------------

\* The command line is one, and the name in it that of the command once it is known.
Named ==
    /\ argv \in Seq(Argument)
    /\ pc = "arguments" =>
         ParseCommand(argv) = "valid" /\ command = ParseFlags(Root, argv).rest[1].text


LEMMA Kept ==
    ASSUME RanAsWritten, UNCHANGED <<argv, terminal, request>>,
           pc' \in {"flags", "inputs", "flow"} => pc \in {"flags", "inputs", "flow"}
    PROVE  RanAsWritten'
<1> SUFFICES ASSUME pc \in {"flags", "inputs", "flow"}
             PROVE  RanAsWritten'
  BY DEF RanAsWritten
<1> DEFINE args == SubSeq(argv, NameAt(argv) + 1, Len(argv))
<1>1. /\ argv[NameAt(argv)].form = "word" /\ argv[NameAt(argv)].text = command
      /\ \E ended \in {0, 1} : \E starts \in SUBSET (1..Len(args) - ended) :
               /\ ended = 1 => args[Len(args)].form = "end"
               /\ Reads(SetOf(command), args, Len(args) - ended, starts)
               /\ Written(args, starts)
  BY DEF RanAsWritten
<1>0. PICK ended \in {0, 1} :
             \E starts \in SUBSET (1..Len(args) - ended) :
               /\ ended = 1 => args[Len(args)].form = "end"
               /\ Reads(SetOf(command), args, Len(args) - ended, starts)
               /\ Written(args, starts)
  BY <1>1
<1>2. PICK starts \in SUBSET (1..Len(args) - ended) :
               /\ ended = 1 => args[Len(args)].form = "end"
               /\ Reads(SetOf(command), args, Len(args) - ended, starts)
               /\ Written(args, starts)
  BY <1>0
<1>3. args' = args /\ command' = command /\ NameAt(argv)' = NameAt(argv)
  BY DEF command, NameAt
<1>4. Written(args, starts)'
  <2> DEFINE now == args
  <2>0. args' = args
    BY <1>3
  <2> HIDE DEF args
  <2>1. QED
    BY <1>2, <1>3, <2>0 DEF Written
<1>5. /\ ended = 1 => args'[Len(args')].form = "end"
      /\ Reads(SetOf(command'), args', Len(args') - ended, starts)
      /\ starts \in SUBSET (1..Len(args') - ended)
  BY <1>2, <1>3
<1>6. argv'[NameAt(argv')].form = "word" /\ argv'[NameAt(argv')].text = command'
  BY <1>1, <1>3
<1> HIDE DEF args
<1>7. QED
  BY <1>4, <1>5, <1>6, Zenon DEF RanAsWritten, args

LEMMA TailOfRest ==
    ASSUME NEW S, NEW s \in Seq(S), NEW i \in 1..Len(s)
    PROVE  /\ Tail(SubSeq(s, i, Len(s))) = SubSeq(s, i + 1, Len(s))
           /\ SubSeq(s, i + 1, Len(s)) \in Seq(S)
           /\ SubSeq(s, i, Len(s))[1] = s[i]
<1>1. Len(s) \in Nat /\ i + 1 \in Nat
  OBVIOUS
<1>2. Len(SubSeq(s, i, Len(s))) = Len(s) - i + 1 /\ SubSeq(s, i, Len(s)) \in Seq(S)
  OBVIOUS
<1>3. Tail(SubSeq(s, i, Len(s))) = SubSeq(s, i + 1, Len(s))
  OBVIOUS
<1>4. SubSeq(s, i + 1, Len(s)) \in Seq(S)
  OBVIOUS
<1>5. SubSeq(s, i, Len(s))[1] = s[i]
  OBVIOUS
<1>6. QED
  BY <1>3, <1>4, <1>5

\* All arguments that follow the name read as they are parsed.
LEMMA ReadWhole ==
    ASSUME NEW set, set.plain \cap set.strings = {}, NEW args \in Seq(Argument),
           Parse(set, args) = "valid"
    PROVE  \E ended \in {0, 1} : \E starts \in SUBSET (1..Len(args) - ended) :
             /\ ended = 1 => args[Len(args)].form = "end"
             /\ Reads(set, args, Len(args) - ended, starts)
             /\ \A flag : Agrees(set, args, starts, ParseFlags(set, args).given, flag)
<1> DEFINE given == ParseFlags(set, args).given
<1>1. ParseFlags(set, args).ok /\ ParseFlags(set, args).rest = <<>>
  BY DEF Parse
<1>2. PICK end, starts : ReadAs(set, args, 1, end, starts, given)
  BY <1>1, ReadFromFirst, Zenon
<1> HIDE DEF given
<1>3. /\ end \in {Len(args) - 1, Len(args)}
      /\ end < Len(args) => 1 <= Len(args) /\ args[Len(args)].form = "end"
      /\ ReadsFrom(set, args, 1, end, starts)
      /\ \A flag : Agrees(set, args, starts, given, flag)
  BY <1>2, Zenon DEF ReadAs
<1>4. Reads(set, args, end, starts) /\ starts \subseteq 1..end
  BY <1>3, Zenon DEF Reads, ReadsFrom
<1>5. Len(args) \in Nat
  OBVIOUS
<1> DEFINE ended == Len(args) - end
<1>6. ended \in {0, 1} /\ Len(args) - ended = end /\ (ended = 1 => end < Len(args))
  BY <1>3, <1>5
<1> HIDE DEF ended
<1>7. QED
  BY <1>3, <1>4, <1>6, Zenon DEF given

LEMMA ParsedAsWritten ==
    ASSUME Typed, Named, pc = "arguments", Parse(SetOf(command), Arguments) = "valid",
           request' = RequestOf(command, ParseFlags(SetOf(command), Arguments).given),
           argv' = argv, terminal' = terminal
    PROVE  RanAsWritten'
<1>1. PICK line, c : line = argv /\ c = command
  BY Zenon
<1> DEFINE at == NameAt(line)
           rest == ParseFlags(Root, line).rest
           args == SubSeq(line, at + 1, Len(line))
           set == SetOf(c)
           given == ParseFlags(set, args).given
<1>2. line \in Seq(Argument) /\ ParseCommand(line) = "valid" /\ c = rest[1].text /\ c \in CommandName
  BY <1>1, Zenon DEF Named, Typed
<1>3. at \in 1..Len(line) /\ rest = SubSeq(line, at, Len(line)) /\ IsCommand(rest)
  BY <1>2, NameFirst, Zenon
<1>4. Tail(rest) = args /\ args \in Seq(Argument) /\ rest[1] = line[at]
  <2> HIDE DEF at, rest
  <2>1. QED
    BY <1>2, <1>3, TailOfRest, Zenon
<1>5. line[at].form = "word" /\ line[at].text = c
  BY <1>2, <1>3, <1>4, Zenon DEF IsCommand
<1>6. Parse(set, args) = "valid" /\ request' = RequestOf(c, given)
  BY <1>1, <1>4, Zenon DEF Arguments
<1>7. ~Changed(given, "h") /\ Validate(set, given)
  BY <1>6 DEF Parse
<1> HIDE DEF at, rest, args, given
<1>8. set.plain \cap set.strings = {}
  BY <1>2, SetFacts, Zenon
<1>9. PICK ended \in {0, 1} :
        \E starts \in SUBSET (1..Len(args) - ended) :
             /\ ended = 1 => args[Len(args)].form = "end"
             /\ Reads(set, args, Len(args) - ended, starts)
             /\ \A flag : Agrees(set, args, starts, given, flag)
  BY <1>4, <1>6, <1>8, ReadWhole, Zenon DEF given
<1>10. PICK starts \in SUBSET (1..Len(args) - ended) :
             /\ ended = 1 => args[Len(args)].form = "end"
             /\ Reads(set, args, Len(args) - ended, starts)
             /\ \A flag : Agrees(set, args, starts, given, flag)
  BY <1>9
<1>11. \A i \in starts : args[i] \in Argument /\ WellFormed(set, args[i])
  <2>1. starts \subseteq 1..Len(args) - ended /\ starts \subseteq 1..Len(args)
    BY <1>4, <1>10
  <2>2. \A i \in starts : WellFormed(set, args[i])
    BY <1>10, <2>1, Zenon DEF Reads
  <2>3. QED
    BY <1>4, <2>1, <2>2
<1>12. Written(args, starts)'
  BY <1>2, <1>6, <1>7, <1>10, <1>11, RequestWritten, Zenon
<1>13. argv' = line /\ command' = c
  <2>1. RequestOf(c, given).command = c
    BY DEF RequestOf
  <2>2. QED
    BY <1>1, <1>6, <2>1, Zenon DEF command
<1>14. QED
  BY <1>5, <1>10, <1>12, <1>13, Zenon DEF RanAsWritten, at, args

-----------------------------------------------------------------------------

\* No other step changes what runs.
LEMMA OthersKeep ==
    ASSUME [Next]_vars, ~Main, ~ParseArguments
    PROVE  /\ UNCHANGED <<argv, terminal, request>>
           /\ pc' = "arguments" => pc = "arguments"
           /\ pc' \in {"flags", "inputs", "flow"} => pc \in {"flags", "inputs", "flow"}
<1>1. CASE Help \/ DieUsage \/ ReportJSON \/ Die \/ ReportText \/ WriteFails
  BY <1>1 DEF Help, DieUsage, ReportJSON, Die, ReportText, WriteFails, Exit
<1>2. CASE Version \/ RestrictFails \/ Flow
  BY <1>2 DEF Version, RestrictFails, Flow, Return
<1>3. CASE InspectFlags \/ VerifyFlags \/ SignFlags \/ CheckFlags
  BY <1>3 DEF InspectFlags, VerifyFlags, SignFlags, CheckFlags, TakeFlags, Fail, Return
<1>4. CASE Open \/ OpenFails \/ Restrict
  BY <1>4 DEF Open, OpenFails, Restrict, Opening, Return
<1>5. CASE UNCHANGED vars
  BY <1>5 DEF vars
<1>6. QED
  BY <1>1, <1>2, <1>3, <1>4, <1>5 DEF Next

LEMMA MainNames == Named /\ RanAsWritten /\ Main => Named' /\ RanAsWritten'
<1> SUFFICES ASSUME Named, Main PROVE Named' /\ RanAsWritten'
  OBVIOUS
<1>1. argv' = argv /\ pc' \notin {"flags", "inputs", "flow"}
  BY DEF Main, Stop
<1>2. pc' = "arguments" =>
        /\ ParseCommand(argv) = "valid"
        /\ request' = [NoRequest EXCEPT !.command = ParseFlags(Root, argv).rest[1].text]
  BY DEF Main, Stop
<1>3. \A name : [NoRequest EXCEPT !.command = name].command = name
  BY DEF NoRequest
<1>4. pc' = "arguments" => command' = ParseFlags(Root, argv).rest[1].text
  BY <1>2, <1>3, Zenon DEF command
<1>5. Named'
  BY <1>1, <1>2, <1>4, Zenon DEF Named
<1>6. RanAsWritten'
  BY <1>1, Zenon DEF RanAsWritten
<1>7. QED
  BY <1>5, <1>6

LEMMA ParseArgumentsWritten ==
    IInv /\ Named /\ RanAsWritten /\ ParseArguments => Named' /\ RanAsWritten'
<1> SUFFICES ASSUME IInv, Named, ParseArguments PROVE Named' /\ RanAsWritten'
  OBVIOUS
<1>1. Typed /\ pc = "arguments" /\ argv' = argv /\ terminal' = terminal /\ pc' # "arguments"
  BY DEF IInv, ParseArguments, Stop
<1>2. \/ pc' \notin {"flags", "inputs", "flow"}
      \/ /\ Parse(SetOf(command), Arguments) = "valid"
         /\ request' = RequestOf(command, ParseFlags(SetOf(command), Arguments).given)
  BY DEF ParseArguments, Stop
<1>3. Named'
  BY <1>1, Zenon DEF Named
<1>4. RanAsWritten'
  <2>1. CASE pc' \notin {"flags", "inputs", "flow"}
    BY <2>1, Zenon DEF RanAsWritten
  <2>2. QED
    BY <1>1, <1>2, <2>1, ParsedAsWritten, Zenon
<1>5. QED
  BY <1>3, <1>4

\* What runs is what was written, for all command lines: the request and the command are
\* those of the flags and values that the arguments spell, read on their own.
THEOREM RunAsWritten == Spec => []RanAsWritten
<1>1. Init => Named /\ RanAsWritten
  <2> SUFFICES ASSUME Init PROVE Named /\ RanAsWritten
    OBVIOUS
  <2>1. argv \in Seq(Argument) /\ pc = "command"
    BY CommandsAssumption DEF Init
  <2>2. Named
    BY <2>1 DEF Named
  <2>3. RanAsWritten
    BY <2>1 DEF RanAsWritten
  <2>4. QED
    BY <2>2, <2>3
<1>2. IInv /\ Named /\ RanAsWritten /\ [Next]_vars => Named' /\ RanAsWritten'
  <2> SUFFICES ASSUME IInv, Named, RanAsWritten, [Next]_vars PROVE Named' /\ RanAsWritten'
    OBVIOUS
  <2>1. CASE Main
    BY <2>1, MainNames
  <2>2. CASE ParseArguments
    BY <2>2, ParseArgumentsWritten
  <2>3. CASE ~Main /\ ~ParseArguments
    <3>1. /\ argv' = argv /\ terminal' = terminal /\ request' = request
          /\ pc' = "arguments" => pc = "arguments"
          /\ pc' \in {"flags", "inputs", "flow"} => pc \in {"flags", "inputs", "flow"}
      BY <2>3, OthersKeep, Zenon
    <3>2. RanAsWritten'
      BY <3>1, Kept, Zenon
    <3>3. Named'
      BY <3>1, Zenon DEF Named, command
    <3>4. QED
      BY <3>2, <3>3
  <2>4. QED
    BY <2>1, <2>2, <2>3
<1>3. QED
  BY <1>1, <1>2, Inductive, PTL DEF Spec
=============================================================================
