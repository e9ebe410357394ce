------------------------------- MODULE Config -------------------------------
(***************************************************************************)
(* Which key a reference stands for: the -k option of sign and check, or   *)
(* the sign.key of the configuration.  The config file is read only when   *)
(* the reference may need it (internal/cmd/sign.go, check.go), line by     *)
(* line (Load and Parse, internal/config/config.go), and the reference is  *)
(* resolved then (resolveKeyReference, internal/cmd/config.go).            *)
(***************************************************************************)
EXTENDS Integers, Sequences

CONSTANTS
    Text,      \* names and values in the file and on the command line
    NoText,    \* the empty string
    KeyOption, \* the text "key"
    AliasName, \* the texts that ValidAliasName accepts
    Key, NoKey,
    KeyOf,     \* what ParsePublicKeyLine makes of a text; a bare key may be an AliasName
    Requests

\* Lines that are left alone, lines of no known form, headers, and name = value.
Line ==
    [kind : {"blank", "malformed"}]
      \cup [kind : {"header"}, section : {"sign", "alias", "other"}]
      \cup [kind : {"option"}, name : Text, value : Text \cup {NoText}]

\* The -k option, and the config file: there is none, it may not be used, or its lines.
Request == [ref : Text \cup {NoText}, place : {"missing", "unsafe", "safe"}, lines : Seq(Line)]

ASSUME ConfigAssumption ==
    /\ NoText \notin Text /\ NoKey \notin Key
    /\ KeyOption \in Text /\ AliasName \subseteq Text
    /\ KeyOf \in [Text -> Key \cup {NoKey}]
    /\ Requests \subseteq Request

VARIABLES
    request,
    i,       \* lines dealt with
    section, \* "none" before the first header
    seen,    \* <<section, name>> of the options so far
    signKey, aliases, \* of the Config
    refusal, \* the error, "none" for nil
    key,     \* what is returned
    phase

config == <<section, seen, signKey, aliases>>
configVars == <<request, i, config, refusal, key, phase>>

ref == request.ref
lines == request.lines

-----------------------------------------------------------------------------

ConfigInit ==
    /\ request \in Requests
    /\ i = 0
    /\ section = "none" /\ seen = {}
    /\ signKey = NoText /\ aliases = [t \in Text |-> NoText]
    /\ refusal = "none" /\ key = NoKey
    /\ phase = "start"

Refuse(reason) ==
    /\ refusal' = reason
    /\ phase' = "done"
    /\ UNCHANGED <<request, i, config, key>>

Go(to) ==
    /\ phase' = to
    /\ UNCHANGED <<request, i, config, refusal, key>>

\* Mutant: a key that looks like an alias may be one.
LooksLikeAlias(t) == t \in AliasName

MayBeAlias(t) == KeyOf[t] = NoKey /\ t \in AliasName

ConfigNeeded == ref # NoText => MayBeAlias(ref)

SkipConfig == phase = "start" /\ ~ConfigNeeded /\ Go("resolve")

NoConfig == phase = "start" /\ ConfigNeeded /\ request.place = "missing" /\ Go("resolve")

\* An unsafe file or directory, or one that cannot be read.
ConfigRefused == phase = "start" /\ ConfigNeeded /\ request.place = "unsafe" /\ Refuse("config")

LoadConfig == phase = "start" /\ ConfigNeeded /\ request.place = "safe" /\ Go("parse")

-----------------------------------------------------------------------------

Parsing == phase = "parse" /\ i < Len(lines)
line == lines[i + 1]

Parsed ==
    /\ i' = i + 1
    /\ UNCHANGED <<request, refusal, key, phase>>

Blank == Parsing /\ line.kind = "blank" /\ Parsed /\ UNCHANGED config

\* Mutant: an option may be given again in another section of the same name.
HeaderForgets ==
    /\ Parsing /\ line.kind = "header" /\ line.section # "other"
    /\ section' = line.section
    /\ seen' = {}
    /\ UNCHANGED <<signKey, aliases>>
    /\ Parsed

Header ==
    /\ Parsing /\ line.kind = "header" /\ line.section # "other"
    /\ section' = line.section
    /\ UNCHANGED <<seen, signKey, aliases>>
    /\ Parsed

\* A name that is a public key is no alias, or references would be ambiguous.
CheckAlias(name, value) ==
    name \in AliasName /\ KeyOf[name] = NoKey /\ KeyOf[value] # NoKey

\* sign.key is not parsed before it is used.
Allowed(name, value) ==
    /\ value # NoText
    /\ <<section, name>> \notin seen
    /\ \/ section = "sign" /\ name = KeyOption
       \/ section = "alias" /\ CheckAlias(name, value)

Option ==
    /\ Parsing /\ line.kind = "option" /\ Allowed(line.name, line.value)
    /\ seen' = seen \cup {<<section, line.name>>}
    /\ IF section = "sign"
       THEN signKey' = line.value /\ UNCHANGED aliases
       ELSE aliases' = [aliases EXCEPT ![line.name] = line.value] /\ UNCHANGED signKey
    /\ UNCHANGED section
    /\ Parsed

LineRefused ==
    /\ Parsing
    /\ \/ line.kind = "malformed"
       \/ line.kind = "header" /\ line.section = "other"
       \/ line.kind = "option" /\ ~Allowed(line.name, line.value)
    /\ Refuse("line")

\* Reading fails, or a line is too long for the scanner.
ReadFails == phase = "parse" /\ Refuse("config")

EndOfConfig == phase = "parse" /\ i >= Len(lines) /\ Go("resolve")

-----------------------------------------------------------------------------

\* sign takes the option, or else the configured one.
Wanted == IF ref # NoText THEN ref ELSE signKey

NoReference == phase = "resolve" /\ Wanted = NoText /\ Refuse("missing")

\* The text that is parsed: the reference, or the value of the alias it names.
Referenced ==
    IF KeyOf[Wanted] # NoKey \/ Wanted \notin AliasName THEN Wanted ELSE aliases[Wanted]

Resolve ==
    /\ phase = "resolve" /\ Wanted # NoText
    /\ Referenced # NoText
    /\ KeyOf[Referenced] # NoKey
    /\ key' = KeyOf[Referenced]
    /\ phase' = "done"
    /\ UNCHANGED <<request, i, config, refusal>>

ReferenceRefused ==
    /\ phase = "resolve" /\ Wanted # NoText
    /\ Referenced # NoText => KeyOf[Referenced] = NoKey
    /\ Refuse("reference")

LoadAndParse == LoadConfig \/ Blank \/ Header \/ Option \/ LineRefused \/ ReadFails \/ EndOfConfig

ConfigNext ==
    \/ SkipConfig \/ NoConfig \/ ConfigRefused \/ LoadAndParse
    \/ NoReference \/ Resolve \/ ReferenceRefused

ConfigSpec == ConfigInit /\ [][ConfigNext]_configVars

-----------------------------------------------------------------------------

(***************************************************************************)
(* What the file says, line by line and without any state.                 *)
(***************************************************************************)
HeadersBefore(ls, x) == {h \in 1..(x - 1) : ls[h].kind = "header"}

SectionOf(ls, x) ==
    IF HeadersBefore(ls, x) = {} THEN "none"
    ELSE ls[CHOOSE h \in HeadersBefore(ls, x) : \A g \in HeadersBefore(ls, x) : g <= h].section

OptionLines(ls) == {x \in DOMAIN ls : ls[x].kind = "option"}

\* The lines that give an option.
Giving(ls, sect, name) ==
    {x \in OptionLines(ls) : SectionOf(ls, x) = sect /\ ls[x].name = name}

Value(ls, sect, name) ==
    IF Giving(ls, sect, name) = {} THEN NoText
    ELSE ls[CHOOSE x \in Giving(ls, sect, name) : TRUE].value

\* It is the option of the sign section, or an alias.
Known(ls, x) ==
    \/ SectionOf(ls, x) = "sign" /\ ls[x].name = KeyOption
    \/ SectionOf(ls, x) = "alias" /\ CheckAlias(ls[x].name, ls[x].value)

WellFormed(ls) ==
    /\ \A x \in DOMAIN ls :
         ls[x].kind # "malformed" /\ ls[x] # [kind |-> "header", section |-> "other"]
    /\ \A x \in OptionLines(ls) :
         ls[x].value # NoText /\ Giving(ls, SectionOf(ls, x), ls[x].name) = {x} /\ Known(ls, x)

\* config.go: a file is used whole or not at all: it is refused for a line exactly if it
\* is not well formed, and otherwise every option has the one value that is given for it,
\* in whichever of several sections of a name it stands.
ParsedAsStated ==
    /\ phase = "resolve" /\ i > 0 =>
         /\ WellFormed(lines)
         /\ signKey = Value(lines, "sign", KeyOption)
         /\ \A t \in Text : aliases[t] = Value(lines, "alias", t)
    /\ refusal = "line" => ~WellFormed(lines)

\* What a reference means, with the config file or without one.
Meaning(t) ==
    IF t = NoText THEN NoKey
    ELSE IF KeyOf[t] # NoKey THEN KeyOf[t]
    ELSE IF t \in AliasName /\ request.place = "safe" /\ Value(lines, "alias", t) # NoText
         THEN KeyOf[Value(lines, "alias", t)]
    ELSE NoKey

\* cmd/config.go: "references remain unambiguous": a reference means the same whether or
\* not the config file was read for it, and a key on the command line is never refused or
\* replaced on account of the configuration, whatever is in it.
Unambiguous ==
    phase = "done" =>
        LET wanted == IF ref # NoText THEN ref
                      ELSE IF request.place = "safe" THEN Value(lines, "sign", KeyOption) ELSE NoText
        IN  /\ key = NoKey <=> refusal # "none"
            /\ refusal = "none" => key = Meaning(wanted)
            /\ refusal \in {"missing", "reference"} => Meaning(wanted) = NoKey
            /\ ref # NoText /\ KeyOf[ref] # NoKey => refusal = "none"
=============================================================================
