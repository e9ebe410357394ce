-------------------------------- MODULE Args --------------------------------
(***************************************************************************)
(* The argument parser (internal/args/args.go) and the flags of each       *)
(* command.  A flag is its letter, which stands for its long name too.  An *)
(* argument is a word, "--", or one or several flags with what is attached *)
(* to them; whatever it is, it may be the value of a flag before it.       *)
(***************************************************************************)
EXTENDS Integers, Sequences

CommandName == {"inspect", "sign", "verify", "check", "version"}

\* What a text is to the flags that take one: a time, a key, what may be an alias, or none
\* of these; the name of a command is what may be an alias.
NoText == "no text"
Empty == ""
Text == {Empty, "time", "key", "alias", "junk"} \cup CommandName

Argument ==
    [form : {"word"}, flags : {<<>>}, text : Text] \cup
    [form : {"end"}, flags : {<<>>}, text : {NoText}] \cup
    [form : {"long"}, flags : [1..1 -> STRING], text : Text \cup {NoText}] \cup
    [form : {"short"}, flags : Seq(STRING) \ {<<>>}, text : (Text \ {Empty}) \cup {NoText}]

\* A dash is good in an alias, "=", blanks and colons are not.
Attached(text) == IF text \in {"time", "key", "junk"} THEN "junk" ELSE "alias"
Whole(argument) ==
    IF argument.form = "word" THEN argument.text
    ELSE IF argument.form = "long" /\ argument.text # NoText THEN "junk"
    ELSE Attached(argument.text)

-----------------------------------------------------------------------------

Common == {"h", "j", "v"}

Set(strings, plain, required, denyEmpty, exclusive) ==
    [strings |-> strings, plain |-> plain, required |-> required,
     denyEmpty |-> denyEmpty, exclusive |-> exclusive]

Root == Set({}, {"h"}, {}, {}, {})

SetOf(command) ==
    CASE command = "inspect" -> Set({"s"}, Common, {}, {"s"}, {})
      [] command = "sign"    -> Set({"f", "n", "k"}, Common, {}, {"f", "n", "k"}, {})
      [] command = "verify"  -> Set({"a", "f", "s", "n", "p", "t"}, Common \cup {"N"}, {"f"},
                                    {"a", "f", "s", "p", "t"}, {{"n", "N"}})
      [] command = "check"   -> Set({"f", "s", "n", "k", "t"}, Common \cup {"N", "K"}, {"f"},
                                    {"f", "s", "t"}, {{"n", "N"}, {"k", "K"}})
      [] command = "version" -> Set({}, Common, {}, {}, {})

-----------------------------------------------------------------------------

Bad == [ok |-> FALSE, given |-> <<>>, used |-> 0]
Taken(given, used) == [ok |-> TRUE, given |-> given, used |-> used]

\* A string flag that nothing is attached to takes the next argument.
FromNext(given, flag, next) ==
    IF next = <<>> THEN Bad ELSE Taken(Append(given, <<flag, Whole(next[1])>>), 1)

ParseLong(set, argument, next) ==
    LET flag == argument.flags[1]
        text == argument.text
    IN  IF flag \in set.strings
        THEN IF text = NoText THEN FromNext(<<>>, flag, next) ELSE Taken(<<<<flag, text>>>>, 0)
        ELSE IF flag \in set.plain /\ text = NoText THEN Taken(<<<<flag, Empty>>>>, 0) ELSE Bad

Plainly(flags) == [i \in DOMAIN flags |-> <<flags[i], Empty>>]

\* Mutant: only the end of a cluster takes a value.
ParseShortLast(set, argument, next) ==
    LET flags == argument.flags
        plain == Plainly(SubSeq(flags, 1, Len(flags) - 1))
        last == flags[Len(flags)]
    IN  IF \E i \in DOMAIN flags : flags[i] \notin set.plain \cup set.strings THEN Bad
        ELSE IF last \in set.plain THEN Taken(Plainly(flags), 0)
        ELSE IF argument.text = NoText THEN FromNext(plain, last, next)
        ELSE Taken(Append(plain, <<last, argument.text>>), 0)

\* Up to the first flag of a cluster that takes a value: the rest is its value.
ParseShort(set, argument, next) ==
    LET flags == argument.flags
        text == argument.text
        others == {i \in DOMAIN flags : flags[i] \notin set.plain}
        first == CHOOSE i \in others : \A j \in others : i <= j
        plain == Plainly(SubSeq(flags, 1, first - 1))
    IN  IF others = {} THEN IF text = NoText THEN Taken(Plainly(flags), 0) ELSE Bad
        ELSE IF flags[first] \notin set.strings THEN Bad
        ELSE IF first < Len(flags) THEN Taken(Append(plain, <<flags[first], Attached(text)>>), 0)
        ELSE IF text # NoText THEN Taken(Append(plain, <<flags[first], text>>), 0)
        ELSE FromNext(plain, flags[first], next)

TakenAt(set, argv, i) ==
    LET next == SubSeq(argv, i + 1, Len(argv))
    IN  IF argv[i].form = "long" THEN ParseLong(set, argv[i], next)
        ELSE ParseShort(set, argv[i], next)

\* The arguments from the i-th on; "from" has what those from any later one on come to.
ParsedAt(set, argv, from, i) ==
    IF i > Len(argv) THEN [ok |-> TRUE, given |-> <<>>, rest |-> <<>>]
    ELSE IF argv[i].form = "word"
    THEN [ok |-> TRUE, given |-> <<>>, rest |-> SubSeq(argv, i, Len(argv))]
    ELSE IF argv[i].form = "end"
    THEN [ok |-> TRUE, given |-> <<>>, rest |-> SubSeq(argv, i + 1, Len(argv))]
    ELSE LET taken == TakenAt(set, argv, i)
             after == from[i + 1 + taken.used]
         IN  IF taken.ok
             THEN [ok |-> after.ok, given |-> taken.given \o after.given, rest |-> after.rest]
             ELSE [ok |-> FALSE, given |-> <<>>, rest |-> <<>>]

\* The flags up to the first positional argument, and what follows them.
ParseFlags(set, argv) ==
    LET from[i \in 1..Len(argv) + 2] == ParsedAt(set, argv, from, i) IN from[1]

Changed(given, flag) == \E i \in DOMAIN given : given[i][1] = flag

\* The last text that a flag was given, or else its default.
ValueOf(given, flag, default) ==
    LET at == {i \in DOMAIN given : given[i][1] = flag}
    IN  IF at = {} THEN default ELSE given[CHOOSE i \in at : \A j \in at : j <= i][2]

Validate(set, given) ==
    /\ \A flag \in set.required : Changed(given, flag)
    /\ \A group \in set.exclusive :
         \A a, b \in group : Changed(given, a) /\ Changed(given, b) => a = b
    /\ \A flag \in set.denyEmpty : ValueOf(given, flag, "default") # Empty

\* "help", "invalid" or "valid"; help first, but not before the syntax.
Parse(set, argv) ==
    LET parsed == ParseFlags(set, argv)
    IN  IF ~parsed.ok THEN "invalid"
        ELSE IF Changed(parsed.given, "h") THEN "help"
        ELSE IF parsed.rest = <<>> /\ Validate(set, parsed.given) THEN "valid" ELSE "invalid"

IsCommand(argv) == argv # <<>> /\ argv[1].form = "word" /\ argv[1].text \in CommandName

ParseCommand(argv) ==
    LET parsed == ParseFlags(Root, argv)
    IN  IF argv = <<>> \/ ~parsed.ok THEN "invalid"
        ELSE IF Changed(parsed.given, "h") THEN "help"
        ELSE IF IsCommand(parsed.rest) THEN "valid" ELSE "invalid"
=============================================================================
