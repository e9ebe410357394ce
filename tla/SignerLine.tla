----------------------------- MODULE SignerLine -----------------------------
(***************************************************************************)
(* One line of an allowed signers file: what the loop of                   *)
(* parseWithMaxLineSize does with it, parseLine and parseOptions           *)
(* (pkg/allowedsigners/parse.go).  A line is a sequence of symbols: those  *)
(* that split or quote, and words that hold none of them.  SignersParse    *)
(* has what becomes of the lines of several files.                         *)
(***************************************************************************)
EXTENDS Integers, Sequences

CONSTANT Lines

Quote == "quote"
Back == "backslash"
Comma == ","
Name == {"namespaces", "valid-after", "valid-before"}
Time == {"t1", "t2"}

\* "type" is the type of the key that "key" encodes; "control" may be in no line.
Symbol == {Quote, Back, Comma, "sp", "=", "#", "control", "cert-authority", "type", "key", "word"}
            \cup Name \cup Time

ASSUME LineAssumption == Lines \subseteq Seq(Symbol)

VARIABLES
    line,
    fields, at,         \* the fields that splitFields found, and where it goes on
    cut,                \* the comma up to which the options are parsed
    principal, options, \* of the entry; of each option the values given
    phase

lineVars == <<line, fields, at, cut, principal, options, phase>>

None == [name \in Name |-> {}]

-----------------------------------------------------------------------------
\* Splitting.

\* The first of the places that is not before i; if there is none, the end of s.
Upto(s, places, i) ==
    CHOOSE j \in places \cup {Len(s) + 1} : j >= i /\ \A k \in places : k >= i => j <= k

\* The piece of s that begins at i, and all pieces, each by the cut it follows.
Cut(s, cuts, i) == SubSeq(s, i, Upto(s, cuts, i) - 1)
Pieces(s, cuts) == [c \in {0} \cup cuts |-> Cut(s, cuts, c + 1)]

Are(s, symbol) == {i \in DOMAIN s : s[i] = symbol}
Words(s) == DOMAIN s \ Are(s, "sp")
Word(s, i) == Upto(s, Words(s), i)

Trim(s) ==
    LET last == CHOOSE j \in Words(s) \cup {0} : \A k \in Words(s) : k <= j
    IN  SubSeq(s, Word(s, 1), last)

\* Whether a quote is open before s[i].  Within quotes a backslash keeps one from closing.
InQuote(s) ==
    LET open[i \in 1..Len(s) + 1] ==
            i > 1 /\ open[i - 1] # (/\ s[i - 1] = Quote
                                    /\ ~(open[i - 1] /\ s[i - 2] = Back))
    IN  open

Unterminated(s) == InQuote(s)[Len(s) + 1]
Unquoted(s, symbol) == LET open == InQuote(s) IN {i \in Are(s, symbol) : ~open[i]}

TokenIsOption(s) ==
    s = <<"cert-authority">> \/ \E i \in DOMAIN s : s[i] \in {Quote, Comma, "="}

\* What unquotePrincipals returns, and when: a quote that opens is closed by the last symbol.
PrincipalsOpen(s) == Upto(s, Are(s, Quote), 1)
PrincipalsText(s) ==
    SubSeq(s, 1, PrincipalsOpen(s) - 1) \o SubSeq(s, PrincipalsOpen(s) + 1, Len(s) - 1)
PrincipalsQuoted(s) ==
    PrincipalsOpen(s) <= Len(s) => Upto(s, Are(s, Quote), PrincipalsOpen(s) + 1) = Len(s)

Escapes(s) == {i \in Are(s, Back) : i < Len(s) /\ s[i + 1] = Quote}

\* Mutant: a quote inside the value is only a quote.
IsQuotedSpliced(s) == Len(s) >= 2 /\ s[1] = Quote /\ s[Len(s)] = Quote

IsQuoted(s) ==
    /\ Len(s) >= 2 /\ s[1] = Quote /\ s[Len(s)] = Quote
    /\ LET inner == SubSeq(s, 2, Len(s) - 1)
       IN  \A i \in Are(inner, Quote) : i - 1 \in Escapes(inner)

Unescaped(s) ==
    LET kept == SelectSeq([i \in DOMAIN s |-> i], LAMBDA i : i \notin Escapes(s))
    IN  [i \in DOMAIN kept |-> s[kept[i]]]

\* The value of a whole option, and what is kept of it.
Value(opt) == Unescaped(SubSeq(opt, 4, Len(opt) - 1))
Says(opt) ==
    IF opt[1] = "namespaces" THEN Pieces(Value(opt), Are(Value(opt), Comma)) ELSE Trim(Value(opt))

IsTime(s) == \E t \in Time : s = <<t>>

-----------------------------------------------------------------------------

text == Trim(line)

LineInit ==
    /\ line \in Lines
    /\ fields = <<>> /\ at = 1 /\ cut = 0
    /\ principal = <<>> /\ options = None
    /\ phase = "line"

To(label) == phase' = label /\ UNCHANGED line
Skip == To("skipped") /\ UNCHANGED <<fields, at, cut, principal, options>>

Printable == "control" \notin {line[i] : i \in DOMAIN line}
Passed == text = <<>> \/ text[1] = "#"

InvalidCharacters == phase = "line" /\ ~Printable /\ Skip

Pass ==
    /\ phase = "line" /\ Printable /\ Passed
    /\ To("passed")
    /\ UNCHANGED <<fields, at, cut, principal, options>>

Begin ==
    /\ phase = "line" /\ Printable /\ ~Passed
    /\ To("fields")
    /\ UNCHANGED <<fields, at, cut, principal, options>>

\* parseLine splits for two fields to learn how many there are, and again for all:
\* the second time it finds the first two again.
HasOptions == TokenIsOption(fields[2])
Enough == Len(fields) = IF Len(fields) >= 2 /\ HasOptions THEN 4 ELSE 3

end == Upto(text, Unquoted(text, "sp"), at)
Complete == at <= Len(text) /\ (end > Len(text) => ~Unterminated(text))

Field ==
    /\ phase = "fields" /\ ~Enough
    /\ \/ /\ Complete
          /\ fields' = Append(fields, SubSeq(text, at, end - 1))
          /\ at' = Word(text, end)
          /\ To("fields")
          /\ UNCHANGED <<cut, principal, options>>
       \/ ~Complete /\ Skip

comment == SubSeq(text, at, Len(text))

PrincipalsOK == PrincipalsQuoted(fields[1]) /\ PrincipalsText(fields[1]) # <<>>

Principals ==
    /\ phase = "fields" /\ Enough
    /\ \/ /\ PrincipalsOK
          /\ principal' = PrincipalsText(fields[1])
          /\ To(IF HasOptions THEN "options" ELSE "key")
          /\ UNCHANGED <<fields, at, cut, options>>
       \/ ~PrincipalsOK /\ Skip

SplitOptions ==
    /\ phase = "options"
    /\ \/ /\ ~Unterminated(fields[2])
          /\ To("option")
          /\ UNCHANGED <<fields, at, cut, principal, options>>
       \/ Unterminated(fields[2]) /\ Skip

commas == Unquoted(fields[2], Comma)
part == Cut(fields[2], commas, cut + 1)

\* A name that no option before had, "=" and a quoted value.
OptionOK ==
    /\ Len(part) >= 2 /\ part[1] \in Name /\ part[2] = "=" /\ IsQuoted(SubSeq(part, 3, Len(part)))
    /\ options[part[1]] = {}
    /\ part[1] # "namespaces" => IsTime(Says(part))

Option ==
    /\ phase = "option" /\ cut <= Len(fields[2])
    /\ \/ /\ OptionOK
          /\ options' = [options EXCEPT ![part[1]] = {Says(part)}]
          /\ cut' = Upto(fields[2], commas, cut + 1)
          /\ To("option")
          /\ UNCHANGED <<fields, at, principal>>
       \/ ~OptionOK /\ Skip

\* Both times may be given, and then t1 is before t2.
Ordered(o) ==
    \/ {} \in {o["valid-after"], o["valid-before"]}
    \/ o["valid-after"] = {<<"t1">>} /\ o["valid-before"] = {<<"t2">>}

Window ==
    /\ phase = "option" /\ cut > Len(fields[2])
    /\ \/ /\ Ordered(options)
          /\ To("key")
          /\ UNCHANGED <<fields, at, cut, principal, options>>
       \/ ~Ordered(options) /\ Skip

\* The key parses, and is of the type that is said.
KeyOK ==
    LET type == IF HasOptions THEN 3 ELSE 2
    IN  fields[type] = <<"type">> /\ fields[type + 1] = <<"key">>

Key ==
    /\ phase = "key"
    /\ \/ /\ KeyOK
          /\ To("kept")
          /\ UNCHANGED <<fields, at, cut, principal, options>>
       \/ ~KeyOK /\ Skip

LineNext ==
    \/ InvalidCharacters \/ Pass \/ Begin \/ Field \/ Principals
    \/ SplitOptions \/ Option \/ Window \/ Key

LineSpec == LineInit /\ [][LineNext]_lineVars

-----------------------------------------------------------------------------
(***************************************************************************)
(* The grammar of a line (doc/ALLOWED_SIGNERS.md), without a word about    *)
(* how it is split:                                                        *)
(*   principals blanks [options blanks] type blanks key [blanks comment]   *)
(* Quoted principals end with the next quote.  The quoted value of an      *)
(* option may hold escaped ones.                                           *)
(***************************************************************************)

\* The blanks from i up to j, of which there are some.
Blanks(s, i, j) == i < j /\ \A x \in i..j - 1 : s[x] = "sp"

\* From o on, s is one quoted text.
QuotedFrom(s, o) ==
    /\ o < Len(s) /\ s[o] = Quote /\ s[Len(s)] = Quote /\ s[Len(s) - 1] # Back
    /\ \A i \in o + 1..Len(s) - 1 : s[i] = Quote => s[i - 1] = Back

\* The principals that s reads as: plain, and from o on in quotes that hold no other.
Named(s) ==
    {SubSeq(s, 1, o - 1) \o SubSeq(s, o + 1, Len(s) - 1) :
        o \in {x \in 1..Len(s) + 1 :
                    /\ \A i \in 1..x - 1 : s[i] \notin {Quote, "sp"}
                    /\ x <= Len(s) => /\ x < Len(s) /\ s[x] = Quote /\ s[Len(s)] = Quote
                                     /\ \A i \in x + 1..Len(s) - 1 : s[i] # Quote}}
    \ {<<>>}

IsOption(s) ==
    /\ Len(s) >= 4 /\ s[1] \in Name /\ s[2] = "=" /\ QuotedFrom(s, 3)
    /\ s[1] # "namespaces" => IsTime(Says(s))

\* The ways to read s as options: where it is cut.
OptionReadings(s) ==
    {cuts \in SUBSET Are(s, Comma) :
        LET opts == Pieces(s, cuts)
        IN  /\ \A c \in DOMAIN opts : IsOption(opts[c])
            /\ \A c, d \in DOMAIN opts : opts[c][1] = opts[d][1] => c = d}

OptionsRead(opts) ==
    [name \in Name |-> {Says(opts[c]) : c \in {d \in DOMAIN opts : opts[d][1] = name}}]

OptionsOf(s) == {OptionsRead(Pieces(s, cuts)) : cuts \in OptionReadings(s)}

\* The options that s from i up to j may be read as; none is given where there are only blanks.
Between(s, i, j) ==
    IF Blanks(s, i, j) THEN {None}
    ELSE UNION {OptionsOf(SubSeq(s, b, c)) : b \in {x \in i..j - 1 : Blanks(s, i, x)},
                                             c \in {x \in i..j - 1 : Blanks(s, x + 1, j)}}

\* The comment, if a type is at j and a key follows.
Comments(s, j) ==
    {Trim(SubSeq(s, k + 1, Len(s))) :
        k \in {x \in Are(s, "key") : Blanks(s, j + 1, x) /\ (x < Len(s) => s[x + 1] = "sp")}}

\* Every way to read s as an entry: the principals end at e, and the type is at j.
Entries(s, e, j) ==
    [principal : Named(SubSeq(s, 1, e)),
     options : {o \in Between(s, e + 1, j) : Ordered(o)},
     comment : Comments(s, j)]
EntriesTo(s, ends) ==
    UNION {Entries(s, e, j) : e \in {x \in ends : s[1] # "#"}, j \in Are(s, "type")}
Readings(s) == EntriesTo(s, DOMAIN s)

\* The quotes that are escaped, if a backslash escapes them.
Escaped(s) == {i \in Are(s, Quote) : i > 1 /\ s[i - 1] = Back}

\* parse.go: "an opaque key comment cannot affect parsing", "splicing namespaces="a","b"
\* would authorise a namespace from a line ssh-keygen rejects": a line is kept only when
\* the grammar has a reading of it, there is no other, and that is its entry; and no line
\* with a reading is dropped, unless a backslash is before the quote that ends its
\* principals, which the parser takes for escaped and the grammar does not.
AsGrammar ==
    /\ phase = "kept" =>
         /\ Printable
         /\ Readings(text) = {[principal |-> principal, options |-> options, comment |-> comment]}
    /\ phase \in {"skipped", "passed"} =>
         EntriesTo(text, DOMAIN text \ Escaped(text)) = {} \/ ~Printable

\* doc/ALLOWED_SIGNERS.md: "Backslashes do not escape quotes in principals. The first quote
\* opens the quoted text and the next quote closes it": so no line is dropped for one.
BackslashIsPlain == phase = "skipped" /\ Printable => Readings(text) = {}
=============================================================================
