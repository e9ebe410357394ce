---------------------------- MODULE SignersParse ----------------------------
(***************************************************************************)
(* Reading the allowed signers files of one verification, as Verify does:  *)
(* parseAllowedSigners (pkg/flow/verify.go) over parseWithMaxLineSize,     *)
(* ParseSource and Append (pkg/allowedsigners/parse.go).  A line is a step *)
(* and so is a diagnostic that Append copies.  What becomes of a line by  *)
(* itself (SignerLine) is an attribute of it; an entry is known by where   *)
(* it is.                                                                  *)
(***************************************************************************)
EXTENDS Integers, Sequences, FiniteSets, Functions

CONSTANTS
    MaxLineSize, \* maxLineSize
    MaxSkipped,  \* maxSkippedRecorded
    Unnamed,     \* the source of a single reader
    Requests     \* what a verification is asked to read

Faulty == {"characters", "malformed"}

\* size does not count the newline, which only the last line of a file may lack.
Line == [kind : {"blank", "comment", "entry"} \cup Faulty, size : Nat, newline : BOOLEAN]

\* named: AllowedSignersFiles is not empty; otherwise there is one unnamed reader.
\* broken: the files that have more than the lines here, of which no byte can be read.
Request == [files : Seq(Seq(Line)) \ {<<>>}, named : BOOLEAN, broken : SUBSET (Nat \ {0})]

ASSUME ParseAssumption ==
    /\ MaxLineSize \in Nat /\ MaxSkipped \in Nat
    /\ Requests \subseteq Request
    /\ \A r \in Requests :
         /\ ~r.named => Len(r.files) = 1
         /\ r.broken \subseteq DOMAIN r.files
         /\ \A s \in DOMAIN r.files : \A l \in 1..Len(r.files[s]) - 1 : r.files[s][l].newline

VARIABLES
    files, named, broken, \* the request
    filesDone,    \* files dealt with
    linesDone,    \* lines of the file after those dealt with
    current,      \* the file being parsed
    parsed,       \* the file all are appended to
    copied,       \* diagnostics of current that Append has dealt with
    err,          \* what went wrong, "none" for nil
    phase

parseVars == <<files, named, broken, filesDone, linesDone, current, parsed, copied, err, phase>>

Empty == [entries |-> <<>>, skipped |-> <<>>, count |-> 0]

-----------------------------------------------------------------------------

ParseInit ==
    /\ \E r \in Requests : files = r.files /\ named = r.named /\ broken = r.broken
    /\ filesDone = 0 /\ linesDone = 0 /\ copied = 0
    /\ current = Empty /\ parsed = Empty
    /\ err = "none"
    /\ phase = "scan"

Source == IF named THEN filesDone + 1 ELSE Unnamed
line == files[filesDone + 1][linesDone + 1]

\* What the scanner holds at most.
Buffer == MaxLineSize + 1

\* The newline is in the buffer, or there is room left in it when the reader has no more.
Fits ==
    \/ line.newline /\ line.size + 1 <= Buffer
    \/ ~line.newline /\ line.size < Buffer

Scanned ==
    /\ phase = "scan" /\ linesDone < Len(files[filesDone + 1])
    /\ Fits
    /\ linesDone' = linesDone + 1
    /\ UNCHANGED <<files, named, broken, filesDone, parsed, copied, err, phase>>

Skip(file, where) ==
    [file EXCEPT
        !.count = @ + 1,
        !.skipped = IF Len(@) < MaxSkipped THEN Append(@, where) ELSE @]

PassLine ==
    /\ Scanned /\ line.kind \in {"blank", "comment"}
    /\ UNCHANGED current

SkipLine ==
    /\ Scanned /\ line.kind \in Faulty
    /\ current' = Skip(current, [source |-> Unnamed, line |-> linesDone + 1])

KeepEntry ==
    /\ Scanned /\ line.kind = "entry"
    /\ current' = [current EXCEPT
                    !.entries = Append(@, [source |-> Unnamed, line |-> linesDone + 1])]

Fail(reason) ==
    /\ err' = reason
    /\ phase' = "done"
    /\ UNCHANGED <<files, named, broken, filesDone, linesDone, current, parsed, copied>>

TooLong ==
    /\ phase = "scan" /\ linesDone < Len(files[filesDone + 1])
    /\ ~Fits
    /\ Fail("too long")

AllScanned == phase = "scan" /\ linesDone = Len(files[filesDone + 1])

\* Mutant: the scanner that stops is not asked why.
ReadFailedUnasked == FALSE

\* sc.Err: the scanner has handed out what it got, a part of a line as a line, and stops.
ReadFailed == filesDone + 1 \in broken

ReadFails == AllScanned /\ ReadFailed /\ Fail("read")

-----------------------------------------------------------------------------

Name(where) == [x \in DOMAIN where |-> [where[x] EXCEPT !.source = Source]]

\* Parse alone for the single reader, ParseSource for a named one.
EndOfFile ==
    /\ AllScanned /\ ~ReadFailed
    /\ \/ /\ ~named
          /\ parsed' = current
          /\ filesDone' = filesDone + 1
          /\ phase' = "done"
          /\ UNCHANGED current
       \/ /\ named
          /\ current' = [current EXCEPT !.entries = Name(@), !.skipped = Name(@)]
          /\ phase' = "append"
          /\ UNCHANGED <<parsed, filesDone>>
    /\ UNCHANGED <<files, named, broken, linesDone, copied, err>>

AppendEntries ==
    /\ phase = "append"
    /\ parsed' = [parsed EXCEPT !.entries = @ \o current.entries]
    /\ copied' = 0
    /\ phase' = "skipped"
    /\ UNCHANGED <<files, named, broken, filesDone, linesDone, current, err>>

\* Mutant: the limit holds for every file and not for all together.
AppendAllSkipped ==
    /\ phase = "skipped" /\ copied < Len(current.skipped)
    /\ parsed' = [parsed EXCEPT !.skipped = Append(@, current.skipped[copied + 1])]
    /\ copied' = copied + 1
    /\ UNCHANGED <<files, named, broken, filesDone, linesDone, current, err, phase>>

AppendSkipped ==
    /\ phase = "skipped" /\ copied < Len(current.skipped)
    /\ parsed' = [parsed EXCEPT
                    !.skipped = IF Len(@) < MaxSkipped
                                THEN Append(@, current.skipped[copied + 1]) ELSE @]
    /\ copied' = copied + 1
    /\ UNCHANGED <<files, named, broken, filesDone, linesDone, current, err, phase>>

AppendCount ==
    /\ phase = "skipped" /\ copied = Len(current.skipped)
    /\ parsed' = [parsed EXCEPT !.count = @ + current.count]
    /\ filesDone' = filesDone + 1 /\ linesDone' = 0 /\ copied' = 0 /\ current' = Empty
    /\ phase' = IF filesDone' = Len(files) THEN "done" ELSE "scan"
    /\ UNCHANGED <<files, named, broken, err>>

ParseNext ==
    \/ PassLine \/ SkipLine \/ KeepEntry
    \/ TooLong \/ ReadFails
    \/ EndOfFile \/ AppendEntries \/ AppendSkipped \/ AppendCount

ParseSpec == ParseInit /\ [][ParseNext]_parseVars

-----------------------------------------------------------------------------

\* Where the lines of some kinds are, and which of two places comes first.
Places(kinds) ==
    UNION {{[source |-> IF named THEN s ELSE Unnamed, line |-> l] :
              l \in {x \in DOMAIN files[s] : files[s][x].kind \in kinds}} : s \in DOMAIN files}

Before(v, w) == IF v.source # w.source THEN v.source < w.source ELSE v.line < w.line

Ordered(where) == \A x, y \in DOMAIN where : x < y => Before(where[x], where[y])

\* parse.go: "Append adds g after f, as if g's lines followed f's in one file": the
\* order of the entries, where each of them is, which diagnostics are kept and how
\* many there were do not depend on how the lines are split into files.
AsOneFile ==
    phase = "done" /\ err = "none" =>
        LET faulty == Places(Faulty)
            recorded == Range(parsed.skipped)
        IN  /\ Ordered(parsed.entries) /\ Range(parsed.entries) = Places({"entry"})
            /\ parsed.count = Cardinality(faulty)
            /\ Ordered(parsed.skipped) /\ Len(parsed.skipped) <= MaxSkipped
            /\ IF Len(parsed.skipped) < MaxSkipped THEN recorded = faulty
               ELSE /\ recorded \subseteq faulty
                    /\ \A v \in recorded, w \in faulty \ recorded : Before(v, w)

Long(s) == \E l \in DOMAIN files[s] : files[s][l].size > MaxLineSize
Breaks(s) == s \in broken \/ Long(s)

\* parse.go: parsing has all of every file or is an error, and never takes a scanner that
\* stopped early for the end of a file: there is an error exactly when a line does not fit
\* or a reader fails, and it is of the first file of which this is so, and of the long
\* line there if it has one.  A line of the longest size fits, with or without a newline.
NothingInPart ==
    phase = "done" =>
        /\ (\A s \in DOMAIN files : ~Breaks(s)) => err = "none"
        /\ \A s \in DOMAIN files :
             Breaks(s) /\ (\A t \in 1..s - 1 : ~Breaks(t)) =>
                 err = IF Long(s) THEN "too long" ELSE "read"
=============================================================================
