# A verification of ssh-sign in TLA+

ssh-sign makes and checks SSH signatures (the SSHSIG format of OpenSSH).  This
directory holds TLA+ models of the code in `src/`, the TLC configurations that
check them on small instances, and proofs, checked by TLAPS, that their main
properties hold for every instance.  Paths below are relative to `src/`.

To repeat everything, for each configuration and each proof module:

    tlc -config MCVerifyFlow.cfg MCVerifyFlow.tla
    tlapm VerifyFlowProofs.tla

## The system

A command (`internal/cmd`) parses its arguments, opens every file it will need,
restricts itself with landlock, and then calls one function of `pkg/flow`, which
returns a result and a list of errors.  The flows use `pkg/sshsig` (signatures,
certificates, the agent) and `pkg/allowedsigners` (who may sign what).  Go code
calls Go code: there are no goroutines of its own.  What runs beside the program is
outside it: the clock, the readers (files, standard input, a terminal), the
ssh-agent and its user, and whoever changes the files of the configuration.

| component | state it keeps | operations | talks to | what makes it correct |
|---|---|---|---|---|
| Pattern lists, `pkg/allowedsigners/pattern.go` | two positions, one backtrack point | `wildcardMatch`, `patternsMatch` | called for every principal and namespace of an entry | finds a match exactly if there is one; exclusions win; polynomial time |
| Allowed signers lookup, `pkg/allowedsigners/verify.go` | position in the file, errors so far, three counters, a fallback | `matchEntry`, `MatchEntry`, `MatchRequiredEntry`, `NamespaceConstraintResult` | called by the verify flow | the answer is what the whole file says; the error explains every candidate |
| Allowed signers parsing, `pkg/allowedsigners/parse.go` | entries, skipped lines, their count, line number; fields and options of the line | `ParseSource`, `Append`, `parseLine`, `parseOptions` | reads from files, called by the verify flow | many files are read as one; nothing is used of a file that could not be read to its end; a line means one thing |
| Certificate window, `pkg/sshsig/certificate.go` | none | `CertificateValidAt` | called by all three flows | the stated window, in spite of unsigned words and truncated times |
| Verify flow, `pkg/flow/verify.go` | the statuses and errors so far, the instant | `Verify` | all of the above | success only for a trusted signer and data that verifies, every failure reported |
| Check flow, `pkg/flow/check.go` | the same | `Check` | signature, certificate | success exactly if nothing that was asked for fails |
| Signing and the agent, `pkg/sshsig/agent.go`, `pkg/flow/sign.go`, `SignatureCreate` | the connection and its deadline, the chosen key | `ConnectAgent`, `AgentSigner`, `Sign` | the ssh-agent over a socket, the data | bounded listing, unbounded signing, no DSA or SHA-1 signature, what was really signed is readable, the user asked last |
| Signature format, `pkg/sshsig/protocol.go`, `signature.go`, `internal/cmd/signature_stdin.go` | what the stdin reader has left, what was read | `SignatureRead`, `ParseSignature`, `Verify`, `signatureStdinReader.Read` | readers | one armored block, nothing unsigned in what verifies, and only what can be read back verifies |
| Configuration, `internal/config`, `internal/cmd/config.go` | section, options seen, aliases; files listed, read and left to read | `Load`, `Parse`, `resolveKeyReference`, `SignersFiles`, `readSignersFiles` | the file system, which others change | no file of others is trusted, none left out silently; references are unambiguous |
| Commands and sandbox, `internal/cmd`, `internal/landlock`, `main.go` | open files, the restriction, the exit code | `Run` of each command | everything | every file opened before the restriction, nothing read before it |
| Argument parser, `internal/args` | position, flags given | `ParseCommand`, `Parse` | the command line | what runs is what was written; no contradictory flags run |
| Keys, inspect, presentation, helpers | none | | | |

What is hard about it:

- searches whose result must not depend on where in the file something stands
  (pattern lists, entries, the fallback of a lookup, several files);
- failures that are collected and not returned, so that one may hide another, be
  reported twice, or not at all;
- time: instants taken at different moments of a call that may block, and
  conversions of certificate bounds between words of different signedness and unit;
- the agent: a timeout for one operation and none for the next on the same
  connection, answers that come late, or other than asked for;
- files that change between being listed, examined and opened;
- texts that several scanners take apart one after the other, each with its own rule
  for quotes, blanks and escapes (lines, armor, arguments).

`PROJECT.json` lists these hazards line by line, each with the properties that
watch it.

## The modules

    WildcardMatch <- PatternList                 patterns
    SignerPolicy  <- SignerLookup (abstract)     allowed signers
                  <- AllowedSigners (detailed, implements SignerLookup)
                  <- VerifyFlow -> Certificate
    SignersParse                                 allowed signers, from files
    SignerLine                                   allowed signers, one line of them
    SignatureFormat -> SignatureAlgorithm        a signature, from armor to verdict
                  <- RoundTrip                   SignFlow, then SignatureFormat
    Certificate   <- CheckFlow
                  <- SignFlow -> SignatureAlgorithm, <- RoundTrip
    SignersDir                                   the default allowed signers
    Config                                       the key of sign and check
    Args          <- Commands                    what runs all of it, flows abstracted

`A <- B` is "A is extended by B", and so is `B -> A`. Every component has an `MC` module
with the values of its constants and a configuration; SignFlow and SignatureFormat share that
of RoundTrip, which composes them. Where something is proved there is a
`Proofs` module for the modules that hang together: `SignerLineProofs` is also about
WildcardMatch and PatternList, the other parser of the package, `AllowedSignersProofs`
about SignersParse, `ConfigProofs` about SignersDir and Config, `SignatureProofs` about
SignFlow, SignatureFormat and RoundTrip, `CommandsProofs` about Args and Commands; the one theorem
about Certificate stands in the module itself. Operators, actions and variables have the
names of the functions and variables of the code they stand for. Where a function has
several returns or `continue`s, each is an action.

**WildcardMatch** is one call of `wildcardMatch`: an iteration of either loop is a
step, an arm of the switch is an action.  `p`, `v`, `star` and `mark` are the
variables of the code.  `Glob` is the reference: a pattern matches if the value can
be cut up along it.

**PatternList** is one call of `patternsMatch`, which runs WildcardMatch's machine
for every pattern, resetting it each time.  `ListAccepts` is the reference.

**SignerPolicy** says, without any search, what a file means: `Candidates`,
`Usable`, `Preferred`, and `Verdict`, the answer to a query.  Names and namespaces of
an entry are the sets its pattern-lists match, which PatternList justifies.
**SignerLookup** is the abstract specification: a lookup answers once, with the
verdict.

**AllowedSigners** is one call of `matchEntry` followed by
`NamespaceConstraintResult` on its error: one action for every way through the loop
body and for every return.  `errs`, `candidates`, `namespaceMatches`,
`namespaceMismatches` and `unrestricted` are the code's.

**SignersParse** is `parseAllowedSigners`: every source is scanned line by line
(`parseWithMaxLineSize`) and appended (`Append`) to what there is.  A line is what the scanner
and `parseLine` make of it (blank, comment, entry, malformed, bad characters) and its size; a
reader may be `broken`, so that it fails after the lines it has.  `Buffer` is the scanner's: a
line and its delimiter have to fit (`Fits`), or the line and nothing at the end of the file.
`filesDone` and `linesDone` say how far it has got, and `copied` how far `Append` has; a reader
that is no file has no place to report, so there is only one (`ParseAssumption`).  `AsOneFile`
needs no concatenated file: it says which places are recorded (`Places`) and in which order
(`Before`, `Ordered`).

**SignerLine** is what `parseWithMaxLineSize` does with one line.  A line is a sequence
of symbols: quote, backslash, blank, comma, `=`, `#`, the names of the options, two times,
a key and its type, and a word that is none of these.  `InQuote` is the flag that
`splitFields` and `splitOptions` toggle; a `Field` is found per step, up to `end`, and the
next one is looked for `at` the blanks after it.  (`parseLine` calls `splitFields` twice,
for two fields and then for all: the second call finds the first two where the first call
did, so there is one pass, which asks `HasOptions` once it has two.)  `SplitOptions` cuts a
field into `Pieces`, each known by the comma it follows, and `Option` takes one `part` per
step up to `cut`; of each option the set of values given is kept, which is how the code's
nil and set differ.  `PrincipalsText` and `IsQuoted` are the two unquotings.  `Readings` is
the reference, the grammar of `doc/ALLOWED_SIGNERS.md`: it says where principals, options,
type and key stand in the line and of what they consist, with no order in which to look for
them, and with every way to cut the options.  In principals a backslash escapes nothing,
neither in the document nor in the grammar; `splitFields` takes it for an escape, which is
the second finding below.

**SignatureFormat** is a signature from its armor to its verdict.  A text is a sequence of
lines, of the kinds that matter to `pem.Decode` (which is external: `IsBlock` and `Decode` say
that it finds the first block whose lines decode, and skips what is none).  `Fill` is the first
`Read` of `signatureStdinReader`, `Read` every other one, of any size; `EndOfData` is what
`signatureRead` does at the end.  The fields of `signatureWire` and what follows the signature
are attributes of the payload, and `signed` is what the key really signed, so that `KeyVerifies`
does not look at what no signature covers.  A signature may also be built without being read, or
be one that was just made (RoundTrip).  The limit on a signature is at least its three lines
(`FormatAssumption`): with a smaller one nothing that verifies could be read back.

**Certificate** has the operators of `CertificateValidAt`.  `Half` stands for 2^63
and `Second` for a second's units of time; `Signed` is the conversion to `int64`,
`Unix` the truncation.  `StatedWindow` is what the certificate says in whole numbers.

**VerifyFlow** is one call of `Verify`.  Its phases are the blocks of the function;
the search of the file is its `Verdict`, one step.  `errs` records of which check
every collected error is.  Reading a source, reading the signature and reading the
data may each fail; the data may verify or not; `Tick` lets time pass at any point.

**CheckFlow** is one call of `Check`, in the same way.

**SignatureAlgorithm** has the types of keys, the formats of signatures, what may follow one
(`Rest`), and the two checks of a format against its key.

**SignFlow** is signing as the sign command does it: `ConnectAgent`, `AgentSigner`, `Sign`,
`SignatureCreate`.  `left` is the time until the deadline of the connection; `wire` is the
message on it.  The agent is an actor of its own that may answer, refuse, hang up, do so late or
never, that may ignore the algorithm it is asked for (`obeys`), and that may return anything of
the form of a signature: any `format`, of other keys too, with any `trail` behind it.  `IOFails`
is what any of these does to the program; `ListFails` is the code's attempt to tell by the clock
which it was.

**RoundTrip** puts the two ends of a signature together: once SignFlow has returned one,
its armor may be read back (`ReadBack`), as a file or from standard input, by the machine of
SignatureFormat.  A text may also come from elsewhere, as SignatureFormat has it, and then
nothing is signed (`NoAgent`).

**SignersDir** is `SignersFiles` and `readSignersFiles`, one action for every system
call or group of calls between which nothing can matter.  The file system is an actor:
`Relink`, `Chmod` and `Resize` may come between any two steps.  A name links to a file
(`Inode`) or to none, so that a file swapped in at a path is another file.  Sizes are
counted, contents are not: `loaded` says whether all of a file was read.
`safeSince` and `total` are history variables: the code has no such state.  They record
since when something has been safe and how much was read, for the properties only.
The listing is one step, though `os.ReadDir` may see a directory in the middle of a change.

**Config** is how sign and check find a key: whether the config is needed, `Load`, a
step of `Parse` for every line, and `resolveKeyReference`.  Texts are values with two
attributes, whether they are valid alias names and what key they parse as; both may
hold.  The reference for the parser (`SectionOf`, `Giving`, `Value`) looks at the whole
file at once, whichever file it is given.

**Args** is `internal/args` with the flags of every command (`SetOf`).  An argument is a
word, `--`, a long flag, or a cluster of at least one short one, with what is attached to
them; each may also be the value of the flag before it (`Whole`).  `ParseFlags` is a recursive
function over the positions of the list: `ParsedAt` says what the arguments from one on come
to, given what those from every later one do.  A long name stands for its letter.

**Commands** is one run of the program.  `Main` is `main` up to the command's name,
`ParseArguments` the rest of the arguments, from which `RequestOf` takes what the command sees;
a signature without a path is on standard input, or, if that is a terminal, in
`<verify-file>.sig` (`FromStdin`).  A flow is reduced to whether it returns a result and errors
(`Outcomes`), and what the config has for an alias, or as the key to sign with, to `config`: a
key, nothing, or a config that is refused; the modules above have the details.  `CheckErrors`
collects what `check` reports together, one operator for each of its tests.  `denied` is set by
whatever would look up a path after the restriction, the loading of the local time zone
included.

## What the runs check

| run | what it shows |
|---|---|
| `pattern_list` | `ResultIsGlob`: giving up all backtrack points but the last loses nothing.  `NegationWins`: order in a list does not matter for exclusions.  `Progress`: no iteration repeats; `Returns`: the call ends. |
| `allowed_signers` | `ImplementsLookup`: the search, with its fallback and counters, implements SignerLookup.  `ErrorExplainsAll`: an error has a line for every candidate, in order. |
| `verify_flow` | `OnlyTrustedAccepted`: one entry and the certificate vouch for an accepted signer at one instant of the call.  `TrustedAccepted`: the converse.  `InvalidIsReported`, `AllChecksRun`: no failure is lost or invented.  `DesignationIsBacked`: a valid namespace rests on an entry about this signer. |
| `signers_parse` | `AsOneFile`: entries, places, diagnostics and their count are those of the concatenated file.  `NothingInPart`: there is an error exactly when a line does not fit or a reader fails, that of the first such file, so that no part of a file is taken for the file. |
| `check_flow` | `OnlyCheckedAccepted`, `CheckedAccepted`: success exactly if everything asked for holds, at an instant after the signature was read.  `AllFailuresReported`: the errors are the failed checks, each once. |
| `round_trip` | `FailuresAreTheAgents`: no time is too long for the user, and a listing out of time is not put down to the agent.  `AskedLast`: the agent is asked when nothing else can refuse any more.  `CreatedIsReadable`: no DSA or SHA-1 signature is returned whatever the agent answers, and what it really signed is read back and verified.  `NoNeedlessRefusal`: a signature is in vain only if no held key would have done.  `ListingEnds`.  `StdinAsFile`: standard input differs from a file by a bounded number of leading blank lines only, whatever the sizes of the reads.  `OneBlock`: no text is accepted with a block skipped, nested or of another type.  `NotMalleable`: all of a signature that verifies was signed.  `VerifiedReadsBack`: what verifies, built, made or read, is read from its armor. |
| `signers_dir` | `TrustedWhenRead`: what is read has been safe since it was opened, and the directories since they were listed, whatever was swapped.  `AllLoaded`: success means all `*.conf` files of the listing, in order.  `WholeFiles`, `BoundedTotal`: no file is cut off at the limit, and the limit holds, while files grow and shrink. |
| `config` | `ParsedAsStated`: the file is used as a whole or refused, over repeated sections too.  `Unambiguous`: a reference means the same whether or not the config was read. |
| `commands` | `Sandboxed`: no path is needed after the restriction, and no input is read before it but the default signers.  `ExitTells`: the exit status tells success, user errors and failures apart, with the output complete.  `FlagsTogether`: check opens nothing before its flags are right, reports every wrong flag and no other, and the key with exactly one error, a failed alias included.  `RanAsWritten`: every argument was read as the flag, or the value of the flag before it, that it is, and what runs is exactly that. |
| `signer_line` | `AsGrammar`: four scanners agree with one grammar: a line is kept only if it has a reading, the reading is unique, and it is the entry; and it is dropped only if it has none, but for a quote after a backslash at the end of its principals. |
| `sign_up_front` | a disagreement of a comment with the code, below. |
| `principals_backslash` | a disagreement of `doc/ALLOWED_SIGNERS.md` with the code, below. |

Every property has a mutant in `PROJECT.json`: a version of one action or operator
with a plausible mistake (they stand beside the definition they replace, marked
"Mutant"), with which TLC finds the property violated.

`CHECK_DEADLOCK FALSE` is in every configuration because every model is of a call
that returns: it stops in its last state.

### The findings

The comment of `Sign` (`pkg/sshsig/protocol.go:118`) says that it "can produce
signatures Verify then refuses; SignatureCreate rejects those keys up front".
`SignatureCreate` calls `Sign` first and looks at the algorithm of the result
(`signature.go:36-42`): with a DSA key all data is read and the agent, perhaps its
user, asked for a signature that is then thrown away.  None is returned
(`CreatedIsReadable` holds).  The run `sign_up_front` shows the request.

`doc/ALLOWED_SIGNERS.md:105` says of principals: "Backslashes do not escape quotes in
principals. The first quote opens the quoted text and the next quote closes it."
`splitFields` does not know which field it is in and takes a backslash before a quote for an
escape in all of them (`parse.go:310`).  The quotes of `"alice\"` followed by a type and a
key are then never closed and the line is skipped, although it is an entry by the document,
whose table of differences does not have it.  The line is dropped with a diagnostic, and no
line is read as something else for it (`AsGrammar` holds).  The run `principals_backslash`
shows the line.

### The bounds, and why they are enough

- `pattern_list`: patterns of up to 4 bytes, values of up to 5, lists of up to 3.
  Two `*`s with a literal between them and a value in which the literal occurs twice
  are within them; the proof covers the rest.
- `allowed_signers`: up to 3 entries: a fallback, what comes before it and what comes
  after it.  Times 0..2 around the instant 1, so that both ends are hit and missed.
- `verify_flow`: up to 2 entries, in one file or in two, since the 3 that a lookup
  needs are in `allowed_signers`.  Instants 0..3 at two to the second and words of
  two bits: a window may begin and end inside a second, and certificate bounds have
  both signs.  `EndTime` stops the clock.
- `signers_parse`: 2 diagnostics are kept instead of 64, and files of up to 5 lines, so
  that the limit is met and passed inside one file, at the border and across three.
  A line is one byte too long or just fits.
- `signer_line`: every principals field of up to 4 symbols, options field of up to 5 and
  end of a line of up to 4, and pairs of whole options with ten values.  Two scanners
  disagree only where a quote, an escape and a separator meet, which takes 4 symbols; the
  proof covers lines of any length.
- `round_trip`, reading: every text of up to 3 lines after up to 3 blanks, of which 2 may lead,
  and longer ones around a skipped block; 6 lines are the largest armor, so that it is met and
  passed.  Every wire of four key types.  A second Read meets every split of the text.
- `check_flow`: every combination of options, contradictory ones too; instants as above.
- `round_trip`, signing: keys of each type with certificates valid, not yet valid, expired and
  of a host; any subset of the keys that matter is held by the agent; a timeout of 2.
  The clock stops at 3 but the deadline goes on to pass.  Agents that return anything take
  any of the six formats and each kind of rest.
- `signers_dir`: three names, one of them not a `*.conf`, for two files, so that a name
  may be relinked to the other file; sizes from 0 to one more than the limit, which is
  2; up to two changes in a call (`MaxChange`).  The proof covers any number.
- `config`: files of up to 4 lines, five texts, among them one that is both a key and a
  valid alias name; two sections of a name with a line in each are within the bound.
- `commands`: every command with every combination of its own flags, and every command
  with any list of 2 (after `-f`, 3) out of 16 arguments: clusters, attached and missing
  values, flags of other commands, empty texts, `--`.  A value that looks like a flag and
  the flag after it take 3.

### Fairness

`WildcardMatch` and `PatternList` assume weak fairness of their next step: a function that runs
goes on.  `SignFlow` assumes it of `Tick`, time, and of `Program`, the steps for which the
program waits for nobody, expired deadlines among them (the Go runtime wakes a read when its
deadline passes).  It assumes nothing of the agent, its user, the connecting peer (whose dial
has a deadline of its own) or the reader of the data: none of them need ever answer.
`RoundTrip` keeps to that and assumes nothing of reading back.  `AllowedSigners` states no
liveness, since its loop is a `range` over the entries.  `VerifyFlow`, `CheckFlow` and
`SignersParse` state none: their readers may block for ever.  `SignersDir`, `Config`, `Commands`
and `SignatureFormat` state none either: they are a sequence of calls of the operating system,
each of which may block.  `SignerLine` takes a bounded number of steps.

## What is proved

The theorems hold for all values of the constants under the named assumptions of the
modules (`PolicyAssumption`, `FlowAssumption`, `WordAssumption`, ...), which say no
more than that requests are requests, that certificates have words as bounds, and that
times are such that `Unix()` is an `int64`.

- `SignerLineProofs`, first for WildcardMatch: `ResultIsGlob` and `Progress`.  The invariant
  (`IInv`) says that if the pattern matches at all, then some cut follows the path taken up
  to the last `*` and gives that `*` at least `mark` bytes (`LossFree`): a later `*` can
  always take over what an earlier one would have consumed.
- `SignerLineProofs`, then for PatternList: `NegationWins`, from the above; the invariant says
  what is known of the patterns passed so far (`SoFar`) and that WildcardMatch is inside a call.
- `AllowedSignersProofs`: `ImplementsLookup` and `ErrorExplainsAll`.  The invariant ties the
  three counters to the sets of candidates seen (`CountersInv`), the errors to what was wrong
  with each (`ErrsInv`), and the fallback to the first usable entry (`FallbackInv`); every
  returning action then answers the policy's verdict, all others stutter.
- `SignerLineProofs`, last for SignerLine: `LineAsGrammar`, for lines of any length.  It
  compares a scan, which knows only what was before, with a grammar, which may cut a text
  anywhere.  What they have in common is `Open`: whether a quote is open before a symbol.  It
  exists for every text (`SolvesExists`, by a least counterexample), a plain run leaves it as it
  was (`PlainRun`), a quoted one closes it with the first quote that no backslash precedes
  (`QuotedRun`), and a piece that begins where no quote is open has the same quotes open as the
  text (`OpenInPiece`).  So whatever the grammar takes for principals or options is a piece
  without an open quote at its end and without a blank outside quotes (`NamedSound`,
  `OptionsSplit`), which is what `splitFields` finds there (`ClosedField`); and a list of
  options is cut at exactly the commas that are in no quotes (`OptionsSplit`), since a cut
  inside quotes would begin a part with what is no option's name.  `KeptIs` is what the parser
  keeps of a text as one condition; it has at most one entry, and the grammar reads that one and
  no other (`KeptReads`); where it has none, the grammar has no reading either, but for one whose
  principals end in a quote after a backslash (`NoneKept`).  The invariant (`LineInv`) follows the steps: the
  fields so far are those at their places (`Found`); the options up to the cut are well-formed,
  of different names, and those of the entry (`Taken`); and a line that was skipped is not kept
  by `KeptIs`, whichever step skipped it (`Dropped`).
- `Certificate`, beside its definitions: `CertificateWindow`, that the signed comparison in
  seconds decides the stated window, but for finite ends of 2^63 and more.
- `VerifyFlowProofs`: all five safety properties of VerifyFlow and its type invariant.
  The invariant fixes the instant between the start of the call and now
  (`AtOneInstant`), says that the parsed entries are those of the files so far
  (`Gathered`), and what each status and error rests on after each phase (`Settled`).
- `CheckFlowProofs`: the three safety properties of CheckFlow and its type invariant.  The
  invariant says that the instant lies between the reading of the signature and now
  (`AtOneInstant`), that the errors are those of the checks passed so far (`Collected`), and
  that each status says whether its check is among them (`Statuses`).
- `SignatureProofs`, first for SignFlow: the type invariant and three safety properties.
  `Deadline` says when a deadline is in force, `Chosen` and `Asked` what is known of
  the key and the request, `InWindow` when the certificate was tested, `Judged` what
  a returned or refused signature was.
- `SignatureProofs`, then for SignatureFormat: `StdinAsFile`, `OneBlock`, `NotMalleable` and
  `VerifiedReadsBack`, for texts of any length cut into any pieces.  What `signatureRead`
  accepts is settled without any state: `ReadArmored` says that it is one block with blanks
  around it, although `pem.Decode` looks for a block that may be anywhere.  The invariant
  (`FormatIInv`) says that what was passed on and what is left are always the text, less the
  leading blanks once those were dropped (`ReadSoFar`), and what every phase has established
  (`Concluded`).
- `SignatureProofs`, last for RoundTrip, of which all seven are then stated, together with
  `CreatedIsReadable`.  The invariant (`RoundIInv`) is that of SignFlow, that of
  SignatureFormat once there is something to read, and that what is read back is what was
  returned (`FromHere`).  Nothing is signed any more then (`DoneStays`), a signature that is
  returned is a wire (`SignatureIsWire`), and each step is one of the two machines or the
  first of reading (`ReadBackStep`, `SignStep`, `FormatStep`).
- `AllowedSignersProofs`, then for SignersParse: `AsOneFile` and `NothingInPart`, for files of
  any number and length.  The invariant (`ParseIInv`) says what the file being parsed
  (`CurrentHas`) and the one all are appended to (`ParsedHas`) have of the lines so far: the
  entries in order and, while there is room, the diagnostics; that the counts are those of
  all faulty lines, kept or not (`Tallied`); that every line so far fits (`FitSoFar`); and
  that no file before the current one has failed, so that an error is of this one
  (`SoundSoFar`).
- `ConfigProofs`, first for SignersDir: the four safety properties.  The invariant says that
  the history has everything that is safe now (`Watched`), what the checks so far are worth
  (`Trusted`), that what is loaded and what remains add up to the limit (`Counted`), and
  which entries have been examined (`Examined`) and loaded (`Loaded`).
- `ConfigProofs`, then for Config: `ParsedAsStated` and `Unambiguous`, for files of any
  length.  The invariant (`ConfigIInv`) says that the section, the options seen and their
  values are those the lines so far give, and that these are well formed (`ParsedSoFar`);
  that a reference is resolved with the whole file or, where it cannot matter, with none of
  it (`Stages`, `Resolved`); and that a file refused for a line is not well formed, for
  which the lines after it need not be read (`LineFault`).
- `CommandsProofs`: `Sandboxed`, `ExitTells` and `FlagsTogether`.  The invariant says what has
  been opened and restricted in each phase (`AtStart`, `AtInputs`, `AtFlow`), that user errors
  come before any input (`Reported`), and that the errors of check are those of its flags
  (`FlagsTold`).
  The parser enters it only with the name of the command.
- `CommandsProofs`, then for the parser: `RanAsWritten`, for command lines of any length.  The
  steps of the run add little (`Named`: the command is the one at its place); the argument is
  about `ParseFlags`.  First, that the recursive function exists: if some position had no
  solution from it on, there would be a last one, and a solution for the positions after it
  could be continued to it (`ParsedExists`).  Then every single argument is taken as it
  reads (`TakenAtAsRead`), with its first hungry flag found by position in the code and by
  what it is in the property.  Last, by the same backward step (`ReadBackwards`): if the
  arguments from one on parse to their end, then they read as flags and values, and the flags
  given are those that are written, the last of each counting.

Each invariant was checked by TLC before it was proved.

Type invariants are proved, not run; they are the lemmas every other proof rests on.

The recursive functions that `ParsedAt` and `InQuote` read from, and the sums over files and
lines, are reasoned about by a least counterexample (`WFMin` and a well-founded order), since
the provers cannot instantiate an induction rule.

Every safety property of a run is proved.  Only model-checked: `Returns` and
`ListingEnds`, since the prover does not do liveness.

One thing `CreatedIsReadable` does not promise, because the code does not: `SignatureCreate`
looks at the algorithm of what the agent returned (`signature.go:40`), not at its structure.
An agent that answers with the format of another key, or with bytes behind the signature, has
them returned and written, and only `SignatureRead` refuses them.

## What is not modelled

- The cryptography, base64, PEM and SSH wire encodings are libraries'.  A signature
  verifies or not, a key equals another or not.
- Formatting, logging, colours, help and version texts, and JSON output decide
  nothing.  How a timestamp is written is not modelled, the instant is.
- Inspect renders a signature and decides nothing beyond SignatureRead.
- The digits of a time in an allowed signers file (`timeparse.go`) and of `-t`: a text is a
  time or not.  The bytes of a line: UTF-8 and the unprintable characters are one symbol
  that may not occur.  SignerLine's entries are not fed to SignersParse, where a line
  is an entry or malformed: the two halves of the loop are checked apart, since together
  no instance would be small.
- A flag that is declared twice, or required and unknown: the parser panics, and no command
  declares one.
- A file rewritten in place while it is read: its owner could write anything into it
  anyway.  A path swapped for a pipe between the two looks at it, which makes opening
  block.  Builds without Unix owners, where `checkInfo` accepts everything.
- The directory named by the environment, and which step of opening the config file
  failed.  The Landlock version in use, which is only reported: a path counts as denied
  wherever the kernel could deny it.
- A nil reader, signer or connection in signing, which the command never passes.

## Plan

What is left, most useful first:

1. SignerLine inside SignersParse, for lines of a few symbols: now that one line is settled
   for all lines, the two could be composed.
2. `timeparse.go`, whose texts are a time or not: which instant a text of digits is.
3. The wire encoding of a signature, should the code ever read it without the library.
