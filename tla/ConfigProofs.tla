---------------------------- MODULE ConfigProofs ----------------------------
(***************************************************************************)
(* What is read of the configuration, for files, directories and changes   *)
(* of any number.  First SignersDir's safety: what is read is trusted,     *)
(* nothing is left out or cut off, and the total is bounded.  Then         *)
(* Config's: the parser's state is at every line what the lines so far     *)
(* say, and a reference means the same with the file or without it.        *)
(***************************************************************************)
EXTENDS SignersDir, Config, FiniteSetTheorems, TLAPS

Linked == links \in [Name -> Inode \cup {NoFile}]

\* From the listing on, the history has every file and directory that is safe now.
Watched ==
    pc \in {"config", "signers", "stat", "open", "check", "read"} =>
        SafeFiles \cup SafeDirs \subseteq safeSince

Trusted ==
    /\ pc \in {"signers", "stat", "open", "check", "read"} => "config" \in safeSince
    /\ pc \in {"stat", "open", "check", "read"} => "signers" \in safeSince
    /\ pc \in {"check", "read"} => fd \in Inode
    /\ pc = "read" => fd \in safeSince

Counted ==
    /\ n \in Nat /\ total \in Nat /\ remaining \in Nat
    /\ total + remaining = Limit
    /\ n <= remaining + 1

Listed ==
    /\ entries \in Seq(Name) /\ Ascending(entries)
    /\ paths \in Seq(Conf) /\ Ascending(paths)
    /\ k \in Nat
    /\ loaded \in Seq(Conf \X BOOLEAN)

\* The *.conf names of the entries before the k-th.
Examined ==
    /\ pc \in {"list", "config", "signers"} => paths = <<>> /\ k = 0
    /\ pc = "stat" =>
         /\ k <= Len(entries)
         /\ Range(paths) = {entries[j] : j \in 1..k} \cap Conf
    /\ pc \in {"open", "check", "read"} => Range(paths) = Range(entries) \cap Conf

Loaded ==
    /\ \A j \in DOMAIN loaded : loaded[j][2]
    /\ pc \in {"list", "config", "signers", "stat"} => loaded = <<>>
    /\ pc \in {"open", "check", "read"} =>
         /\ paths # <<>>
         /\ Len(loaded) = k /\ k <= Len(paths)
         /\ \A j \in 1..k : loaded[j][1] = paths[j]
    /\ pc \in {"check", "read"} => k < Len(paths)

IInv == Linked /\ Watched /\ Trusted /\ Counted /\ Listed /\ Examined /\ Loaded /\ AllLoaded

-----------------------------------------------------------------------------

\* What the program's own steps do to the world: nothing.
LEMMA Unwatched ==
    ASSUME UNCHANGED world
    PROVE  SafeFiles' = SafeFiles /\ SafeDirs' = SafeDirs
BY DEF world, SafeFiles, SafeDirs, Safe

LEMMA LinkedKept ==
    ASSUME Linked, [Next]_vars
    PROVE  Linked'
<1> USE DEF Linked
<1>1. CASE Relink
  BY <1>1 DEF Relink
<1>2. CASE Chmod \/ Resize
  BY <1>2 DEF Chmod, Resize
<1>3. CASE UNCHANGED world
  BY <1>3 DEF world
<1>4. QED
  BY <1>1, <1>2, <1>3
     DEF Next, Others, SystemFails, SignersFiles, ReadSignersFiles, Fail, NextEntry, Keep,
         NoDirectory, ReadDir, DirRefused, StatDir, SkipEntry, Vanished, StatRefused, StatFile,
         NoFiles, EndOfDirectory, OpenFails, Open, CheckRefused, CheckOpenFile, ReadSome,
         TooLarge, Load, Done, vars

LEMMA WatchedKept ==
    ASSUME Watched, [Next]_vars
    PROVE  Watched'
<1> USE DEF Watched
<1>1. CASE Others
  BY <1>1 DEF Others, Relink, Chmod, Resize, Change, locals
<1>2. CASE ReadDir
  BY <1>2, Unwatched DEF ReadDir
<1>3. CASE Open
  <2>1. SafeFiles' = SafeFiles /\ SafeDirs' = SafeDirs
    BY <1>3, Unwatched DEF Open
  <2>2. SafeDirs \subseteq safeSince \cap Directory
    BY <1>3 DEF Open, Opening, SafeDirs
  <2>3. QED
    BY <1>3, <2>1, <2>2 DEF Open
<1>4. CASE pc' = "done"
  BY <1>4
<1>5. CASE UNCHANGED <<world, safeSince, pc>>
  BY <1>5, Unwatched
<1>6. CASE StatDir \/ EndOfDirectory \/ CheckOpenFile \/ Load
  <2>1. UNCHANGED <<world, safeSince>>
    BY <1>6 DEF StatDir, EndOfDirectory, CheckOpenFile, Load
  <2>2. pc \in {"config", "signers", "stat", "open", "check", "read"}
    BY <1>6 DEF StatDir, EndOfDirectory, CheckOpenFile, Load, Keep, EndOfFile, Directory
  <2>3. QED
    BY <2>1, <2>2, Unwatched
<1>7. QED
  <2> HIDE DEF Watched
  <2>1. \/ UNCHANGED <<world, safeSince, pc>> \/ pc' = "done"
        \/ Others \/ SignersFiles \/ ReadSignersFiles
    BY DEF Next, SystemFails, Fail, vars, locals
  <2>2. CASE SignersFiles
    BY <2>2, <1>2, <1>4, <1>5, <1>6
       DEF SignersFiles, Fail, NextEntry, NoDirectory, DirRefused, SkipEntry, Vanished,
           StatRefused, StatFile, NoFiles
  <2>3. CASE ReadSignersFiles
    BY <2>3, <1>3, <1>4, <1>5, <1>6
       DEF ReadSignersFiles, Fail, OpenFails, CheckRefused, ReadSome, TooLarge, Done
  <2>4. QED
    BY <2>1, <2>2, <2>3, <1>1, <1>4, <1>5

LEMMA CountedKept ==
    ASSUME Counted, [Next]_vars
    PROVE  Counted'
<1> USE DEF Counted
<1>1. CASE ReadSome
  <2>1. n' \in (n + 1)..(remaining + 1)
    BY <1>1 DEF ReadSome, ReadLimit
  <2>2. QED
    BY <1>1, <2>1 DEF ReadSome
<1>2. CASE Load
  BY <1>2 DEF Load, Keep
<1>3. CASE Open
  BY <1>3 DEF Open
<1>4. CASE UNCHANGED <<n, total, remaining>>
  BY <1>4
<1>5. QED
  <2> HIDE DEF Counted
  <2> QED
    BY <1>1, <1>2, <1>3, <1>4
       DEF Next, Others, Relink, Chmod, Resize, Change, locals, SystemFails, SignersFiles,
           ReadSignersFiles, Fail, NextEntry,
           NoDirectory, ReadDir, DirRefused, StatDir, SkipEntry, Vanished, StatRefused, StatFile,
           NoFiles, EndOfDirectory, OpenFails, CheckRefused, CheckOpenFile, TooLarge, Done, vars

\* The path that is opened, checked or read is one of the list.
LEMMA NextPath ==
    ASSUME Listed, k < Len(paths)
    PROVE  paths[k + 1] \in Conf /\ paths[k + 1] \in Name
<1>1. paths \in Seq(Conf) /\ k \in Nat
  BY DEF Listed
<1>2. paths[k + 1] \in Conf
  BY <1>1
<1>3. QED
  BY <1>2, DirAssumption

\* What the directory checks, and those of the open file, are worth later.
LEMMA TrustedKept ==
    ASSUME IInv, [Next]_vars
    PROVE  Trusted'
<1> USE DEF IInv, Trusted
<1>1. CASE Others
  BY <1>1 DEF Others, Relink, Chmod, Resize, Change, locals
<1>2. CASE StatDir
  <2>1. pc \in safeSince
    BY <1>2 DEF StatDir, Watched, SafeDirs, Directory
  <2>2. QED
    BY <1>2, <2>1 DEF StatDir, Directory
<1>3. CASE Open
  <2>1. paths[k + 1] \in Name
    <3>1. k < Len(paths)
      BY <1>3 DEF Open, Opening
    <3>2. QED
      BY <3>1, NextPath
  <2>2. fd' \in Inode
    BY <1>3, <2>1 DEF Open, Linked
  <2>3. QED
    BY <1>3, <2>2 DEF Open, Opening, Directory
<1>4. CASE CheckOpenFile
  <2>1. fd \in safeSince
    BY <1>4 DEF CheckOpenFile, Checked, Watched, SafeFiles
  <2>2. QED
    BY <1>4, <2>1 DEF CheckOpenFile
<1>5. CASE Load
  BY <1>5 DEF Load, Keep, EndOfFile
<1>6. CASE ReadDir \/ EndOfDirectory
  BY <1>6 DEF ReadDir, EndOfDirectory
<1>7. CASE pc' = "done"
  BY <1>7
<1>8. CASE UNCHANGED <<safeSince, fd, pc>>
  BY <1>8
<1>9. QED
  <2> HIDE DEF IInv, Trusted
  <2>1. \/ UNCHANGED <<safeSince, fd, pc>> \/ pc' = "done"
        \/ Others \/ SignersFiles \/ ReadSignersFiles
    BY DEF Next, SystemFails, Fail, vars, locals
  <2>2. CASE SignersFiles
    BY <2>2, <1>2, <1>6, <1>7, <1>8
       DEF SignersFiles, Fail, NextEntry, NoDirectory, DirRefused, SkipEntry, Vanished,
           StatRefused, StatFile, NoFiles
  <2>3. CASE ReadSignersFiles
    BY <2>3, <1>3, <1>4, <1>5, <1>7, <1>8
       DEF ReadSignersFiles, Fail, OpenFails, CheckRefused, ReadSome, TooLarge, Done
  <2>4. QED
    BY <2>1, <2>2, <2>3, <1>1, <1>7, <1>8

-----------------------------------------------------------------------------

LEMMA Appended ==
    ASSUME NEW S, NEW s \in Seq(S), NEW x \in S
    PROVE  /\ Len(s) \in Nat /\ Len(Append(s, x)) = Len(s) + 1
           /\ DOMAIN s = 1..Len(s) /\ DOMAIN Append(s, x) = 1..(Len(s) + 1)
           /\ 1..(Len(s) + 1) = 1..Len(s) \cup {Len(s) + 1}
           /\ Append(s, x)[Len(s) + 1] = x
           /\ \A j \in 1..Len(s) : Append(s, x)[j] = s[j]
OBVIOUS

\* A name of a listing is greater than all before it.
LEMMA AscendingAppend ==
    ASSUME NEW S, S \subseteq Nat, NEW s \in Seq(S), Ascending(s), NEW x \in S,
           \A y \in Range(s) : y < x
    PROVE  Ascending(Append(s, x))
<1> DEFINE t == Append(s, x)
<1>1. /\ Len(s) \in Nat /\ DOMAIN s = 1..Len(s) /\ DOMAIN t = 1..(Len(s) + 1)
      /\ t[Len(s) + 1] = x /\ \A j \in 1..Len(s) : t[j] = s[j]
  BY Appended
<1> HIDE DEF t
<1>2. SUFFICES ASSUME NEW a \in DOMAIN t, NEW b \in DOMAIN t, a < b
               PROVE  t[a] < t[b]
  BY DEF Ascending, t
<1>3. a \in 1..Len(s)
  BY <1>1, <1>2
<1>4. CASE b \in 1..Len(s)
  BY <1>2, <1>3, <1>4, <1>1 DEF Ascending
<1>5. CASE b = Len(s) + 1
  BY <1>3, <1>5, <1>1 DEF Range
<1>6. QED
  BY <1>4, <1>5, <1>1

LEMMA RangeAppend ==
    ASSUME NEW S, NEW s \in Seq(S), NEW x \in S
    PROVE  Range(Append(s, x)) = Range(s) \cup {x}
BY Appended DEF Range

\* One entry more.
LEMMA Prefix ==
    ASSUME NEW s \in Seq(Name), NEW j \in Nat, j < Len(s), Ascending(s)
    PROVE  /\ s[j + 1] \in Name
           /\ {s[a] : a \in 1..(j + 1)} = {s[a] : a \in 1..j} \cup {s[j + 1]}
           /\ \A y \in {s[a] : a \in 1..j} : y < s[j + 1]
<1>1. DOMAIN s = 1..Len(s) /\ Len(s) \in Nat /\ j + 1 \in 1..Len(s)
  OBVIOUS
<1>2. 1..(j + 1) = 1..j \cup {j + 1}
  OBVIOUS
<1>3. \A a \in 1..j : a \in 1..Len(s) /\ a < j + 1
  BY <1>1
<1>4. QED
  BY <1>1, <1>2, <1>3 DEF Ascending

LEMMA ListedKept ==
    ASSUME IInv, [Next]_vars
    PROVE  Listed'
<1>0. Listed
  BY DEF IInv
<1>1. CASE ReadDir
  <2>1. entries' \in Listings(Present)
    BY <1>1 DEF ReadDir
  <2>2. IsFiniteSet(Present)
    BY DirAssumption, FS_Subset DEF Present
  <2>3. entries' \in Seq(Name) /\ Ascending(entries')
    <3>1. entries' \in [1..Cardinality(Present) -> Name] /\ Ascending(entries')
      BY <2>1 DEF Listings, Present
    <3>2. Cardinality(Present) \in Nat
      BY <2>2, FS_CardinalityType
    <3>3. QED
      BY <3>1, <3>2
  <2>4. UNCHANGED <<paths, k, loaded>>
    BY <1>1 DEF ReadDir
  <2>5. QED
    BY <2>3, <2>4, <1>0 DEF Listed, Ascending
<1>2. CASE StatFile
  <2>1. UNCHANGED <<entries, loaded>> /\ k' = k + 1 /\ paths' = Append(paths, entry) /\ entry \in Conf
    BY <1>2 DEF StatFile, NextEntry
  <2>2. k < Len(entries) /\ Range(paths) = {entries[j] : j \in 1..k} \cap Conf
    BY <1>2 DEF StatFile, Examining, IInv, Examined
  <2>3. \A y \in Range(paths) : y < entry
    BY <2>2, <1>0, Prefix DEF Listed, entry
  <2>4. Conf \subseteq Nat /\ paths \in Seq(Conf) /\ entry \in Conf /\ Ascending(paths)
    <3>1. paths \in Seq(Conf) /\ Ascending(paths)
      BY <1>0 DEF Listed
    <3>2. Conf \subseteq Nat
      BY DirAssumption
    <3>3. QED
      BY <3>1, <3>2, <2>1
  <2>5. Ascending(Append(paths, entry))
    BY <2>3, <2>4, AscendingAppend
  <2>6. paths' \in Seq(Conf) /\ Ascending(paths')
    BY <2>1, <2>5, <1>0 DEF Listed, Ascending
  <2>7. QED
    BY <2>1, <2>6, <1>0 DEF Listed, Ascending
<1>3. CASE SkipEntry
  BY <1>3, <1>0 DEF SkipEntry, NextEntry, Listed, Ascending
<1>4. CASE EndOfDirectory
  BY <1>4, <1>0 DEF EndOfDirectory, Listed, Ascending
<1>5. CASE Load
  <2>1. k < Len(paths)
    BY <1>5 DEF Load, EndOfFile, IInv, Loaded
  <2>2. /\ UNCHANGED <<entries, paths>> /\ k' = k + 1
        /\ loaded' = Append(loaded, <<paths[k + 1], n >= files[fd].size>>)
    BY <1>5 DEF Load, Keep
  <2>3. paths[k + 1] \in Conf
    BY <2>1, <1>0, NextPath
  <2>4. (n >= files[fd].size) \in BOOLEAN
    OBVIOUS
  <2>5. loaded' \in Seq(Conf \X BOOLEAN)
    <3> DEFINE whole == n >= files[fd].size
    <3>1. whole \in BOOLEAN
      BY <2>4
    <3> HIDE DEF whole
    <3>2. <<paths[k + 1], whole>> \in Conf \X BOOLEAN
      BY <2>3, <3>1
    <3>3. loaded \in Seq(Conf \X BOOLEAN)
      BY <1>0 DEF Listed
    <3>4. QED
      BY <2>2, <3>2, <3>3 DEF whole
  <2>6. QED
    BY <2>2, <2>5, <1>0 DEF Listed, Ascending
<1>6. CASE UNCHANGED <<entries, paths, k, loaded>>
  BY <1>6, <1>0 DEF Listed, Ascending
<1>7. QED
  BY <1>1, <1>2, <1>3, <1>4, <1>5, <1>6
     DEF Next, Others, Relink, Chmod, Resize, Change, locals, SystemFails, SignersFiles,
         ReadSignersFiles, Fail, NoDirectory, DirRefused, StatDir, Vanished, StatRefused, NoFiles,
         OpenFails, Open, CheckRefused, CheckOpenFile, ReadSome, TooLarge, Done, vars

LEMMA ExaminedKept ==
    ASSUME IInv, [Next]_vars
    PROVE  Examined'
<1>0. Listed /\ Listed' /\ Examined /\ Loaded
  BY ListedKept DEF IInv
<1>1. CASE StatDir
  <2>1. paths = <<>> /\ k = 0
    BY <1>1, <1>0 DEF StatDir, Examined, Directory
  <2>2. UNCHANGED <<entries, paths, k>> /\ pc' \in {"signers", "stat"}
    BY <1>1 DEF StatDir
  <2>3. 0 <= Len(entries) /\ 1..0 = {} /\ Range(<<>>) = {}
    <3>1. Len(entries) \in Nat
      BY <1>0 DEF Listed
    <3>2. QED
      BY <3>1 DEF Range
  <2>4. QED
    BY <2>1, <2>2, <2>3 DEF Examined
<1>2. CASE SkipEntry \/ StatFile
  <2>1. /\ pc' = "stat" /\ k' = k + 1 /\ UNCHANGED entries
        /\ k < Len(entries) /\ Range(paths) = {entries[j] : j \in 1..k} \cap Conf
    BY <1>2, <1>0 DEF SkipEntry, StatFile, Examining, NextEntry, Examined
  <2>2. entries \in Seq(Name) /\ Ascending(entries) /\ k \in Nat
    BY <1>0 DEF Listed
  <2>3. k + 1 <= Len(entries)
    BY <2>1, <2>2
  <2>4. {entries[j] : j \in 1..(k + 1)} = {entries[j] : j \in 1..k} \cup {entry}
    BY <2>1, <2>2, Prefix DEF entry
  <2>5. CASE SkipEntry
    <3>1. paths' = paths /\ entry \notin Conf
      BY <2>5 DEF SkipEntry, NextEntry
    <3>2. QED
      BY <2>1, <2>3, <2>4, <3>1 DEF Examined
  <2>6. CASE StatFile
    <3>1. paths' = Append(paths, entry) /\ entry \in Conf
      BY <2>6 DEF StatFile, NextEntry
    <3>2. paths \in Seq(Conf)
      BY <1>0 DEF Listed
    <3>3. Range(Append(paths, entry)) = Range(paths) \cup {entry}
      BY <3>1, <3>2, RangeAppend
    <3>4. Range(paths') = {entries[j] : j \in 1..(k + 1)} \cap Conf
      <4> DEFINE before == {entries[j] : j \in 1..k}
                 upto == {entries[j] : j \in 1..(k + 1)}
      <4>1. Range(paths') = Range(paths) \cup {entry} /\ entry \in Conf
        BY <3>1, <3>3
      <4>2. Range(paths) = before \cap Conf /\ upto = before \cup {entry}
        BY <2>1, <2>4
      <4> HIDE DEF before, upto
      <4>3. Range(paths') = upto \cap Conf
        BY <4>1, <4>2
      <4>4. QED
        BY <4>3 DEF upto
    <3>5. QED
      BY <2>1, <2>3, <3>4 DEF Examined
  <2>7. QED
    BY <1>2, <2>5, <2>6
<1>3. CASE EndOfDirectory
  <2>1. /\ pc = "stat" /\ pc' = "open" /\ UNCHANGED <<entries, paths>> /\ k >= Len(entries)
        /\ k <= Len(entries) /\ Range(paths) = {entries[j] : j \in 1..k} \cap Conf
    BY <1>3, <1>0 DEF EndOfDirectory, Examined
  <2>2. entries \in Seq(Name) /\ k \in Nat
    BY <1>0 DEF Listed
  <2>3. {entries[j] : j \in 1..k} = Range(entries)
    BY <2>1, <2>2 DEF Range
  <2>4. QED
    BY <2>1, <2>3 DEF Examined
<1>4. CASE Load
  <2>1. pc = "read" /\ pc' = "open" /\ UNCHANGED <<entries, paths>>
    BY <1>4 DEF Load, Keep, EndOfFile
  <2>2. QED
    BY <2>1, <1>0 DEF Examined
<1>5. CASE ReadDir \/ Open \/ CheckOpenFile
  BY <1>5, <1>0 DEF ReadDir, Open, Opening, CheckOpenFile, Examined
<1>6. CASE pc' = "done"
  BY <1>6 DEF Examined
<1>7. CASE UNCHANGED <<entries, paths, k, pc>>
  BY <1>7, <1>0 DEF Examined
<1>8. QED
  <2>1. \/ UNCHANGED <<entries, paths, k, pc>> \/ pc' = "done"
        \/ SignersFiles \/ ReadSignersFiles
    BY DEF Next, Others, Relink, Chmod, Resize, Change, SystemFails, Fail, vars, locals
  <2>2. CASE SignersFiles
    BY <2>2, <1>1, <1>2, <1>3, <1>5, <1>6
       DEF SignersFiles, Fail, NoDirectory, DirRefused, Vanished, StatRefused, NoFiles
  <2>3. CASE ReadSignersFiles
    BY <2>3, <1>4, <1>5, <1>6, <1>7
       DEF ReadSignersFiles, Fail, OpenFails, CheckRefused, ReadSome, TooLarge, Done
  <2>4. QED
    BY <2>1, <2>2, <2>3, <1>6, <1>7

LEMMA LoadedKept ==
    ASSUME IInv, [Next]_vars
    PROVE  Loaded'
<1>0. Listed /\ Counted /\ Loaded
  BY DEF IInv
<1>1. CASE Load
  <2>1. /\ pc = "read" /\ pc' = "open" /\ k' = k + 1 /\ UNCHANGED paths
        /\ loaded' = Append(loaded, <<paths[k + 1], n >= files[fd].size>>)
    BY <1>1 DEF Load, Keep, EndOfFile
  <2>2. /\ paths # <<>> /\ Len(loaded) = k /\ k < Len(paths)
        /\ \A j \in 1..k : loaded[j][1] = paths[j]
        /\ \A j \in DOMAIN loaded : loaded[j][2]
    BY <2>1, <1>0 DEF Loaded
  \* What stays within the limit, and so below what may be read, is the whole file.
  <2>3. n >= files[fd].size
    <3>1. n <= remaining /\ (n >= files[fd].size \/ n >= remaining + 1)
      BY <1>1 DEF Load, EndOfFile, ReadLimit
    <3>2. n \in Nat /\ remaining \in Nat
      BY <1>0 DEF Counted
    <3>3. QED
      BY <3>1, <3>2
  <2>4. loaded' = Append(loaded, <<paths[k + 1], TRUE>>)
    BY <2>1, <2>3
  <2>5. loaded \in Seq(Conf \X BOOLEAN) /\ k \in Nat /\ paths \in Seq(Conf)
    BY <1>0 DEF Listed
  <2>6. /\ Len(loaded') = k + 1 /\ DOMAIN loaded' = 1..(k + 1)
        /\ loaded'[k + 1] = <<paths[k + 1], TRUE>>
        /\ \A j \in 1..k : loaded'[j] = loaded[j]
    <3> DEFINE pair == <<paths[k + 1], TRUE>>
               S == Conf \X BOOLEAN
    <3>1. pair \in S
      BY <2>2, <1>0, NextPath
    <3>2. loaded' = Append(loaded, pair) /\ loaded \in Seq(S)
      BY <2>4, <2>5
    <3> HIDE DEF pair, S
    <3>3. /\ Len(loaded') = Len(loaded) + 1 /\ DOMAIN loaded' = 1..(Len(loaded) + 1)
          /\ loaded'[Len(loaded) + 1] = pair
          /\ \A j \in 1..Len(loaded) : loaded'[j] = loaded[j]
      BY <3>1, <3>2, Appended
    <3>4. QED
      BY <3>3, <2>2 DEF pair
  <2>7. DOMAIN loaded = 1..k /\ 1..(k + 1) = 1..k \cup {k + 1} /\ k + 1 <= Len(paths)
    BY <2>2, <2>5
  <2>8. /\ \A j \in 1..(k + 1) : loaded'[j][1] = paths[j]
        /\ \A j \in DOMAIN loaded' : loaded'[j][2]
    <3>1. loaded'[k + 1][1] = paths[k + 1] /\ loaded'[k + 1][2] = TRUE
      BY <2>6
    <3>2. \A j \in 1..k : loaded'[j][1] = paths[j] /\ loaded'[j][2]
      BY <2>2, <2>6, <2>7
    <3>3. QED
      BY <3>1, <3>2, <2>6, <2>7
  <2>9. QED
    BY <2>1, <2>2, <2>6, <2>7, <2>8 DEF Loaded
<1>2. CASE EndOfDirectory
  <2>1. /\ pc = "stat" /\ pc' = "open" /\ UNCHANGED <<paths, loaded>> /\ paths # <<>>
        /\ loaded = <<>> /\ k' = 0
    BY <1>2, <1>0 DEF EndOfDirectory, Loaded
  <2>2. 0 <= Len(paths) /\ Len(<<>>) = 0 /\ 1..0 = {} /\ DOMAIN <<>> = {}
    <3>1. Len(paths) \in Nat
      BY <1>0 DEF Listed
    <3>2. QED
      BY <3>1
  <2>3. QED
    BY <2>1, <2>2 DEF Loaded
<1>3. CASE Open \/ CheckOpenFile
  BY <1>3, <1>0 DEF Open, Opening, CheckOpenFile, Loaded
<1>4. CASE SkipEntry \/ StatFile \/ StatDir \/ ReadDir
  BY <1>4, <1>0
     DEF SkipEntry, StatFile, NextEntry, Examining, StatDir, ReadDir, Directory, Loaded
<1>5. CASE pc' = "done" /\ UNCHANGED loaded
  BY <1>5, <1>0 DEF Loaded
<1>6. CASE UNCHANGED <<paths, k, loaded, pc>>
  BY <1>6, <1>0 DEF Loaded
<1>7. QED
  BY <1>1, <1>2, <1>3, <1>4, <1>5, <1>6
     DEF Next, Others, Relink, Chmod, Resize, Change, locals, SystemFails, SignersFiles,
         ReadSignersFiles, Fail, NoDirectory, DirRefused, Vanished, StatRefused, NoFiles,
         OpenFails, CheckRefused, ReadSome, TooLarge, Done, vars

\* AllLoaded holds when the last file has been dealt with, since all of the list has been.
LEMMA LoadedToTheEnd ==
    ASSUME IInv, [Next]_vars
    PROVE  AllLoaded'
<1>0. Listed /\ Examined /\ Loaded /\ AllLoaded
  BY DEF IInv
<1>1. CASE Done
  <2>1. /\ pc = "open" /\ k >= Len(paths) /\ UNCHANGED <<entries, paths, loaded>>
    BY <1>1 DEF Done
  <2>2. /\ paths # <<>> /\ Len(loaded) = k /\ k <= Len(paths)
        /\ \A j \in 1..k : loaded[j][1] = paths[j]
        /\ Range(paths) = Range(entries) \cap Conf
    BY <2>1, <1>0 DEF Loaded, Examined
  <2>3. loaded \in Seq(Conf \X BOOLEAN) /\ k \in Nat /\ paths \in Seq(Conf) /\ Ascending(paths)
    BY <1>0 DEF Listed
  <2>4. k = Len(paths) /\ DOMAIN loaded = 1..k /\ DOMAIN paths = 1..k
    BY <2>1, <2>2, <2>3
  <2>5. [j \in DOMAIN loaded |-> loaded[j][1]] = paths
    BY <2>2, <2>3, <2>4
  <2>6. loaded # <<>>
    BY <2>2, <2>3, <2>4
  <2>7. QED
    BY <2>1, <2>2, <2>3, <2>5, <2>6 DEF AllLoaded, Succeeded
<1>2. CASE UNCHANGED <<entries, loaded, err, pc>>
  BY <1>2, <1>0 DEF AllLoaded, Succeeded, Ascending, Range
<1>3. CASE err' # "none" \/ pc' # "done"
  BY <1>3 DEF AllLoaded, Succeeded
<1>4. CASE Fail("missing") \/ Fail("system") \/ Fail("unsafe") \/ Fail("irregular")
             \/ Fail("too large")
  BY <1>3, <1>4 DEF Fail
<1>5. CASE ReadDir \/ StatDir \/ SkipEntry \/ StatFile \/ EndOfDirectory \/ Open
             \/ CheckOpenFile \/ ReadSome \/ Load
  BY <1>3, <1>5
     DEF ReadDir, StatDir, SkipEntry, StatFile, Examining, NextEntry, EndOfDirectory, Open,
         CheckOpenFile, ReadSome, Load, Keep
<1>6. CASE Others \/ UNCHANGED vars
  BY <1>2, <1>6 DEF Others, Relink, Chmod, Resize, Change, vars, locals
<1>7. QED
  BY <1>1, <1>4, <1>5, <1>6
     DEF Next, SystemFails, SignersFiles, ReadSignersFiles, NoDirectory, DirRefused, Vanished,
         StatRefused, NoFiles, OpenFails, CheckRefused, TooLarge

-----------------------------------------------------------------------------

LEMMA IInvInit == Init => IInv
<1> SUFFICES ASSUME Init
             PROVE  IInv
  OBVIOUS
<1>1. Linked
  BY DirAssumption DEF Init, World, Linked
<1>2. Watched /\ Trusted
  BY DEF Init, Watched, Trusted
<1>3. Counted
  BY DirAssumption DEF Init, Counted
<1>4. Listed
  <2>1. <<>> \in Seq(Name) /\ <<>> \in Seq(Conf) /\ <<>> \in Seq(Conf \X BOOLEAN) /\ 0 \in Nat
    OBVIOUS
  <2>2. Ascending(<<>>)
    BY DEF Ascending
  <2>3. QED
    BY <2>1, <2>2 DEF Init, Listed
<1>5. Examined /\ Loaded /\ AllLoaded
  BY DEF Init, Examined, Loaded, AllLoaded, Succeeded
<1>6. QED
  BY <1>1, <1>2, <1>3, <1>4, <1>5 DEF IInv

LEMMA IInvStep == IInv /\ [Next]_vars => IInv'
BY LinkedKept, WatchedKept, TrustedKept, CountedKept, ListedKept, ExaminedKept, LoadedKept,
   LoadedToTheEnd
   DEF IInv

LEMMA Invariance == Spec => []IInv
BY IInvInit, IInvStep, PTL DEF Spec

\* A file is read only if it has been safe since it was opened, and the directories since
\* they were listed, however many changes are made and whenever.
THEOREM FilesTrusted == Spec => []TrustedWhenRead
<1>1. IInv => TrustedWhenRead
  BY DEF IInv, Trusted, TrustedWhenRead, Directory
<1>2. QED
  BY <1>1, Invariance, PTL

\* Success means that every *.conf of the listing was loaded, in order.
THEOREM FilesComplete == Spec => []AllLoaded
<1>1. IInv => AllLoaded
  BY DEF IInv
<1>2. QED
  BY <1>1, Invariance, PTL

\* No file is cut off where the limit is, whatever its size is meanwhile.
THEOREM FilesWhole == Spec => []WholeFiles
<1>1. IInv => WholeFiles
  BY DEF IInv, Loaded, WholeFiles
<1>2. QED
  BY <1>1, Invariance, PTL

\* For every limit, number and size of files, the total stays within it.
THEOREM TotalBounded == Spec => []BoundedTotal
<1>1. Counted => BoundedTotal
  BY DirAssumption DEF Counted, BoundedTotal
<1>2. IInv => BoundedTotal
  BY <1>1 DEF IInv
<1>3. QED
  BY <1>2, Invariance, PTL

-----------------------------------------------------------------------------

\* The lines up to m that give an option.
InForce(ls, m, sect, name) == {x \in Giving(ls, sect, name) : x <= m}

\* The file is well formed as far as its first m lines go.
FormedTo(ls, m) ==
    /\ \A x \in 1..m : ls[x].kind # "malformed" /\ ls[x] # [kind |-> "header", section |-> "other"]
    /\ \A x \in OptionLines(ls) : x <= m =>
         /\ ls[x].value # NoText
         /\ InForce(ls, m, SectionOf(ls, x), ls[x].name) = {x}
         /\ Known(ls, x)

\* The value of an option after m lines.
ReadAs(ls, m, sect, name, value) ==
    /\ InForce(ls, m, sect, name) = {} => value = NoText
    /\ \A x \in InForce(ls, m, sect, name) : value = ls[x].value

\* The section of the last of some headers.
SectionOfLast(ls, H) ==
    IF H = {} THEN "none" ELSE ls[CHOOSE h \in H : \A g \in H : g <= h].section

\* The header that is in force for a line is that of the line before, or the same.
LEMMA SectionFacts ==
    ASSUME NEW ls \in Seq(Line), NEW m \in 1..Len(ls)
    PROVE  /\ SectionOf(ls, 1) = "none"
           /\ SectionOf(ls, m + 1) =
                IF ls[m].kind = "header" THEN ls[m].section ELSE SectionOf(ls, m)
<1>1. SectionOf(ls, 1) = "none"
  BY DEF SectionOf, HeadersBefore
<1>2. CASE ls[m].kind = "header"
  <2> DEFINE H == HeadersBefore(ls, m + 1)
  <2>1. m \in H /\ \A g \in H : g \in Nat /\ g <= m
    BY <1>2 DEF HeadersBefore
  <2> HIDE DEF H
  <2> DEFINE c == CHOOSE h \in H : \A g \in H : g <= h
  <2>2. c \in H /\ \A g \in H : g <= c
    BY <2>1, Zenon
  <2>3. SectionOf(ls, m + 1) = ls[c].section
    <3>1. SectionOf(ls, m + 1) = SectionOfLast(ls, H)
      BY Zenon DEF SectionOf, SectionOfLast, H
    <3>2. QED
      BY <2>1, <3>1, Zenon DEF SectionOfLast
  <2> HIDE DEF c
  <2>4. c = m
    BY <2>1, <2>2
  <2>5. QED
    BY <1>1, <1>2, <2>3, <2>4
<1>3. CASE ls[m].kind # "header"
  <2>1. HeadersBefore(ls, m + 1) = HeadersBefore(ls, m)
    BY <1>3 DEF HeadersBefore
  <2>2. SectionOf(ls, m + 1) = SectionOf(ls, m)
    <3>1. \A x \in {m, m + 1} : SectionOf(ls, x) = SectionOfLast(ls, HeadersBefore(ls, x))
      BY Zenon DEF SectionOf, SectionOfLast
    <3>2. QED
      BY <2>1, <3>1
  <2>3. QED
    BY <1>1, <1>3, <2>2
<1>4. QED
  BY <1>2, <1>3

\* What one more line adds.
LEMMA InForceFacts ==
    ASSUME NEW ls \in Seq(Line), NEW m \in Nat, m < Len(ls), NEW sect, NEW name
    PROVE  IF /\ ls[m + 1].kind = "option"
              /\ SectionOf(ls, m + 1) = sect /\ ls[m + 1].name = name
           THEN InForce(ls, m + 1, sect, name) = InForce(ls, m, sect, name) \cup {m + 1}
           ELSE InForce(ls, m + 1, sect, name) = InForce(ls, m, sect, name)
<1>1. DOMAIN ls = 1..Len(ls) /\ Len(ls) \in Nat /\ m + 1 \in DOMAIN ls
  OBVIOUS
<1> DEFINE before == InForce(ls, m, sect, name)
           after == InForce(ls, m + 1, sect, name)
<1>2. ASSUME NEW x \in DOMAIN ls PROVE x <= m + 1 <=> x <= m \/ x = m + 1
  BY <1>1
<1>3. m + 1 \in after
        <=> /\ ls[m + 1].kind = "option"
            /\ SectionOf(ls, m + 1) = sect /\ ls[m + 1].name = name
  BY <1>1 DEF InForce, Giving, OptionLines
<1>4. \A x : x \in after <=> x \in before \/ (x = m + 1 /\ m + 1 \in after)
  BY <1>1, <1>2 DEF InForce, Giving, OptionLines
<1> HIDE DEF before, after
<1>5. CASE m + 1 \in after
  <2>1. after = before \cup {m + 1}
    BY <1>4, <1>5
  <2>2. QED
    BY <1>3, <1>5, <2>1 DEF before, after
<1>6. CASE m + 1 \notin after
  <2>1. after = before
    BY <1>4, <1>6
  <2>2. QED
    BY <1>3, <1>6, <2>1 DEF before, after
<1>7. QED
  BY <1>5, <1>6

\* What no line and all lines give.
LEMMA InForceEnds ==
    ASSUME NEW ls \in Seq(Line), NEW sect, NEW name
    PROVE  /\ InForce(ls, 0, sect, name) = {}
           /\ InForce(ls, Len(ls), sect, name) = Giving(ls, sect, name)
<1>1. DOMAIN ls = 1..Len(ls) /\ Len(ls) \in Nat
  OBVIOUS
<1>2. QED
  BY <1>1 DEF InForce, Giving, OptionLines

\* A line of another kind changes nothing, and an option only what it gives.
LEMMA FormedStep ==
    ASSUME NEW ls \in Seq(Line), NEW m \in Nat, m < Len(ls), FormedTo(ls, m),
           ls[m + 1].kind # "malformed", ls[m + 1] # [kind |-> "header", section |-> "other"],
           ls[m + 1].kind = "option" =>
             /\ ls[m + 1].value # NoText
             /\ InForce(ls, m, SectionOf(ls, m + 1), ls[m + 1].name) = {}
             /\ Known(ls, m + 1)
    PROVE  FormedTo(ls, m + 1)
<1>1. DOMAIN ls = 1..Len(ls) /\ Len(ls) \in Nat /\ m + 1 \in DOMAIN ls
  OBVIOUS
<1>2. \A x \in 1..m + 1 : ls[x].kind # "malformed" /\ ls[x] # [kind |-> "header", section |-> "other"]
  <2>1. \A x \in 1..m + 1 : x \in 1..m \/ x = m + 1
    OBVIOUS
  <2>2. QED
    BY <2>1 DEF FormedTo
<1>3. ASSUME NEW x \in OptionLines(ls), x <= m + 1
      PROVE  /\ ls[x].value # NoText
             /\ InForce(ls, m + 1, SectionOf(ls, x), ls[x].name) = {x}
             /\ Known(ls, x)
  <2>1. x \in 1..Len(ls) /\ ls[x].kind = "option"
    BY <1>1 DEF OptionLines
  <2>2. CASE x = m + 1
    <3>1. InForce(ls, m + 1, SectionOf(ls, x), ls[x].name)
            = InForce(ls, m, SectionOf(ls, x), ls[x].name) \cup {x}
      BY <2>1, <2>2, InForceFacts
    <3>2. QED
      BY <2>1, <2>2, <3>1
  <2>3. CASE x # m + 1
    <3>1. x <= m
      BY <1>3, <2>1, <2>3
    <3>2. /\ ls[x].value # NoText /\ Known(ls, x)
          /\ InForce(ls, m, SectionOf(ls, x), ls[x].name) = {x}
      BY <3>1 DEF FormedTo
    <3>3. ~(/\ ls[m + 1].kind = "option"
            /\ SectionOf(ls, m + 1) = SectionOf(ls, x) /\ ls[m + 1].name = ls[x].name)
      BY <3>2
    <3>4. InForce(ls, m + 1, SectionOf(ls, x), ls[x].name)
            = InForce(ls, m, SectionOf(ls, x), ls[x].name)
      BY <3>3, InForceFacts
    <3>5. QED
      BY <3>2, <3>4
  <2>4. QED
    BY <2>2, <2>3
<1>4. QED
  BY <1>2, <1>3 DEF FormedTo

\* The whole file.
LEMMA FormedWhole ==
    ASSUME NEW ls \in Seq(Line)
    PROVE  FormedTo(ls, Len(ls)) <=> WellFormed(ls)
<1>1. DOMAIN ls = 1..Len(ls) /\ \A x \in OptionLines(ls) : x <= Len(ls)
  BY DEF OptionLines
<1>2. \A x \in OptionLines(ls) :
        InForce(ls, Len(ls), SectionOf(ls, x), ls[x].name) = Giving(ls, SectionOf(ls, x), ls[x].name)
  BY InForceEnds
<1>3. QED
  BY <1>1, <1>2 DEF FormedTo, WellFormed

LEMMA ReadWhole ==
    ASSUME NEW ls \in Seq(Line), NEW sect, NEW name, NEW value,
           ReadAs(ls, Len(ls), sect, name, value)
    PROVE  value = Value(ls, sect, name)
<1> DEFINE G == Giving(ls, sect, name)
<1>1. (G = {} => value = NoText) /\ \A x \in G : value = ls[x].value
  BY InForceEnds DEF ReadAs
<1> HIDE DEF G
<1>2. G # {} => (CHOOSE x \in G : TRUE) \in G
  OBVIOUS
<1>3. Value(ls, sect, name) = IF G = {} THEN NoText ELSE ls[CHOOSE x \in G : TRUE].value
  BY Zenon DEF Value, G
<1>4. QED
  BY <1>1, <1>2, <1>3

-----------------------------------------------------------------------------

ConfigOK ==
    /\ request \in Request
    /\ i \in Nat /\ i <= Len(lines)
    /\ signKey \in Text \cup {NoText}
    /\ aliases \in [Text -> Text \cup {NoText}]
    /\ key \in Key \cup {NoKey}

\* What the parser has is what the lines so far say.
ParsedSoFar ==
    /\ section = SectionOf(lines, i + 1)
    /\ \A sect, name : <<sect, name>> \in seen <=> InForce(lines, i, sect, name) # {}
    /\ FormedTo(lines, i)
    /\ ReadAs(lines, i, "sign", KeyOption, signKey)
    /\ \A t \in Text : ReadAs(lines, i, "alias", t, aliases[t])

\* A reference is resolved with all of the file, or without any when it cannot matter.
Consulted ==
    IF ConfigNeeded /\ request.place = "safe" THEN i = Len(lines)
    ELSE i = 0 /\ (ConfigNeeded => request.place = "missing")

Stages ==
    /\ phase \in {"start", "parse", "resolve", "done"}
    /\ phase = "start" => i = 0
    /\ phase = "parse" => ConfigNeeded /\ request.place = "safe"
    /\ phase = "resolve" => Consulted
    /\ phase # "done" => refusal = "none" /\ key = NoKey

Resolved ==
    phase = "done" =>
      /\ refusal \in {"none", "config", "line", "missing", "reference"}
      /\ refusal \in {"config", "line"} => ConfigNeeded
      /\ refusal \in {"none", "missing", "reference"} => Consulted
      /\ refusal = "missing" => Wanted = NoText
      /\ refusal = "reference" =>
           Wanted # NoText /\ (Referenced # NoText => KeyOf[Referenced] = NoKey)
      /\ refusal = "none" =>
           /\ Wanted # NoText /\ Referenced # NoText
           /\ key = KeyOf[Referenced] /\ key # NoKey
      /\ refusal # "none" => key = NoKey

LineFault == refusal = "line" => ~WellFormed(lines)

ConfigIInv == ConfigOK /\ ParsedSoFar /\ Stages /\ Resolved /\ LineFault

-----------------------------------------------------------------------------

LEMMA InitConfigIInv ==
    ASSUME ConfigInit
    PROVE  ConfigIInv
<1> USE ConfigAssumption
<1>1. request \in Request /\ lines \in Seq(Line) /\ i = 0
  BY DEF ConfigInit, Request, lines
<1>2. ConfigOK
  BY <1>1 DEF ConfigInit, ConfigOK
<1>3. \A sect, name : InForce(lines, 0, sect, name) = {}
  BY <1>1, InForceEnds
<1>4. FormedTo(lines, 0)
  BY <1>1 DEF FormedTo, OptionLines
<1>5. section = SectionOf(lines, i + 1)
  BY <1>1 DEF ConfigInit, SectionOf, HeadersBefore
<1>6. \A t \in Text : aliases[t] = NoText
  BY DEF ConfigInit
<1>7. ParsedSoFar
  BY <1>1, <1>3, <1>4, <1>5, <1>6 DEF ConfigInit, ParsedSoFar, ReadAs
<1>8. Stages /\ Resolved /\ LineFault
  BY <1>1 DEF ConfigInit, Stages, Resolved, LineFault
<1>9. QED
  BY <1>2, <1>7, <1>8 DEF ConfigIInv

\* The parser and the file are as they were.
LEMMA ConfigKept ==
    ASSUME ConfigIInv, UNCHANGED <<request, i, config>>, key' \in Key \cup {NoKey}
    PROVE  ConfigOK' /\ ParsedSoFar'
<1>1. /\ request' = request /\ i' = i /\ section' = section /\ seen' = seen
      /\ signKey' = signKey /\ aliases' = aliases /\ lines' = lines
  BY DEF config, lines
<1>2. ConfigOK'
  BY <1>1 DEF ConfigIInv, ConfigOK
<1>3. ParsedSoFar'
  BY <1>1 DEF ConfigIInv, ParsedSoFar
<1>4. QED
  BY <1>2, <1>3

\* What depends on the reference and the file only.
LEMMA ConsultedKept ==
    ASSUME UNCHANGED <<request, i, signKey, aliases>>
    PROVE  /\ ConfigNeeded' = ConfigNeeded /\ Consulted' = Consulted /\ lines' = lines
           /\ ref' = ref /\ Wanted' = Wanted /\ Referenced' = Referenced
           /\ Parsing' => i < Len(lines)
BY DEF ConfigNeeded, Consulted, lines, ref, Wanted, Referenced, Parsing, MayBeAlias

\* A reference that needs no file, or has none, is resolved without.
LEMMA SkipConfigStep ==
    ASSUME ConfigIInv, SkipConfig \/ NoConfig
    PROVE  ConfigIInv'
<1>1. /\ phase = "start" /\ phase' = "resolve" /\ refusal' = refusal /\ key' = key
      /\ UNCHANGED <<request, i, config>>
      /\ ConfigNeeded => request.place = "missing"
  BY DEF SkipConfig, NoConfig, Go
<1>2. i = 0 /\ refusal = "none" /\ key = NoKey
  BY <1>1 DEF ConfigIInv, Stages
<1>3. ConfigOK' /\ ParsedSoFar'
  <2>1. key' \in Key \cup {NoKey}
    BY <1>1 DEF ConfigIInv, ConfigOK
  <2>2. QED
    BY <1>1, <2>1, ConfigKept
<1>4. Consulted'
  <2>1. Consulted
    BY <1>1, <1>2 DEF Consulted
  <2>2. QED
    BY <1>1, <2>1, ConsultedKept DEF config
<1>5. Stages' /\ Resolved' /\ LineFault'
  BY <1>1, <1>2, <1>4 DEF Stages, Resolved, LineFault
<1>6. QED
  BY <1>3, <1>5 DEF ConfigIInv

\* A file that may not be used, or that is needed and is read.
LEMMA OpenConfigStep ==
    ASSUME ConfigIInv, ConfigRefused \/ LoadConfig
    PROVE  ConfigIInv'
<1>1. /\ phase = "start" /\ ConfigNeeded /\ key' = key
      /\ UNCHANGED <<request, i, config>>
      /\ \/ phase' = "done" /\ refusal' = "config"
         \/ phase' = "parse" /\ refusal' = refusal /\ request.place = "safe"
  BY DEF ConfigRefused, LoadConfig, Go, Refuse
<1>2. refusal = "none" /\ key = NoKey
  BY <1>1 DEF ConfigIInv, Stages
<1>3. ConfigOK' /\ ParsedSoFar'
  <2>1. key' \in Key \cup {NoKey}
    BY <1>1 DEF ConfigIInv, ConfigOK
  <2>2. QED
    BY <1>1, <2>1, ConfigKept
<1>4. ConfigNeeded' = ConfigNeeded /\ request' = request
  BY <1>1, ConsultedKept DEF config
<1>5. Stages' /\ Resolved' /\ LineFault'
  BY <1>1, <1>2, <1>4 DEF Stages, Resolved, LineFault
<1>6. QED
  BY <1>3, <1>5 DEF ConfigIInv

\* Reading fails, or ends with the last line.
LEMMA ReadEndsStep ==
    ASSUME ConfigIInv, ReadFails \/ EndOfConfig
    PROVE  ConfigIInv'
<1>1. /\ phase = "parse" /\ key' = key
      /\ UNCHANGED <<request, i, config>>
      /\ \/ phase' = "done" /\ refusal' = "config"
         \/ phase' = "resolve" /\ refusal' = refusal /\ i >= Len(lines)
  BY DEF ReadFails, EndOfConfig, Go, Refuse
<1>2. refusal = "none" /\ key = NoKey /\ ConfigNeeded /\ request.place = "safe"
  BY <1>1 DEF ConfigIInv, Stages
<1>3. ConfigOK' /\ ParsedSoFar'
  <2>1. key' \in Key \cup {NoKey}
    BY <1>1 DEF ConfigIInv, ConfigOK
  <2>2. QED
    BY <1>1, <2>1, ConfigKept
<1>4. i >= Len(lines) => Consulted
  <2>1. i \in Nat /\ i <= Len(lines) /\ Len(lines) \in Nat
    BY DEF ConfigIInv, ConfigOK, lines, Request
  <2>2. QED
    BY <1>2, <2>1 DEF Consulted
<1>5. ConfigNeeded' = ConfigNeeded /\ Consulted' = Consulted /\ request' = request
  BY <1>1, ConsultedKept DEF config
<1>6. Stages' /\ Resolved' /\ LineFault'
  BY <1>1, <1>2, <1>4, <1>5 DEF Stages, Resolved, LineFault
<1>7. QED
  BY <1>3, <1>6 DEF ConfigIInv

\* What the reference comes to.
LEMMA ResolveStep ==
    ASSUME ConfigIInv, NoReference \/ Resolve \/ ReferenceRefused
    PROVE  ConfigIInv'
<1>1. /\ phase = "resolve" /\ phase' = "done"
      /\ UNCHANGED <<request, i, config>>
      /\ \/ Wanted = NoText /\ refusal' = "missing" /\ key' = key
         \/ /\ Wanted # NoText /\ Referenced # NoText /\ KeyOf[Referenced] # NoKey
            /\ refusal' = refusal /\ key' = KeyOf[Referenced]
         \/ /\ Wanted # NoText /\ (Referenced # NoText => KeyOf[Referenced] = NoKey)
            /\ refusal' = "reference" /\ key' = key
  BY Zenon DEF NoReference, Resolve, ReferenceRefused, Refuse
<1>2. Consulted /\ refusal = "none" /\ key = NoKey
  BY <1>1 DEF ConfigIInv, Stages
<1>3. Wanted \in Text \cup {NoText} /\ Referenced \in Text \cup {NoText}
  <2>1. ref \in Text \cup {NoText} /\ signKey \in Text \cup {NoText}
    BY DEF ConfigIInv, ConfigOK, ref, Request
  <2>2. Wanted \in Text \cup {NoText}
    BY <2>1 DEF Wanted
  <2>3. Wanted \in AliasName => aliases[Wanted] \in Text \cup {NoText}
    BY ConfigAssumption DEF ConfigIInv, ConfigOK
  <2>4. QED
    BY <2>2, <2>3 DEF Referenced
<1>4. key' \in Key \cup {NoKey}
  BY <1>1, <1>2, <1>3, ConfigAssumption
<1>5. ConfigOK' /\ ParsedSoFar'
  BY <1>1, <1>4, ConfigKept
<1>6. Consulted' = Consulted /\ Wanted' = Wanted /\ Referenced' = Referenced
  BY <1>1, ConsultedKept DEF config
<1>7. Stages' /\ Resolved' /\ LineFault'
  BY <1>1, <1>2, <1>6 DEF Stages, Resolved, LineFault
<1>8. QED
  BY <1>5, <1>7 DEF ConfigIInv

\* One line further, if the parser's state follows it.
LEMMA ParsedStep ==
    ASSUME ConfigIInv, Parsing, Parsed, ConfigOK', ParsedSoFar'
    PROVE  ConfigIInv'
<1>1. /\ phase = "parse" /\ phase' = "parse" /\ refusal' = refusal /\ key' = key
      /\ request' = request
  BY DEF Parsing, Parsed
<1>2. ConfigNeeded' = ConfigNeeded
  BY <1>1 DEF ConfigNeeded, ref, MayBeAlias
<1>3. Stages' /\ Resolved' /\ LineFault'
  BY <1>1, <1>2 DEF ConfigIInv, Stages, Resolved, LineFault
<1>4. QED
  BY <1>3 DEF ConfigIInv

\* What the parser has, and where it is.
LEMMA ParsingFacts ==
    ASSUME ConfigIInv, Parsing
    PROVE  /\ lines \in Seq(Line) /\ i \in Nat /\ i < Len(lines) /\ i + 1 \in 1..Len(lines)
           /\ line \in Line /\ line = lines[i + 1]
           /\ FormedTo(lines, i)
           /\ SectionOf(lines, i + 1) = section
           /\ SectionOf(lines, i + 2) = IF line.kind = "header" THEN line.section ELSE section
<1>1. lines \in Seq(Line) /\ i \in Nat /\ i < Len(lines)
  BY DEF ConfigIInv, ConfigOK, Request, lines, Parsing
<1>2. Len(lines) \in Nat /\ i + 1 \in 1..Len(lines) /\ (i + 1) + 1 = i + 2
  BY <1>1
<1>3. line \in Line /\ line = lines[i + 1]
  BY <1>1, <1>2 DEF line
<1>4. FormedTo(lines, i) /\ SectionOf(lines, i + 1) = section
  BY DEF ConfigIInv, ParsedSoFar
<1>5. SectionOf(lines, i + 2) = IF line.kind = "header" THEN line.section ELSE section
  BY <1>1, <1>2, <1>3, <1>4, SectionFacts
<1>6. QED
  BY <1>1, <1>2, <1>3, <1>4, <1>5

LEMMA BlankHeaderStep ==
    ASSUME ConfigIInv, Blank \/ Header
    PROVE  ConfigIInv'
<1>1. /\ Parsing /\ Parsed
      /\ line.kind = "blank" \/ (line.kind = "header" /\ line.section # "other")
      /\ section' = IF line.kind = "header" THEN line.section ELSE section
      /\ seen' = seen /\ signKey' = signKey /\ aliases' = aliases
      /\ i' = i + 1 /\ lines' = lines /\ request' = request /\ key' = key
  BY DEF Blank, Header, config, Parsed, lines
<1>2. /\ lines \in Seq(Line) /\ i \in Nat /\ i < Len(lines) /\ line = lines[i + 1]
      /\ FormedTo(lines, i) /\ Len(lines) \in Nat
      /\ SectionOf(lines, i + 2) = IF line.kind = "header" THEN line.section ELSE section
  BY <1>1, ParsingFacts
<1>3. ConfigOK'
  BY <1>1, <1>2 DEF ConfigIInv, ConfigOK
<1>4. FormedTo(lines, i + 1)
  <2>1. line.kind # "malformed" /\ line.kind # "option"
        /\ line # [kind |-> "header", section |-> "other"]
    BY <1>1
  <2>2. QED
    BY <1>2, <2>1, FormedStep
<1>5. \A sect, name : InForce(lines, i + 1, sect, name) = InForce(lines, i, sect, name)
  BY <1>1, <1>2, InForceFacts
<1>6. ParsedSoFar'
  <2>1. section' = SectionOf(lines', i' + 1)
    <3>1. i' + 1 = i + 2
      BY <1>1, <1>2
    <3>2. QED
      BY <1>1, <1>2, <3>1
  <2>2. \A sect, name : <<sect, name>> \in seen <=> InForce(lines, i, sect, name) # {}
    BY DEF ConfigIInv, ParsedSoFar
  <2>3. ReadAs(lines, i + 1, "sign", KeyOption, signKey)
    BY <1>5 DEF ConfigIInv, ParsedSoFar, ReadAs
  <2>4. \A t \in Text : ReadAs(lines, i + 1, "alias", t, aliases[t])
    BY <1>5 DEF ConfigIInv, ParsedSoFar, ReadAs
  <2>5. QED
    BY <1>1, <1>4, <1>5, <2>1, <2>2, <2>3, <2>4 DEF ParsedSoFar
<1>7. QED
  BY <1>1, <1>3, <1>6, ParsedStep

LEMMA OptionStep ==
    ASSUME ConfigIInv, Option
    PROVE  ConfigIInv'
<1>1. /\ Parsing /\ Parsed /\ line.kind = "option" /\ Allowed(line.name, line.value)
      /\ section' = section /\ seen' = seen \cup {<<section, line.name>>}
      /\ section = "sign" => signKey' = line.value /\ aliases' = aliases
      /\ section # "sign" =>
           signKey' = signKey /\ aliases' = [aliases EXCEPT ![line.name] = line.value]
      /\ i' = i + 1 /\ lines' = lines /\ request' = request /\ key' = key
  BY Zenon DEF Option, Parsed, lines
<1>2. /\ lines \in Seq(Line) /\ i \in Nat /\ i < Len(lines) /\ line = lines[i + 1]
      /\ FormedTo(lines, i) /\ Len(lines) \in Nat
      /\ SectionOf(lines, i + 1) = section /\ SectionOf(lines, i + 2) = section
  BY <1>1, ParsingFacts
<1>3. line.name \in Text /\ line.value \in Text \cup {NoText}
  BY <1>1, ParsingFacts DEF Line
<1>4. /\ line.value # NoText /\ <<section, line.name>> \notin seen
      /\ \/ section = "sign" /\ line.name = KeyOption
         \/ section = "alias" /\ CheckAlias(line.name, line.value)
  BY <1>1 DEF Allowed
<1>5. ConfigOK'
  BY <1>1, <1>2, <1>3 DEF ConfigIInv, ConfigOK
<1>6. \A sect, name : <<sect, name>> \in seen <=> InForce(lines, i, sect, name) # {}
  BY DEF ConfigIInv, ParsedSoFar
<1>7. FormedTo(lines, i + 1)
  <2>1. Known(lines, i + 1)
    BY <1>2, <1>4 DEF Known
  <2>2. InForce(lines, i, section, line.name) = {}
    BY <1>4, <1>6
  <2>3. /\ lines \in Seq(Line) /\ i \in Nat /\ i < Len(lines) /\ FormedTo(lines, i)
        /\ line.kind = "option" /\ line = lines[i + 1]
    BY <1>1, <1>2
  <2>4. line.kind # "malformed" /\ line # [kind |-> "header", section |-> "other"]
    BY <2>3
  <2>5. QED
    BY <1>2, <1>4, <2>1, <2>2, <2>3, <2>4, FormedStep, Zenon
<1>8. ASSUME NEW sect, NEW name
      PROVE  InForce(lines, i + 1, sect, name) =
               IF sect = section /\ name = line.name THEN {i + 1} ELSE InForce(lines, i, sect, name)
  <2>1. CASE sect = section /\ name = line.name
    <3>1. InForce(lines, i + 1, sect, name) = InForce(lines, i, sect, name) \cup {i + 1}
      BY <1>1, <1>2, <2>1, InForceFacts
    <3>2. InForce(lines, i, sect, name) = {}
      BY <1>4, <1>6, <2>1
    <3>3. QED
      BY <2>1, <3>1, <3>2
  <2>2. CASE ~(sect = section /\ name = line.name)
    <3>1. InForce(lines, i + 1, sect, name) = InForce(lines, i, sect, name)
      BY <1>2, <2>2, InForceFacts
    <3>2. QED
      BY <2>2, <3>1
  <2>3. QED
    BY <2>1, <2>2
<1>9. section' = SectionOf(lines', i' + 1)
  <2>1. i' + 1 = i + 2
    BY <1>1, <1>2
  <2>2. QED
    BY <1>1, <1>2, <2>1
<1>10. ASSUME NEW sect, NEW name
       PROVE  <<sect, name>> \in seen' <=> InForce(lines, i + 1, sect, name) # {}
  <2>1. <<sect, name>> \in seen' <=> <<sect, name>> \in seen \/ (sect = section /\ name = line.name)
    BY <1>1
  <2>2. QED
    BY <1>6, <1>8, <2>1
<1>11. ReadAs(lines, i + 1, "sign", KeyOption, signKey')
  <2>1. ReadAs(lines, i, "sign", KeyOption, signKey)
    BY DEF ConfigIInv, ParsedSoFar
  <2>2. CASE section = "sign"
    BY <1>1, <1>2, <1>4, <1>8, <2>2 DEF ReadAs
  <2>3. CASE section # "sign"
    BY <1>1, <1>8, <2>1, <2>3 DEF ReadAs
  <2>4. QED
    BY <2>2, <2>3
<1>12. ASSUME NEW t \in Text
       PROVE  ReadAs(lines, i + 1, "alias", t, aliases'[t])
  <2>1. ReadAs(lines, i, "alias", t, aliases[t])
    BY DEF ConfigIInv, ParsedSoFar
  <2>2. aliases \in [Text -> Text \cup {NoText}]
    BY DEF ConfigIInv, ConfigOK
  <2>3. CASE section = "sign"
    BY <1>1, <1>8, <2>1, <2>3 DEF ReadAs
  <2>4. CASE section # "sign" /\ t = line.name
    <3>1. aliases'[t] = line.value
      BY <1>1, <2>2, <2>4
    <3>2. InForce(lines, i + 1, "alias", t) = {i + 1}
      BY <1>4, <1>8, <2>4
    <3>3. QED
      BY <1>2, <3>1, <3>2 DEF ReadAs
  <2>5. CASE section # "sign" /\ t # line.name
    <3>1. aliases'[t] = aliases[t]
      BY <1>1, <2>2, <2>5
    <3>2. InForce(lines, i + 1, "alias", t) = InForce(lines, i, "alias", t)
      BY <1>8, <2>5
    <3>3. QED
      BY <2>1, <3>1, <3>2 DEF ReadAs
  <2>6. QED
    BY <2>3, <2>4, <2>5
<1>13. ParsedSoFar'
  BY <1>1, <1>7, <1>9, <1>10, <1>11, <1>12 DEF ParsedSoFar
<1>14. QED
  BY <1>1, <1>5, <1>13, ParsedStep

\* A line is refused for a fault of the file.
LEMMA LineRefusedStep ==
    ASSUME ConfigIInv, LineRefused
    PROVE  ConfigIInv'
<1>1. /\ Parsing /\ phase = "parse" /\ phase' = "done" /\ refusal' = "line" /\ key' = key
      /\ UNCHANGED <<request, i, config>>
  BY DEF LineRefused, Parsing, Refuse
<1>2. refusal = "none" /\ key = NoKey /\ ConfigNeeded
  BY <1>1 DEF ConfigIInv, Stages
<1>3. /\ lines \in Seq(Line) /\ i \in Nat /\ i + 1 \in 1..Len(lines)
      /\ line \in Line /\ line = lines[i + 1] /\ SectionOf(lines, i + 1) = section
  BY <1>1, ParsingFacts
<1>4. ~WellFormed(lines)
  <2> DEFINE x == i + 1
  <2>1. x \in DOMAIN lines /\ line = lines[x]
    BY <1>3
  <2>2. CASE line.kind = "malformed"
    BY <2>1, <2>2 DEF WellFormed
  <2>3. CASE line.kind = "header" /\ line.section = "other"
    <3>1. line = [kind |-> "header", section |-> "other"]
      BY <1>3, <2>3 DEF Line
    <3>2. QED
      BY <2>1, <3>1 DEF WellFormed
  <2>4. CASE line.kind = "option" /\ ~Allowed(line.name, line.value)
    <3>1. x \in OptionLines(lines)
      BY <2>1, <2>4 DEF OptionLines
    <3>2. CASE line.value = NoText
      BY <2>1, <3>1, <3>2 DEF WellFormed
    <3>3. CASE <<section, line.name>> \in seen
      <4>1. InForce(lines, i, section, line.name) # {}
        BY <3>3 DEF ConfigIInv, ParsedSoFar
      <4>2. PICK y \in Giving(lines, section, line.name) : y <= i
        BY <4>1 DEF InForce
      <4>3. y # x
        BY <1>3, <4>2
      <4>4. Giving(lines, SectionOf(lines, x), lines[x].name) # {x}
        BY <1>3, <2>1, <4>2, <4>3
      <4>5. QED
        BY <3>1, <4>4 DEF WellFormed
    <3>4. CASE ~Known(lines, x)
      BY <3>1, <3>4 DEF WellFormed
    <3>5. Known(lines, x) <=> \/ section = "sign" /\ line.name = KeyOption
                              \/ section = "alias" /\ CheckAlias(line.name, line.value)
      BY <1>3, <2>1 DEF Known
    <3>6. line.value = NoText \/ <<section, line.name>> \in seen \/ ~Known(lines, x)
      BY <2>4, <3>5 DEF Allowed
    <3>7. QED
      BY <3>2, <3>3, <3>4, <3>6
  <2>5. QED
    BY <2>2, <2>3, <2>4 DEF LineRefused
<1>5. ConfigOK' /\ ParsedSoFar'
  <2>1. key' \in Key \cup {NoKey}
    BY <1>1 DEF ConfigIInv, ConfigOK
  <2>2. QED
    BY <1>1, <2>1, ConfigKept
<1>6. ConfigNeeded' = ConfigNeeded /\ lines' = lines
  BY <1>1, ConsultedKept DEF config
<1>7. Stages' /\ Resolved' /\ LineFault'
  BY <1>1, <1>2, <1>4, <1>6 DEF Stages, Resolved, LineFault
<1>8. QED
  BY <1>5, <1>7 DEF ConfigIInv

LEMMA ConfigStutter ==
    ASSUME ConfigIInv, UNCHANGED configVars
    PROVE  ConfigIInv'
<1>1. /\ UNCHANGED <<request, i, config>>
      /\ refusal' = refusal /\ key' = key /\ phase' = phase
  BY DEF configVars
<1>2. ConfigOK' /\ ParsedSoFar'
  <2>1. key' \in Key \cup {NoKey}
    BY <1>1 DEF ConfigIInv, ConfigOK
  <2>2. QED
    BY <1>1, <2>1, ConfigKept
<1>3. /\ ConfigNeeded' = ConfigNeeded /\ Consulted' = Consulted /\ lines' = lines
      /\ Wanted' = Wanted /\ Referenced' = Referenced /\ request' = request /\ i' = i
  BY <1>1, ConsultedKept DEF config
<1>4. Stages' /\ Resolved' /\ LineFault'
  BY <1>1, <1>3 DEF ConfigIInv, Stages, Resolved, LineFault
<1>5. QED
  BY <1>2, <1>4 DEF ConfigIInv

\* Config: what the parser has is what the lines so far say, and where it stands.
THEOREM ConfigInductive == ConfigSpec => []ConfigIInv
<1>1. ConfigInit => ConfigIInv
  BY InitConfigIInv
<1>2. ConfigIInv /\ [ConfigNext]_configVars => ConfigIInv'
  <2> SUFFICES ASSUME ConfigIInv, [ConfigNext]_configVars
               PROVE  ConfigIInv'
    OBVIOUS
  <2>1. CASE SkipConfig \/ NoConfig
    BY <2>1, SkipConfigStep
  <2>2. CASE ConfigRefused \/ LoadConfig
    BY <2>2, OpenConfigStep
  <2>3. CASE Blank \/ Header
    BY <2>3, BlankHeaderStep
  <2>4. CASE Option
    BY <2>4, OptionStep
  <2>5. CASE LineRefused
    BY <2>5, LineRefusedStep
  <2>6. CASE ReadFails \/ EndOfConfig
    BY <2>6, ReadEndsStep
  <2>7. CASE NoReference \/ Resolve \/ ReferenceRefused
    BY <2>7, ResolveStep
  <2>8. CASE UNCHANGED configVars
    BY <2>8, ConfigStutter
  <2>9. QED
    BY <2>1, <2>2, <2>3, <2>4, <2>5, <2>6, <2>7, <2>8, Zenon DEF ConfigNext, LoadAndParse
<1>3. QED
  BY <1>1, <1>2, PTL DEF ConfigSpec

-----------------------------------------------------------------------------

\* What a file that is read to its end says.
LEMMA WholeConfig ==
    ASSUME ConfigIInv, i = Len(lines)
    PROVE  /\ WellFormed(lines)
           /\ signKey = Value(lines, "sign", KeyOption)
           /\ \A t \in Text : aliases[t] = Value(lines, "alias", t)
<1>1. lines \in Seq(Line)
  BY DEF ConfigIInv, ConfigOK, Request, lines
<1>2. FormedTo(lines, Len(lines))
  BY DEF ConfigIInv, ParsedSoFar
<1>3. ReadAs(lines, Len(lines), "sign", KeyOption, signKey)
  BY DEF ConfigIInv, ParsedSoFar
<1>4. \A t \in Text : ReadAs(lines, Len(lines), "alias", t, aliases[t])
  BY DEF ConfigIInv, ParsedSoFar
<1>5. QED
  BY <1>1, <1>2, <1>3, <1>4, FormedWhole, ReadWhole

\* What a file that is not read says.
LEMMA UnreadFile ==
    ASSUME ConfigIInv, i = 0
    PROVE  signKey = NoText /\ \A t \in Text : aliases[t] = NoText
<1>1. lines \in Seq(Line)
  BY DEF ConfigIInv, ConfigOK, Request, lines
<1>2. InForce(lines, 0, "sign", KeyOption) = {} /\ \A t \in Text : InForce(lines, 0, "alias", t) = {}
  BY <1>1, InForceEnds
<1>3. QED
  BY <1>2 DEF ConfigIInv, ParsedSoFar, ReadAs

\* config.go: a file is used whole or not at all, with the one value it gives an option.
THEOREM FileUsedWhole == ConfigSpec => []ParsedAsStated
<1>1. ConfigIInv => ParsedAsStated
  <2> SUFFICES ASSUME ConfigIInv
               PROVE  ParsedAsStated
    OBVIOUS
  <2>1. ASSUME phase = "resolve", i > 0
        PROVE  i = Len(lines)
    BY <2>1 DEF ConfigIInv, Stages, Consulted
  <2>2. QED
    BY <2>1, WholeConfig DEF ConfigIInv, LineFault, ParsedAsStated
<1>2. QED
  BY <1>1, ConfigInductive, PTL

\* cmd/config.go: "references remain unambiguous", whether or not the file is read for one.
THEOREM ReferencesUnambiguous == ConfigSpec => []Unambiguous
<1>1. ConfigIInv => Unambiguous
  <2> DEFINE wanted == IF ref # NoText THEN ref
                       ELSE IF request.place = "safe" THEN Value(lines, "sign", KeyOption) ELSE NoText
  <2> SUFFICES ASSUME ConfigIInv, phase = "done"
               PROVE  /\ key = NoKey <=> refusal # "none"
                      /\ refusal = "none" => key = Meaning(wanted)
                      /\ refusal \in {"missing", "reference"} => Meaning(wanted) = NoKey
                      /\ ref # NoText /\ KeyOf[ref] # NoKey => refusal = "none"
    BY DEF Unambiguous
  <2>1. Resolved /\ ref \in Text \cup {NoText} /\ signKey \in Text \cup {NoText}
    BY DEF ConfigIInv, Resolved, ConfigOK, Request, ref
  <2>2. key = NoKey <=> refusal # "none"
    BY <2>1 DEF Resolved
  <2>3. ASSUME Consulted
        PROVE  /\ wanted = Wanted /\ Wanted \in Text \cup {NoText}
               /\ \A t \in AliasName : KeyOf[t] = NoKey /\ t = Wanted =>
                    aliases[t] = IF request.place = "safe" THEN Value(lines, "alias", t) ELSE NoText
    <3>1. AliasName \subseteq Text
      BY ConfigAssumption
    <3>2. CASE ConfigNeeded /\ request.place = "safe"
      <4>1. i = Len(lines)
        BY <2>3, <3>2 DEF Consulted
      <4>2. QED
        BY <2>1, <3>1, <3>2, <4>1, WholeConfig DEF Wanted
    <3>3. CASE ConfigNeeded /\ request.place # "safe"
      <4>1. i = 0
        BY <2>3, <3>3 DEF Consulted
      <4>2. QED
        BY <2>1, <3>1, <3>3, <4>1, UnreadFile DEF Wanted
    <3>4. CASE ~ConfigNeeded
      BY <2>1, <3>4 DEF Wanted, ConfigNeeded, MayBeAlias
    <3>5. QED
      BY <3>2, <3>3, <3>4
  <2>4. ASSUME Consulted, Wanted # NoText, Referenced # NoText => KeyOf[Referenced] = NoKey
        PROVE  Meaning(Wanted) = NoKey
    <3>1. CASE KeyOf[Wanted] # NoKey
      BY <2>4, <3>1 DEF Referenced
    <3>2. CASE KeyOf[Wanted] = NoKey /\ Wanted \notin AliasName
      BY <3>2 DEF Meaning
    <3>3. CASE KeyOf[Wanted] = NoKey /\ Wanted \in AliasName
      <4>1. Referenced = aliases[Wanted]
        BY <3>3 DEF Referenced
      <4>2. QED
        BY <2>3, <2>4, <3>3, <4>1 DEF Meaning
    <3>4. QED
      BY <3>1, <3>2, <3>3
  <2>5. ASSUME Consulted, Wanted # NoText, Referenced # NoText, KeyOf[Referenced] # NoKey
        PROVE  Meaning(Wanted) = KeyOf[Referenced]
    <3>1. CASE KeyOf[Wanted] # NoKey
      BY <2>5, <3>1 DEF Meaning, Referenced
    <3>2. CASE KeyOf[Wanted] = NoKey /\ Wanted \notin AliasName
      BY <2>5, <3>2 DEF Referenced
    <3>3. CASE KeyOf[Wanted] = NoKey /\ Wanted \in AliasName
      <4>1. Referenced = aliases[Wanted]
        BY <3>3 DEF Referenced
      <4>2. QED
        BY <2>3, <2>5, <3>3, <4>1 DEF Meaning
    <3>4. QED
      BY <3>1, <3>2, <3>3
  <2>6. refusal = "none" => key = Meaning(wanted)
    BY <2>1, <2>3, <2>5 DEF Resolved
  <2>7. refusal \in {"missing", "reference"} => Meaning(wanted) = NoKey
    <3>1. refusal = "missing" => Meaning(wanted) = NoKey
      BY <2>1, <2>3 DEF Resolved, Meaning
    <3>2. refusal = "reference" => Meaning(wanted) = NoKey
      BY <2>1, <2>3, <2>4 DEF Resolved
    <3>3. QED
      BY <3>1, <3>2
  <2>8. ref # NoText /\ KeyOf[ref] # NoKey => refusal = "none"
    BY <2>1 DEF Resolved, ConfigNeeded, MayBeAlias, Wanted, Referenced
  <2>9. QED
    BY <2>2, <2>6, <2>7, <2>8
<1>2. QED
  BY <1>1, ConfigInductive, PTL
=============================================================================
