----------------------------- MODULE SignersDir -----------------------------
(***************************************************************************)
(* The default allowed signers of the verify command: SignersFiles         *)
(* (internal/config/config.go) lists the *.conf files of the signers       *)
(* directory and looks at each, readSignersFiles (internal/cmd/config.go)  *)
(* opens them again by their paths, looks again and reads them.  Between   *)
(* any two system calls the files and directories may be changed by those  *)
(* who are allowed to: the owner, and others if permissions let them.      *)
(***************************************************************************)
EXTENDS Integers, Sequences, FiniteSets, Functions

CONSTANTS
    Name,      \* names of directory entries, as their ranks in lexical order
    Conf,      \* those that end in .conf and do not begin with a dot
    Inode, NoFile,
    Limit,     \* maxSignersSize
    MaxSize,   \* bound: no file grows beyond it
    MaxChange, \* bound: how often something is changed during the call
    Worlds     \* what the directories may look like when the call begins

\* What checkInfo looks at: owner and permissions for group and others.
Status == [owner : {"self", "root", "other"}, writable : BOOLEAN]
File == [status : Status, regular : BOOLEAN, size : 0..MaxSize]
Directory == {"config", "signers"}
World ==
    [links : [Name -> Inode \cup {NoFile}], files : [Inode -> File],
     dirs : [Directory -> Status], exists : BOOLEAN]

ASSUME DirAssumption ==
    /\ Name \subseteq Nat /\ IsFiniteSet(Name) /\ Conf \subseteq Name
    /\ NoFile \notin Inode /\ Directory \cap Inode = {}
    /\ Limit \in Nat /\ MaxSize \in Nat /\ MaxChange \in Nat
    /\ Worlds \subseteq World

VARIABLES
    links, files, dirs, exists, \* the file system; exists: the signers directory
    changes,      \* how often it was changed
    entries,      \* of ReadDir
    paths,        \* of SignersFiles
    k,            \* entries, or paths, dealt with
    fd,           \* the open file
    n,            \* bytes read from it
    remaining,    \* of readSignersFiles
    loaded,       \* what readSignersFiles returns: <<name, all of the file>>
    safeSince,    \* history: files safe at some time since fd was opened, and directories
                  \* since the listing
    total,        \* history: bytes in loaded
    err,          \* what went wrong, "none" for nil
    pc

world == <<links, files, dirs, exists>>
locals == <<entries, paths, k, fd, n, remaining, loaded, total, err, pc>>
vars == <<world, changes, safeSince, locals>>

\* checkOwnerAndMode
Safe(status) == status.owner # "other" /\ ~status.writable

SafeFiles == {f \in Inode : Safe(files[f].status)}
SafeDirs == {d \in Directory : Safe(dirs[d])}

-----------------------------------------------------------------------------

Init ==
    /\ \E w \in Worlds : links = w.links /\ files = w.files /\ dirs = w.dirs /\ exists = w.exists
    /\ changes = 0
    /\ entries = <<>> /\ paths = <<>> /\ k = 0
    /\ fd = NoFile /\ n = 0 /\ remaining = Limit
    /\ loaded = <<>> /\ total = 0
    /\ safeSince = {}
    /\ err = "none"
    /\ pc = "list"

(***************************************************************************)
(* Changes by others, while the call is in progress.                       *)
(***************************************************************************)
Change ==
    /\ pc # "done" /\ changes < MaxChange
    /\ changes' = changes + 1
    /\ safeSince' = safeSince \cup SafeFiles' \cup SafeDirs'
    /\ UNCHANGED locals

\* A file is created, removed, renamed over another, or its symbolic link is changed.
Relink ==
    /\ \E name \in Name, f \in Inode \cup {NoFile} : links' = [links EXCEPT ![name] = f]
    /\ UNCHANGED <<files, dirs, exists>>
    /\ Change

Chmod ==
    /\ \/ /\ \E f \in Inode, s \in Status : files' = [files EXCEPT ![f].status = s]
          /\ UNCHANGED dirs
       \/ /\ \E d \in Directory, s \in Status : dirs' = [dirs EXCEPT ![d] = s]
          /\ UNCHANGED files
    /\ UNCHANGED <<links, exists>>
    /\ Change

Resize ==
    /\ \E f \in Inode, size \in 0..MaxSize : files' = [files EXCEPT ![f].size = size]
    /\ UNCHANGED <<links, dirs, exists>>
    /\ Change

-----------------------------------------------------------------------------

\* return nil, reason
Fail(reason) ==
    /\ err' = reason
    /\ pc' = "done"
    /\ UNCHANGED <<world, changes, safeSince, entries, paths, k, fd, n, remaining, loaded, total>>

Ascending(s) == \A a, b \in DOMAIN s : a < b => s[a] < s[b]

\* All of S, sorted.
Listings(S) == {s \in [1..Cardinality(S) -> S] : Range(s) = S /\ Ascending(s)}

Present == {name \in Name : links[name] # NoFile}

NoDirectory == pc = "list" /\ ~exists /\ Fail("missing")

ReadDir ==
    /\ pc = "list" /\ exists
    /\ entries' \in Listings(Present)
    /\ safeSince' = SafeFiles \cup SafeDirs
    /\ pc' = "config"
    /\ UNCHANGED <<world, changes, paths, k, fd, n, remaining, loaded, total, err>>

DirRefused == pc \in Directory /\ ~Safe(dirs[pc]) /\ Fail("unsafe")

StatDir ==
    /\ pc \in Directory /\ Safe(dirs[pc])
    /\ pc' = IF pc = "config" THEN "signers" ELSE "stat"
    /\ UNCHANGED <<world, changes, safeSince, entries, paths, k, fd, n, remaining, loaded, total,
                   err>>

-----------------------------------------------------------------------------

Examining == pc = "stat" /\ k < Len(entries)
entry == entries[k + 1]
examined == files[links[entry]]

NextEntry(kept) ==
    /\ paths' = IF kept THEN Append(paths, entry) ELSE paths
    /\ k' = k + 1
    /\ UNCHANGED <<world, changes, safeSince, entries, fd, n, remaining, loaded, total, err, pc>>

SkipEntry == Examining /\ entry \notin Conf /\ NextEntry(FALSE)

\* Mutant: an entry that is gone by now is passed over.
VanishedSkipped == Examining /\ entry \in Conf /\ links[entry] = NoFile /\ NextEntry(FALSE)

Vanished == Examining /\ entry \in Conf /\ links[entry] = NoFile /\ Fail("system")

StatRefused ==
    /\ Examining /\ entry \in Conf /\ links[entry] # NoFile
    /\ ~examined.regular \/ ~Safe(examined.status)
    /\ Fail(IF examined.regular THEN "unsafe" ELSE "irregular")

StatFile ==
    /\ Examining /\ entry \in Conf /\ links[entry] # NoFile
    /\ examined.regular /\ Safe(examined.status)
    /\ NextEntry(TRUE)

\* defaultSignersFiles takes no files for a missing option.
NoFiles == pc = "stat" /\ k >= Len(entries) /\ paths = <<>> /\ Fail("missing")

EndOfDirectory ==
    /\ pc = "stat" /\ k >= Len(entries) /\ paths # <<>>
    /\ k' = 0
    /\ pc' = "open"
    /\ UNCHANGED <<world, changes, safeSince, entries, paths, fd, n, remaining, loaded, total, err>>

-----------------------------------------------------------------------------

Opening == pc = "open" /\ k < Len(paths)

OpenFails == Opening /\ links[paths[k + 1]] = NoFile /\ Fail("system")

Open ==
    /\ Opening /\ links[paths[k + 1]] # NoFile
    /\ fd' = links[paths[k + 1]]
    /\ n' = 0
    /\ safeSince' = SafeFiles \cup (safeSince \cap Directory)
    /\ pc' = "check"
    /\ UNCHANGED <<world, changes, entries, paths, k, remaining, loaded, total, err>>

\* Mutant: the path is examined again, and not the open file.
CheckedByPath ==
    links[paths[k + 1]] # NoFile /\ Safe(files[links[paths[k + 1]]].status)

\* CheckOpenFile
Checked == Safe(files[fd].status)

CheckRefused == pc = "check" /\ ~Checked /\ Fail("unsafe")

CheckOpenFile ==
    /\ pc = "check" /\ Checked
    /\ pc' = "read"
    /\ UNCHANGED <<world, changes, safeSince, entries, paths, k, fd, n, remaining, loaded, total,
                   err>>

\* Mutant: a file that is too large cannot be told from one that fits.
LimitExact == remaining

\* Of the reader of readSignersFile.
ReadLimit == remaining + 1

ReadSome ==
    /\ pc = "read"
    /\ n' \in (n + 1)..ReadLimit /\ n' <= files[fd].size
    /\ UNCHANGED <<world, changes, safeSince, entries, paths, k, fd, remaining, loaded, total, err,
                   pc>>

\* Nothing more to read, or to be read.
EndOfFile == pc = "read" /\ (n >= files[fd].size \/ n >= ReadLimit)

TooLarge == EndOfFile /\ n > remaining /\ Fail("too large")

Keep ==
    /\ loaded' = Append(loaded, <<paths[k + 1], n >= files[fd].size>>)
    /\ total' = total + n
    /\ k' = k + 1
    /\ fd' = NoFile /\ n' = 0
    /\ pc' = "open"

\* Mutant: the limit is for every file, not for all.
LoadAlone ==
    /\ EndOfFile /\ n <= remaining
    /\ Keep
    /\ UNCHANGED <<world, changes, safeSince, entries, paths, remaining, err>>

Load ==
    /\ EndOfFile /\ n <= remaining
    /\ Keep
    /\ remaining' = remaining - n
    /\ UNCHANGED <<world, changes, safeSince, entries, paths, err>>

Done ==
    /\ pc = "open" /\ k >= Len(paths)
    /\ pc' = "done"
    /\ UNCHANGED <<world, changes, safeSince, entries, paths, k, fd, n, remaining, loaded, total,
                   err>>

\* Any system call may fail for reasons not modelled.
SystemFails ==
    /\ pc # "done"
    /\ pc = "stat" => Examining /\ entry \in Conf
    /\ pc = "open" => Opening
    /\ Fail("system")

Others == Relink \/ Chmod \/ Resize

SignersFiles ==
    \/ NoDirectory \/ ReadDir \/ DirRefused \/ StatDir
    \/ SkipEntry \/ Vanished \/ StatRefused \/ StatFile \/ NoFiles \/ EndOfDirectory

ReadSignersFiles ==
    \/ OpenFails \/ Open \/ CheckRefused \/ CheckOpenFile
    \/ ReadSome \/ TooLarge \/ Load \/ Done

Next == Others \/ SystemFails \/ SignersFiles \/ ReadSignersFiles

Spec == Init /\ [][Next]_vars

-----------------------------------------------------------------------------

TypeOK ==
    /\ [links |-> links, files |-> files, dirs |-> dirs, exists |-> exists] \in World
    /\ changes \in 0..MaxChange
    /\ entries \in Seq(Name) /\ paths \in Seq(Conf)
    /\ k \in Nat
    /\ fd \in Inode \cup {NoFile} /\ n \in 0..(Limit + 1)
    /\ remaining \in 0..Limit
    /\ loaded \in Seq(Conf \X BOOLEAN) /\ total \in Nat
    /\ safeSince \subseteq Inode \cup Directory
    /\ err \in {"none", "missing", "system", "unsafe", "irregular", "too large"}
    /\ pc \in {"list", "config", "signers", "stat", "open", "check", "read", "done"}

\* perm_unix.go: a file is read only if this very file, and not one that was at its
\* path before, has been safe from other users since it was opened, and if both
\* directories have been since they were listed: whatever was swapped in between.
TrustedWhenRead == pc = "read" => {fd} \cup Directory \subseteq safeSince

Succeeded == pc = "done" /\ err = "none"

\* README.md: "all *.conf files are loaded in lexical order": those of the listing, each
\* once, and at least one: a file that is gone or refused meanwhile is an error.
AllLoaded ==
    Succeeded =>
        LET names == [j \in DOMAIN loaded |-> loaded[j][1]]
        IN  /\ loaded # <<>>
            /\ Ascending(names)
            /\ Range(names) = Range(entries) \cap Conf

\* cmd/config.go: a file is loaded up to its end and never to the limit only, also when
\* it grows or shrinks while it is read.
WholeFiles == \A j \in DOMAIN loaded : loaded[j][2]

\* README.md: "The total size of the files must not exceed 64 MiB", and no more than one
\* byte beyond is held in memory to find that out.
BoundedTotal == total <= Limit /\ total + n <= Limit + 1
=============================================================================
