---------------------------- MODULE PackageCache ----------------------------
(***************************************************************************)
(* packages.Cache.Ensure for one tarball, called by hadoop-cli processes   *)
(* that share ~/.hadoop-cli/cache.  Names are bound to inodes: Create      *)
(* truncates the inode another process may be writing, Rename moves it     *)
(* together with whoever still writes it, verify opens by name.  Any call  *)
(* of the file system may fail, and some of its errors are ignored.        *)
(***************************************************************************)
EXTENDS Integers, FiniteSets

CONSTANTS Procs,    \* the processes
          Inodes,   \* bound: inodes alive at once
          Blocks,   \* bound: blocks of a tarball
          Contents, \* what the server may send: "good", "bad"
          Cached,   \* what may be in the cache at first: subset of Leftovers
          DiskFails \* the control machine's file system may fail

None == 0
Leftovers == {"nothing", "good", "short"}

ASSUME CacheAssumption ==
  /\ None \notin Inodes
  /\ Blocks \in Nat \ {0}
  /\ Contents \subseteq {"good", "bad"}
  /\ Cached \subseteq Leftovers
  /\ DiskFails \in BOOLEAN

VARIABLES path,    \* inode of the tarball's name, or None
          part,    \* inode of its ".part", or None
          data,    \* per inode: its blocks, "none" past the end, "zero" in a hole
          pc,      \* per process: where Ensure is
          handle,  \* per process: the inode it writes
          off,     \* per process: blocks it has written
          body,    \* per process: what the server sends it
          erred    \* history: the processes whose call of Ensure met a failure
                   \* of the file system

vars == <<path, part, data, pc, handle, off, body, erred>>

Empty == [b \in 1..Blocks |-> "none"]
Whole == [b \in 1..Blocks |-> "good"]
Short == [b \in 1..Blocks |-> IF b = 1 THEN "good" ELSE "none"]

\* verify(): the file can be opened and has the published checksum.
Verifies(name) == name # None /\ data[name] = Whole

InUse == {path, part} \union {handle[p] : p \in Procs}

Init ==
  /\ \E c \in Cached, l \in {FALSE, TRUE}, i, j \in Inodes :
       /\ i # j
       /\ path = IF c = "nothing" THEN None ELSE i
       /\ part = IF l THEN j ELSE None   \* left by a process that was killed
       /\ data = [n \in Inodes |-> IF n = i /\ c = "good" THEN Whole
                                   ELSE IF (n = i /\ c = "short") \/ (n = j /\ l) THEN Short
                                   ELSE Empty]
  /\ pc = [p \in Procs |-> "idle"]
  /\ handle = [p \in Procs |-> None]
  /\ off = [p \in Procs |-> 0]
  /\ body = [p \in Procs |-> "good"]
  /\ erred = {}

-----------------------------------------------------------------------------
Goto(p, l) == pc' = [pc EXCEPT ![p] = l]

\* A call of the file system by p fails.
DiskError(p) == DiskFails /\ erred' = erred \union {p}

\* os.Remove of what is called .part; its error is ignored.
RemovePart(p) == \/ part' = None /\ UNCHANGED erred
                 \/ UNCHANGED part /\ DiskError(p)

\* Ensure begins, or begins again: the sidecar with the checksum is fetched
\* first, whatever the cache holds.
Begins(p) == pc[p] \in {"idle", "returned", "failed"} /\ erred' = erred \ {p}

Resolve(p) ==
  /\ Begins(p)
  /\ Goto(p, "check")
  /\ UNCHANGED <<path, part, data, handle, off, body>>

ResolveFails(p) ==
  /\ Begins(p)
  /\ Goto(p, "failed")
  /\ UNCHANGED <<path, part, data, handle, off, body>>

\* A cached file with the right checksum is used as it is; one that cannot be
\* read is downloaded again like one that is not there.
Check(p) ==
  /\ pc[p] = "check"
  /\ \/ Goto(p, IF Verifies(path) THEN "returned" ELSE "create") /\ UNCHANGED erred
     \/ path # None /\ DiskError(p) /\ Goto(p, "create")
  /\ UNCHANGED <<path, part, data, handle, off, body>>

\* Mutant of Create: the download goes to the tarball's own name.
CreateInPlace(p) ==
  /\ pc[p] = "create"
  /\ \E n \in Inodes :
       /\ IF path = None THEN n \notin InUse ELSE n = path
       /\ part' = n
       /\ handle' = [handle EXCEPT ![p] = n]
       /\ data' = [data EXCEPT ![n] = Empty]
  /\ off' = [off EXCEPT ![p] = 0]
  /\ Goto(p, "get")
  /\ UNCHANGED <<path, body, erred>>

\* os.Create truncates the .part that is there, or makes a new one.
Create(p) ==
  /\ pc[p] = "create"
  /\ \E n \in Inodes :
       /\ IF part = None THEN n \notin InUse ELSE n = part
       /\ part' = n
       /\ handle' = [handle EXCEPT ![p] = n]
       /\ data' = [data EXCEPT ![n] = Empty]
  /\ off' = [off EXCEPT ![p] = 0]
  /\ Goto(p, "get")
  /\ UNCHANGED <<path, body, erred>>

CreateFails(p) ==
  /\ pc[p] = "create"
  /\ DiskError(p)
  /\ Goto(p, "failed")
  /\ UNCHANGED <<path, part, data, handle, off, body>>

Get(p) ==
  /\ pc[p] = "get"
  /\ \E c \in Contents : body' = [body EXCEPT ![p] = c]
  /\ Goto(p, "copy")
  /\ UNCHANGED <<path, part, data, handle, off, erred>>

\* Mutant of Copy: a write goes one block too far and leaves a hole.
CopySkips(p) ==
  /\ pc[p] = "copy"
  /\ off[p] < Blocks
  /\ data' = [data EXCEPT ![handle[p]] =
                [b \in 1..Blocks |->
                   IF b = off[p] + 2 THEN body[p]
                   ELSE IF b <= off[p] + 1 /\ @[b] = "none" THEN "zero" ELSE @[b]]]
  /\ off' = [off EXCEPT ![p] = @ + 1]
  /\ UNCHANGED <<path, part, pc, handle, body, erred>>

\* Mutant of Copy: the offset goes on past the last block.
CopyPast(p) ==
  /\ pc[p] = "copy"
  /\ off[p] <= Blocks
  /\ off' = [off EXCEPT ![p] = @ + 1]
  /\ UNCHANGED <<path, part, data, pc, handle, body, erred>>

\* One write of io.Copy, at the process's own offset; writing past the end
\* leaves a hole.
Copy(p) ==
  /\ pc[p] = "copy"
  /\ off[p] < Blocks
  /\ data' = [data EXCEPT ![handle[p]] =
                [b \in 1..Blocks |->
                   IF b = off[p] + 1 THEN body[p]
                   ELSE IF b <= off[p] /\ @[b] = "none" THEN "zero" ELSE @[b]]]
  /\ off' = [off EXCEPT ![p] = @ + 1]
  /\ UNCHANGED <<path, part, pc, handle, body, erred>>

\* The download ends and the .part is closed.  The error of f.Close is
\* ignored: blocks that were written may not be there.
CopyEnds(p) ==
  /\ pc[p] = "copy"
  /\ off[p] = Blocks
  /\ \/ UNCHANGED <<data, erred>>
     \/ /\ DiskError(p)
        /\ \E n \in 1..Blocks :
             data' = [data EXCEPT ![handle[p]] = [b \in 1..Blocks |-> IF b < n THEN @[b] ELSE "none"]]
  /\ handle' = [handle EXCEPT ![p] = None]
  /\ Goto(p, "verify")
  /\ UNCHANGED <<path, part, off, body>>

\* The request, the transfer or a write fails: close and remove.
DownloadFails(p) ==
  /\ pc[p] \in {"get", "copy"}
  /\ handle' = [handle EXCEPT ![p] = None]
  /\ RemovePart(p)
  /\ Goto(p, "failed")
  /\ UNCHANGED <<path, data, off, body>>

\* Mutant of VerifyPart: the download is not verified.
VerifyNothing(p) ==
  /\ pc[p] = "verify"
  /\ Goto(p, "rename")
  /\ UNCHANGED <<path, part, data, handle, off, body, erred>>

\* The .part has the right checksum; or it has not, or cannot be read, and
\* is removed.
VerifyPart(p) ==
  /\ pc[p] = "verify"
  /\ \/ Verifies(part) /\ Goto(p, "rename") /\ UNCHANGED <<part, erred>>
     \/ ~Verifies(part) /\ Goto(p, "failed") /\ RemovePart(p)
     \/ DiskError(p) /\ Goto(p, "failed") /\ part' \in {None, part}
  /\ UNCHANGED <<path, data, handle, off, body>>

Rename(p) ==
  /\ pc[p] = "rename"
  /\ \/ part = None /\ Goto(p, "failed") /\ UNCHANGED <<path, part, erred>>
     \/ /\ part # None /\ Goto(p, "returned")
        /\ path' = part /\ part' = None /\ UNCHANGED erred
     \/ DiskError(p) /\ Goto(p, "failed") /\ UNCHANGED <<path, part>>
  /\ UNCHANGED <<data, handle, off, body>>

\* The process is killed: what it had written stays.
Killed(p) ==
  /\ pc[p] \notin {"idle", "returned", "failed"}
  /\ handle' = [handle EXCEPT ![p] = None]
  /\ Goto(p, "idle")
  /\ UNCHANGED <<path, part, data, off, body, erred>>

Ensure(p) ==
  Check(p) \/ Create(p) \/ Copy(p) \/ CopyEnds(p) \/ VerifyPart(p) \/ Rename(p)

Next == \E p \in Procs :
          \/ Resolve(p) \/ ResolveFails(p) \/ CreateFails(p) \/ Get(p) \/ DownloadFails(p)
          \/ Ensure(p) \/ Killed(p)

Spec == Init /\ [][Next]_vars

-----------------------------------------------------------------------------
Blocky == {"none", "zero", "good", "bad"}

\* Types of the two names, the inodes and the processes.
TypeOK ==
  /\ path \in Inodes \union {None} /\ part \in Inodes \union {None}
  /\ data \in [Inodes -> [1..Blocks -> Blocky]]
  /\ pc \in [Procs -> {"idle", "check", "create", "get", "copy", "verify", "rename",
                       "returned", "failed"}]
  /\ handle \in [Procs -> Inodes \union {None}]
  /\ off \in [Procs -> 0..Blocks]
  /\ body \in [Procs -> {"good", "bad"}]
  /\ erred \subseteq Procs

\* cache.go:34-82: when Ensure returns a path, and until it is called again,
\* the file of that name has the published checksum, whatever the server
\* sent, the file system did and a killed process had left.
ReturnedIsVerified ==
  \A p \in Procs : pc[p] = "returned" => Verifies(path)

\* cache.go:45-81: a process that has the cache to itself never loses the right
\* tarball once it is there, not even when it fails to read it and downloads it
\* again, badly, or is killed over it.  Two processes that download can lose it
\* to each other.
VerifiedStays == [][Verifies(path) => Verifies(path)']_vars

\* cache.go:49-81: a download that brought the right bytes is returned, whatever
\* .part a killed process or a failed removal had left; only another kill or a
\* failure of the file system can prevent it.
GoodDownloadReturned ==
  [][\A p \in Procs :
       (/\ pc[p] \in {"verify", "rename"} /\ body[p] = "good"
        /\ pc'[p] # pc[p] /\ p \notin erred') =>
         pc'[p] \in {"rename", "returned", "idle"}]_vars

(***************************************************************************)
(* The inductive invariant of a process that has the cache to itself: the  *)
(* .part and the tarball are two files, the process writes the one that is *)
(* called .part, and what it renames it has verified.                      *)
(***************************************************************************)
PartApart == part # None => part # path

WritesPart ==
  \A p \in Procs : pc[p] \in {"get", "copy"} => part # None /\ handle[p] = part

RenamesVerified == \A p \in Procs : pc[p] = "rename" => Verifies(part)

\* cache.go:49-81: what a single process may rely on between its calls of the
\* file system; one more process breaks it.
SoloInv ==
  /\ TypeOK
  /\ PartApart
  /\ WritesPart
  /\ RenamesVerified
  /\ ReturnedIsVerified
=============================================================================
