------------------------- MODULE PackageCacheProofs -------------------------
(***************************************************************************)
(* What Ensure guarantees to a process that has the cache to itself, and   *)
(* to any number of processes once the right tarball is there.             *)
(***************************************************************************)
EXTENDS PackageCache, TLAPS

(* Writing one block of one file keeps the type of the files.              *)
LEMMA BlockWrite ==
  ASSUME TypeOK, NEW p \in Procs, Copy(p)
  PROVE  data' \in [Inodes -> [1..Blocks -> Blocky]]
<1> DEFINE written == [b \in 1..Blocks |->
                         IF b = off[p] + 1 THEN body[p]
                         ELSE IF b <= off[p] /\ data[handle[p]][b] = "none" THEN "zero"
                         ELSE data[handle[p]][b]]
<1>1. data' = [data EXCEPT ![handle[p]] = written]
  BY DEF Copy
<1>2. CASE handle[p] \in Inodes
  <2>1. data[handle[p]] \in [1..Blocks -> Blocky]
    BY <1>2 DEF TypeOK
  <2>2. body[p] \in Blocky /\ "zero" \in Blocky
    BY DEF TypeOK, Blocky
  <2>3. written \in [1..Blocks -> Blocky]
    BY <2>1, <2>2
  <2> HIDE DEF written
  <2>4. QED
    BY <1>1, <1>2, <2>3 DEF TypeOK
<1>3. CASE handle[p] \notin Inodes
  BY <1>1, <1>3 DEF TypeOK
<1>4. QED
  BY <1>2, <1>3

(* So does losing the last blocks of it.                                   *)
LEMMA BlocksLost ==
  ASSUME TypeOK, NEW p \in Procs, CopyEnds(p)
  PROVE  data' \in [Inodes -> [1..Blocks -> Blocky]]
<1>1. CASE UNCHANGED data
  BY <1>1 DEF TypeOK
<1>2. ASSUME NEW n \in 1..Blocks,
             data' = [data EXCEPT ![handle[p]] =
                        [b \in 1..Blocks |-> IF b < n THEN data[handle[p]][b] ELSE "none"]]
      PROVE  data' \in [Inodes -> [1..Blocks -> Blocky]]
  <2> DEFINE left == [b \in 1..Blocks |-> IF b < n THEN data[handle[p]][b] ELSE "none"]
  <2>1. CASE handle[p] \in Inodes
    <3>1. data[handle[p]] \in [1..Blocks -> Blocky] /\ "none" \in Blocky
      BY <2>1 DEF TypeOK, Blocky
    <3>2. left \in [1..Blocks -> Blocky]
      BY <3>1
    <3> HIDE DEF left
    <3>3. QED
      BY <1>2, <2>1, <3>2 DEF TypeOK, left
  <2>2. CASE handle[p] \notin Inodes
    BY <1>2, <2>2 DEF TypeOK
  <2>3. QED
    BY <2>1, <2>2
<1>3. QED
  BY <1>1, <1>2 DEF CopyEnds

(* The three contents a cache may start with are contents.                 *)
LEMMA ContentsTyped ==
  /\ Empty \in [1..Blocks -> Blocky]
  /\ Whole \in [1..Blocks -> Blocky]
  /\ Short \in [1..Blocks -> Blocky]
BY DEF Empty, Whole, Short, Blocky

(* cache.go:25-32: whatever a killed process left, the start is typed.     *)
LEMMA InitTyped == Init => TypeOK
<1>1. SUFFICES ASSUME Init PROVE TypeOK
  OBVIOUS
<1>2. /\ path \in Inodes \union {None} /\ part \in Inodes \union {None}
      /\ data \in [Inodes -> [1..Blocks -> Blocky]]
  BY <1>1, ContentsTyped DEF Init
<1>3. QED
  BY <1>1, <1>2, CacheAssumption DEF Init, TypeOK, CacheAssumption

(* Type correctness step by step, for any number of processes.             *)
LEMMA NextTyped ==
  ASSUME TypeOK, [Next]_vars
  PROVE  TypeOK'
<1>1. CASE UNCHANGED vars
  BY <1>1 DEF vars, TypeOK
<1>2. ASSUME NEW p \in Procs,
             Resolve(p) \/ ResolveFails(p) \/ CreateFails(p) \/ DownloadFails(p) \/ Killed(p)
      PROVE  TypeOK'
  BY <1>2 DEF Resolve, ResolveFails, CreateFails, DownloadFails, Killed, Begins, RemovePart,
     DiskError, Goto, TypeOK
<1>3. ASSUME NEW p \in Procs, Check(p) \/ VerifyPart(p) \/ Rename(p)
      PROVE  TypeOK'
  BY <1>3 DEF Check, VerifyPart, Rename, RemovePart, DiskError, Goto, TypeOK
<1>4. ASSUME NEW p \in Procs, Create(p)
      PROVE  TypeOK'
  BY <1>4, ContentsTyped, CacheAssumption DEF Create, Goto, TypeOK, CacheAssumption
<1>5. ASSUME NEW p \in Procs, Get(p)
      PROVE  TypeOK'
  BY <1>5, CacheAssumption DEF Get, Goto, TypeOK, CacheAssumption
<1>6. ASSUME NEW p \in Procs, Copy(p)
      PROVE  TypeOK'
  <2>1. off' \in [Procs -> 0..Blocks]
    BY <1>6, CacheAssumption DEF Copy, TypeOK, CacheAssumption
  <2>2. QED
    BY <1>6, <2>1, BlockWrite DEF Copy, TypeOK
<1>7. ASSUME NEW p \in Procs, CopyEnds(p)
      PROVE  TypeOK'
  BY <1>7, BlocksLost DEF CopyEnds, DiskError, Goto, TypeOK
<1>8. QED
  BY <1>1, <1>2, <1>3, <1>4, <1>5, <1>6, <1>7 DEF Next, Ensure

(* cache.go:34-82: the files, the handles and the processes' places keep   *)
(* their types, for any number of processes and every failure.             *)
THEOREM CacheTyped == Spec => []TypeOK
BY InitTyped, NextTyped, PTL DEF Spec

-----------------------------------------------------------------------------
(***************************************************************************)
(* One process.                                                            *)
(***************************************************************************)
(* A process begins with what it relies on, whatever is in the cache.      *)
LEMMA SoloInit == Init => SoloInv
<1>1. SUFFICES ASSUME Init PROVE SoloInv
  OBVIOUS
<1>2. PartApart
  BY <1>1, CacheAssumption DEF Init, PartApart, CacheAssumption
<1>3. WritesPart /\ RenamesVerified /\ ReturnedIsVerified
  BY <1>1 DEF Init, WritesPart, RenamesVerified, ReturnedIsVerified
<1>4. QED
  BY <1>1, <1>2, <1>3, InitTyped DEF SoloInv

(* One process keeps what it relies on, and the tarball if it verifies: it *)
(* writes no file but the .part, and renames only what it has verified.    *)
LEMMA SoloStep ==
  ASSUME NEW q, Procs = {q}, SoloInv, [Next]_vars
  PROVE  SoloInv' /\ (Verifies(path) => Verifies(path)')
<1> USE DEF SoloInv, PartApart, WritesPart, RenamesVerified, ReturnedIsVerified
<1>1. TypeOK'
  BY NextTyped
<1>2. CASE UNCHANGED vars
  BY <1>1, <1>2 DEF vars, Verifies
<1>3. CASE Resolve(q) \/ ResolveFails(q) \/ CreateFails(q) \/ Get(q) \/ Killed(q)
  BY <1>1, <1>3 DEF Resolve, ResolveFails, CreateFails, Get, Killed, Begins, Goto, Verifies, TypeOK
<1>4. CASE Check(q)
  BY <1>1, <1>4 DEF Check, Goto, Verifies, TypeOK
<1>5. CASE Create(q)
  <2>1. PICK n \in Inodes : /\ IF part = None THEN n \notin InUse ELSE n = part
                            /\ part' = n
                            /\ handle' = [handle EXCEPT ![q] = n]
                            /\ data' = [data EXCEPT ![n] = Empty]
    BY <1>5 DEF Create
  <2>2. n # path /\ n # None
    BY <2>1, CacheAssumption DEF InUse, CacheAssumption
  <2>3. pc' = [pc EXCEPT ![q] = "get"] /\ path' = path
    BY <1>5 DEF Create, Goto
  <2>4. Verifies(path) => Verifies(path)'
    BY <2>1, <2>2, <2>3 DEF Verifies, TypeOK
  <2>5. QED
    BY <1>1, <2>1, <2>2, <2>3, <2>4 DEF TypeOK
<1>6. CASE Copy(q)
  <2>1. handle[q] = part /\ part # None /\ part # path
    BY <1>6 DEF Copy
  <2>2. Verifies(path) => Verifies(path)'
    BY <1>6, <2>1 DEF Copy, Verifies, TypeOK
  <2>3. QED
    BY <1>1, <1>6, <2>2 DEF Copy, TypeOK
<1>7. CASE CopyEnds(q)
  <2>1. handle[q] = part /\ part # None /\ part # path /\ UNCHANGED <<path, part>>
    BY <1>7 DEF CopyEnds
  <2>2. \A n \in Inodes : n # part => data'[n] = data[n]
    BY <1>7, <2>1 DEF CopyEnds, TypeOK
  <2>3. Verifies(path) => Verifies(path)'
    BY <2>1, <2>2 DEF Verifies, TypeOK
  <2>4. pc' = [pc EXCEPT ![q] = "verify"]
    BY <1>7 DEF CopyEnds, Goto
  <2>5. QED
    BY <1>1, <2>1, <2>3, <2>4 DEF TypeOK
<1>8. CASE DownloadFails(q)
  BY <1>1, <1>8 DEF DownloadFails, RemovePart, Goto, Verifies, TypeOK
<1>9. CASE VerifyPart(q)
  BY <1>1, <1>9 DEF VerifyPart, RemovePart, Goto, Verifies, TypeOK
<1>10. CASE Rename(q)
  BY <1>1, <1>10 DEF Rename, Goto, Verifies, TypeOK
<1>11. QED
  BY <1>2, <1>3, <1>4, <1>5, <1>6, <1>7, <1>8, <1>9, <1>10 DEF Next, Ensure

(* cache.go:34-82: what a process that has the cache to itself relies on:  *)
(* its .part and the tarball are different files, it writes only the first *)
(* and renames only what it has verified.                                  *)
THEOREM SoloReliance ==
  ASSUME NEW q, Procs = {q}
  PROVE  Spec => []SoloInv
<1>1. SoloInv /\ [Next]_vars => SoloInv'
  BY SoloStep
<1>2. QED
  BY SoloInit, <1>1, PTL DEF Spec

(* cache.go:34-82: for a process that has the cache to itself, whatever is *)
(* in it, whatever the server sends, whichever calls of the file system    *)
(* fail and wherever the process was killed, a path that Ensure returns    *)
(* names the published tarball.                                            *)
THEOREM SoloVerified ==
  ASSUME NEW q, Procs = {q}
  PROVE  Spec => []ReturnedIsVerified
<1>1. SoloInv /\ [Next]_vars => SoloInv'
  BY SoloStep
<1>2. SoloInv => ReturnedIsVerified
  BY DEF SoloInv
<1>3. QED
  BY SoloInit, <1>1, <1>2, PTL DEF Spec

(* cache.go:45-81: a process that has the cache to itself never loses a    *)
(* tarball that verifies, not even when it fails to read it and downloads  *)
(* it again.                                                               *)
THEOREM SoloStays ==
  ASSUME NEW q, Procs = {q}
  PROVE  Spec => VerifiedStays
<1>1. SoloInv /\ [Next]_vars => SoloInv' /\ (Verifies(path) => Verifies(path)')
  BY SoloStep
<1>2. SoloInv /\ [Next]_vars => [Verifies(path) => Verifies(path)']_vars
  BY <1>1
<1>3. QED
  BY SoloInit, <1>1, <1>2, PTL DEF Spec, VerifiedStays

(***************************************************************************)
(* A single process's download: the .part holds the blocks written so far, *)
(* and nothing of the .part that was there before, until its closing fails. *)
(***************************************************************************)
Received(p) == \A b \in 1..Blocks : data[part][b] = IF b <= off[p] THEN body[p] ELSE "none"

PartReceived ==
  \A p \in Procs :
    /\ pc[p] = "get" => off[p] = 0
    /\ pc[p] \in {"get", "copy"} => Received(p)
    /\ pc[p] = "verify" /\ p \notin erred => part # None /\ \A b \in 1..Blocks : data[part][b] = body[p]

(* cache.go:66-70: one write lengthens what has been received by a block.  *)
LEMMA WriteReceived ==
  ASSUME SoloInv, PartReceived, NEW q \in Procs, Copy(q)
  PROVE  Received(q)'
<1>1. /\ part \in Inodes /\ handle[q] = part /\ Received(q)
      /\ off[q] \in 0..Blocks /\ Blocks \in Nat
  BY CacheAssumption DEF Copy, SoloInv, TypeOK, WritesPart, PartReceived, CacheAssumption
<1> DEFINE written == [b \in 1..Blocks |->
                         IF b = off[q] + 1 THEN body[q]
                         ELSE IF b <= off[q] /\ data[part][b] = "none" THEN "zero"
                         ELSE data[part][b]]
<1>2. data' = [data EXCEPT ![part] = written]
  BY <1>1 DEF Copy
<1>3. part' = part /\ body' = body /\ off'[q] = off[q] + 1
  BY DEF Copy, SoloInv, TypeOK
<1>4. data'[part] = written
  BY <1>1, <1>2 DEF SoloInv, TypeOK
<1>5. body[q] # "none"
  BY DEF SoloInv, TypeOK
<1>6. ASSUME NEW b \in 1..Blocks
      PROVE  written[b] = IF b <= off[q] + 1 THEN body[q] ELSE "none"
  BY <1>1, <1>5 DEF Received
<1>7. QED
  BY <1>3, <1>4, <1>6 DEF Received

(* What a single process has received is kept step by step.                *)
LEMMA ReceivedStep ==
  ASSUME NEW q, Procs = {q}, SoloInv, PartReceived, [Next]_vars
  PROVE  PartReceived'
<1> USE DEF PartReceived
<1>1. CASE UNCHANGED vars
  BY <1>1 DEF vars, Received
<1>2. CASE Resolve(q) \/ ResolveFails(q) \/ CreateFails(q) \/ Killed(q) \/ DownloadFails(q)
  BY <1>2 DEF Resolve, ResolveFails, CreateFails, Killed, DownloadFails, Begins, Goto,
     SoloInv, TypeOK
<1>3. CASE Check(q) \/ VerifyPart(q) \/ Rename(q)
  BY <1>3 DEF Check, VerifyPart, Rename, Goto, SoloInv, TypeOK
<1>4. CASE Create(q)
  <2>1. PICK n \in Inodes : part' = n /\ data' = [data EXCEPT ![n] = Empty]
    BY <1>4 DEF Create
  <2>2. off'[q] = 0 /\ pc'[q] = "get"
    BY <1>4 DEF Create, Goto, SoloInv, TypeOK
  <2>3. data'[part'] = Empty
    BY <2>1 DEF SoloInv, TypeOK
  <2>4. ASSUME NEW b \in 1..Blocks PROVE Empty[b] = "none" /\ ~(b <= 0)
    BY CacheAssumption DEF Empty, CacheAssumption
  <2>5. QED
    BY <2>2, <2>3, <2>4 DEF Received
<1>5. CASE Get(q)
  <2>1. Received(q) /\ off[q] = 0 /\ UNCHANGED <<part, data, off>> /\ pc'[q] = "copy"
    BY <1>5 DEF Get, Goto, SoloInv, TypeOK
  <2>2. \A b \in 1..Blocks : ~(b <= 0)
    BY CacheAssumption DEF CacheAssumption
  <2>3. QED
    BY <2>1, <2>2 DEF Received
<1>6. CASE Copy(q)
  BY <1>6, WriteReceived DEF Copy
<1>7. CASE CopyEnds(q)
  <2>1. /\ Received(q) /\ off[q] = Blocks /\ UNCHANGED <<part, body>> /\ pc'[q] = "verify"
        /\ q \in erred' \/ UNCHANGED data
    BY <1>7 DEF CopyEnds, DiskError, Goto, SoloInv, TypeOK
  <2>2. part # None
    BY <1>7 DEF CopyEnds, SoloInv, WritesPart
  <2>3. ASSUME NEW b \in 1..Blocks PROVE data[part][b] = body[q]
    BY <2>1, CacheAssumption DEF Received, CacheAssumption
  <2>4. QED
    BY <2>1, <2>2, <2>3
<1>8. QED
  BY <1>1, <1>2, <1>3, <1>4, <1>5, <1>6, <1>7 DEF Next, Ensure

(* A .part that was received whole from a good server verifies.            *)
LEMMA GoodVerifies ==
  ASSUME SoloInv, PartReceived, NEW q \in Procs, pc[q] = "verify", body[q] = "good",
         q \notin erred
  PROVE  Verifies(part)
<1>1. part \in Inodes /\ \A b \in 1..Blocks : data[part][b] = "good"
  BY DEF SoloInv, TypeOK, PartReceived
<1>2. data[part] \in [1..Blocks -> Blocky]
  BY <1>1 DEF SoloInv, TypeOK
<1>3. data[part] = Whole
  BY <1>1, <1>2 DEF Whole
<1>4. QED
  BY <1>1, <1>3, CacheAssumption DEF Verifies, CacheAssumption

(* cache.go:49-81: what a single process downloads well it is returned,    *)
(* whatever .part it found, unless it is killed once more or the file      *)
(* system fails it.                                                        *)
THEOREM SoloDownloads ==
  ASSUME NEW q, Procs = {q}
  PROVE  Spec => GoodDownloadReturned
<1> DEFINE Good == \A p \in Procs :
                     (/\ pc[p] \in {"verify", "rename"} /\ body[p] = "good"
                      /\ pc'[p] # pc[p] /\ p \notin erred') =>
                       pc'[p] \in {"rename", "returned", "idle"}
<1>1. Init => PartReceived
  BY DEF Init, PartReceived
<1>2. SoloInv /\ PartReceived /\ [Next]_vars => SoloInv' /\ PartReceived'
  BY SoloStep, ReceivedStep
<1>3. ASSUME SoloInv, PartReceived, Next PROVE Good
  <2>1. SUFFICES ASSUME pc[q] \in {"verify", "rename"}, body[q] = "good", pc'[q] # pc[q],
                        q \notin erred'
                 PROVE  pc'[q] \in {"rename", "returned", "idle"}
    OBVIOUS
  <2>2. CASE VerifyPart(q)
    <3>1. ~DiskError(q) /\ (Verifies(part) => pc'[q] = "rename")
      BY <2>1, <2>2, <1>3 DEF VerifyPart, DiskError, Goto, SoloInv, TypeOK
    <3>2. q \notin erred /\ pc[q] = "verify"
      BY <2>1, <2>2, <3>1 DEF VerifyPart, RemovePart
    <3>3. QED
      BY <2>1, <3>1, <3>2, <1>3, GoodVerifies
  <2>3. CASE Rename(q)
    BY <2>1, <2>3, <1>3 DEF Rename, DiskError, Goto, SoloInv, TypeOK, RenamesVerified, Verifies
  <2>4. CASE Killed(q)
    BY <2>1, <2>4, <1>3 DEF Killed, Goto, SoloInv, TypeOK
  <2>5. QED
    BY <2>1, <2>2, <2>3, <2>4, <1>3
       DEF Next, Ensure, Resolve, ResolveFails, Begins, CreateFails, Get, DownloadFails, Check,
           Create, Copy, CopyEnds
<1>4. SoloInv /\ PartReceived /\ [Next]_vars => [Good]_vars
  BY <1>3
<1>5. QED
  BY SoloInit, <1>1, <1>2, <1>4, PTL DEF Spec, GoodDownloadReturned

-----------------------------------------------------------------------------
(***************************************************************************)
(* Any number of processes over a cache that holds the right tarball and   *)
(* can be read: each call ends at its first look, and nobody downloads.    *)
(***************************************************************************)
WarmInv ==
  /\ Verifies(path)
  /\ \A p \in Procs : pc[p] \in {"idle", "check", "returned", "failed"}

(* With the right tarball there, Check returns and Create is never reached.*)
LEMMA WarmStep ==
  ASSUME ~DiskFails, TypeOK, WarmInv, [Next]_vars
  PROVE  WarmInv'
BY DEF WarmInv, Next, Ensure, Resolve, ResolveFails, Begins, DiskError, Check, Create, CreateFails, Get, Copy,
       CopyEnds, DownloadFails, VerifyPart, Rename, Killed, Goto, Verifies, vars, TypeOK

(* cache.go:45-47: processes that share a cache with the right tarball in  *)
(* it, and can read it, are all returned that tarball, and it stays.       *)
THEOREM WarmShared ==
  ASSUME Cached = {"good"}, ~DiskFails
  PROVE  Spec => []ReturnedIsVerified /\ VerifiedStays
<1>1. Init => TypeOK /\ WarmInv
  BY InitTyped, CacheAssumption DEF Init, WarmInv, Verifies, CacheAssumption
<1>2. TypeOK /\ WarmInv /\ [Next]_vars => TypeOK' /\ WarmInv'
  BY NextTyped, WarmStep
<1>3. WarmInv => ReturnedIsVerified
  BY DEF WarmInv, ReturnedIsVerified
<1>4. TypeOK /\ WarmInv /\ [Next]_vars => [Verifies(path) => Verifies(path)']_vars
  BY <1>2 DEF WarmInv
<1>5. QED
  BY <1>1, <1>2, <1>3, <1>4, PTL DEF Spec, VerifiedStays
=============================================================================
