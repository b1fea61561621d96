---------------------------- MODULE OutcomeProofs ----------------------------
(***************************************************************************)
(* What an OK of start, stop and uninstall means, and the order in which   *)
(* components come and go, for any hosts, roles and components, when one   *)
(* operator works on the cluster and none of his scripts is left behind.   *)
(***************************************************************************)
EXTENDS Outcome, LifecycleProofs

-----------------------------------------------------------------------------
(***************************************************************************)
(* The rest of a script.                                                   *)
(***************************************************************************)
(* What is left of t when its first step, or its first two, are done.      *)
LEMMA RestIs ==
  ASSUME NEW S, NEW t \in Seq(S), NEW k \in {2, 3}
  PROVE  LET r == SubSeq(t, k, Len(t)) IN
         /\ r \in Seq(S)
         /\ \A i \in DOMAIN r : i + k - 1 \in DOMAIN t /\ r[i] = t[i + k - 1]
         /\ \A j \in DOMAIN t : j >= k => \E i \in DOMAIN r : r[i] = t[j]
<1> DEFINE r == SubSeq(t, k, Len(t))
           n == Len(t)
<1>1. n \in Nat /\ DOMAIN t = 1..n /\ \A i \in k..n : t[i] \in S
  BY LenProperties, ElementOfSeq
<1>2. /\ r \in Seq(S)
      /\ Len(r) = IF k <= n THEN n - k + 1 ELSE 0
      /\ \A i \in 1..(n - k + 1) : r[i] = t[k + i - 1]
  BY <1>1, SubSeqProperties
<1>3. DOMAIN r = 1..Len(r)
  BY <1>2, LenProperties
<1> HIDE DEF r, n
<1>4. \A i \in DOMAIN r : i + k - 1 \in DOMAIN t /\ r[i] = t[i + k - 1]
  BY <1>1, <1>2, <1>3
<1>5. ASSUME NEW j \in DOMAIN t, j >= k PROVE \E i \in DOMAIN r : r[i] = t[j]
  <2>1. j - k + 1 \in DOMAIN r /\ r[j - k + 1] = t[j]
    BY <1>1, <1>2, <1>3, <1>5
  <2>2. QED
    BY <2>1
<1>6. QED
  BY <1>2, <1>4, <1>5 DEF r, n

(* The rest has steps of the script, and lacks the first or the first two. *)
LEMMA RestSteps ==
  ASSUME NEW S, NEW t \in Seq(S), t # <<>>, NEW k \in {2, 3}
  PROVE  LET r == SubSeq(t, k, Len(t)) IN
         /\ ToSet(r) \subseteq ToSet(t)
         /\ \A s \in ToSet(t) \ ToSet(r) :
              \/ s = Head(t)
              \/ k = 3 /\ 2 \in DOMAIN t /\ s = t[2]
<1> DEFINE r == SubSeq(t, k, Len(t))
<1>1. DOMAIN t = 1..Len(t) /\ Len(t) \in Nat /\ Head(t) = t[1]
  BY LenProperties
<1>2. /\ \A i \in DOMAIN r : i + k - 1 \in DOMAIN t /\ r[i] = t[i + k - 1]
      /\ \A j \in DOMAIN t : j >= k => \E i \in DOMAIN r : r[i] = t[j]
  BY RestIs
<1> HIDE DEF r
<1>3. ToSet(r) \subseteq ToSet(t)
  BY <1>2 DEF ToSet
<1>4. ASSUME NEW s \in ToSet(t), s \notin ToSet(r)
      PROVE  s = Head(t) \/ (k = 3 /\ 2 \in DOMAIN t /\ s = t[2])
  <2>1. PICK j \in DOMAIN t : s = t[j]
    BY DEF ToSet
  <2>2. ~(j >= k)
    BY <1>2, <1>4, <2>1 DEF ToSet
  <2>3. j = 1 \/ (j = 2 /\ k = 3)
    BY <1>1, <2>2
  <2>4. QED
    BY <1>1, <2>1, <2>3
<1>5. QED
  BY <1>3, <1>4 DEF r

(* The steps of the rest are in order.                                     *)
LEMMA RestInOrder ==
  ASSUME NEW S, NEW t \in Seq(S), NEW k \in {2, 3}, InOrder(t)
  PROVE  InOrder(SubSeq(t, k, Len(t)))
<1> DEFINE r == SubSeq(t, k, Len(t))
<1>1. /\ r \in Seq(S)
      /\ \A i \in DOMAIN r : i + k - 1 \in DOMAIN t /\ r[i] = t[i + k - 1]
  BY RestIs
<1>2. DOMAIN r = 1..Len(r) /\ Len(r) \in Nat
  BY <1>1, LenProperties
<1> HIDE DEF r
<1> SUFFICES ASSUME NEW i \in DOMAIN r, NEW j \in DOMAIN r, i < j
             PROVE  /\ r[i][1] \notin {"launch", "rmdata"}
                    /\ r[i][1] = "zkstatus" => r[j] = <<"launch", "quorumpeer">>
                    /\ r[i][1] \in Formats /\ j = i + 1 => r[j][1] = "mark"
                    /\ r[j][1] \in Formats => r[i][1] # "mark"
                    /\ r[j][1] = "stop" => r[i][1] # "rmhome"
  BY DEF InOrder, r
<1> DEFINE x == i + k - 1
           y == j + k - 1
<1>3. x \in DOMAIN t /\ y \in DOMAIN t /\ x < y /\ (j = i + 1 => y = x + 1)
      /\ r[i] = t[x] /\ r[j] = t[y]
  BY <1>1, <1>2
<1> HIDE DEF x, y
<1>4. QED
  BY <1>3 DEF InOrder

(* And they fit the same command.                                          *)
LEMMA RestFits ==
  ASSUME NEW S, NEW t \in Seq(S), t # <<>>, NEW k \in {2, 3},
         NEW o, NEW c, NEW h, Fits(o, c, h, t)
  PROVE  Fits(o, c, h, SubSeq(t, k, Len(t)))
<1>1. ToSet(SubSeq(t, k, Len(t))) \subseteq ToSet(t)
  BY RestSteps
<1>2. InOrder(SubSeq(t, k, Len(t)))
  BY RestInOrder DEF Fits
<1>3. QED
  BY <1>1, <1>2 DEF Fits

(* The first step comes before the others.                                 *)
LEMMA HeadFirst ==
  ASSUME NEW S, NEW t \in Seq(S), t # <<>>, InOrder(t)
  PROVE  /\ Head(t) \in ToSet(t)
         /\ \A s \in ToSet(t) : s # Head(t) =>
              /\ Head(t)[1] \notin {"launch", "rmdata"}
              /\ Head(t)[1] = "zkstatus" => s = <<"launch", "quorumpeer">>
              /\ s[1] \in Formats => Head(t)[1] # "mark"
              /\ s[1] = "stop" => Head(t)[1] # "rmhome"
         /\ Head(t)[1] \in Formats /\ 2 \in DOMAIN t => t[2][1] = "mark"
<1>1. DOMAIN t = 1..Len(t) /\ Len(t) \in Nat \ {0} /\ Head(t) = t[1]
  BY LenProperties, EmptySeq
<1>2. 1 \in DOMAIN t /\ \A j \in DOMAIN t : j = 1 \/ 1 < j
  BY <1>1
<1>3. ASSUME NEW s \in ToSet(t), s # Head(t)
      PROVE  \E j \in DOMAIN t : 1 < j /\ s = t[j]
  BY <1>1, <1>2, <1>3 DEF ToSet
<1>4. Head(t) \in ToSet(t)
  BY <1>1, <1>2 DEF ToSet
<1>5. ASSUME NEW s \in ToSet(t), s # Head(t)
      PROVE  /\ Head(t)[1] \notin {"launch", "rmdata"}
             /\ Head(t)[1] = "zkstatus" => s = <<"launch", "quorumpeer">>
             /\ s[1] \in Formats => Head(t)[1] # "mark"
             /\ s[1] = "stop" => Head(t)[1] # "rmhome"
  <2>1. PICK j \in DOMAIN t : 1 < j /\ s = t[j]
    BY <1>3, <1>5
  <2>2. QED
    BY <1>1, <1>2, <2>1 DEF InOrder
<1>6. Head(t)[1] \in Formats /\ 2 \in DOMAIN t => t[2][1] = "mark"
  BY <1>1, <1>2 DEF InOrder
<1>7. QED
  BY <1>4, <1>5, <1>6

-----------------------------------------------------------------------------
(***************************************************************************)
(* A script moves on.                                                      *)
(***************************************************************************)
(* The commands are where they were; an answer may not have been OK.       *)
SameWalk ==
  \A a \in Operators :
    /\ cmd'[a].op = cmd[a].op /\ cmd'[a].flag = cmd[a].flag
    /\ cmd'[a].filter = cmd[a].filter /\ cmd'[a].comps = cmd[a].comps
    /\ cmd'[a].cur = cmd[a].cur /\ cmd'[a].batches = cmd[a].batches
    /\ cmd'[a].envOK = cmd[a].envOK
    /\ cmd'[a].compOK => cmd[a].compOK

(* Script p has r still to do; it is gone when that is nothing.            *)
Moves(p, r) ==
  /\ SameWalk
  /\ procs \ {p} \subseteq procs'
  /\ IF r = <<>> THEN procs' \subseteq procs
     ELSE /\ [p EXCEPT !.todo = r] \in procs'
          /\ procs' \subseteq procs \union {[p EXCEPT !.todo = r]}

(* r is the end of t, without its first step.                              *)
Follows(t, r) == r = <<>> \/ \E k \in {2, 3} : r = SubSeq(t, k, Len(t))

(* common.go:122-145: an answer counts for the component it is about.      *)
LEMMA ExitMoves ==
  ASSUME Made, NEW p \in procs, NEW ok, Exit(p, ok)
  PROVE  /\ Moves(p, <<>>) /\ procs' = procs \ {p}
         /\ p.waited /\ ~ok => ~cmd'[p.by].compOK
<1>1. p.by \in Operators /\ cmd \in [Operators -> Commands(Steps, BOOLEAN)]
  BY DEF Made, MadeOf, Processes
<1>2. cmd' = [cmd EXCEPT ![p.by].compOK = cmd[p.by].compOK /\ (p.waited => ok)]
      /\ procs' = procs \ {p}
  BY DEF Exit
<1>3. ASSUME NEW a \in Operators
      PROVE  /\ cmd'[a].op = cmd[a].op /\ cmd'[a].flag = cmd[a].flag
             /\ cmd'[a].filter = cmd[a].filter /\ cmd'[a].comps = cmd[a].comps
             /\ cmd'[a].cur = cmd[a].cur /\ cmd'[a].batches = cmd[a].batches
             /\ cmd'[a].envOK = cmd[a].envOK
             /\ a # p.by => cmd'[a].compOK = cmd[a].compOK
             /\ a = p.by => cmd'[a].compOK = (cmd[a].compOK /\ (p.waited => ok))
  <2>1. cmd[a] \in Commands(Steps, BOOLEAN)
    BY <1>1
  <2>2. QED
    BY <1>1, <1>2, <2>1 DEF Commands
<1>4. SameWalk
  BY <1>3 DEF SameWalk
<1>5. QED
  BY <1>1, <1>2, <1>3, <1>4 DEF Moves

LEMMA GotoMoves ==
  ASSUME Made, NEW p \in procs, NEW r, Goto(p, r)
  PROVE  Moves(p, r)
<1>1. CASE r = <<>>
  BY <1>1, ExitMoves DEF Goto
<1>2. CASE r # <<>>
  BY <1>2 DEF Goto, Moves, SameWalk
<1>3. QED
  BY <1>1, <1>2

(* The scripts on the hosts after a move.                                  *)
LEMMA MovedScripts ==
  ASSUME Made, NEW p \in procs, NEW r, Moves(p, r), NEW q \in procs'
  PROVE  \/ q \in procs
         \/ /\ q.by = p.by /\ q.host = p.host /\ q.waited = p.waited
            /\ q.todo = r /\ r # <<>>
<1>1. p \in Processes(Steps)
  BY DEF Made, MadeOf
<1>2. /\ [p EXCEPT !.todo = r].by = p.by /\ [p EXCEPT !.todo = r].host = p.host
      /\ [p EXCEPT !.todo = r].waited = p.waited /\ [p EXCEPT !.todo = r].todo = r
  BY <1>1 DEF Processes
<1>3. QED
  BY <1>2 DEF Moves

(* The steps whose loss the accounts would notice.                         *)
Tracked == {"launch", "stop", "rmhome", "rmdata"} \union Formats

(* What a script drops is the step it has done, or the server that answers *)
(* already; r is left of p's steps, and what is dropped is noticed so.     *)
Drops(p, r) ==
  \A s \in ToSet(p.todo) \ ToSet(r) : s[1] \in Tracked =>
    \/ s = Head(p.todo)
    \/ s = <<"launch", "quorumpeer">> /\ AtStep(p, "zkstatus")
       /\ <<"quorumpeer", p.host>> \in up /\ UNCHANGED <<disk, running>>

(* The script of p is one of the command that its operator gave.           *)
LEMMA ScriptFits ==
  ASSUME Made, ScriptsFit, NEW p \in procs
  PROVE  /\ p.by \in Operators /\ p.host \in Hosts /\ p.waited
         /\ p.todo \in Seq(Steps) /\ p.todo # <<>>
         /\ cmd[p.by].op \in Ops /\ cmd[p.by].cur \in Declared
         /\ Fits(cmd[p.by].op, cmd[p.by].cur, p.host, p.todo)
         /\ Head(p.todo) \in ToSet(p.todo)
         /\ ToSet(p.todo) \subseteq StepsOf(cmd[p.by].op, cmd[p.by].cur)
<1>1. p \in Processes(Steps)
  BY DEF Made, MadeOf
<1>2. /\ p.by \in Operators /\ p.host \in Hosts
      /\ p.todo \in Seq(Steps) /\ p.todo # <<>>
  BY <1>1 DEF Processes, Scripts
<1>3. cmd[p.by] \in Commands(Steps, BOOLEAN)
  BY <1>2 DEF Made, MadeOf
<1>4. /\ p.waited /\ cmd[p.by].cur # "none"
      /\ Fits(cmd[p.by].op, cmd[p.by].cur, p.host, p.todo)
  BY DEF ScriptsFit
<1>5. /\ InOrder(p.todo)
      /\ ToSet(p.todo) \subseteq StepsOf(cmd[p.by].op, cmd[p.by].cur)
  BY <1>4 DEF Fits
<1>6. Head(p.todo) \in ToSet(p.todo)
  BY <1>2, <1>5, HeadFirst
<1>7. cmd[p.by].op \in Ops \union {"none"} /\ cmd[p.by].cur \in Declared
  BY <1>3, <1>4 DEF Commands
<1>8. cmd[p.by].op # "none"
  BY <1>5, <1>6 DEF StepsOf
<1>9. QED
  BY <1>2, <1>4, <1>5, <1>6, <1>7, <1>8

(* common.go:122-145, zookeeper.go, hdfs.go, hbase.go: how a script goes on. *)
LEMMA ScriptMoves ==
  ASSUME Made, ScriptsFit, NEW p \in procs, ScriptStep(p)
  PROVE  \E r : Moves(p, r) /\ Follows(p.todo, r) /\ Drops(p, r)
<1>1. /\ p.todo \in Seq(Steps) /\ p.todo # <<>>
      /\ ToSet(p.todo) \subseteq StepsOf(cmd[p.by].op, cmd[p.by].cur)
      /\ InOrder(p.todo) /\ Head(p.todo) \in ToSet(p.todo)
  BY ScriptFits DEF Fits
<1>2. \A s \in ToSet(p.todo) : s # Head(p.todo) =>
        /\ Head(p.todo)[1] \notin {"launch", "rmdata"}
        /\ Head(p.todo)[1] = "zkstatus" => s = <<"launch", "quorumpeer">>
  BY <1>1, HeadFirst
<1>3. ASSUME Advance(p)
      PROVE  Moves(p, Tail(p.todo)) /\ Follows(p.todo, Tail(p.todo)) /\ Drops(p, Tail(p.todo))
  <2>1. Tail(p.todo) = SubSeq(p.todo, 2, Len(p.todo))
    BY <1>1, TailIsSubSeq
  <2>2. Moves(p, Tail(p.todo))
    BY <1>3, GotoMoves DEF Advance
  <2>3. \A s \in ToSet(p.todo) \ ToSet(Tail(p.todo)) : s = Head(p.todo)
    <3> DEFINE k == 2
    <3>1. /\ k \in {2, 3} /\ k # 3
          /\ Tail(p.todo) = SubSeq(p.todo, k, Len(p.todo))
      BY <2>1
    <3> HIDE DEF k
    <3>2. QED
      BY <1>1, <3>1, RestSteps
  <2>4. QED
    BY <2>1, <2>2, <2>3 DEF Follows, Drops
<1>4. ASSUME NEW ok, Exit(p, ok), \A s \in ToSet(p.todo) : s[1] \in Tracked => s = Head(p.todo)
      PROVE  Moves(p, <<>>) /\ Follows(p.todo, <<>>) /\ Drops(p, <<>>)
  BY <1>4, ExitMoves DEF Follows, Drops
<1>5. CASE ZkStatus(p)
  <2>1. CASE Advance(p)
    BY <1>3, <2>1
  <2>2. CASE Exit(p, TRUE) /\ <<"quorumpeer", p.host>> \in up
    <3>1. Moves(p, <<>>)
      BY <2>2, ExitMoves
    <3>2. AtStep(p, "zkstatus") /\ Head(p.todo)[1] = "zkstatus" /\ UNCHANGED <<disk, running>>
      BY <1>5 DEF ZkStatus, AtStep
    <3>3. Drops(p, <<>>)
      BY <1>2, <2>2, <3>2 DEF Drops
    <3>4. Follows(p.todo, <<>>)
      BY DEF Follows
    <3>5. QED
      BY <3>1, <3>3, <3>4
  <2>3. QED
    BY <1>5, <2>1, <2>2 DEF ZkStatus
<1>6. CASE Format(p)
  <2>1. CASE Advance(p)
    BY <1>3, <2>1
  <2>2. CASE Goto(p, SubSeq(p.todo, 3, Len(p.todo)))
    <3> DEFINE r == SubSeq(p.todo, 3, Len(p.todo))
    <3>1. Head(p.todo)[1] \in Formats
      BY <1>6 DEF Format, Formatting, AtStep, Formats
    <3>2. 2 \in DOMAIN p.todo => p.todo[2][1] = "mark"
      BY <1>1, <3>1, HeadFirst
    <3>3. \A s \in ToSet(p.todo) \ ToSet(r) :
            s = Head(p.todo) \/ (2 \in DOMAIN p.todo /\ s = p.todo[2])
      BY <1>1, RestSteps
    <3>4. Moves(p, r)
      BY <2>2, GotoMoves
    <3> HIDE DEF r
    <3>5. Drops(p, r)
      BY <3>2, <3>3 DEF Drops, Tracked, Formats
    <3>6. Follows(p.todo, r)
      BY DEF Follows, r
    <3>7. QED
      BY <3>4, <3>5, <3>6
  <2>3. QED
    BY <1>6, <2>1, <2>2 DEF Format
<1>7. CASE Mark(p) \/ Stop(p) \/ StopFails(p) \/ Write(p) \/ RmHome(p) \/ RmData(p)
  BY <1>3, <1>7 DEF Mark, Stop, StopFails, Write, RmHome, RmData
<1>8. CASE LaunchRunning(p) \/ LaunchStarts(p) \/ LaunchFails(p)
  <2>1. PICK ok : Exit(p, ok)
    BY <1>8 DEF LaunchRunning, LaunchStarts, LaunchFails
  <2>2. Head(p.todo)[1] = "launch"
    BY <1>8 DEF LaunchRunning, LaunchStarts, LaunchFails, AtStep
  <2>3. QED
    BY <1>2, <1>4, <2>1, <2>2
<1>9. CASE Unpack(p) \/ Mv(p)
  <2>1. Head(p.todo)[1] \in {"unpack", "mv"}
    BY <1>9 DEF Unpack, Mv, AtStep
  <2>2. cmd[p.by].op = "install"
    BY <1>1, <2>1 DEF StepsOf, Starting, Formats
  <2>3. \A s \in ToSet(p.todo) : s[1] \notin Tracked
    BY <1>1, <2>2 DEF StepsOf, Tracked, Formats
  <2>4. CASE Advance(p)
    BY <1>3, <2>4
  <2>5. ASSUME NEW ok, Exit(p, ok)
        PROVE  \E r : Moves(p, r) /\ Follows(p.todo, r) /\ Drops(p, r)
    BY <1>4, <2>3, <2>5
  <2>6. QED
    BY <1>9, <2>4, <2>5 DEF Unpack, Mv
<1>10. QED
  BY <1>5, <1>6, <1>7, <1>8, <1>9 DEF ScriptStep

(* A move leaves the scripts fitting their commands, and the walks.        *)
LEMMA MovesFit ==
  ASSUME Made, ScriptsFit, NEW p \in procs, NEW r, Moves(p, r), Follows(p.todo, r)
  PROVE  ScriptsFit'
<1>1. SameWalk
  BY DEF Moves
<1>2. ASSUME NEW q \in procs'
      PROVE  /\ q.waited /\ cmd'[q.by].cur # "none"
             /\ Fits(cmd'[q.by].op, cmd'[q.by].cur, q.host, q.todo)
  <2>1. /\ p.by \in Operators /\ p.waited /\ cmd[p.by].cur # "none"
        /\ p.todo \in Seq(Steps) /\ p.todo # <<>>
        /\ Fits(cmd[p.by].op, cmd[p.by].cur, p.host, p.todo)
    BY ScriptFits DEF ScriptsFit
  <2>2. CASE q \in procs
    <3>1. q.by \in Operators
      BY <2>2, ScriptFits
    <3>2. QED
      BY <1>1, <2>2, <3>1 DEF SameWalk, ScriptsFit
  <2>3. CASE q.by = p.by /\ q.host = p.host /\ q.waited = p.waited /\ q.todo = r /\ r # <<>>
    <3>1. Fits(cmd[p.by].op, cmd[p.by].cur, p.host, r)
      BY <2>1, <2>3, RestFits DEF Follows
    <3>2. QED
      BY <1>1, <2>1, <2>3, <3>1 DEF SameWalk
  <2>4. QED
    BY <2>2, <2>3, MovedScripts
<1>3. ASSUME NEW a \in Operators, NEW i \in DOMAIN cmd'[a].batches
      PROVE  /\ cmd'[a].cur # "none"
             /\ Whole(cmd'[a].batches[i].todo)
             /\ \A h \in cmd'[a].batches[i].hosts :
                  Fits(cmd'[a].op, cmd'[a].cur, h, cmd'[a].batches[i].todo)
  BY <1>1 DEF SameWalk, ScriptsFit
<1>4. QED
  BY <1>2, <1>3 DEF ScriptsFit

LEMMA WalksSame ==
  ASSUME SameWalk, WalksInOrder
  PROVE  WalksInOrder'
BY DEF SameWalk, WalksInOrder, Acted

(* What a move leaves undone is still owed.                                *)
LEMMA MovesOwe ==
  ASSUME Made, NEW p \in procs, NEW r, Moves(p, r),
         NEW a \in Operators, NEW h, NEW s, Owed(a, h, s)
  PROVE  \/ Owed(a, h, s)'
         \/ p.by = a /\ p.host = h /\ s \in ToSet(p.todo) \ ToSet(r)
<1>1. CASE \E i \in DOMAIN cmd[a].batches :
             h \in cmd[a].batches[i].hosts /\ s \in ToSet(cmd[a].batches[i].todo)
  BY <1>1 DEF Moves, SameWalk, Owed
<1>2. ASSUME NEW q \in Waited(a), q.host = h, s \in ToSet(q.todo)
      PROVE  \/ Owed(a, h, s)'
             \/ p.by = a /\ p.host = h /\ s \in ToSet(p.todo) \ ToSet(r)
  <2>1. CASE q # p
    BY <1>2, <2>1 DEF Moves, Waited, Owed
  <2>2. CASE q = p /\ s \in ToSet(r)
    <3>1. r # <<>>
      BY <2>2 DEF ToSet
    <3>2. p \in Processes(Steps)
      BY DEF Made, MadeOf
    <3>3. /\ [p EXCEPT !.todo = r].by = a /\ [p EXCEPT !.todo = r].host = h
          /\ [p EXCEPT !.todo = r].waited /\ [p EXCEPT !.todo = r].todo = r
      BY <1>2, <2>2, <3>2 DEF Processes, Waited
    <3>4. [p EXCEPT !.todo = r] \in Waited(a)'
      BY <3>1, <3>3 DEF Moves, Waited
    <3>5. QED
      BY <2>2, <3>3, <3>4 DEF Owed
  <2>3. QED
    BY <1>2, <2>1, <2>2 DEF Waited
<1>3. QED
  BY <1>1, <1>2 DEF Owed

(* A reboot takes no script that is waited for unnoticed.                  *)
LEMMA CrashOwes ==
  ASSUME Made, NEW g \in Hosts, Crash(g)
  PROVE  /\ SameWalk /\ procs' \subseteq procs
         /\ \A a \in Operators : \A h, s :
              (Owed(a, h, s) /\ cmd'[a].compOK) => Owed(a, h, s)'
<1>1. ASSUME NEW a \in Operators
      PROVE  /\ cmd'[a].op = cmd[a].op /\ cmd'[a].flag = cmd[a].flag
             /\ cmd'[a].filter = cmd[a].filter /\ cmd'[a].comps = cmd[a].comps
             /\ cmd'[a].cur = cmd[a].cur /\ cmd'[a].batches = cmd[a].batches
             /\ cmd'[a].envOK = cmd[a].envOK
             /\ cmd'[a].compOK = (cmd[a].compOK /\ \A p \in Waited(a) : p.host # g)
  <2>1. cmd[a] \in Commands(Steps, BOOLEAN)
    BY DEF Made, MadeOf
  <2>2. cmd'[a] = [cmd[a] EXCEPT !.compOK = cmd[a].compOK /\ \A p \in Waited(a) : p.host # g]
    BY DEF Crash
  <2> DEFINE ok == cmd[a].compOK /\ \A p \in Waited(a) : p.host # g
  <2>3. cmd'[a] = [cmd[a] EXCEPT !.compOK = ok]
    BY <2>2
  <2> HIDE DEF ok
  <2>4. QED
    BY <2>1, <2>3 DEF Commands, ok
<1>2. procs' = {p \in procs : p.host # g}
  BY DEF Crash
<1>3. SameWalk
  BY <1>1 DEF SameWalk
<1>4. ASSUME NEW a \in Operators, NEW h, NEW s, Owed(a, h, s), cmd'[a].compOK
      PROVE  Owed(a, h, s)'
  <2>1. \A p \in Waited(a) : p \in procs'
    BY <1>1, <1>2, <1>4 DEF Waited
  <2>2. QED
    BY <1>1, <1>4, <2>1 DEF Owed, Waited
<1>5. QED
  BY <1>2, <1>3, <1>4

(* A script that answers that it failed leaves nothing to account for.     *)
LEMMA LostScripts ==
  ASSUME Made, ScriptsFit, NEW p \in procs, ConnectFails(p) \/ Dies(p)
  PROVE  Moves(p, <<>>) /\ ~cmd'[p.by].compOK
<1>1. Exit(p, FALSE)
  BY DEF ConnectFails, Dies
<1>2. QED
  BY <1>1, ExitMoves, ScriptFits

-----------------------------------------------------------------------------
(***************************************************************************)
(* What a command plans.                                                   *)
(***************************************************************************)
(* Every daemon of a component has its place in the order.                 *)
LEMMA RolesAll ==
  ASSUME NEW c \in Components
  PROVE  /\ \A i \in DOMAIN RoleOrder(c) : /\ RoleOrder(c)[i] \in DaemonsOf(c)
                                           /\ Reverse(RoleOrder(c))[i] \in DaemonsOf(c)
         /\ \A d \in DaemonsOf(c) :
              /\ \E i \in DOMAIN RoleOrder(c) : RoleOrder(c)[i] = d
              /\ \E i \in DOMAIN RoleOrder(c) : Reverse(RoleOrder(c))[i] = d
<1>1. CASE c = "zookeeper"
  <2>1. DaemonsOf(c) = {"quorumpeer"}
    BY <1>1 DEF DaemonsOf, Daemons, CompOf
  <2>2. RoleOrder(c) = <<"quorumpeer">> /\ Reverse(RoleOrder(c)) = <<"quorumpeer">>
    BY <1>1 DEF RoleOrder, Reverse
  <2>3. QED
    BY <2>1, <2>2
<1>2. CASE c = "hdfs"
  <2>1. DaemonsOf(c) = {"namenode", "datanode"}
    BY <1>2 DEF DaemonsOf, Daemons, CompOf
  <2>2. RoleOrder(c) = <<"namenode", "datanode">>
    BY <1>2 DEF RoleOrder
  <2>3. Reverse(RoleOrder(c)) = <<"datanode", "namenode">>
    BY <2>2 DEF Reverse
  <2>4. QED
    BY <2>1, <2>2, <2>3
<1>3. CASE c = "hbase"
  <2>1. DaemonsOf(c) = {"hmaster", "regionserver"}
    BY <1>3 DEF DaemonsOf, Daemons, CompOf
  <2>2. RoleOrder(c) = <<"hmaster", "regionserver">>
    BY <1>3 DEF RoleOrder
  <2>3. Reverse(RoleOrder(c)) = <<"regionserver", "hmaster">>
    BY <2>2 DEF Reverse
  <2>4. QED
    BY <2>1, <2>2, <2>3
<1>4. QED
  BY <1>1, <1>2, <1>3 DEF Components

(* zookeeper.go, hdfs.go:91-131, hbase.go: how a daemon is started.        *)
LEMMA StartFits ==
  ASSUME NEW c, NEW d \in DaemonsOf(c), NEW f \in BOOLEAN
  PROVE  /\ Whole(StartScript(d, f))
         /\ \A h \in RoleHosts[d] : Fits("start", c, h, StartScript(d, f))
         /\ <<"launch", d>> \in ToSet(StartScript(d, f))
<1>1. d \in Daemons
  BY DEF DaemonsOf
<1>2. CASE d = "quorumpeer"
  <2>1. StartScript(d, f) = << <<"zkstatus", d>>, <<"launch", d>> >>
    BY <1>2 DEF StartScript
  <2>2. ToSet(StartScript(d, f)) = {<<"zkstatus", d>>, <<"launch", d>>}
    BY <2>1 DEF ToSet
  <2>3. InOrder(StartScript(d, f))
    BY <1>2, <2>1 DEF InOrder, Formats
  <2>4. QED
    BY <1>2, <2>2, <2>3 DEF Whole, Fits, StepsOf, Starting, Formats
<1>3. CASE d = "namenode"
  <2> DEFINE e == IF f THEN "reformat" ELSE "format"
  <2>1. StartScript(d, f) = << <<e, d>>, <<"mark", d>>, <<"launch", d>> >>
    BY <1>3 DEF StartScript
  <2>2. e \in Formats
    BY DEF Formats
  <2> HIDE DEF e
  <2>3. ToSet(StartScript(d, f)) = {<<e, d>>, <<"mark", d>>, <<"launch", d>>}
    BY <2>1 DEF ToSet
  <2>4. InOrder(StartScript(d, f))
    BY <2>1, <2>2 DEF InOrder, Formats
  <2>5. Whole(StartScript(d, f))
    BY <2>2, <2>3 DEF Whole, Formats
  <2>6. QED
    BY <1>3, <2>2, <2>3, <2>4, <2>5 DEF Fits, StepsOf, Starting, Formats
<1>4. CASE d \notin {"quorumpeer", "namenode"}
  <2>1. StartScript(d, f) = << <<"launch", d>> >>
    BY <1>4 DEF StartScript
  <2>2. ToSet(StartScript(d, f)) = {<<"launch", d>>}
    BY <2>1 DEF ToSet
  <2>3. InOrder(StartScript(d, f))
    BY <2>1 DEF InOrder
  <2>4. QED
    BY <1>4, <2>2, <2>3 DEF Whole, Fits, StepsOf, Starting, Formats
<1>5. QED
  BY <1>2, <1>3, <1>4

(* One step is in order, and whole unless it needs another.                *)
LEMMA OneStepFits ==
  ASSUME NEW o, NEW c, NEW h, NEW s \in StepsOf(o, c),
         s[1] \in {"stop", "write"}
  PROVE  Whole(<<s>>) /\ Fits(o, c, h, <<s>>) /\ ToSet(<<s>>) = {s}
<1>1. ToSet(<<s>>) = {s}
  BY DEF ToSet
<1>2. InOrder(<<s>>)
  BY DEF InOrder
<1>3. QED
  BY <1>1, <1>2 DEF Whole, Fits, Starting, Formats

(* zookeeper.go, hdfs.go, hbase.go: how a component is installed.          *)
LEMMA InstallFits ==
  ASSUME NEW c, NEW h
  PROVE  Whole(InstallScript(c)) /\ Fits("install", c, h, InstallScript(c))
<1>1. InstallScript(c) = << <<"unpack", c>>, <<"mv", c>> >>
  BY DEF InstallScript
<1>2. ToSet(InstallScript(c)) = {<<"unpack", c>>, <<"mv", c>>}
  BY <1>1 DEF ToSet
<1>3. InOrder(InstallScript(c))
  BY <1>1 DEF InOrder, Formats
<1>4. QED
  BY <1>2, <1>3 DEF Whole, Fits, StepsOf, Starting, Formats

(* An uninstall is its stops, the home's removal, and the data's.          *)
LEMMA UninstallSteps ==
  ASSUME NEW c \in Components, NEW f \in BOOLEAN
  PROVE  LET t == UninstallScript(c, f) IN
         /\ InOrder(t)
         /\ \A s : s \in ToSet(t) <=>
              \/ s \in {"stop"} \X DaemonsOf(c)
              \/ s = <<"rmhome", c>>
              \/ f /\ s = <<"rmdata", c>>
<1> DEFINE n == Len(RoleOrder(c))
           stops == StopSteps(c)
           home1 == << <<"rmhome", c>> >>
           data  == IF f THEN << <<"rmdata", c>> >> ELSE <<>>
           t == UninstallScript(c, f)
<1>1. /\ n \in Nat /\ DOMAIN RoleOrder(c) = 1..n
      /\ stops \in Seq(Steps) /\ Len(stops) = n
      /\ \A i \in 1..n : stops[i] = <<"stop", Reverse(RoleOrder(c))[i]>>
  <2>1. n \in Nat /\ DOMAIN RoleOrder(c) = 1..n
    BY RolesTyped
  <2>2. {"stop"} \X Daemons \subseteq Steps
    BY DEF Steps
  <2>3. stops \in Seq(Steps) /\ Len(stops) = n
    BY <2>2, StopStepsAre
  <2>4. QED
    BY <2>1, <2>3 DEF StopSteps
<1>2. home1 \in Seq(Steps) /\ Len(home1) = 1 /\ home1[1] = <<"rmhome", c>>
  BY DEF Steps
<1>3. data \in Seq(Steps) /\ Len(data) = (IF f THEN 1 ELSE 0) /\ (f => data[1] = <<"rmdata", c>>)
  BY DEF Steps
<1>4. t = (stops \o home1) \o data
  BY DEF UninstallScript
<1> HIDE DEF stops, home1, data, t
<1>5. /\ stops \o home1 \in Seq(Steps) /\ Len(stops \o home1) = n + 1
      /\ \A i \in 1..(n + 1) : (stops \o home1)[i] = IF i <= n THEN stops[i] ELSE home1[i - n]
  <2>1. /\ stops \o home1 \in Seq(Steps) /\ Len(stops \o home1) = Len(stops) + Len(home1)
        /\ \A i \in 1..(Len(stops) + Len(home1)) :
             (stops \o home1)[i] = IF i <= Len(stops) THEN stops[i] ELSE home1[i - Len(stops)]
    BY <1>1, <1>2, ConcatProperties
  <2>2. Len(stops) = n /\ Len(home1) = 1
    BY <1>1, <1>2
  <2>3. QED
    BY <2>1, <2>2
<1>6. /\ t \in Seq(Steps) /\ Len(t) = n + 1 + Len(data)
      /\ \A i \in 1..Len(t) : t[i] = IF i <= n + 1 THEN (stops \o home1)[i] ELSE data[i - (n + 1)]
  BY <1>1, <1>3, <1>4, <1>5, ConcatProperties
<1>7. DOMAIN t = 1..(n + 1 + (IF f THEN 1 ELSE 0))
  BY <1>3, <1>6, LenProperties
<1>8. /\ \A i \in 1..n : t[i] = <<"stop", Reverse(RoleOrder(c))[i]>>
      /\ t[n + 1] = <<"rmhome", c>>
      /\ f => t[n + 2] = <<"rmdata", c>>
  <2>1. ASSUME NEW i \in 1..n PROVE t[i] = <<"stop", Reverse(RoleOrder(c))[i]>>
    BY <1>1, <1>3, <1>5, <1>6
  <2>2. t[n + 1] = <<"rmhome", c>>
    BY <1>1, <1>2, <1>3, <1>5, <1>6
  <2>3. f => t[n + 2] = <<"rmdata", c>>
    BY <1>1, <1>3, <1>6
  <2>4. QED
    BY <2>1, <2>2, <2>3
<1>9. ASSUME NEW i \in DOMAIN t
      PROVE  \/ i <= n /\ t[i] = <<"stop", Reverse(RoleOrder(c))[i]>>
             \/ i = n + 1 /\ t[i] = <<"rmhome", c>>
             \/ i = n + 2 /\ f /\ t[i] = <<"rmdata", c>>
  BY <1>1, <1>7, <1>8
<1> HIDE DEF n
<1>10. ASSUME NEW i \in DOMAIN t, NEW j \in DOMAIN t, i < j
       PROVE  /\ t[i][1] \in {"stop", "rmhome"}
              /\ t[j][1] = "stop" => t[i][1] # "rmhome"
              /\ t[j][1] \in {"stop", "rmhome", "rmdata"}
  <2>1. i <= n + 1 /\ (i = n + 1 => j = n + 2)
    BY <1>1, <1>7, <1>10
  <2>2. QED
    BY <1>1, <1>9, <2>1
<1>11. InOrder(t)
  <2> SUFFICES ASSUME NEW i \in DOMAIN t, NEW j \in DOMAIN t, i < j
               PROVE  /\ t[i][1] \notin {"launch", "rmdata"}
                      /\ t[i][1] = "zkstatus" => t[j] = <<"launch", "quorumpeer">>
                      /\ t[i][1] \in Formats /\ j = i + 1 => t[j][1] = "mark"
                      /\ t[j][1] \in Formats => t[i][1] # "mark"
                      /\ t[j][1] = "stop" => t[i][1] # "rmhome"
    BY DEF InOrder
  <2>1. QED
    BY <1>10 DEF Formats
<1>12. ASSUME NEW s
       PROVE  s \in ToSet(t) <=> \/ s \in {"stop"} \X DaemonsOf(c)
                                 \/ s = <<"rmhome", c>>
                                 \/ f /\ s = <<"rmdata", c>>
  <2>1. ASSUME s \in ToSet(t)
        PROVE  \/ s \in {"stop"} \X DaemonsOf(c)
               \/ s = <<"rmhome", c>>
               \/ f /\ s = <<"rmdata", c>>
    <3>1. PICK i \in DOMAIN t : s = t[i]
      BY <2>1 DEF ToSet
    <3>2. i <= n => Reverse(RoleOrder(c))[i] \in DaemonsOf(c)
      BY <1>1, <1>7, RolesAll
    <3>3. QED
      BY <1>9, <3>1, <3>2
  <2>2. ASSUME s \in {"stop"} \X DaemonsOf(c) PROVE s \in ToSet(t)
    <3>1. PICK d \in DaemonsOf(c) : s = <<"stop", d>>
      BY <2>2
    <3>2. PICK i \in DOMAIN RoleOrder(c) : Reverse(RoleOrder(c))[i] = d
      BY RolesAll
    <3>3. i \in DOMAIN t /\ t[i] = s
      BY <1>1, <1>7, <1>8, <3>1, <3>2
    <3>4. QED
      BY <3>3 DEF ToSet
  <2>3. ASSUME s = <<"rmhome", c>> PROVE s \in ToSet(t)
    <3>1. n + 1 \in DOMAIN t
      BY <1>1, <1>7
    <3>2. QED
      BY <1>8, <2>3, <3>1 DEF ToSet
  <2>4. ASSUME f, s = <<"rmdata", c>> PROVE s \in ToSet(t)
    <3>1. n + 2 \in DOMAIN t
      BY <1>1, <1>7, <2>4
    <3>2. QED
      BY <1>8, <2>4, <3>1 DEF ToSet
  <2>5. QED
    BY <2>1, <2>2, <2>3, <2>4
<1>13. QED
  BY <1>11, <1>12 DEF t

LEMMA UninstallFits ==
  ASSUME NEW c \in Components, NEW f \in BOOLEAN, NEW h
  PROVE  /\ Whole(UninstallScript(c, f))
         /\ Fits("uninstall", c, h, UninstallScript(c, f))
<1> DEFINE t == UninstallScript(c, f)
<1>1. /\ InOrder(t)
      /\ \A s : s \in ToSet(t) <=>
           \/ s \in {"stop"} \X DaemonsOf(c)
           \/ s = <<"rmhome", c>>
           \/ f /\ s = <<"rmdata", c>>
  BY UninstallSteps
<1> HIDE DEF t
<1>2. Whole(t)
  BY <1>1 DEF Whole, Formats
<1>3. Fits("uninstall", c, h, t)
  <2>1. ToSet(t) \subseteq StepsOf("uninstall", c)
    BY <1>1 DEF StepsOf
  <2>2. \A s \in ToSet(t) : s[1] \in {"stop", "rmhome", "rmdata"}
    BY <1>1
  <2>3. QED
    BY <1>1, <2>1, <2>2 DEF Fits, Starting, Formats
<1>4. QED
  BY <1>2, <1>3 DEF t

(* Every batch of a command fits it.                                       *)
LEMMA PlanFits ==
  ASSUME NEW o \in Ops, NEW c \in Declared, NEW f \in BOOLEAN,
         NEW i \in DOMAIN Plan(o, c, f)
  PROVE  /\ Whole(Plan(o, c, f)[i].todo)
         /\ \A h \in Plan(o, c, f)[i].hosts : Fits(o, c, h, Plan(o, c, f)[i].todo)
<1>1. c \in Components
  BY LifecycleAssumption DEF LifecycleAssumption
<1>2. CASE o = "start"
  <2>1. Plan(o, c, f) = [j \in DOMAIN RoleOrder(c) |->
                           [hosts |-> RoleHosts[RoleOrder(c)[j]],
                            todo  |-> StartScript(RoleOrder(c)[j], f)]]
    BY <1>2 DEF Plan
  <2>2. /\ i \in DOMAIN RoleOrder(c)
        /\ Plan(o, c, f)[i].hosts = RoleHosts[RoleOrder(c)[i]]
        /\ Plan(o, c, f)[i].todo = StartScript(RoleOrder(c)[i], f)
    BY <2>1
  <2>3. RoleOrder(c)[i] \in DaemonsOf(c)
    BY <1>1, <2>2, RolesAll
  <2>4. QED
    BY <1>2, <2>2, <2>3, StartFits
<1>3. CASE o = "stop"
  <2>1. Plan(o, c, f) = [j \in DOMAIN RoleOrder(c) |->
                           [hosts |-> RoleHosts[Reverse(RoleOrder(c))[j]],
                            todo  |-> << StopSteps(c)[j] >>]]
    BY <1>3 DEF Plan
  <2>2. i \in DOMAIN RoleOrder(c) /\ Plan(o, c, f)[i].todo = << StopSteps(c)[i] >>
    BY <2>1
  <2>3. StopSteps(c)[i] = <<"stop", Reverse(RoleOrder(c))[i]>>
    BY <2>2 DEF StopSteps
  <2>4. Reverse(RoleOrder(c))[i] \in DaemonsOf(c)
    BY <1>1, <2>2, RolesAll
  <2>5. StopSteps(c)[i] \in StepsOf(o, c) /\ StopSteps(c)[i][1] = "stop"
    BY <1>3, <2>3, <2>4 DEF StepsOf
  <2>6. QED
    BY <2>2, <2>5, OneStepFits
<1>4. CASE o = "install"
  <2>1. Plan(o, c, f) = << [hosts |-> HostsOf(c), todo |-> InstallScript(c)] >>
    BY <1>4 DEF Plan
  <2>2. Plan(o, c, f)[i].todo = InstallScript(c)
    BY <2>1
  <2>3. QED
    BY <1>4, <2>2, InstallFits
<1>5. CASE o = "uninstall"
  <2>1. Plan(o, c, f) = << [hosts |-> HostsOf(c), todo |-> UninstallScript(c, f)] >>
    BY <1>5 DEF Plan
  <2>2. Plan(o, c, f)[i].todo = UninstallScript(c, f)
    BY <2>1
  <2>3. QED
    BY <1>1, <1>5, <2>2, UninstallFits
<1>6. CASE o = "configure"
  <2>1. Plan(o, c, f)[i].todo = << <<"write", c>> >>
    <3>1. CASE c = "zookeeper"
      <4>1. Plan(o, c, f) =
              [j \in 1..Cardinality(HostsOf(c)) |->
                 [hosts |-> {SetToSeq(HostsOf(c))[j]}, todo |-> << <<"write", c>> >>]]
        BY <1>6, <3>1 DEF Plan
      <4>2. QED
        BY <4>1
    <3>2. CASE c # "zookeeper"
      <4>1. Plan(o, c, f) = << [hosts |-> HostsOf(c), todo |-> << <<"write", c>> >>] >>
        BY <1>6, <3>2 DEF Plan
      <4>2. QED
        BY <4>1
    <3>3. QED
      BY <3>1, <3>2
  <2>2. <<"write", c>> \in StepsOf(o, c)
    BY <1>6 DEF StepsOf
  <2>3. QED
    BY <2>1, <2>2, OneStepFits
<1>7. QED
  BY <1>2, <1>3, <1>4, <1>5, <1>6, LifecycleAssumption DEF LifecycleAssumption

(* A batch of command o on c has the step s on host h.                     *)
Planned(o, c, f, h, s) ==
  \E i \in DOMAIN Plan(o, c, f) :
    h \in Plan(o, c, f)[i].hosts /\ s \in ToSet(Plan(o, c, f)[i].todo)

(* hdfs.go:109-167 and its like: no daemon and no host is forgotten.       *)
LEMMA PlanComplete ==
  ASSUME NEW c \in Declared, NEW f \in BOOLEAN
  PROVE  /\ \A d \in DaemonsOf(c) : \A h \in RoleHosts[d] :
              /\ Planned("start", c, f, h, <<"launch", d>>)
              /\ Planned("stop", c, f, h, <<"stop", d>>)
              /\ Planned("uninstall", c, f, h, <<"stop", d>>)
         /\ f => \A h \in HostsOf(c) : Planned("uninstall", c, f, h, <<"rmdata", c>>)
<1>1. c \in Components
  BY LifecycleAssumption DEF LifecycleAssumption
<1>2. ASSUME NEW d \in DaemonsOf(c), NEW h \in RoleHosts[d]
      PROVE  Planned("start", c, f, h, <<"launch", d>>)
  <2>1. PICK i \in DOMAIN RoleOrder(c) : RoleOrder(c)[i] = d
    BY <1>1, RolesAll
  <2>2. Plan("start", c, f) = [j \in DOMAIN RoleOrder(c) |->
                                 [hosts |-> RoleHosts[RoleOrder(c)[j]],
                                  todo  |-> StartScript(RoleOrder(c)[j], f)]]
    BY DEF Plan
  <2>3. /\ i \in DOMAIN Plan("start", c, f)
        /\ Plan("start", c, f)[i].hosts = RoleHosts[d]
        /\ Plan("start", c, f)[i].todo = StartScript(d, f)
    BY <2>1, <2>2
  <2>4. QED
    BY <1>2, <2>3, StartFits DEF Planned
<1>3. ASSUME NEW d \in DaemonsOf(c), NEW h \in RoleHosts[d]
      PROVE  Planned("stop", c, f, h, <<"stop", d>>)
  <2>1. PICK i \in DOMAIN RoleOrder(c) : Reverse(RoleOrder(c))[i] = d
    BY <1>1, RolesAll
  <2>2. Plan("stop", c, f) = [j \in DOMAIN RoleOrder(c) |->
                                [hosts |-> RoleHosts[Reverse(RoleOrder(c))[j]],
                                 todo  |-> << StopSteps(c)[j] >>]]
    BY DEF Plan
  <2>3. StopSteps(c)[i] = <<"stop", d>>
    BY <2>1 DEF StopSteps
  <2>4. /\ i \in DOMAIN Plan("stop", c, f)
        /\ Plan("stop", c, f)[i].hosts = RoleHosts[d]
        /\ Plan("stop", c, f)[i].todo = << <<"stop", d>> >>
    <3>1. /\ i \in DOMAIN Plan("stop", c, f)
          /\ Plan("stop", c, f)[i].hosts = RoleHosts[Reverse(RoleOrder(c))[i]]
          /\ Plan("stop", c, f)[i].todo = << StopSteps(c)[i] >>
      BY <2>2
    <3>2. QED
      BY <2>1, <2>3, <3>1
  <2>5. <<"stop", d>> \in ToSet(<< <<"stop", d>> >>)
    BY DEF ToSet
  <2>6. QED
    BY <1>3, <2>4, <2>5 DEF Planned
<1>4. ASSUME NEW h \in HostsOf(c), NEW s \in ToSet(UninstallScript(c, f))
      PROVE  Planned("uninstall", c, f, h, s)
  <2>1. Plan("uninstall", c, f) = << [hosts |-> HostsOf(c), todo |-> UninstallScript(c, f)] >>
    BY DEF Plan
  <2>2. /\ 1 \in DOMAIN Plan("uninstall", c, f)
        /\ Plan("uninstall", c, f)[1].hosts = HostsOf(c)
        /\ Plan("uninstall", c, f)[1].todo = UninstallScript(c, f)
    BY <2>1
  <2>3. QED
    BY <1>4, <2>2 DEF Planned
<1>5. ASSUME NEW d \in DaemonsOf(c), NEW h \in RoleHosts[d]
      PROVE  h \in HostsOf(c)
  BY <1>5 DEF HostsOf
<1>6. /\ \A d \in DaemonsOf(c) : <<"stop", d>> \in ToSet(UninstallScript(c, f))
      /\ f => <<"rmdata", c>> \in ToSet(UninstallScript(c, f))
  BY <1>1, UninstallSteps
<1>7. QED
  BY <1>2, <1>3, <1>4, <1>5, <1>6

-----------------------------------------------------------------------------
(***************************************************************************)
(* The order of the components.                                            *)
(***************************************************************************)
LEMMA WalkIs ==
  ASSUME NEW o
  PROVE  /\ Walk(o) \in Seq(Components) /\ Len(Walk(o)) = 3
         /\ \A c \in Components : \E i \in 1..3 : Walk(o)[i] = c
         /\ \A i, j \in 1..3 : Walk(o)[i] = Walk(o)[j] => i = j
<1>1. Ordered = <<"zookeeper", "hdfs", "hbase">>
  BY DEF Ordered
<1>2. ReverseOrdered = <<"hbase", "hdfs", "zookeeper">>
  BY <1>1 DEF ReverseOrdered, Reverse
<1>3. CASE o \in {"stop", "uninstall"}
  BY <1>2, <1>3 DEF Walk, Components
<1>4. CASE o \notin {"stop", "uninstall"}
  BY <1>1, <1>4 DEF Walk, Components
<1>5. QED
  BY <1>3, <1>4

(* Nothing comes before itself.                                            *)
LEMMA EarlierOrder ==
  ASSUME NEW o, NEW b, NEW c, Earlier(o, b, c)
  PROVE  b # c /\ ~Earlier(o, c, b)
BY WalkIs DEF Earlier

(* Lists of up to three.                                                   *)
LEMMA ShortLists ==
  ASSUME NEW x, NEW y, NEW z
  PROVE  /\ <<x>> \o <<y>> = <<x, y>>
         /\ <<x, y>> \o <<z>> = <<x, y, z>>
         /\ <<x>> \o <<>> = <<x>> /\ <<>> \o <<x>> = <<x>> /\ <<>> \o <<>> = <<>>
         /\ <<x, y>> \o <<>> = <<x, y>>
<1> DEFINE S == {x, y, z}
<1>1. <<x>> \in Seq(S) /\ <<y>> \in Seq(S) /\ <<z>> \in Seq(S) /\ <<x, y>> \in Seq(S)
      /\ <<x, y, z>> \in Seq(S) /\ <<>> \in Seq(S)
  OBVIOUS
<1> HIDE DEF S
<1>2. <<x>> \o <<y>> = <<x, y>>
  <2>1. /\ <<x>> \o <<y>> \in Seq(S) /\ Len(<<x>> \o <<y>>) = Len(<<x>>) + Len(<<y>>)
        /\ \A i \in 1..(Len(<<x>>) + Len(<<y>>)) :
             (<<x>> \o <<y>>)[i] = IF i <= Len(<<x>>) THEN <<x>>[i] ELSE <<y>>[i - Len(<<x>>)]
    BY <1>1, ConcatProperties
  <2>2. Len(<<x>> \o <<y>>) = 2 /\ (<<x>> \o <<y>>)[1] = x /\ (<<x>> \o <<y>>)[2] = y
    BY <2>1
  <2> DEFINE l == <<x>> \o <<y>>
             m == <<x, y>>
  <2>3. /\ l \in Seq(S) /\ m \in Seq(S) /\ Len(l) = 2 /\ Len(m) = 2
        /\ \A i \in 1..2 : l[i] = m[i]
    BY <1>1, <2>1, <2>2
  <2> HIDE DEF l, m
  <2>4. l = m
    BY <2>3, SeqEqual
  <2>5. QED
    BY <2>4 DEF l, m
<1>3. <<x, y>> \o <<z>> = <<x, y, z>>
  <2>1. /\ <<x, y>> \o <<z>> \in Seq(S) /\ Len(<<x, y>> \o <<z>>) = Len(<<x, y>>) + Len(<<z>>)
        /\ \A i \in 1..(Len(<<x, y>>) + Len(<<z>>)) :
             (<<x, y>> \o <<z>>)[i] =
               IF i <= Len(<<x, y>>) THEN <<x, y>>[i] ELSE <<z>>[i - Len(<<x, y>>)]
    BY <1>1, ConcatProperties
  <2>2. /\ Len(<<x, y>> \o <<z>>) = 3
        /\ (<<x, y>> \o <<z>>)[1] = x /\ (<<x, y>> \o <<z>>)[2] = y
        /\ (<<x, y>> \o <<z>>)[3] = z
    BY <2>1
  <2> DEFINE l == <<x, y>> \o <<z>>
             m == <<x, y, z>>
  <2>3. /\ l \in Seq(S) /\ m \in Seq(S) /\ Len(l) = 3 /\ Len(m) = 3
        /\ \A i \in 1..3 : l[i] = m[i]
    BY <1>1, <2>1, <2>2
  <2> HIDE DEF l, m
  <2>4. l = m
    BY <2>3, SeqEqual
  <2>5. QED
    BY <2>4 DEF l, m
<1>4. QED
  BY <1>1, <1>2, <1>3, ConcatEmptySeq

(* component.go:29-33, start.go:24-26: a command takes the components that *)
(* it acts on, all of them, in its order.                                  *)
LEMMA WalkSorted ==
  ASSUME NEW o, NEW only
  PROVE  /\ ToSet(ComponentsFor(o, only)) = {c \in Declared : only \in {"all", c}}
         /\ \A i, j \in DOMAIN ComponentsFor(o, only) :
              i < j => Earlier(o, ComponentsFor(o, only)[i], ComponentsFor(o, only)[j])
<1> DEFINE Keep(c) == c \in Declared /\ only \in {"all", c}
           k(c) == IF Keep(c) THEN <<c>> ELSE <<>>
           x == Walk(o)[1]
           y == Walk(o)[2]
           z == Walk(o)[3]
           r == ComponentsFor(o, only)
<1>1. r = k(x) \o k(y) \o k(z)
  BY DEF ComponentsFor
<1>2. Earlier(o, x, y) /\ Earlier(o, x, z) /\ Earlier(o, y, z)
  BY DEF Earlier
<1>3. \A c : c \in {d \in Declared : only \in {"all", d}} <=> c \in {x, y, z} /\ Keep(c)
  BY WalkIs, LifecycleAssumption DEF LifecycleAssumption
<1> DEFINE Good(q) == /\ ToSet(q) = {c \in {x, y, z} : Keep(c)}
                      /\ \A i, j \in DOMAIN q : i < j => Earlier(o, q[i], q[j])
<1>4. Good(r)
  <2> HIDE DEF x, y, z, Keep
  <2>1. CASE ~Keep(x) /\ ~Keep(y) /\ ~Keep(z)
    <3>1. r = <<>>
      BY <1>1, <2>1
    <3>2. QED
      BY <2>1, <3>1 DEF ToSet
  <2>2. CASE Keep(x) /\ ~Keep(y) /\ ~Keep(z)
    <3>1. r = <<x>>
      BY <1>1, <2>2
    <3>2. QED
      BY <2>2, <3>1 DEF ToSet
  <2>3. CASE ~Keep(x) /\ Keep(y) /\ ~Keep(z)
    <3>1. r = <<y>>
      BY <1>1, <2>3
    <3>2. QED
      BY <2>3, <3>1 DEF ToSet
  <2>4. CASE ~Keep(x) /\ ~Keep(y) /\ Keep(z)
    <3>1. r = <<z>>
      BY <1>1, <2>4
    <3>2. QED
      BY <2>4, <3>1 DEF ToSet
  <2>5. CASE Keep(x) /\ Keep(y) /\ ~Keep(z)
    <3>1. r = <<x, y>>
      BY <1>1, <2>5, ShortLists
    <3>2. QED
      BY <1>2, <2>5, <3>1 DEF ToSet
  <2>6. CASE Keep(x) /\ ~Keep(y) /\ Keep(z)
    <3>1. r = <<x, z>>
      BY <1>1, <2>6, ShortLists
    <3>2. QED
      BY <1>2, <2>6, <3>1 DEF ToSet
  <2>7. CASE ~Keep(x) /\ Keep(y) /\ Keep(z)
    <3>1. r = <<y, z>>
      BY <1>1, <2>7, ShortLists
    <3>2. QED
      BY <1>2, <2>7, <3>1 DEF ToSet
  <2>8. CASE Keep(x) /\ Keep(y) /\ Keep(z)
    <3>1. r = <<x, y, z>>
      BY <1>1, <2>8, ShortLists
    <3>2. QED
      BY <1>2, <2>8, <3>1 DEF ToSet
  <2>9. QED
    BY <2>1, <2>2, <2>3, <2>4, <2>5, <2>6, <2>7, <2>8
<1>5. QED
  BY <1>3, <1>4

-----------------------------------------------------------------------------
(***************************************************************************)
(* A command goes on.                                                      *)
(***************************************************************************)
LEMMA TailIs ==
  ASSUME NEW S, NEW t \in Seq(S), t # <<>>
  PROVE  /\ 1 \in DOMAIN t /\ Head(t) = t[1] /\ Head(t) \in S /\ Tail(t) \in Seq(S)
         /\ \A i \in DOMAIN Tail(t) : i \in Nat /\ i + 1 \in DOMAIN t /\ Tail(t)[i] = t[i + 1]
         /\ \A j \in DOMAIN t : j = 1 \/ \E i \in DOMAIN Tail(t) : Tail(t)[i] = t[j]
         /\ ToSet(t) = {Head(t)} \union ToSet(Tail(t))
<1> DEFINE k == 2
<1>1. Len(t) \in Nat \ {0} /\ DOMAIN t = 1..Len(t) /\ Head(t) = t[1] /\ Head(t) \in S
  BY LenProperties, EmptySeq, HeadTailProperties
<1>2. Tail(t) = SubSeq(t, k, Len(t)) /\ k \in {2, 3}
  BY TailIsSubSeq
<1> HIDE DEF k
<1>3. /\ Tail(t) \in Seq(S)
      /\ \A i \in DOMAIN Tail(t) : i + k - 1 \in DOMAIN t /\ Tail(t)[i] = t[i + k - 1]
      /\ \A j \in DOMAIN t : j >= k => \E i \in DOMAIN Tail(t) : Tail(t)[i] = t[j]
  BY <1>2, RestIs
<1>4. \A i \in DOMAIN Tail(t) : i \in Nat
  BY <1>3, LenProperties
<1>5. \A i \in DOMAIN Tail(t) : i + 1 \in DOMAIN t /\ Tail(t)[i] = t[i + 1]
  BY <1>3, <1>4 DEF k
<1>6. ASSUME NEW j \in DOMAIN t PROVE j = 1 \/ \E i \in DOMAIN Tail(t) : Tail(t)[i] = t[j]
  <2>1. j = 1 \/ j >= k
    BY <1>1 DEF k
  <2>2. QED
    BY <1>3, <2>1
<1>7. ToSet(t) = {Head(t)} \union ToSet(Tail(t))
  BY <1>1, <1>5, <1>6 DEF ToSet
<1>8. QED
  BY <1>1, <1>3, <1>4, <1>5, <1>6, <1>7

(* A command that is at no component has no scripts, nor has one with all  *)
(* its answers; there are no others.                                       *)
LEMMA NoScripts ==
  ASSUME Made, Alone, ScriptsFit, NEW a \in Operators,
         cmd[a].cur = "none" \/ Waited(a) = {}
  PROVE  /\ procs = {}
         /\ cmd[a].cur = "none" => cmd[a].batches = <<>>
         /\ \A h, s : ~\E p \in Waited(a) : p.host = h /\ s \in ToSet(p.todo)
<1>1. ASSUME NEW p \in procs PROVE p \in Waited(a) /\ cmd[a].cur # "none"
  <2>1. p.by \in Operators /\ p.waited
    BY ScriptFits
  <2>2. p.by = a
    BY <2>1 DEF Alone
  <2>3. QED
    BY <2>1, <2>2 DEF Waited, ScriptsFit
<1>2. ASSUME cmd[a].cur = "none" PROVE cmd[a].batches = <<>>
  <2> DEFINE S == [hosts : SUBSET Hosts, todo : Scripts(Steps)]
             b == cmd[a].batches
  <2>1. b \in Seq(S)
    BY DEF Made, MadeOf, Commands, Batches
  <2>2. DOMAIN b = {}
    BY <1>2 DEF ScriptsFit
  <2> HIDE DEF S, b
  <2>3. Len(b) = 0
    BY <2>1, <2>2, LenProperties
  <2>4. QED
    BY <2>1, <2>3, EmptySeq DEF b
<1>3. QED
  BY <1>1, <1>2 DEF Waited

LEMMA InvokeFields ==
  ASSUME Made, NEW a \in Operators, NEW o, NEW only, NEW f, Invoke(a, o, only, f)
  PROVE  /\ cmd[a].op = "none"
         /\ cmd'[a].op = o /\ cmd'[a].flag = f /\ cmd'[a].filter = only
         /\ cmd'[a].comps = ComponentsFor(o, only) /\ cmd'[a].cur = "none"
         /\ cmd'[a].batches = <<>> /\ cmd'[a].compOK = TRUE /\ cmd'[a].envOK = TRUE
         /\ UNCHANGED <<procs, disk, running>>
<1>1. cmd'[a] = [Idle EXCEPT !.op = o, !.flag = f, !.filter = only,
                             !.comps = ComponentsFor(o, only)]
  BY DEF Invoke, Made, MadeOf
<1> DEFINE w == ComponentsFor(o, only)
<1>2. cmd'[a] = [op |-> o, flag |-> f, filter |-> only, comps |-> w, cur |-> "none",
                 batches |-> <<>>, compOK |-> TRUE, envOK |-> TRUE]
  BY <1>1 DEF Idle
<1> HIDE DEF w
<1>3. /\ cmd'[a].op = o /\ cmd'[a].flag = f /\ cmd'[a].filter = only
      /\ cmd'[a].comps = w /\ cmd'[a].cur = "none"
      /\ cmd'[a].batches = <<>> /\ cmd'[a].compOK = TRUE /\ cmd'[a].envOK = TRUE
  BY <1>2
<1>4. QED
  BY <1>3 DEF Invoke, w

LEMMA FinishFields ==
  ASSUME Made, NEW a \in Operators, Finish(a)
  PROVE  cmd'[a] = Idle /\ cmd[a].cur = "none" /\ UNCHANGED <<procs, disk, running>>
BY DEF Finish, Answering, Made, MadeOf

LEMMA NextCompFields ==
  ASSUME Made, NEW a \in Operators, NextComp(a)
  PROVE  /\ cmd[a].op \in Ops /\ cmd[a].flag \in BOOLEAN
         /\ cmd[a].cur = "none" /\ cmd[a].comps \in Seq(Declared) /\ cmd[a].comps # <<>>
         /\ cmd'[a].op = cmd[a].op /\ cmd'[a].flag = cmd[a].flag
         /\ cmd'[a].filter = cmd[a].filter /\ cmd'[a].envOK = cmd[a].envOK
         /\ cmd'[a].cur = Head(cmd[a].comps) /\ cmd'[a].comps = Tail(cmd[a].comps)
         /\ cmd'[a].batches = Plan(cmd[a].op, Head(cmd[a].comps), cmd[a].flag)
         /\ UNCHANGED <<procs, disk, running>>
<1>1. cmd[a] \in Commands(Steps, BOOLEAN) /\ cmd \in [Operators -> Commands(Steps, BOOLEAN)]
  BY DEF Made, MadeOf
<1>2. /\ cmd[a].op # "none" /\ cmd[a].cur = "none" /\ cmd[a].comps # <<>>
      /\ UNCHANGED <<procs, disk, running>>
  BY DEF NextComp, Between
<1>3. cmd[a].op \in Ops /\ cmd[a].flag \in BOOLEAN /\ cmd[a].comps \in Seq(Declared)
  BY <1>1, <1>2 DEF Commands
<1> DEFINE c == Head(cmd[a].comps)
           b == Plan(cmd[a].op, c, cmd[a].flag)
<1>4. cmd'[a] = [cmd[a] EXCEPT !.cur = c, !.comps = Tail(cmd[a].comps), !.batches = b]
  BY <1>1 DEF NextComp
<1> HIDE DEF c, b
<1>5. /\ cmd'[a].op = cmd[a].op /\ cmd'[a].flag = cmd[a].flag
      /\ cmd'[a].filter = cmd[a].filter /\ cmd'[a].envOK = cmd[a].envOK
      /\ cmd'[a].cur = c /\ cmd'[a].comps = Tail(cmd[a].comps) /\ cmd'[a].batches = b
  BY <1>1, <1>4 DEF Commands
<1>6. QED
  BY <1>2, <1>3, <1>5 DEF c, b

LEMMA PackageFields ==
  ASSUME Made, NEW a \in Operators, PackageFails(a)
  PROVE  /\ cmd[a].op = "install"
         /\ cmd[a].cur = "none" /\ cmd[a].comps \in Seq(Declared) /\ cmd[a].comps # <<>>
         /\ cmd'[a].op = cmd[a].op /\ cmd'[a].flag = cmd[a].flag
         /\ cmd'[a].filter = cmd[a].filter /\ cmd'[a].envOK = cmd[a].envOK
         /\ cmd'[a].cur = Head(cmd[a].comps) /\ cmd'[a].comps = Tail(cmd[a].comps)
         /\ cmd'[a].batches = cmd[a].batches
         /\ UNCHANGED <<procs, disk, running>>
<1>1. cmd[a] \in Commands(Steps, BOOLEAN) /\ cmd \in [Operators -> Commands(Steps, BOOLEAN)]
  BY DEF Made, MadeOf
<1>2. /\ cmd[a].op = "install" /\ cmd[a].cur = "none" /\ cmd[a].comps # <<>>
      /\ UNCHANGED <<procs, disk, running>>
  BY DEF PackageFails, Between
<1>3. cmd'[a] = [cmd[a] EXCEPT !.cur = Head(cmd[a].comps), !.comps = Tail(cmd[a].comps),
                               !.compOK = FALSE]
  BY <1>1 DEF PackageFails
<1>4. QED
  BY <1>1, <1>2, <1>3 DEF Commands

LEMMA NextBatchFields ==
  ASSUME Made, NEW a \in Operators, NextBatch(a)
  PROVE  /\ cmd[a].cur # "none" /\ Waited(a) = {}
         /\ cmd[a].batches \in Seq([hosts : SUBSET Hosts, todo : Scripts(Steps)])
         /\ cmd[a].batches # <<>>
         /\ cmd'[a].op = cmd[a].op /\ cmd'[a].flag = cmd[a].flag
         /\ cmd'[a].filter = cmd[a].filter /\ cmd'[a].envOK = cmd[a].envOK
         /\ cmd'[a].cur = cmd[a].cur /\ cmd'[a].comps = cmd[a].comps
         /\ cmd'[a].compOK = cmd[a].compOK
         /\ cmd'[a].batches = Tail(cmd[a].batches)
         /\ procs' = procs \union Launched(a) /\ UNCHANGED <<disk, running>>
<1>1. cmd[a] \in Commands(Steps, BOOLEAN) /\ cmd \in [Operators -> Commands(Steps, BOOLEAN)]
  BY DEF Made, MadeOf
<1>2. /\ cmd[a].cur # "none" /\ Waited(a) = {} /\ cmd[a].batches # <<>>
      /\ procs' = procs \union Launched(a) /\ UNCHANGED <<disk, running>>
  BY DEF NextBatch, Collected
<1>3. cmd[a].batches \in Seq([hosts : SUBSET Hosts, todo : Scripts(Steps)])
  BY <1>1 DEF Commands, Batches
<1>4. cmd'[a] = [cmd[a] EXCEPT !.batches = Tail(cmd[a].batches)]
  BY <1>1 DEF NextBatch
<1>5. /\ cmd'[a].op = cmd[a].op /\ cmd'[a].flag = cmd[a].flag
      /\ cmd'[a].filter = cmd[a].filter /\ cmd'[a].envOK = cmd[a].envOK
      /\ cmd'[a].cur = cmd[a].cur /\ cmd'[a].comps = cmd[a].comps
      /\ cmd'[a].compOK = cmd[a].compOK
      /\ cmd'[a].batches = Tail(cmd[a].batches)
  BY <1>1, <1>4 DEF Commands
<1>6. QED
  BY <1>2, <1>3, <1>5

LEMMA EndCompFields ==
  ASSUME Made, NEW a \in Operators, EndComp(a)
  PROVE  /\ cmd[a].cur \in Declared /\ Waited(a) = {} /\ cmd[a].batches = <<>>
         /\ cmd[a].compOK \in BOOLEAN /\ cmd[a].envOK \in BOOLEAN
         /\ cmd'[a].op = cmd[a].op /\ cmd'[a].flag = cmd[a].flag
         /\ cmd'[a].filter = cmd[a].filter
         /\ cmd'[a].envOK = (cmd[a].envOK /\ cmd[a].compOK)
         /\ cmd'[a].cur = "none" /\ cmd'[a].batches = <<>>
         /\ cmd'[a].comps = IF cmd[a].op = "start" /\ ~cmd[a].compOK THEN <<>> ELSE cmd[a].comps
         /\ UNCHANGED <<procs, disk, running>>
<1>1. cmd[a] \in Commands(Steps, BOOLEAN) /\ cmd \in [Operators -> Commands(Steps, BOOLEAN)]
  BY DEF Made, MadeOf
<1>2. /\ cmd[a].cur # "none" /\ Waited(a) = {} /\ cmd[a].batches = <<>>
      /\ UNCHANGED <<procs, disk, running>>
  BY DEF EndComp, Collected
<1>3. cmd[a].cur \in Declared /\ cmd[a].compOK \in BOOLEAN /\ cmd[a].envOK \in BOOLEAN
  BY <1>1, <1>2 DEF Commands
<1> DEFINE rest == IF cmd[a].op = "start" /\ ~cmd[a].compOK THEN <<>> ELSE cmd[a].comps
           env  == cmd[a].envOK /\ cmd[a].compOK
<1>4. cmd'[a] = [cmd[a] EXCEPT !.cur = "none", !.compOK = TRUE, !.envOK = env, !.comps = rest]
  BY <1>1 DEF EndComp
<1> HIDE DEF rest, env
<1>5. /\ cmd'[a].op = cmd[a].op /\ cmd'[a].flag = cmd[a].flag
      /\ cmd'[a].filter = cmd[a].filter
      /\ cmd'[a].envOK = env /\ cmd'[a].cur = "none" /\ cmd'[a].batches = cmd[a].batches
      /\ cmd'[a].comps = rest
  BY <1>1, <1>4 DEF Commands
<1>6. QED
  BY <1>2, <1>3, <1>5 DEF rest, env

(* The next component is the first of those to come.                       *)
LEMMA WalkGoesOn ==
  ASSUME Alone, WalksInOrder, NEW a \in Operators,
         cmd[a].op # "none", cmd[a].cur = "none",
         cmd[a].comps \in Seq(Declared), cmd[a].comps # <<>>,
         cmd'[a].op = cmd[a].op, cmd'[a].filter = cmd[a].filter,
         cmd'[a].envOK = cmd[a].envOK,
         cmd'[a].cur = Head(cmd[a].comps), cmd'[a].comps = Tail(cmd[a].comps)
  PROVE  WalksInOrder'
<1> DEFINE r == cmd[a].comps
           o == cmd[a].op
<1>1. /\ 1 \in DOMAIN r /\ Head(r) = r[1]
      /\ \A i \in DOMAIN Tail(r) : i \in Nat /\ i + 1 \in DOMAIN r /\ Tail(r)[i] = r[i + 1]
      /\ ToSet(r) = {Head(r)} \union ToSet(Tail(r))
  BY TailIs
<1>2. DOMAIN r \subseteq Nat /\ \A i \in DOMAIN r : 1 <= i
  BY LenProperties
<1>3. /\ ToSet(r) \subseteq Acted(a)
      /\ \A i \in DOMAIN r : \A j \in DOMAIN r : i < j => Earlier(o, r[i], r[j])
      /\ o = "start" => cmd[a].envOK
  BY DEF WalksInOrder
<1>4. Acted(a)' = Acted(a)
  BY DEF Acted
<1> HIDE DEF r, o
<1>5. ToSet(Tail(r)) \subseteq Acted(a) /\ Head(r) \in Acted(a)
  BY <1>1, <1>3
<1>6. ASSUME NEW i \in DOMAIN Tail(r)
      PROVE  /\ Earlier(o, Head(r), Tail(r)[i])
             /\ \A j \in DOMAIN Tail(r) : i < j => Earlier(o, Tail(r)[i], Tail(r)[j])
  <2>1. i \in Nat /\ i + 1 \in DOMAIN r /\ Tail(r)[i] = r[i + 1] /\ 1 <= i + 1 /\ 1 < i + 1
    <3>1. i \in Nat /\ i + 1 \in DOMAIN r /\ Tail(r)[i] = r[i + 1]
      BY <1>1
    <3>2. i # 0
      BY <3>1, LenProperties, TailIs DEF r
    <3>3. QED
      BY <3>1, <3>2
  <2>2. Earlier(o, Head(r), Tail(r)[i])
    BY <1>1, <1>3, <2>1
  <2>3. ASSUME NEW j \in DOMAIN Tail(r), i < j PROVE Earlier(o, Tail(r)[i], Tail(r)[j])
    <3>1. j \in Nat /\ j + 1 \in DOMAIN r /\ Tail(r)[j] = r[j + 1] /\ i + 1 < j + 1
      BY <1>1, <2>1, <2>3
    <3>2. QED
      BY <1>3, <2>1, <3>1
  <2>4. QED
    BY <2>2, <2>3
<1>7. /\ cmd'[a].op = o /\ cmd'[a].cur = Head(r) /\ cmd'[a].comps = Tail(r)
      /\ cmd'[a].envOK = cmd[a].envOK /\ o # "none"
  BY DEF r, o
<1>8. \A b \in Operators : b = a
  BY DEF Alone
<1>9. QED
  BY <1>3, <1>4, <1>5, <1>6, <1>7, <1>8 DEF WalksInOrder

LEMMA InvokeFits ==
  ASSUME Made, Alone, ScriptsFit, WalksInOrder,
         NEW a \in Operators, NEW o \in Ops, NEW only \in Filters, NEW f \in BOOLEAN,
         Invoke(a, o, only, f)
  PROVE  ScriptsFit' /\ WalksInOrder'
<1>1. \A b \in Operators : b = a
  BY DEF Alone
<1>2. /\ cmd[a].op = "none"
      /\ cmd'[a].op = o /\ cmd'[a].filter = only
      /\ cmd'[a].comps = ComponentsFor(o, only) /\ cmd'[a].cur = "none"
      /\ cmd'[a].batches = <<>> /\ cmd'[a].envOK = TRUE
      /\ procs' = procs
  BY InvokeFields
<1>3. procs = {}
  BY <1>2, NoScripts DEF WalksInOrder
<1>4. ScriptsFit'
  BY <1>1, <1>2, <1>3 DEF ScriptsFit
<1>5. o # "none"
  BY LifecycleAssumption DEF LifecycleAssumption
<1> DEFINE r == ComponentsFor(o, only)
<1>6. /\ ToSet(r) = {c \in Declared : only \in {"all", c}}
      /\ \A i \in DOMAIN r : \A j \in DOMAIN r : i < j => Earlier(o, r[i], r[j])
  BY WalkSorted
<1>7. cmd'[a].comps = r
  BY <1>2
<1> HIDE DEF r
<1>8. WalksInOrder'
  BY <1>1, <1>2, <1>5, <1>6, <1>7 DEF WalksInOrder, Acted
<1>9. QED
  BY <1>4, <1>8

LEMMA FinishFits ==
  ASSUME Made, Alone, ScriptsFit, NEW a \in Operators, Finish(a)
  PROVE  ScriptsFit' /\ WalksInOrder'
<1>1. \A b \in Operators : b = a
  BY DEF Alone
<1>2. /\ cmd[a].cur = "none" /\ procs' = procs
      /\ cmd'[a].op = "none" /\ cmd'[a].cur = "none"
      /\ cmd'[a].comps = <<>> /\ cmd'[a].batches = <<>>
  BY FinishFields DEF Idle
<1>3. procs = {}
  BY <1>2, NoScripts
<1>4. QED
  BY <1>1, <1>2, <1>3 DEF ScriptsFit, WalksInOrder, ToSet

LEMMA NextCompFits ==
  ASSUME Made, Alone, ScriptsFit, WalksInOrder, NEW a \in Operators, NextComp(a)
  PROVE  ScriptsFit' /\ WalksInOrder'
<1>1. \A b \in Operators : b = a
  BY DEF Alone
<1> DEFINE c == Head(cmd[a].comps)
           b == Plan(cmd[a].op, c, cmd[a].flag)
<1>2. /\ cmd[a].op \in Ops /\ cmd[a].flag \in BOOLEAN
      /\ cmd[a].cur = "none" /\ cmd[a].comps \in Seq(Declared) /\ cmd[a].comps # <<>>
      /\ cmd'[a].op = cmd[a].op
      /\ cmd'[a].filter = cmd[a].filter /\ cmd'[a].envOK = cmd[a].envOK
      /\ cmd'[a].cur = c /\ cmd'[a].comps = Tail(cmd[a].comps)
      /\ cmd'[a].batches = b /\ procs' = procs
  BY NextCompFields
<1>3. c \in Declared /\ c # "none" /\ cmd[a].op # "none"
  BY <1>2, TailIs, LifecycleAssumption DEF LifecycleAssumption, Components
<1>4. WalksInOrder'
  BY <1>2, <1>3, WalkGoesOn
<1>5. procs = {}
  BY <1>2, NoScripts
<1>6. \A i \in DOMAIN b : /\ Whole(b[i].todo)
                          /\ \A h \in b[i].hosts : Fits(cmd[a].op, c, h, b[i].todo)
  BY <1>2, <1>3, PlanFits
<1> HIDE DEF c, b
<1>7. ScriptsFit'
  BY <1>1, <1>2, <1>3, <1>5, <1>6 DEF ScriptsFit
<1>8. QED
  BY <1>4, <1>7

LEMMA PackageFits ==
  ASSUME Made, Alone, ScriptsFit, WalksInOrder, NEW a \in Operators, PackageFails(a)
  PROVE  ScriptsFit' /\ WalksInOrder'
<1>1. \A b \in Operators : b = a
  BY DEF Alone
<1>2. /\ cmd[a].op = "install"
      /\ cmd[a].cur = "none" /\ cmd[a].comps \in Seq(Declared) /\ cmd[a].comps # <<>>
      /\ cmd'[a].op = cmd[a].op
      /\ cmd'[a].filter = cmd[a].filter /\ cmd'[a].envOK = cmd[a].envOK
      /\ cmd'[a].cur = Head(cmd[a].comps) /\ cmd'[a].comps = Tail(cmd[a].comps)
      /\ cmd'[a].batches = cmd[a].batches /\ procs' = procs
  BY PackageFields
<1>3. WalksInOrder'
  BY <1>2, WalkGoesOn
<1>4. procs = {} /\ cmd[a].batches = <<>>
  BY <1>2, NoScripts
<1>5. ScriptsFit'
  BY <1>1, <1>2, <1>4 DEF ScriptsFit
<1>6. QED
  BY <1>3, <1>5

(* The scripts that a batch starts on the hosts.                           *)
LEMMA LaunchedAre ==
  ASSUME Made, Alone, ScriptsFit, NEW a \in Operators, NextBatch(a), NEW p \in procs'
  PROVE  /\ p.by = a /\ p.waited
         /\ p.host \in cmd[a].batches[1].hosts /\ p.todo = cmd[a].batches[1].todo
         /\ 1 \in DOMAIN cmd[a].batches /\ Whole(p.todo)
         /\ Fits(cmd[a].op, cmd[a].cur, p.host, p.todo)
<1>1. procs = {} /\ procs' = Launched(a)
  BY NoScripts, NextBatchFields
<1> DEFINE S == [hosts : SUBSET Hosts, todo : Scripts(Steps)]
           b == cmd[a].batches
<1>2. b \in Seq(S) /\ b # <<>>
  BY NextBatchFields
<1> HIDE DEF S
<1>3. 1 \in DOMAIN b /\ Head(b) = b[1]
  BY <1>2, TailIs
<1>4. p \in {[by |-> a, host |-> h, todo |-> Head(b).todo, waited |-> TRUE] : h \in Head(b).hosts}
  BY <1>1 DEF Launched
<1>5. p.by = a /\ p.waited /\ p.host \in b[1].hosts /\ p.todo = b[1].todo
  BY <1>3, <1>4
<1>6. QED
  BY <1>3, <1>5 DEF ScriptsFit

LEMMA NextBatchFits ==
  ASSUME Made, Alone, ScriptsFit, WalksInOrder, NEW a \in Operators, NextBatch(a)
  PROVE  ScriptsFit' /\ WalksInOrder'
<1>1. \A b \in Operators : b = a
  BY DEF Alone
<1> DEFINE S == [hosts : SUBSET Hosts, todo : Scripts(Steps)]
           b == cmd[a].batches
<1>2. /\ cmd[a].cur # "none" /\ b \in Seq(S) /\ b # <<>>
      /\ cmd'[a].op = cmd[a].op
      /\ cmd'[a].filter = cmd[a].filter /\ cmd'[a].envOK = cmd[a].envOK
      /\ cmd'[a].cur = cmd[a].cur /\ cmd'[a].comps = cmd[a].comps
      /\ cmd'[a].batches = Tail(b)
  BY NextBatchFields
<1> HIDE DEF S
<1>3. WalksInOrder'
  BY <1>1, <1>2 DEF WalksInOrder, Acted
<1>4. \A i \in DOMAIN Tail(b) : i + 1 \in DOMAIN b /\ Tail(b)[i] = b[i + 1]
  BY <1>2, TailIs
<1>5. \A i \in DOMAIN b : /\ Whole(b[i].todo)
                          /\ \A h \in b[i].hosts : Fits(cmd[a].op, cmd[a].cur, h, b[i].todo)
  BY DEF ScriptsFit
<1>6. \A i \in DOMAIN Tail(b) :
        /\ Whole(Tail(b)[i].todo)
        /\ \A h \in Tail(b)[i].hosts : Fits(cmd[a].op, cmd[a].cur, h, Tail(b)[i].todo)
  BY <1>4, <1>5
<1> HIDE DEF b
<1>7. \A p \in procs' : p.waited /\ p.by = a /\ Fits(cmd[a].op, cmd[a].cur, p.host, p.todo)
  BY LaunchedAre
<1>8. ScriptsFit'
  BY <1>1, <1>2, <1>6, <1>7 DEF ScriptsFit
<1>9. QED
  BY <1>3, <1>8

LEMMA EndCompFits ==
  ASSUME Made, Alone, ScriptsFit, WalksInOrder, NEW a \in Operators, EndComp(a)
  PROVE  ScriptsFit' /\ WalksInOrder'
<1>1. \A b \in Operators : b = a
  BY DEF Alone
<1>2. /\ cmd[a].cur \in Declared /\ Waited(a) = {}
      /\ cmd[a].compOK \in BOOLEAN /\ cmd[a].envOK \in BOOLEAN
      /\ cmd'[a].op = cmd[a].op /\ cmd'[a].filter = cmd[a].filter
      /\ cmd'[a].envOK = (cmd[a].envOK /\ cmd[a].compOK)
      /\ cmd'[a].cur = "none" /\ cmd'[a].batches = <<>>
      /\ cmd'[a].comps = IF cmd[a].op = "start" /\ ~cmd[a].compOK THEN <<>> ELSE cmd[a].comps
      /\ procs' = procs
  BY EndCompFields
<1>3. procs = {}
  BY <1>2, NoScripts
<1>4. ScriptsFit'
  BY <1>1, <1>2, <1>3 DEF ScriptsFit
<1>5. cmd[a].cur # "none"
  BY <1>2, LifecycleAssumption DEF LifecycleAssumption, Components
<1> DEFINE r == cmd[a].comps
<1>6. /\ cmd[a].op # "none"
      /\ ToSet(r) \subseteq Acted(a) /\ Acted(a)' = Acted(a)
      /\ \A i \in DOMAIN r : \A j \in DOMAIN r : i < j => Earlier(cmd[a].op, r[i], r[j])
      /\ cmd[a].op = "start" => cmd[a].envOK
  BY <1>2, <1>5 DEF WalksInOrder, Acted
<1> DEFINE q == cmd'[a].comps
<1>7. /\ ToSet(q) \subseteq Acted(a)'
      /\ \A i \in DOMAIN q : \A j \in DOMAIN q : i < j => Earlier(cmd[a].op, q[i], q[j])
      /\ cmd[a].op = "start" /\ q # <<>> => cmd'[a].envOK
  <2>1. CASE cmd[a].op = "start" /\ ~cmd[a].compOK
    <3>1. q = <<>>
      BY <1>2, <2>1
    <3>2. QED
      BY <3>1 DEF ToSet
  <2>2. CASE ~(cmd[a].op = "start" /\ ~cmd[a].compOK)
    <3>1. q = r
      BY <1>2, <2>2
    <3>2. QED
      BY <1>2, <1>6, <2>2, <3>1
  <2>3. QED
    BY <2>1, <2>2
<1>8. cmd'[a].comps = q
  OBVIOUS
<1> HIDE DEF r, q
<1>9. WalksInOrder'
  BY <1>1, <1>2, <1>6, <1>7, <1>8 DEF WalksInOrder
<1>10. QED
  BY <1>4, <1>9

-----------------------------------------------------------------------------
(***************************************************************************)
(* Every step, and what it does to the hosts.                              *)
(***************************************************************************)
(* A step of the command itself.                                           *)
WalkStep(a) ==
  \/ \E o \in Ops, only \in Filters, f \in BOOLEAN : Invoke(a, o, only, f)
  \/ NextComp(a) \/ NextBatch(a) \/ EndComp(a) \/ Finish(a) \/ PackageFails(a)

(* runner.go:87-93: no script is left behind.                              *)
LEMMA StepKinds ==
  ASSUME Alone, Next
  PROVE  \/ \E a \in Operators : WalkStep(a)
         \/ \E p \in procs : ScriptStep(p)
         \/ \E p \in procs : ConnectFails(p) \/ Dies(p)
         \/ \E h \in Hosts : Crash(h)
         \/ Cluster
<1>1. "abandon" \notin FaultKinds /\ "interrupt" \notin FaultKinds
  BY DEF Alone
<1>2. /\ \A p \in procs : ~Abandon(p)
      /\ \A a \in Operators : ~Interrupt(a)
  BY <1>1 DEF Abandon, Interrupt, Fault
<1>3. QED
  BY <1>2 DEF Next, Control, Failure, WalkStep

LEMMA WalkFits ==
  ASSUME Made, Alone, ScriptsFit, WalksInOrder, NEW a \in Operators, WalkStep(a)
  PROVE  ScriptsFit' /\ WalksInOrder' /\ UNCHANGED <<disk, running>>
<1>1. ScriptsFit' /\ WalksInOrder'
  BY InvokeFits, NextCompFits, NextBatchFits, EndCompFits, FinishFits, PackageFits DEF WalkStep
<1>2. UNCHANGED <<disk, running>>
  BY InvokeFields, NextCompFields, NextBatchFields, EndCompFields, FinishFields, PackageFields
  DEF WalkStep
<1>3. QED
  BY <1>1, <1>2

(* start.go, stop.go, uninstall.go: the scripts on the hosts are always    *)
(* the ones of the command, which takes its components in order.           *)
LEMMA FitsKept ==
  ASSUME Made, Alone, ScriptsFit, WalksInOrder, Next
  PROVE  ScriptsFit' /\ WalksInOrder'
<1>1. ASSUME NEW p \in procs, NEW r, Moves(p, r), Follows(p.todo, r)
      PROVE  ScriptsFit' /\ WalksInOrder'
  BY <1>1, MovesFit, WalksSame DEF Moves
<1>2. ASSUME NEW p \in procs, ScriptStep(p) PROVE ScriptsFit' /\ WalksInOrder'
  BY <1>1, <1>2, ScriptMoves
<1>3. ASSUME NEW p \in procs, ConnectFails(p) \/ Dies(p) PROVE ScriptsFit' /\ WalksInOrder'
  <2>1. Follows(p.todo, <<>>)
    BY DEF Follows
  <2>2. QED
    BY <1>1, <1>3, <2>1, LostScripts
<1>4. ASSUME NEW h \in Hosts, Crash(h) PROVE ScriptsFit' /\ WalksInOrder'
  <2>1. SameWalk /\ procs' \subseteq procs
    BY <1>4, CrashOwes
  <2>2. \A p \in procs : p.by \in Operators
    BY ScriptFits
  <2>3. ScriptsFit'
    BY <2>1, <2>2 DEF ScriptsFit, SameWalk
  <2>4. QED
    BY <2>1, <2>3, WalksSame
<1>5. CASE Cluster
  BY <1>5 DEF Cluster, QuorumForms, Register, ScriptsFit, WalksInOrder, Acted
<1>6. QED
  BY <1>2, <1>3, <1>4, <1>5, WalkFits, StepKinds

(* What the steps of a script say of its command.                          *)
LEMMA StepsAre ==
  ASSUME Made, ScriptsFit, NEW q \in procs, NEW s \in ToSet(q.todo)
  PROVE  LET o == cmd[q.by].op
             c == cmd[q.by].cur
         IN  /\ s = <<s[1], s[2]>>
             /\ s[1] \in Starting => /\ o = "start" /\ s[2] \in DaemonsOf(c)
                                     /\ q.host \in RoleHosts[s[2]]
             /\ s[1] \in Formats \union {"mark"} => s[2] = "namenode"
             /\ s[1] = "stop" => o \in {"stop", "uninstall"} /\ s[2] \in DaemonsOf(c)
             /\ s[1] \in {"rmhome", "rmdata"} => o = "uninstall" /\ s[2] = c
             /\ s[1] \in {"unpack", "mv"} => o = "install" /\ s[2] = c
             /\ s[1] = "write" => o = "configure" /\ s[2] = c
<1>1. /\ s \in StepsOf(cmd[q.by].op, cmd[q.by].cur)
      /\ s[1] \in Starting => q.host \in RoleHosts[s[2]]
      /\ s[1] \in Formats \union {"mark"} => s[2] = "namenode"
  BY ScriptFits DEF Fits
<1>2. QED
  BY <1>1 DEF StepsOf, Starting, Formats

(* The same of the step that a script is at.                               *)
LEMMA HeadIs ==
  ASSUME Made, ScriptsFit, NEW p \in procs, NEW e, AtStep(p, e)
  PROVE  LET o == cmd[p.by].op
             c == cmd[p.by].cur
         IN  /\ Head(p.todo) = <<e, Arg(p)>> /\ Head(p.todo) \in ToSet(p.todo)
             /\ p.by \in Operators /\ p.host \in Hosts /\ c \in Declared /\ c \in Components
             /\ e \in Starting => /\ o = "start" /\ Arg(p) \in DaemonsOf(c)
                                  /\ p.host \in RoleHosts[Arg(p)]
             /\ e \in Formats \union {"mark"} => Arg(p) = "namenode"
             /\ e = "stop" => o \in {"stop", "uninstall"} /\ Arg(p) \in DaemonsOf(c)
             /\ e \in {"rmhome", "rmdata"} => o = "uninstall" /\ Arg(p) = c
             /\ e \in {"unpack", "mv"} => o = "install" /\ Arg(p) = c
             /\ e = "write" => o = "configure" /\ Arg(p) = c
<1>1. Head(p.todo) \in ToSet(p.todo) /\ p.by \in Operators /\ p.host \in Hosts
      /\ cmd[p.by].cur \in Declared
  BY ScriptFits
<1>2. Head(p.todo)[1] = e /\ Head(p.todo)[2] = Arg(p)
  BY DEF AtStep, Arg
<1>3. cmd[p.by].cur \in Components
  BY <1>1, LifecycleAssumption DEF LifecycleAssumption
<1>4. QED
  BY <1>1, <1>2, <1>3, StepsAre

(* Which action a step is.                                                 *)
LEMMA StepIs ==
  ASSUME NEW p \in procs, ScriptStep(p)
  PROVE  /\ AtStep(p, "stop") <=> Stop(p) \/ StopFails(p)
         /\ AtStep(p, "rmhome") <=> RmHome(p)
         /\ AtStep(p, "rmdata") <=> RmData(p)
         /\ AtStep(p, "mark") <=> Mark(p)
         /\ AtStep(p, "mv") <=> Mv(p)
         /\ AtStep(p, "write") <=> Write(p)
         /\ Formatting(p) <=> Format(p)
         /\ AtStep(p, "launch") <=> LaunchRunning(p) \/ LaunchStarts(p) \/ LaunchFails(p)
BY DEF ScriptStep, AtStep, Formatting, ZkStatus, Format, Mark, LaunchRunning, LaunchStarts,
       LaunchFails, Stop, StopFails, Unpack, Mv, Write, RmHome, RmData

(* What a step leaves alone.                                               *)
LEMMA StepFrame ==
  ASSUME NEW p \in procs, ScriptStep(p)
  PROVE  /\ ~LaunchStarts(p) => up' \subseteq up /\ missed \subseteq missed' /\ UNCHANGED nnRun
         /\ ~LaunchStarts(p) /\ ~Stop(p) => UNCHANGED up
         /\ ~Mv(p) /\ ~RmHome(p) => UNCHANGED home
         /\ ~Write(p) /\ ~RmHome(p) => UNCHANGED cfg
         /\ ~Format(p) /\ ~RmData(p) => UNCHANGED nnId
         /\ ~Mark(p) /\ ~RmData(p) => UNCHANGED marker
         /\ ~RmData(p) => UNCHANGED dnId
         /\ ~LaunchStarts(p) /\ ~StopFails(p) => UNCHANGED missed
<1>1. CASE ZkStatus(p) \/ LaunchRunning(p) \/ LaunchFails(p) \/ Unpack(p)
  BY <1>1 DEF ZkStatus, LaunchRunning, LaunchFails, Unpack, disk, running
<1>2. CASE Format(p) \/ Mark(p) \/ Mv(p) \/ Write(p) \/ RmHome(p) \/ RmData(p)
  BY <1>2 DEF Format, Mark, Mv, Write, RmHome, RmData, running
<1>3. CASE LaunchStarts(p) \/ Stop(p) \/ StopFails(p)
  BY <1>3 DEF LaunchStarts, Stop, StopFails, Down, disk
<1>4. QED
  BY <1>1, <1>2, <1>3 DEF ScriptStep

(* How the homes and the configurations change.                            *)
LEMMA HomesAfter ==
  ASSUME Made, Typed, NEW p \in procs, NEW c \in Components, NEW h \in Hosts
  PROVE  /\ RmHome(p) => /\ home'[c][h] = IF c = Arg(p) /\ h = p.host THEN {} ELSE home[c][h]
                         /\ cfg'[c][h] = IF c = Arg(p) /\ h = p.host THEN FALSE ELSE cfg[c][h]
         /\ Write(p) => cfg'[c][h] = IF c = Arg(p) /\ h = p.host THEN TRUE ELSE cfg[c][h]
         /\ Mv(p) \/ Dies(p) => home[c][h] \subseteq home'[c][h]
         /\ Dies(p) => UNCHANGED <<cfg, running, nnId, marker, dnId>>
         /\ Dies(p) /\ ~AtStep(p, "mv") => UNCHANGED home
<1>1. /\ home \in [Components -> [Hosts -> SUBSET Parts]]
      /\ cfg \in [Components -> [Hosts -> BOOLEAN]]
  BY DEF Typed, DiskTyped
<1>2. \A e \in {"mv", "write", "rmhome"} :
        AtStep(p, e) => Arg(p) \in Components /\ p.host \in Hosts
  BY ArgTyped
<1>3. ASSUME RmHome(p)
      PROVE  /\ home'[c][h] = IF c = Arg(p) /\ h = p.host THEN {} ELSE home[c][h]
             /\ cfg'[c][h] = IF c = Arg(p) /\ h = p.host THEN FALSE ELSE cfg[c][h]
  BY <1>1, <1>2, <1>3 DEF RmHome
<1>4. ASSUME Write(p)
      PROVE  cfg'[c][h] = IF c = Arg(p) /\ h = p.host THEN TRUE ELSE cfg[c][h]
  BY <1>1, <1>2, <1>4 DEF Write
<1>5. ASSUME Mv(p)
      PROVE  home[c][h] \subseteq home'[c][h]
  <2>1. PICK X : home' = [home EXCEPT ![Arg(p)][p.host] = home[Arg(p)][p.host] \union X]
    BY <1>5 DEF Mv
  <2>2. QED
    BY <1>1, <1>2, <1>5, <2>1 DEF Mv
<1>6. ASSUME Dies(p)
      PROVE  home[c][h] \subseteq home'[c][h]
  <2>1. CASE AtStep(p, "mv")
    <3>1. PICK X : home' = [home EXCEPT ![Arg(p)][p.host] = home[Arg(p)][p.host] \union X]
      BY <1>6, <2>1 DEF Dies, AtStep
    <3>2. QED
      BY <1>1, <1>2, <2>1, <3>1
  <2>2. CASE ~AtStep(p, "mv")
    BY <1>6, <2>2 DEF Dies, AtStep
  <2>3. QED
    BY <2>1, <2>2
<1>7. /\ Dies(p) => UNCHANGED <<cfg, running, nnId, marker, dnId>>
      /\ Dies(p) /\ ~AtStep(p, "mv") => UNCHANGED home
  BY DEF Dies, AtStep
<1>8. QED
  BY <1>3, <1>4, <1>5, <1>6, <1>7

LEMMA CompOfIs ==
  ASSUME NEW d \in Daemons
  PROVE  CompOf[d] \in Components /\ d \in DaemonsOf(CompOf[d])
BY DEF Daemons, CompOf, Components, DaemonsOf

LEMMA CrashFrame ==
  ASSUME NEW h, Crash(h)
  PROVE  up' \subseteq up /\ UNCHANGED <<home, cfg, nnId, marker, dnId, missed, nnRun>>
BY DEF Crash, Down, disk

(* A DataNode joins the cluster of the NameNode, or is of another and ends. *)
LEMMA ClusterFrame ==
  ASSUME Typed, Cluster
  PROVE  /\ up' \subseteq up
         /\ UNCHANGED <<cmd, procs, home, cfg, nnId, marker, missed, nnRun>>
         /\ \A g \in Hosts : dnId'[g] # dnId[g] =>
              dnId[g] = NoId /\ dnId'[g] = nnRun /\ <<"datanode", g>> \in up
         /\ \A x \in up \ up' :
              x[1] = "datanode" /\ dnId[x[2]] \notin {NoId, nnRun} /\ UNCHANGED dnId
<1>1. CASE QuorumForms
  BY <1>1 DEF QuorumForms, disk
<1>2. ASSUME NEW h \in Hosts, Register(h)
      PROVE  /\ up' \subseteq up
             /\ UNCHANGED <<cmd, procs, home, cfg, nnId, marker, missed, nnRun>>
             /\ \A g \in Hosts : dnId'[g] # dnId[g] =>
                  dnId[g] = NoId /\ dnId'[g] = nnRun /\ <<"datanode", g>> \in up
             /\ \A x \in up \ up' :
                  x[1] = "datanode" /\ dnId[x[2]] \notin {NoId, nnRun} /\ UNCHANGED dnId
  <2>1. CASE dnId[h] = NoId
    BY <1>2, <2>1 DEF Register, Typed, DiskTyped
  <2>2. CASE dnId[h] # NoId
    <3>1. up' = up \ {<<"datanode", h>>} /\ UNCHANGED dnId /\ dnId[h] # nnRun
          /\ UNCHANGED <<cmd, procs, home, cfg, nnId, marker, missed, nnRun>>
      BY <1>2, <2>2 DEF Register, Down
    <3>2. QED
      BY <2>2, <3>1
  <2>3. QED
    BY <2>1, <2>2
<1>3. QED
  BY <1>1, <1>2 DEF Cluster

-----------------------------------------------------------------------------
(***************************************************************************)
(* The hosts, whatever happens to them.                                    *)
(***************************************************************************)
(* The scripts of one operator are all of one command.                     *)
LEMMA OneCommand ==
  ASSUME Made, Alone, ScriptsFit, NEW p \in procs, NEW q \in procs
  PROVE  p.by = q.by
BY ScriptFits DEF Alone

(* hdfs.go:155-167: a home is removed when nothing runs from it any more.  *)
LEMMA DaemonsKept ==
  ASSUME Made, Typed, Alone, ScriptsFit, WalksInOrder, DaemonsAtHome, RemovalsSafe, Next
  PROVE  DaemonsAtHome'
<1>1. \A x \in up : /\ x \in Daemons \X Hosts /\ x[1] \in Daemons /\ x[2] \in Hosts
                    /\ CompOf[x[1]] \in Components
  BY CompOfIs DEF Typed, RunningTyped
<1>2. ASSUME up' \subseteq up, missed \subseteq missed',
             \A c \in Components : \A h \in Hosts : home[c][h] \subseteq home'[c][h]
      PROVE  DaemonsAtHome'
  BY <1>1, <1>2 DEF DaemonsAtHome
<1>3. ASSUME up' \subseteq up, missed \subseteq missed', UNCHANGED home PROVE DaemonsAtHome'
  BY <1>2, <1>3
<1>4. ASSUME NEW p \in procs, ScriptStep(p) PROVE DaemonsAtHome'
  <2>1. CASE LaunchStarts(p)
    <3>1. /\ up' = up \union {<<Arg(p), p.host>>} /\ UNCHANGED home
          /\ missed' = missed \ {<<Arg(p), p.host>>}
          /\ "bin" \in home[CompOf[Arg(p)]][p.host]
      BY <2>1 DEF LaunchStarts, CanRun, Runnable, disk
    <3>2. AtStep(p, "launch")
      BY <2>1 DEF LaunchStarts
    <3>3. /\ Arg(p) \in DaemonsOf(cmd[p.by].cur) /\ p.host \in RoleHosts[Arg(p)]
          /\ cmd[p.by].cur \in Declared
      BY <3>2, HeadIs DEF Starting
    <3>4. CompOf[Arg(p)] \in Declared
      BY <3>3 DEF DaemonsOf
    <3>5. QED
      BY <3>1, <3>3, <3>4 DEF DaemonsAtHome
  <2>2. CASE RmHome(p)
    <3>1. AtStep(p, "rmhome") /\ ~LaunchStarts(p) /\ ~Stop(p)
      BY <2>2 DEF RmHome, LaunchStarts, Stop, AtStep
    <3>2. UNCHANGED up /\ missed \subseteq missed'
      BY <1>4, <3>1, StepFrame
    <3>3. Head(p.todo) = <<"rmhome", Arg(p)>> /\ Head(p.todo) \in ToSet(p.todo)
      BY <3>1, HeadIs
    <3>4. p.todo \in Seq(Steps) /\ p.todo # <<>> /\ InOrder(p.todo)
      BY ScriptFits DEF Fits
    <3>5. ASSUME NEW x \in up PROVE ~(CompOf[x[1]] = Arg(p) /\ x[2] = p.host) \/ x \in missed
      <4> SUFFICES ASSUME CompOf[x[1]] = Arg(p), x[2] = p.host, x \notin missed PROVE FALSE
        OBVIOUS
      <4>1. x = <<x[1], x[2]>> /\ x[1] \in Daemons
        BY <1>1
      <4>2. <<"stop", x[1]>> \in ToSet(p.todo)
        BY <3>3, <4>1 DEF RemovalsSafe
      <4>3. <<"stop", x[1]>> # Head(p.todo) /\ Head(p.todo)[1] = "rmhome"
        BY <3>3
      <4>4. QED
        BY <3>4, <4>2, <4>3, HeadFirst
    <3>6. ASSUME NEW x \in up, x \notin missed
          PROVE  home'[CompOf[x[1]]][x[2]] = home[CompOf[x[1]]][x[2]]
      <4>1. CompOf[x[1]] \in Components /\ x[2] \in Hosts
            /\ ~(CompOf[x[1]] = Arg(p) /\ x[2] = p.host)
        BY <1>1, <3>5, <3>6
      <4>2. QED
        BY <2>2, <4>1, HomesAfter
    <3>7. QED
      BY <3>2, <3>6 DEF DaemonsAtHome
  <2>3. CASE Mv(p)
    <3>1. up' \subseteq up /\ missed \subseteq missed'
      BY <2>3 DEF Mv, running
    <3>2. QED
      BY <1>2, <2>3, <3>1, HomesAfter
  <2>4. QED
    BY <1>3, <1>4, <2>1, <2>2, <2>3, StepFrame
<1>5. ASSUME NEW p \in procs, Dies(p) PROVE DaemonsAtHome'
  <2>1. up' \subseteq up /\ missed \subseteq missed'
    BY <1>5 DEF Dies, running
  <2>2. QED
    BY <1>2, <1>5, <2>1, HomesAfter
<1>6. QED
  <2>1. \A a \in Operators : WalkStep(a) => DaemonsAtHome'
    BY <1>3, WalkFits DEF disk, running
  <2>2. \A p \in procs : ConnectFails(p) => DaemonsAtHome'
    BY <1>3 DEF ConnectFails, disk, running
  <2>3. (\E h \in Hosts : Crash(h)) \/ Cluster => DaemonsAtHome'
    BY <1>3, CrashFrame, ClusterFrame
  <2>4. QED
    BY <1>4, <1>5, <2>1, <2>2, <2>3, StepKinds

(* hdfs.go:95-107: a format draws an id of its own.                        *)
LEMMA IdsKept ==
  ASSUME Made, Typed, Alone, ScriptsFit, WalksInOrder, IdsKnown, Next
  PROVE  IdsKnown'
<1>1. CASE UNCHANGED <<nnId, dnId, nnRun>>
  BY <1>1 DEF IdsKnown
<1>2. ASSUME NEW p \in procs, ScriptStep(p) PROVE IdsKnown'
  <2>1. CASE Format(p)
    <3>1. UNCHANGED <<dnId, nnRun>> /\ nnId' \in {nnId, FreshId}
      BY <2>1 DEF Format, running
    <3>2. \A h \in Hosts : dnId[h] # FreshId
      BY FreshIdIsNew DEF UsedIds, Typed
    <3>3. QED
      BY <3>1, <3>2 DEF IdsKnown
  <2>2. CASE LaunchStarts(p)
    BY <2>2 DEF LaunchStarts, disk, IdsKnown
  <2>3. CASE RmData(p)
    <3>1. UNCHANGED nnRun /\ nnId' \in {nnId, NoId}
      BY <2>3 DEF RmData, running
    <3>2. \A h \in Hosts : dnId'[h] \in {dnId[h], NoId}
      BY <2>3 DEF RmData, Typed, DiskTyped
    <3>3. QED
      BY <3>1, <3>2 DEF IdsKnown
  <2>4. QED
    BY <1>1, <1>2, <2>1, <2>2, <2>3, StepFrame
<1>3. CASE Cluster
  <2>1. UNCHANGED <<nnId, nnRun>>
        /\ \A g \in Hosts : dnId'[g] = dnId[g] \/ dnId'[g] = nnRun
    BY <1>3, ClusterFrame
  <2>2. QED
    BY <2>1 DEF IdsKnown
<1>4. QED
  <2>1. \A a \in Operators : WalkStep(a) => IdsKnown'
    BY <1>1, WalkFits DEF disk, running
  <2>2. \A p \in procs : ConnectFails(p) \/ Dies(p) => IdsKnown'
    BY <1>1 DEF ConnectFails, Dies, disk, running
  <2>3. (\E h \in Hosts : Crash(h)) => IdsKnown'
    BY <1>1, CrashFrame
  <2>4. QED
    BY <1>2, <1>3, <2>1, <2>2, <2>3, StepKinds

(* What an uninstall has to remove on its host, and whether it may.        *)
SafeOn(t, h) ==
  /\ \A d \in Daemons :
       (<<"rmhome", CompOf[d]>> \in ToSet(t) /\ <<d, h>> \in up) =>
         <<"stop", d>> \in ToSet(t) \/ <<d, h>> \in missed
  /\ \A c \in Components :
       (<<"rmdata", c>> \in ToSet(t) /\ <<"rmhome", c>> \notin ToSet(t)) =>
         home[c][h] = {} /\ ~cfg[c][h]

(* hdfs.go:155-167: stop, then remove the home, then the data.             *)
LEMMA RemovalsKept ==
  ASSUME Made, Typed, Alone, ScriptsFit, WalksInOrder, DaemonsAtHome, RemovalsSafe, Next
  PROVE  RemovalsSafe'
<1>1. \A q \in procs : SafeOn(q.todo, q.host)
  BY DEF RemovalsSafe, SafeOn
<1>2. ASSUME \A q \in procs' : SafeOn(q.todo, q.host)' PROVE RemovalsSafe'
  BY <1>2 DEF RemovalsSafe, SafeOn
<1>3. ASSUME NEW q \in procs, up' \subseteq up, missed \subseteq missed', UNCHANGED <<home, cfg>>
      PROVE  SafeOn(q.todo, q.host)'
  BY <1>1, <1>3 DEF SafeOn
<1>4. ASSUME NEW q \in procs, cmd[q.by].op # "uninstall" PROVE SafeOn(q.todo, q.host)'
  <2>1. \A e \in {"rmhome", "rmdata"} : \A c : <<e, c>> \notin ToSet(q.todo)
    BY <1>4, StepsAre
  <2>2. QED
    BY <2>1 DEF SafeOn
<1>5. ASSUME NEW a \in Operators, WalkStep(a) PROVE RemovalsSafe'
  <2>1. UNCHANGED <<up, missed, home, cfg>>
    BY <1>5, WalkFits DEF disk, running
  <2>2. CASE NextBatch(a)
    <3>1. ASSUME NEW q \in procs' PROVE SafeOn(q.todo, q.host)'
      <4>1. Whole(q.todo)
        BY <2>2, LaunchedAre
      <4>2. ASSUME NEW d \in Daemons, <<"rmhome", CompOf[d]>> \in ToSet(q.todo)
            PROVE  <<"stop", d>> \in ToSet(q.todo)
        BY <4>1, <4>2, CompOfIs DEF Whole
      <4>3. ASSUME NEW c \in Components, <<"rmdata", c>> \in ToSet(q.todo)
            PROVE  <<"rmhome", c>> \in ToSet(q.todo)
        BY <4>1, <4>3 DEF Whole
      <4>4. QED
        BY <4>2, <4>3 DEF SafeOn
    <3>2. QED
      BY <1>2, <3>1
  <2>3. CASE ~NextBatch(a)
    <3>1. UNCHANGED procs
      BY <1>5, <2>3, InvokeFields, NextCompFields, EndCompFields, FinishFields, PackageFields
      DEF WalkStep
    <3>2. QED
      BY <1>2, <1>3, <2>1, <3>1
  <2>4. QED
    BY <2>2, <2>3
<1>6. ASSUME NEW p \in procs, ScriptStep(p) PROVE RemovalsSafe'
  <2>1. PICK r : Moves(p, r) /\ Follows(p.todo, r) /\ Drops(p, r)
    BY <1>6, ScriptMoves
  <2>2. CASE cmd[p.by].op # "uninstall"
    <3>1. ASSUME NEW q \in procs' PROVE SafeOn(q.todo, q.host)'
      <4>1. CASE q \in procs
        BY <1>4, <2>2, <4>1, OneCommand
      <4>2. CASE q.todo = r /\ r # <<>>
        <5>1. ToSet(r) \subseteq ToSet(p.todo)
          BY <2>1, <4>2, ScriptFits, RestSteps DEF Follows
        <5>2. \A e \in {"rmhome", "rmdata"} : \A c : <<e, c>> \notin ToSet(p.todo)
          BY <2>2, StepsAre
        <5>3. QED
          BY <4>2, <5>1, <5>2 DEF SafeOn
      <4>3. QED
        BY <2>1, <4>1, <4>2, MovedScripts
    <3>2. QED
      BY <1>2, <3>1
  <2>3. CASE cmd[p.by].op = "uninstall"
    <3>1. ~LaunchStarts(p) /\ ~Mv(p) /\ ~Write(p)
      BY <2>3, HeadIs DEF LaunchStarts, Mv, Write, Starting
    <3>2. up' \subseteq up /\ missed \subseteq missed'
      BY <1>6, <3>1, StepFrame
    <3>3. ASSUME NEW c \in Components, NEW h \in Hosts
          PROVE  /\ home[c][h] = {} => home'[c][h] = {}
                 /\ ~cfg[c][h] => ~cfg'[c][h]
                 /\ RmHome(p) /\ c = Arg(p) /\ h = p.host => home'[c][h] = {} /\ ~cfg'[c][h]
      <4>1. CASE RmHome(p)
        <5>1. /\ home'[c][h] = IF c = Arg(p) /\ h = p.host THEN {} ELSE home[c][h]
              /\ cfg'[c][h] = IF c = Arg(p) /\ h = p.host THEN FALSE ELSE cfg[c][h]
          BY <4>1, HomesAfter
        <5>2. CASE c = Arg(p) /\ h = p.host
          BY <5>1, <5>2
        <5>3. CASE ~(c = Arg(p) /\ h = p.host)
          BY <5>1, <5>3
        <5>4. QED
          BY <5>2, <5>3
      <4>2. CASE ~RmHome(p)
        <5>1. UNCHANGED <<home, cfg>>
          BY <1>6, <3>1, <4>2, StepFrame
        <5>2. QED
          BY <4>2, <5>1
      <4>3. QED
        BY <4>1, <4>2
    <3>4. ASSUME NEW t, NEW h \in Hosts, SafeOn(t, h) PROVE SafeOn(t, h)'
      BY <3>2, <3>3, <3>4 DEF SafeOn
    <3>5. ASSUME r # <<>> PROVE SafeOn(r, p.host)'
      <4>1. p.host \in Hosts /\ SafeOn(p.todo, p.host)' /\ SafeOn(p.todo, p.host)
        BY <1>1, <3>4, ScriptFits
      <4>2. ToSet(r) \subseteq ToSet(p.todo)
        BY <2>1, <3>5, ScriptFits, RestSteps DEF Follows
      <4>3. ASSUME NEW d \in Daemons, <<"rmhome", CompOf[d]>> \in ToSet(r),
                   <<d, p.host>> \in up', <<"stop", d>> \notin ToSet(r),
                   <<d, p.host>> \notin missed'
            PROVE  FALSE
        <5>1. <<d, p.host>> \in up \ missed /\ <<"stop", d>> \in ToSet(p.todo)
          BY <3>2, <4>1, <4>2, <4>3 DEF SafeOn
        <5>2. <<"stop", d>> = Head(p.todo)
          BY <2>1, <4>3, <5>1 DEF Drops, Tracked
        <5>3. AtStep(p, "stop") /\ Arg(p) = d
          BY <5>2 DEF AtStep, Arg
        <5>4. Stop(p)
          BY <1>6, <4>3, <5>3, StepIs DEF StopFails
        <5>5. "bin" \in home[CompOf[Arg(p)]][p.host]
          BY <5>1, <5>3 DEF DaemonsAtHome
        <5>6. <<d, p.host>> \notin up'
          BY <5>3, <5>4, <5>5 DEF Stop, Down
        <5>7. QED
          BY <4>3, <5>6
      <4>4. ASSUME NEW c \in Components,
                   <<"rmdata", c>> \in ToSet(r), <<"rmhome", c>> \notin ToSet(r)
            PROVE  home'[c][p.host] = {} /\ ~cfg'[c][p.host]
        <5>1. CASE <<"rmhome", c>> \in ToSet(p.todo)
          <6>1. <<"rmhome", c>> = Head(p.todo)
            BY <2>1, <4>4, <5>1 DEF Drops, Tracked
          <6>2. AtStep(p, "rmhome") /\ Arg(p) = c
            BY <6>1 DEF AtStep, Arg
          <6>3. RmHome(p)
            BY <1>6, <6>2, StepIs
          <6>4. QED
            BY <3>3, <4>1, <6>2, <6>3
        <5>2. CASE <<"rmhome", c>> \notin ToSet(p.todo)
          BY <4>1, <4>2, <4>4, <5>2 DEF SafeOn
        <5>3. QED
          BY <5>1, <5>2
      <4>5. QED
        BY <4>3, <4>4 DEF SafeOn
    <3>6. ASSUME NEW q \in procs' PROVE SafeOn(q.todo, q.host)'
      <4>1. CASE q \in procs
        <5>1. q.host \in Hosts /\ SafeOn(q.todo, q.host)
          BY <1>1, <4>1, ScriptFits
        <5>2. QED
          BY <3>4, <5>1
      <4>2. CASE q.todo = r /\ r # <<>> /\ q.host = p.host
        BY <3>5, <4>2
      <4>3. QED
        BY <2>1, <4>1, <4>2, MovedScripts
    <3>7. QED
      BY <1>2, <3>6
  <2>4. QED
    BY <2>2, <2>3
<1>7. ASSUME NEW p \in procs, ConnectFails(p) \/ Dies(p) PROVE RemovalsSafe'
  <2>1. procs' \subseteq procs /\ up' \subseteq up /\ missed \subseteq missed'
    BY <1>7, LostScripts DEF Moves, ConnectFails, Dies, running
  <2>2. CASE Dies(p) /\ AtStep(p, "mv")
    <3>1. cmd[p.by].op = "install"
      BY <2>2, HeadIs
    <3>2. \A q \in procs : cmd[q.by].op # "uninstall"
      BY <3>1, OneCommand
    <3>3. QED
      BY <1>2, <1>4, <2>1, <3>2
  <2>3. CASE ~(Dies(p) /\ AtStep(p, "mv"))
    <3>1. UNCHANGED <<home, cfg>>
      BY <1>7, <2>3 DEF ConnectFails, Dies, AtStep, disk
    <3>2. QED
      BY <1>2, <1>3, <2>1, <3>1
  <2>4. QED
    BY <2>2, <2>3
<1>8. ASSUME NEW h \in Hosts, Crash(h) PROVE RemovalsSafe'
  BY <1>2, <1>3, <1>8, CrashFrame, CrashOwes
<1>9. CASE Cluster
  BY <1>2, <1>3, <1>9, ClusterFrame
<1>10. QED
  BY <1>5, <1>6, <1>7, <1>8, <1>9, StepKinds

-----------------------------------------------------------------------------
(***************************************************************************)
(* How the account of a command is carried on.                             *)
(***************************************************************************)
(* No component is "none", and it has no daemons.                          *)
LEMMA NoneIsEmpty ==
  /\ "none" \notin Components /\ "none" \notin Declared
  /\ DaemonsOf("none") = {} /\ HostsOf("none") = {}
<1>1. "none" \notin Components
  BY DEF Components
<1>2. "none" \notin Declared
  BY <1>1, LifecycleAssumption DEF LifecycleAssumption
<1>3. DaemonsOf("none") = {}
  BY <1>1, CompOfIs DEF DaemonsOf
<1>4. HostsOf("none") = {}
  BY <1>3 DEF HostsOf
<1>5. QED
  BY <1>1, <1>2, <1>3, <1>4

LEMMA BehindSame ==
  ASSUME SameWalk, NEW a \in Operators
  PROVE  Behind(a)' = Behind(a)
BY DEF SameWalk, Behind, Acted

(* A command that begins has nothing behind it.                            *)
LEMMA BehindInvoke ==
  ASSUME Made, NEW a \in Operators, NEW o, NEW only, NEW f, Invoke(a, o, only, f)
  PROVE  Behind(a)' = {}
<1>1. cmd'[a].comps = ComponentsFor(o, only) /\ cmd'[a].filter = only
  BY InvokeFields
<1>2. ToSet(cmd'[a].comps) = {c \in Declared : cmd'[a].filter \in {"all", c}}
  BY <1>1, WalkSorted
<1>3. QED
  BY <1>2 DEF Behind, Acted

LEMMA BehindNext ==
  ASSUME Made, NEW a \in Operators, NextComp(a)
  PROVE  Behind(a)' = Behind(a)
<1>1. /\ cmd[a].cur = "none" /\ cmd[a].comps \in Seq(Declared) /\ cmd[a].comps # <<>>
      /\ cmd'[a].filter = cmd[a].filter
      /\ cmd'[a].cur = Head(cmd[a].comps) /\ cmd'[a].comps = Tail(cmd[a].comps)
  BY NextCompFields
<1>2. ToSet(cmd[a].comps) = {Head(cmd[a].comps)} \union ToSet(Tail(cmd[a].comps))
  BY <1>1, TailIs
<1>3. Acted(a)' = Acted(a) /\ "none" \notin Acted(a)
  BY <1>1, NoneIsEmpty DEF Acted
<1>4. QED
  BY <1>1, <1>2, <1>3 DEF Behind

LEMMA BehindBatch ==
  ASSUME Made, NEW a \in Operators, NextBatch(a)
  PROVE  Behind(a)' = Behind(a)
<1>1. /\ cmd'[a].filter = cmd[a].filter
      /\ cmd'[a].cur = cmd[a].cur /\ cmd'[a].comps = cmd[a].comps
  BY NextBatchFields
<1>2. QED
  BY <1>1 DEF Behind, Acted

(* A component is behind the command when it has ended.                    *)
LEMMA BehindEnd ==
  ASSUME Made, NEW a \in Operators, EndComp(a), cmd'[a].envOK
  PROVE  /\ cmd[a].envOK /\ cmd[a].compOK
         /\ Behind(a)' \subseteq Behind(a) \union {cmd[a].cur}
<1>1. /\ cmd'[a].envOK = (cmd[a].envOK /\ cmd[a].compOK)
      /\ cmd'[a].filter = cmd[a].filter
      /\ cmd'[a].comps = IF cmd[a].op = "start" /\ ~cmd[a].compOK THEN <<>> ELSE cmd[a].comps
  BY EndCompFields
<1>2. cmd'[a].comps = cmd[a].comps /\ Acted(a)' = Acted(a)
  BY <1>1 DEF Acted
<1>3. QED
  BY <1>1, <1>2 DEF Behind

(* What is planned is owed.                                                *)
LEMMA PlannedOwed ==
  ASSUME Made, NEW a \in Operators, NextComp(a), NEW h, NEW s,
         Planned(cmd[a].op, Head(cmd[a].comps), cmd[a].flag, h, s)
  PROVE  Owed(a, h, s)'
<1>1. cmd'[a].batches = Plan(cmd[a].op, Head(cmd[a].comps), cmd[a].flag)
  BY NextCompFields
<1>2. QED
  BY <1>1 DEF Planned, Owed

LEMMA OwedBatch ==
  ASSUME Made, NEW a \in Operators, NextBatch(a), NEW h, NEW s, Owed(a, h, s)
  PROVE  Owed(a, h, s)'
<1> DEFINE S == [hosts : SUBSET Hosts, todo : Scripts(Steps)]
           b == cmd[a].batches
<1>1. /\ Waited(a) = {} /\ b \in Seq(S) /\ b # <<>>
      /\ cmd'[a].batches = Tail(b) /\ procs' = procs \union Launched(a)
  BY NextBatchFields
<1> HIDE DEF S
<1>2. PICK j \in DOMAIN b : h \in b[j].hosts /\ s \in ToSet(b[j].todo)
  BY <1>1 DEF Owed
<1>3. Head(b) = b[1] /\ (j = 1 \/ \E i \in DOMAIN Tail(b) : Tail(b)[i] = b[j])
  BY <1>1, TailIs
<1>4. CASE j = 1
  <2> DEFINE p == [by |-> a, host |-> h, todo |-> Head(b).todo, waited |-> TRUE]
  <2>1. p \in Launched(a)
    BY <1>2, <1>3, <1>4 DEF Launched
  <2>2. p.by = a /\ p.waited /\ p.host = h /\ s \in ToSet(p.todo)
    BY <1>2, <1>3, <1>4
  <2> HIDE DEF p
  <2>3. p \in Waited(a)'
    BY <1>1, <2>1, <2>2 DEF Waited
  <2>4. QED
    BY <2>2, <2>3 DEF Owed
<1>5. CASE \E i \in DOMAIN Tail(b) : Tail(b)[i] = b[j]
  BY <1>1, <1>2, <1>5 DEF Owed
<1>6. QED
  BY <1>3, <1>4, <1>5

(* With every answer there is nothing owed.                                *)
LEMMA NothingOwed ==
  ASSUME Made, NEW a \in Operators, EndComp(a), NEW h, NEW s
  PROVE  ~Owed(a, h, s)
<1>1. Waited(a) = {} /\ cmd[a].batches = <<>>
  BY EndCompFields
<1>2. QED
  BY <1>1 DEF Owed

-----------------------------------------------------------------------------
(***************************************************************************)
(* stop and uninstall.                                                     *)
(***************************************************************************)
StopHolds(a) ==
  /\ cmd[a].envOK => \A c \in Behind(a) : UpOf(c) \subseteq missed
  /\ cmd[a].compOK => \A x \in UpOf(cmd[a].cur) \ missed : Owed(a, x[2], <<"stop", x[1]>>)

(* A command that is where it was keeps its account when only daemons      *)
(* leave, and none of its stops is lost.                                   *)
LEMMA StopFrame ==
  ASSUME NEW a \in Operators, StopHolds(a), SameWalk, up' \subseteq up, missed \subseteq missed',
         \A x \in up' \ missed' : (Owed(a, x[2], <<"stop", x[1]>>) /\ cmd'[a].compOK) =>
           Owed(a, x[2], <<"stop", x[1]>>)'
  PROVE  StopHolds(a)'
<1>1. \A c : UpOf(c)' \subseteq UpOf(c) /\ UpOf(c)' \subseteq up'
  BY DEF UpOf
<1>2. ASSUME cmd'[a].envOK, NEW c \in Behind(a)' PROVE UpOf(c)' \subseteq missed'
  BY <1>1, <1>2, BehindSame DEF StopHolds, SameWalk
<1>3. ASSUME cmd'[a].compOK, NEW x \in UpOf(cmd[a].cur)', x \notin missed'
      PROVE  Owed(a, x[2], <<"stop", x[1]>>)'
  BY <1>1, <1>3 DEF StopHolds, SameWalk
<1>4. cmd'[a].cur = cmd[a].cur
  BY DEF SameWalk
<1>5. UpOf(cmd[a].cur)' = {x \in up' : CompOf[x[1]] = cmd[a].cur}
  BY <1>4 DEF UpOf
<1>6. QED
  BY <1>2, <1>3, <1>4 DEF StopHolds

(* stop.go:24-33, uninstall.go:25-34: what runs of the components that are *)
(* to be stopped is still to be stopped, or an answer was not OK.          *)
LEMMA StopKept ==
  ASSUME Made, Typed, Alone, ScriptsFit, WalksInOrder, DaemonsAtHome, StopAccount, Next
  PROVE  StopAccount'
<1> SUFFICES ASSUME NEW a \in Operators, cmd'[a].op \in {"stop", "uninstall"}
             PROVE  StopHolds(a)'
  BY DEF StopAccount, StopHolds
<1>1. cmd[a].op \in {"stop", "uninstall"} => StopHolds(a)
  BY DEF StopAccount, StopHolds
<1>2. \A b \in Operators : b = a
  BY DEF Alone
<1>3. \A x \in up : /\ x = <<x[1], x[2]>> /\ x[1] \in Daemons /\ x[2] \in RoleHosts[x[1]]
                    /\ CompOf[x[1]] \in Components /\ CompOf[x[1]] # "none"
                    /\ x[1] \in DaemonsOf(CompOf[x[1]])
  BY CompOfIs, NoneIsEmpty DEF Typed, RunningTyped, DaemonsAtHome
<1>4. ASSUME NEW p \in procs, ScriptStep(p) PROVE StopHolds(a)'
  <2>1. PICK r : Moves(p, r) /\ Follows(p.todo, r) /\ Drops(p, r)
    BY <1>4, ScriptMoves
  <2>2. p.by = a /\ SameWalk /\ StopHolds(a) /\ cmd[a].op # "start"
    BY <1>1, <1>2, <2>1, ScriptFits DEF Moves, SameWalk
  <2>3. ~LaunchStarts(p)
    BY <2>2, HeadIs DEF LaunchStarts, Starting
  <2>4. up' \subseteq up /\ missed \subseteq missed'
    BY <1>4, <2>3, StepFrame
  <2>5. ASSUME NEW x \in up', x \notin missed', Owed(a, x[2], <<"stop", x[1]>>),
               ~Owed(a, x[2], <<"stop", x[1]>>)'
        PROVE  FALSE
    <3>1. p.host = x[2] /\ <<"stop", x[1]>> \in ToSet(p.todo) \ ToSet(r)
      BY <2>1, <2>5, MovesOwe
    <3>2. <<"stop", x[1]>> = Head(p.todo)
      BY <2>1, <3>1 DEF Drops, Tracked
    <3>3. AtStep(p, "stop") /\ Arg(p) = x[1]
      BY <3>2 DEF AtStep, Arg
    <3>4. x = <<Arg(p), p.host>> /\ "bin" \in home[CompOf[Arg(p)]][p.host]
      BY <1>3, <2>4, <2>5, <3>1, <3>3 DEF DaemonsAtHome
    <3>5. Stop(p)
      BY <1>4, <2>5, <3>3, <3>4, StepIs DEF StopFails
    <3>6. x \notin up'
      BY <3>4, <3>5 DEF Stop, Down
    <3>7. QED
      BY <3>6
  <2>6. QED
    BY <2>2, <2>4, <2>5, StopFrame
<1>5. ASSUME NEW p \in procs, ConnectFails(p) \/ Dies(p) PROVE StopHolds(a)'
  <2>1. /\ Moves(p, <<>>) /\ ~cmd'[p.by].compOK /\ p.by = a
        /\ up' \subseteq up /\ missed \subseteq missed'
    BY <1>2, <1>5, LostScripts, ScriptFits DEF ConnectFails, Dies, running
  <2>2. SameWalk /\ StopHolds(a)
    BY <1>1, <2>1 DEF Moves, SameWalk
  <2>3. QED
    BY <2>1, <2>2, StopFrame
<1>6. ASSUME NEW h \in Hosts, Crash(h) PROVE StopHolds(a)'
  <2>1. /\ SameWalk /\ up' \subseteq up /\ missed \subseteq missed'
        /\ \A g, s : (Owed(a, g, s) /\ cmd'[a].compOK) => Owed(a, g, s)'
    BY <1>6, CrashOwes, CrashFrame
  <2>2. StopHolds(a)
    BY <1>1, <2>1 DEF SameWalk
  <2>3. QED
    BY <2>1, <2>2, StopFrame
<1>7. CASE Cluster
  <2>1. up' \subseteq up /\ missed' = missed /\ cmd' = cmd /\ procs' = procs
    BY <1>7, ClusterFrame
  <2>2. SameWalk /\ StopHolds(a)
    BY <1>1, <2>1 DEF SameWalk
  <2>3. \A g, s : Owed(a, g, s) => Owed(a, g, s)'
    BY <2>1 DEF Owed, Waited
  <2>4. QED
    BY <2>1, <2>2, <2>3, StopFrame
<1>8. ASSUME WalkStep(a) PROVE StopHolds(a)'
  <2>1. up' = up /\ missed' = missed /\ \A c : UpOf(c)' = UpOf(c)
    BY <1>8, WalkFits DEF running, UpOf
  <2>2. UpOf("none") = {}
    BY <1>3 DEF UpOf
  <2>3. ASSUME NEW o, NEW only, NEW f, Invoke(a, o, only, f) PROVE StopHolds(a)'
    <3>1. Behind(a)' = {} /\ cmd'[a].cur = "none"
      BY <2>3, BehindInvoke, InvokeFields
    <3>2. UpOf(cmd[a].cur)' = {}
      BY <2>1, <2>2, <3>1 DEF UpOf
    <3>3. QED
      BY <3>1, <3>2 DEF StopHolds
  <2>4. ASSUME NextComp(a) PROVE StopHolds(a)'
    <3> DEFINE c == Head(cmd[a].comps)
    <3>1. /\ cmd'[a].op = cmd[a].op /\ cmd'[a].envOK = cmd[a].envOK /\ cmd'[a].cur = c
          /\ cmd[a].flag \in BOOLEAN /\ c \in Declared
      BY <2>4, NextCompFields, TailIs
    <3>2. Behind(a)' = Behind(a) /\ StopHolds(a)
      BY <1>1, <2>4, <3>1, BehindNext
    <3>3. ASSUME NEW x \in UpOf(c) PROVE Owed(a, x[2], <<"stop", x[1]>>)'
      <4>1. x[1] \in DaemonsOf(c) /\ x[2] \in RoleHosts[x[1]]
        BY <1>3, <3>3 DEF UpOf
      <4>2. Planned(cmd[a].op, c, cmd[a].flag, x[2], <<"stop", x[1]>>)
        BY <3>1, <4>1, PlanComplete
      <4>3. QED
        BY <2>4, <4>2, PlannedOwed
    <3> HIDE DEF c
    <3>4. UpOf(cmd[a].cur)' = UpOf(c)
      BY <2>1, <3>1 DEF UpOf
    <3>5. QED
      BY <2>1, <3>1, <3>2, <3>3, <3>4 DEF StopHolds
  <2>5. ASSUME NextBatch(a) PROVE StopHolds(a)'
    <3>1. /\ cmd'[a].op = cmd[a].op /\ cmd'[a].envOK = cmd[a].envOK
          /\ cmd'[a].cur = cmd[a].cur /\ cmd'[a].compOK = cmd[a].compOK
      BY <2>5, NextBatchFields
    <3>2. Behind(a)' = Behind(a) /\ StopHolds(a)
      BY <1>1, <2>5, <3>1, BehindBatch
    <3>3. UpOf(cmd[a].cur)' = UpOf(cmd[a].cur)
      BY <2>1, <3>1 DEF UpOf
    <3>4. \A h, s : Owed(a, h, s) => Owed(a, h, s)'
      BY <2>5, OwedBatch
    <3>5. QED
      BY <2>1, <3>1, <3>2, <3>3, <3>4 DEF StopHolds
  <2>6. ASSUME EndComp(a) PROVE StopHolds(a)'
    <3>1. cmd'[a].op = cmd[a].op /\ cmd'[a].cur = "none"
      BY <2>6, EndCompFields
    <3>2. StopHolds(a)
      BY <1>1, <3>1
    <3>3. UpOf(cmd[a].cur)' = {}
      BY <2>1, <2>2, <3>1 DEF UpOf
    <3>4. ASSUME cmd'[a].envOK, NEW c \in Behind(a)' PROVE UpOf(c) \subseteq missed
      <4>1. cmd[a].envOK /\ cmd[a].compOK /\ c \in Behind(a) \union {cmd[a].cur}
        BY <2>6, <3>4, BehindEnd
      <4>2. UpOf(cmd[a].cur) \subseteq missed
        BY <2>6, <3>2, <4>1, NothingOwed DEF StopHolds
      <4>3. QED
        BY <3>2, <4>1, <4>2 DEF StopHolds
    <3>5. QED
      BY <2>1, <3>3, <3>4 DEF StopHolds
  <2>7. ~Finish(a)
    BY FinishFields DEF Idle
  <2>8. ~PackageFails(a)
    BY PackageFields
  <2>9. QED
    BY <1>8, <2>3, <2>4, <2>5, <2>6, <2>7, <2>8 DEF WalkStep
<1>9. QED
  BY <1>2, <1>4, <1>5, <1>6, <1>7, <1>8, StepKinds

-----------------------------------------------------------------------------
(***************************************************************************)
(* uninstall --purge-data.                                                 *)
(***************************************************************************)
(* What an uninstall has removed does not come back.                       *)
LEMMA UninstallRemoves ==
  ASSUME Made, Typed, ScriptsFit, NEW p \in procs,
         ScriptStep(p) \/ ConnectFails(p) \/ Dies(p), cmd[p.by].op = "uninstall"
  PROVE  /\ \A c \in Components : \A h \in Hosts :
              /\ home[c][h] = {} => home'[c][h] = {}
              /\ ~cfg[c][h] => ~cfg'[c][h]
         /\ \A h \in Hosts : dnId[h] = NoId => dnId'[h] = NoId
         /\ Unformatted => Unformatted'
         /\ missed \subseteq missed'
<1>1. ASSUME ScriptStep(p)
      PROVE  /\ \A c \in Components : \A h \in Hosts :
                  /\ home[c][h] = {} => home'[c][h] = {}
                  /\ ~cfg[c][h] => ~cfg'[c][h]
             /\ \A h \in Hosts : dnId[h] = NoId => dnId'[h] = NoId
             /\ Unformatted => Unformatted'
  <2>1. ~Mv(p) /\ ~Write(p) /\ ~Format(p) /\ ~Mark(p)
    BY HeadIs DEF Mv, Write, Format, Formatting, Mark, Starting, Formats
  <2>2. CASE RmHome(p)
    <3>1. UNCHANGED <<nnId, marker, dnId>>
      BY <2>2 DEF RmHome
    <3>2. ASSUME NEW c \in Components, NEW h \in Hosts
          PROVE  /\ home[c][h] = {} => home'[c][h] = {}
                 /\ ~cfg[c][h] => ~cfg'[c][h]
      <4>1. /\ home'[c][h] = IF c = Arg(p) /\ h = p.host THEN {} ELSE home[c][h]
            /\ cfg'[c][h] = IF c = Arg(p) /\ h = p.host THEN FALSE ELSE cfg[c][h]
        BY <2>2, HomesAfter
      <4>2. CASE c = Arg(p) /\ h = p.host
        BY <4>1, <4>2
      <4>3. CASE ~(c = Arg(p) /\ h = p.host)
        BY <4>1, <4>3
      <4>4. QED
        BY <4>2, <4>3
    <3>3. QED
      BY <3>1, <3>2 DEF Unformatted
  <2>3. CASE RmData(p)
    <3>1. UNCHANGED <<home, cfg>> /\ (Unformatted => Unformatted')
      BY <2>3 DEF RmData, Unformatted
    <3>2. \A h \in Hosts : dnId[h] = NoId => dnId'[h] = NoId
      BY <2>3 DEF RmData, Typed, DiskTyped
    <3>3. QED
      BY <3>1, <3>2
  <2>4. CASE ~RmHome(p) /\ ~RmData(p)
    <3>1. UNCHANGED <<home, cfg, nnId, marker, dnId>>
      BY <1>1, <2>1, <2>4, StepFrame
    <3>2. QED
      BY <3>1 DEF Unformatted
  <2>5. QED
    BY <2>2, <2>3, <2>4
<1>2. ASSUME ConnectFails(p) \/ Dies(p)
      PROVE  UNCHANGED <<home, cfg, nnId, marker, dnId, missed>>
  <2>1. ~AtStep(p, "mv")
    BY HeadIs
  <2>2. QED
    BY <1>2, <2>1 DEF ConnectFails, Dies, AtStep, disk, running
<1>3. ASSUME ScriptStep(p) PROVE missed \subseteq missed'
  BY <1>3, HeadIs, StepFrame DEF LaunchStarts, Starting
<1>4. QED
  BY <1>1, <1>2, <1>3 DEF Unformatted

(* hdfs.go:155-167: the last step of a purge finds the home gone.          *)
LEMMA DataRemoved ==
  ASSUME Made, Typed, ScriptsFit, RemovalsSafe, NEW p \in procs, RmData(p)
  PROVE  /\ Cleared(Arg(p), p.host)'
         /\ Arg(p) = "hdfs" /\ p.host \in RoleHosts["namenode"] => Unformatted'
<1>1. AtStep(p, "rmdata")
  BY DEF RmData
<1>2. /\ Head(p.todo) = <<"rmdata", Arg(p)>> /\ Head(p.todo) \in ToSet(p.todo)
      /\ Arg(p) \in Components /\ p.host \in Hosts
  BY <1>1, HeadIs
<1>3. p.todo \in Seq(Steps) /\ p.todo # <<>> /\ InOrder(p.todo)
  BY ScriptFits DEF Fits
<1>4. <<"rmhome", Arg(p)>> \notin ToSet(p.todo)
  <2>1. <<"rmhome", Arg(p)>> # Head(p.todo) /\ Head(p.todo)[1] = "rmdata"
    BY <1>2
  <2>2. QED
    BY <1>3, <2>1, HeadFirst
<1>5. home[Arg(p)][p.host] = {} /\ ~cfg[Arg(p)][p.host]
  BY <1>2, <1>4 DEF RemovalsSafe
<1>6. UNCHANGED <<home, cfg>>
  BY DEF RmData
<1>7. Arg(p) = "hdfs" => dnId'[p.host] = NoId
  BY <1>2 DEF RmData, Typed, DiskTyped
<1>8. Arg(p) = "hdfs" /\ p.host \in RoleHosts["namenode"] => Unformatted'
  BY DEF RmData, Unformatted
<1>9. QED
  BY <1>5, <1>6, <1>7, <1>8 DEF Cleared

PurgeHolds(a) ==
  /\ cmd[a].envOK => \A c \in Behind(a) : /\ \A h \in HostsOf(c) : Cleared(c, h)
                                          /\ c = "hdfs" => Unformatted
  /\ cmd[a].compOK =>
       /\ \A h \in HostsOf(cmd[a].cur) :
            Cleared(cmd[a].cur, h) \/ Owed(a, h, <<"rmdata", cmd[a].cur>>)
       /\ cmd[a].cur = "hdfs" =>
            \/ Unformatted
            \/ \E h \in RoleHosts["namenode"] : Owed(a, h, <<"rmdata", "hdfs">>)

(* A command that is where it was keeps its account when nothing comes     *)
(* back and a removal that is done has removed.                            *)
LEMMA PurgeFrame ==
  ASSUME Made, NEW a \in Operators, PurgeHolds(a), SameWalk,
         \A c \in Components : \A h \in Hosts : Cleared(c, h) => Cleared(c, h)',
         Unformatted => Unformatted',
         \A h \in Hosts : \A c \in Components :
           (Owed(a, h, <<"rmdata", c>>) /\ cmd'[a].compOK) =>
             \/ Owed(a, h, <<"rmdata", c>>)'
             \/ Cleared(c, h)' /\ (c = "hdfs" /\ h \in RoleHosts["namenode"] => Unformatted')
  PROVE  PurgeHolds(a)'
<1>0. PICK c : c = cmd[a].cur
  OBVIOUS
<1>1. /\ cmd'[a].cur = c /\ cmd'[a].envOK = cmd[a].envOK
      /\ cmd'[a].compOK => cmd[a].compOK
      /\ Behind(a)' = Behind(a)
  BY <1>0, BehindSame DEF SameWalk
<1>2. c \in Components \union {"none"} /\ Behind(a) \subseteq Components
  BY <1>0, LifecycleAssumption DEF Made, MadeOf, Commands, Behind, Acted, LifecycleAssumption
<1>3. HostsOf("none") = {} /\ \A d : HostsOf(d) \subseteq Hosts
  BY NoneIsEmpty, HostsKnown
<1>4. RoleHosts["namenode"] \subseteq Hosts
  BY LifecycleAssumption DEF LifecycleAssumption, Daemons
<1>5. ASSUME cmd'[a].envOK, NEW b \in Behind(a)
      PROVE  (\A h \in HostsOf(b) : Cleared(b, h)') /\ (b = "hdfs" => Unformatted')
  BY <1>1, <1>2, <1>3, <1>5 DEF PurgeHolds
<1>6. ASSUME cmd'[a].compOK, NEW h \in HostsOf(c)
      PROVE  Cleared(c, h)' \/ Owed(a, h, <<"rmdata", c>>)'
  <2>1. c \in Components /\ h \in Hosts
    BY <1>2, <1>3, <1>6
  <2>2. Cleared(c, h) \/ Owed(a, h, <<"rmdata", c>>)
    BY <1>0, <1>1, <1>6 DEF PurgeHolds
  <2>3. CASE Cleared(c, h)
    BY <2>1, <2>3
  <2>4. CASE Owed(a, h, <<"rmdata", c>>)
    BY <1>6, <2>1, <2>4
  <2>5. QED
    BY <2>2, <2>3, <2>4
<1>7. ASSUME cmd'[a].compOK, c = "hdfs"
      PROVE  Unformatted' \/ \E h \in RoleHosts["namenode"] : Owed(a, h, <<"rmdata", "hdfs">>)'
  <2>1. Unformatted \/ \E h \in RoleHosts["namenode"] : Owed(a, h, <<"rmdata", "hdfs">>)
    BY <1>0, <1>1, <1>7 DEF PurgeHolds
  <2>2. "hdfs" \in Components
    BY DEF Components
  <2>3. QED
    BY <1>4, <1>7, <2>1, <2>2
<1>8. QED
  BY <1>1, <1>5, <1>6, <1>7 DEF PurgeHolds

(* uninstall.go:22-40, hdfs.go:155-167: what is left of the components to  *)
(* be purged is still to be removed, or an answer was not OK.              *)
LEMMA PurgeKept ==
  ASSUME Made, Typed, Alone, ScriptsFit, WalksInOrder, DaemonsAtHome, RemovalsSafe,
         PurgeAccount, Next
  PROVE  PurgeAccount'
<1> SUFFICES ASSUME NEW a \in Operators, cmd'[a].op = "uninstall", cmd'[a].flag
             PROVE  PurgeHolds(a)'
  BY DEF PurgeAccount, PurgeHolds
<1>1. cmd[a].op = "uninstall" /\ cmd[a].flag => PurgeHolds(a)
  BY DEF PurgeAccount, PurgeHolds
<1>2. \A b \in Operators : b = a
  BY DEF Alone
<1>3. ASSUME NEW p \in procs, ScriptStep(p) PROVE PurgeHolds(a)'
  <2>1. PICK r : Moves(p, r) /\ Follows(p.todo, r) /\ Drops(p, r)
    BY <1>3, ScriptMoves
  <2>2. p.by = a /\ SameWalk /\ PurgeHolds(a) /\ cmd[a].op = "uninstall"
    BY <1>1, <1>2, <2>1, ScriptFits DEF Moves, SameWalk
  <2>3. /\ \A c \in Components : \A h \in Hosts : Cleared(c, h) => Cleared(c, h)'
        /\ Unformatted => Unformatted'
    BY <1>3, <2>2, UninstallRemoves DEF Cleared
  <2>4. ASSUME NEW h \in Hosts, NEW c \in Components,
               Owed(a, h, <<"rmdata", c>>), ~Owed(a, h, <<"rmdata", c>>)'
        PROVE  Cleared(c, h)' /\ (c = "hdfs" /\ h \in RoleHosts["namenode"] => Unformatted')
    <3>1. p.host = h /\ <<"rmdata", c>> \in ToSet(p.todo) \ ToSet(r)
      BY <2>1, <2>4, MovesOwe
    <3>2. <<"rmdata", c>> = Head(p.todo)
      BY <2>1, <3>1 DEF Drops, Tracked
    <3>3. AtStep(p, "rmdata") /\ Arg(p) = c
      BY <3>2 DEF AtStep, Arg
    <3>4. RmData(p)
      BY <1>3, <3>3, StepIs
    <3>5. QED
      BY <3>1, <3>3, <3>4, DataRemoved
  <2>5. QED
    BY <2>2, <2>3, <2>4, PurgeFrame
<1>4. ASSUME NEW p \in procs, ConnectFails(p) \/ Dies(p) PROVE PurgeHolds(a)'
  <2>1. Moves(p, <<>>) /\ ~cmd'[p.by].compOK /\ p.by = a
    BY <1>2, <1>4, LostScripts, ScriptFits
  <2>2. SameWalk /\ PurgeHolds(a) /\ cmd[a].op = "uninstall"
    BY <1>1, <2>1 DEF Moves, SameWalk
  <2>3. /\ \A c \in Components : \A h \in Hosts : Cleared(c, h) => Cleared(c, h)'
        /\ Unformatted => Unformatted'
    BY <1>4, <2>1, <2>2, UninstallRemoves DEF Cleared
  <2>4. QED
    BY <2>1, <2>2, <2>3, PurgeFrame
<1>5. ASSUME NEW h \in Hosts, Crash(h) PROVE PurgeHolds(a)'
  <2>1. /\ SameWalk /\ UNCHANGED <<home, cfg, nnId, marker, dnId, missed>>
        /\ \A g, s : (Owed(a, g, s) /\ cmd'[a].compOK) => Owed(a, g, s)'
    BY <1>5, CrashOwes, CrashFrame
  <2>2. PurgeHolds(a)
    BY <1>1, <2>1 DEF SameWalk
  <2>3. QED
    BY <2>1, <2>2, PurgeFrame DEF Cleared, Unformatted
<1>6. CASE Cluster
  <2>1. /\ UNCHANGED <<cmd, procs, home, cfg, nnId, marker, missed>>
        /\ \A g \in Hosts : dnId'[g] # dnId[g] => <<"datanode", g>> \in up
    BY <1>6, ClusterFrame
  <2>2. SameWalk /\ PurgeHolds(a)
    BY <1>1, <2>1 DEF SameWalk
  <2>3. \A g, s : Owed(a, g, s) => Owed(a, g, s)'
    BY <2>1 DEF Owed, Waited
  <2>4. ASSUME NEW c \in Components, NEW h \in Hosts, Cleared(c, h) PROVE Cleared(c, h)'
    <3>1. ASSUME c = "hdfs" PROVE <<"datanode", h>> \notin up \ missed
      <4>1. "bin" \notin home[CompOf["datanode"]][h]
        BY <2>4, <3>1 DEF Cleared, CompOf
      <4>2. QED
        BY <4>1 DEF DaemonsAtHome
    <3>2. QED
      BY <2>1, <2>4, <3>1 DEF Cleared
  <2>5. QED
    BY <2>1, <2>2, <2>3, <2>4, PurgeFrame DEF Unformatted
<1>7. ASSUME WalkStep(a) PROVE PurgeHolds(a)'
  <2>1. /\ \A c, h : Cleared(c, h)' = Cleared(c, h)
        /\ Unformatted' = Unformatted
    BY <1>7, WalkFits DEF disk, running, Cleared, Unformatted
  <2>2. HostsOf("none") = {} /\ "none" # "hdfs"
    BY NoneIsEmpty
  <2>3. ASSUME NEW o, NEW only, NEW f, Invoke(a, o, only, f) PROVE PurgeHolds(a)'
    <3>1. Behind(a)' = {} /\ cmd'[a].cur = "none"
      BY <2>3, BehindInvoke, InvokeFields
    <3>2. QED
      BY <2>2, <3>1 DEF PurgeHolds
  <2>4. ASSUME NextComp(a) PROVE PurgeHolds(a)'
    <3>0. PICK c : c = Head(cmd[a].comps)
      OBVIOUS
    <3>1. /\ cmd'[a].op = cmd[a].op /\ cmd'[a].envOK = cmd[a].envOK /\ cmd'[a].cur = c
          /\ cmd[a].flag = TRUE /\ cmd'[a].flag = cmd[a].flag /\ c \in Declared
      BY <2>4, <3>0, NextCompFields, TailIs
    <3>2. Behind(a)' = Behind(a) /\ PurgeHolds(a)
      BY <1>1, <2>4, <3>1, BehindNext
    <3>3. ASSUME NEW h \in HostsOf(c) PROVE Owed(a, h, <<"rmdata", c>>)'
      <4>1. Planned(cmd[a].op, c, cmd[a].flag, h, <<"rmdata", c>>)
        BY <3>1, <3>3, PlanComplete
      <4>2. QED
        BY <2>4, <3>0, <4>1, PlannedOwed
    <3>4. c = "hdfs" => \E h \in RoleHosts["namenode"] : h \in HostsOf(c)
      BY <3>1, LifecycleAssumption DEF LifecycleAssumption, HostsOf, DaemonsOf, CompOf, Daemons
    <3>5. QED
      BY <2>1, <3>1, <3>2, <3>3, <3>4 DEF PurgeHolds
  <2>5. ASSUME NextBatch(a) PROVE PurgeHolds(a)'
    <3>1. /\ cmd'[a].op = cmd[a].op /\ cmd'[a].flag = cmd[a].flag
          /\ cmd'[a].envOK = cmd[a].envOK
          /\ cmd'[a].cur = cmd[a].cur /\ cmd'[a].compOK = cmd[a].compOK
      BY <2>5, NextBatchFields
    <3>2. Behind(a)' = Behind(a) /\ PurgeHolds(a)
      BY <1>1, <2>5, <3>1, BehindBatch
    <3>3. \A h, s : Owed(a, h, s) => Owed(a, h, s)'
      BY <2>5, OwedBatch
    <3>4. QED
      BY <2>1, <3>1, <3>2, <3>3 DEF PurgeHolds
  <2>6. ASSUME EndComp(a) PROVE PurgeHolds(a)'
    <3>1. cmd'[a].op = cmd[a].op /\ cmd'[a].flag = cmd[a].flag /\ cmd'[a].cur = "none"
      BY <2>6, EndCompFields
    <3>2. PurgeHolds(a)
      BY <1>1, <3>1
    <3>3. ASSUME cmd'[a].envOK, NEW c \in Behind(a)'
          PROVE  (\A h \in HostsOf(c) : Cleared(c, h)) /\ (c = "hdfs" => Unformatted)
      <4>1. cmd[a].envOK /\ cmd[a].compOK /\ c \in Behind(a) \union {cmd[a].cur}
        BY <2>6, <3>3, BehindEnd
      <4>2. /\ \A h \in HostsOf(cmd[a].cur) : Cleared(cmd[a].cur, h)
            /\ cmd[a].cur = "hdfs" => Unformatted
        BY <2>6, <3>2, <4>1, NothingOwed DEF PurgeHolds
      <4>3. QED
        BY <3>2, <4>1, <4>2 DEF PurgeHolds
    <3>4. QED
      BY <2>1, <2>2, <3>1, <3>3 DEF PurgeHolds
  <2>7. ~Finish(a)
    BY FinishFields DEF Idle
  <2>8. ~PackageFails(a)
    BY PackageFields
  <2>9. QED
    BY <1>7, <2>3, <2>4, <2>5, <2>6, <2>7, <2>8 DEF WalkStep
<1>8. QED
  BY <1>2, <1>3, <1>4, <1>5, <1>6, <1>7, StepKinds

-----------------------------------------------------------------------------
(***************************************************************************)
(* The account is kept, and what follows from it.                          *)
(***************************************************************************)
LEMMA AccountStays ==
  ASSUME Alone
  PROVE  /\ Init => AccountKept
         /\ Made /\ Typed /\ AccountKept /\ [Next]_vars => AccountKept'
<1>1. ASSUME Init PROVE AccountKept
  <2>1. /\ procs = {} /\ up = {}
        /\ \A a \in Operators : cmd[a] = Idle
        /\ \A h \in Hosts : dnId[h] = NoId
    BY <1>1 DEF Init
  <2>2. \A a \in Operators : /\ cmd[a].op = "none" /\ cmd[a].cur = "none"
                             /\ cmd[a].comps = <<>> /\ cmd[a].batches = <<>>
    BY <2>1 DEF Idle
  <2>3. ScriptsFit
    BY <2>1, <2>2 DEF ScriptsFit
  <2>4. WalksInOrder
    BY <2>2 DEF WalksInOrder, ToSet
  <2>5. DaemonsAtHome /\ RemovalsSafe /\ IdsKnown
    BY <2>1 DEF DaemonsAtHome, RemovalsSafe, IdsKnown
  <2>6. StopAccount /\ PurgeAccount
    BY <2>2 DEF StopAccount, PurgeAccount
  <2>7. QED
    BY <2>3, <2>4, <2>5, <2>6 DEF AccountKept
<1>2. ASSUME Made, Typed, AccountKept, Next PROVE AccountKept'
  BY <1>2, FitsKept, DaemonsKept, RemovalsKept, IdsKept, StopKept, PurgeKept DEF AccountKept
<1>3. ASSUME AccountKept, UNCHANGED vars PROVE AccountKept'
  <2>1. UNCHANGED <<cmd, procs, home, cfg, nnId, marker, dnId, up, missed, nnRun>>
    BY <1>3 DEF vars, disk, running
  <2>2. (ScriptsFit /\ WalksInOrder)'
    BY <1>3, <2>1 DEF AccountKept, ScriptsFit, WalksInOrder, Acted
  <2>3. (DaemonsAtHome /\ RemovalsSafe /\ IdsKnown)'
    BY <1>3, <2>1 DEF AccountKept, DaemonsAtHome, RemovalsSafe, IdsKnown
  <2>4. \A a : Behind(a)' = Behind(a)
    BY <2>1 DEF Behind, Acted
  <2>5. \A a, h, s : Owed(a, h, s)' = Owed(a, h, s)
    BY <2>1 DEF Owed, Waited
  <2>6. StopAccount'
    BY <1>3, <2>1, <2>4, <2>5 DEF AccountKept, StopAccount, UpOf
  <2>7. PurgeAccount'
    BY <1>3, <2>1, <2>4, <2>5 DEF AccountKept, PurgeAccount, Cleared, Unformatted
  <2>8. QED
    BY <2>2, <2>3, <2>6, <2>7 DEF AccountKept
<1>4. QED
  BY <1>1, <1>2, <1>3

(* start.go:24-42, stop.go:20-36, uninstall.go:22-40, common.go:122-145:   *)
(* at every moment, what a command has not been told to have failed is     *)
(* done or still owed.                                                     *)
THEOREM OutcomeAccount ==
  ASSUME Alone
  PROVE  Spec => []AccountKept
<1>1. Init => Made /\ Typed /\ AccountKept
  BY MadeStays, InitTyped, AccountStays
<1>2. Made /\ Typed /\ AccountKept /\ [Next]_vars => (Made /\ Typed /\ AccountKept)'
  BY MadeStays, StepTyped, AccountStays
<1>3. QED
  BY <1>1, <1>2, PTL DEF Spec

(* A command that answers has every component behind it.                   *)
LEMMA AllBehind ==
  ASSUME NEW a \in Operators, Answering(a)
  PROVE  Behind(a) = Acted(a)
<1>1. ToSet(cmd[a].comps) = {}
  BY DEF Answering, ToSet
<1>2. QED
  BY <1>1, NoneIsEmpty DEF Answering, Behind, Acted

(* stop.go:24-33, uninstall.go:25-34: a stop or an uninstall that says OK  *)
(* leaves no daemon of its components running, but those whose own stop    *)
(* has failed ("|| true", hdfs.go:137 and its like).                       *)
THEOREM StopMeansDown ==
  ASSUME Alone
  PROVE  Spec => []DownWhenOK
<1>1. AccountKept => DownWhenOK
  BY AllBehind DEF AccountKept, StopAccount, DownWhenOK
<1>2. QED
  BY <1>1, OutcomeAccount, PTL

(* hdfs.go:155-167: an uninstall with --purge-data that says OK leaves     *)
(* nothing of its components, whatever its stops have done; a DataNode     *)
(* whose stop has failed may fill its directory again.                     *)
THEOREM PurgeMeansGone ==
  ASSUME Alone
  PROVE  Spec => []PurgedWhenOK
<1>1. ASSUME AccountKept PROVE PurgedWhenOK
  <2> SUFFICES ASSUME NEW a \in Operators, Answering(a),
                      cmd[a].op = "uninstall", cmd[a].flag, cmd[a].envOK
               PROVE  /\ \A c \in Acted(a) : \A h \in HostsOf(c) : home[c][h] = {} /\ ~cfg[c][h]
                      /\ "hdfs" \in Acted(a) =>
                           /\ nnId = NoId /\ ~marker
                           /\ \A h \in HostsOf("hdfs") :
                                dnId[h] = NoId \/ <<"datanode", h>> \in missed
    BY DEF PurgedWhenOK
  <2>1. \A c \in Acted(a) : /\ \A h \in HostsOf(c) : Cleared(c, h)
                            /\ c = "hdfs" => Unformatted
    BY <1>1, AllBehind DEF AccountKept, PurgeAccount
  <2>2. QED
    BY <2>1 DEF Cleared, Unformatted
<1>2. QED
  BY <1>1, OutcomeAccount, PTL

(* component.go:29-33: stop goes through the components backwards.         *)
LEMMA OrdersOpposed ==
  ASSUME NEW i \in 1..3, NEW j \in 1..3, i < j
  PROVE  /\ Ordered[i] # Ordered[j]
         /\ ~Earlier("stop", Ordered[i], Ordered[j])
         /\ ~Earlier("start", Ordered[j], Ordered[i])
<1>1. Walk("start") = Ordered /\ Ordered = <<"zookeeper", "hdfs", "hbase">>
  BY DEF Walk, Ordered
<1>2. Walk("stop") = <<"hbase", "hdfs", "zookeeper">>
  BY <1>1 DEF Walk, ReverseOrdered, Reverse
<1>3. Ordered[i] # Ordered[j] /\ ~Earlier("stop", Ordered[i], Ordered[j])
  BY <1>1, <1>2 DEF Earlier
<1>4. ~Earlier("start", Ordered[j], Ordered[i])
  BY <1>1 DEF Earlier
<1>5. QED
  BY <1>3, <1>4

(* A component of a full walk that is not to come is behind.               *)
LEMMA NotToCome ==
  ASSUME WalksInOrder, NEW a \in Operators, cmd[a].filter = "all", cmd[a].cur # "none",
         NEW c \in Declared, c # cmd[a].cur, ~Earlier(cmd[a].op, cmd[a].cur, c)
  PROVE  c \in Behind(a)
<1>1. \A i \in DOMAIN cmd[a].comps : Earlier(cmd[a].op, cmd[a].cur, cmd[a].comps[i])
  BY DEF WalksInOrder
<1>2. c \notin ToSet(cmd[a].comps)
  BY <1>1 DEF ToSet
<1>3. QED
  BY <1>2 DEF Behind, Acted

(* A DataNode of the NameNode's cluster is not turned away.                *)
LEMMA MatchedStay ==
  ASSUME Typed, IdsKnown, Matched, Cluster
  PROVE  up' = up
<1>1. ASSUME NEW x \in up \ up' PROVE FALSE
  <2>1. x[2] \in Hosts /\ dnId[x[2]] \notin {NoId, nnRun}
    BY <1>1, ClusterFrame DEF Typed, RunningTyped
  <2>2. QED
    BY <2>1 DEF Matched, IdsKnown
<1>2. QED
  BY <1>1, ClusterFrame

(* stop.go:24-27: the components that use a component go before it, or a   *)
(* stop of theirs has failed, or an answer.                                *)
LEMMA StopsBackwards ==
  ASSUME Alone, "crash" \notin FaultKinds, Made, Typed, AccountKept, [Next]_vars
  PROVE  \A x \in up \ up', a \in Operators :
           (/\ Matched /\ cmd[a].op = "stop" /\ cmd[a].filter = "all"
            /\ \E i, j \in 1..3 : /\ i < j /\ Ordered[i] = CompOf[x[1]]
                                   /\ ~(UpOf(Ordered[j]) \subseteq missed))
           => ~(cmd[a].envOK /\ cmd[a].compOK)
<1> SUFFICES ASSUME NEW x \in up \ up', Matched,
                    NEW a \in Operators, cmd[a].op = "stop", cmd[a].filter = "all",
                    cmd[a].envOK, NEW i \in 1..3, NEW j \in 1..3,
                    i < j, Ordered[i] = CompOf[x[1]],
                    NEW y \in UpOf(Ordered[j]), y \notin missed
             PROVE  FALSE
  OBVIOUS
<1> USE DEF AccountKept
<1>1. PICK p \in procs : ScriptStep(p) /\ Stop(p)
  <2>1. Next
    BY DEF vars, running
  <2>2. \A b \in Operators : ~WalkStep(b)
    BY WalkFits DEF running
  <2>3. \A p \in procs : ~ConnectFails(p) /\ ~Dies(p)
    BY DEF ConnectFails, Dies, running
  <2>4. \A h \in Hosts : ~Crash(h)
    BY DEF Crash, Fault
  <2>5. ~Cluster
    BY MatchedStay
  <2>6. PICK p \in procs : ScriptStep(p)
    BY <2>1, <2>2, <2>3, <2>4, <2>5, StepKinds
  <2>7. ~LaunchStarts(p)
    BY DEF LaunchStarts
  <2>8. QED
    BY <2>6, <2>7, StepFrame
<1>2. x = <<Arg(p), p.host>> /\ AtStep(p, "stop")
  BY <1>1 DEF Stop, Down
<1>3. p.by = a /\ CompOf[x[1]] = cmd[a].cur /\ cmd[a].cur # "none"
  <2>1. /\ p.by \in Operators /\ Arg(p) \in DaemonsOf(cmd[p.by].cur)
        /\ cmd[p.by].cur \in Declared
    BY <1>2, HeadIs
  <2>2. p.by = a
    BY <2>1 DEF Alone
  <2>3. QED
    BY <1>2, <2>1, <2>2, NoneIsEmpty DEF DaemonsOf
<1>4. Ordered[j] \in Declared /\ CompOf[y[1]] = Ordered[j]
  BY DEF UpOf, DaemonsAtHome
<1>5. Ordered[j] \in Behind(a)
  BY <1>3, <1>4, OrdersOpposed, NotToCome
<1>6. UpOf(Ordered[j]) \subseteq missed
  BY <1>5 DEF StopAccount
<1>7. QED
  BY <1>6

(* stop.go:24-34: a full stop that takes a component down while one that   *)
(* uses it runs has a failure to report by then, unless a host reboots or  *)
(* the stop of a daemon that runs has failed behind "|| true".             *)
THEOREM StopsInOrder ==
  ASSUME Alone, "crash" \notin FaultKinds
  PROVE  Spec => StopOrder
<1>1. Init => Made /\ Typed /\ AccountKept
  BY MadeStays, InitTyped, AccountStays
<1>2. Made /\ Typed /\ AccountKept /\ [Next]_vars => (Made /\ Typed /\ AccountKept)'
  BY MadeStays, StepTyped, AccountStays
<1>3. Made /\ Typed /\ AccountKept /\ [Next]_vars =>
        [\A x \in up \ up', a \in Operators :
           (/\ Matched /\ cmd[a].op = "stop" /\ cmd[a].filter = "all"
            /\ \E i, j \in 1..3 : /\ i < j /\ Ordered[i] = CompOf[x[1]]
                                   /\ ~(UpOf(Ordered[j]) \subseteq missed))
           => ~(cmd[a].envOK /\ cmd[a].compOK)]_vars
  BY StopsBackwards
<1>4. QED
  BY <1>1, <1>2, <1>3, PTL DEF Spec, StopOrder

-----------------------------------------------------------------------------
(***************************************************************************)
(* start: the homes, and the NameNode's metadata.                          *)
(***************************************************************************)
(* Where nobody installs, no script moves a home into place.               *)
LEMMA NoInstall ==
  ASSUME Made, Lasting, ScriptsFit, NEW p \in procs
  PROVE  ~AtStep(p, "mv")
BY HeadIs, ScriptFits DEF Lasting

(* What a lost script leaves as it was.                                    *)
LEMMA LostFrame ==
  ASSUME Made, Lasting, ScriptsFit, NEW p \in procs, ConnectFails(p) \/ Dies(p)
  PROVE  UNCHANGED <<home, cfg, nnId, marker, dnId, up, nnRun>> /\ procs' \subseteq procs
<1>1. UNCHANGED <<home, cfg, nnId, marker, dnId, up, nnRun>>
  BY NoInstall DEF ConnectFails, Dies, AtStep, disk, running
<1>2. QED
  BY <1>1, LostScripts DEF Moves

(* What a step of the command leaves as it was.                            *)
LEMMA WalkFrame ==
  ASSUME Made, Alone, ScriptsFit, WalksInOrder, NEW a \in Operators, WalkStep(a)
  PROVE  /\ UNCHANGED <<home, cfg, nnId, marker, dnId, up, nnRun>>
         /\ ~NextBatch(a) => UNCHANGED procs
<1>1. UNCHANGED <<home, cfg, nnId, marker, dnId, up, nnRun>>
  BY WalkFits DEF disk, running
<1>2. ~NextBatch(a) => UNCHANGED procs
  BY InvokeFields, NextCompFields, EndCompFields, FinishFields, PackageFields DEF WalkStep
<1>3. QED
  BY <1>1, <1>2

(* hdfs.go:64-89, 155-167: configuring and removing leave whole homes.     *)
LEMMA HomesKept ==
  ASSUME Made, Typed, Alone, Lasting, ScriptsFit, WalksInOrder, HomesWhole, Next
  PROVE  HomesWhole'
<1>1. CASE UNCHANGED <<home, cfg>>
  BY <1>1 DEF HomesWhole, Runnable
<1>2. ASSUME NEW p \in procs, ScriptStep(p) PROVE HomesWhole'
  <2>1. ~Mv(p)
    BY NoInstall DEF Mv
  <2>2. CASE Write(p)
    <3>1. UNCHANGED home
      BY <2>2 DEF Write
    <3>2. ASSUME NEW c \in Components, NEW h \in Hosts, cfg[c][h] PROVE cfg'[c][h]
      <4>1. cfg'[c][h] = IF c = Arg(p) /\ h = p.host THEN TRUE ELSE cfg[c][h]
        BY <2>2, HomesAfter
      <4>2. CASE c = Arg(p) /\ h = p.host
        BY <4>1, <4>2
      <4>3. CASE ~(c = Arg(p) /\ h = p.host)
        BY <3>2, <4>1, <4>3
      <4>4. QED
        BY <4>2, <4>3
    <3>3. QED
      BY <3>1, <3>2 DEF HomesWhole, Runnable
  <2>3. CASE RmHome(p)
    <3> SUFFICES ASSUME NEW c \in Components, NEW h \in Hosts, "bin" \in home'[c][h]
                 PROVE  {"bin", "lib"} \subseteq home'[c][h] /\ cfg'[c][h]
      BY DEF HomesWhole, Runnable
    <3>1. /\ home'[c][h] = IF c = Arg(p) /\ h = p.host THEN {} ELSE home[c][h]
          /\ cfg'[c][h] = IF c = Arg(p) /\ h = p.host THEN FALSE ELSE cfg[c][h]
      BY <2>3, HomesAfter
    <3>2. ~(c = Arg(p) /\ h = p.host)
      BY <3>1
    <3>3. home'[c][h] = home[c][h] /\ cfg'[c][h] = cfg[c][h]
      BY <3>1, <3>2
    <3>4. QED
      BY <3>3 DEF HomesWhole, Runnable
  <2>4. QED
    BY <1>1, <1>2, <2>1, <2>2, <2>3, StepFrame
<1>3. QED
  BY <1>1, <1>2, LostFrame, WalkFrame, CrashFrame, ClusterFrame, StepKinds

(* The NameNode of host h has metadata, should it be started.              *)
Ready(h) == "bin" \in home["hdfs"][h] => nnId # NoId

(* A script that has the NameNode to mark or start, but not to format.     *)
PastFormat(t) == /\ \E s \in ToSet(t) : s[1] \in {"mark", "launch"} /\ s[2] = "namenode"
                 /\ \A s \in ToSet(t) : s[1] \notin Formats

LEMMA ReadyIs ==
  NameNodeReady <=> /\ marker => \A h \in RoleHosts["namenode"] : Ready(h)
                    /\ \A p \in procs : PastFormat(p.todo) => Ready(p.host)
BY DEF NameNodeReady, Ready, PastFormat

(* hdfs.go:95-113: what a start does to the NameNode's directory.          *)
LEMMA FormatMakesReady ==
  ASSUME Made, Typed, Lasting, ScriptsFit, HomesWhole, NameNodeReady,
         NEW p \in procs, Format(p)
  PROVE  Ready(p.host)' /\ nnId' \in {nnId, FreshId}
<1>1. /\ p.host \in Hosts /\ p.host \in RoleHosts["namenode"]
      /\ UNCHANGED home /\ FreshId # NoId
  <2>1. PICK e \in Formats : AtStep(p, e)
    BY DEF Format, Formatting, Formats
  <2>2. p.host \in Hosts /\ p.host \in RoleHosts[Arg(p)] /\ Arg(p) = "namenode"
    BY <2>1, HeadIs DEF Starting
  <2>3. QED
    BY <2>2, FreshIdIsNew, LifecycleAssumption DEF LifecycleAssumption, Format, Typed
<1>2. CASE marker /\ ~Forced(p)
  <2>1. nnId' = nnId
    BY <1>2 DEF Format
  <2>2. Ready(p.host)
    BY <1>1, <1>2, ReadyIs
  <2>3. QED
    BY <1>1, <2>1, <2>2 DEF Ready
<1>3. CASE ~(marker /\ ~Forced(p))
  <2>1. nnId' = IF Runnable("hdfs", p.host) /\ (nnId = NoId \/ Forced(p)) THEN FreshId ELSE nnId
    BY <1>3 DEF Format, Lasting, Fault
  <2>2. "bin" \in home["hdfs"][p.host] => Runnable("hdfs", p.host)
    BY <1>1 DEF HomesWhole, Components
  <2>3. QED
    BY <1>1, <2>1, <2>2 DEF Ready
<1>4. QED
  BY <1>2, <1>3

LEMMA ReadyFrame ==
  ASSUME \A h \in Hosts : Ready(h) => Ready(h)', procs' \subseteq procs,
         marker' => marker, NameNodeReady, Made
  PROVE  NameNodeReady'
<1>1. /\ \A h \in RoleHosts["namenode"] : h \in Hosts
      /\ \A p \in procs : p.host \in Hosts
  BY LifecycleAssumption DEF LifecycleAssumption, Made, MadeOf, Processes, Daemons
<1>2. \A p \in procs' : PastFormat(p.todo) => Ready(p.host)'
  BY <1>1, ReadyIs
<1>3. marker' => \A h \in RoleHosts["namenode"] : Ready(h)'
  BY <1>1, ReadyIs
<1>4. QED
  BY <1>2, <1>3 DEF NameNodeReady, Ready, PastFormat

(* A script that is to mark or to start the NameNode formats it first.     *)
LEMMA NotPastYet ==
  ASSUME NEW o, NEW c, NEW h, NEW t, Fits(o, c, h, t), Whole(t)
  PROVE  ~PastFormat(t)
<1> SUFFICES ASSUME PastFormat(t) PROVE FALSE
  OBVIOUS
<1>1. PICK s \in ToSet(t) : s[1] \in {"mark", "launch"} /\ s[2] = "namenode"
  BY DEF PastFormat
<1>2. s \in StepsOf(o, c)
  BY DEF Fits
<1>3. s = <<s[1], s[2]>>
  BY <1>2 DEF StepsOf
<1>4. \E r \in ToSet(t) : r[1] \in Formats
  BY <1>1, <1>3 DEF Whole
<1>5. QED
  BY <1>4 DEF PastFormat

(* hdfs.go:91-131: only a format that has not failed, or metadata that was *)
(* there, lets a start mark and launch the NameNode.                       *)
LEMMA ReadyKept ==
  ASSUME Made, Typed, Alone, Lasting, ScriptsFit, WalksInOrder, HomesWhole,
         NameNodeReady, Next
  PROVE  NameNodeReady'
<1>1. ASSUME UNCHANGED <<home, nnId>> PROVE \A h \in Hosts : Ready(h) => Ready(h)'
  BY <1>1 DEF Ready
<1>2. ASSUME NEW a \in Operators, WalkStep(a) PROVE NameNodeReady'
  <2>1. UNCHANGED <<home, nnId, marker>> /\ (~NextBatch(a) => UNCHANGED procs)
    BY <1>2, WalkFrame
  <2>2. CASE NextBatch(a)
    <3>1. \A p \in procs' : ~PastFormat(p.todo)
      BY <2>2, LaunchedAre, NotPastYet
    <3>2. marker' => \A h \in RoleHosts["namenode"] : Ready(h)'
      BY <2>1, ReadyIs DEF Ready
    <3>3. QED
      BY <3>1, <3>2 DEF NameNodeReady, Ready, PastFormat
  <2>3. QED
    BY <1>1, <2>1, <2>2, ReadyFrame
<1>3. ASSUME NEW p \in procs, ScriptStep(p) PROVE NameNodeReady'
  <2>1. PICK r : Moves(p, r) /\ Follows(p.todo, r) /\ Drops(p, r)
    BY <1>3, ScriptMoves
  <2>2. /\ p.host \in Hosts /\ p.todo \in Seq(Steps) /\ p.todo # <<>> /\ InOrder(p.todo)
        /\ cmd[p.by].cur \in Declared
    BY ScriptFits DEF Fits
  <2>3. CASE RmData(p)
    <3>1. AtStep(p, "rmdata") /\ UNCHANGED home
      BY <2>3 DEF RmData
    <3>2. cmd[p.by].op = "uninstall"
      BY <3>1, HeadIs
    <3>3. \A q \in procs : ~PastFormat(q.todo)
      <4>1. \A q \in procs : \A s \in ToSet(q.todo) : s[1] \notin Starting
        BY <3>2, OneCommand, StepsAre
      <4>2. QED
        BY <4>1 DEF PastFormat, Starting
    <3>4. ASSUME r # <<>> PROVE ~PastFormat(r)
      <4>1. ToSet(r) \subseteq ToSet(p.todo)
        BY <2>1, <2>2, <3>4, RestSteps DEF Follows
      <4>2. \A s \in ToSet(p.todo) : s[1] \notin Starting
        BY <3>2, StepsAre
      <4>3. QED
        BY <4>1, <4>2 DEF PastFormat, Starting
    <3>5. \A q \in procs' : ~PastFormat(q.todo)
      BY <2>1, <3>3, <3>4, MovedScripts
    <3>6. marker' => marker /\ nnId' = nnId
      BY <2>3 DEF RmData
    <3>7. marker' => \A h \in RoleHosts["namenode"] : Ready(h)'
      BY <3>1, <3>6, ReadyIs DEF Ready
    <3>8. QED
      BY <3>5, <3>7 DEF NameNodeReady, Ready, PastFormat
  <2>4. CASE ~RmData(p)
    <3>1. ASSUME NEW h \in Hosts, Ready(h) PROVE Ready(h)'
      <4>1. home'["hdfs"][h] \subseteq home["hdfs"][h]
        <5>1. CASE RmHome(p)
          <6>1. home'["hdfs"][h] = IF "hdfs" = Arg(p) /\ h = p.host THEN {} ELSE home["hdfs"][h]
            BY <5>1, HomesAfter DEF Components
          <6>2. QED
            BY <6>1
        <5>2. CASE ~RmHome(p)
          <6>1. UNCHANGED home
            BY <1>3, <5>2, StepFrame, NoInstall DEF Mv
          <6>2. QED
            BY <6>1
        <5>3. QED
          BY <5>1, <5>2
      <4>2. nnId' \in {nnId, FreshId} /\ FreshId # NoId
        BY <1>3, <2>4, StepFrame, FormatMakesReady, FreshIdIsNew, LifecycleAssumption
        DEF LifecycleAssumption, Typed
      <4>3. QED
        BY <3>1, <4>1, <4>2 DEF Ready
    <3>2. Format(p) => Ready(p.host)'
      BY FormatMakesReady
    <3>3. ASSUME r # <<>>, PastFormat(r) PROVE Ready(p.host)'
      <4>1. ToSet(r) \subseteq ToSet(p.todo)
        BY <2>1, <2>2, <3>3, RestSteps DEF Follows
      <4>2. CASE PastFormat(p.todo)
        BY <2>2, <3>1, <4>2, ReadyIs
      <4>3. CASE ~PastFormat(p.todo)
        <5>1. PICK s \in ToSet(p.todo) : s[1] \in Formats
          BY <3>3, <4>1, <4>3 DEF PastFormat
        <5>2. s \notin ToSet(r)
          BY <3>3, <5>1 DEF PastFormat
        <5>3. s = Head(p.todo)
          BY <2>1, <5>1, <5>2 DEF Drops, Tracked, Formats
        <5>4. Formatting(p)
          BY <5>1, <5>3 DEF Formatting, AtStep, Formats
        <5>5. QED
          BY <1>3, <3>2, <5>4, StepIs
      <4>4. QED
        BY <4>2, <4>3
    <3>4. ASSUME NEW q \in procs', PastFormat(q.todo) PROVE Ready(q.host)'
      <4>1. CASE q \in procs
        BY <3>1, <3>4, <4>1, ScriptFits, ReadyIs
      <4>2. CASE q.todo = r /\ r # <<>> /\ q.host = p.host
        BY <3>3, <3>4, <4>2
      <4>3. QED
        BY <2>1, <4>1, <4>2, MovedScripts
    <3>5. ASSUME marker', NEW h \in RoleHosts["namenode"] PROVE Ready(h)'
      <4>1. h \in Hosts
        BY LifecycleAssumption DEF LifecycleAssumption, Daemons
      <4>2. CASE marker
        BY <3>1, <3>5, <4>1, <4>2, ReadyIs
      <4>3. CASE ~marker
        <5>1. Mark(p) /\ AtStep(p, "mark")
          BY <1>3, <2>4, <3>5, <4>3, StepFrame DEF Mark
        <5>2. /\ Head(p.todo) = <<"mark", "namenode">> /\ Head(p.todo) \in ToSet(p.todo)
              /\ "namenode" \in DaemonsOf(cmd[p.by].cur) /\ p.host \in RoleHosts["namenode"]
          BY <5>1, HeadIs DEF Starting
        <5>3. PastFormat(p.todo)
          BY <2>2, <5>2, HeadFirst DEF PastFormat, Formats
        <5>4. "hdfs" \in Declared
          BY <2>2, <5>2 DEF DaemonsOf, CompOf
        <5>5. h = p.host
          BY <3>5, <5>2, <5>4, LifecycleAssumption DEF LifecycleAssumption
        <5>6. QED
          BY <2>2, <3>1, <5>3, <5>5, ReadyIs
      <4>4. QED
        BY <4>2, <4>3
    <3>6. QED
      BY <3>4, <3>5 DEF NameNodeReady, Ready, PastFormat
  <2>5. QED
    BY <2>3, <2>4
<1>4. ASSUME NEW p \in procs, ConnectFails(p) \/ Dies(p) PROVE NameNodeReady'
  BY <1>1, <1>4, LostFrame, ReadyFrame
<1>5. \A h \in Hosts : ~Crash(h)
  BY DEF Lasting, Crash, Fault
<1>6. CASE Cluster
  BY <1>1, <1>6, ClusterFrame, ReadyFrame
<1>7. QED
  BY <1>2, <1>3, <1>4, <1>5, <1>6, StepKinds

-----------------------------------------------------------------------------
(***************************************************************************)
(* start.                                                                  *)
(***************************************************************************)
StartHolds(a) ==
  /\ cmd[a].envOK => \A c \in Behind(a) : AllUp(c)
  /\ cmd[a].compOK =>
       \A d \in DaemonsOf(cmd[a].cur) : \A h \in RoleHosts[d] :
         <<d, h>> \in up \/ Owed(a, h, <<"launch", d>>)

(* A command that is where it was keeps its account when no daemon leaves, *)
(* and no launch is lost that has not had its effect.                      *)
LEMMA StartFrame ==
  ASSUME NEW a \in Operators, StartHolds(a), SameWalk, up \subseteq up',
         \A d, h : (Owed(a, h, <<"launch", d>>) /\ cmd'[a].compOK) =>
           Owed(a, h, <<"launch", d>>)' \/ <<d, h>> \in up'
  PROVE  StartHolds(a)'
<1>1. \A c : AllUp(c) => AllUp(c)'
  BY DEF AllUp
<1>2. ASSUME cmd'[a].envOK, NEW c \in Behind(a)' PROVE AllUp(c)'
  BY <1>1, <1>2, BehindSame DEF StartHolds, SameWalk
<1>3. cmd'[a].cur = cmd[a].cur /\ (cmd'[a].compOK => cmd[a].compOK)
  BY DEF SameWalk
<1>4. ASSUME cmd'[a].compOK, NEW d \in DaemonsOf(cmd[a].cur), NEW h \in RoleHosts[d]
      PROVE  <<d, h>> \in up' \/ Owed(a, h, <<"launch", d>>)'
  BY <1>3, <1>4 DEF StartHolds
<1>5. QED
  BY <1>2, <1>3, <1>4 DEF StartHolds

(* hdfs.go:109-131: a launch that is over has its daemon running, or its   *)
(* script has answered that it failed.                                     *)
LEMMA LaunchAnswers ==
  ASSUME Made, Typed, Lasting, ScriptsFit, HomesWhole, NameNodeReady,
         NEW p \in procs, ScriptStep(p), AtStep(p, "launch")
  PROVE  <<Arg(p), p.host>> \in up' \/ ~cmd'[p.by].compOK
<1>1. CASE LaunchRunning(p)
  BY <1>1 DEF LaunchRunning, running
<1>2. CASE LaunchStarts(p)
  BY <1>2 DEF LaunchStarts
<1>3. CASE LaunchFails(p)
  <2>1. ~CanRun(Arg(p), p.host)
    BY <1>3 DEF LaunchFails, Lasting, Fault
  <2>2. PICK ok \in BOOLEAN : (ok => "bin" \in home[CompOf[Arg(p)]][p.host]) /\ Exit(p, ok)
    BY <1>3 DEF LaunchFails
  <2>3. CASE ok
    <3>1. /\ Head(p.todo) = <<"launch", Arg(p)>> /\ Head(p.todo) \in ToSet(p.todo)
          /\ p.host \in Hosts /\ Arg(p) \in Daemons
      BY HeadIs DEF Starting, DaemonsOf
    <3>2. Runnable(CompOf[Arg(p)], p.host)
      BY <2>2, <2>3, <3>1, CompOfIs DEF HomesWhole
    <3>3. Arg(p) = "namenode" /\ nnId = NoId
      BY <2>1, <3>2 DEF CanRun
    <3>4. p.todo \in Seq(Steps) /\ p.todo # <<>> /\ InOrder(p.todo)
      BY ScriptFits DEF Fits
    <3>5. \A s \in ToSet(p.todo) : s = Head(p.todo)
      BY <3>1, <3>4, HeadFirst
    <3>6. PastFormat(p.todo)
      BY <3>1, <3>3, <3>5 DEF PastFormat, Formats
    <3>7. Ready(p.host)
      BY <3>6, ReadyIs
    <3>8. QED
      BY <3>2, <3>3, <3>7 DEF Ready, Runnable, CompOf
  <2>4. CASE ~ok
    BY <2>2, <2>4, ExitMoves, ScriptFits
  <2>5. QED
    BY <2>3, <2>4
<1>4. QED
  BY <1>1, <1>2, <1>3, StepIs

(* A start does not make a DataNode of the cluster one of another.         *)
LEMMA MatchedBefore ==
  ASSUME Made, Typed, Alone, Lasting, ScriptsFit, WalksInOrder, HomesWhole,
         NameNodeReady, Next, Matched', NEW a \in Operators, cmd[a].op = "start"
  PROVE  Matched
<1>1. CASE UNCHANGED <<nnId, dnId>>
  BY <1>1 DEF Matched
<1>2. ASSUME NEW p \in procs, ScriptStep(p) PROVE Matched
  <2>1. cmd[p.by].op = "start"
    BY ScriptFits DEF Alone
  <2>2. ~RmData(p)
    BY <2>1, HeadIs DEF RmData
  <2>3. UNCHANGED dnId /\ nnId' \in {nnId, FreshId}
    BY <1>2, <2>2, StepFrame, FormatMakesReady
  <2>4. \A h \in Hosts : dnId[h] # FreshId
    BY FreshIdIsNew DEF UsedIds, Typed
  <2>5. QED
    BY <2>3, <2>4 DEF Matched
<1>3. CASE Cluster
  <2>1. nnId' = nnId /\ \A h \in Hosts : dnId'[h] # dnId[h] => dnId[h] = NoId
    BY <1>3, ClusterFrame
  <2>2. QED
    BY <2>1 DEF Matched
<1>4. QED
  BY <1>1, <1>2, <1>3, LostFrame, WalkFrame, CrashFrame, StepKinds

(* start.go:24-42: what a start has done with runs, and what it is at runs *)
(* or is still to be launched, or an answer was not OK.                    *)
LEMMA StartKept ==
  ASSUME Made, Typed, Alone, Lasting, ScriptsFit, WalksInOrder, IdsKnown, HomesWhole,
         NameNodeReady, StartAccount, Next
  PROVE  StartAccount'
<1> SUFFICES ASSUME NEW a \in Operators, cmd'[a].op = "start", Matched'
             PROVE  StartHolds(a)'
  BY DEF StartAccount, StartHolds
<1>1. cmd[a].op = "start" => Matched /\ StartHolds(a)
  BY MatchedBefore DEF StartAccount, StartHolds
<1>2. \A b \in Operators : b = a
  BY DEF Alone
<1>3. ASSUME NEW p \in procs, ScriptStep(p) PROVE StartHolds(a)'
  <2>1. PICK r : Moves(p, r) /\ Follows(p.todo, r) /\ Drops(p, r)
    BY <1>3, ScriptMoves
  <2>2. p.by = a /\ SameWalk /\ StartHolds(a) /\ cmd[a].op = "start"
    BY <1>1, <1>2, <2>1, ScriptFits DEF Moves, SameWalk
  <2>3. ~Stop(p)
    BY <2>2, HeadIs DEF Stop
  <2>4. up \subseteq up'
    BY <1>3, <2>3, StepFrame DEF LaunchStarts
  <2>5. ASSUME NEW d, NEW h, Owed(a, h, <<"launch", d>>), cmd'[a].compOK,
               ~Owed(a, h, <<"launch", d>>)'
        PROVE  <<d, h>> \in up'
    <3>1. p.host = h /\ <<"launch", d>> \in ToSet(p.todo) \ ToSet(r)
      BY <2>1, <2>5, MovesOwe
    <3>2. CASE <<"launch", d>> = Head(p.todo)
      <4>1. AtStep(p, "launch") /\ Arg(p) = d
        BY <3>2 DEF AtStep, Arg
      <4>2. QED
        BY <1>3, <2>2, <2>5, <3>1, <4>1, LaunchAnswers
    <3>3. CASE <<"launch", d>> = <<"launch", "quorumpeer">>
               /\ <<"quorumpeer", p.host>> \in up
      BY <2>4, <3>1, <3>3
    <3>4. QED
      BY <2>1, <3>1, <3>2, <3>3 DEF Drops, Tracked
  <2>6. QED
    BY <2>2, <2>4, <2>5, StartFrame
<1>4. ASSUME NEW p \in procs, ConnectFails(p) \/ Dies(p) PROVE StartHolds(a)'
  <2>1. Moves(p, <<>>) /\ ~cmd'[p.by].compOK /\ p.by = a /\ up' = up
    BY <1>2, <1>4, LostScripts, LostFrame, ScriptFits
  <2>2. SameWalk /\ StartHolds(a)
    BY <1>1, <2>1 DEF Moves, SameWalk
  <2>3. QED
    BY <2>1, <2>2, StartFrame
<1>5. \A h \in Hosts : ~Crash(h)
  BY DEF Lasting, Crash, Fault
<1>6. CASE Cluster
  <2>1. cmd' = cmd /\ procs' = procs
    BY <1>6, ClusterFrame
  <2>2. SameWalk /\ StartHolds(a) /\ Matched
    BY <1>1, <2>1 DEF SameWalk
  <2>3. up' = up
    BY <1>6, <2>2, MatchedStay
  <2>4. \A g, s : Owed(a, g, s) => Owed(a, g, s)'
    BY <2>1 DEF Owed, Waited
  <2>5. QED
    BY <2>2, <2>3, <2>4, StartFrame
<1>7. ASSUME WalkStep(a) PROVE StartHolds(a)'
  <2>1. up' = up /\ \A c : AllUp(c)' = AllUp(c)
    BY <1>7, WalkFrame DEF AllUp
  <2>2. DaemonsOf("none") = {}
    BY NoneIsEmpty
  <2>3. ASSUME NEW o, NEW only, NEW f, Invoke(a, o, only, f) PROVE StartHolds(a)'
    <3>1. Behind(a)' = {} /\ cmd'[a].cur = "none"
      BY <2>3, BehindInvoke, InvokeFields
    <3>2. QED
      BY <2>2, <3>1 DEF StartHolds
  <2>4. ASSUME NextComp(a) PROVE StartHolds(a)'
    <3>1. PICK c : c = Head(cmd[a].comps)
      OBVIOUS
    <3>2. /\ cmd'[a].op = cmd[a].op /\ cmd'[a].envOK = cmd[a].envOK /\ cmd'[a].cur = c
          /\ cmd[a].flag \in BOOLEAN /\ c \in Declared
      BY <2>4, <3>1, NextCompFields, TailIs
    <3>3. Behind(a)' = Behind(a) /\ StartHolds(a)
      BY <1>1, <2>4, <3>2, BehindNext
    <3>4. ASSUME NEW d \in DaemonsOf(c), NEW h \in RoleHosts[d]
          PROVE  Owed(a, h, <<"launch", d>>)'
      <4>1. Planned(cmd[a].op, c, cmd[a].flag, h, <<"launch", d>>)
        BY <3>2, PlanComplete
      <4>2. QED
        BY <2>4, <3>1, <4>1, PlannedOwed
    <3>5. QED
      BY <2>1, <3>2, <3>3, <3>4 DEF StartHolds
  <2>5. ASSUME NextBatch(a) PROVE StartHolds(a)'
    <3>1. /\ cmd'[a].op = cmd[a].op /\ cmd'[a].envOK = cmd[a].envOK
          /\ cmd'[a].cur = cmd[a].cur /\ cmd'[a].compOK = cmd[a].compOK
      BY <2>5, NextBatchFields
    <3>2. Behind(a)' = Behind(a) /\ StartHolds(a)
      BY <1>1, <2>5, <3>1, BehindBatch
    <3>3. \A h, s : Owed(a, h, s) => Owed(a, h, s)'
      BY <2>5, OwedBatch
    <3>4. QED
      BY <2>1, <3>1, <3>2, <3>3 DEF StartHolds
  <2>6. ASSUME EndComp(a) PROVE StartHolds(a)'
    <3>1. cmd'[a].op = cmd[a].op /\ cmd'[a].cur = "none"
      BY <2>6, EndCompFields
    <3>2. StartHolds(a)
      BY <1>1, <3>1
    <3>3. ASSUME cmd'[a].envOK, NEW c \in Behind(a)' PROVE AllUp(c)
      <4>1. cmd[a].envOK /\ cmd[a].compOK /\ c \in Behind(a) \union {cmd[a].cur}
        BY <2>6, <3>3, BehindEnd
      <4>2. AllUp(cmd[a].cur)
        BY <2>6, <3>2, <4>1, NothingOwed DEF StartHolds, AllUp
      <4>3. QED
        BY <3>2, <4>1, <4>2 DEF StartHolds
    <3>4. QED
      BY <2>1, <2>2, <3>1, <3>3 DEF StartHolds
  <2>7. ~Finish(a)
    BY FinishFields DEF Idle
  <2>8. ~PackageFails(a)
    BY PackageFields
  <2>9. QED
    BY <1>7, <2>3, <2>4, <2>5, <2>6, <2>7, <2>8 DEF WalkStep
<1>8. QED
  BY <1>2, <1>3, <1>4, <1>5, <1>6, <1>7, StepKinds

LEMMA StartAccountStays ==
  ASSUME Alone, Lasting
  PROVE  /\ Init => StartAccountKept
         /\ Made /\ Typed /\ AccountKept /\ StartAccountKept /\ [Next]_vars => StartAccountKept'
<1>1. ASSUME Init PROVE StartAccountKept
  <2>1. /\ procs = {} /\ ~marker
        /\ \A a \in Operators : cmd[a] = Idle
        /\ \A c \in Components : \A h \in Hosts :
             home[c][h] = (IF Preinstalled THEN Parts ELSE {}) /\ cfg[c][h] = Preinstalled
    BY <1>1 DEF Init
  <2>2. ASSUME NEW c \in Components, NEW h \in Hosts, "bin" \in home[c][h] PROVE Runnable(c, h)
    <3>1. Preinstalled
      BY <2>1, <2>2
    <3>2. QED
      BY <2>1, <3>1 DEF Runnable, Parts
  <2>3. HomesWhole /\ NameNodeReady
    BY <2>1, <2>2 DEF HomesWhole, NameNodeReady
  <2>4. StartAccount
    BY <2>1 DEF StartAccount, Idle
  <2>5. QED
    BY <2>3, <2>4 DEF StartAccountKept
<1>2. ASSUME Made, Typed, AccountKept, StartAccountKept, Next PROVE StartAccountKept'
  BY <1>2, HomesKept, ReadyKept, StartKept DEF AccountKept, StartAccountKept
<1>3. ASSUME StartAccountKept, UNCHANGED vars PROVE StartAccountKept'
  <2>1. UNCHANGED <<cmd, procs, home, cfg, nnId, marker, dnId, up, nnRun>>
    BY <1>3 DEF vars, disk, running
  <2>2. (HomesWhole /\ NameNodeReady)'
    BY <1>3, <2>1 DEF StartAccountKept, HomesWhole, NameNodeReady, Runnable
  <2>3. \A a : Behind(a)' = Behind(a)
    BY <2>1 DEF Behind, Acted
  <2>4. \A a, h, s : Owed(a, h, s)' = Owed(a, h, s)
    BY <2>1 DEF Owed, Waited
  <2>5. StartAccount'
    BY <1>3, <2>1, <2>3, <2>4 DEF StartAccountKept, StartAccount, AllUp, Matched
  <2>6. QED
    BY <2>2, <2>5 DEF StartAccountKept
<1>4. QED
  BY <1>1, <1>2, <1>3

(* zookeeper.go:83-91, hdfs.go:91-131, hbase.go:87-106: on homes that are  *)
(* whole, what a start has not been told to have failed runs or is still   *)
(* to be launched, and no NameNode is launched without metadata.           *)
THEOREM StartOutcome ==
  ASSUME Alone, Lasting
  PROVE  Spec => []StartAccountKept
<1>1. Init => Made /\ Typed /\ AccountKept /\ StartAccountKept
  BY MadeStays, InitTyped, AccountStays, StartAccountStays
<1>2. Made /\ Typed /\ AccountKept /\ StartAccountKept /\ [Next]_vars =>
        (Made /\ Typed /\ AccountKept /\ StartAccountKept)'
  BY MadeStays, StepTyped, AccountStays, StartAccountStays
<1>3. QED
  BY <1>1, <1>2, PTL DEF Spec

(* start.go:27-40: a start that says OK leaves every daemon of its         *)
(* components running, unless --force-format has left DataNodes of another *)
(* cluster.                                                                *)
THEOREM StartMeansUp ==
  ASSUME Alone, Lasting
  PROVE  Spec => []UpWhenOK
<1>1. StartAccountKept => UpWhenOK
  BY AllBehind DEF StartAccountKept, StartAccount, UpWhenOK
<1>2. QED
  BY <1>1, StartOutcome, PTL

(* start.go:27-34: the components that a component uses come before it.    *)
LEMMA StartsForward ==
  ASSUME Alone, Lasting, Made, Typed, AccountKept, StartAccountKept, [Next]_vars
  PROVE  \A x \in up' \ up :
           (Matched /\ \E a \in Operators : cmd[a].op = "start" /\ cmd[a].filter = "all") =>
             \A c \in Declared :
               (\E i, j \in 1..3 : /\ i < j /\ Ordered[i] = c
                                   /\ Ordered[j] = CompOf[x[1]]) => AllUp(c)
<1> SUFFICES ASSUME NEW x \in up' \ up, Matched,
                    NEW a \in Operators, cmd[a].op = "start", cmd[a].filter = "all",
                    NEW i \in 1..3, NEW j \in 1..3, i < j,
                    Ordered[i] \in Declared, Ordered[j] = CompOf[x[1]]
             PROVE  AllUp(Ordered[i])
  OBVIOUS
<1> USE DEF AccountKept, StartAccountKept
<1>1. PICK p \in procs : LaunchStarts(p)
  <2>1. Next
    BY DEF vars, running
  <2>2. \A b \in Operators : ~WalkStep(b)
    BY WalkFrame
  <2>3. \A p \in procs : ~ConnectFails(p) /\ ~Dies(p)
    BY LostFrame
  <2>4. (\A h \in Hosts : ~Crash(h)) /\ ~Cluster
    BY CrashFrame, ClusterFrame
  <2>5. PICK p \in procs : ScriptStep(p)
    BY <2>1, <2>2, <2>3, <2>4, StepKinds
  <2>6. QED
    BY <2>5, StepFrame
<1>2. x = <<Arg(p), p.host>> /\ AtStep(p, "launch")
  BY <1>1 DEF LaunchStarts
<1>3. p.by = a /\ CompOf[x[1]] = cmd[a].cur /\ cmd[a].cur # "none"
  <2>1. /\ p.by \in Operators /\ Arg(p) \in DaemonsOf(cmd[p.by].cur)
        /\ cmd[p.by].cur \in Declared
    BY <1>2, HeadIs DEF Starting
  <2>2. p.by = a
    BY <2>1 DEF Alone
  <2>3. QED
    BY <1>2, <2>1, <2>2, NoneIsEmpty DEF DaemonsOf
<1>4. Ordered[i] \in Behind(a)
  BY <1>3, OrdersOpposed, NotToCome
<1>5. cmd[a].envOK
  BY <1>3 DEF WalksInOrder
<1>6. QED
  BY <1>4, <1>5 DEF StartAccount

(* start.go:27-34: a full start brings a component up only with every      *)
(* daemon of the components before it running, with the same exception.    *)
THEOREM StartsInOrder ==
  ASSUME Alone, Lasting
  PROVE  Spec => StartOrder
<1>1. Init => Made /\ Typed /\ AccountKept /\ StartAccountKept
  BY MadeStays, InitTyped, AccountStays, StartAccountStays
<1>2. Made /\ Typed /\ AccountKept /\ StartAccountKept /\ [Next]_vars =>
        (Made /\ Typed /\ AccountKept /\ StartAccountKept)'
  BY MadeStays, StepTyped, AccountStays, StartAccountStays
<1>3. Made /\ Typed /\ AccountKept /\ StartAccountKept /\ [Next]_vars =>
        [\A x \in up' \ up :
           (Matched /\ \E a \in Operators : cmd[a].op = "start" /\ cmd[a].filter = "all") =>
             \A c \in Declared :
               (\E i, j \in 1..3 : /\ i < j /\ Ordered[i] = c
                                   /\ Ordered[j] = CompOf[x[1]]) => AllUp(c)]_vars
  BY StartsForward
<1>4. QED
  BY <1>1, <1>2, <1>3, PTL DEF Spec, StartOrder
=============================================================================
