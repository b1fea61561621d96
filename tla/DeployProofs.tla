---------------------------- MODULE DeployProofs -----------------------------
(***************************************************************************)
(* What an OK of install and of configure means, for any hosts, roles and  *)
(* components, when one operator works on the cluster and none of his      *)
(* scripts is left behind.                                                 *)
(***************************************************************************)
EXTENDS OutcomeProofs

-----------------------------------------------------------------------------
(***************************************************************************)
(* What is planned, and what a script leaves undone.                       *)
(***************************************************************************)
(* The sequence made of a finite set has all of its elements.              *)
LEMMA ListComplete ==
  ASSUME NEW S, IsFiniteSet(S), NEW x \in S
  PROVE  \E i \in 1..Cardinality(S) : SetToSeq(S)[i] = x
<1> DEFINE n == Cardinality(S)
           F == {f \in [1..n -> S] : IsInjective(f)}
<1>1. n \in Nat /\ ExistsBijection(1..n, S)
  BY FS_CardinalityType
<1>2. \E f \in [1..n -> S] : IsInjective(f)
  BY <1>1 DEF ExistsBijection, Bijection, Injection
<1>3. SetToSeq(S) \in [1..n -> S] /\ IsInjective(SetToSeq(S))
  BY <1>2 DEF SetToSeq
<1>4. SetToSeq(S) \in Injection(1..n, S)
  BY <1>3 DEF Injection
<1>5. Cardinality(1..n) = n
  BY <1>1, FS_Interval
<1>6. SetToSeq(S) \in Surjection(1..n, S)
  BY <1>4, <1>5, FS_Injection
<1>7. QED
  BY <1>6 DEF Surjection

(* zookeeper.go:65-79, hdfs.go:60, hdfs.go:88: no host is forgotten.       *)
LEMMA DeployPlanned ==
  ASSUME NEW c \in Declared, NEW f \in BOOLEAN, NEW h \in HostsOf(c)
  PROVE  /\ Planned("install", c, f, h, <<"mv", c>>)
         /\ Planned("configure", c, f, h, <<"write", c>>)
<1>1. Planned("install", c, f, h, <<"mv", c>>)
  <2>1. Plan("install", c, f) = << [hosts |-> HostsOf(c), todo |-> InstallScript(c)] >>
    BY DEF Plan
  <2>2. /\ 1 \in DOMAIN Plan("install", c, f)
        /\ Plan("install", c, f)[1].hosts = HostsOf(c)
        /\ Plan("install", c, f)[1].todo = InstallScript(c)
    BY <2>1
  <2>3. <<"mv", c>> \in ToSet(InstallScript(c))
    BY DEF InstallScript, ToSet
  <2>4. QED
    BY <2>2, <2>3 DEF Planned
<1>2. <<"write", c>> \in ToSet(<< <<"write", c>> >>)
  BY DEF ToSet
<1>3. ASSUME c = "zookeeper" PROVE Planned("configure", c, f, h, <<"write", c>>)
  <2> DEFINE S == HostsOf(c)
             n == Cardinality(S)
             q == SetToSeq(S)
             w == << <<"write", c>> >>
  <2>1. Plan("configure", c, f) = [i \in 1..n |-> [hosts |-> {q[i]}, todo |-> w]]
    BY <1>3 DEF Plan
  <2>2. S \subseteq Hosts
    BY LifecycleAssumption DEF LifecycleAssumption, HostsOf, DaemonsOf
  <2>3. IsFiniteSet(S)
    BY <2>2, FS_Subset, LifecycleAssumption DEF LifecycleAssumption
  <2>4. PICK i \in 1..n : q[i] = h
    BY <2>3, ListComplete
  <2> HIDE DEF S, n, q, w
  <2>5. /\ i \in DOMAIN Plan("configure", c, f)
        /\ Plan("configure", c, f)[i].hosts = {h}
        /\ Plan("configure", c, f)[i].todo = w
    <3> DEFINE b(j) == [hosts |-> {q[j]}, todo |-> w]
               D == 1..n
               g == [j \in D |-> b(j)]
    <3>1. Plan("configure", c, f) = g
      BY <2>1
    <3>2. i \in D
      BY <2>4
    <3>3. b(i).hosts = {h} /\ b(i).todo = w
      BY <2>4
    <3> HIDE DEF b, D
    <3>4. i \in DOMAIN g /\ g[i] = b(i)
      BY <3>2
    <3>5. QED
      BY <3>1, <3>3, <3>4
  <2>6. QED
    BY <1>2, <2>5 DEF Planned, w
<1>4. ASSUME c # "zookeeper" PROVE Planned("configure", c, f, h, <<"write", c>>)
  <2>1. Plan("configure", c, f) = << [hosts |-> HostsOf(c), todo |-> << <<"write", c>> >>] >>
    BY <1>4 DEF Plan
  <2>2. /\ 1 \in DOMAIN Plan("configure", c, f)
        /\ Plan("configure", c, f)[1].hosts = HostsOf(c)
        /\ Plan("configure", c, f)[1].todo = << <<"write", c>> >>
    BY <2>1
  <2>3. QED
    BY <1>2, <2>2 DEF Planned
<1>5. QED
  BY <1>1, <1>3, <1>4

(* hdfs.go:43-61, 64-89: a script of install or configure that owes its    *)
(* last step no more has done it, or has found the package in place.       *)
LEMMA DeployMoves ==
  ASSUME Made, ScriptsFit, NEW p \in procs, ScriptStep(p),
         cmd[p.by].op \in {"install", "configure"},
         NEW a \in Operators, NEW h, NEW e \in {"mv", "write"}, NEW s, s = <<e, cmd[a].cur>>,
         Owed(a, h, s), ~Owed(a, h, s)'
  PROVE  /\ p.by = a /\ p.host = h /\ Arg(p) = cmd[a].cur
         /\ \/ AtStep(p, e)
            \/ e = "mv" /\ AtStep(p, "unpack") /\ Unpack(p) /\ "bin" \in home[Arg(p)][p.host]
<1> DEFINE c == cmd[p.by].cur
           o == cmd[p.by].op
<1>1. /\ p.todo \in Seq(Steps) /\ p.todo # <<>> /\ Head(p.todo) \in StepsOf(o, c)
      /\ ToSet(p.todo) \subseteq StepsOf(o, c)
  BY ScriptFits
<1>2. o = "install" \/ o = "configure"
  OBVIOUS
<1>3. /\ Head(p.todo) = <<Head(p.todo)[1], c>> /\ Arg(p) = c
      /\ Head(p.todo)[1] \in {"unpack", "mv", "write"}
  BY <1>1, <1>2 DEF StepsOf, Arg
<1>4. CASE Advance(p)
  <2>1. Moves(p, Tail(p.todo)) /\ Tail(p.todo) = SubSeq(p.todo, 2, Len(p.todo))
    BY <1>1, <1>4, TailIsSubSeq, GotoMoves DEF Advance
  <2>2. p.by = a /\ p.host = h /\ s \in ToSet(p.todo) \ ToSet(Tail(p.todo))
    BY <2>1, MovesOwe
  <2> DEFINE k == 2
  <2>3. k \in {2, 3} /\ k # 3 /\ Tail(p.todo) = SubSeq(p.todo, k, Len(p.todo))
    BY <2>1
  <2> HIDE DEF k
  <2>4. s = Head(p.todo)
    BY <1>1, <2>2, <2>3, RestSteps
  <2>5. QED
    BY <1>3, <2>2, <2>4 DEF AtStep
<1>5. ASSUME NEW ok, Exit(p, ok) PROVE p.by = a /\ p.host = h /\ s \in ToSet(p.todo)
  <2>1. Moves(p, <<>>)
    BY <1>5, ExitMoves
  <2>2. QED
    BY <2>1, MovesOwe
<1>6. CASE Mv(p)
  <2>1. AtStep(p, "mv") /\ o = "install"
    BY <1>6, HeadIs DEF Mv
  <2>2. p.by = a /\ p.host = h /\ s \in StepsOf(o, c)
    BY <1>1, <1>5, <1>6 DEF Mv
  <2>3. s \in {"unpack", "mv"} \X {c}
    BY <2>1, <2>2 DEF StepsOf
  <2>4. e = "mv"
    BY <2>3
  <2>5. QED
    BY <1>3, <2>1, <2>2, <2>4
<1>7. CASE Unpack(p) /\ ~Advance(p)
  <2>1. AtStep(p, "unpack") /\ o = "install"
    BY <1>7, HeadIs DEF Unpack
  <2>2. Exit(p, TRUE) /\ "bin" \in home[Arg(p)][p.host]
    BY <1>7 DEF Unpack
  <2>3. p.by = a /\ p.host = h /\ s \in StepsOf(o, c)
    BY <1>1, <1>5, <2>2
  <2>4. s \in {"unpack", "mv"} \X {c}
    BY <2>1, <2>3 DEF StepsOf
  <2>5. e = "mv"
    BY <2>4
  <2>6. QED
    BY <1>3, <1>7, <2>1, <2>2, <2>3, <2>5
<1>8. CASE Write(p)
  BY <1>4, <1>8 DEF Write
<1>9. Mv(p) \/ Unpack(p) \/ Write(p)
  BY <1>3 DEF ScriptStep, AtStep, Formatting, ZkStatus, Format, Mark, LaunchRunning,
     LaunchStarts, LaunchFails, Stop, StopFails, RmHome, RmData
<1>10. QED
  BY <1>4, <1>6, <1>7, <1>8, <1>9

-----------------------------------------------------------------------------
(***************************************************************************)
(* How the account of install and of configure is carried on.  D is where  *)
(* a component is installed, or configured: pairs of component and host.   *)
(***************************************************************************)
Has(a, e, D) ==
  /\ cmd[a].envOK => \A c \in Behind(a) : \A h \in HostsOf(c) : <<c, h>> \in D
  /\ cmd[a].compOK => \A h \in HostsOf(cmd[a].cur) :
                        <<cmd[a].cur, h>> \in D \/ Owed(a, h, <<e, cmd[a].cur>>)

(* common.go:131: a package that is not to be had is an answer for all     *)
(* hosts, and no component is behind the command for it.                   *)
LEMMA PackageAnswers ==
  ASSUME Made, NEW a \in Operators, PackageFails(a)
  PROVE  cmd'[a].compOK = FALSE /\ Behind(a)' = Behind(a)
<1>1. cmd[a] \in Commands(Steps, BOOLEAN) /\ cmd \in [Operators -> Commands(Steps, BOOLEAN)]
  BY DEF Made, MadeOf
<1>2. cmd'[a] = [cmd[a] EXCEPT !.cur = Head(cmd[a].comps), !.comps = Tail(cmd[a].comps),
                               !.compOK = FALSE]
  BY <1>1 DEF PackageFails
<1>3. cmd'[a].compOK = FALSE
  BY <1>1, <1>2 DEF Commands
<1>4. /\ cmd[a].cur = "none" /\ cmd[a].comps \in Seq(Declared) /\ cmd[a].comps # <<>>
      /\ cmd'[a].filter = cmd[a].filter
      /\ cmd'[a].cur = Head(cmd[a].comps) /\ cmd'[a].comps = Tail(cmd[a].comps)
  BY PackageFields
<1>5. ToSet(cmd[a].comps) = {Head(cmd[a].comps)} \union ToSet(Tail(cmd[a].comps))
  BY <1>4, TailIs
<1>6. Acted(a)' = Acted(a) /\ "none" \notin Acted(a)
  BY <1>4, NoneIsEmpty DEF Acted
<1>7. Behind(a)' = Behind(a)
  BY <1>4, <1>5, <1>6 DEF Behind
<1>8. QED
  BY <1>3, <1>7

(* A command that is where it was keeps its account when nothing done is   *)
(* undone, and no step is lost that has not been done.                     *)
LEMMA HasFrame ==
  ASSUME NEW a \in Operators, NEW e, NEW D, NEW E, Has(a, e, D), SameWalk, D \subseteq E,
         NEW c, c = cmd[a].cur,
         cmd'[a].compOK => \A h \in HostsOf(c) :
           Owed(a, h, <<e, c>>) => Owed(a, h, <<e, c>>)' \/ <<c, h>> \in E
  PROVE  Has(a, e, E)'
<1>1. /\ cmd'[a].cur = c /\ cmd'[a].envOK = cmd[a].envOK
      /\ cmd'[a].compOK => cmd[a].compOK
      /\ Behind(a)' = Behind(a)
  BY BehindSame DEF SameWalk
<1>2. cmd[a].envOK => \A b \in Behind(a) : \A h \in HostsOf(b) : <<b, h>> \in E
  BY DEF Has
<1>3. ASSUME cmd'[a].compOK, NEW h \in HostsOf(c)
      PROVE  <<c, h>> \in E \/ Owed(a, h, <<e, c>>)'
  BY <1>1, <1>3 DEF Has
<1>4. QED
  BY <1>1, <1>2, <1>3 DEF Has

(* install.go:24-27, configure.go:24-27, common.go:122-145: every host of  *)
(* the components taken is done or still to come, or an answer was not OK. *)
LEMMA HasKept ==
  ASSUME Made, Typed, Alone, ScriptsFit, WalksInOrder, Next, NEW a \in Operators,
         NEW o, NEW e, <<o, e>> \in {<<"install", "mv">>, <<"configure", "write">>},
         NEW D, NEW E, cmd'[a].op = o,
         cmd[a].op = o => D \subseteq E /\ Has(a, e, D),
         \A p \in procs :
           (/\ ScriptStep(p) /\ p.by = a /\ cmd[a].op = o /\ Arg(p) = cmd[a].cur
            /\ \/ AtStep(p, e)
               \/ e = "mv" /\ Unpack(p) /\ "bin" \in home[Arg(p)][p.host]) =>
             <<cmd[a].cur, p.host>> \in E
  PROVE  Has(a, e, E)'
<1>1. \A b \in Operators : b = a
  BY DEF Alone
<1>2. HostsOf("none") = {}
  BY NoneIsEmpty
<1> DEFINE c == cmd[a].cur
<1>3. ASSUME NEW p \in procs, ScriptStep(p) PROVE Has(a, e, E)'
  <2>1. PICK r : Moves(p, r)
    BY <1>3, ScriptMoves
  <2>2. p.by = a /\ SameWalk
    BY <1>1, <2>1, ScriptFits DEF Moves
  <2>3. cmd[a].op = o /\ D \subseteq E /\ Has(a, e, D)
    BY <2>2 DEF SameWalk
  <2>4. PICK k : k = c
    OBVIOUS
  <2>5. ASSUME NEW h, Owed(a, h, <<e, k>>), ~Owed(a, h, <<e, k>>)' PROVE <<k, h>> \in E
    <3>1. /\ p.by = a /\ p.host = h /\ Arg(p) = k
          /\ \/ AtStep(p, e)
             \/ e = "mv" /\ Unpack(p) /\ "bin" \in home[Arg(p)][p.host]
      <4>1. PICK s : s = <<e, k>>
        OBVIOUS
      <4>2. /\ Owed(a, h, s) /\ ~Owed(a, h, s)' /\ s = <<e, cmd[a].cur>>
            /\ cmd[p.by].op \in {"install", "configure"} /\ e \in {"mv", "write"}
        BY <2>2, <2>3, <2>4, <2>5, <4>1
      <4>3. QED
        BY <1>3, <2>4, <4>2, DeployMoves
    <3>2. QED
      BY <1>3, <2>3, <2>4, <3>1
  <2>6. QED
    BY <2>2, <2>3, <2>4, <2>5, HasFrame
<1>4. ASSUME NEW p \in procs, ConnectFails(p) \/ Dies(p) PROVE Has(a, e, E)'
  <2>1. Moves(p, <<>>) /\ ~cmd'[p.by].compOK /\ p.by = a
    BY <1>1, <1>4, LostScripts, ScriptFits
  <2>2. SameWalk /\ D \subseteq E /\ Has(a, e, D)
    BY <2>1 DEF Moves, SameWalk
  <2>3. QED
    BY <2>1, <2>2, HasFrame
<1>5. ASSUME NEW g \in Hosts, Crash(g) PROVE Has(a, e, E)'
  <2>1. /\ SameWalk
        /\ \A h, s : (Owed(a, h, s) /\ cmd'[a].compOK) => Owed(a, h, s)'
    BY <1>5, CrashOwes
  <2>2. D \subseteq E /\ Has(a, e, D)
    BY <2>1 DEF SameWalk
  <2>3. QED
    BY <2>1, <2>2, HasFrame
<1>6. CASE Cluster
  <2>1. cmd' = cmd /\ procs' = procs
    BY <1>6, ClusterFrame
  <2>2. SameWalk /\ D \subseteq E /\ Has(a, e, D)
    BY <2>1 DEF SameWalk
  <2>3. \A h, s : Owed(a, h, s) => Owed(a, h, s)'
    BY <2>1 DEF Owed, Waited
  <2>4. QED
    BY <2>2, <2>3, HasFrame
<1>7. ASSUME WalkStep(a) PROVE Has(a, e, E)'
  <2>1. ASSUME NEW only, NEW f, Invoke(a, o, only, f) PROVE Has(a, e, E)'
    <3>1. Behind(a)' = {} /\ cmd'[a].cur = "none"
      BY <2>1, BehindInvoke, InvokeFields
    <3>2. QED
      BY <1>2, <3>1 DEF Has
  <2>2. ASSUME NextComp(a) PROVE Has(a, e, E)'
    <3>1. PICK k : k = Head(cmd[a].comps)
      OBVIOUS
    <3>2. /\ cmd[a].op = o /\ cmd'[a].envOK = cmd[a].envOK /\ cmd'[a].cur = k
          /\ cmd[a].flag \in BOOLEAN /\ k \in Declared
      BY <2>2, <3>1, NextCompFields, TailIs
    <3>3. Behind(a)' = Behind(a) /\ Has(a, e, D) /\ D \subseteq E
      BY <2>2, <3>2, BehindNext
    <3>4. ASSUME NEW h \in HostsOf(k) PROVE Owed(a, h, <<e, k>>)'
      <4>1. PICK s : s = <<e, k>>
        OBVIOUS
      <4>2. Planned(cmd[a].op, Head(cmd[a].comps), cmd[a].flag, h, s)
        BY <3>1, <3>2, <3>4, <4>1, DeployPlanned
      <4>3. Owed(a, h, s)'
        BY <2>2, <4>2, PlannedOwed
      <4>4. QED
        BY <4>1, <4>3
    <3>5. QED
      BY <3>2, <3>3, <3>4 DEF Has
  <2>3. ASSUME NextBatch(a) PROVE Has(a, e, E)'
    <3>1. PICK k : k = c
      OBVIOUS
    <3>2. /\ cmd[a].op = o /\ cmd'[a].envOK = cmd[a].envOK
          /\ cmd'[a].cur = k /\ cmd'[a].compOK = cmd[a].compOK
      BY <2>3, <3>1, NextBatchFields
    <3>3. Behind(a)' = Behind(a) /\ Has(a, e, D) /\ D \subseteq E
      BY <2>3, <3>2, BehindBatch
    <3>4. \A h, s : Owed(a, h, s) => Owed(a, h, s)'
      BY <2>3, OwedBatch
    <3>5. ASSUME cmd[a].compOK, NEW h \in HostsOf(k)
          PROVE  <<k, h>> \in E \/ Owed(a, h, <<e, k>>)'
      BY <3>1, <3>3, <3>4, <3>5 DEF Has
    <3>6. QED
      BY <3>2, <3>3, <3>5 DEF Has
  <2>4. ASSUME EndComp(a) PROVE Has(a, e, E)'
    <3>1. cmd[a].op = o /\ cmd'[a].cur = "none"
      BY <2>4, EndCompFields
    <3>2. Has(a, e, D) /\ D \subseteq E
      BY <3>1
    <3>3. ASSUME cmd'[a].envOK, NEW b \in Behind(a)', NEW h \in HostsOf(b)
          PROVE  <<b, h>> \in D
      <4>1. cmd[a].envOK /\ cmd[a].compOK /\ b \in Behind(a) \union {cmd[a].cur}
        BY <2>4, <3>3, BehindEnd
      <4>2. \A g \in HostsOf(cmd[a].cur) : <<cmd[a].cur, g>> \in D
        BY <2>4, <3>2, <4>1, NothingOwed DEF Has
      <4>3. QED
        BY <3>2, <3>3, <4>1, <4>2 DEF Has
    <3>4. QED
      BY <1>2, <3>1, <3>2, <3>3 DEF Has
  <2>5. ASSUME PackageFails(a) PROVE Has(a, e, E)'
    <3>1. cmd[a].op = o /\ cmd'[a].envOK = cmd[a].envOK
      BY <2>5, PackageFields
    <3>2. Has(a, e, D) /\ D \subseteq E /\ Behind(a)' = Behind(a) /\ ~cmd'[a].compOK
      BY <2>5, <3>1, PackageAnswers
    <3>3. QED
      BY <3>1, <3>2 DEF Has
  <2>6. ~Finish(a)
    BY FinishFields DEF Idle
  <2>7. ASSUME NEW o2 \in Ops, NEW only, NEW f, Invoke(a, o2, only, f) PROVE o2 = o
    BY <2>7, InvokeFields
  <2>8. QED
    BY <1>7, <2>1, <2>2, <2>3, <2>4, <2>5, <2>6, <2>7 DEF WalkStep
<1>8. QED
  BY <1>1, <1>3, <1>4, <1>5, <1>6, <1>7, StepKinds

-----------------------------------------------------------------------------
(***************************************************************************)
(* install.                                                                *)
(***************************************************************************)
(* hdfs.go:48-49: what mv leaves, it leaves with its executables and the   *)
(* rest.                                                                   *)
LEMMA MvCompletes ==
  ASSUME Made, Typed, NEW p \in procs, Mv(p)
  PROVE  /\ Complete(Arg(p), p.host)'
         /\ \A c \in Components : \A h \in Hosts :
              <<c, h>> # <<Arg(p), p.host>> => home'[c][h] = home[c][h]
<1>1. home \in [Components -> [Hosts -> SUBSET Parts]]
  BY DEF Typed, DiskTyped
<1>2. Arg(p) \in Components /\ p.host \in Hosts
  BY ArgTyped DEF Mv
<1> DEFINE here == home[Arg(p)][p.host]
           kept == here \union (IF cfg[Arg(p)][p.host] THEN {"conf"} ELSE {})
           X == here \union (Parts \ kept)
<1>3. home' = [home EXCEPT ![Arg(p)][p.host] = X]
  BY DEF Mv
<1>4. {"bin", "lib"} \subseteq X
  BY DEF Parts
<1> HIDE DEF X
<1>5. PICK c, h : c = Arg(p) /\ h = p.host
  OBVIOUS
<1>6. home' = [home EXCEPT ![c][h] = X] /\ c \in Components /\ h \in Hosts
  BY <1>2, <1>3, <1>5
<1>7. home'[c][h] = X
  BY <1>1, <1>6
<1>8. \A b \in Components : \A g \in Hosts : <<b, g>> # <<c, h>> => home'[b][g] = home[b][g]
  BY <1>1, <1>6
<1>9. Arg(p)' = Arg(p)
  OBVIOUS
<1>10. QED
  BY <1>4, <1>5, <1>7, <1>8 DEF Complete

(* Every way in which a home or a configuration can change.                *)
LEMMA DiskSteps ==
  ASSUME Made, Typed, Alone, ScriptsFit, WalksInOrder, Next
  PROVE  \/ UNCHANGED <<home, cfg>>
         \/ \E p \in procs : ScriptStep(p) /\ (Mv(p) \/ Write(p) \/ RmHome(p))
         \/ \E p \in procs : Dies(p)
<1>1. ASSUME NEW a \in Operators, WalkStep(a) PROVE UNCHANGED <<home, cfg>>
  BY <1>1, WalkFits DEF disk
<1>2. ASSUME NEW p \in procs, ScriptStep(p), ~(Mv(p) \/ Write(p) \/ RmHome(p))
      PROVE  UNCHANGED <<home, cfg>>
  BY <1>2, StepFrame
<1>3. ASSUME NEW p \in procs, ConnectFails(p) PROVE UNCHANGED <<home, cfg>>
  BY <1>3 DEF ConnectFails, disk
<1>4. ASSUME NEW h \in Hosts, Crash(h) PROVE UNCHANGED <<home, cfg>>
  BY <1>4, CrashFrame
<1>5. CASE Cluster
  BY <1>5, ClusterFrame
<1>6. QED
  BY <1>1, <1>2, <1>3, <1>4, <1>5, StepKinds

(* hdfs.go:45-49: without a script that dies, a home that has its main     *)
(* executable has everything.                                              *)
LEMMA CompleteKept ==
  ASSUME Made, Typed, Alone, Unbroken, ScriptsFit, WalksInOrder, HomesComplete, Next
  PROVE  HomesComplete'
<1> SUFFICES ASSUME NEW c \in Components, NEW h \in Hosts, "bin" \in home'[c][h]
             PROVE  {"bin", "lib"} \subseteq home'[c][h]
  BY DEF HomesComplete, Complete
<1>1. "bin" \in home[c][h] => {"bin", "lib"} \subseteq home[c][h]
  BY DEF HomesComplete, Complete
<1>2. CASE UNCHANGED <<home, cfg>>
  BY <1>1, <1>2
<1>3. ASSUME NEW p \in procs, Mv(p) PROVE {"bin", "lib"} \subseteq home'[c][h]
  <2>1. CASE c = Arg(p) /\ h = p.host
    BY <1>3, <2>1, MvCompletes DEF Complete
  <2>2. CASE <<c, h>> # <<Arg(p), p.host>>
    BY <1>1, <1>3, <2>2, MvCompletes
  <2>3. QED
    BY <2>1, <2>2
<1>4. ASSUME NEW p \in procs, ScriptStep(p), Write(p)
      PROVE  {"bin", "lib"} \subseteq home'[c][h]
  BY <1>1, <1>4 DEF Write
<1>5. ASSUME NEW p \in procs, RmHome(p) PROVE {"bin", "lib"} \subseteq home'[c][h]
  BY <1>1, <1>5, HomesAfter
<1>6. \A p \in procs : ~Dies(p)
  BY DEF Unbroken, Dies, Fault
<1>7. QED
  BY <1>2, <1>3, <1>4, <1>5, <1>6, DiskSteps

(* Where component c has all of its package.                               *)
Installed == {x \in Components \X Hosts : Complete(x[1], x[2])}

LEMMA InstallHas ==
  ASSUME NEW a \in Operators
  PROVE  (InstallAccount /\ cmd[a].op = "install") => Has(a, "mv", Installed)
<1>1. ASSUME NEW c, NEW h \in HostsOf(c) PROVE Complete(c, h) => <<c, h>> \in Installed
  <2>1. PICK d \in Daemons : CompOf[d] = c /\ h \in RoleHosts[d]
    BY <1>1 DEF HostsOf, DaemonsOf
  <2>2. c \in Components /\ h \in Hosts
    BY <2>1, CompOfIs, LifecycleAssumption DEF LifecycleAssumption
  <2>3. QED
    BY <2>2 DEF Installed
<1>2. QED
  BY <1>1 DEF InstallAccount, Has

LEMMA InstallKept ==
  ASSUME Made, Typed, Alone, Unbroken, ScriptsFit, WalksInOrder, HomesComplete,
         InstallAccount, Next
  PROVE  InstallAccount'
<1> SUFFICES ASSUME NEW a \in Operators, cmd'[a].op = "install"
             PROVE  /\ cmd'[a].envOK =>
                         \A c \in Behind(a)' : \A h \in HostsOf(c) : Complete(c, h)'
                    /\ cmd'[a].compOK => \A h \in HostsOf(cmd'[a].cur) :
                         Complete(cmd[a].cur, h)' \/ Owed(a, h, <<"mv", cmd[a].cur>>)'
  BY DEF InstallAccount
<1>1. \A b \in Operators : b = a
  BY DEF Alone
<1>2. cmd[a].op = "install" => Has(a, "mv", Installed)
  BY InstallHas
<1>3. PICK D, E : D = Installed /\ E = Installed'
  OBVIOUS
<1>4. ASSUME cmd[a].op = "install" PROVE D \subseteq E
  <2>1. \A p \in procs : ~Dies(p)
    BY DEF Unbroken, Dies, Fault
  <2>2. \A p \in procs : ~RmHome(p)
    BY <1>1, <1>4, HeadIs DEF RmHome
  <2>3. ASSUME NEW c \in Components, NEW h \in Hosts PROVE home[c][h] \subseteq home'[c][h]
    BY <2>1, <2>2, HomesAfter, DiskSteps DEF Write
  <2>4. QED
    BY <1>3, <2>3 DEF Installed, Complete
<1>5. ASSUME NEW p \in procs, ScriptStep(p), p.by = a, cmd[a].op = "install", Arg(p) = cmd[a].cur,
             \/ AtStep(p, "mv")
             \/ Unpack(p) /\ "bin" \in home[Arg(p)][p.host]
      PROVE  <<cmd[a].cur, p.host>> \in E
  <2>1. Arg(p) \in Components /\ p.host \in Hosts
    BY <1>5, ScriptFits, LifecycleAssumption DEF LifecycleAssumption
  <2>2. CASE Mv(p)
    BY <1>3, <1>5, <2>1, <2>2, MvCompletes DEF Installed, Complete
  <2>3. CASE Unpack(p) /\ "bin" \in home[Arg(p)][p.host]
    <3>1. Complete(Arg(p), p.host) /\ UNCHANGED home
      BY <2>1, <2>3 DEF HomesComplete, Unpack, disk
    <3>2. QED
      BY <1>3, <1>5, <2>1, <3>1 DEF Installed, Complete
  <2>4. QED
    BY <1>5, <2>2, <2>3, StepIs
<1>6. Has(a, "mv", E)'
  <2>1. PICK o, e : o = "install" /\ e = "mv"
    OBVIOUS
  <2>2. <<o, e>> \in {<<"install", "mv">>, <<"configure", "write">>} /\ cmd'[a].op = o
    BY <2>1
  <2>3. cmd[a].op = o => D \subseteq E /\ Has(a, e, D)
    BY <1>2, <1>3, <1>4, <2>1
  <2>4. ASSUME NEW p \in procs, ScriptStep(p), p.by = a, cmd[a].op = o, Arg(p) = cmd[a].cur,
               \/ AtStep(p, e)
               \/ e = "mv" /\ Unpack(p) /\ "bin" \in home[Arg(p)][p.host]
        PROVE  <<cmd[a].cur, p.host>> \in E
    BY <1>5, <2>1, <2>4
  <2>5. Has(a, e, E)'
    BY <2>2, <2>3, <2>4, HasKept
  <2>6. QED
    BY <2>1, <2>5
<1>7. \A c, h : <<c, h>> \in E => Complete(c, h)'
  BY <1>3 DEF Installed
<1>8. QED
  BY <1>6, <1>7 DEF Has

-----------------------------------------------------------------------------
(***************************************************************************)
(* configure.                                                              *)
(***************************************************************************)
(* Where component c is configured.                                        *)
Configured == {x \in Components \X Hosts : cfg[x[1]][x[2]]}

LEMMA ConfigureHas ==
  ASSUME NEW a \in Operators
  PROVE  (ConfigureAccount /\ cmd[a].op = "configure") => Has(a, "write", Configured)
<1>1. ASSUME NEW c, NEW h \in HostsOf(c) PROVE cfg[c][h] => <<c, h>> \in Configured
  <2>1. PICK d \in Daemons : CompOf[d] = c /\ h \in RoleHosts[d]
    BY <1>1 DEF HostsOf, DaemonsOf
  <2>2. c \in Components /\ h \in Hosts
    BY <2>1, CompOfIs, LifecycleAssumption DEF LifecycleAssumption
  <2>3. QED
    BY <2>2 DEF Configured
<1>2. QED
  BY <1>1 DEF ConfigureAccount, Has

LEMMA ConfigureKept ==
  ASSUME Made, Typed, Alone, ScriptsFit, WalksInOrder, ConfigureAccount, Next
  PROVE  ConfigureAccount'
<1> SUFFICES ASSUME NEW a \in Operators, cmd'[a].op = "configure"
             PROVE  /\ cmd'[a].envOK =>
                         \A c \in Behind(a)' : \A h \in HostsOf(c) : cfg'[c][h]
                    /\ cmd'[a].compOK => \A h \in HostsOf(cmd'[a].cur) :
                         cfg'[cmd'[a].cur][h] \/ Owed(a, h, <<"write", cmd[a].cur>>)'
  BY DEF ConfigureAccount
<1>1. \A b \in Operators : b = a
  BY DEF Alone
<1>2. cmd[a].op = "configure" => Has(a, "write", Configured)
  BY ConfigureHas
<1>3. PICK D, E : D = Configured /\ E = Configured'
  OBVIOUS
<1>4. ASSUME cmd[a].op = "configure" PROVE D \subseteq E
  <2>1. \A p \in procs : ~RmHome(p)
    BY <1>1, <1>4, HeadIs DEF RmHome
  <2>2. ASSUME NEW c \in Components, NEW h \in Hosts, cfg[c][h] PROVE cfg'[c][h]
    <3>1. ASSUME NEW p \in procs, Write(p) PROVE cfg'[c][h]
      BY <2>2, <3>1, HomesAfter
    <3>2. ASSUME NEW p \in procs, Mv(p) PROVE cfg'[c][h]
      BY <2>2, <3>2 DEF Mv
    <3>3. ASSUME NEW p \in procs, Dies(p) PROVE cfg'[c][h]
      BY <2>2, <3>3 DEF Dies
    <3>4. QED
      BY <2>1, <2>2, <3>1, <3>2, <3>3, DiskSteps
  <2>3. QED
    BY <1>3, <2>2 DEF Configured
<1>5. ASSUME NEW p \in procs, ScriptStep(p), p.by = a, Arg(p) = cmd[a].cur, AtStep(p, "write")
      PROVE  <<cmd[a].cur, p.host>> \in E
  <2>1. Arg(p) \in Components /\ p.host \in Hosts /\ Write(p)
    BY <1>5, ScriptFits, StepIs, LifecycleAssumption DEF LifecycleAssumption
  <2>2. cfg'[Arg(p)][p.host]
    BY <2>1, HomesAfter
  <2>3. QED
    BY <1>3, <1>5, <2>1, <2>2 DEF Configured
<1>6. Has(a, "write", E)'
  <2>1. PICK o, e : o = "configure" /\ e = "write"
    OBVIOUS
  <2>2. <<o, e>> \in {<<"install", "mv">>, <<"configure", "write">>} /\ cmd'[a].op = o
    BY <2>1
  <2>3. cmd[a].op = o => D \subseteq E /\ Has(a, e, D)
    BY <1>2, <1>3, <1>4, <2>1
  <2>4. ASSUME NEW p \in procs, ScriptStep(p), p.by = a, cmd[a].op = o, Arg(p) = cmd[a].cur,
               \/ AtStep(p, e)
               \/ e = "mv" /\ Unpack(p) /\ "bin" \in home[Arg(p)][p.host]
        PROVE  <<cmd[a].cur, p.host>> \in E
    BY <1>5, <2>1, <2>4
  <2>5. Has(a, e, E)'
    BY <2>2, <2>3, <2>4, HasKept
  <2>6. QED
    BY <2>1, <2>5
<1>7. \A c, h : <<c, h>> \in E => cfg'[c][h]
  BY <1>3 DEF Configured
<1>8. QED
  BY <1>6, <1>7 DEF Has

-----------------------------------------------------------------------------
(***************************************************************************)
(* The accounts are kept, and what follows from them.                      *)
(***************************************************************************)
LEMMA ConfigureStays ==
  ASSUME Alone
  PROVE  /\ Init => ConfigureAccount
         /\ Made /\ Typed /\ AccountKept /\ ConfigureAccount /\ [Next]_vars => ConfigureAccount'
<1>1. Init => ConfigureAccount
  BY DEF Init, Idle, ConfigureAccount
<1>2. ASSUME Made, Typed, AccountKept, ConfigureAccount, Next PROVE ConfigureAccount'
  BY <1>2, ConfigureKept DEF AccountKept
<1>3. ASSUME ConfigureAccount, UNCHANGED vars PROVE ConfigureAccount'
  <2>1. UNCHANGED <<cmd, procs, cfg>>
    BY <1>3 DEF vars, disk
  <2>2. \A a : Behind(a)' = Behind(a)
    BY <2>1 DEF Behind, Acted
  <2>3. \A a, h, s : Owed(a, h, s)' = Owed(a, h, s)
    BY <2>1 DEF Owed, Waited
  <2>4. QED
    BY <1>3, <2>1, <2>2, <2>3 DEF ConfigureAccount
<1>4. QED
  BY <1>1, <1>2, <1>3

LEMMA InstallStays ==
  ASSUME Alone, Unbroken
  PROVE  /\ Init => InstallAccountKept
         /\ Made /\ Typed /\ AccountKept /\ InstallAccountKept /\ [Next]_vars =>
              InstallAccountKept'
<1>1. ASSUME Init PROVE InstallAccountKept
  <2>1. /\ \A a \in Operators : cmd[a].op = "none"
        /\ \A c \in Components : \A h \in Hosts :
             home[c][h] = IF Preinstalled THEN Parts ELSE {}
    BY <1>1 DEF Init, Idle
  <2>2. HomesComplete
    BY <2>1 DEF HomesComplete, Complete, Parts
  <2>3. QED
    BY <2>1, <2>2 DEF InstallAccountKept, InstallAccount
<1>2. ASSUME Made, Typed, AccountKept, InstallAccountKept, Next PROVE InstallAccountKept'
  BY <1>2, CompleteKept, InstallKept DEF AccountKept, InstallAccountKept
<1>3. ASSUME InstallAccountKept, UNCHANGED vars PROVE InstallAccountKept'
  <2>1. UNCHANGED <<cmd, procs, home>>
    BY <1>3 DEF vars, disk
  <2>2. \A a : Behind(a)' = Behind(a)
    BY <2>1 DEF Behind, Acted
  <2>3. \A a, h, s : Owed(a, h, s)' = Owed(a, h, s)
    BY <2>1 DEF Owed, Waited
  <2>4. \A c, h : Complete(c, h)' = Complete(c, h)
    BY <2>1 DEF Complete
  <2>5. QED
    BY <1>3, <2>1, <2>2, <2>3, <2>4 DEF InstallAccountKept, HomesComplete, InstallAccount
<1>4. QED
  BY <1>1, <1>2, <1>3

(* configure.go:24-27, zookeeper.go:53-81, hdfs.go:64-89: what a configure *)
(* has not been told to have failed is configured or still to be.          *)
THEOREM ConfigureOutcome ==
  ASSUME Alone
  PROVE  Spec => []ConfigureAccount
<1>1. Init => Made /\ Typed /\ AccountKept /\ ConfigureAccount
  BY MadeStays, InitTyped, AccountStays, ConfigureStays
<1>2. Made /\ Typed /\ AccountKept /\ ConfigureAccount /\ [Next]_vars =>
        (Made /\ Typed /\ AccountKept /\ ConfigureAccount)'
  BY MadeStays, StepTyped, AccountStays, ConfigureStays
<1>3. QED
  BY <1>1, <1>2, PTL DEF Spec

(* configure.go:24-27: a configure that says OK has configured every host  *)
(* of its components, whatever host could not be reached on the way.       *)
THEOREM ConfigureMeansWritten ==
  ASSUME Alone
  PROVE  Spec => []ConfiguredWhenOK
<1>1. ConfigureAccount => ConfiguredWhenOK
  BY AllBehind DEF ConfigureAccount, ConfiguredWhenOK
<1>2. QED
  BY <1>1, ConfigureOutcome, PTL

(* install.go:24-27, hdfs.go:43-61: as long as no script ends in the       *)
(* middle, a home with its main executable is complete, and what an        *)
(* install has not been told to have failed is in place or still to come.  *)
THEOREM InstallOutcome ==
  ASSUME Alone, Unbroken
  PROVE  Spec => []InstallAccountKept
<1>1. Init => Made /\ Typed /\ AccountKept /\ InstallAccountKept
  BY MadeStays, InitTyped, AccountStays, InstallStays
<1>2. Made /\ Typed /\ AccountKept /\ InstallAccountKept /\ [Next]_vars =>
        (Made /\ Typed /\ AccountKept /\ InstallAccountKept)'
  BY MadeStays, StepTyped, AccountStays, InstallStays
<1>3. QED
  BY <1>1, <1>2, PTL DEF Spec

(* install.go:24-27: an install that says OK has put the whole package of  *)
(* its components on every host of theirs.                                 *)
THEOREM InstallMeansWhole ==
  ASSUME Alone, Unbroken
  PROVE  Spec => []InstalledWhenOK
<1>1. InstallAccountKept => InstalledWhenOK
  BY AllBehind DEF InstallAccountKept, InstallAccount, InstalledWhenOK, Complete
<1>2. QED
  BY <1>1, InstallOutcome, PTL
=============================================================================
