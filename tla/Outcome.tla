------------------------------ MODULE Outcome -------------------------------
(***************************************************************************)
(* Why an OK of a command means what it says, when one operator works on   *)
(* the cluster and none of his scripts is left behind:                     *)
(* at every moment, what is not yet as the command wants it is still owed  *)
(* by a script that runs or by a batch still to come - or an answer was    *)
(* not OK.  The parts of this invariant, its account, are the definitions  *)
(* below; the theorems are in OutcomeProofs and DeployProofs.              *)
(***************************************************************************)
EXTENDS Lifecycle

\* One operator, and no failure that leaves his scripts to themselves.
Alone == /\ \A a, b \in Operators : a = b
         /\ FaultKinds \intersect {"abandon", "interrupt"} = {}

\* The homes are not being installed, and what is started on them lasts.
Lasting == /\ "install" \notin Ops
           /\ FaultKinds \intersect {"crash", "daemon", "format"} = {}

\* No script ends in the middle of a step.
Unbroken == FaultKinds \intersect {"die", "crash"} = {}

-----------------------------------------------------------------------------
(***************************************************************************)
(* The scripts of a command.                                               *)
(***************************************************************************)
Formats == {"format", "reformat"}
Starting == {"zkstatus", "mark", "launch"} \union Formats

\* The steps of command o on component c.
StepsOf(o, c) ==
  CASE o = "start"     -> Starting \X DaemonsOf(c)
    [] o = "stop"      -> {"stop"} \X DaemonsOf(c)
    [] o = "install"   -> {"unpack", "mv"} \X {c}
    [] o = "configure" -> {"write"} \X {c}
    [] o = "uninstall" -> ({"stop"} \X DaemonsOf(c)) \union ({"rmhome", "rmdata"} \X {c})
    [] OTHER           -> {}

\* The order of the steps of a script.
InOrder(t) ==
  \A i, j \in DOMAIN t : i < j =>
    /\ t[i][1] \notin {"launch", "rmdata"}
    /\ t[i][1] = "zkstatus" => t[j] = <<"launch", "quorumpeer">>
    /\ t[i][1] \in Formats /\ j = i + 1 => t[j][1] = "mark"
    /\ t[j][1] \in Formats => t[i][1] # "mark"
    /\ t[j][1] = "stop" => t[i][1] # "rmhome"

\* t is what command o runs on host h for component c, or the rest of it.
Fits(o, c, h, t) ==
  /\ ToSet(t) \subseteq StepsOf(o, c)
  /\ \A s \in ToSet(t) : /\ s[1] \in Starting => h \in RoleHosts[s[2]]
                         /\ s[1] \in Formats \union {"mark"} => s[2] = "namenode"
  /\ InOrder(t)

\* t has not begun: a home goes after its daemons and before its data.
Whole(t) ==
  \A s \in ToSet(t) :
    /\ s[1] = "rmhome" => \A d \in DaemonsOf(s[2]) : <<"stop", d>> \in ToSet(t)
    /\ s[1] = "rmdata" => <<"rmhome", s[2]>> \in ToSet(t)
    /\ s = <<"launch", "namenode">> => \E r \in ToSet(t) : r[1] \in Formats
    /\ s[1] = "mark" => \E r \in ToSet(t) : r[1] \in Formats

\* Every script on a host is one its operator waits for, of the component the
\* command is at.
ScriptsFit ==
  /\ \A p \in procs : /\ p.waited
                      /\ cmd[p.by].cur # "none"
                      /\ Fits(cmd[p.by].op, cmd[p.by].cur, p.host, p.todo)
  /\ \A a \in Operators : \A i \in DOMAIN cmd[a].batches :
       /\ cmd[a].cur # "none"
       /\ Whole(cmd[a].batches[i].todo)
       /\ \A h \in cmd[a].batches[i].hosts :
            Fits(cmd[a].op, cmd[a].cur, h, cmd[a].batches[i].todo)

\* Component b comes before c in the walk of command o.
Earlier(o, b, c) == \E i, j \in 1..3 : i < j /\ Walk(o)[i] = b /\ Walk(o)[j] = c

\* A command goes through its components in its order; start breaks.
WalksInOrder ==
  \A a \in Operators :
    LET r == cmd[a] IN
    /\ r.op = "none" => r.cur = "none" /\ r.comps = <<>>
    /\ ToSet(r.comps) \subseteq Acted(a)
    /\ r.cur # "none" => r.cur \in Acted(a)
    /\ \A i \in DOMAIN r.comps :
         /\ r.cur # "none" => Earlier(r.op, r.cur, r.comps[i])
         /\ \A j \in DOMAIN r.comps : i < j => Earlier(r.op, r.comps[i], r.comps[j])
    /\ r.op = "start" /\ (r.cur # "none" \/ r.comps # <<>>) => r.envOK

-----------------------------------------------------------------------------
(***************************************************************************)
(* The hosts.                                                              *)
(***************************************************************************)
\* A daemon that runs has its home, on a host of its role; one whose stop has
\* failed may have lost it.
DaemonsAtHome ==
  \A x \in up : /\ x[2] \in RoleHosts[x[1]]
                /\ CompOf[x[1]] \in Declared
                /\ "bin" \in home[CompOf[x[1]]][x[2]] \/ x \in missed

\* A script that has still to remove a home has still to stop what runs there, or tried,
\* and one that is past the removal has left nothing.
RemovalsSafe ==
  \A p \in procs :
    /\ \A d \in Daemons :
         (<<"rmhome", CompOf[d]>> \in ToSet(p.todo) /\ <<d, p.host>> \in up) =>
           <<"stop", d>> \in ToSet(p.todo) \/ <<d, p.host>> \in missed
    /\ \A c \in Components :
         (<<"rmdata", c>> \in ToSet(p.todo) /\ <<"rmhome", c>> \notin ToSet(p.todo)) =>
           home[c][p.host] = {} /\ ~cfg[c][p.host]

\* A DataNode of the cluster on the NameNode's disk has it from the NameNode
\* that runs or has run last.
IdsKnown == \A h \in Hosts : dnId[h] \notin {NoId} /\ dnId[h] = nnId => nnRun = nnId

\* Without installs a home is whole or without its executables.
HomesWhole == \A c \in Components : \A h \in Hosts : "bin" \in home[c][h] => Runnable(c, h)

\* A package is in place; without a broken mv its executables tell.
Complete(c, h) == {"bin", "lib"} \subseteq home[c][h]
HomesComplete == \A c \in Components : \A h \in Hosts : "bin" \in home[c][h] => Complete(c, h)

\* A NameNode that is past its format has metadata.
NameNodeReady ==
  LET Ready(h) == "bin" \in home["hdfs"][h] => nnId # NoId IN
  /\ marker => \A h \in RoleHosts["namenode"] : Ready(h)
  /\ \A p \in procs :
       (/\ \E s \in ToSet(p.todo) : s[1] \in {"mark", "launch"} /\ s[2] = "namenode"
        /\ \A s \in ToSet(p.todo) : s[1] \notin Formats) => Ready(p.host)

-----------------------------------------------------------------------------
(***************************************************************************)
(* The account of a command.                                               *)
(***************************************************************************)
\* A step that a script of a has still to do on host h.
Owed(a, h, s) ==
  \/ \E p \in Waited(a) : p.host = h /\ s \in ToSet(p.todo)
  \/ \E i \in DOMAIN cmd[a].batches :
       h \in cmd[a].batches[i].hosts /\ s \in ToSet(cmd[a].batches[i].todo)

\* The components a's command has done with.
Behind(a) == Acted(a) \ ({cmd[a].cur} \union ToSet(cmd[a].comps))

StartAccount ==
  \A a \in Operators : (cmd[a].op = "start" /\ Matched) =>
    /\ cmd[a].envOK => \A c \in Behind(a) : AllUp(c)
    /\ cmd[a].compOK =>
         \A d \in DaemonsOf(cmd[a].cur) : \A h \in RoleHosts[d] :
           <<d, h>> \in up \/ Owed(a, h, <<"launch", d>>)

StopAccount ==
  \A a \in Operators : cmd[a].op \in {"stop", "uninstall"} =>
    /\ cmd[a].envOK => \A c \in Behind(a) : UpOf(c) \subseteq missed
    /\ cmd[a].compOK => \A x \in UpOf(cmd[a].cur) \ missed : Owed(a, x[2], <<"stop", x[1]>>)

\* Nothing of component c is left on host h, unless a DataNode that would not
\* stop fills its directory again; nothing of the NameNode.
Cleared(c, h) ==
  /\ home[c][h] = {} /\ ~cfg[c][h]
  /\ c = "hdfs" => dnId[h] = NoId \/ <<"datanode", h>> \in missed
Unformatted == nnId = NoId /\ ~marker

PurgeAccount ==
  \A a \in Operators : (cmd[a].op = "uninstall" /\ cmd[a].flag) =>
    /\ cmd[a].envOK => \A c \in Behind(a) : /\ \A h \in HostsOf(c) : Cleared(c, h)
                                            /\ c = "hdfs" => Unformatted
    /\ cmd[a].compOK =>
         /\ \A h \in HostsOf(cmd[a].cur) :
              Cleared(cmd[a].cur, h) \/ Owed(a, h, <<"rmdata", cmd[a].cur>>)
         /\ cmd[a].cur = "hdfs" =>
              \/ Unformatted
              \/ \E h \in RoleHosts["namenode"] : Owed(a, h, <<"rmdata", "hdfs">>)

\* start.go:24-42, stop.go:20-36, uninstall.go:22-40, common.go:122-145: what a
\* command has not been told to have failed is done or still owed.
AccountKept ==
  /\ ScriptsFit /\ WalksInOrder
  /\ DaemonsAtHome /\ RemovalsSafe /\ IdsKnown
  /\ StopAccount /\ PurgeAccount

\* hdfs.go:91-131 and its like: the same of start, which needs whole homes.
StartAccountKept == HomesWhole /\ NameNodeReady /\ StartAccount

\* configure.go:24-27, zookeeper.go:63-80, hdfs.go:64-89: the same of
\* configure, whatever fails.
ConfigureAccount ==
  \A a \in Operators : cmd[a].op = "configure" =>
    /\ cmd[a].envOK => \A c \in Behind(a) : \A h \in HostsOf(c) : cfg[c][h]
    /\ cmd[a].compOK => \A h \in HostsOf(cmd[a].cur) :
                          cfg[cmd[a].cur][h] \/ Owed(a, h, <<"write", cmd[a].cur>>)

InstallAccount ==
  \A a \in Operators : cmd[a].op = "install" =>
    /\ cmd[a].envOK => \A c \in Behind(a) : \A h \in HostsOf(c) : Complete(c, h)
    /\ cmd[a].compOK => \A h \in HostsOf(cmd[a].cur) :
                          Complete(cmd[a].cur, h) \/ Owed(a, h, <<"mv", cmd[a].cur>>)

\* hdfs.go:45-49 and its like: the same of install, which takes a home that
\* has the main executable for complete.
InstallAccountKept == HomesComplete /\ InstallAccount
=============================================================================
