# Verification of hadoop-cli

TLA+ models of hadoop-cli, the command line tool that installs, configures, starts, stops and
uninstalls a ZooKeeper, HDFS and HBase cluster over SSH, with the TLC runs that check them and
the TLAPS proofs about them. Line numbers refer to the repository (`src/`); `design:` is
`docs/superpowers/specs/2026-04-20-hadoop-cli-design.md`. `PROJECT.json` maps every definition
to its lines and lists the runs, the mutants, the hazards and the findings.

## 1. The system

One process per command. It loads an inventory, opens a pool of SSH connections, walks the
declared components in dependency order and, for every role of a component, runs one shell script
on all hosts of the role at once. The state that lasts is on the hosts (homes, data directories,
the marker `.formatted`, daemons) and in the control machine's tarball cache.

| Component | State | Operations | Hard behaviour | Correct when |
|---|---|---|---|---|
| `orchestrator.Runner` | loop index, slot channel, wait group, goroutines, contexts, result slice | `Run` | goroutines in any order, a loop blocked on a channel, deferred calls | at most `parallelism` tasks in flight, one result per host at its own index, nothing outlives the call |
| `orchestrator.SSHExecutor`, `ssh.Pool`, `ssh.Client` | map of clients, its mutex, connections, remote files and commands | `Execute`, `Get`, `Close`, `Dial`, `Upload`, `WriteFile`, `Exec` | a mutex held while dialling, lost connections, silent hosts, a deadline racing the end of a command, truncated files | one connection per host, no command over an incomplete file, OK only for a command that ended with 0, every call ends |
| Lifecycle: `cmd/` and `components/` | per operator the command's walk and its answers; per host homes, configuration, data directories, marker, daemons; leftover scripts | `install`, `configure`, `start`, `stop`, `uninstall` | hosts that fail alone, stops whose failure `|| true` hides, scripts that outlive their task, crashes and interrupts between two steps, reruns, two operators at once | order of the components, an OK that means what it says, HDFS metadata never lost unasked, reruns converge |
| `packages.Cache` | tarball, `.part`, processes | `Ensure` | killed processes, corrupt downloads, calls of the file system that fail, two processes on one `.part` | a returned path names verified bytes |
| `inventory` | none after loading | `Resolve`, `Load`, `Validate` | a rule that is missing | what it accepts is what the rest assumes |
| `preflight` | none | `Run` | four batches with an early exit, ports listed in two places | all hosts, all configured ports of the declared components as far as its probe sees, the right host blamed |
| `status` | none | `Run` of a read-only script | always exits 0 | every host is in the envelope |
| Command shell: `prepare`, `runlog`, `output` | run directory, envelope, exit code | every command | error paths before and after the envelope; a `result.json` emptied and then not written; two runs in one second | one envelope, one result, one exit code, agreeing |
| `render`, component `config.go` | none | text templates | files rendered apart that must agree | ids distinct, one ensemble |
| `packages/registry` | none | lookups | a second list of versions | - |
| `errs`, `scripts/install.sh` | none | wording, installing the binary | - | - |

How they interact. A component calls `Runner.Run` once per role, in sequence (ZooKeeper is configured
one host at a time; install, configure, status and uninstall take all hosts of the component at once). `Run` calls
`Executor.Execute` from one goroutine per host; all goroutines of a command share one `Pool`. The
results come back to the component, which appends them, and to the command, which folds them into
the envelope (`aggregate`). `install` calls `Cache.Ensure` before it runs anything on a host.
Scripts of different hosts touch each other only through the daemons: the ZooKeeper quorum and
the cluster id a DataNode takes from its NameNode.

## 2. Modules

| Module | Models | Lines it grew from |
|---|---|---|
| `BoundedBatch` | the promise of the orchestrator to its callers: an abstract specification | `runner.go:26-54` seen from outside |
| `Runner` | `Run`, one action per statement that changes shared state; the Executor is an assumption (it may return anything at any time) | `runner.go`, `task.go` |
| `SSHExecutor` | EXTENDS `Runner` and replaces that assumption by the code: pool, dial, transfers, sessions | `ssh_executor.go`, `pool.go`, `client.go` |
| `Lifecycle` | the commands and the effects of their scripts on the hosts | `cmd/*.go`, `components/*/*.go` |
| `Outcome` | EXTENDS `Lifecycle`: the account a command gives of itself, that is what its answers so far promise of the hosts while it goes on; no state of its own | `cmd/{install,configure,start,stop,uninstall}.go`, the components' scripts |
| `PackageCache` | `Ensure` and `verify` over a file system of names and inodes | `packages/cache.go` |
| `Inventory` | `Load`'s defaults, `Validate`, the lookups, and what the configuration files and the package tables take from an inventory: a module of operators | `inventory/*.go`, `components/*/config.go`, `packages/registry.go` |
| `CommandShell` | EXTENDS `Inventory`: a hadoop-cli process from its arguments to its exit code, several of them in one directory of runs | `cmd/*.go`, `preflight.go`, `runlog.go`, `envelope.go` |
| `RunnerProofs`, `SSHProofs`, `LifecycleProofs`, `OutcomeProofs`, `DeployProofs`, `PackageCacheProofs`, `CommandProofs` | theorems and proofs | |
| `MCRunner`, `MCSSHExecutor`, `MCLifecycle`, `MCPackageCache`, `MCCommand` | instances for TLC | |

The stack composes downwards: `SSHExecutor` refines `Runner` (`ImplementsRunner`), `Runner` refines
`BoundedBatch` (`ImplementsBatch`), and `Lifecycle` uses a batch as that promise: all scripts of a
batch run at once, each is answered once, and the next batch waits for all (`NextBatch`, guarded by
`Collected`). `Lifecycle` does not model slots: a slot only delays a script, and a script may
be delayed at will in the model anyway.

### State and code

`Runner`: `phase`, `next` are the caller's position in the loop; `sem`, `wg` the counters; `g[i]`
the goroutine of index i, from `"spawned"` over `"executing"` and the three deferred calls to
`"done"`; `ctx[i]` its context; `out` the slice. The deferred calls run last one first: cancel,
release the slot, `wg.Done`.

`SSHExecutor` adds `mu` (who holds `Pool.mu`), `clients` (keys of the map), `opened` (connections
not closed), `link` (state of the pooled connection), `step[i]`, `pos[i]` (where `Execute` is),
`proc[i]` (the remote command) and `file[h][k]` (absent, partial, whole). The context is looked at
only by `SelectTimeout`, as in the code: dials and transfers do not see it. Abstracted: exit
statuses other than 0 are one, output, modes, credentials, directories of the files.

`Lifecycle`: `cmd[a]` is the command of operator a: `comps`, `cur`, `batches` are the walk, `compOK`
and `envOK` the answers. A script is a record `[by, host, todo, waited]` whose `todo` is the list of
effects left; `waited` is dropped when its task has been given up (deadline, lost connection,
interrupt). A home is a set of parts, because `mv extracted/* home/` moves one entry after the
other. The cluster ids in the NameNode's and DataNodes' directories decide whether a DataNode may
join. What the daemons of Hadoop, ZooKeeper and HBase do is external (`CanRun`, `QuorumForms`,
`Register`): a server answers `zkServer.sh status` only with a quorum, `zkServer.sh start` fails on a
running server, `namenode -format -nonInteractive` refuses a non-empty directory, a DataNode of
another cluster ends, a stop may fail. The scripts run every stop as `... || true` (`hdfs.go:137`, `hbase.go:112`,
`zookeeper.go:97`), so one that fails (`StopFails`) leaves its daemon running and the script goes on; the history
`missed` holds the daemons whose stop has failed since they were launched. Leftover scripts of one operator on one host that have the same steps left
count as one. Operators share nothing but the hosts, as in the code: there is no lock.

`Inventory`: an inventory is a record; the required scalar fields are one set, `missing`, since
`Validate` treats each alike; names are compared as `HasComponent` compares them, exactly, after
`Normal` has done what `ToLower` and `TrimSpace` do to the spellings of the instances. `Validated`
and `Packaged` are the two tables of versions.

`CommandShell`: `proc[p]` is one process: `pc` is where it is (`prepare`, the work, the printing),
`todo` the components or checks it has still to take, `env` the envelope, `stdout` what it printed,
`asked` the history of its tasks and their answers. `results` is the directory of runs. `os.WriteFile` empties
the file before it writes, so saving is two steps (`OpenResult`, `Save`), between which a process can be killed or a
second one with the same id can write; a file may be left `Empty` or `Torn`, and the history `kept` says whether
the write succeeded. Which hosts
fail is chosen at each batch (`Losses`), which is what `BoundedBatch` promises of `Runner.Run`. The
hosts' JDKs, login shells and busy ports are in `world` and stand still: preflight looks at one moment and promises
nothing of the next. A port is taken at every address, at 127.0.0.1 or at the host's own; `CheckFails` finds what
`preflight.go:44` finds: a port that answers at 127.0.0.1, if the login shell is bash.

`PackageCache`: `path` and `part` bind the two names to inodes, `data` holds blocks, and every
process has its own `handle` and offset, so that a rename carries along whoever still writes. With `DiskFails` the
calls of the file system may fail: those whose error ends `Ensure` (open, create, write, read, rename), the read of the
cached tarball and the `Remove` whose errors it passes over, and the `Close` whose error it ignores (`cache.go:71`).
The history `erred` holds the processes that have met such a failure in this call.

## 3. Runs

Seven runs pass, five show a disagreement. Each property has a mutant of the code that breaks it.

| Run | Question | Instance |
|---|---|---|
| `runner` | Does `Run` bound, complete and account for its tasks, and refine the batch? Does it return? | 3 hosts on 2 slots, a host twice, the empty list, call after call |
| `ssh` | Do pool and executor hold up under every interleaving, and is the executor one that `Run` may have? Does `Run` return although commands need not end? | 2 hosts, one of them twice in a list; a task with a file and a command, one with two files; one lost connection; `Close` between calls |
| `order` | What does an OK of start, stop, uninstall mean; in which order do components come and go; does an OK of a purge leave a clean slate; do the accounts hold that the proofs of these rest on? | one operator, 3 components on 2 hosts, always the whole cluster, both destructive flags, 2 failures: hosts that are not reached, scripts that die, stops that fail under `|| true` |
| `data` | Can HDFS metadata be lost without a destructive flag? | two operators at once, HDFS on 1 host, all commands, 1 failure of 9 kinds |
| `converge` | Do reruns of start bring the cluster up, and does every command answer? | 3 components on 2 hosts, any 3 failures of 6 kinds |
| `cache` | Is a returned tarball verified, a good one left alone, a good download used? | one process, killed anywhere, any call of the file system failing, 3 blocks, good and bad downloads, any leftovers |
| `command` | What does `Validate` let through; do exit code, envelope and `result.json` tell the truth; what does a passed preflight mean? | 72 worlds: good and bad inventories, ports taken at one address or another, login shells that are not bash, missing JDKs; 7 commands with and without `--component hdfs`; a `result.json` that cannot be opened or not be written; two processes, which are symmetric, in one directory of runs, 2 seconds |
| `ssh_deadline`, `ssh_isolation`, `marker`, `rerun_start`, `cache_race` | findings, section 6 | |

Bounds, and why they are enough.

- `Parallelism = 2` with 3 tasks is the least where a task is queued while others run; a host
  twice makes two goroutines share everything but the index. The theorems of `RunnerProofs` and
  `SSHProofs` hold for every list and every parallelism.
- `MaxBreaks = 1`: one lost connection already leaves a stale client in the map, a cut command and
  a partial file behind; a second does the same to the other host.
- `MaxFaults` is 1 to 3. Two allow a failure and a failure in the repair of it; `converge` has
  three since its question is what reruns recover from. `data` has one, but a second operator whose
  command may be at any point; that the two properties hold for any number of both is proved.
  Faults are the only bound on the length of a behaviour: commands are given without end.
- `order` gives no `--component`: with one component at a time the account is the whole cluster's cut short. The
  theorems about the same properties hold for every filter, and `command` runs with one.
- One operator in `order` and `converge`: what an OK of one command means, and in which order daemons
  come and go, says nothing once another operator stops what the first starts.
- `ClusterIds`: five ids for at most four in use on two hosts, so a fresh one is always there.
- `Inodes = {1, 2, 3, 4}`: the two names and an open file per process. `Blocks = 3` lets
  a leftover be shorter than, and a write start before and past the end of, a file.
- `MaxLost = 1`: no host fails, or any one, or all. The envelope only tells apart none, some and all;
  `CommandProofs` has no such bound. `MaxSecond = 1`: two processes have one run id, or two.
- Three host names and one that is not listed: an ensemble of three, a repeated host, a role host that is
  unknown. `MCSettings` changes one thing at a time around an inventory that is accepted, and
  combines what the rules combine (components, ensemble, NameNodes).
- Two hosts are enough for a role spread over hosts and for one host that fails alone. One
  ZooKeeper server stands for the quorum: it is up or not; losing part of a quorum is left out.

No run switches off the check for deadlock.

### Fairness

- `Runner!Fairness`: a runnable goroutine runs, and `Execute` returns, the second being
  what an executor owes `Run`.
- `SSHExecutor!FairSSHSpec` discharges it from the code: program steps and the select are weakly
  fair, `Expire` is the timer, and a host that is not in `Silent` answers a dial, a session request
  and a transfer, if only with an error. No fairness makes a remote command end: `Run` returns
  because `Exec` selects on the context. The mutex needs no strong fairness in these instances:
  whoever waits is served once the holder's dial ends and nobody queues up behind it again within
  a call. `ssh_deadline` and `ssh_isolation` are the same specification with a silent host.
- `Lifecycle!Progress`: commands and scripts go on and the daemons' own steps happen, and
  `Rerun("start")` is an operator who keeps giving the command. Faults are never fair.
- The cache has safety and step properties only; `http.Get` has no timeout, so no fairness
  of the mirror is justified.

## 4. Proofs

All with TLAPS, for every value of the constants that meets the named assumptions
(`BatchesAssumption`, `ParallelismAssumption`, `TaskKindsAssumption`, `LifecycleAssumption`,
`CacheAssumption`, `ShellAssumption`).

**Run.** None of `TypeOK`, `BoundedParallelism` and `CompleteOnReturn` is inductive: that `sem`
bounds the tasks in flight needs that `sem` is the number of goroutines between the acquire and the
release, and that a return is complete needs that `wg` counts the others, the one that is being
dispatched included, because `wg.Add` comes before the wait for a slot. `IInv` says this
(`SlotsCounted`, `TasksCounted`), separates the spawned goroutines by the loop index (`LoopIndex`)
and says when results and contexts are there (`ResultsStored`, `ContextsScoped`). Theorems:
`Accounting` (`[]IInv`), `TypeCorrect`, `ParallelismBounded`, `ReturnsComplete`,
`ResultsNeverReplaced`, and `RunImplementsBatch`, the refinement: acquiring a slot starts a task,
storing a result finishes it, the deferred calls and the deadline are stutters.

**Executor and pool.** `ExecutorImplementsRunner`: each step of `SSHNext` is a `Runner` step or
leaves its variables alone, so `ExecutorKeepsAccounting` and `ExecutorImplementsBatch` follow for
the real executor. `SSHInv` is the inductive invariant of the pool: its heart is
`DialersHoldMutex`, a task that dials holds the mutex and its host has no client yet, without which
`OneConnectionPerHost` is not kept by `DialSucceeds`; `CallsMatch` ties the executor's steps to Run's.
Theorems: `PoolAccounting`, `ConnectionsPooled`, `MutexReleased`. `FilesInv` is the one for the remote
files: a task that is at its k-th file has the files before it whole on its host, and keeps them so
once it has them, as long as its host is listed once in the call (two tasks of one host write the same
files over each other's). From it `FilesBeforeCommand` (no command over an incomplete file) and
`OKIsDone`; `ExecutorTyped` is the types. The step that needs the premise is `OthersKeepFiles`.

**Data of HDFS.** `MetadataSurvives` and `ClusterStaysOne`, with the premise `Destructive = {}`: for any
operators, hosts, roles and failures. `Harmless` says that no command, no batch still to run and no
script on a host, waited for or left over, has a step that reformats or removes data: it is what a
script started by an earlier command could break. With it `OneCluster` is inductive (`StepKeeps`): a format
that finds metadata leaves it, and one that finds none finds no DataNode with an id either.

`LifecycleTyped` is the types, which need that the steps of a batch are steps of its command.

**What an OK means.** `StopMeansDown`, `PurgeMeansGone` and `StartMeansUp` say of `stop`, `uninstall --purge`
and `start` that an OK in the envelope is true of every host of every component taken, but for what `|| true` hides:
after a stop that says OK the daemons still running are ones whose own stop has failed, and only they; after a purge a
DataNode that could not be stopped may fill its directory again. `StopsInOrder` and
`StartsInOrder` that what depends on another goes first and comes last. A stop goes on after a
failed component (`stop.go:24`), so its order cannot hold whatever happens: what does is that when a component goes
down under one that uses it, the failure is in the answer by then, or was hidden by `|| true`. None is inductive: they
speak of the end of a command and rest on what it did on the way. `Outcome` says what that leaves
behind at every moment, in two accounts.

- `AccountKept`. A command that has said OK so far has, on the hosts of the components behind it, done what it is
  for (`StopAccount`, `PurgeAccount`); on the hosts of the component it is at, that step is done or
  still owed by a script there that has not failed, or by a batch not yet begun. With it go what keeps it:
  the walk takes its components in their order (`WalksInOrder`), the scripts on the hosts are
  those of the batch in hand (`ScriptsFit`), a daemon has a home or its stop has failed (`DaemonsAtHome`), what is
  removed is a home whose daemons are down (`RemovalsSafe`), and the ids in the directories are in use (`IdsKnown`).
- `StartAccountKept`, for start: homes are whole (`HomesWhole`), a NameNode that is past its format step has
  metadata and so can run (`NameNodeReady`), and of each daemon asked for, it runs, or is owed (`StartAccount`).

A step changes an account in two ways: a script drops a step it has done, or an answer comes in. The
proof has one lemma for each (`ScriptMoves` and `Drops`, `PackageFields` and its like), and one for
the commands that touch nothing of it.

`DeployProofs` does the same for `configure` (`ConfigureAccount`, `ConfigureMeansWritten`) and `install`
(`InstallAccountKept`, `InstallMeansWhole`): both are one argument (`HasKept`) about a set of places that
only grows while the command runs. Install has two ways to be done with a host, `mv` and the test that finds the executables;
that the second is one rests on `HomesComplete`, which every step but a script that dies keeps.

The premises are in `Outcome` and are part of what is said. `Alone`: one operator, and no task
that times out, loses its connection or is interrupted while its script goes on. Both are needed, for the code takes no
measure against either: a script that outlives its task launches its daemon after a stop has said OK, and so does another
operator's start. `Unbroken`, for install alone: no script ends in the middle, nor does its host
reboot under it: `hdfs.go:45` would take what `mv` has left for complete (section 6).
`Lasting`, for start alone: packages are
in place and stay so, and no daemon, host or format fails. A daemon that dies after its launch does so after
start has looked, and a failed format is the finding `marker`. `StopsInOrder` excludes crashes of a host as well,
which take a component's daemons down under those that depend on it. Hosts that cannot be reached, scripts that fail
or die, stops that fail untold and any number of all of these stay in. The run `order`
checks what is said of start, stop and uninstall of the whole cluster under the same premises with two failures. What is said of
install and configure (`InstalledWhenOK`, `ConfiguredWhenOK`) is proved only; no run checks it.

`LifecycleAssumption` states two things of the constants that the proofs need: an inventory has one
NameNode, which is `validate.go:63`, and there are more cluster ids than can be in use at once, so that a
format finds a fresh one, which a random UUID is.

**Inventory and command shell.** `AcceptedIsDeployable` and `EnsembleIsOne` are facts about `Validate`
(`ValidDeploys`, `ValidEnsemble`) for every inventory the decoder can make. `ShellInv` says of each
process that its answers are those of tasks of its command, that its envelope is their sum, and that
what it has left and what it has asked make up what it was to ask: `ShellTyped`, `ExitZeroMeansDone`,
`ResultKept` and `OnlyKnownAsked` follow. `Faithful` adds that the envelope's hosts are exactly the ones
asked, and that a preflight's checks have found what they looked for: `HostsAllNamed`, `PreflightIsRight`. The
latter says what the probe can say: no port of a daemon answers at 127.0.0.1 of its host, if the login shell there is
bash. `ResultKept` rests on three facts. A process with a run id of its own that has saved without an error finds its
envelope in `results` (`Own`); a file that is whole is the envelope of a process that is past its last answer
(`Kept`); and a step of a process changes no other run id's file (`FilesKept`).
All eight invariants of the run `command` are proved, for any number of processes, any inventories,
any failures.

**Cache.** `SoloVerified` and `SoloStays`: a process that has the cache to itself is only handed
verified tarballs and never disturbs one, for every size, content, leftover, kill and failure of the file system, from `SoloInv`
(the `.part` is another file than the tarball, the process writes the one called `.part`, what it
renames it has verified), which `SoloReliance` establishes. It is a premise: two processes that both download
can take a verified tarball from each other, by writing through the name the other has just renamed. `CacheTyped` is the types, for any number of
processes. `SoloDownloads` proves `GoodDownloadReturned` from `PartReceived`, that the `.part` holds the blocks
written so far and nothing of the one before: what can keep a good download from being returned is another kill or a
failure of the file system in that call. `WarmShared`: any number of processes share a cache that holds the right
tarball, as long as the file system does not fail (one that cannot read the tarball downloads it again). Between the two lies the race that `cache_race` shows.

Only model-checked: liveness (`EveryCallReturns`, `StartConverges`, `CommandAnswers`), which is out of
the prover's reach, and the properties the findings violate. Every invariant and step property of a passing run is
stated by a theorem. Recursion is not used anywhere.

## 5. Hazards and what covers them

`PROJECT.json` lists each at its line. In short: goroutine accounting, the pool's mutex and results
by `runner` and `ssh`; deadlines, truncated files and lost connections by `ssh`; order, partial
failure and what an OK means by `order`; crashes, interrupts, leftover scripts and a second operator by
`data`, the first three by `converge` as well; kills and shared files by `cache`; rules `Validate` might
miss, answers lost on the way to the exit code, preflight's early exit and its list of ports, shared run
directories and half-written results by `command`. What `|| true` hides of a failed stop is bounded by `order`:
`DownWhenOK`, `AccountKept` and `StopOrder` say which daemons it can leave behind, not that it is reported. Without a property, since the code takes no measure that one could state:
readiness after `start`, the download without a timeout, the
checksum fetched before the cache is looked at, two daemons given one port, a ZooKeeper host listed twice,
`--force-format` on a cluster in use, an install that dies while it moves files (`InstallMeansWhole` excludes it by premise).

## 6. Findings

Each has a run that violates one property.

1. `ssh_deadline` / `DeadlineEndsTask`. A transfer takes no notice of the task's deadline
   (`client.go:117`), nor does a dial after the TCP connect. A silent host stops the command for
   good, against design:216 (every task times out, 300 s by default).
2. `ssh_isolation` / `HostsIsolated`. `Pool.Get` dials with the mutex held (`pool.go:20`): one host
   that accepts and then is silent blocks the others, against design:215.
3. `marker` / `MarkerMeansFormatted`. `hdfs.go:104` swallows a failed format and writes `.formatted`
   all the same, so no later start formats; SKILL.md:111 says the marker follows a format.
4. `rerun_start` / `RerunIsNoop`. `zookeeper.go:87` asks `zkServer.sh status`, which fails without
   a quorum, then starts a server that runs; README.md:19 says rerunning start is a no-op.
5. `cache_race` / `ReturnedIsVerified`. Two processes share one `.part` (`cache.go:50`): one truncates
   what the other has verified and renamed. README.md:19 and design:221 promise otherwise.

### Other divergences seen while modelling, without a run

- design:222 promises an atomic `mv` of configuration files; `client.go:155` truncates in place.
- design:217 promises two retries of connection errors; there are none, and `pool.go:22` keeps handing
  out a client whose connection is lost until the command ends.
- `client.go:100` sends SIGKILL and does not wait: a script that goes on meets the rerun that
  `errs.go:36` advises, and can launch a daemon after a later stop has said OK.
- `hdfs.go:45` (and its like) takes one executable for a complete home, so an install that died while moving
  files (`hdfs.go:48`) is not repaired by the next, which says OK. README.md:19 calls install safe to retry,
  skills/hbase-cluster-bootstrap/references/bootstrap-runbook.md:12 says that any step may be rerun, and design:185 promises a comparison of
  checksums. `InstallMeansWhole` has the premise `Unbroken` for it.
- design:186 promises a diff before configuration files are written; there is none.
- `stop.go:24` goes on after a failed component: HDFS goes down under an HBase that could not be
  stopped; design:180 calls the order a strong constraint. `StopOrder` therefore says that the failure is in the
  answer by then, not that it does not happen.
- A stop that fails is answered OK: every one is run as `... || true` (`hdfs.go:137`, `:143`, `:159`, `:160`,
  `hbase.go:112`, `:118`, `:136`, `:137`, `zookeeper.go:97`, `:115`). The daemon runs on, the components under it are
  stopped, and uninstall removes the home of a running daemon, with the scripts that could stop it.
- design:179 waits for a quorum between ZooKeeper and the NameNode; `start.go:27` does not.
- `cache.go:40` fetches the checksum before it looks at the cache: the advice of `errs.go:32` to
  pre-populate the cache does not help without network. README.md:88 names another directory for it.
- `validate.go:11` accepts versions that `registry.go:26` has no package for (Hadoop 3.3.4 and 3.3.5,
  ZooKeeper 3.7.2 and 3.8.3, HBase 2.5.5 and 2.5.7): such an inventory passes `preflight` and `install`
  then fails on every host.
- `types.go:80` says component names match case-insensitively; the comparison is exact.
- README.md:115 says every command writes one envelope, and
  `skills/hbase-cluster-bootstrap/references/error-codes.md:3` that every non-zero exit emits an error
  object. An error before the work (`prepare`, an undeclared `--component`) writes no envelope, and
  a command that failed on a host has no `error` in it: preflight alone sets it, and always to
  `PREFLIGHT_FAILED`, never to a code of `error-codes.md` (`cmd/preflight.go:32`).
- Run ids have the resolution of a second (`runlog.go:22`): two commands of one name share a directory
  and the later `result.json` replaces the earlier, or is mixed with it. The first part of `ResultIsOwn` has the premise
  that they do not; the second holds all the same.
- `runlog.go:35` empties `result.json` before it writes, and nobody looks at the error: with a full disk, or killed in
  between, a command that printed its envelope leaves an empty or partial file. design:289 lists it as kept of every run.
- design:257 has exit code 2 for a bad inventory or argument and 3 for a failed preflight; the code
  exits with 1 for both, and `status` with 0 whatever it finds.
- design:288 and `errs.go:37` point to `<host>.stderr` in the run directory; nothing writes it.
- `roles.zookeeper` may name a host twice (`validate.go:49`): one `myid`, several servers in `zoo.cfg`, so
  that a majority of its lines may be out of reach. Nor does `Validate` look for two hosts with one
  address, two daemons with one port, or a missing `java_home`.
- `preflight.go:52` and `:57`, the checks of disk and clock, cannot fail on a host that answers: one prints
  the free space through a pipe to `awk`, the other the time, and nobody compares them.
- `preflight.go:44` probes with `/dev/tcp`, which bash alone has, in whatever the login shell is (`client.go:97`), and
  at 127.0.0.1 alone: a port taken at the host's own address, or any under another shell, counts as free.
- `preflight.go:44` asks on every role host for the ports of every declared component,
  and on the hosts of roles that are not used (`types.go:99`); ZooKeeper's 2888 and 3888 and the DataNode's
  ports go unchecked. `preflight --component` is accepted and ignored.
- design:64 has install run preflight first; it does not.
- README.md:147 gives `--component` a list; `common.go:102` takes one name.
- README.md:145 says uninstall removes `install_dir`; the components' homes are removed, and the tarballs in
  `install_dir/.cache` stay.
- `start --force-format` on a cluster in use formats under a running NameNode, and the DataNodes keep
  the old cluster id and end after a start that said OK. `UpWhenOK`, `StartOrder` and `StopOrder` leave this
  case out (`Matched`).

## 7. What is not modelled, and the plan

Left out for good: text (templates, errors, progress, messages), `scripts/install.sh`, `errs`, and the
parser of checksum files, a pure function of text that unit tests cover. `Resolve` is one choice: an
inventory is found or it is not. The overrides that are no port (heaps, tick times, replication) reach
the files unchanged and nothing else.

Planned, in this order:

1. A run for what an OK of install and of configure means. `order` cannot take it in as it is, since its premise
   for start says that no install goes on, where it could ask that the homes are whole.
2. The accounts of `Outcome` for two operators whose commands do not overlap, which needs a premise on
   behaviours instead of one on constants.
3. `Lifecycle` with three ZooKeeper servers, so that a quorum can be lost in part.
4. `CommandShell`'s answers taken from `Lifecycle`'s scripts instead of chosen, so that what is printed
   and what has happened on the hosts are related in one module.

Done so far: `BoundedBatch` and `Runner` with their proofs, `SSHExecutor` with its refinement and the proofs
of its invariants, `Lifecycle` for several operators with the proofs about the data of HDFS, `Outcome` with the proofs of what an
OK of each of the five commands means and of the order of the components,
`PackageCache` with its proofs, `Inventory` and `CommandShell` with the proofs of all their properties.
