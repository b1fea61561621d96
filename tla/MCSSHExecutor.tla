--------------------------- MODULE MCSSHExecutor ----------------------------
(* Instances of SSHExecutor for TLC. *)
EXTENDS SSHExecutor

CONSTANTS h1, h2

\* A role of two hosts, and a list that names one of them twice, over the same
\* pool.
MCBatches == {<<h1, h2>>, <<h2, h2>>}

\* A file and a command (install), files and none (a pure transfer), a
\* command alone (start, stop).
InstallTask  == [files |-> 1, cmd |-> TRUE]
TransferTask == [files |-> 2, cmd |-> FALSE]
CommandTask  == [files |-> 0, cmd |-> TRUE]

MCTaskKinds == {InstallTask, TransferTask}
InstallOnly == {InstallTask}
CommandOnly == {CommandTask}
=============================================================================
