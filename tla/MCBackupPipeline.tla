-------------------------- MODULE MCBackupPipeline --------------------------
(* Settings of job.json for model checking: the user may switch the local  *)
(* copy and the pruning off, and raise or lower the floors between runs.   *)
EXTENDS BackupPipeline

Job(k, r, m) == [keepLocal |-> k, retention |-> r, minKeep |-> m]

\* A floor of two with one local copy; no local copy; two of them, no pruning.
Varied == {Job(1, TRUE, 2), Job(0, TRUE, 1), Job(2, FALSE, 1)}
=============================================================================
