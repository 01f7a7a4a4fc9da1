----------------------------- MODULE MCRestore -----------------------------
(* Remote directories for model checking, as BackupPipeline leaves them.   *)
EXTENDS Restore

TwoRuns == 1..2

Good(r) == {Archive(r, TRUE), Manifest(r)}
Damaged(r) == {Archive(r, FALSE), Manifest(r)}

\* Two good backups; a good one and one whose verification failed; the same
\* from runs that could not make or upload their manifests.
Backups == {Good(1) \cup Good(2), Good(1) \cup Damaged(2),
            {Archive(1, TRUE), Archive(2, FALSE)}}
=============================================================================
