--------------------------- MODULE BackupPipeline ---------------------------
(***************************************************************************)
(* One backup job run again and again: internal/backup/run.go              *)
(* (RunAndRecord, UploadArchive, verifyRemoteHash, PruneWithWarning),      *)
(* internal/backup/local_retention.go and rclone's Prune.                  *)
(*                                                                         *)
(* Run r produces archive r, copies it to the local directory and prunes   *)
(* that, uploads archive and manifest, verifies the remote hash and prunes *)
(* the remote directory. Every file operation and every rclone call may    *)
(* fail; an upload may return success and still have damaged the bytes; a  *)
(* failed call may have taken effect; the context may be cancelled, and    *)
(* the process killed, between any two steps. The workspace lock keeps the *)
(* runs of one job apart (WorkspaceLock).                                  *)
(***************************************************************************)
EXTENDS Retention

CONSTANTS
    MaxRuns,          \* bound: runs of the job
    Settings          \* what job.json may say from one run to the next

\* keepLocal: LocalRetentionCount, 0 too if there is no LocalBackupDir;
\* retention: RetentionDays > 0; minKeep: MinFilesToKeep.
ASSUME PipelineAssumption ==
    /\ MaxRuns \in Nat
    /\ Settings \subseteq [keepLocal : Nat, retention : BOOLEAN, minKeep : Nat]
    /\ Settings # {}

Runs == 1..MaxRuns

VARIABLES
    pc,           \* the step the current run is at; "idle" between runs
    job,          \* the settings the latest run was loaded with
    run,          \* the latest run, 0 before the first
    cancelled,    \* the command's context has been cancelled (SIGINT, SIGTERM)
    hasManifest,  \* UploadArchive's manifestPath # ""
    todo,         \* what is left of FilesToPrune's answer
    local,        \* LocalBackupDir/<job>
    remote,       \* GoogleDrivePath
    expiredTo,    \* archives of runs up to this one are older than RetentionDays
    result,       \* LastBackupStatus of the latest run: its result ...
    warn          \* ... and the warnings gathered in it

vars == <<pc, job, run, cancelled, hasManifest, todo, local, remote, expiredTo,
          result, warn>>

Steps == {"idle", "produce", "manifest", "open copy", "copy", "copy manifest",
          "list local", "prune local", "upload", "upload manifest", "verify",
          "list remote", "prune remote"}
Warnings == {"manifest", "local copy", "local manifest", "local prune",
             "manifest upload", "prune"}
Results == {"none", "success", "not produced", "not uploaded", "not verified"}

Warn(w) == warn' = warn \cup {w}

\* The run goes on with step s.
Continue(s) == pc' = s /\ UNCHANGED <<job, run, cancelled, expiredTo, result>>

\* The command is over; its memory is gone but for the status it recorded.
Over(res, said) ==
    /\ pc' = "idle"
    /\ cancelled' = FALSE /\ hasManifest' = FALSE /\ todo' = {}
    /\ result' = res /\ warn' = said
    /\ UNCHANGED <<job, run, expiredTo>>

(* RunAndRecord: LastBackupStatus is the status of a successful run, with  *)
(* its warnings, or the error alone. The webhook that follows changes      *)
(* nothing, whether it is delivered or not.                                *)
Succeed == Over("success", warn)
Fail(res) == Over(res, {})

Init ==
    /\ pc = "idle" /\ run = 0 /\ job \in Settings
    /\ cancelled = FALSE /\ hasManifest = FALSE /\ todo = {}
    /\ local = {} /\ remote = {} /\ expiredTo = 0
    /\ result = "none" /\ warn = {}
-----------------------------------------------------------------------------
(* The job is loaded, as the user has left job.json, and started once      *)
(* more; job.json holds no status.                                         *)
Start ==
    /\ pc = "idle" /\ run < MaxRuns
    /\ run' = run + 1 /\ job' \in Settings
    /\ pc' = "produce"
    /\ result' = "none" /\ warn' = {}
    /\ UNCHANGED <<cancelled, hasManifest, todo, local, remote, expiredTo>>

(* The executor dumps the service into a temporary directory. *)
Produce ==
    /\ pc = "produce"
    /\ \/ ~cancelled /\ Continue("manifest") /\ UNCHANGED <<hasManifest, todo, warn>>
       \/ Fail("not produced")
    /\ UNCHANGED <<local, remote>>

(* ComputeManifest and WriteManifest; a failure of either is a warning. *)
MakeManifest ==
    /\ pc = "manifest"
    /\ \/ hasManifest' = TRUE /\ UNCHANGED warn
       \/ Warn("manifest") /\ UNCHANGED hasManifest
    /\ Continue(IF job.keepLocal = 0 THEN "upload" ELSE "open copy")
    /\ UNCHANGED <<todo, local, remote>>
-----------------------------------------------------------------------------
\* retainLocalCopy. It takes no context: a cancelled run still does all of it.

\* Mutant of SkipLocal: the local deletions it gave up are left to do.
SkipLocalLater(w) == Warn(w) /\ Continue("upload") /\ UNCHANGED <<todo, local>>

\* Mutant of SkipLocal: best effort, and silent.
SkipLocalSilently(w) ==
    todo' = {} /\ Continue("upload") /\ UNCHANGED <<local, warn>>

\* retainLocalCopy gives up with a warning, and the upload goes on.
SkipLocal(w) == Warn(w) /\ todo' = {} /\ Continue("upload") /\ UNCHANGED local

(* MkdirAll, and copyFile's open of the destination with O_TRUNC. *)
OpenCopy ==
    /\ pc = "open copy"
    /\ \/ /\ local' = Put(local, Archive(run, FALSE))
          /\ Continue("copy") /\ UNCHANGED <<todo, warn>>
       \/ SkipLocal("local copy")
    /\ UNCHANGED <<hasManifest, remote>>

(* copyFile's io.Copy; when it fails the truncated file stays behind. *)
CopyLocal ==
    /\ pc = "copy"
    /\ \/ /\ local' = Put(local, Archive(run, TRUE))
          /\ Continue("copy manifest") /\ UNCHANGED <<todo, warn>>
       \/ SkipLocal("local copy")
    /\ UNCHANGED <<hasManifest, remote>>

(* The manifest's copy, if there is a manifest; pruning follows anyway. *)
CopyManifest ==
    /\ pc = "copy manifest"
    /\ Continue("list local")
    /\ \/ ~hasManifest /\ UNCHANGED <<local, warn>>
       \/ hasManifest /\ local' = Put(local, Manifest(run)) /\ UNCHANGED warn
       \/ hasManifest /\ Warn("local manifest") /\ UNCHANGED local
    /\ UNCHANGED <<hasManifest, todo, remote>>

(* pruneLocalCopies: the directory is read, and everything beyond the      *)
(* newest keepLocal is to go, of whatever age (retentionDays = 0).         *)
ListLocal ==
    /\ pc = "list local"
    /\ \/ /\ \E q \in NewestFirst(ListFiles(local)) :
                todo' = FilesToPrune(q, local, job.keepLocal)
          /\ Continue("prune local") /\ UNCHANGED <<local, warn>>
       \/ SkipLocal("local prune")
    /\ UNCHANGED <<hasManifest, remote>>

\* The next file to delete: candidates go from the newest to the oldest.
IsNext(o) == o \in todo /\ \A x \in todo : x.run <= o.run

(* One os.Remove of an archive, then one of its manifest, whose error (or  *)
(* a kill before it) only leaves the manifest behind.                      *)
PruneLocal ==
    /\ pc = "prune local"
    /\ \/ todo = {} /\ Continue("upload") /\ UNCHANGED <<todo, local, warn>>
       \/ \E o \in todo :
            /\ IsNext(o)
            /\ \E m \in {{}, Sidecar(local, o)} : local' = local \ ({o} \cup m)
            /\ todo' = todo \ {o}
            /\ Continue(pc) /\ UNCHANGED warn
       \/ todo # {} /\ SkipLocal("local prune")
    /\ UNCHANGED <<hasManifest, remote>>
-----------------------------------------------------------------------------
\* A call that reports an error may have taken effect all the same, unless
\* the context was cancelled before it: then the program is never started.
FailedCall(effect) ==
    \/ UNCHANGED remote
    \/ ~cancelled /\ remote' = effect

(* rclone copy of the archive. Exit status 0 does not say that the bytes   *)
(* arrived undamaged.                                                      *)
Upload ==
    /\ pc = "upload"
    /\ \/ /\ ~cancelled
          /\ \E w \in BOOLEAN : remote' = Put(remote, Archive(run, w))
          /\ Continue(IF hasManifest THEN "upload manifest" ELSE "list remote")
          /\ UNCHANGED <<hasManifest, todo, warn>>
       \/ /\ \E w \in BOOLEAN : FailedCall(Put(remote, Archive(run, w)))
          /\ Fail("not uploaded")
    /\ UNCHANGED local

(* rclone copy of the manifest; its failure is a warning. *)
UploadManifest ==
    /\ pc = "upload manifest"
    /\ LET arrived == Put(remote, Manifest(run))
       IN  \/ ~cancelled /\ remote' = arrived /\ UNCHANGED warn
           \/ FailedCall(arrived) /\ Warn("manifest upload")
    /\ Continue("verify")
    /\ UNCHANGED <<hasManifest, todo, local>>

\* Mutant of Verify: exit status 0 of the upload is taken for granted.
VerifyNothing ==
    /\ pc = "verify" /\ Continue("list remote")
    /\ UNCHANGED <<hasManifest, todo, local, remote, warn>>

(* verifyRemoteHash: Hashsum may fail; a wrong hash fails the run. *)
Verify ==
    /\ pc = "verify"
    /\ \/ /\ ~cancelled /\ Archive(run, TRUE) \in remote
          /\ Continue("list remote") /\ UNCHANGED <<hasManifest, todo, warn>>
       \/ Fail("not verified")
    /\ UNCHANGED <<local, remote>>

(* PruneWithWarning and Prune: list, and choose what is to go. *)
ListRemote ==
    /\ pc = "list remote"
    /\ \/ ~job.retention /\ Succeed
       \/ /\ job.retention
          /\ \/ /\ ~cancelled
                /\ \E q \in NewestFirst(ListFiles(remote)) :
                      todo' = FilesToPrune(q, {o \in remote : o.run <= expiredTo},
                                           job.minKeep)
                /\ UNCHANGED warn
             \/ Warn("prune") /\ UNCHANGED todo
          /\ Continue("prune remote") /\ UNCHANGED hasManifest
    /\ UNCHANGED <<local, remote>>

(* Prune's loop: deletefile of an archive, then of its manifest, whose     *)
(* failure is ignored. A failed deletion ends the loop with a warning.     *)
PruneRemote ==
    /\ pc = "prune remote"
    /\ \/ todo = {} /\ Succeed /\ UNCHANGED remote
       \/ \E o \in todo :
            /\ IsNext(o)
            /\ \/ /\ ~cancelled
                  /\ \E m \in {{}, Sidecar(remote, o)} : remote' = remote \ ({o} \cup m)
                  /\ todo' = todo \ {o} /\ UNCHANGED warn
               \/ FailedCall(remote \ {o}) /\ Warn("prune") /\ todo' = {}
            /\ Continue(pc) /\ UNCHANGED hasManifest
    /\ UNCHANGED local
-----------------------------------------------------------------------------
(* SIGINT or SIGTERM: every docker and rclone call from now on fails. *)
Cancel ==
    /\ pc # "idle" /\ ~cancelled
    /\ cancelled' = TRUE
    /\ UNCHANGED <<pc, job, run, hasManifest, todo, local, remote, expiredTo, result, warn>>

(* SIGKILL, a panic or a power cut: the run just ends, and records nothing. *)
Kill ==
    /\ pc # "idle"
    /\ Fail("none")
    /\ UNCHANGED <<local, remote>>

(* Days pass, and one more archive is older than RetentionDays. The        *)
(* archive of the run in progress is not: no run takes that long.          *)
Expire ==
    /\ expiredTo < (IF pc = "idle" THEN run ELSE run - 1)
    /\ expiredTo' = expiredTo + 1
    /\ UNCHANGED <<pc, job, run, cancelled, hasManifest, todo, local, remote, result, warn>>

Next ==
    \/ Start \/ Produce \/ MakeManifest
    \/ OpenCopy \/ CopyLocal \/ CopyManifest \/ ListLocal \/ PruneLocal
    \/ Upload \/ UploadManifest \/ Verify \/ ListRemote \/ PruneRemote
    \/ Cancel \/ Kill \/ Expire

Spec == Init /\ [][Next]_vars
-----------------------------------------------------------------------------
(* Every variable keeps its type, and what one command works with is gone  *)
(* when it is over: Job and the candidates for deletion live in memory.    *)
TypeOK ==
    /\ pc \in Steps
    /\ run \in 0..MaxRuns /\ job \in Settings
    /\ cancelled \in BOOLEAN /\ hasManifest \in BOOLEAN
    /\ local \subseteq Object(Runs) /\ remote \subseteq Object(Runs)
    /\ expiredTo \in 0..run
    /\ result \in Results /\ warn \subseteq Warnings
    /\ todo # {} => pc \in {"prune local", "prune remote"}
    /\ IF pc = "idle" THEN ~cancelled /\ ~hasManifest ELSE run > 0

\* What the warnings that are missing say of the remote and the local copies.
ArchiveTold == "manifest" \notin warn => Archive(run, TRUE) \in remote
ManifestTold == warn \cap {"manifest", "manifest upload"} = {} => Manifest(run) \in remote
LocalTold ==
    job.keepLocal > 0 =>
        /\ "local copy" \notin warn => Archive(run, TRUE) \in local
        /\ warn \cap {"manifest", "local copy", "local manifest"} = {}
               => Manifest(run) \in local

(* A status that says success is as good as its warnings: unless it names  *)
(* the one thing that failed, the remote archive has the right bytes, its  *)
(* manifest is beside it, and so it is on the local disk (UploadArchive    *)
(* and retainLocalCopy append one warning for each failure).               *)
StatusTellsAll == result = "success" => ArchiveTold /\ ManifestTold /\ LocalTold

(* Prune's "actual safety guarantee": an archive leaves the remote only if *)
(* it is past its retention and minKeep newer archives stay, across *)
(* the whole loop of deletions, failed, cancelled and killed prunes.       *)
RemoteFloor ==
    [][\A o \in ListFiles(remote) \ ListFiles(remote') :
          /\ o.run <= expiredTo
          /\ Cardinality({x \in ListFiles(remote') : x.run > o.run}) >= job.minKeep]_vars

(* The local directory gives up a good copy only while it holds a newer    *)
(* one: local retention comes after a complete copy of this run's archive. *)
LocalCopies == INSTANCE RetainedCopies WITH copies <- GoodRuns(local)
KeepsLocalCopies == LocalCopies!Spec

(* So does the remote directory, in every run that has a manifest: nothing *)
(* is pruned before the hash of the run's own archive is verified.         *)
RemoteCopies == INSTANCE RetainedCopies WITH copies <- GoodRuns(remote)
KeepsRemoteCopies ==
    [][RemoteCopies!Next \/ "manifest" \in warn
                         \/ GoodRuns(remote') = GoodRuns(remote)]_vars
=============================================================================
