# DockVault in TLA+

DockVault (`src/`, Go) backs up Docker volumes and databases to Google Drive.
It is a command line program: `dockvault backup` runs the jobs of a workspace,
each of which stops or dumps a service, archives it, keeps a local copy, uploads
the archive with rclone, verifies the upload and prunes old archives.
`dockvault restore` does the reverse for one job, `generate` creates jobs from
what the detector finds in Docker, `setup` connects it to a Shared Drive, and
`schedule` to a daily timer. It runs by hand or from that timer, so
invocations may overlap, be interrupted, be killed, or fail at every call of
`docker` and `rclone`.

This directory holds TLA+ modules of its core, TLC runs on small instances, and
TLAPS proofs for all instances.

## Inventory

| part | state it keeps | operations | what makes it correct |
|---|---|---|---|
| workspace lock (`internal/workspace/lock.go`) | `.dockvault.lock`: existence, PID, age | `Lock`, `stealStaleLock`, the unlock function | one live invocation at a time; a lock left by a dead one is reclaimed |
| backup command (`internal/cli/backup.go`) | semaphore, goroutines, results, `manifest.json` | `runBackup`, `runJobs`, `recordResults`, `printBackupSummary` | at most `--parallel` jobs; ends; every outcome reported as it was |
| n8n executor (`internal/backup/n8n`) | the container's run state | stop, tar, upload, deferred start | never tar a running n8n; never leave it down in silence |
| upload and retention (`internal/backup/run.go`, `local_retention.go`, `manifest.go`) | the local and the remote directory, the job's status | `UploadArchive`, `retainLocalCopy`, `pruneLocalCopies`, `verifyRemoteHash`, `PruneWithWarning`, `RunAndRecord` | a success is a verified backup; pruning keeps its floors and never the older copy for the lack of a newer one |
| rclone client (`internal/rclone`) | the remote (external) | `Mkdir`, `Upload`, `ListFiles`, `Prune`, `FilesToPrune`, `Hashsum`, `Download`, remote configuration | floors, no duplicate folders |
| rabbitmq executor (`internal/backup/rabbitmq`) | the exported file in the broker's container | export, `docker cp`, deferred `rm` | the archive is the whole export of this command |
| other executors (`standard`, `hostdir`, `postgres`, `mysql`, `mongodb`) | none | check of the job, one dump, compression | a failed dump is a failed job; a refused job touches nothing |
| redis executor (`internal/backup/redis`) | Redis' own snapshot, the replies compared | `BGSAVE`, poll of `LASTSAVE`, `docker cp` | the copied snapshot is no older than the request; it ends |
| restore (`internal/cli/restore.go`, `internal/restore`) | the target volume, the container's run state | download, verify, stop, wipe, extract, prompt | nothing is touched before verification; a stopped container is never silent |
| workspace files and secrets (`internal/workspace`, `internal/secrets`) | `job.json`, `.env` or the Windows Credential Manager, `config.json`, `manifest.json` | `SaveJob`, `LoadJob`, `SaveConfig`, `Upsert` | what was saved is what is loaded, across crashes |
| generator (`internal/generator`, `internal/cli/generate.go`) | the wizard's candidates | `--auto`, the wizard, `CreateFromVolume` | every volume has a job; a job goes to the container its data came from |
| detector (`internal/detector`) | none | `ScanVolumes`, `ExtractCredentials`, `GenerateJobName` | service, credentials and name of a volume are those of one container |
| setup (`internal/cli/setup.go`, `internal/setup`) | the key file, rclone's remotes, `config.json` | key, remote, drive selection, defaults | what a complete setup confirmed is what backups use; nothing is edited under a backup |
| scheduler (`internal/cli/schedule.go`, `internal/scheduler`) | unit files, the service manager's view of them | `--install`, `--uninstall` (`--check`, `--logs` only read) | what it reports is what the service manager does |
| listing, logging, notifications, plugins | none that matters | I/O | a failed webhook never changes a result |

How they interact: a command takes the workspace lock, loads the jobs, creates
the remote folders one after the other, and runs the executors in goroutines.
An executor calls docker, then `UploadArchive`, which uses the local disk and
rclone. All goroutines share one context, which SIGINT or SIGTERM cancels;
from then on no docker or rclone program is started, deferred calls included.
Different invocations share the workspace, Docker and the remote. Setup writes
what every backup reads first (`config.json`, the remote, the key) and takes the
same lock; `schedule` takes none, and what it writes is read by systemd or
launchd, which start the nightly backup.

The hard behaviour: two invocations reclaiming a stale lock; a kill between any
two steps; goroutines sharing a container or a remote folder; a cancelled
context seen by a deferred restart; calls that fail after they took effect;
uploads that succeed with wrong bytes; deletions from a listing made earlier;
settings that change between runs; two goroutines pruning one directory; a
poll that takes somebody else's answer for its own; files written in place and
read after a kill; a service manager that has read another version of a file
than the one that is there; a command left at a prompt when the timer fires.

## Modules

In dependency order; a module that proves or checks another one extends it.

| module | models |
|---|---|
| `ExclusiveLock` | what a lock promises: an owner, and owners inside |
| `ReclaimableLock` | the same of a lock that may be taken from a dead owner |
| `WorkspaceLock` | `lock.go`, one system call per step |
| `MCWorkspaceLock`, `WorkspaceLockProofs` | its instances; its theorems |
| `Retention` | directories of archives and manifests, `ListFiles`, `FilesToPrune` |
| `RetainedCopies` | what a place of backups promises: the newest copy stays |
| `BackupPipeline` | the runs of one job: `RunAndRecord`, `UploadArchive`, local and remote retention |
| `MCBackupPipeline`, `BackupPipelineProofs` | its settings; its theorems |
| `BackupRun` | one `dockvault backup`: `runBackup`, `runJobs`, `Mkdir`, and all executors up to their upload |
| `MCBackupRun`, `BackupRunProofs` | its job lists; its theorems |
| `Restore` | `dockvault restore`, repeated, for one job of any of the eight types |
| `MCRestore`, `RestoreProofs` | its remote directories; its theorems |
| `Detector` | what a scan makes of a Docker host, as operators |
| `Generate` | `dockvault generate`, repeated: `--auto`, the wizard, `SaveJob`, `LoadJob`, both credential stores, edits of `.env` |
| `MCGenerate`, `GenerateProofs` | its host; its theorems |
| `Clock` | the wall clock in whole seconds, the grain of names, times and `LASTSAVE` |
| `LocalCopies` | `retainLocalCopy` and `pruneLocalCopies` of several goroutines in one directory |
| `RedisBackup` | the redis executor, in several goroutines on one server |
| `MCRedisBackup`, `RedisBackupProofs` | its directory; its theorems |
| `TornFile` | files that `os.WriteFile` replaces in place |
| `DayLock` | the workspace lock as commands of successive days see it |
| `Setup` | `dockvault setup`, step by step |
| `Schedule` | `dockvault schedule --install`, `--uninstall`, and the service manager |
| `Deployment` | setups, schedule commands, kills and restarts beside the nightly backup |
| `MCDeployment`, `DeploymentProofs` | its accounts; its theorems |

`Generate` extends `Detector`, whose operators give the scans. `BackupPipeline`
and `Restore` both extend `Retention`: what the one leaves on the remote is what
the other lists. `BackupRun` sees a job's pipeline as one upload that succeeds or
fails; `BackupPipeline` is that upload in detail. The lock is what lets
`BackupPipeline`, `Restore` and `Generate` treat their invocations as a sequence.
`RedisBackup` extends `LocalCopies`, as one command's goroutines are the one place
where local copies meet each other. `Deployment` extends `Setup` (which extends
`DayLock`) and `Schedule`: it composes them with a backup that is reduced to what
it reads and holds.

### WorkspaceLock and the code

One element of `Proc` is one invocation, one PID and one inode it may create.
`pc[p]` follows `Lock`: `FirstOpen` is the `O_CREATE|O_EXCL` open (lines 40-47),
`Stat`, `Probe` and `Remove` are `stealStaleLock` (62-80), `SecondOpen` is the
one retry (48-51), `WritePid` is `Fprintf` and `Close` (53-54), whose error the
code ignores and which may therefore write nothing, `Unlock` is the returned
function (56). `Crash`, `Recycle` (the PID of a dead process is reused) and
`Age` (24 hours pass) are the environment. `robbed` is a history variable: whose
file was unlinked by another while in use.

### BackupPipeline and the code

A directory is a set of objects, each an archive or manifest, whole or not.
`Produce` is the executor's dump, `MakeManifest` is `ComputeManifest` and
`WriteManifest`, `OpenCopy` to `PruneLocal` are `retainLocalCopy`, its
`copyFile` split at the `O_TRUNC`, and `pruneLocalCopies`, one `os.Remove` per
step; `Upload`, `UploadManifest` and `Verify` are the rest of `UploadArchive`;
`ListRemote` and `PruneRemote` are `Prune`, one deletion per step. `SkipLocal`
is each early return of `retainLocalCopy` with its warning, `Over` the end of
`RunAndRecord`. `Cancel` is SIGINT or SIGTERM, `Kill` SIGKILL or a power cut,
`Expire` the passing of `RetentionDays` for one more archive. A failed rclone
call may have taken effect (`FailedCall`), and a successful one may have damaged
the bytes. Not told apart: the reasons of failures, file sizes, and archives of
equal modification time of different runs (`NewestFirst` nevertheless allows any
order of ties, and the theorem about `FilesToPrune` covers them).

### BackupRun and the code

`Prepare` and `Mkdir` are `runBackup` up to the loop, with one `rclone mkdir` of
a path and its ancestors per step; `Spawn` is one turn of `runJobs`' loop
(`sem <- struct{}{}`, `go`), `Wait` is `wg.Wait`, `RecordResults` is
`recordResults`, `printBackupSummary` and the exit status. A goroutine looks up
its executor (`NoExecutor`), which may find the job incomplete (`Refuse`,
`Requires`) before it calls docker or defers anything. It makes an archive: `Dump`
(standard, hostdir; redis, whose own steps are in `RedisBackup`), `Stop` and `Tar`
(n8n), `ExecDump` and `Pack` (postgres, mysql, mongodb: the dump is held in memory,
and the writing of it to disk does not look at the context), or the four steps of
`Broker` (rabbitmq). Then come `Look` and `Upload` (rclone looks for the folder
and later creates what it did not find: Google Drive allows two folders of one
name), what the executor has deferred (`Restart` of n8n, `RemoveExport` of
rabbitmq) and `Finish`. `told` is what status or error say about the container.
`before` and `uploaded` are history.

rabbitmq writes its definitions to a file in the broker's container, whose path is
the same for every job: `export` is that file, absent, a leftover of an earlier
command, or this one's, in part or whole; `archived` is what was copied out of it.
The deferred `rm` uses the context that a signal cancels, and its error is
dropped, so leftovers are an initial state. Two jobs of one broker that run at
the same time (`--jobs q,q`) may archive half an export: `WholeDefinitions` is
proved for jobs with a broker of their own, or one at a time. A program that goes on in
the container after its docker client was killed is not followed beyond that.

### Restore and the code

`Begin` is `runRestore` up to the typed `RESTORE`; `Download`, `Verify`, `Stop`,
`Wipe` and `Apply` are the steps that the eight `Restore` methods share, guarded
by the sets `Stops`, `Wipes`, `Gunzips`, `Fed`, `Detached` and `Tolerant` that
tell the types apart; `Prompt` is `maybeRestartContainer`. The program that
docker runs for a restore is a record in `helper`: what it does, with which
bytes, and which files are left to do. `Work` is one file of it, `Return` the
end of its docker client. `Interrupt` is what `exec.CommandContext` does after
`Cancel`: it kills the docker client; the program in the container becomes one
of `strays` and goes on (`StrayWork`) or breaks off. `Kill` is SIGKILL of
dockvault alone. A docker client that loses its daemon, and so a program that
outlives a failed call without any signal, is not modelled.

### Generate, Detector and the code

A host is a list of volumes, a list of containers in the order of `docker ps`,
and what their images, ports, mounts and environments say. `ScanVolumes` of
`Detector` is the method of that name, for the containers `seen`: `docker ps`
lists running ones only, and `ScanVolumes` drops the errors of `docker inspect`,
so that `Begin` of `Generate` takes any set of them. `PortHints` is the order of
a Go map. A job name is the tuple of parts that `sanitizeComponent` joins, and
`Suffix` stands for `volumeSuffix`.

`Begin` is `runGenerate` (or `Wizard.Run`) up to its loop, `NextVolume` one turn
of `--auto` up to `SaveJob`, `Select` one turn of the wizard with
`PromptMissingCredentials`, which writes into the candidate's own map, `Finish`
the ways in which loops end well. `OpenConfig`, `WriteConfig`, `OpenEnv`,
`WriteEnv` and `SkipEnv` are `SaveJob` and `saveEnv`; `os.WriteFile` truncates
before it writes, so that a failure or `Kill` leaves an empty or shortened file.
`LoadJob` is the method; `Trimmed` is what `loadEnv`'s `TrimSpace` does to the
end of a value. `Edit` is a user who follows the hint to edit `.env`. `saved` is
history: what `SaveJob` was given last for a name, until the name is touched
again. `store` is the platform's credential store: on Windows `saveEnv` and
`loadEnv` use one entry of the Credential Manager per job, which is replaced as a
whole or not at all (`WriteVault`), and whose values come back untrimmed
(`Loaded`). The hint to edit the job's `.env` (generate.go:129) is of no
use there, since nothing reads that file; `Edit` therefore has the other store
only. `--dry-run` writes nothing and is left out; so are values with line
breaks, and keys that only look like secrets beyond one (`PASSWORD`).

### LocalCopies, RedisBackup and the code

`dockvault backup --jobs a,a` starts two goroutines with the same job. Each goes
through `LastSave` (redis.go:71), `BgSave` (75), `Poll` once per turn of
`waitForSave`'s loop, `TimedOut`, `ArchiveFileName` (88), which takes the second
of the name, `Cp` (90), and then `UploadArchive`: `Open` and `Write` are
`copyFile` on both sides of its `O_TRUNC`, `List` the `os.ReadDir` with
`FilesToPrune`, `Remove` one `os.Remove`, `Upload` the rest, which
`BackupPipeline` has in detail. The server is external: other clients write
(`Change`), start saves (`SaveBegins`), saves end or fail (`SaveEnds`), it is
restarted. `redis-cli` exits with 0 on an error reply, so that a refused `BGSAVE`
is no error, and the text of an error to `LASTSAVE` is one that differs
(`Differs`). `asked`, `clouded` and `copied` are history. Names and times have the
grain of a second, so two goroutines may write one file; its bytes may then mix.
Manifest sidecars of local copies are left out here (`BackupPipeline` has them),
and so are passwords.

`SnapshotIsFresh` exempts a backup during which another save was already under
way at the start, an error reply came, or the server was restarted: the code
takes the first end of a save, and any other text, for its own. In the first two
cases an older dump is archived as a success. Two saves within one second look
like none to the poll, and such a backup fails by timeout.

### Setup, Schedule, Deployment and the code

`wizard` follows `Wizard.Run`: `ChooseAccount` and `WriteKey` are
`setupServiceAccount` with `copyServiceAccountFile`, split at the truncation of
the one key file that all remotes share; `ChooseRemote` configures a remote
without a drive, to list the drives; `SelectDrive` configures it again with the
chosen one; `Confirm` is the second listing; `OpenConfig` and `WriteConfig` are
`setupConfigDefaults`. `Fail` is any error, EOF at a prompt included, `KillSetup` a kill,
which is how an operator leaves a prompt: `main.go` takes SIGINT, and
`ReadString` goes on waiting. `confirmed` and `touched` are history. An account
stands for its key; of `config.json` the remote is kept.

`step[c]` follows one invocation of `schedule`: `OpenUnit` and `WriteUnit` once
per unit file, `Reload`, `Activate`; or `Stop`, `RemoveUnit` per file, `Reload`.
`loaded` and `on` are systemd's or launchd's view, which changes when it obeys a
call (`Obey`) and at a `Restart` of the machine. A unit file's content is the
command that wrote it. `sole`, `report` and `masked` are history: which command
overlapped no other, which such command reported success last, and whether
launchctl has done nothing without an error (`launchctl load` of a loaded job
keeps the old definition; an error of `unload` is dropped). On Windows these
commands only print.

`Night` is the hour of the timer; a backup then takes the lock or is refused,
reads `config.json` (`LoadBackup`), uses the remote, and ends. `DayLock` counts
time in nights: `staleLockAge` is 24 hours, so a lock of the day before may or may
not be old enough. `Persistent=true`, by which systemd makes up for a night when
the machine was off, is not modelled. `lost` counts backups that a kill, or the
lock it left, has cost.

What no property promises, because the code does not: a setup that is begun and
not finished leaves all remotes with the new key, and the one it was given
without a drive; a torn `config.json` stops every command, setup included, until
it is removed by hand; a setup left alive at a prompt blocks the nightly backup;
under `sudo` the home in the unit may be root's (`Ours` are the commands for
which it is not).

## Runs

| run | instance | shows |
|---|---|---|
| `LockWithinADay` | 4 invocations, no lock file reaches 24 hours | the file is an exclusive lock (`ImplementsExclusiveLock`), through crashes and PID reuse |
| `LockReclaim` | 3 invocations, ageing | two holders only if one was robbed; no theft of a visibly live lock; an abandoned lock goes |
| `BackupRetention` | 3 runs, 3 settings that may change between runs | warnings tell all; both places keep their newest good copy; the remote keeps its floor |
| `RunParallel` | 7 jobs, 2 at a time: n8n, a broker, a volume twice, a database with its credentials and one without, an unknown type, jobs without a path | bounded, terminating, never tarred live, nothing down in silence, whole definitions, no folder twice, a true report |
| `RunSharedContainer` | 2 volumes of one n8n | **violated**: one job restarts the container during the other's tar |
| `RunCancelled` | an n8n and a volume, docker never fails | **violated**: after Ctrl-C the deferred restart does not happen |
| `RestoreTwice` | 2 restores, 8 types, 3 remote directories, 2 files | a refusal changes nothing; no live container is written to; success is exact; a changed run state is told |
| `RestoreMerged` | 1 restore of postgres | **violated**: psql's failed statements are no error, and old data stays |
| `GenerateAgain` | 2 commands or edits, either credential store, 2 wizard choices, 2 volumes, 3 containers of which any may be missed | jobs are read as saved; damage is bounded; credentials come from the service's container; no volume without a job |
| `GenerateSidecar` | the same | **violated**: a job is bound to the sidecar that docker lists first |
| `RedisTwins` | 2 goroutines, 2 polls, 1 change of the data, 2 seconds, 2 local copies and an older one | snapshots are no older than their request; completed copies stay; every backup ends |
| `DeploymentDays` | 2 accounts with a drive each, 1 remote, 2 installations (one for this workspace) and a removal, 3 nights, 4 setups, schedule commands, kills or restarts | a complete setup is what backups use; nothing is edited under a backup; `schedule` reports the truth; a kill costs two nights at most |

Violated properties are the code's own claims, quoted in `PROJECT.json` under
`findings`. Three more disagreements are excused in properties that hold, each
said where the property is: `ExclusionUnlessRobbed` (two invocations reclaim one
stale lock, and the slower removes the faster's), `VerifiedIsExact` (the container
of an interrupted restore goes on beside the next one), `SnapshotIsFresh` (above).

Bounds, and why they are enough. The lock's race takes a dead owner and two
reclaimers, three invocations; a fourth lets a robbed holder meet another one.
Three runs are the least in which pruning has a choice: one archive to keep, one
to give up and one that was damaged or left behind; floors 1 and 2 meet both sides
of the comparison. Seven jobs two at a time make the loop wait for a token several
times, with a job of each path of `runJobs` and of each kind of executor. Two
restores are enough for a stray of the first beside the second; two files are
enough for half a wipe or half an extraction. Two commands of `generate` make the
second meet what the first has left, whole, torn or edited, under the same name or
another one; the host has a volume with a sidecar and one whose ports name two
services. Two goroutines, two copies and an older one are the least in which each
lists the other's unfinished copy and has something to remove; two polls tell a
failed one from the last. Three nights let a lock be young, at the threshold and
old; four events are, for example, a setup, an installation, another setup and its
kill. `DeploymentDays` is checked up to the exchange of the two accounts together
with their drives (`Exchange`): no definition tells them apart but by `Sees`,
which the exchange maps onto itself, and the run has invariants and action
properties only, for which such a symmetry is sound. The theorems hold for every
value of these bounds.

`CHECK_DEADLOCK FALSE`: every one of these programs ends.

Fairness. `LockReclaim` assumes that an invocation inside `Lock` keeps running
(`WF_vars(Step(p))`), not that one is started, dies, or that a file ages.
`RunParallel` assumes weak fairness of the main goroutine and of every job's
goroutine: the Go scheduler runs every goroutine that can run, the semaphore's
channel admits a waiting sender when a token is free, and docker and rclone
programs end, in the last resort killed by the user. No signal, failure or
success is assumed. `Termination` needs it for the loop's `wg.Wait`,
`ServiceReturns` for the deferred start. `RedisTwins` assumes the same of each
goroutine and nothing of the server, the clock or a signal: its `Termination` is
that the wait is bounded although no save may ever end. `DeploymentDays` states
no liveness, since people and kills decide there what happens next.

## Proofs

Every theorem holds for all values of the constants under the modules' named
assumptions: `LockAssumption` (`NoFile` is no invocation), `PipelineAssumption`
(settings are natural numbers), `RunAssumption` (a finite job list, at least one
job at a time), `RestoreAssumption` (known types, remotes made of archives and
manifests), `HostAssumption` (lists without repetition, known services and keys)
and `GenerateAssumption` (an empty value is read as an empty one),
`ClockAssumption`, `LocalAssumption` and `RedisAssumption` (a finite set of
goroutines, limits that are natural numbers, and a directory of finished files
that are older than the command), `TornFileAssumption`, `SetupAssumption`,
`ScheduleAssumption` and `DeploymentAssumption` (values that are told apart, and
`--home` of this workspace only in installations).

* `WorkspaceLockProofs`. `IInv` strengthens the properties by `Lineage` (an
  inode's creator never creates another one, and a file about to be removed is
  old) and `OwnerHasFile` (unless somebody was robbed, whoever owns the lock owns
  the file at the path). Exclusion is inductive only with these: the code checks
  a path, the property is about owners. Without ageing nothing is removed
  (`NoReclaim`), which gives mutual exclusion and the refinement of
  `ExclusiveLock`. With ageing, two assumptions that the code makes without saying
  so are named: `LoneReclaimer` (nobody is between its `stat` and its decision
  while another is about to remove a file) and `OnlyAbandonedAge` (a lock file
  reaches 24 hours only after its owner has died). While both hold,
  `ExclusionWithReclaiming` gives mutual exclusion with reclaiming, and
  `LockIsReclaimable` that the file, system call by system call, implements
  `ReclaimableLock`: this is what lets `DayLock` have `Lock` as one step. The
  invariant that this takes, `Undisturbed`, says that what was stat'ed stays at the
  path until its owner gives it back, and that what is about to be removed belongs
  to a dead process; TLC finds counterexamples without either assumption.
  `RobberyExplained` says who can break the first: the first robbery is always a
  reclaimer's, on which the path has changed, or which had no PID to probe.
* `BackupPipelineProofs`. `PrunedHasFloor` says of every listing, every order of
  equal times and every floor that what `FilesToPrune` gives up has `keep` files
  no older beside it. The invariants that carry this across the deletions:
  `Ages` (nothing on disk is of a later run, and a run's own archive is not there
  before it is written), `LocalNewest` (while local files are deleted the run's
  whole copy is there and is no candidate), `FloorKept` (each candidate left to
  delete still has its `minKeep` newer archives among those that are no
  candidates, so no deletion, failure or kill in the loop takes one away), `Reported`
  (at each step, every warning not yet given has its file). The local directory's
  theorem is a refinement of `RetainedCopies`, and so is the remote one's, step
  by step, for runs with a manifest.
* `BackupRunProofs`. `Control` ties tokens to goroutines in flight and the loop
  index to the jobs started; the cardinality argument needs the finite set
  theorems. `DownAccounted` says of each container that is down that a job still
  owes its restart or has told. `FoldersMade` says that once the loop is reached
  every destination exists, so `Look` misses nothing. `Truth` relates `err`,
  `uploaded`, `status` and `results` at each step; what `Upsert` leaves for a
  name used twice needs the largest index, proved with the library's
  well-foundedness of the natural numbers. `NotTarredLive` is proved under
  `OwnContainer` (no two n8n jobs share a container) or `Parallel = 1`, and
  `RunSharedContainer` shows that the assumption is needed: the default of
  `--parallel` is 3. `WholeDefinitions` has the same hypothesis for brokers
  (`OwnBroker`); `Definitions` follows the file from the end of the export to the
  copy, and the copy to the result. `RestartedUnlessCancelled` is the other side of
  the run `RunCancelled`: where docker's calls work, the container stays down only
  through the cancelled context. `HealthyRunSucceeds` says what a command without
  faults and signals ends with (exit status 0, everything uploaded and up); it also
  needs `OwnBroker` or `Parallel = 1`, since of two jobs of one broker the first may
  remove the second's export. `NothingRepeated` (each step raises the rank of
  `runBackup` or of one goroutine) and `SomethingToDo` (as long as it is not over,
  the loop has a token, `wg.Wait` only finished goroutines, or a goroutine works)
  are the safety halves of `Termination`, for every job list and parallelism.
* `RestoreProofs`. `Control` says what the run state and the target may be at
  each step; `Progress` says of a command that is alone which bytes its program
  works with and what is in place of the files it has dealt with.
  `ReplacedUnlessSkipped` is the other side of the run `RestoreMerged`: the property
  that one failed statement violates holds of all types if in every restore that
  succeeds no statement has failed (`NothingSkipped`, an assumption about steps of
  the behaviour).

* `GenerateProofs`. `Control` says that the name being saved is in no finished
  state and what a scan and a job look like. On it rest four invariants: `Stored`
  (both files of a job that has been saved and not touched since hold it; every
  step of a save changes one name only), `Damage` (a counting argument over the
  jobs that cannot be read, with the finite set theorems), `Progress` (while
  `scan[last]` is being saved, each earlier volume of another name has its job or
  a later one of its name has) and `Owned` (some container accounts for the
  credentials of each candidate and each job; what the user types fills gaps
  only). That the scan establishes `Owned` needs the least position of a set of
  containers, from the well-foundedness of the natural numbers.
  `RunsWhereItBelongs` is the other side of the run `GenerateSidecar`: where the
  containers that share a volume have one image (`NoSidecar`), each job is bound to a
  container of its service (`Runnable` carries it from the scan to the saved job).
  `ScanIsRepeatable` says when the order of Go's maps does not matter: each
  container that only ports tell by has one well-known port.

* `RedisBackupProofs`. `CopySurvives` rests on `Naming` (who has a name, and when
  it was given), `Files` (one file per name, finite, older ones before the
  command's start), `OnlyOlder` and `Kept`: with a floor of one per goroutine, what
  `FilesToPrune` returns never holds a file of this command, because at most
  as many files as there are goroutines are that young, and the floor keeps the
  youngest. This is a cardinality argument over any listing and any order of
  equal times. `SnapshotIsFresh` rests on `Fresh`, which follows a request through
  saves that begin, end and fail between `LASTSAVE` and `docker cp`.
  `WaitIsBounded` is the safety half of `Termination`: stages never go back, a
  goroutine stays in one for at most `MaxPolls` polls or as many removals as there
  are files left, of which there are finitely many, and no step of another changes
  what it has counted.
* `DeploymentProofs`. `IInv` has three parts. `SetupInv`: `Progress` says what key,
  remote and `config.json` hold at each stage of the wizard, so that the last write
  makes `ConfirmedTarget` true, and `touched` covers all the states between.
  `ScheduleInv`: `Alone` and `SoFar` say which files and which view of them the
  command without an overlap has established so far. `LockInv`: `Holder` says that the lock
  is held by whoever works, which gives `StableDuringBackup`, and
  `Bounded` counts how many more nights the present lock file may cost.
  `NightsAreServed` puts the three together: what a setup and an installation have
  reported is, from then on, what every night finds.

Where a run shows a claim of the documentation violated, the theorem beside it says
under which hypothesis the claim holds, so that the run and the theorem together say
what is wrong. Hypotheses beyond the named assumptions are
those of `WorkspaceLockProofs`, `BackupRunProofs`, `RestoreProofs` and
`GenerateProofs` named above; TLC confirms the conclusions on small instances and
behaviours that satisfy them, and finds counterexamples on others.

Only model-checked: the liveness properties (`AbandonedLockReclaimed`,
`Termination` of both runs that have it, `ServiceReturns`), which are out of the
prover's reach (of both `Termination`s the safety halves are proved), and of course
the violations.

## Not modelled

The components that `PROJECT.json` lists as `not_modelled`, with reasons:
read-only output (`list`, `tree`, `schedule --check` and `--logs`), flag parsing,
logging and notifications, and the plugin stub. Two things the pipeline does not
promise are therefore no properties: without a manifest a success is not verified
(a warning says so), and archives that failed verification count for the remote
floor, so that the floor is one of archives, not of good ones. A job whose save
was cut short may be read with the `.env` of an earlier job of its name, and so
may one that is saved without credentials and webhook: `RoundTrip` exempts both.

Within the modelled ones: formatting, wording, argument building, JSON parsing,
sizes, and time except for its order. `docker`, `rclone`, `redis`, `systemctl` and
`launchctl` are external: the models say only what the code can see of them.

What could come next: `manifest.json` across kills, whose read-modify-write by
`recordResults` a torn file stops for good; backups and restores of one
workspace composed under the lock's robbery; programs that go on in a container after
an interrupted backup, which `Restore` has for restores.
