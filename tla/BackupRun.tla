----------------------------- MODULE BackupRun -----------------------------
(***************************************************************************)
(* One `dockvault backup` command: internal/cli/backup.go (runBackup,      *)
(* runJobs, recordResults, printBackupSummary), the executors up to their  *)
(* upload, and rclone's Mkdir. n8n stops its container around the tar;     *)
(* rabbitmq has its definitions written to a file in the container;        *)
(* postgres, mysql and mongodb hold a dump in memory before they write it. *)
(*                                                                         *)
(* The command creates every remote directory, then starts one goroutine   *)
(* per job, of which Parallel run at a time, waits for all of them and     *)
(* records their outcomes. What one goroutine does with its archive is     *)
(* BackupPipeline's; here it is one Upload that succeeds or fails. SIGINT  *)
(* or SIGTERM cancels the context: no docker or rclone program is started  *)
(* any more, and those already running are killed.                         *)
(***************************************************************************)
EXTENDS Integers, Sequences, FiniteSets

CONSTANTS
    JobList,      \* the selected jobs, in order, as LoadJob returns them
    Parallel,     \* --parallel
    Faults        \* TRUE: docker, rclone and the disk may fail, not only when cancelled

Jobs == DOMAIN JobList
Type(j) == JobList[j].type
Container(j) == JobList[j].container
Dirs(j) == JobList[j].dirs         \* GoogleDrivePath: a folder and its ancestors
Names == {JobList[j].name : j \in Jobs}
Folder == UNION {Dirs(j) : j \in Jobs}

\* The registered executors, and what each of them asks of a job before it starts.
Requires ==
    [standard |-> {"volume"}, hostdir |-> {"path"}, n8n |-> {"container", "volume"},
     redis |-> {"container"}, rabbitmq |-> {"container"}, mongodb |-> {"container"},
     postgres |-> {"container", "POSTGRES_USER", "POSTGRES_DB"},
     mysql |-> {"container", "MYSQL_DATABASE", "MYSQL_ROOT_PASSWORD"}]
Registered == DOMAIN Requires

(* The job has an executor and all that it asks for. *)
Ready(j) == Type(j) \in Registered /\ Requires[Type(j)] \subseteq JobList[j].given

\* The executors that take a dump from the standard output of docker exec.
Streams == {"postgres", "mysql", "mongodb"}

IsN8N(j) == Type(j) = "n8n" /\ Ready(j)
N8NContainers == {Container(j) : j \in {i \in Jobs : IsN8N(i)}}
IsRabbit(j) == Type(j) = "rabbitmq" /\ Ready(j)
Brokers == {Container(j) : j \in {i \in Jobs : IsRabbit(i)}}

ASSUME RunAssumption ==
    /\ JobList \in Seq({JobList[j] : j \in Jobs})
    /\ Parallel \in Nat \ {0}
    /\ Faults \in BOOLEAN

VARIABLES
    main,       \* where runBackup is
    toMake,     \* UniqueRemoteDirs still to be created
    next,       \* runJobs' loop: the next job to start
    sem,        \* tokens in the semaphore channel
    pc,         \* where each job's goroutine is
    cancelled,  \* the context has been cancelled
    before,     \* history: the containers that ran when the command started
    up,         \* the containers that run
    folders,    \* folders[d]: how many folders of this path Drive has
    missing,    \* missing[j]: folders that j's rclone did not find
    uploaded,   \* jobs whose archive of this run is on the remote
    err,        \* err[j]: the executor's (named) error result is not nil
    told,       \* told[j]: container trouble that status or error mention
    status,     \* status[j]: LastBackupStatus
    results,    \* results[j]: the jobResult of j
    manifest,   \* manifest.json: the recorded status by job name
    exit,       \* the command's exit status
    export,     \* export[c]: /tmp/dockvault-definitions.json in the broker c
    archived    \* archived[j]: what j has copied out of its broker

mainVars == <<main, toMake, next, before, manifest, exit>>
jobVars == <<pc, missing, uploaded, err, told, status, results>>
brokerVars == <<export, archived>>
vars == <<mainVars, jobVars, sem, cancelled, up, folders, brokerVars>>

\* An export: none, a leftover of an earlier command, this one's in part or whole.
Exports == {"none", "old", "part", "whole"}

Init ==
    /\ main = "prepare" /\ toMake = {} /\ next = 1 /\ sem = 0
    /\ pc = [j \in Jobs |-> "waiting"]
    /\ cancelled = FALSE
    /\ up \in SUBSET N8NContainers /\ before = up
    /\ folders \in [Folder -> 0..1]
    /\ missing = [j \in Jobs |-> {}] /\ uploaded = {}
    /\ err = [j \in Jobs |-> FALSE] /\ told = [j \in Jobs |-> {}]
    /\ status = [j \in Jobs |-> ""]
    /\ results = [j \in Jobs |-> "none"]
    /\ manifest = [n \in Names |-> "old"]
    /\ exit = "none"
    /\ export \in [Brokers -> {"none", "old"}]
    /\ archived = [j \in Jobs |-> "none"]

\* A docker or rclone call can fail; one that is cancelled always does.
MayFail == Faults \/ cancelled
-----------------------------------------------------------------------------
\* runBackup

Abort ==
    /\ main' = "aborted" /\ exit' = "nonzero"
    /\ UNCHANGED <<next, before, manifest, jobVars, sem, cancelled, up>>

\* Mutant of UniqueRemoteDirs: the directories are left to each upload.
UniqueRemoteDirsNone == {}

(* Every destination once; a job without a path uploads to the root. *)
UniqueRemoteDirs == {Dirs(j) : j \in Jobs} \ {{}}

(* Ping and CheckConfigured, then the loop over UniqueRemoteDirs begins. *)
Prepare ==
    /\ main = "prepare"
    /\ \/ /\ ~cancelled
          /\ main' = "mkdir" /\ toMake' = UniqueRemoteDirs
          /\ UNCHANGED <<next, before, manifest, exit, jobVars, sem, cancelled, up>>
       \/ MayFail /\ Abort /\ UNCHANGED toMake
    /\ UNCHANGED folders

\* The folders with those of dirs added; Drive never refuses a second one.
Added(dirs) == [d \in Folder |-> IF d \in dirs THEN folders[d] + 1 ELSE folders[d]]
Absent(dirs) == {d \in dirs : folders[d] = 0}

(* One Mkdir of the sequential loop: a missing folder and its ancestors.   *)
(* The first failure ends the command before any job has started.          *)
Mkdir ==
    /\ main = "mkdir"
    /\ \/ /\ toMake = {} /\ main' = "loop" /\ UNCHANGED <<toMake, folders>>
          /\ UNCHANGED <<next, before, manifest, exit, jobVars, sem, cancelled, up>>
       \/ \E path \in toMake :
            \/ /\ ~cancelled
               /\ folders' = Added(Absent(path)) /\ toMake' = toMake \ {path}
               /\ UNCHANGED <<main, next, before, manifest, exit, jobVars, sem,
                              cancelled, up>>
            \/ /\ MayFail /\ Abort /\ toMake' = {}
               /\ \E made \in SUBSET Absent(path) :
                    folders' = Added(IF cancelled THEN {} ELSE made)

\* Mutant of Spawn: the semaphore has a place too many.
SpawnOneMore ==
    /\ main = "loop" /\ next \in Jobs /\ sem <= Parallel
    /\ sem' = sem + 1
    /\ pc' = [pc EXCEPT ![next] = "begin"]
    /\ next' = next + 1
    /\ UNCHANGED <<main, toMake, before, manifest, exit, missing, uploaded, err,
                   told, status, results, cancelled, up, folders>>

\* Mutant of Spawn: the loop does not stop at the end of the list.
SpawnPastEnd ==
    /\ main = "loop" /\ sem < Parallel
    /\ sem' = sem + 1
    /\ pc' = [pc EXCEPT ![next] = "begin"]
    /\ next' = next + 1
    /\ UNCHANGED <<main, toMake, before, manifest, exit, missing, uploaded, err,
                   told, status, results, cancelled, up, folders>>

(* runJobs' loop: take a token, which may have to be waited for, and start *)
(* the job's goroutine. The loop does not look at the context.             *)
Spawn ==
    /\ main = "loop" /\ next \in Jobs /\ sem < Parallel
    /\ sem' = sem + 1
    /\ pc' = [pc EXCEPT ![next] = "begin"]
    /\ next' = next + 1
    /\ UNCHANGED <<main, toMake, before, manifest, exit, missing, uploaded, err,
                   told, status, results, cancelled, up, folders>>

(* wg.Wait: the loop is over and every goroutine has finished. *)
Wait ==
    /\ main = "loop" /\ next \notin Jobs
    /\ \A j \in Jobs : pc[j] = "finished"
    /\ main' = "record"
    /\ UNCHANGED <<toMake, next, before, manifest, exit, jobVars, sem, cancelled,
                   up, folders>>

\* The status that Upsert, called for each result in order, leaves for name n.
Latest(n) ==
    LET last == CHOOSE j \in Jobs :
                    /\ JobList[j].name = n
                    /\ \A i \in Jobs : JobList[i].name = n => i <= j
    IN  status[last]

(* recordResults, whose failure is only logged, then printBackupSummary. *)
RecordResults ==
    /\ main = "record"
    /\ \/ main' = "done" /\ manifest' = [n \in Names |-> Latest(n)]
       \/ main' = "not recorded" /\ UNCHANGED manifest
    /\ exit' = IF \A j \in Jobs : results[j] = "ok" THEN "zero" ELSE "nonzero"
    /\ UNCHANGED <<toMake, next, before, jobVars, sem, cancelled, up, folders>>
-----------------------------------------------------------------------------
\* A job's goroutine

Goto(j, s) == pc' = [pc EXCEPT ![j] = s]
Failed(j) == err' = [err EXCEPT ![j] = TRUE]

\* What an executor has deferred: n8n's restart, rabbitmq's rm.
Deferred(j) == IF IsN8N(j) THEN "restart" ELSE IF IsRabbit(j) THEN "remove" ELSE "record"

\* Mutant of Return: nothing is deferred, it is what the function does last.
ReturnAtOnce(j) == Goto(j, IF err'[j] THEN "record" ELSE Deferred(j))

\* An executor's work is over.
Return(j) == Goto(j, Deferred(j))

(* The backup type has no executor: RunAndRecord, which would have set     *)
(* LastBackupStatus, is not called.                                        *)
NoExecutor(j) ==
    /\ pc[j] = "begin" /\ Type(j) \notin Registered
    /\ Goto(j, "finished") /\ sem' = sem - 1
    /\ results' = [results EXCEPT ![j] = "error"]
    /\ UNCHANGED <<mainVars, missing, uploaded, err, told, status, cancelled, up,
                   folders>>

\* Mutant of Stop: its error is not looked at.
StopUnchecked(j) ==
    /\ pc[j] = "begin" /\ IsN8N(j)
    /\ \/ ~cancelled /\ up' = up \ {Container(j)}
       \/ MayFail /\ UNCHANGED up
    /\ Goto(j, "tar")
    /\ UNCHANGED <<mainVars, missing, uploaded, err, told, status, results, sem,
                   cancelled, folders>>

(* n8n: docker stop. After an error, even of a stop that did its work, the *)
(* restart is not yet deferred and does not happen.                        *)
Stop(j) ==
    /\ pc[j] = "begin" /\ IsN8N(j)
    /\ \/ /\ ~cancelled
          /\ up' = up \ {Container(j)} /\ Goto(j, "tar")
          /\ UNCHANGED <<err, told>>
       \/ /\ MayFail
          /\ up' \in {up, IF cancelled THEN up ELSE up \ {Container(j)}}
          /\ Failed(j) /\ told' = [told EXCEPT ![j] = {"stop"}]
          /\ Goto(j, "record")
    /\ UNCHANGED <<mainVars, missing, uploaded, status, results, sem, cancelled,
                   folders>>

(* A job without what its executor asks for fails before any docker call,  *)
(* and before anything is deferred.                                        *)
Refuse(j) ==
    /\ pc[j] = "begin" /\ Type(j) \in Registered /\ ~Ready(j)
    /\ Failed(j) /\ Goto(j, "record")

(* standard, hostdir, redis: a docker program leaves the archive on disk. *)
Dump(j) ==
    /\ pc[j] = "begin" /\ Ready(j) /\ Type(j) \notin Streams \cup {"n8n", "rabbitmq"}
    /\ \/ ~cancelled /\ Goto(j, "look") /\ UNCHANGED err
       \/ MayFail /\ Failed(j) /\ Return(j)

(* The end of n8n's tar, which runs while the goroutine is at "tar". *)
Tar(j) ==
    /\ pc[j] = "tar"
    /\ \/ ~cancelled /\ Goto(j, "look") /\ UNCHANGED err
       \/ MayFail /\ Failed(j) /\ Return(j)

(* pg_dump, mysqldump or mongodump, into memory. *)
ExecDump(j) ==
    /\ pc[j] = "begin" /\ Ready(j) /\ Type(j) \in Streams
    /\ \/ ~cancelled /\ Goto(j, "pack") /\ UNCHANGED err
       \/ MayFail /\ Failed(j) /\ Return(j)

(* MkdirTemp and GzipToFile (WriteFile), which do not look at the context. *)
Pack(j) ==
    /\ pc[j] = "pack"
    /\ \/ Goto(j, "look") /\ UNCHANGED err
       \/ Faults /\ Failed(j) /\ Return(j)

Archive(j) ==
    /\ Refuse(j) \/ Dump(j) \/ Tar(j) \/ ExecDump(j) \/ Pack(j)
    /\ UNCHANGED <<mainVars, missing, uploaded, told, status, results, sem, cancelled,
                   up, folders>>

(* rclone copy, first half: look for the destination and its ancestors. *)
Look(j) ==
    /\ pc[j] = "look"
    /\ \/ /\ ~cancelled /\ Goto(j, "put")
          /\ missing' = [missing EXCEPT ![j] = Absent(Dirs(j))]
          /\ UNCHANGED err
       \/ MayFail /\ Failed(j) /\ Return(j) /\ UNCHANGED missing
    /\ UNCHANGED <<mainVars, uploaded, told, status, results, sem, cancelled, up,
                   folders>>

(* rclone copy, second half: create the folders it missed, and the file in *)
(* them. A failed or unverified upload may have done either all the same.  *)
Upload(j) ==
    /\ pc[j] = "put"
    /\ \/ /\ ~cancelled
          /\ folders' = Added(missing[j]) /\ uploaded' = uploaded \cup {j}
          /\ UNCHANGED err
       \/ /\ MayFail /\ Failed(j) /\ UNCHANGED uploaded
          /\ folders' \in {folders, Added(missing[j])}
    /\ Return(j)
    /\ missing' = [missing EXCEPT ![j] = {}]
    /\ UNCHANGED <<mainVars, told, status, results, sem, cancelled, up>>

\* Mutant of Restart: the deferred function hides the error of the backup.
RestartHidesError(j) ==
    /\ pc[j] = "restart"
    /\ \/ ~cancelled /\ up' = up \cup {Container(j)} /\ UNCHANGED told
       \/ MayFail /\ told' = [told EXCEPT ![j] = {"restart"}] /\ UNCHANGED up
    /\ err' = [err EXCEPT ![j] = FALSE]
    /\ Goto(j, "record")
    /\ UNCHANGED <<mainVars, missing, uploaded, status, results, sem, cancelled,
                   folders>>

\* Mutant of Restart: the error of the deferred start is thrown away.
RestartSilently(j) ==
    /\ pc[j] = "restart"
    /\ \/ ~cancelled /\ up' = up \cup {Container(j)}
       \/ MayFail /\ UNCHANGED up
    /\ Goto(j, "record")
    /\ UNCHANGED <<mainVars, missing, uploaded, err, told, status, results, sem,
                   cancelled, folders>>

(* n8n's deferred docker start. Its failure is added to the error, or to   *)
(* the status as a warning; it does not make the backup a failed one.      *)
Restart(j) ==
    /\ pc[j] = "restart"
    /\ \/ ~cancelled /\ up' = up \cup {Container(j)} /\ UNCHANGED told
       \/ /\ MayFail /\ told' = [told EXCEPT ![j] = {"restart"}]
          /\ up' \in {up, IF cancelled THEN up ELSE up \cup {Container(j)}}
    /\ Goto(j, "record")
    /\ UNCHANGED <<mainVars, missing, uploaded, err, status, results, sem,
                   cancelled, folders>>

\* Mutant of Finish: a failed job's token is not given back.
FinishKeepsToken(j) ==
    /\ pc[j] = "record"
    /\ status' = [status EXCEPT ![j] = IF err[j] THEN "failed" ELSE "success"]
    /\ results' = [results EXCEPT ![j] = IF err[j] THEN "error" ELSE "ok"]
    /\ Goto(j, "finished") /\ sem' = IF err[j] THEN sem ELSE sem - 1
    /\ UNCHANGED <<mainVars, missing, uploaded, err, told, cancelled, up, folders>>

\* Mutant of OpenExport: what the container has is taken if it is there.
ExportIfAbsent(j) ==
    /\ pc[j] = "begin" /\ IsRabbit(j)
    /\ \/ /\ ~cancelled
          /\ IF export[Container(j)] = "none"
             THEN export' = [export EXCEPT ![Container(j)] = "part"] /\ Goto(j, "export")
             ELSE Goto(j, "cp") /\ UNCHANGED export
          /\ UNCHANGED err
       \/ MayFail /\ Failed(j) /\ Return(j) /\ UNCHANGED export
    /\ UNCHANGED archived

(* rabbitmq: `rabbitmqctl export_definitions` opens the file, the path of  *)
(* which is the same for every job.                                        *)
OpenExport(j) ==
    /\ pc[j] = "begin" /\ IsRabbit(j)
    /\ \/ /\ ~cancelled /\ Goto(j, "export") /\ UNCHANGED err
          /\ export' = [export EXCEPT ![Container(j)] = "part"]
       \/ MayFail /\ Failed(j) /\ Return(j) /\ UNCHANGED export
    /\ UNCHANGED archived

(* It writes it; in the container, it may do so even if docker exec is     *)
(* killed.                                                                 *)
WriteExport(j) ==
    LET written == [export EXCEPT ![Container(j)] = "whole"]
    IN  /\ pc[j] = "export"
        /\ \/ ~cancelled /\ export' = written /\ Goto(j, "cp") /\ UNCHANGED err
           \/ MayFail /\ export' \in {export, written} /\ Failed(j) /\ Return(j)
        /\ UNCHANGED archived

(* docker cp, ReadFile and GzipToFile, of whatever the file holds by now.  *)
CopyExport(j) ==
    /\ pc[j] = "cp"
    /\ \/ /\ ~cancelled /\ export[Container(j)] # "none"
          /\ archived' = [archived EXCEPT ![j] = export[Container(j)]]
          /\ Goto(j, "look") /\ UNCHANGED err
       \/ /\ MayFail \/ export[Container(j)] = "none"
          /\ Failed(j) /\ Return(j) /\ UNCHANGED archived
    /\ UNCHANGED export

(* The deferred `rm -f`, whose error nobody looks at. *)
RemoveExport(j) ==
    /\ pc[j] = "remove" /\ Goto(j, "record")
    /\ \/ ~cancelled /\ export' = [export EXCEPT ![Container(j)] = "none"]
       \/ MayFail /\ UNCHANGED export
    /\ UNCHANGED <<err, archived>>

Broker(j) ==
    /\ OpenExport(j) \/ WriteExport(j) \/ CopyExport(j) \/ RemoveExport(j)
    /\ UNCHANGED <<mainVars, missing, uploaded, told, status, results, sem, cancelled,
                   up, folders>>

(* RunAndRecord's status, the result at the job's own index, and the token *)
(* goes back to the semaphore.                                             *)
Finish(j) ==
    /\ pc[j] = "record"
    /\ status' = [status EXCEPT ![j] = IF err[j] THEN "failed" ELSE "success"]
    /\ results' = [results EXCEPT ![j] = IF err[j] THEN "error" ELSE "ok"]
    /\ Goto(j, "finished") /\ sem' = sem - 1
    /\ UNCHANGED <<mainVars, missing, uploaded, err, told, cancelled, up, folders>>
-----------------------------------------------------------------------------
(* SIGINT or SIGTERM reaches the command. *)
Cancel ==
    /\ ~cancelled /\ exit = "none"
    /\ cancelled' = TRUE
    /\ UNCHANGED <<mainVars, jobVars, sem, up, folders, brokerVars>>

Main ==
    /\ Prepare \/ Mkdir \/ Spawn \/ Wait \/ RecordResults
    /\ UNCHANGED brokerVars

Goroutine(j) ==
    \/ /\ \/ NoExecutor(j) \/ Stop(j) \/ Archive(j) \/ Look(j) \/ Upload(j) \/ Restart(j)
          \/ Finish(j)
       /\ UNCHANGED brokerVars
    \/ Broker(j)

Next == Main \/ (\E j \in Jobs : Goroutine(j)) \/ Cancel

Spec == Init /\ [][Next]_vars

(* The Go scheduler runs every goroutine that can run, and every docker or *)
(* rclone program ends, if only because it is killed. No signal must come. *)
FairSpec == Spec /\ WF_vars(Main) /\ \A j \in Jobs : WF_vars(Goroutine(j))
-----------------------------------------------------------------------------
Steps == {"waiting", "begin", "tar", "pack", "export", "cp", "look", "put", "restart",
          "remove", "record", "finished"}
InFlight == {j \in Jobs : pc[j] \notin {"waiting", "finished"}}
Over == exit # "none"

(* Types, and two facts that go with them: the loop index stays within the *)
(* list and one past it, and each executor does its own steps only.        *)
TypeOK ==
    /\ main \in {"prepare", "mkdir", "loop", "record", "done", "not recorded",
                 "aborted"}
    /\ toMake \subseteq UniqueRemoteDirs
    /\ next \in 1..(Len(JobList) + 1) /\ sem \in Int
    /\ pc \in [Jobs -> Steps] /\ cancelled \in BOOLEAN
    /\ \A j \in Jobs : /\ pc[j] \in {"tar", "restart"} => IsN8N(j)
                       /\ pc[j] \in {"export", "cp", "remove"} => IsRabbit(j)
                       /\ pc[j] = "pack" => Type(j) \in Streams
    /\ before \subseteq N8NContainers /\ up \subseteq N8NContainers
    /\ folders \in [Folder -> Nat] /\ missing \in [Jobs -> SUBSET Folder]
    /\ uploaded \subseteq Jobs /\ err \in [Jobs -> BOOLEAN]
    /\ told \in [Jobs -> SUBSET {"stop", "restart"}]
    /\ status \in [Jobs -> {"", "success", "failed"}]
    /\ results \in [Jobs -> {"none", "ok", "error"}]
    /\ manifest \in [Names -> {"old", "", "success", "failed"}]
    /\ exit \in {"none", "zero", "nonzero"}
    /\ export \in [Brokers -> Exports] /\ archived \in [Jobs -> Exports]

(* --parallel is kept: the semaphore's tokens are exactly the jobs in      *)
(* flight, never more than Parallel, and the loop has started exactly the  *)
(* jobs before `next` (runJobs takes the token before the goroutine).      *)
BoundedParallelism ==
    /\ sem = Cardinality(InFlight) /\ sem <= Parallel
    /\ \A j \in Jobs : pc[j] = "waiting" <=> j >= next

(* The archive of an n8n volume is never made while its container runs:    *)
(* "n8n keeps an open SQLite/queue state that isn't safe to tar live".     *)
(* It holds if no two jobs in flight share a container.                    *)
NotTarredLive ==
    \A j \in Jobs : IsN8N(j) /\ pc[j] = "tar" => Container(j) \notin up

(* A rabbitmq job that ends well has archived the definitions of this very *)
(* command, and all of them, whatever an earlier one that was interrupted  *)
(* has left in the container: the file is neither truncated nor removed    *)
(* under the copy. It holds if no two jobs in flight share a broker; two   *)
(* that do share the path as well.                                         *)
WholeDefinitions ==
    \A j \in Jobs : IsRabbit(j) /\ results[j] = "ok" => archived[j] = "whole"

(* A backup never takes a service down in silence: a container that ran    *)
(* before the command and is down after it has a job that says so, in its  *)
(* error or in its status, whatever failed or was cancelled.               *)
DownIsReported ==
    Over => \A c \in before \ up :
                \E j \in Jobs : IsN8N(j) /\ Container(j) = c /\ told[j] # {}

(* Goroutines that upload at the same time never create a folder twice:    *)
(* runBackup has created every destination before the first of them runs.  *)
NoDuplicateFolders == \A d \in Folder : folders[d] <= 1

(* What the command reports is what happened: exit status 0 means that     *)
(* every job's archive is on the remote, and a recorded success that the   *)
(* last job of that name put it there, whatever ended in which order.      *)
ReportIsTrue ==
    /\ exit = "zero" => uploaded = Jobs
    /\ main = "done" =>
        \A j \in Jobs :
            /\ \A i \in Jobs : JobList[i].name = JobList[j].name => i <= j
            /\ manifest[JobList[j].name] = "success"
            => j \in uploaded /\ results[j] = "ok"

(* The command ends, however the jobs fail: no token is lost and nobody    *)
(* waits for a goroutine that does not finish.                             *)
Termination == <>Over

(* A container that the command has stopped runs again at some time, or    *)
(* its job says that it could not be started.                              *)
ServiceReturns ==
    \A c \in N8NContainers :
        (c \in before \ up) ~> \/ c \in up
                               \/ \E j \in Jobs : Container(j) = c /\ told[j] # {}
-----------------------------------------------------------------------------
(* n8n's comment: "always restarting the container - even if the tar step  *)
(* failed - so a failed backup doesn't also leave the service down".       *)
(* Violated without any failure of docker: the deferred docker start uses  *)
(* the context whose cancellation made the tar fail.                       *)
AlwaysRestarted == Over => before \subseteq up
=============================================================================
