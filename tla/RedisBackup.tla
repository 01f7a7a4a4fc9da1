---------------------------- MODULE RedisBackup ----------------------------
(***************************************************************************)
(* Redis backups of one container at the same time: the executor of        *)
(* internal/backup/redis/redis.go (backup, lastSave, waitForSave), then    *)
(* UploadArchive, whose local copy is LocalCopies'. Twins arise from       *)
(* `backup --jobs a,a`.                                                    *)
(*                                                                         *)
(* The Redis server is external. It has one background save at a time,     *)
(* from a snapshot taken when it starts; other clients and its own save    *)
(* points start saves too. LASTSAVE is the second in which the last save   *)
(* ended. An error reply (a script that runs too long, too many clients)   *)
(* does not change redis-cli's exit status: it is a text like any other.   *)
(***************************************************************************)
EXTENDS LocalCopies

CONSTANTS
    MaxPolls,    \* maxPollAttempts
    MaxWrites    \* bound: changes of the dataset

ASSUME RedisAssumption == MaxPolls \in Nat /\ MaxWrites \in Nat

VARIABLES
    data,        \* the dataset, as the number of changes so far
    saving,      \* the snapshot that is being saved, or Idle
    dump,        \* the dataset in dump.rdb
    lastsave,    \* what LASTSAVE replies
    before,      \* before[g]: its reply before BGSAVE
    polls,       \* polls[g]: waitForSave's loop counter
    asked,       \* history: asked[g]: the dataset when g's backup began
    clouded      \* history: goroutines that saw another save under way or an
                 \* error reply, or whose server was restarted

serverVars == <<data, saving, dump, lastsave>>
askVars == <<before, polls, asked, clouded>>
vars == <<now, pc, name, snap, localVars, serverVars, askVars>>

Idle == -1

\* What redis-cli prints for LASTSAVE.
ErrorReply == -1
Replies == {lastsave, ErrorReply}

Init ==
    /\ now = Start
    /\ pc = [g \in Goroutine |-> "begin"] /\ LocalInit
    /\ data = 0 /\ dump = 0 /\ saving \in {Idle, 0} /\ lastsave \in 0..Start
    /\ before = [g \in Goroutine |-> 0] /\ polls = [g \in Goroutine |-> 0]
    /\ asked = [g \in Goroutine |-> 0] /\ clouded = {}
-----------------------------------------------------------------------------
\* The server and its other clients

Change ==
    /\ data < MaxWrites /\ data' = data + 1
    /\ UNCHANGED <<saving, dump, lastsave, clouded>>

\* A save point is reached, or another client asks for a save.
SaveBegins ==
    /\ saving = Idle /\ saving' = data
    /\ UNCHANGED <<data, dump, lastsave, clouded>>

(* The child process ends: dump.rdb is replaced, unless it has failed.     *)
SaveEnds ==
    /\ saving # Idle /\ saving' = Idle
    /\ \/ dump' = saving /\ lastsave' = now
       \/ UNCHANGED <<dump, lastsave>>
    /\ UNCHANGED <<data, clouded>>

(* A restart, after a crash or a shutdown that saves: LASTSAVE is then the *)
(* second of the start.                                                    *)
ServerRestarts ==
    /\ saving' = Idle /\ lastsave' = now /\ dump' \in {dump, data}
    /\ clouded' = Goroutine /\ UNCHANGED data

\* A backup still depends on the server, which is not followed any further.
Awaited == \E g \in Goroutine : pc[g] \in {"begin", "bgsave", "poll", "name", "cp"}

Server ==
    /\ Awaited
    /\ Change \/ SaveBegins \/ SaveEnds \/ ServerRestarts
    /\ UNCHANGED <<now, pc, name, snap, localVars, before, polls, asked>>
-----------------------------------------------------------------------------
\* The executor. Any of its calls may fail, the more so once SIGINT or SIGTERM
\* has cancelled the context.

Fail(g) == Goto(g, "failed")

(* lastSave before the request. *)
LastSave(g) ==
    /\ pc[g] = "begin"
    /\ \/ /\ Goto(g, "bgsave")
          /\ \E reply \in Replies :
              /\ before' = [before EXCEPT ![g] = reply]
              /\ clouded' = IF saving = Idle /\ reply = lastsave
                            THEN clouded \ {g} ELSE clouded \cup {g}
          /\ asked' = [asked EXCEPT ![g] = data]
       \/ Fail(g) /\ UNCHANGED <<before, asked, clouded>>
    /\ UNCHANGED <<now, name, snap, localVars, serverVars, polls>>

(* BGSAVE. Redis may refuse it, as it does while another save is running,  *)
(* and an exec that fails may have been obeyed.                            *)
BgSave(g) ==
    /\ pc[g] = "bgsave"
    /\ saving' \in {saving, IF saving = Idle THEN data ELSE saving}
    /\ Goto(g, "poll") \/ Fail(g)
    /\ UNCHANGED <<now, name, snap, localVars, data, dump, lastsave, askVars>>

\* waitForSave has returned: its counter and the reply it compared with are gone.
Leave(g, s) ==
    /\ Goto(g, s)
    /\ polls' = [polls EXCEPT ![g] = 0] /\ before' = [before EXCEPT ![g] = 0]

\* The attempt has found nothing new, or has failed.
Again(g) == polls' = [polls EXCEPT ![g] = @ + 1] /\ UNCHANGED <<pc, before, clouded>>

GiveUp(g) == Leave(g, "failed") /\ UNCHANGED clouded

\* `after != before`, of two texts; those of two errors may differ.
Differs(g) ==
    /\ Leave(g, "name")
    /\ \/ lastsave # before[g] /\ UNCHANGED clouded
       \/ clouded' = clouded \cup {g}

\* Mutant of Poll: after an attempt that failed, the count starts over.
PollStartsOver(g) ==
    /\ pc[g] = "poll" /\ polls[g] < MaxPolls
    /\ \/ Differs(g) \/ GiveUp(g)
       \/ lastsave = before[g] /\ Again(g)
       \/ polls' = [polls EXCEPT ![g] = 0] /\ UNCHANGED <<pc, before, clouded>>
    /\ UNCHANGED <<now, name, snap, localVars, serverVars, asked>>

\* Mutant of Poll: an attempt that failed is taken for a new reply.
PollErrorIsNew(g) ==
    /\ pc[g] = "poll" /\ polls[g] < MaxPolls
    /\ \/ Leave(g, "name") /\ UNCHANGED clouded
       \/ Again(g) \/ GiveUp(g)
    /\ UNCHANGED <<now, name, snap, localVars, serverVars, asked>>

\* Mutant of Poll: one attempt too many.
PollOnceMore(g) ==
    /\ pc[g] = "poll" /\ polls[g] <= MaxPolls
    /\ Differs(g) \/ Again(g) \/ GiveUp(g)
    /\ UNCHANGED <<now, name, snap, localVars, serverVars, asked>>

(* One turn of waitForSave's loop. An attempt that failed only counts; a   *)
(* context cancelled during the pause ends the loop.                       *)
Poll(g) ==
    /\ pc[g] = "poll" /\ polls[g] < MaxPolls
    /\ Differs(g) \/ Again(g) \/ GiveUp(g)
    /\ UNCHANGED <<now, name, snap, localVars, serverVars, asked>>

TimedOut(g) ==
    /\ pc[g] = "poll" /\ polls[g] = MaxPolls
    /\ GiveUp(g)
    /\ UNCHANGED <<now, name, snap, localVars, serverVars, asked>>

(* MkdirTemp and ArchiveFileName, which takes the time. *)
ArchiveFileName(g) ==
    /\ pc[g] = "name"
    /\ \/ Goto(g, "cp") /\ name' = [name EXCEPT ![g] = now]
       \/ Fail(g) /\ UNCHANGED name
    /\ UNCHANGED <<now, snap, localVars, serverVars, askVars>>

(* docker cp of dump.rdb, as it is then. *)
Cp(g) ==
    /\ pc[g] = "cp"
    /\ \/ Goto(g, Retain) /\ snap' = [snap EXCEPT ![g] = dump]
       \/ Fail(g) /\ UNCHANGED snap
    /\ UNCHANGED <<now, name, localVars, serverVars, askVars>>

(* UploadArchive keeps the local copy first, whatever the context says.    *)
RetainLocalCopy(g) ==
    CopyStep(g) /\ UNCHANGED <<now, serverVars, askVars>>

(* The rest of UploadArchive, which BackupPipeline has in detail. *)
Upload(g) ==
    /\ pc[g] = "upload"
    /\ Goto(g, "success") \/ Fail(g)
    /\ UNCHANGED <<now, name, snap, localVars, serverVars, askVars>>
-----------------------------------------------------------------------------
Time ==
    /\ Tick
    /\ UNCHANGED <<pc, name, snap, localVars, serverVars, askVars>>

Step(g) ==
    \/ LastSave(g) \/ BgSave(g) \/ Poll(g) \/ TimedOut(g)
    \/ ArchiveFileName(g) \/ Cp(g) \/ RetainLocalCopy(g) \/ Upload(g)

Next == (\E g \in Goroutine : Step(g)) \/ Server \/ Time

Spec == Init /\ [][Next]_vars

(* Every docker call ends and every goroutine that can run does. Neither   *)
(* the server nor a signal nor the clock has to do anything.               *)
FairSpec == Spec /\ \A g \in Goroutine : WF_vars(Step(g))
-----------------------------------------------------------------------------
Steps == {"begin", "bgsave", "poll", "name", "cp", "open", "write", "list", "prune",
          "upload", "success", "failed"}

ServerTypeOK ==
    /\ data \in Nat /\ dump \in Nat /\ saving \in Nat \cup {Idle} /\ lastsave \in Nat

AskTypeOK ==
    /\ before \in [Goroutine -> Nat \cup {ErrorReply}] /\ polls \in [Goroutine -> 0..MaxPolls]
    /\ asked \in [Goroutine -> Nat] /\ clouded \subseteq Goroutine

TypeOK ==
    /\ now \in Nat
    /\ pc \in [Goroutine -> Steps]
    /\ LocalTypeOK /\ ServerTypeOK /\ AskTypeOK

\* Past the docker cp.
HasDump(g) == pc[g] \in {"open", "write", "list", "prune", "upload", "success"}

(* "poll LASTSAVE until it advances, then docker cp the resulting dump.rdb *)
(* out": what a backup archives is at least as new as the dataset was when *)
(* the backup began, whoever else saves, fails to save or delays, unless a *)
(* save was already under way then (its end is taken for that of the       *)
(* requested one), a LASTSAVE was answered with an error (its text differs *)
(* from a number), or the server was restarted meanwhile.                  *)
SnapshotIsFresh ==
    \A g \in Goroutine : HasDump(g) /\ g \notin clouded => snap[g] >= asked[g]

(* A backup ends, even if no save ever does and every poll fails.          *)
Termination == \A g \in Goroutine : <>(pc[g] \in {"success", "failed"})
=============================================================================
