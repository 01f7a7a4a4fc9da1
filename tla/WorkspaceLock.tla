--------------------------- MODULE WorkspaceLock ---------------------------
(***************************************************************************)
(* The workspace lock of internal/workspace/lock.go: a file created with   *)
(* O_CREATE|O_EXCL, holding the PID of its creator, reclaimed when it is   *)
(* older than staleLockAge and its PID is not a live process.              *)
(*                                                                         *)
(* Every system call on the shared file is a step of its own, because      *)
(* nothing makes Lock's sequence of open, stat, read and remove atomic.    *)
(*                                                                         *)
(* An element of Proc is one invocation of dockvault (backup, restore or   *)
(* generate), that is one OS process with one PID. It creates at most one  *)
(* lock file, so p also names the inode p created: `file` is the inode the *)
(* path refers to, and an unlinked inode lives on under its creator's name.*)
(***************************************************************************)
EXTENDS Naturals, FiniteSets

CONSTANTS
    Proc,       \* invocations of dockvault
    NoFile,     \* no lock file (at the path, or in a stat result)
    MayAge,     \* TRUE: a lock file may reach staleLockAge (24 hours)
    PidProbe    \* TRUE: processAlive can tell (Unix); FALSE: never (Windows)

ASSUME LockAssumption ==
    /\ NoFile \notin Proc
    /\ MayAge \in BOOLEAN
    /\ PidProbe \in BOOLEAN

VARIABLES
    pc,         \* where each invocation is in Lock, or in its life
    file,       \* the inode at lockPath, or NoFile
    written,    \* inodes whose creator's PID has been written into them
    old,        \* inodes that have reached staleLockAge
    stat,       \* stat[p]: the inode p's os.Stat saw (info)
    recycled,   \* PIDs of dead invocations now used by unrelated processes
    robbed      \* history: inodes unlinked by another while in use

vars == <<pc, file, written, old, stat, recycled, robbed>>

Stages == {"idle", "exists", "stated", "remove", "retry", "created", "held",
           "done", "refused", "crashed"}

Running(p) == pc[p] \in {"exists", "stated", "remove", "retry", "created", "held"}
Owns(p)    == pc[p] \in {"created", "held"}
Holds(p)   == pc[p] = "held"

\* What processAlive reports of the PID written in inode i.
ProcessAlive(i) == PidProbe /\ (Running(i) \/ i \in recycled)

Goto(p, s) == pc' = [pc EXCEPT ![p] = s]

\* The file at the path goes away at the hands of p: its own, or another's.
Unlink(p) ==
    /\ file' = NoFile
    /\ robbed' = IF file # p /\ file # NoFile
                 THEN robbed \cup {i \in {file} : Owns(i)}
                 ELSE robbed

Init ==
    /\ pc = [p \in Proc |-> "idle"]
    /\ file = NoFile
    /\ written = {} /\ old = {} /\ recycled = {} /\ robbed = {}
    /\ stat = [p \in Proc |-> NoFile]
-----------------------------------------------------------------------------
\* Mutant of Open: without O_EXCL an existing file is no obstacle.
OpenOrTake(p, found) == file' = p /\ Goto(p, "created")

(* OpenFile(O_CREATE|O_EXCL): creates the file, empty, or finds one there. *)
Open(p, found) ==
    \/ /\ file = NoFile
       /\ file' = p
       /\ Goto(p, "created")
    \/ /\ file # NoFile
       /\ Goto(p, found)
       /\ UNCHANGED file

FirstOpen(p) ==
    /\ pc[p] = "idle"
    /\ Open(p, "exists")
    /\ UNCHANGED <<written, old, stat, recycled, robbed>>

\* Mutant of Stat: os.IsNotExist is not told apart.
StatIgnoresMissing(p) ==
    /\ pc[p] = "exists"
    /\ Goto(p, "stated")
    /\ stat' = [stat EXCEPT ![p] = file]
    /\ UNCHANGED <<file, written, old, recycled, robbed>>

(* stealStaleLock: os.Stat. A file that has gone meanwhile is no error. *)
Stat(p) ==
    /\ pc[p] = "exists"
    /\ \/ file = NoFile /\ Goto(p, "retry") /\ UNCHANGED stat
       \/ /\ file # NoFile
          /\ Goto(p, "stated")
          /\ stat' = [stat EXCEPT ![p] = file]
    /\ UNCHANGED <<file, written, old, recycled, robbed>>

\* Mutants of Probe: a dead PID is enough; age is enough; an unreadable PID
\* counts as a live process.
ProbeIgnoresAge(p) ==
    /\ pc[p] = "stated"
    /\ Goto(p, IF file \in written /\ ProcessAlive(file) THEN "refused" ELSE "remove")
    /\ UNCHANGED <<file, written, old, stat, recycled, robbed>>

ProbeIgnoresPid(p) ==
    /\ pc[p] = "stated"
    /\ Goto(p, IF stat[p] \notin old THEN "refused" ELSE "remove")
    /\ UNCHANGED <<file, written, old, stat, recycled, robbed>>

ProbeUnreadableIsLive(p) ==
    /\ pc[p] = "stated"
    /\ LET live == file \notin written \/ ProcessAlive(file)
       IN  Goto(p, IF live \/ stat[p] \notin old THEN "refused" ELSE "remove")
    /\ UNCHANGED <<file, written, old, stat, recycled, robbed>>

(* stealStaleLock: read the PID from whatever is at the path by now, probe *)
(* it, then compare the age of the file that was stat'ed. An empty, an     *)
(* unreadable or a vanished file has no PID.                               *)
Probe(p) ==
    /\ pc[p] = "stated"
    /\ LET live == file \in written /\ ProcessAlive(file)
       IN  Goto(p, IF live \/ stat[p] \notin old THEN "refused" ELSE "remove")
    /\ UNCHANGED <<file, written, old, stat, recycled, robbed>>

(* stealStaleLock: os.Remove(path), an error if somebody was faster. *)
Remove(p) ==
    /\ pc[p] = "remove"
    /\ Goto(p, IF file = NoFile THEN "refused" ELSE "retry")
    /\ Unlink(p)
    /\ UNCHANGED <<written, old, stat, recycled>>

(* Lock: the second OpenFile, whose failure is final. *)
SecondOpen(p) ==
    /\ pc[p] = "retry"
    /\ Open(p, "refused")
    /\ UNCHANGED <<written, old, stat, recycled, robbed>>

(* Lock: Fprintf of the PID into the open file, wherever its inode is now; *)
(* its error is ignored, so the file may stay empty. Lock returns.         *)
WritePid(p) ==
    /\ pc[p] = "created"
    /\ written' \in {written, written \cup {p}}
    /\ Goto(p, "held")
    /\ UNCHANGED <<file, old, stat, recycled, robbed>>

(* The function Lock returned: os.Remove(path), whoever's file it is. *)
Unlock(p) ==
    /\ pc[p] = "held"
    /\ Goto(p, "done")
    /\ Unlink(p)
    /\ UNCHANGED <<written, old, stat, recycled>>
-----------------------------------------------------------------------------
(* SIGKILL or a power cut: no deferred unlock runs. *)
Crash(p) ==
    /\ Running(p)
    /\ Goto(p, "crashed")
    /\ UNCHANGED <<file, written, old, stat, recycled, robbed>>

(* The kernel gives the PID recorded in a dead invocation's file to an     *)
(* unrelated process, or that process exits again.                         *)
Recycle(p) ==
    /\ pc[p] \in {"done", "crashed"} /\ p \in written
    /\ recycled' = IF p \in recycled THEN recycled \ {p} ELSE recycled \cup {p}
    /\ UNCHANGED <<pc, file, written, old, stat, robbed>>

(* A lock file turns staleLockAge old. A living creator is not between     *)
(* open and Fprintf at that moment: those calls are not 24 hours apart.    *)
Age(i) ==
    /\ MayAge
    /\ i \in Proc \ old
    /\ i = file \/ \E p \in Proc : pc[p] = "stated" /\ stat[p] = i
    /\ pc[i] # "created"
    /\ old' = old \cup {i}
    /\ UNCHANGED <<pc, file, written, stat, recycled, robbed>>

Step(p) ==
    \/ Stat(p) \/ Probe(p) \/ Remove(p) \/ SecondOpen(p) \/ WritePid(p)
    \/ Unlock(p)

Next ==
    \E p \in Proc : FirstOpen(p) \/ Step(p) \/ Crash(p) \/ Recycle(p) \/ Age(p)

(* An invocation inside Lock, or holding the lock, keeps running; when one *)
(* is started, dies, ages or has its PID reused is up to the environment.  *)
Spec     == Init /\ [][Next]_vars
FairSpec == Spec /\ \A p \in Proc : WF_vars(Step(p))
-----------------------------------------------------------------------------
(* Types, and what each stage of Lock has in hand: an invocation past its  *)
(* stat has a file's info, and only a created file ages or holds a PID.    *)
TypeOK ==
    /\ pc \in [Proc -> Stages]
    /\ file \in Proc \cup {NoFile}
    /\ written \subseteq {p \in Proc : pc[p] \in {"held", "done", "crashed"}}
    /\ old \subseteq Proc /\ recycled \subseteq written /\ robbed \subseteq Proc
    /\ stat \in [Proc -> Proc \cup {NoFile}]
    /\ \A p \in Proc : pc[p] \in {"stated", "remove"} => stat[p] \in Proc

(* Two invocations never work in the workspace together: what              *)
(* lock.go:13-20 says the lock is for. It holds as long as no lock file    *)
(* reaches staleLockAge, whatever crashes and PID reuse there is.          *)
MutualExclusion == \A p, q \in Proc : Holds(p) /\ Holds(q) => p = q

(* With reclaiming, the only way to two holders is that somebody unlinked  *)
(* the file of an invocation still using it (by Remove, or by an Unlock    *)
(* that finds another's file): creation alone never admits a second one.   *)
(* Robberies do occur, contrary to "a clear error [...] rather than        *)
(* corrupting shared state": of two invocations that have examined the     *)
(* same abandoned file, the slower removes the faster one's new lock.      *)
ExclusionUnlessRobbed == robbed = {} => MutualExclusion

(* Where processAlive works, an invocation about to remove the very file   *)
(* it stat'ed never removes one that records a live owner. Every robbery   *)
(* thus needs the path to change between stat and remove, or a PID whose   *)
(* write failed.                                                           *)
NoTheftInPlainSight ==
    PidProbe =>
        \A p \in Proc : pc[p] = "remove" /\ file = stat[p] /\ file \in written
                        => ~Owns(file)

(* A lock left by a dead process does not outlive an attempt made once it  *)
(* is staleLockAge old: it goes, unless that attempt dies, or the dead     *)
(* owner's PID comes back to life under it.                                *)
Abandoned(i) == file = i /\ i \in old /\ ~ProcessAlive(i)

AbandonedLockReclaimed ==
    \A p, i \in Proc :
        (pc[p] = "exists" /\ Abandoned(i) /\ ~Running(i))
            ~> (file # i \/ pc[p] = "crashed" \/ i \in recycled)

(* Without reclaiming the file is exactly the abstract exclusive lock. *)
Abstract == INSTANCE ExclusiveLock
            WITH owner <- file, inside <- {p \in Proc : Holds(p)}

ImplementsExclusiveLock == Abstract!Spec
=============================================================================
