------------------------------ MODULE DayLock -------------------------------
(***************************************************************************)
(* The workspace lock of internal/workspace/lock.go as the commands of     *)
(* successive days see it. WorkspaceLock has its system calls one by one,  *)
(* with the race of two commands that reclaim it together; here Lock is    *)
(* one step, and time is counted in nights: a lock file taken before the   *)
(* last night began may have reached staleLockAge, and one taken before    *)
(* the last but one surely has.                                            *)
(***************************************************************************)
EXTENDS Naturals

VARIABLES
    night,   \* how many nights have begun, at the hour of the timer
    lock     \* the lock file: who created it, on which day, and if it still runs

lockVars == <<night, lock>>

NoLock == [by |-> "nobody", alive |-> FALSE, day |-> 0]

LockTypeOK ==
    /\ night \in Nat
    /\ lock \in [by : {"nobody", "setup", "backup"}, alive : BOOLEAN, day : Nat]

LockInit == night = 0 /\ lock = NoLock

\* The lock file of a command that was killed.
Abandoned == lock.by # "nobody" /\ ~lock.alive

\* Mutant of MayBeYoung: staleLockAge is two days.
YoungForDays == night <= lock.day + 2

\* staleLockAge is 24 hours, and so is a night, give or take some seconds.
MayBeYoung == night <= lock.day + 1
MayBeOld   == night > lock.day

(* Lock succeeds: on a free path, or over a dead process' old lock file.   *)
Lock(who) ==
    /\ lock.by = "nobody" \/ (Abandoned /\ MayBeOld)
    /\ lock' = [by |-> who, alive |-> TRUE, day |-> night]

(* The deferred unlock, on every return of the command. *)
Unlock == lock' = NoLock

(* The command is killed and its lock file stays. *)
Abandon == lock' = [lock EXCEPT !.alive = FALSE]
=============================================================================
