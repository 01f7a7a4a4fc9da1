-------------------------- MODULE ReclaimableLock --------------------------
(***************************************************************************)
(* What the workspace lock of internal/workspace/lock.go is meant to be    *)
(* with staleLockAge: the exclusive lock of ExclusiveLock, but for a lock  *)
(* whose owner has died, which may be taken from it. Whoever is at work    *)
(* keeps the lock until it gives it back or dies.                          *)
(***************************************************************************)
CONSTANTS Proc,    \* dockvault invocations
          NoFile   \* the lock belongs to nobody

VARIABLES owner,   \* the invocation the lock was granted to, or NoFile
          inside,  \* the invocations working in the workspace
          dead     \* the invocations that have died

lockVars == <<owner, inside, dead>>

Init == owner = NoFile /\ inside = {} /\ dead = {}

(* The lock is free and p gets it. *)
Grant(p) ==
    /\ owner = NoFile /\ p \notin dead
    /\ owner' = p
    /\ UNCHANGED <<inside, dead>>

(* The owner starts to work, and nobody else is at work. *)
Enter(p) ==
    /\ owner = p /\ p \notin dead /\ inside = {}
    /\ inside' = {p}
    /\ UNCHANGED <<owner, dead>>

(* The owner has finished and gives the lock back. *)
Release(p) ==
    /\ owner = p /\ inside = {p}
    /\ owner' = NoFile /\ inside' = {}
    /\ UNCHANGED dead

(* An invocation dies, at work or not; a lock it has stays behind. *)
Die(p) ==
    /\ p \notin dead
    /\ dead' = dead \cup {p} /\ inside' = inside \ {p}
    /\ UNCHANGED owner

(* The lock is taken from a dead owner, and from nobody else. *)
Reclaim ==
    /\ owner \in dead
    /\ owner' = NoFile
    /\ UNCHANGED <<inside, dead>>

Next == (\E p \in Proc : Grant(p) \/ Enter(p) \/ Release(p) \/ Die(p)) \/ Reclaim

Spec == Init /\ [][Next]_lockVars
=============================================================================
