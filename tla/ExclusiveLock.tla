--------------------------- MODULE ExclusiveLock ---------------------------
(***************************************************************************)
(* What the workspace lock of internal/workspace/lock.go promises to the   *)
(* commands that take it: the lock is granted to one invocation at a time, *)
(* only its owner ever enters the workspace, and a lock whose owner died   *)
(* is granted to nobody (the crash-safe reading: a dead owner may have     *)
(* left the workspace half written, so a person has to look at it).        *)
(***************************************************************************)
CONSTANTS Proc,    \* dockvault invocations
          NoFile   \* the lock belongs to nobody

VARIABLES owner,   \* the invocation the lock was granted to, or NoFile
          inside   \* the invocations working in the workspace

lockVars == <<owner, inside>>

Init ==
    /\ owner = NoFile
    /\ inside = {}

(* The lock is free and p gets it. *)
Grant(p) ==
    /\ owner = NoFile
    /\ owner' = p
    /\ UNCHANGED inside

(* The owner starts to work. *)
Enter(p) ==
    /\ owner = p
    /\ inside' = {p}
    /\ UNCHANGED owner

(* The owner has finished and gives the lock back. *)
Release(p) ==
    /\ owner = p
    /\ inside = {p}
    /\ owner' = NoFile
    /\ inside' = {}

(* The owner dies at work: it is no longer inside, but its lock stays. *)
Die(p) ==
    /\ inside = {p}
    /\ inside' = {}
    /\ UNCHANGED owner

Next == \E p \in Proc : Grant(p) \/ Enter(p) \/ Release(p) \/ Die(p)

Spec == Init /\ [][Next]_lockVars
=============================================================================
