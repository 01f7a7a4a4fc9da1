------------------------ MODULE WorkspaceLockProofs ------------------------
(***************************************************************************)
(* What WorkspaceLock guarantees for any number of invocations.            *)
(***************************************************************************)
EXTENDS WorkspaceLock, TLAPS

(* An invocation that has created a file has left the part of Lock that    *)
(* could create one for good, so its name is never reused for an inode.    *)
HasCreated(p) == pc[p] \in {"created", "held", "done", "crashed"}

Lineage ==
    /\ file # NoFile => HasCreated(file)
    /\ \A p \in Proc : stat[p] # NoFile => HasCreated(stat[p])
    /\ \A p \in old : HasCreated(p) /\ pc[p] # "created"
    /\ \A p \in Proc : pc[p] = "remove" => stat[p] \in old

(* As long as nobody was robbed, whoever owns the lock owns the file. *)
OwnerHasFile == robbed = {} => \A p \in Proc : Owns(p) => file = p

(* Without ageing nobody reaches os.Remove, so nobody is ever robbed. *)
NoReclaim == ~MayAge => old = {} /\ robbed = {}

IInv == TypeOK /\ Lineage /\ OwnerHasFile /\ NoReclaim /\ NoTheftInPlainSight
-----------------------------------------------------------------------------
LEMMA InitIInv == Init => IInv
BY LockAssumption
   DEF Init, IInv, TypeOK, Lineage, OwnerHasFile, NoReclaim, NoTheftInPlainSight,
       Stages, Owns

(* Every step of Lock, of a crash and of the environment preserves the     *)
(* types of the state. *)
LEMMA TypeStep == ASSUME TypeOK, [Next]_vars PROVE TypeOK'
<1> USE LockAssumption DEF TypeOK, Stages, Goto
<1>1. ASSUME NEW p \in Proc, FirstOpen(p) PROVE TypeOK'
  BY <1>1 DEF FirstOpen, Open
<1>2. ASSUME NEW p \in Proc, Stat(p) PROVE TypeOK'
  BY <1>2 DEF Stat
<1>3. ASSUME NEW p \in Proc, Probe(p) PROVE TypeOK'
  BY <1>3 DEF Probe
<1>4. ASSUME NEW p \in Proc, Remove(p) PROVE TypeOK'
  BY <1>4 DEF Remove, Unlink
<1>5. ASSUME NEW p \in Proc, SecondOpen(p) PROVE TypeOK'
  BY <1>5 DEF SecondOpen, Open
<1>6. ASSUME NEW p \in Proc, WritePid(p) PROVE TypeOK'
  BY <1>6 DEF WritePid
<1>7. ASSUME NEW p \in Proc, Unlock(p) PROVE TypeOK'
  BY <1>7 DEF Unlock, Unlink
<1>8. ASSUME NEW p \in Proc, Crash(p) PROVE TypeOK'
  BY <1>8 DEF Crash, Running
<1>9. ASSUME NEW p \in Proc, Recycle(p) PROVE TypeOK'
  BY <1>9 DEF Recycle
<1>10. ASSUME NEW p \in Proc, Age(p) PROVE TypeOK'
  BY <1>10 DEF Age
<1>11. ASSUME UNCHANGED vars PROVE TypeOK'
  BY <1>11 DEF vars
<1>12. QED
  BY <1>1, <1>2, <1>3, <1>4, <1>5, <1>6, <1>7, <1>8, <1>9, <1>10, <1>11
     DEF Next, Step

(* An invocation never returns to the part of Lock that creates files. *)
LEMMA LineageStep ==
    ASSUME TypeOK, Lineage, [Next]_vars PROVE Lineage'
<1> USE LockAssumption DEF TypeOK, Stages, Goto, Lineage, HasCreated
<1>1. ASSUME NEW p \in Proc, FirstOpen(p) PROVE Lineage'
  BY <1>1 DEF FirstOpen, Open
<1>2. ASSUME NEW p \in Proc, Stat(p) PROVE Lineage'
  BY <1>2 DEF Stat
<1>3. ASSUME NEW p \in Proc, Probe(p) PROVE Lineage'
  BY <1>3 DEF Probe
<1>4. ASSUME NEW p \in Proc, Remove(p) PROVE Lineage'
  BY <1>4 DEF Remove, Unlink
<1>5. ASSUME NEW p \in Proc, SecondOpen(p) PROVE Lineage'
  BY <1>5 DEF SecondOpen, Open
<1>6. ASSUME NEW p \in Proc, WritePid(p) PROVE Lineage'
  BY <1>6 DEF WritePid
<1>7. ASSUME NEW p \in Proc, Unlock(p) PROVE Lineage'
  BY <1>7 DEF Unlock, Unlink
<1>8. ASSUME NEW p \in Proc, Crash(p) PROVE Lineage'
  BY <1>8 DEF Crash, Running
<1>9. ASSUME NEW p \in Proc, Recycle(p) PROVE Lineage'
  BY <1>9 DEF Recycle
<1>10. ASSUME NEW p \in Proc, Age(p) PROVE Lineage'
  BY <1>10 DEF Age
<1>11. ASSUME UNCHANGED vars PROVE Lineage'
  BY <1>11 DEF vars
<1>12. QED
  BY <1>1, <1>2, <1>3, <1>4, <1>5, <1>6, <1>7, <1>8, <1>9, <1>10, <1>11
     DEF Next, Step

(* O_EXCL creates a file only where there is none, hence where nobody owns *)
(* the lock; and nothing but an unlink moves the path away from an owner.  *)
LEMMA OwnerStep ==
    ASSUME TypeOK, Lineage, OwnerHasFile, [Next]_vars PROVE OwnerHasFile'
<1> USE LockAssumption DEF TypeOK, Stages, Goto, OwnerHasFile, Owns
<1>1. ASSUME NEW p \in Proc, FirstOpen(p) PROVE OwnerHasFile'
  BY <1>1 DEF FirstOpen, Open
<1>2. ASSUME NEW p \in Proc, Stat(p) PROVE OwnerHasFile'
  BY <1>2 DEF Stat
<1>3. ASSUME NEW p \in Proc, Probe(p) PROVE OwnerHasFile'
  BY <1>3 DEF Probe
<1>4. ASSUME NEW p \in Proc, Remove(p) PROVE OwnerHasFile'
  BY <1>4 DEF Remove, Unlink
<1>5. ASSUME NEW p \in Proc, SecondOpen(p) PROVE OwnerHasFile'
  BY <1>5 DEF SecondOpen, Open
<1>6. ASSUME NEW p \in Proc, WritePid(p) PROVE OwnerHasFile'
  BY <1>6 DEF WritePid
<1>7. ASSUME NEW p \in Proc, Unlock(p) PROVE OwnerHasFile'
  BY <1>7 DEF Unlock, Unlink
<1>8. ASSUME NEW p \in Proc, Crash(p) PROVE OwnerHasFile'
  BY <1>8 DEF Crash, Running
<1>9. ASSUME NEW p \in Proc, Recycle(p) PROVE OwnerHasFile'
  BY <1>9 DEF Recycle
<1>10. ASSUME NEW p \in Proc, Age(p) PROVE OwnerHasFile'
  BY <1>10 DEF Age
<1>11. ASSUME UNCHANGED vars PROVE OwnerHasFile'
  BY <1>11 DEF vars
<1>12. QED
  BY <1>1, <1>2, <1>3, <1>4, <1>5, <1>6, <1>7, <1>8, <1>9, <1>10, <1>11
     DEF Next, Step
(* A file younger than staleLockAge is never removed by Remove, and an     *)
(* Unlock by somebody who was not robbed removes its own file.             *)
LEMMA NoReclaimStep ==
    ASSUME TypeOK, Lineage, OwnerHasFile, NoReclaim, [Next]_vars
    PROVE  NoReclaim'
<1> USE LockAssumption DEF TypeOK, Stages, Goto, NoReclaim
<1>1. ASSUME NEW p \in Proc, FirstOpen(p) PROVE NoReclaim'
  BY <1>1 DEF FirstOpen, Open
<1>2. ASSUME NEW p \in Proc, Stat(p) PROVE NoReclaim'
  BY <1>2 DEF Stat
<1>3. ASSUME NEW p \in Proc, Probe(p) PROVE NoReclaim'
  BY <1>3 DEF Probe
<1>4. ASSUME NEW p \in Proc, Remove(p) PROVE NoReclaim'
  BY <1>4 DEF Remove, Unlink, Lineage
<1>5. ASSUME NEW p \in Proc, SecondOpen(p) PROVE NoReclaim'
  BY <1>5 DEF SecondOpen, Open
<1>6. ASSUME NEW p \in Proc, WritePid(p) PROVE NoReclaim'
  BY <1>6 DEF WritePid
<1>7. ASSUME NEW p \in Proc, Unlock(p) PROVE NoReclaim'
  BY <1>7 DEF Unlock, Unlink, OwnerHasFile, Owns
<1>8. ASSUME NEW p \in Proc, Crash(p) PROVE NoReclaim'
  BY <1>8 DEF Crash, Running
<1>9. ASSUME NEW p \in Proc, Recycle(p) PROVE NoReclaim'
  BY <1>9 DEF Recycle
<1>10. ASSUME NEW p \in Proc, Age(p) PROVE NoReclaim'
  BY <1>10 DEF Age
<1>11. ASSUME UNCHANGED vars PROVE NoReclaim'
  BY <1>11 DEF vars
<1>12. QED
  BY <1>1, <1>2, <1>3, <1>4, <1>5, <1>6, <1>7, <1>8, <1>9, <1>10, <1>11
     DEF Next, Step

(* Probe lets p go on to Remove only if the PID it read is dead, and a dead *)
(* owner owns nothing afterwards; a PID is written before its file is old.  *)
LEMMA TheftStep ==
    ASSUME TypeOK, Lineage, NoTheftInPlainSight, [Next]_vars
    PROVE  NoTheftInPlainSight'
<1> USE LockAssumption DEF TypeOK, Stages, Goto, NoTheftInPlainSight, Owns
<1>1. ASSUME NEW p \in Proc, FirstOpen(p) PROVE NoTheftInPlainSight'
  BY <1>1 DEF FirstOpen, Open, Lineage, HasCreated
<1>2. ASSUME NEW p \in Proc, Stat(p) PROVE NoTheftInPlainSight'
  BY <1>2 DEF Stat
<1>3. ASSUME NEW p \in Proc, Probe(p) PROVE NoTheftInPlainSight'
  BY <1>3 DEF Probe, ProcessAlive, Running
<1>4. ASSUME NEW p \in Proc, Remove(p) PROVE NoTheftInPlainSight'
  BY <1>4 DEF Remove, Unlink
<1>5. ASSUME NEW p \in Proc, SecondOpen(p) PROVE NoTheftInPlainSight'
  BY <1>5 DEF SecondOpen, Open, Lineage, HasCreated
<1>6. ASSUME NEW p \in Proc, WritePid(p) PROVE NoTheftInPlainSight'
  BY <1>6 DEF WritePid, Lineage
<1>7. ASSUME NEW p \in Proc, Unlock(p) PROVE NoTheftInPlainSight'
  BY <1>7 DEF Unlock, Unlink
<1>8. ASSUME NEW p \in Proc, Crash(p) PROVE NoTheftInPlainSight'
  BY <1>8 DEF Crash, Running
<1>9. ASSUME NEW p \in Proc, Recycle(p) PROVE NoTheftInPlainSight'
  BY <1>9 DEF Recycle
<1>10. ASSUME NEW p \in Proc, Age(p) PROVE NoTheftInPlainSight'
  BY <1>10 DEF Age
<1>11. ASSUME UNCHANGED vars PROVE NoTheftInPlainSight'
  BY <1>11 DEF vars
<1>12. QED
  BY <1>1, <1>2, <1>3, <1>4, <1>5, <1>6, <1>7, <1>8, <1>9, <1>10, <1>11
     DEF Next, Step
-----------------------------------------------------------------------------
(* IInv is inductive, so it holds throughout every behaviour. *)
THEOREM Invariance == Spec => []IInv
<1>1. IInv /\ [Next]_vars => IInv'
  BY TypeStep, LineageStep, OwnerStep, NoReclaimStep, TheftStep DEF IInv
<1>2. QED
  BY InitIInv, <1>1, PTL DEF Spec

(* The state always has its types (TypeOK of lock.go's model). *)
THEOREM TypeCorrect == Spec => []TypeOK
<1>1. IInv => TypeOK
  BY DEF IInv
<1>2. QED
  BY Invariance, <1>1, PTL

(* Whatever ages, crashes or is reclaimed, and for any number of           *)
(* invocations: two of them are at work together only after somebody       *)
(* unlinked a lock file in use.                                            *)
THEOREM ExclusionSafe == Spec => []ExclusionUnlessRobbed
<1>1. IInv => ExclusionUnlessRobbed
  BY DEF IInv, ExclusionUnlessRobbed, OwnerHasFile, MutualExclusion, Holds, Owns
<1>2. QED
  BY Invariance, <1>1, PTL

(* While no lock file reaches staleLockAge, no two invocations are ever at *)
(* work together, on any platform and through any crashes.                 *)
THEOREM MutualExclusionWithinADay ==
    ASSUME ~MayAge
    PROVE  Spec => []MutualExclusion
<1>1. IInv => MutualExclusion
  BY DEF IInv, NoReclaim, OwnerHasFile, MutualExclusion, Holds, Owns
<1>2. QED
  BY Invariance, <1>1, PTL

(* On a platform where processAlive works, stealStaleLock never removes    *)
(* the file it inspected if that file records a live owner.                *)
THEOREM NoVisibleTheft == Spec => []NoTheftInPlainSight
<1>1. IInv => NoTheftInPlainSight
  BY DEF IInv
<1>2. QED
  BY Invariance, <1>1, PTL
-----------------------------------------------------------------------------
(* The invocations at work, the `inside` of the abstract lock. *)
AtWork == {p \in Proc : Holds(p)}

(* A step that neither creates, takes, gives back nor abandons the lock is *)
(* a stuttering step of the abstract lock.                                 *)
LEMMA AbstractStutter ==
    ASSUME file' = file, AtWork' = AtWork
    PROVE  [Abstract!Next]_(Abstract!lockVars)
BY DEF Abstract!lockVars, AtWork

(* While no lock file reaches staleLockAge, every step of Lock, Unlock and *)
(* of a crash is a step of the abstract exclusive lock, or stutters.       *)
LEMMA AbstractStep ==
    ASSUME IInv, ~MayAge, [Next]_vars
    PROVE  [Abstract!Next]_(Abstract!lockVars)
<1> USE LockAssumption DEF TypeOK, Goto, Holds, IInv, AtWork
<1>own. \A p \in Proc : Owns(p) => file = p
  BY DEF NoReclaim, OwnerHasFile
<1>1. ASSUME NEW p \in Proc, FirstOpen(p) \/ SecondOpen(p)
      PROVE  [Abstract!Next]_(Abstract!lockVars)
  <2>1. AtWork' = AtWork
    BY <1>1 DEF FirstOpen, SecondOpen, Open
  <2>2. CASE file = NoFile
    <3>1. Abstract!Grant(p)
      BY <1>1, <2>1, <2>2 DEF FirstOpen, SecondOpen, Open, Abstract!Grant
    <3>2. QED
      BY <3>1 DEF Abstract!Next
  <2>3. CASE file # NoFile
    BY <1>1, <2>1, <2>3, AbstractStutter DEF FirstOpen, SecondOpen, Open
  <2>4. QED
    BY <2>2, <2>3
<1>2. ASSUME NEW p \in Proc, Stat(p) \/ Probe(p)
      PROVE  [Abstract!Next]_(Abstract!lockVars)
  <2>1. AtWork' = AtWork /\ file' = file
    BY <1>2 DEF Stat, Probe
  <2>2. QED
    BY <2>1, AbstractStutter
<1>3. ASSUME NEW p \in Proc, Remove(p)
      PROVE  [Abstract!Next]_(Abstract!lockVars)
  BY <1>3 DEF Remove, Lineage, NoReclaim
<1>4. ASSUME NEW p \in Proc, WritePid(p)
      PROVE  [Abstract!Next]_(Abstract!lockVars)
  <2>1. file = p /\ file' = file
    BY <1>4, <1>own DEF WritePid, Owns
  <2>2. AtWork' = {p}
    BY <1>4, <1>own DEF WritePid, Owns
  <2>3. Abstract!Enter(p)
    BY <2>1, <2>2 DEF Abstract!Enter
  <2>4. QED
    BY <2>3 DEF Abstract!Next
<1>5. ASSUME NEW p \in Proc, Unlock(p)
      PROVE  [Abstract!Next]_(Abstract!lockVars)
  <2>1. file = p /\ file' = NoFile
    BY <1>5, <1>own DEF Unlock, Unlink, Owns
  <2>2. AtWork = {p} /\ AtWork' = {}
    BY <1>5, <1>own DEF Unlock, Owns
  <2>3. Abstract!Release(p)
    BY <2>1, <2>2 DEF Abstract!Release
  <2>4. QED
    BY <2>3 DEF Abstract!Next
<1>6. ASSUME NEW p \in Proc, Crash(p)
      PROVE  [Abstract!Next]_(Abstract!lockVars)
  <2>1. file' = file
    BY <1>6 DEF Crash
  <2>2. CASE pc[p] = "held"
    <3>1. AtWork = {p} /\ AtWork' = {}
      BY <1>6, <2>2, <1>own DEF Crash, Owns
    <3>2. Abstract!Die(p)
      BY <2>1, <3>1 DEF Abstract!Die
    <3>3. QED
      BY <3>2 DEF Abstract!Next
  <2>3. CASE pc[p] # "held"
    <3>1. AtWork' = AtWork
      BY <1>6, <2>3 DEF Crash
    <3>2. QED
      BY <2>1, <3>1, AbstractStutter
  <2>4. QED
    BY <2>2, <2>3
<1>7. ASSUME NEW p \in Proc, Recycle(p) \/ Age(p)
      PROVE  [Abstract!Next]_(Abstract!lockVars)
  <2>1. AtWork' = AtWork /\ file' = file
    BY <1>7 DEF Recycle, Age
  <2>2. QED
    BY <2>1, AbstractStutter
<1>8. ASSUME UNCHANGED vars
      PROVE  [Abstract!Next]_(Abstract!lockVars)
  <2>1. AtWork' = AtWork /\ file' = file
    BY <1>8 DEF vars
  <2>2. QED
    BY <2>1, AbstractStutter
<1>9. QED
  BY <1>1, <1>2, <1>3, <1>4, <1>5, <1>6, <1>7, <1>8 DEF Next, Step

(* While no lock file reaches staleLockAge, the lock file implements the   *)
(* abstract exclusive lock: one owner at a time, and never a new owner     *)
(* after a dead one.                                                       *)
THEOREM LockIsExclusive ==
    ASSUME ~MayAge
    PROVE  Spec => ImplementsExclusiveLock
<1>1. Init => Abstract!Init
  BY DEF Init, Abstract!Init, Holds
<1>2. IInv /\ [Next]_vars => [Abstract!Next]_(Abstract!lockVars)
  BY AbstractStep
<1>3. QED
  BY <1>1, <1>2, Invariance, PTL
     DEF Spec, ImplementsExclusiveLock, Abstract!Spec
-----------------------------------------------------------------------------
(* The first robbery is always the work of a reclaimer, on which the path  *)
(* has changed since its stat, or which could not read or probe the PID:   *)
(* an Unlock robs only after somebody has robbed the one who unlocks.      *)
RobberyNeedsRace ==
    [][robbed = {} /\ robbed' # {} =>
          \E p \in Proc :
              /\ pc[p] = "remove" /\ robbed' = {file} /\ Owns(file)
              /\ file # stat[p] \/ file \notin written \/ ~PidProbe]_vars

THEOREM RobberyExplained == Spec => RobberyNeedsRace
<1> DEFINE Race ==
        robbed = {} /\ robbed' # {} =>
            \E p \in Proc :
                /\ pc[p] = "remove" /\ robbed' = {file} /\ Owns(file)
                /\ file # stat[p] \/ file \notin written \/ ~PidProbe
<1>1. IInv /\ [Next]_vars => [Race]_vars
  <2> SUFFICES ASSUME IInv, Next, robbed = {}, robbed' # {} PROVE Race
    OBVIOUS
  <2>1. PICK p \in Proc : Remove(p) \/ Unlock(p)
    BY DEF Next, Step, FirstOpen, Stat, Probe, SecondOpen, WritePid, Crash, Recycle, Age
  <2>2. file \in Proc /\ file # p /\ robbed' = {file} /\ Owns(file)
    BY <2>1 DEF Remove, Unlock, Unlink, IInv, TypeOK
  <2>3. pc[p] = "remove"
    BY <2>1, <2>2 DEF Remove, Unlock, Owns, IInv, OwnerHasFile
  <2>4. file # stat[p] \/ file \notin written \/ ~PidProbe
    BY <2>2, <2>3 DEF IInv, NoTheftInPlainSight
  <2>5. QED
    BY <2>2, <2>3, <2>4
<1>2. QED
  BY <1>1, Invariance, PTL DEF Spec, RobberyNeedsRace
-----------------------------------------------------------------------------
(* Two things make reclaiming safe. Nobody is between its stat and the end *)
(* of its attempt while another invocation is about to remove a file; and  *)
(* a lock file turns staleLockAge old only after its owner has died.       *)
LoneReclaimer ==
    \A p, q \in Proc : pc[p] = "remove" /\ pc[q] \in {"stated", "remove"} => p = q

OnlyAbandonedAge == \A i \in old : pc[i] = "crashed"

\* Then what was stat'ed is at the path until its owner has given it back, and
\* what is about to be removed is the lock of a dead invocation.
Undisturbed ==
    /\ robbed = {}
    /\ \A p \in Proc : pc[p] = "stated" => file = stat[p] \/ pc[stat[p]] = "done"
    /\ \A p \in Proc : pc[p] = "remove" => file = stat[p] /\ pc[file] = "crashed"

LEMMA UndisturbedStep ==
    ASSUME IInv, Undisturbed, LoneReclaimer, OnlyAbandonedAge, [Next]_vars
    PROVE  Undisturbed'
<1> USE LockAssumption DEF IInv, TypeOK, Stages, Goto, Undisturbed
<1>own. \A p \in Proc : Owns(p) => file = p
  BY DEF OwnerHasFile
<1>1. ASSUME NEW p \in Proc, FirstOpen(p) \/ SecondOpen(p) PROVE Undisturbed'
  <2>1. CASE file = NoFile
    <3>1. pc' = [pc EXCEPT ![p] = "created"] /\ pc[p] \in {"idle", "retry"}
          /\ UNCHANGED <<stat, robbed>>
      BY <1>1, <2>1 DEF FirstOpen, SecondOpen, Open
    <3>2. \A q \in Proc : pc[q] = "stated" => pc[stat[q]] = "done"
      BY <2>1
    <3>3. \A q \in Proc : pc[q] # "remove"
      BY <2>1
    <3>4. QED
      BY <3>1, <3>2, <3>3
  <2>2. CASE file # NoFile
    <3>1. /\ pc' = [pc EXCEPT ![p] = "exists"] \/ pc' = [pc EXCEPT ![p] = "refused"]
          /\ pc[p] \in {"idle", "retry"} /\ UNCHANGED <<file, stat, robbed>>
      BY <1>1, <2>2 DEF FirstOpen, SecondOpen, Open
    <3>2. \A i \in Proc : pc[i] \in {"done", "crashed"} => pc'[i] = pc[i]
      BY <3>1
    <3>3. QED
      BY <2>2, <3>1, <3>2
  <2>3. QED
    BY <2>1, <2>2
<1>2. ASSUME NEW p \in Proc, Stat(p) PROVE Undisturbed'
  BY <1>2 DEF Stat
<1>3. ASSUME NEW p \in Proc, Probe(p) PROVE Undisturbed'
  <2>1. /\ pc[p] = "stated" /\ UNCHANGED <<file, stat, robbed>>
        /\ \/ pc' = [pc EXCEPT ![p] = "refused"]
           \/ pc' = [pc EXCEPT ![p] = "remove"] /\ stat[p] \in old
    BY <1>3 DEF Probe
  <2>2. stat[p] \in old => file = stat[p] /\ pc[stat[p]] = "crashed"
    BY <2>1 DEF OnlyAbandonedAge
  <2>3. \A i \in Proc : pc[i] \in {"done", "crashed"} => pc'[i] = pc[i]
    BY <2>1
  <2>4. QED
    BY <2>1, <2>2, <2>3
<1>4. ASSUME NEW p \in Proc, Remove(p) PROVE Undisturbed'
  <2>1. pc[p] = "remove" /\ pc[file] = "crashed"
    BY <1>4 DEF Remove
  <2>2. \A q \in Proc : pc[q] \in {"stated", "remove"} => q = p
    BY <2>1 DEF LoneReclaimer
  <2>3. robbed' = {} /\ UNCHANGED stat
    BY <1>4, <2>1 DEF Remove, Unlink, Owns
  <2>4. \A q \in Proc : pc'[q] \notin {"stated", "remove"}
    BY <1>4, <2>2 DEF Remove
  <2>5. QED
    BY <2>3, <2>4
<1>5. ASSUME NEW p \in Proc, WritePid(p) PROVE Undisturbed'
  BY <1>5 DEF WritePid
<1>6. ASSUME NEW p \in Proc, Unlock(p) PROVE Undisturbed'
  <2>1. file = p /\ pc[p] = "held"
    BY <1>6, <1>own DEF Unlock, Owns
  <2>2. robbed' = {} /\ UNCHANGED stat /\ pc' = [pc EXCEPT ![p] = "done"]
    BY <1>6, <2>1 DEF Unlock, Unlink
  <2>3. QED
    BY <2>1, <2>2
<1>7. ASSUME NEW p \in Proc, Crash(p) PROVE Undisturbed'
  BY <1>7 DEF Crash, Running
<1>8. ASSUME NEW p \in Proc, Recycle(p) \/ Age(p) PROVE Undisturbed'
  BY <1>8 DEF Recycle, Age
<1>9. ASSUME UNCHANGED vars PROVE Undisturbed'
  BY <1>9 DEF vars
<1>10. QED
  BY <1>1, <1>2, <1>3, <1>4, <1>5, <1>6, <1>7, <1>8, <1>9 DEF Next, Step

LEMMA UndisturbedThroughout ==
    Spec /\ [](LoneReclaimer /\ OnlyAbandonedAge) => [](IInv /\ Undisturbed)
<1>1. Init => Undisturbed
  BY DEF Init, Undisturbed
<1>2. IInv /\ Undisturbed /\ (LoneReclaimer /\ OnlyAbandonedAge) /\ [Next]_vars
      => Undisturbed'
  BY UndisturbedStep
<1>3. QED
  BY <1>1, <1>2, Invariance, PTL DEF Spec

(* With reclaiming, on any platform and through any crashes: as long as    *)
(* reclaimers do not overlap and no invocation works for staleLockAge, no  *)
(* two invocations are at work together. These are the assumptions that    *)
(* lock.go makes without saying so; without the first, the slower of two   *)
(* reclaimers unlinks the faster one's lock, and without the second, an    *)
(* owner may unlock, and another come, between a stat and a remove.        *)
THEOREM ExclusionWithReclaiming ==
    Spec /\ [](LoneReclaimer /\ OnlyAbandonedAge) => []MutualExclusion
<1>1. IInv /\ Undisturbed => MutualExclusion
  BY DEF IInv, Undisturbed, OwnerHasFile, MutualExclusion, Holds, Owns
<1>2. QED
  BY <1>1, UndisturbedThroughout, PTL
-----------------------------------------------------------------------------
(* The lock file, and the invocations that have died, as the abstract lock *)
(* that may be taken from a dead owner.                                    *)
Dead == {p \in Proc : pc[p] = "crashed"}
Reclaimable == INSTANCE ReclaimableLock WITH owner <- file, inside <- AtWork, dead <- Dead

LEMMA ReclaimableStep ==
    ASSUME IInv, Undisturbed, [Next]_vars
    PROVE  [Reclaimable!Next]_(Reclaimable!lockVars)
<1> USE LockAssumption DEF IInv, TypeOK, Goto, Stages, Holds, AtWork, Dead
<1>own. \A p \in Proc : Owns(p) => file = p
  BY DEF OwnerHasFile, Undisturbed
<1>s. ASSUME UNCHANGED <<file, AtWork, Dead>>
      PROVE  [Reclaimable!Next]_(Reclaimable!lockVars)
  BY <1>s DEF Reclaimable!lockVars
<1>1. ASSUME NEW p \in Proc, FirstOpen(p) \/ SecondOpen(p)
      PROVE  [Reclaimable!Next]_(Reclaimable!lockVars)
  <2>1. AtWork' = AtWork /\ Dead' = Dead /\ p \notin Dead
    BY <1>1 DEF FirstOpen, SecondOpen, Open
  <2>2. CASE file = NoFile
    <3>1. file' = p
      BY <1>1, <2>2 DEF FirstOpen, SecondOpen, Open
    <3>2. Reclaimable!Grant(p)
      BY <2>1, <2>2, <3>1 DEF Reclaimable!Grant
    <3>3. QED
      BY <3>2 DEF Reclaimable!Next
  <2>3. CASE file # NoFile
    <3>1. file' = file
      BY <1>1, <2>3 DEF FirstOpen, SecondOpen, Open
    <3>2. QED
      BY <1>s, <2>1, <3>1
  <2>4. QED
    BY <2>2, <2>3
<1>2. ASSUME NEW p \in Proc, Stat(p) \/ Probe(p)
      PROVE  [Reclaimable!Next]_(Reclaimable!lockVars)
  <2>1. AtWork' = AtWork /\ Dead' = Dead /\ file' = file
    BY <1>2 DEF Stat, Probe
  <2>2. QED
    BY <1>s, <2>1
<1>3. ASSUME NEW p \in Proc, Remove(p)
      PROVE  [Reclaimable!Next]_(Reclaimable!lockVars)
  <2>1. file \in Dead /\ file' = NoFile
    BY <1>3 DEF Remove, Unlink, Undisturbed
  <2>2. AtWork' = AtWork /\ Dead' = Dead
    BY <1>3 DEF Remove
  <2>3. Reclaimable!Reclaim
    BY <2>1, <2>2 DEF Reclaimable!Reclaim
  <2>4. QED
    BY <2>3 DEF Reclaimable!Next
<1>4. ASSUME NEW p \in Proc, WritePid(p)
      PROVE  [Reclaimable!Next]_(Reclaimable!lockVars)
  <2>1. file = p /\ file' = file
    BY <1>4, <1>own DEF WritePid, Owns
  <2>2. AtWork = {} /\ AtWork' = {p}
    BY <1>4, <1>own, <2>1 DEF WritePid, Owns
  <2>3. Dead' = Dead /\ p \notin Dead
    BY <1>4 DEF WritePid
  <2>4. Reclaimable!Enter(p)
    BY <2>1, <2>2, <2>3 DEF Reclaimable!Enter
  <2>5. QED
    BY <2>4 DEF Reclaimable!Next
<1>5. ASSUME NEW p \in Proc, Unlock(p)
      PROVE  [Reclaimable!Next]_(Reclaimable!lockVars)
  <2>1. file = p /\ file' = NoFile
    BY <1>5, <1>own DEF Unlock, Unlink, Owns
  <2>2. AtWork = {p} /\ AtWork' = {}
    BY <1>5, <1>own DEF Unlock, Owns
  <2>3. Dead' = Dead
    BY <1>5 DEF Unlock
  <2>4. Reclaimable!Release(p)
    BY <2>1, <2>2, <2>3 DEF Reclaimable!Release
  <2>5. QED
    BY <2>4 DEF Reclaimable!Next
<1>6. ASSUME NEW p \in Proc, Crash(p)
      PROVE  [Reclaimable!Next]_(Reclaimable!lockVars)
  <2>1. file' = file /\ p \notin Dead /\ Dead' = Dead \cup {p}
    BY <1>6 DEF Crash, Running
  <2>2. AtWork' = AtWork \ {p}
    BY <1>6 DEF Crash
  <2>3. Reclaimable!Die(p)
    BY <2>1, <2>2 DEF Reclaimable!Die
  <2>4. QED
    BY <2>3 DEF Reclaimable!Next
<1>7. ASSUME NEW p \in Proc, Recycle(p) \/ Age(p)
      PROVE  [Reclaimable!Next]_(Reclaimable!lockVars)
  <2>1. AtWork' = AtWork /\ Dead' = Dead /\ file' = file
    BY <1>7 DEF Recycle, Age
  <2>2. QED
    BY <1>s, <2>1
<1>8. ASSUME UNCHANGED vars
      PROVE  [Reclaimable!Next]_(Reclaimable!lockVars)
  <2>1. AtWork' = AtWork /\ Dead' = Dead /\ file' = file
    BY <1>8 DEF vars
  <2>2. QED
    BY <1>s, <2>1
<1>9. QED
  BY <1>1, <1>2, <1>3, <1>4, <1>5, <1>6, <1>7, <1>8 DEF Next, Step

(* Under the same two assumptions the lock file, with all its system calls *)
(* one by one, implements the lock that is only ever taken from the dead:  *)
(* this is what lets DayLock have Lock as one step.                        *)
THEOREM LockIsReclaimable ==
    Spec /\ [](LoneReclaimer /\ OnlyAbandonedAge) => Reclaimable!Spec
<1>1. Init => Reclaimable!Init
  BY DEF Init, Reclaimable!Init, AtWork, Dead, Holds
<1>2. IInv /\ Undisturbed /\ [Next]_vars => [Reclaimable!Next]_(Reclaimable!lockVars)
  BY ReclaimableStep
<1>3. QED
  BY <1>1, <1>2, UndisturbedThroughout, PTL DEF Spec, Reclaimable!Spec
=============================================================================
