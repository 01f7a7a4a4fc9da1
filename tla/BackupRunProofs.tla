-------------------------- MODULE BackupRunProofs --------------------------
(***************************************************************************)
(* What BackupRun guarantees for every list of jobs, every semaphore and   *)
(* every interleaving of the goroutines.                                   *)
(***************************************************************************)
EXTENDS BackupRun, FiniteSetTheorems, WellFoundedInduction, TLAPS

(* The jobs are numbered, and there are finitely many of them. *)
LEMMA JobsFacts ==
    /\ Len(JobList) \in Nat
    /\ Jobs = 1..Len(JobList)
    /\ IsFiniteSet(Jobs)
<1>1. Len(JobList) \in Nat /\ Jobs = 1..Len(JobList)
  BY RunAssumption DEF Jobs
<1>2. IsFiniteSet(1..Len(JobList))
  BY <1>1, FS_Interval
<1>3. QED
  BY <1>1, <1>2

(* The least-number principle for a set, from the well-foundedness of `<`. *)
LessThan == {ss \in Nat \X Nat : ss[1] < ss[2]}

LEMMA Least ==
    ASSUME NEW D \in SUBSET Nat, D # {}
    PROVE  \E x \in D : \A y \in D : x <= y
<1>1. OpToRel(<, Nat) = LessThan
  BY Zenon DEF OpToRel, LessThan
<1>2. IsWellFoundedOn(LessThan, Nat)
  BY <1>1, NatLessThanWellFounded, Zenon
<1>3. PICK x \in D : \A y \in D : <<y, x>> \notin LessThan
  BY <1>2, WFMin, Zenon
<1>4. \A y \in D : ~(y < x)
  <2> TAKE y \in D
  <2>1. <<y, x>> \in Nat \X Nat /\ <<y, x>>[1] = y /\ <<y, x>>[2] = x
    OBVIOUS
  <2>2. QED
    BY <1>3, <2>1 DEF LessThan
<1>5. QED
  BY <1>4

(* Of the jobs of one name there is a last one: the one of least distance  *)
(* from the end of the list.                                               *)
LEMMA LatestIsStatus ==
    ASSUME NEW n \in Names
    PROVE  \E j \in Jobs : Latest(n) = status[j]
<1> DEFINE Mine == {j \in Jobs : JobList[j].name = n}
           Distances == {Len(JobList) - j : j \in Mine}
<1>1. Distances \subseteq Nat /\ Distances # {}
  BY JobsFacts DEF Names
<1>2. PICK x \in Distances : \A y \in Distances : x <= y
  <2> HIDE DEF Distances
  <2> QED  BY <1>1, Least
<1>3. PICK j \in Mine : x = Len(JobList) - j
  OBVIOUS
<1>4. \A i \in Mine : i <= j
  <2>1. \A i \in Mine : x <= Len(JobList) - i
    BY <1>2
  <2>2. QED
    BY <1>3, <2>1, JobsFacts
<1>5. \E k \in Jobs : /\ JobList[k].name = n
                      /\ \A i \in Jobs : JobList[i].name = n => i <= k
  BY <1>4
<1> DEFINE last == CHOOSE k \in Jobs :
                        /\ JobList[k].name = n
                        /\ \A i \in Jobs : JobList[i].name = n => i <= k
<1>6. last \in Jobs
  BY <1>5
<1>7. Latest(n) = status[last]
  BY DEF Latest
<1>8. QED
  BY <1>6, <1>7
-----------------------------------------------------------------------------
(* The steps that only one executor has. *)
Own(j, s) ==
    /\ s \in {"tar", "restart"} => IsN8N(j)
    /\ s \in {"export", "cp", "remove"} => IsRabbit(j)
    /\ s = "pack" => Type(j) \in Streams

(* The type of a goroutine's position, and how Goto and Failed keep theirs. *)
PcType ==
    /\ pc \in [Jobs -> Steps]
    /\ \A j \in Jobs : Own(j, pc[j])

LEMMA GotoType ==
    ASSUME TypeOK, NEW j \in Jobs, NEW s \in Steps, Goto(j, s), Own(j, s)
    PROVE  PcType'
<1>1. pc \in [Jobs -> Steps] /\ \A i \in Jobs : Own(i, pc[i])
  BY DEF TypeOK, Own
<1>2. pc' = [pc EXCEPT ![j] = s]
  BY DEF Goto
<1>3. pc' \in [Jobs -> Steps]
  BY <1>1, <1>2
<1>4. \A i \in Jobs : Own(i, pc'[i])
  BY <1>1, <1>2
<1>5. QED
  BY <1>3, <1>4 DEF PcType

LEMMA ReturnType ==
    ASSUME TypeOK, NEW j \in Jobs, Return(j)
    PROVE  PcType'
<1>1. Deferred(j) \in Steps /\ Own(j, Deferred(j))
  BY DEF Deferred, Steps, Own
<1>2. QED
  BY <1>1, GotoType DEF Return

(* What the steps up to the archive have in common. *)
LEMMA ArchiveMoves ==
    ASSUME NEW j \in Jobs, Archive(j)
    PROVE  /\ pc[j] \in {"begin", "tar", "pack"}
           /\ \/ UNCHANGED err /\ \E s \in {"pack", "look"} : Goto(j, s)
              \/ Failed(j) /\ (Return(j) \/ (Goto(j, "record") /\ ~IsN8N(j)))
           /\ TypeOK => ~IsRabbit(j)
<1>1. CASE Refuse(j)
  BY <1>1 DEF Refuse, IsN8N, IsRabbit
<1>2. CASE Dump(j) \/ ExecDump(j)
  BY <1>2 DEF Dump, ExecDump, IsRabbit, Streams
<1>3. CASE Tar(j)
  BY <1>3 DEF Tar, TypeOK, IsN8N, IsRabbit
<1>4. CASE Pack(j)
  BY <1>4 DEF Pack, TypeOK, Streams, IsRabbit
<1>5. QED
  BY <1>1, <1>2, <1>3, <1>4 DEF Archive

LEMMA FailedType ==
    ASSUME TypeOK, NEW j \in Jobs, Failed(j) \/ UNCHANGED err
    PROVE  err' \in [Jobs -> BOOLEAN]
BY DEF TypeOK, Failed

(* The brokers' files and what is copied out of them. *)
BrokerType == export \in [Brokers -> Exports] /\ archived \in [Jobs -> Exports]

LEMMA BrokerKeeps == ASSUME TypeOK, [Next]_vars PROVE BrokerType'
<1>1. export \in [Brokers -> Exports] /\ archived \in [Jobs -> Exports]
  BY DEF TypeOK
<1>2. CASE UNCHANGED brokerVars
  BY <1>1, <1>2 DEF brokerVars, BrokerType
<1>3. ASSUME NEW j \in Jobs, Broker(j) PROVE BrokerType'
  <2>1. IsRabbit(j)
    BY <1>3 DEF Broker, OpenExport, WriteExport, CopyExport, RemoveExport, TypeOK
  <2>2. Container(j) \in Brokers
    BY <2>1 DEF Brokers
  <2>3. export' = export \/ \E e \in Exports : export' = [export EXCEPT ![Container(j)] = e]
    BY <1>3 DEF Broker, OpenExport, WriteExport, CopyExport, RemoveExport, Exports
  <2>4. archived' = archived \/ archived' = [archived EXCEPT ![j] = export[Container(j)]]
    BY <1>3 DEF Broker, OpenExport, WriteExport, CopyExport, RemoveExport
  <2>5. QED
    BY <1>1, <2>2, <2>3, <2>4 DEF BrokerType
<1>4. QED
  BY <1>2, <1>3 DEF Next, Main, Goroutine, Cancel, vars

LEMMA TypeInit == Init => TypeOK
<1> SUFFICES ASSUME Init PROVE TypeOK
  OBVIOUS
<1>1. 1 \in 1..(Len(JobList) + 1)
  BY JobsFacts
<1>2. folders \in [Folder -> Nat]
  <2>1. folders \in [Folder -> 0..1]
    BY DEF Init
  <2>2. QED
    BY <2>1
<1>3. manifest \in [Names -> {"old", "", "success", "failed"}]
  BY DEF Init
<1>4. PcType
  BY DEF Init, PcType, Own, Steps
<1>5. /\ missing \in [Jobs -> SUBSET Folder] /\ err \in [Jobs -> BOOLEAN]
      /\ told \in [Jobs -> SUBSET {"stop", "restart"}]
      /\ status \in [Jobs -> {"", "success", "failed"}]
      /\ results \in [Jobs -> {"none", "ok", "error"}]
  BY DEF Init
<1>6. /\ next \in 1..(Len(JobList) + 1) /\ sem \in Int /\ cancelled \in BOOLEAN
      /\ before \subseteq N8NContainers /\ up \subseteq N8NContainers
      /\ uploaded \subseteq Jobs /\ toMake \subseteq UniqueRemoteDirs
      /\ main = "prepare" /\ exit = "none"
  <2>1. 0 \in Int /\ FALSE \in BOOLEAN
    OBVIOUS
  <2>2. QED
    BY <1>1, <2>1 DEF Init
<1>7. BrokerType
  BY DEF Init, BrokerType, Exports
<1>8. QED
  BY <1>2, <1>3, <1>4, <1>5, <1>6, <1>7 DEF TypeOK, PcType, Own, BrokerType

(* One step per action, and under it one per variable that it changes.     *)
LEMMA TypeStep == ASSUME TypeOK, [Next]_vars PROVE TypeOK'
<1>0. /\ export' \in [Brokers -> Exports] /\ archived' \in [Jobs -> Exports]
  BY BrokerKeeps DEF BrokerType
<1> USE <1>0
<1>1. CASE Prepare
  BY <1>1 DEF Prepare, Abort, TypeOK, jobVars
<1>2. CASE Mkdir
  <2>1. UNCHANGED <<next, before, manifest, jobVars, sem, cancelled, up>>
    BY <1>2 DEF Mkdir, Abort
  <2>2. \A S : Added(S) \in [Folder -> Nat]
    <3>1. folders \in [Folder -> Nat]
      BY DEF TypeOK
    <3>2. QED
      BY <3>1 DEF Added
  <2>3. folders' \in [Folder -> Nat]
    <3>1. folders' = folders \/ \E S : folders' = Added(S)
      BY <1>2 DEF Mkdir
    <3>2. folders \in [Folder -> Nat]
      BY DEF TypeOK
    <3>3. QED
      BY <2>2, <3>1, <3>2
  <2>4. toMake' \subseteq UniqueRemoteDirs
    BY <1>2 DEF Mkdir, TypeOK
  <2>5. main' \in {"mkdir", "loop", "aborted"} /\ exit' \in {exit, "nonzero"}
    BY <1>2 DEF Mkdir, Abort
  <2>6. QED
    BY <2>1, <2>3, <2>4, <2>5 DEF TypeOK, jobVars
<1>3. CASE Spawn
  <2>1. next \in Jobs /\ Goto(next, "begin")
    BY <1>3 DEF Spawn, Goto
  <2>2. PcType'
    BY <2>1, GotoType DEF Own, Steps
  <2>3. next' \in 1..(Len(JobList) + 1) /\ sem' \in Int
    <3>1. next' = next + 1 /\ sem' = sem + 1
      BY <1>3 DEF Spawn
    <3>2. sem \in Int
      BY DEF TypeOK
    <3>3. QED
      BY <2>1, <3>1, <3>2, JobsFacts
  <2>4. QED
    BY <1>3, <2>2, <2>3 DEF Spawn, TypeOK, PcType, Own
<1>4. CASE Wait
  BY <1>4 DEF Wait, TypeOK, jobVars
<1>5. CASE RecordResults
  <2>1. \A n \in Names : Latest(n) \in {"", "success", "failed"}
    BY LatestIsStatus DEF TypeOK
  <2>2. manifest' \in [Names -> {"old", "", "success", "failed"}]
    BY <1>5, <2>1 DEF RecordResults, TypeOK
  <2>3. exit' \in {"zero", "nonzero"} /\ main' \in {"done", "not recorded"}
    BY <1>5 DEF RecordResults
  <2>4. UNCHANGED <<toMake, next, before, jobVars, sem, cancelled, up, folders>>
    BY <1>5 DEF RecordResults
  <2>5. QED
    BY <2>2, <2>3, <2>4 DEF TypeOK, jobVars
<1>6. ASSUME NEW j \in Jobs, NoExecutor(j) PROVE TypeOK'
  <2>1. PcType'
    BY <1>6, GotoType DEF Own, NoExecutor, Steps
  <2>2. results' \in [Jobs -> {"none", "ok", "error"}] /\ sem' \in Int
    <3>1. results' = [results EXCEPT ![j] = "error"] /\ sem' = sem - 1
      BY <1>6 DEF NoExecutor
    <3>2. results \in [Jobs -> {"none", "ok", "error"}] /\ sem \in Int
      BY DEF TypeOK
    <3>3. QED
      BY <3>1, <3>2
  <2>3. QED
    BY <1>6, <2>1, <2>2 DEF NoExecutor, TypeOK, PcType, Own, mainVars
<1>7. ASSUME NEW j \in Jobs, Stop(j) PROVE TypeOK'
  <2>1. PcType'
    BY <1>7, GotoType DEF Own, Stop, Steps
  <2>2. err' \in [Jobs -> BOOLEAN]
    BY <1>7, FailedType DEF Stop
  <2>3. told' \in [Jobs -> SUBSET {"stop", "restart"}]
    <3>1. told' = told \/ told' = [told EXCEPT ![j] = {"stop"}]
      BY <1>7 DEF Stop
    <3>2. told \in [Jobs -> SUBSET {"stop", "restart"}]
      BY DEF TypeOK
    <3> HIDE DEF TypeOK
    <3>3. QED
      BY <3>1, <3>2
  <2>4. up' \subseteq up
    BY <1>7 DEF Stop
  <2>5. QED
    BY <1>7, <2>1, <2>2, <2>3, <2>4 DEF Stop, TypeOK, PcType, Own, mainVars
<1>8. ASSUME NEW j \in Jobs, Archive(j) PROVE TypeOK'
  <2>1. PcType'
    <3>1. CASE Refuse(j)
      BY <3>1, GotoType DEF Own, Refuse, Steps
    <3>2. CASE Dump(j) \/ Tar(j)
      BY <3>2, GotoType, ReturnType DEF Own, Dump, Tar, Steps
    <3>3. CASE ExecDump(j) \/ Pack(j)
      BY <3>3, GotoType, ReturnType DEF Own, ExecDump, Pack, Steps
    <3>4. QED
      BY <1>8, <3>1, <3>2, <3>3 DEF Archive
  <2>2. err' \in [Jobs -> BOOLEAN]
    BY <1>8, FailedType, ArchiveMoves
  <2>3. QED
    BY <1>8, <2>1, <2>2 DEF Archive, TypeOK, PcType, Own, mainVars
<1>9. ASSUME NEW j \in Jobs, Look(j) PROVE TypeOK'
  <2>1. PcType'
    BY <1>9, GotoType, ReturnType DEF Own, Look, Steps
  <2>2. err' \in [Jobs -> BOOLEAN]
    BY <1>9, FailedType DEF Look
  <2>3. Absent(Dirs(j)) \in SUBSET Folder
    BY DEF Absent, Folder
  <2>4. missing' \in [Jobs -> SUBSET Folder]
    BY <1>9, <2>3 DEF Look, TypeOK
  <2>5. QED
    BY <1>9, <2>1, <2>2, <2>4 DEF Look, TypeOK, PcType, Own, mainVars
<1>10. ASSUME NEW j \in Jobs, Upload(j) PROVE TypeOK'
  <2>1. PcType'
    BY <1>10, ReturnType DEF Upload
  <2>2. err' \in [Jobs -> BOOLEAN]
    BY <1>10, FailedType DEF Upload
  <2>3. missing' \in [Jobs -> SUBSET Folder]
    BY <1>10 DEF Upload, TypeOK
  <2>4. folders \in [Folder -> Nat] /\ Added(missing[j]) \in [Folder -> Nat]
    <3>1. folders \in [Folder -> Nat]
      BY DEF TypeOK
    <3>2. QED
      BY <3>1 DEF Added
  <2>5. folders' \in [Folder -> Nat] /\ uploaded' \subseteq Jobs
    <3>1. folders' \in {folders, Added(missing[j])} /\ uploaded' \in {uploaded, uploaded \cup {j}}
      BY <1>10 DEF Upload
    <3>2. uploaded \subseteq Jobs
      BY DEF TypeOK
    <3>3. QED
      BY <2>4, <3>1, <3>2
  <2>6. QED
    BY <1>10, <2>1, <2>2, <2>3, <2>5 DEF Upload, TypeOK, PcType, Own, mainVars
<1>11. ASSUME NEW j \in Jobs, Restart(j) PROVE TypeOK'
  <2>1. PcType'
    BY <1>11, GotoType DEF Own, Restart, Steps
  <2>2. told' \in [Jobs -> SUBSET {"stop", "restart"}]
    <3>1. told' = told \/ told' = [told EXCEPT ![j] = {"restart"}]
      BY <1>11 DEF Restart
    <3>2. told \in [Jobs -> SUBSET {"stop", "restart"}]
      BY DEF TypeOK
    <3>3. QED
      BY <3>1, <3>2
  <2>3. IsN8N(j)
    BY <1>11 DEF Restart, TypeOK
  <2>4. up' \subseteq N8NContainers
    <3>1. up' \subseteq up \cup {Container(j)}
      BY <1>11 DEF Restart
    <3>2. up \subseteq N8NContainers
      BY DEF TypeOK
    <3>3. Container(j) \in N8NContainers
      BY <2>3 DEF N8NContainers
    <3>4. QED
      BY <3>1, <3>2, <3>3
  <2>5. QED
    BY <1>11, <2>1, <2>2, <2>4 DEF Restart, TypeOK, PcType, Own, mainVars
<1>12. ASSUME NEW j \in Jobs, Finish(j) PROVE TypeOK'
  <2>1. PcType'
    BY <1>12, GotoType DEF Own, Finish, Steps
  <2>2. status' \in [Jobs -> {"", "success", "failed"}]
    <3>1. status' = [status EXCEPT ![j] = IF err[j] THEN "failed" ELSE "success"]
      BY <1>12 DEF Finish
    <3>2. status \in [Jobs -> {"", "success", "failed"}]
      BY DEF TypeOK
    <3>3. QED
      BY <3>1, <3>2
  <2>3. results' \in [Jobs -> {"none", "ok", "error"}] /\ sem' \in Int
    <3>1. results' = [results EXCEPT ![j] = IF err[j] THEN "error" ELSE "ok"] /\ sem' = sem - 1
      BY <1>12 DEF Finish
    <3>2. results \in [Jobs -> {"none", "ok", "error"}] /\ sem \in Int
      BY DEF TypeOK
    <3>3. QED
      BY <3>1, <3>2
  <2>4. QED
    BY <1>12, <2>1, <2>2, <2>3 DEF Finish, TypeOK, PcType, Own, mainVars
<1>13. ASSUME NEW j \in Jobs, Broker(j) PROVE TypeOK'
  <2>1. PcType'
    <3>1. CASE OpenExport(j)
      <4>1. Own(j, "export") /\ "export" \in Steps
        BY <3>1 DEF OpenExport, Own, Steps
      <4>2. QED
        BY <3>1, <4>1, GotoType, ReturnType DEF OpenExport
    <3>2. CASE WriteExport(j)
      <4>1. Own(j, "cp") /\ "cp" \in Steps
        BY <3>2 DEF WriteExport, Own, Steps, TypeOK
      <4>2. QED
        BY <3>2, <4>1, GotoType, ReturnType DEF WriteExport
    <3>3. CASE CopyExport(j)
      <4>1. Own(j, "look") /\ "look" \in Steps
        BY DEF Own, Steps
      <4>2. QED
        BY <3>3, <4>1, GotoType, ReturnType DEF CopyExport
    <3>4. CASE RemoveExport(j)
      <4>1. Own(j, "record") /\ "record" \in Steps
        BY DEF Own, Steps
      <4>2. QED
        BY <3>4, <4>1, GotoType DEF RemoveExport
    <3>5. QED
      BY <1>13, <3>1, <3>2, <3>3, <3>4 DEF Broker
  <2>2. err' \in [Jobs -> BOOLEAN]
    BY <1>13, FailedType DEF Broker, OpenExport, WriteExport, CopyExport, RemoveExport
  <2>3. QED
    BY <1>13, <2>1, <2>2 DEF Broker, TypeOK, PcType, Own, mainVars
<1>14. CASE Cancel
  BY <1>14 DEF Cancel, TypeOK, mainVars, jobVars
<1>15. CASE UNCHANGED vars
  BY <1>15 DEF vars, TypeOK, mainVars, jobVars
<1>16. QED
  BY <1>1, <1>2, <1>3, <1>4, <1>5, <1>6, <1>7, <1>8, <1>9, <1>10, <1>11, <1>12,
     <1>13, <1>14, <1>15 DEF Next, Main, Goroutine

(* TypeOK holds in every reachable state, for every list of jobs and every *)
(* --parallel: n8n's deferred restart is run by n8n's executor only, and   *)
(* the loop never starts a job past the end of the list.                   *)
THEOREM TypeCorrect == Spec => []TypeOK
<1>1. Init => TypeOK
  BY TypeInit
<1>2. TypeOK /\ [Next]_vars => TypeOK'
  BY TypeStep
<1>3. QED
  BY <1>1, <1>2, PTL DEF Spec
-----------------------------------------------------------------------------
(* Where the command is and where its goroutines are: none has started     *)
(* before the loop, and all have finished after it.                        *)
Control ==
    /\ main \in {"prepare", "mkdir", "aborted"} => next = 1
    /\ main \in {"record", "done", "not recorded"} => \A j \in Jobs : pc[j] = "finished"
    /\ Over <=> main \in {"done", "not recorded", "aborted"}
    /\ BoundedParallelism

(* What every step of a goroutine has in common: it is in flight, it       *)
(* leaves runBackup's variables alone, and it gives its token back exactly *)
(* when it finishes.                                                       *)
LEMMA GoroutineMoves ==
    ASSUME TypeOK, NEW j \in Jobs, Goroutine(j)
    PROVE  /\ UNCHANGED mainVars
           /\ pc[j] \notin {"waiting", "finished"}
           /\ \E s \in Steps \ {"waiting", "begin"} :
                 /\ pc' = [pc EXCEPT ![j] = s]
                 /\ sem' = IF s = "finished" THEN sem - 1 ELSE sem
<1>1. UNCHANGED mainVars /\ pc[j] \notin {"waiting", "finished"}
  BY ArchiveMoves DEF Goroutine, NoExecutor, Stop, Archive, Look, Upload, Restart, Finish,
         Broker,
         OpenExport, WriteExport, CopyExport, RemoveExport
<1>2. CASE NoExecutor(j) \/ Finish(j)
  <2>1. pc' = [pc EXCEPT ![j] = "finished"] /\ sem' = sem - 1
    BY <1>2 DEF NoExecutor, Finish, Goto
  <2>2. QED
    BY <1>1, <2>1 DEF Steps
<1>3. CASE Stop(j) \/ Archive(j) \/ Look(j) \/ Upload(j) \/ Restart(j)
  <2>1. sem' = sem
    BY <1>3 DEF Stop, Archive, Look, Upload, Restart
  <2>2. \E s \in {"tar", "pack", "look", "put", "restart", "remove", "record"} :
           pc' = [pc EXCEPT ![j] = s]
    BY <1>3, ArchiveMoves DEF Stop, Look, Upload, Restart, Goto, Return, Deferred
  <2>3. QED
    BY <1>1, <2>1, <2>2 DEF Steps
<1>4. CASE Broker(j)
  <2>1. sem' = sem
    BY <1>4 DEF Broker
  <2>2. \E s \in {"export", "cp", "look", "restart", "remove", "record"} :
           pc' = [pc EXCEPT ![j] = s]
    BY <1>4 DEF Broker, OpenExport, WriteExport, CopyExport, RemoveExport, Goto, Return,
                Deferred
  <2>3. QED
    BY <1>1, <2>1, <2>2 DEF Steps
<1>5. QED
  BY <1>2, <1>3, <1>4 DEF Goroutine

LEMMA ParallelPositive == Parallel \in Nat /\ Parallel >= 1
BY RunAssumption

LEMMA InFlightFinite == IsFiniteSet(InFlight)
BY JobsFacts, FS_Subset DEF InFlight

LEMMA ControlInit == Init => Control
<1> SUFFICES ASSUME Init PROVE Control
  OBVIOUS
<1>1. InFlight = {}
  BY DEF Init, InFlight
<1>2. sem = Cardinality(InFlight) /\ sem <= Parallel
  <2>1. sem = 0
    BY DEF Init
  <2>2. Cardinality(InFlight) = 0
    BY <1>1, FS_EmptySet
  <2>3. QED
    BY <2>1, <2>2, ParallelPositive
<1>3. \A j \in Jobs : pc[j] = "waiting" <=> j >= next
  <2>1. next = 1 /\ pc = [j \in Jobs |-> "waiting"]
    BY DEF Init
  <2>2. QED
    BY <2>1, JobsFacts
<1>4. QED
  BY <1>2, <1>3 DEF Init, Control, BoundedParallelism, Over

LEMMA ControlStep == ASSUME TypeOK, Control, [Next]_vars PROVE Control'
<1>1. CASE Prepare \/ Mkdir
  BY <1>1 DEF Prepare, Mkdir, Abort, Control, BoundedParallelism, InFlight, Over, jobVars
<1>2. CASE Spawn
  <2>1. /\ main = "loop" /\ next \in Jobs /\ sem < Parallel
        /\ sem' = sem + 1 /\ next' = next + 1
        /\ pc' = [pc EXCEPT ![next] = "begin"]
        /\ UNCHANGED <<main, exit>>
    BY <1>2 DEF Spawn
  <2>2. pc \in [Jobs -> Steps]
    BY DEF TypeOK
  <2>3. pc[next] = "waiting"
    BY <2>1, JobsFacts DEF Control, BoundedParallelism
  <2>4. InFlight' = InFlight \cup {next} /\ next \notin InFlight
    BY <2>1, <2>2, <2>3 DEF InFlight
  <2>5. Cardinality(InFlight') = Cardinality(InFlight) + 1
    BY <2>4, InFlightFinite, FS_AddElement
  <2>6. \A j \in Jobs : pc'[j] = "waiting" <=> j >= next'
    BY <2>1, <2>2, JobsFacts DEF Control, BoundedParallelism
  <2>7. sem' = Cardinality(InFlight') /\ sem' <= Parallel
    BY <2>1, <2>5, InFlightFinite, FS_CardinalityType, RunAssumption
       DEF Control, BoundedParallelism
  <2>8. QED
    BY <2>1, <2>6, <2>7 DEF Control, BoundedParallelism, Over
<1>3. CASE Wait \/ RecordResults
  BY <1>3 DEF Wait, RecordResults, Control, BoundedParallelism, InFlight, Over, jobVars
<1>4. ASSUME NEW j \in Jobs, Goroutine(j) PROVE Control'
  <2>1. PICK s \in Steps \ {"waiting", "begin"} :
          /\ pc' = [pc EXCEPT ![j] = s]
          /\ sem' = IF s = "finished" THEN sem - 1 ELSE sem
    BY <1>4, GoroutineMoves
  <2>2. UNCHANGED <<main, next, exit>> /\ pc[j] \notin {"waiting", "finished"}
    BY <1>4, GoroutineMoves DEF mainVars
  <2>3. pc \in [Jobs -> Steps] /\ j \in InFlight
    BY <2>2 DEF TypeOK, InFlight
  <2>4. \A i \in Jobs : pc'[i] = "waiting" <=> pc[i] = "waiting"
    BY <2>1, <2>2, <2>3
  <2>5. main \notin {"record", "done", "not recorded"}
    BY <2>2 DEF Control
  <2>6. sem' = Cardinality(InFlight') /\ sem' <= Parallel
    <3>1. CASE s = "finished"
      <4>1. InFlight' = InFlight \ {j}
        BY <2>1, <2>3, <3>1 DEF InFlight
      <4>2. Cardinality(InFlight') = Cardinality(InFlight) - 1
        BY <2>3, <4>1, InFlightFinite, FS_RemoveElement
      <4>3. QED
        <5>1. sem = Cardinality(InFlight) /\ sem <= Parallel /\ sem' = sem - 1
          BY <2>1, <3>1 DEF Control, BoundedParallelism
        <5>2. Cardinality(InFlight) \in Nat
          BY InFlightFinite, FS_CardinalityType
        <5>3. QED
          BY <4>2, <5>1, <5>2, ParallelPositive
    <3>2. CASE s # "finished"
      <4>1. InFlight' = InFlight
        BY <2>1, <2>2, <2>3, <3>2 DEF InFlight
      <4>2. QED
        BY <2>1, <3>2, <4>1 DEF Control, BoundedParallelism
    <3>3. QED
      BY <3>1, <3>2
  <2>7. QED
    BY <2>2, <2>4, <2>5, <2>6 DEF Control, BoundedParallelism, Over
<1>5. CASE Cancel \/ UNCHANGED vars
  BY <1>5 DEF Cancel, vars, mainVars, jobVars, Control, BoundedParallelism, InFlight, Over
<1>6. QED
  BY <1>1, <1>2, <1>3, <1>4, <1>5 DEF Next, Main

(* A job that the loop has not reached has not started. *)
LEMMA Ahead ==
    ASSUME Control, NEW j \in Jobs, next = 1 \/ next = j
    PROVE  pc[j] = "waiting"
<1>1. j \in Int /\ j >= 1 /\ j >= next
  BY JobsFacts
<1>2. QED
  BY <1>1 DEF Control, BoundedParallelism

(* At most --parallel jobs are in flight at any time, and the semaphore's  *)
(* tokens are exactly those jobs: a goroutine neither loses nor forges one *)
(* on any of its paths, for every number of jobs and every --parallel.     *)
THEOREM ParallelismKept == Spec => []BoundedParallelism
<1>1. Init => TypeOK /\ Control
  BY TypeInit, ControlInit
<1>2. TypeOK /\ Control /\ [Next]_vars => TypeOK' /\ Control'
  BY TypeStep, ControlStep
<1>3. Control => BoundedParallelism
  BY DEF Control
<1>4. QED
  BY <1>1, <1>2, <1>3, PTL DEF Spec
-----------------------------------------------------------------------------
(* The steps of an n8n backup between its stop and its start.              *)
Owing == {"tar", "look", "put", "restart"}

(* A container that is down belongs to a job that will start it, or that   *)
(* says that it could not.                                                 *)
Accounted(c) ==
    \E j \in Jobs : /\ IsN8N(j) /\ Container(j) = c
                    /\ pc[j] \in Owing \/ told[j] # {}

DownAccounted == \A c \in before \ up : Accounted(c)

(* A step of job j can only disturb what is said of j's own container.     *)
LEMMA AccountedStep ==
    ASSUME TypeOK, DownAccounted, NEW j \in Jobs,
           before' = before,
           \A i \in Jobs \ {j} : pc'[i] = pc[i] /\ told'[i] = told[i],
           up \ up' # {} => IsN8N(j) /\ up \ up' = {Container(j)},
           \/ Container(j) \in up'
           \/ Container(j) \in up /\ up' = up
           \/ pc'[j] \in Owing \/ told'[j] # {}
           \/ pc[j] \notin Owing /\ told[j] = {} /\ up' = up
    PROVE  DownAccounted'
<1> SUFFICES ASSUME NEW c \in before \ up' PROVE Accounted(c)'
  BY DEF DownAccounted
<1>1. CASE c \in up
  <2>1. IsN8N(j) /\ Container(j) = c /\ (pc'[j] \in Owing \/ told'[j] # {})
    BY <1>1
  <2>2. QED
    BY <2>1 DEF Accounted
<1>2. CASE c \notin up
  <2>1. PICK i \in Jobs : /\ IsN8N(i) /\ Container(i) = c
                          /\ pc[i] \in Owing \/ told[i] # {}
    BY <1>2 DEF DownAccounted, Accounted
  <2>2. pc'[i] \in Owing \/ told'[i] # {}
    BY <1>2, <2>1
  <2>3. QED
    BY <2>1, <2>2 DEF Accounted
<1>3. QED
  BY <1>1, <1>2

LEMMA DownStep ==
    ASSUME TypeOK, Control, DownAccounted, [Next]_vars
    PROVE  DownAccounted'
<1>1. CASE Prepare \/ Mkdir \/ Wait \/ RecordResults \/ Cancel \/ UNCHANGED vars
  <2>1. UNCHANGED <<before, up, told, pc>>
    BY <1>1 DEF Prepare, Mkdir, Abort, Wait, RecordResults, Cancel, vars, mainVars,
                jobVars
  <2>2. QED
    BY <2>1 DEF DownAccounted, Accounted
<1>2. CASE Spawn
  <2>1. /\ next \in Jobs /\ pc' = [pc EXCEPT ![next] = "begin"]
        /\ UNCHANGED <<before, up, told>>
    BY <1>2 DEF Spawn
  <2>2. pc \in [Jobs -> Steps] /\ pc[next] = "waiting"
    <3>1. pc \in [Jobs -> Steps]
      BY DEF TypeOK
    <3>2. pc[next] = "waiting"
      BY <2>1, Ahead
    <3>3. QED
      BY <3>1, <3>2
  <2>3. \A i \in Jobs \ {next} : pc'[i] = pc[i]
    BY <2>1, <2>2
  <2>4. \A i \in Jobs : pc[i] \in Owing => pc'[i] \in Owing
    BY <2>1, <2>2, <2>3 DEF Owing
  <2>5. QED
    BY <2>1, <2>4 DEF DownAccounted, Accounted
<1>3. ASSUME NEW j \in Jobs, Goroutine(j) PROVE DownAccounted'
  <2>1. pc \in [Jobs -> Steps] /\ told \in [Jobs -> SUBSET {"stop", "restart"}]
    BY DEF TypeOK
  <2>2. before' = before /\ \A i \in Jobs \ {j} : pc'[i] = pc[i]
    BY <1>3, <2>1, GoroutineMoves DEF mainVars
  <2>3. CASE NoExecutor(j) \/ Finish(j)
    <3>1. pc[j] \notin Owing /\ UNCHANGED <<told, up>>
      BY <2>3 DEF NoExecutor, Finish, Owing
    <3>2. QED
      BY <2>2, <3>1, AccountedStep
  <2>4. CASE Stop(j)
    <3>1. IsN8N(j) /\ up \ up' \subseteq {Container(j)}
      BY <2>4 DEF Stop
    <3>2. \/ told' = told /\ pc' = [pc EXCEPT ![j] = "tar"]
          \/ told' = [told EXCEPT ![j] = {"stop"}]
      BY <2>4 DEF Stop, Goto
    <3>3. /\ \A i \in Jobs \ {j} : told'[i] = told[i]
          /\ pc'[j] \in Owing \/ told'[j] # {}
      BY <2>1, <3>2 DEF Owing
    <3>4. QED
      BY <2>2, <3>1, <3>3, AccountedStep
  <2>5. CASE Archive(j) \/ Look(j) \/ Upload(j)
    <3>1. UNCHANGED <<told, up>>
      BY <2>5 DEF Archive, Look, Upload
    <3>2. CASE IsN8N(j)
      <4>1. \E s \in {"pack", "look", "put", "restart"} : pc' = [pc EXCEPT ![j] = s]
        BY <2>5, <3>2, ArchiveMoves DEF Look, Upload, Return, Deferred, Goto
      <4>2. pc'[j] # "pack"
        <5>1. TypeOK'
          BY TypeStep
        <5>2. QED
          BY <3>2, <5>1 DEF TypeOK, IsN8N, Streams
      <4>3. pc'[j] \in Owing
        BY <2>1, <4>1, <4>2 DEF Owing
      <4>4. QED
        BY <2>2, <3>1, <4>3, AccountedStep
    <3>3. CASE ~IsN8N(j)
      BY <2>2, <3>1, <3>3 DEF DownAccounted, Accounted
    <3>4. QED
      BY <3>2, <3>3
  <2>6. CASE Restart(j)
    <3>1. \/ Container(j) \in up' /\ up \subseteq up' /\ told' = told
          \/ up \subseteq up' /\ told' = [told EXCEPT ![j] = {"restart"}]
      BY <2>6 DEF Restart
    <3>2. /\ \A i \in Jobs \ {j} : told'[i] = told[i]
          /\ Container(j) \in up' \/ told'[j] # {}
      BY <2>1, <3>1
    <3>3. QED
      BY <2>2, <3>1, <3>2, AccountedStep
  <2>7. CASE Broker(j)
    <3>1. UNCHANGED <<told, up>> /\ ~IsN8N(j)
      <4>1. IsRabbit(j)
        BY <2>7 DEF Broker, OpenExport, WriteExport, CopyExport, RemoveExport, TypeOK
      <4>2. QED
        BY <2>7, <4>1 DEF Broker, IsRabbit, IsN8N
    <3>2. QED
      BY <2>2, <3>1 DEF DownAccounted, Accounted
  <2>8. QED
    BY <1>3, <2>3, <2>4, <2>5, <2>6, <2>7 DEF Goroutine
<1>4. QED
  BY <1>1, <1>2, <1>3 DEF Next, Main

(* A backup takes no service down in silence: for every list of jobs, even *)
(* of several on one container, and whatever fails or is cancelled, a      *)
(* container that ran before and is down at the end has a job that says so.*)
THEOREM NeverSilentlyDown == Spec => []DownIsReported
<1>1. Init => TypeOK /\ Control /\ DownAccounted
  BY TypeInit, ControlInit DEF Init, DownAccounted
<1>2. TypeOK /\ Control /\ DownAccounted /\ [Next]_vars
      => TypeOK' /\ Control' /\ DownAccounted'
  BY TypeStep, ControlStep, DownStep
<1>3. TypeOK /\ Control /\ DownAccounted => DownIsReported
  <2> SUFFICES ASSUME TypeOK, Control, DownAccounted, Over
               PROVE  \A j \in Jobs : pc[j] \notin Owing
    BY DEF DownIsReported, DownAccounted, Accounted
  <2>1. CASE main = "aborted"
    <3>1. \A j \in Jobs : pc[j] = "waiting"
      BY <2>1, Ahead DEF Control
    <3>2. QED
      BY <3>1 DEF Owing
  <2>2. CASE main # "aborted"
    BY <2>2 DEF Control, Owing
  <2>3. QED
    BY <2>1, <2>2
<1>4. QED
  BY <1>1, <1>2, <1>3, PTL DEF Spec
-----------------------------------------------------------------------------
(* With --parallel 1, a job in flight is the only one. *)
LEMMA OneInFlight ==
    ASSUME Parallel = 1, Control, NEW i \in InFlight, NEW j \in InFlight
    PROVE  i = j
<1>1. SUFFICES ASSUME i # j PROVE FALSE
  OBVIOUS
<1>2. IsFiniteSet({i}) /\ Cardinality({i}) = 1
  BY FS_Singleton
<1>3. /\ IsFiniteSet({i} \cup {j})
      /\ Cardinality({i} \cup {j}) = Cardinality({i}) + 1
  BY <1>1, <1>2, FS_AddElement
<1>4. Cardinality({i} \cup {j}) <= Cardinality(InFlight)
  BY InFlightFinite, FS_Subset
<1>5. Cardinality(InFlight) <= 1
  BY DEF Control, BoundedParallelism
<1>6. Cardinality(InFlight) \in Nat
  BY InFlightFinite, FS_CardinalityType
<1>7. QED
  BY <1>2, <1>3, <1>4, <1>5, <1>6

(* What NotTarredLive needs: one job at a time, or no shared container. *)
OwnContainer ==
    \A i, j \in Jobs : IsN8N(i) /\ IsN8N(j) /\ Container(i) = Container(j) => i = j

LEMMA AloneStep ==
    ASSUME TypeOK, Control, NotTarredLive, Parallel = 1 \/ OwnContainer, [Next]_vars
    PROVE  NotTarredLive'
<1>1. CASE UNCHANGED <<pc, up>>
  BY <1>1 DEF NotTarredLive
<1>2. CASE Spawn
  <2>1. next \in Jobs /\ pc' = [pc EXCEPT ![next] = "begin"] /\ up' = up
    BY <1>2 DEF Spawn
  <2>2. pc \in [Jobs -> Steps]
    BY DEF TypeOK
  <2>3. \A i \in Jobs : pc'[i] = "tar" => pc[i] = "tar"
    BY <2>1, <2>2
  <2>4. QED
    BY <2>1, <2>3 DEF NotTarredLive
<1>3. ASSUME NEW j \in Jobs, Goroutine(j) PROVE NotTarredLive'
  <2>1. pc \in [Jobs -> Steps]
    BY DEF TypeOK
  <2>2. CASE Stop(j)
    <3>1. \/ up' = up \ {Container(j)} /\ pc' = [pc EXCEPT ![j] = "tar"]
          \/ up' \subseteq up /\ pc' = [pc EXCEPT ![j] = "record"]
      BY <2>2 DEF Stop, Goto
    <3>2. \A i \in Jobs : pc'[i] = "tar" => \/ pc[i] = "tar" /\ up' \subseteq up
                                            \/ i = j /\ Container(j) \notin up'
      BY <2>1, <3>1
    <3>3. QED
      BY <3>2 DEF NotTarredLive
  <2>3. CASE NoExecutor(j) \/ Archive(j) \/ Look(j) \/ Upload(j) \/ Finish(j)
    <3>1. up' = up
      BY <2>3 DEF NoExecutor, Archive, Look, Upload, Finish
    <3>2. \E s \in Steps \ {"tar"} : pc' = [pc EXCEPT ![j] = s]
      BY <2>3, ArchiveMoves
      DEF NoExecutor, Look, Upload, Finish, Return, Deferred, Goto, Steps
    <3>3. \A i \in Jobs : pc'[i] = "tar" => pc[i] = "tar"
      BY <2>1, <3>2
    <3>4. QED
      BY <3>1, <3>3 DEF NotTarredLive
  <2>4. CASE Restart(j)
    <3>1. /\ pc[j] = "restart" /\ up' \subseteq up \cup {Container(j)}
          /\ pc' = [pc EXCEPT ![j] = "record"]
      BY <2>4 DEF Restart, Goto
    <3>2. IsN8N(j)
      BY <3>1 DEF TypeOK
    <3>3. \A i \in Jobs : pc'[i] = "tar" => pc[i] = "tar" /\ i # j
      BY <2>1, <3>1
    <3>4. \A i \in Jobs : IsN8N(i) /\ pc[i] = "tar" => Container(i) # Container(j)
      <4>1. SUFFICES ASSUME NEW i \in Jobs, IsN8N(i), pc[i] = "tar",
                            Container(i) = Container(j)
                     PROVE  FALSE
        OBVIOUS
      <4>2. i # j
        BY <3>1, <4>1
      <4>3. CASE OwnContainer
        BY <3>2, <4>1, <4>2, <4>3 DEF OwnContainer
      <4>4. CASE Parallel = 1
        <5>1. i \in InFlight /\ j \in InFlight
          BY <3>1, <4>1 DEF InFlight
        <5>2. QED
          BY <4>2, <4>4, <5>1, OneInFlight
      <4>5. QED
        BY <4>3, <4>4
    <3>5. QED
      BY <3>1, <3>3, <3>4 DEF NotTarredLive
  <2>5. CASE Broker(j)
    <3>1. up' = up
      BY <2>5 DEF Broker
    <3>2. \E s \in Steps \ {"tar"} : pc' = [pc EXCEPT ![j] = s]
      BY <2>5 DEF Broker, OpenExport, WriteExport, CopyExport, RemoveExport, Return,
                  Deferred, Goto, Steps
    <3>3. \A i \in Jobs : pc'[i] = "tar" => pc[i] = "tar"
      BY <2>1, <3>2
    <3>4. QED
      BY <3>1, <3>3 DEF NotTarredLive
  <2>6. QED
    BY <1>3, <2>2, <2>3, <2>4, <2>5 DEF Goroutine
<1>4. CASE Prepare \/ Mkdir \/ Wait \/ RecordResults \/ Cancel \/ UNCHANGED vars
  BY <1>1, <1>4 DEF Prepare, Mkdir, Abort, Wait, RecordResults, Cancel, vars, jobVars
<1>5. QED
  BY <1>2, <1>3, <1>4 DEF Next, Main

(* No n8n volume is archived while its container runs, if jobs do not      *)
(* share a container or run one at a time (--parallel 1).                  *)
(* Without the hypothesis it is false: run RunSharedContainer.             *)
THEOREM TarredWhenStopped ==
    ASSUME Parallel = 1 \/ OwnContainer
    PROVE  Spec => []NotTarredLive
<1>1. Init => TypeOK /\ Control /\ NotTarredLive
  BY TypeInit, ControlInit DEF Init, NotTarredLive
<1>2. TypeOK /\ Control /\ NotTarredLive /\ [Next]_vars
      => TypeOK' /\ Control' /\ NotTarredLive'
  BY TypeStep, ControlStep, AloneStep
<1>3. QED
  BY <1>1, <1>2, PTL DEF Spec
-----------------------------------------------------------------------------
(* What WholeDefinitions needs: one job at a time, or no shared broker. *)
OwnBroker ==
    \A i, j \in Jobs : IsRabbit(i) /\ IsRabbit(j) /\ Container(i) = Container(j) => i = j

(* From the end of the export to the copy the file is whole, and from the  *)
(* copy on so is what the job has archived, unless it has failed.          *)
Definitions(j) ==
    /\ pc[j] = "cp" => export[Container(j)] = "whole"
    /\ \/ pc[j] \in {"look", "put"}
       \/ pc[j] \in {"remove", "record"} /\ ~err[j]
       \/ results[j] = "ok"
       => archived[j] = "whole"

AllDefinitions == \A j \in Jobs : IsRabbit(j) => Definitions(j)

(* No step of one job reaches the file between another's export and copy. *)
LEMMA NotUnderTheCopy ==
    ASSUME TypeOK, Control, Parallel = 1 \/ OwnBroker,
           NEW i \in Jobs, pc[i] = "cp", NEW j \in Jobs, i # j, Broker(j)
    PROVE  Container(i) # Container(j)
<1>1. IsRabbit(i)
  BY DEF TypeOK
<1>2. IsRabbit(j) /\ pc[j] \in {"begin", "export", "cp", "remove"}
  BY DEF Broker, OpenExport, WriteExport, CopyExport, RemoveExport, TypeOK
<1>3. CASE OwnBroker
  BY <1>1, <1>2, <1>3 DEF OwnBroker
<1>4. CASE Parallel = 1
  <2>1. i \in InFlight /\ j \in InFlight
    BY <1>2 DEF InFlight
  <2>2. QED
    BY <1>4, <2>1, OneInFlight
<1>5. QED
  BY <1>3, <1>4

(* The steps of a rabbitmq job in its container. *)
LEMMA BrokerStep ==
    ASSUME TypeOK, Control, AllDefinitions, Parallel = 1 \/ OwnBroker,
           NEW j \in Jobs, Broker(j)
    PROVE  AllDefinitions'
<1>1. /\ pc \in [Jobs -> Steps] /\ err \in [Jobs -> BOOLEAN]
      /\ export \in [Brokers -> Exports] /\ archived \in [Jobs -> Exports]
  BY DEF TypeOK
<1>2. IsRabbit(j) /\ ~IsN8N(j) /\ Container(j) \in Brokers
  <2>1. IsRabbit(j)
    BY DEF Broker, OpenExport, WriteExport, CopyExport, RemoveExport, TypeOK
  <2>2. QED
    BY <2>1 DEF Brokers, IsRabbit, IsN8N
<1>3. results' = results
  BY DEF Broker
<1>4. /\ pc[j] \in {"begin", "export", "cp", "remove"}
      /\ \E s \in Steps : pc' = [pc EXCEPT ![j] = s]
      /\ err' = err \/ err' = [err EXCEPT ![j] = TRUE]
      /\ export' = export \/ \E e \in Exports : export' = [export EXCEPT ![Container(j)] = e]
      /\ archived' = archived \/ archived' = [archived EXCEPT ![j] = export[Container(j)]]
  BY <1>2 DEF Broker, OpenExport, WriteExport, CopyExport, RemoveExport, Goto, Return,
              Failed, Deferred, Steps, Exports
<1>5. ASSUME NEW i \in Jobs \ {j}, IsRabbit(i) PROVE Definitions(i)'
  <2>1. pc'[i] = pc[i] /\ err'[i] = err[i] /\ archived'[i] = archived[i]
    BY <1>1, <1>4
  <2>2. pc[i] = "cp" => export'[Container(i)] = export[Container(i)]
    <3>1. pc[i] = "cp" => Container(i) # Container(j)
      BY NotUnderTheCopy
    <3>2. Container(i) \in Brokers
      BY <1>5 DEF Brokers
    <3>3. QED
      BY <1>1, <1>4, <3>1, <3>2
  <2>3. Definitions(i)
    BY <1>5 DEF AllDefinitions
  <2>4. QED
    BY <1>3, <2>1, <2>2, <2>3 DEF Definitions
<1>6. Definitions(j)'
  <2>1. Definitions(j)
    BY <1>2 DEF AllDefinitions
  <2>2. Deferred(j) = "remove"
    BY <1>2 DEF Deferred
  <2>3. ASSUME Failed(j), Return(j), archived' = archived PROVE Definitions(j)'
    <3>1. pc'[j] = "remove" /\ err'[j] = TRUE
      BY <1>1, <2>2, <2>3 DEF Failed, Return, Goto
    <3>2. QED
      BY <1>3, <2>1, <2>3, <3>1 DEF Definitions
  <2>4. CASE OpenExport(j)
    <3>1. CASE Goto(j, "export") /\ UNCHANGED <<err, archived>>
      BY <1>1, <1>3, <2>1, <3>1 DEF Goto, Definitions
    <3>2. QED
      BY <2>3, <2>4, <3>1 DEF OpenExport
  <2>5. CASE WriteExport(j)
    <3>1. CASE /\ Goto(j, "cp") /\ UNCHANGED <<err, archived>>
               /\ export' = [export EXCEPT ![Container(j)] = "whole"]
      <4>1. export'[Container(j)] = "whole" /\ pc'[j] = "cp"
        BY <1>1, <1>2, <3>1 DEF Goto
      <4>2. QED
        BY <1>3, <2>1, <3>1, <4>1 DEF Definitions
    <3>2. QED
      BY <2>3, <2>5, <3>1 DEF WriteExport
  <2>6. CASE CopyExport(j)
    <3>1. CASE /\ Goto(j, "look") /\ UNCHANGED err
               /\ archived' = [archived EXCEPT ![j] = export[Container(j)]]
      <4>1. pc'[j] = "look" /\ archived'[j] = export[Container(j)]
        BY <1>1, <3>1 DEF Goto
      <4>2. export[Container(j)] = "whole"
        BY <2>1, <2>6 DEF CopyExport, Definitions
      <4>3. QED
        BY <4>1, <4>2 DEF Definitions
    <3>2. QED
      BY <2>3, <2>6, <3>1 DEF CopyExport
  <2>7. CASE RemoveExport(j)
    <3>1. pc[j] = "remove" /\ pc'[j] = "record" /\ UNCHANGED <<err, archived>>
      BY <1>1, <2>7 DEF RemoveExport, Goto
    <3>2. QED
      BY <1>3, <2>1, <3>1 DEF Definitions
  <2>8. QED
    BY <2>4, <2>5, <2>6, <2>7 DEF Broker
<1>7. QED
  BY <1>5, <1>6 DEF AllDefinitions, IsRabbit, Type

(* Every other step leaves the brokers and what was copied out of them alone. *)
LEMMA DefinitionsStep ==
    ASSUME TypeOK, Control, AllDefinitions, Parallel = 1 \/ OwnBroker, [Next]_vars
    PROVE  AllDefinitions'
<1> USE DEF IsRabbit, Type
<1>1. /\ pc \in [Jobs -> Steps] /\ err \in [Jobs -> BOOLEAN]
      /\ results \in [Jobs -> {"none", "ok", "error"}]
  BY DEF TypeOK
<1>2. CASE UNCHANGED <<pc, err, results, brokerVars>>
  BY <1>2 DEF AllDefinitions, Definitions, brokerVars
<1>3. CASE Spawn /\ UNCHANGED brokerVars
  <2>1. next \in Jobs /\ pc' = [pc EXCEPT ![next] = "begin"] /\ UNCHANGED <<err, results>>
    BY <1>3 DEF Spawn
  <2>2. \A i \in Jobs : pc'[i] = IF i = next THEN "begin" ELSE pc[i]
    BY <1>1, <2>1
  <2>3. QED
    BY <1>3, <2>1, <2>2 DEF AllDefinitions, Definitions, brokerVars
<1>4. ASSUME NEW j \in Jobs, Goroutine(j), UNCHANGED brokerVars,
             NoExecutor(j) \/ Stop(j) \/ Archive(j) \/ Restart(j)
      PROVE  AllDefinitions'
  <2>1. ~IsRabbit(j)
    BY <1>4, ArchiveMoves DEF NoExecutor, Stop, Restart, IsN8N, Ready, TypeOK
  <2>2. \A i \in Jobs \ {j} : /\ pc'[i] = pc[i] /\ err'[i] = err[i]
                             /\ results'[i] = results[i]
    <3>1. \E s \in Steps : pc' = [pc EXCEPT ![j] = s]
      BY <1>4, GoroutineMoves
    <3>2. \/ err' = err \/ err' = [err EXCEPT ![j] = TRUE]
      BY <1>4, ArchiveMoves DEF NoExecutor, Stop, Restart, Failed
    <3>3. \/ results' = results \/ results' = [results EXCEPT ![j] = "error"]
      BY <1>4 DEF NoExecutor, Stop, Archive, Restart
    <3>4. QED
      BY <1>1, <3>1, <3>2, <3>3
  <2>3. QED
    BY <1>4, <2>1, <2>2 DEF AllDefinitions, Definitions, brokerVars
<1>5. ASSUME NEW j \in Jobs, UNCHANGED brokerVars, Look(j) \/ Upload(j)
      PROVE  AllDefinitions'
  <2>1. pc[j] \in {"look", "put"} /\ results' = results
    BY <1>5 DEF Look, Upload
  <2>2. \E s \in {"put", "restart", "remove", "record"} : pc' = [pc EXCEPT ![j] = s]
    BY <1>5 DEF Look, Upload, Goto, Return, Deferred
  <2>3. \A i \in Jobs \ {j} : pc'[i] = pc[i] /\ err'[i] = err[i]
    BY <1>1, <1>5, <2>2 DEF Look, Upload, Failed
  <2>4. pc'[j] # "cp"
    BY <1>1, <2>2
  <2>5. QED
    BY <1>5, <2>1, <2>3, <2>4 DEF AllDefinitions, Definitions, brokerVars
<1>6. ASSUME NEW j \in Jobs, UNCHANGED brokerVars, Finish(j) PROVE AllDefinitions'
  <2>1. /\ pc[j] = "record" /\ err' = err /\ pc' = [pc EXCEPT ![j] = "finished"]
        /\ results' = [results EXCEPT ![j] = IF err[j] THEN "error" ELSE "ok"]
    BY <1>6 DEF Finish, Goto
  <2>2. \A i \in Jobs \ {j} : pc'[i] = pc[i] /\ results'[i] = results[i]
    BY <1>1, <2>1
  <2>3. pc'[j] = "finished" /\ (results'[j] = "ok" => ~err[j])
    BY <1>1, <2>1
  <2>4. QED
    BY <1>6, <2>1, <2>2, <2>3 DEF AllDefinitions, Definitions, brokerVars
<1>7. CASE \/ (Prepare \/ Mkdir \/ Wait \/ RecordResults) /\ UNCHANGED brokerVars
           \/ Cancel \/ UNCHANGED vars
  <2>1. UNCHANGED <<pc, err, results, brokerVars>>
    BY <1>7 DEF Prepare, Mkdir, Abort, Wait, RecordResults, Cancel, vars, jobVars
  <2>2. QED
    BY <1>2, <2>1
<1>8. QED
  BY <1>3, <1>4, <1>5, <1>6, <1>7, BrokerStep DEF Next, Main, Goroutine

LEMMA DefinitionsInit == Init => AllDefinitions
<1> SUFFICES ASSUME Init, NEW j \in Jobs PROVE Definitions(j)
  BY DEF AllDefinitions
<1>1. pc[j] = "waiting" /\ results[j] = "none" /\ err[j] = FALSE
  BY DEF Init
<1> HIDE DEF Init
<1>2. QED
  BY <1>1 DEF Definitions

(* A rabbitmq job that ends well has archived its broker's definitions as  *)
(* they were exported by this command, whatever else runs, fails or is     *)
(* cancelled and whatever a command before it has left in the container,   *)
(* if jobs do not share a broker or run one at a time.                     *)
THEOREM DefinitionsWhole ==
    ASSUME Parallel = 1 \/ OwnBroker
    PROVE  Spec => []WholeDefinitions
<1>1. Init => TypeOK /\ Control /\ AllDefinitions
  BY TypeInit, ControlInit, DefinitionsInit
<1>2. TypeOK /\ Control /\ AllDefinitions /\ [Next]_vars
      => TypeOK' /\ Control' /\ AllDefinitions'
  BY TypeStep, ControlStep, DefinitionsStep
<1>3. AllDefinitions => WholeDefinitions
  BY DEF AllDefinitions, Definitions, WholeDefinitions
<1>4. QED
  BY <1>1, <1>2, <1>3, PTL DEF Spec
-----------------------------------------------------------------------------
(* No goroutine misses a folder: runBackup creates each that is absent.    *)
FoldersMade ==
    /\ NoDuplicateFolders
    /\ main = "mkdir" => \A d \in Folder : folders[d] = 1 \/ d \in UNION toMake
    /\ main \notin {"prepare", "mkdir", "aborted"} => \A d \in Folder : folders[d] = 1
    /\ \A j \in Jobs : missing[j] = {}

LEMMA FoldersInit == Init => FoldersMade
<1> SUFFICES ASSUME Init PROVE FoldersMade
  OBVIOUS
<1>1. folders \in [Folder -> 0..1]
  BY DEF Init
<1>2. NoDuplicateFolders
  BY <1>1 DEF NoDuplicateFolders
<1>3. main = "prepare" /\ \A j \in Jobs : missing[j] = {}
  BY DEF Init
<1>4. QED
  BY <1>2, <1>3 DEF FoldersMade

LEMMA FoldersStep ==
    ASSUME TypeOK, Control, FoldersMade, [Next]_vars
    PROVE  FoldersMade'
<1>1. folders \in [Folder -> Nat] /\ missing \in [Jobs -> SUBSET Folder]
  BY DEF TypeOK
<1>2. \A d \in Folder : folders[d] = 0 \/ folders[d] = 1
  BY <1>1 DEF FoldersMade, NoDuplicateFolders
<1>3. CASE Prepare
  <2>1. UNCHANGED <<folders, missing>>
    BY <1>3 DEF Prepare, Abort, jobVars
  <2>2. main' = "aborted" \/ (main' = "mkdir" /\ toMake' = UniqueRemoteDirs)
    BY <1>3 DEF Prepare, Abort
  <2>3. UNION UniqueRemoteDirs = Folder
    BY DEF UniqueRemoteDirs, Folder
  <2>4. QED
    BY <2>1, <2>2, <2>3 DEF FoldersMade, NoDuplicateFolders
<1>4. CASE Mkdir
  <2>1. main = "mkdir" /\ missing' = missing
    BY <1>4 DEF Mkdir, Abort, jobVars
  <2>2. \A S : \A d \in Folder :
           Added(S)[d] = IF d \in S THEN folders[d] + 1 ELSE folders[d]
    BY DEF Added
  <2>3. CASE toMake = {} /\ main' = "loop" /\ UNCHANGED folders
    BY <2>1, <2>3 DEF FoldersMade, NoDuplicateFolders
  <2>4. CASE main' = "aborted" /\ \E path \in toMake : \E made \in SUBSET Absent(path) :
               folders' = Added(IF cancelled THEN {} ELSE made)
    <3>1. PICK made : folders' = Added(made) /\ \A d \in made : folders[d] = 0
      BY <2>4 DEF Absent
    <3>2. \A d \in Folder : folders'[d] <= 1
      BY <1>2, <2>2, <3>1
    <3>3. QED
      BY <2>1, <2>4, <3>2 DEF FoldersMade, NoDuplicateFolders
  <2>5. ASSUME NEW path \in toMake, main' = "mkdir",
               folders' = Added(Absent(path)), toMake' = toMake \ {path}
        PROVE  FoldersMade'
    <3>1. \A d \in Folder : folders'[d] = IF d \in path THEN 1 ELSE folders[d]
      BY <1>2, <2>2, <2>5 DEF Absent
    <3>2. \A d \in Folder : folders'[d] <= 1
      BY <1>2, <3>1
    <3>3. \A d \in Folder : folders'[d] = 1 \/ d \in UNION toMake'
      <4>1. \A d \in Folder : folders[d] = 1 \/ d \in UNION toMake
        BY <2>1 DEF FoldersMade
      <4>2. UNION toMake \subseteq path \cup UNION toMake'
        BY <2>5
      <4>3. QED
        BY <3>1, <4>1, <4>2
    <3>4. QED
      BY <2>1, <2>5, <3>2, <3>3 DEF FoldersMade, NoDuplicateFolders
  <2>6. QED
    BY <1>4, <2>1, <2>3, <2>4, <2>5 DEF Mkdir, Abort
<1>5. CASE Spawn \/ Wait \/ RecordResults
  <2>1. UNCHANGED <<folders, missing>> /\ main \notin {"prepare", "mkdir", "aborted"}
    BY <1>5 DEF Spawn, Wait, RecordResults, jobVars
  <2>2. main' # "mkdir"
    BY <1>5 DEF Spawn, Wait, RecordResults
  <2>3. QED
    BY <2>1, <2>2 DEF FoldersMade, NoDuplicateFolders
<1>6. ASSUME NEW j \in Jobs, Goroutine(j) PROVE FoldersMade'
  <2>1. UNCHANGED <<main, toMake>> /\ pc[j] # "waiting"
    BY <1>6, GoroutineMoves DEF mainVars
  <2>2. main \notin {"prepare", "mkdir", "aborted"}
    BY <2>1, Ahead DEF Control
  <2>3. \A d \in Folder : folders[d] = 1
    BY <2>2 DEF FoldersMade
  <2>4. Absent(Dirs(j)) = {}
    BY <2>3 DEF Absent, Folder
  <2>5. missing[j] = {} /\ Added({}) = folders
    BY <1>1 DEF FoldersMade, Added
  <2>6. missing' = missing
    <3>1. missing' \in {missing, [missing EXCEPT ![j] = {}]}
      BY <1>6, <2>4 DEF Goroutine, NoExecutor, Stop, Archive, Look, Upload, Restart, Finish,
                  Broker
    <3>2. QED
      BY <1>1, <2>5, <3>1
  <2>7. folders' = folders
    BY <1>6, <2>5 DEF Goroutine, NoExecutor, Stop, Archive, Look, Upload, Restart, Finish,
                  Broker
  <2>8. QED
    BY <2>1, <2>6, <2>7 DEF FoldersMade, NoDuplicateFolders
<1>7. CASE Cancel \/ UNCHANGED vars
  BY <1>7 DEF Cancel, vars, mainVars, jobVars, FoldersMade, NoDuplicateFolders
<1>8. QED
  BY <1>3, <1>4, <1>5, <1>6, <1>7 DEF Next, Main

(* However many uploads look for their destination at the same time, Drive *)
(* never gets a second folder of a path: each of them is there before the  *)
(* first goroutine starts, so none is ever found missing.                  *)
THEOREM FoldersUnique == Spec => []NoDuplicateFolders
<1>1. Init => TypeOK /\ Control /\ FoldersMade
  BY TypeInit, ControlInit, FoldersInit
<1>2. TypeOK /\ Control /\ FoldersMade /\ [Next]_vars
      => TypeOK' /\ Control' /\ FoldersMade'
  BY TypeStep, ControlStep, FoldersStep
<1>3. FoldersMade => NoDuplicateFolders
  BY DEF FoldersMade
<1>4. QED
  BY <1>1, <1>2, <1>3, PTL DEF Spec
-----------------------------------------------------------------------------
(* A goroutine without an error has uploaded its archive, and a result or  *)
(* a status, which only its last step sets, says no more than that.        *)
Truthful(j) ==
    /\ pc[j] \in {"restart", "remove", "record"} /\ ~err[j] => j \in uploaded
    /\ pc[j] # "finished" => status[j] = ""
    /\ results[j] = "ok" => j \in uploaded
    /\ status[j] = "success" => results[j] = "ok"

Truth ==
    /\ \A j \in Jobs : Truthful(j)
    /\ exit = "zero" => uploaded = Jobs
    /\ main = "done" => manifest = [n \in Names |-> Latest(n)]

LEMMA TruthInit == Init => Truth
<1> SUFFICES ASSUME Init PROVE Truth
  OBVIOUS
<1>1. /\ main = "prepare" /\ exit = "none"
      /\ \A j \in Jobs : pc[j] = "waiting" /\ results[j] = "none" /\ status[j] = ""
  BY DEF Init
<1>2. QED
  BY <1>1 DEF Truth, Truthful

(* The steps of a goroutine before its last one. *)
LEMMA OnTheWay ==
    ASSUME TypeOK, NEW j \in Jobs, Truthful(j),
           Stop(j) \/ Archive(j) \/ Look(j) \/ Upload(j) \/ Restart(j) \/ Broker(j)
    PROVE  /\ UNCHANGED <<status, results>> /\ uploaded \subseteq uploaded'
           /\ \A i \in Jobs \ {j} : pc'[i] = pc[i] /\ err'[i] = err[i]
           /\ Truthful(j)'
<1>1. pc \in [Jobs -> Steps] /\ err \in [Jobs -> BOOLEAN]
  BY DEF TypeOK
<1>2. UNCHANGED <<status, results>> /\ uploaded \subseteq uploaded' /\ pc[j] # "finished"
  BY ArchiveMoves DEF Stop, Archive, Look, Upload, Restart, Broker, OpenExport, WriteExport,
         CopyExport, RemoveExport
<1>3. \E s \in {"tar", "pack", "export", "cp", "look", "put", "restart", "remove",
             "record"} :
         pc' = [pc EXCEPT ![j] = s]
  BY ArchiveMoves DEF Stop, Look, Upload, Restart, Goto, Return, Deferred, Broker, OpenExport,
         WriteExport, CopyExport, RemoveExport
<1>4. err' = err \/ err' = [err EXCEPT ![j] = TRUE]
  BY ArchiveMoves DEF Stop, Look, Upload, Restart, Failed, Broker, OpenExport, WriteExport,
         CopyExport, RemoveExport
<1>5. \/ pc' = [pc EXCEPT ![j] = "tar"] \/ pc' = [pc EXCEPT ![j] = "look"]
      \/ pc' = [pc EXCEPT ![j] = "put"] \/ err' = [err EXCEPT ![j] = TRUE]
      \/ j \in uploaded'
      \/ pc' = [pc EXCEPT ![j] = "export"] \/ pc' = [pc EXCEPT ![j] = "cp"]
      \/ pc' = [pc EXCEPT ![j] = "pack"]
      \/ pc[j] \in {"restart", "remove"} /\ err' = err
  BY ArchiveMoves DEF Stop, Look, Upload, Restart, Goto, Failed, Broker, OpenExport, WriteExport,
         CopyExport, RemoveExport
<1>6. \A i \in Jobs \ {j} : pc'[i] = pc[i] /\ err'[i] = err[i]
  BY <1>1, <1>3, <1>4
<1>7. pc'[j] \in {"restart", "remove", "record"} /\ ~err'[j] => j \in uploaded'
  BY <1>1, <1>2, <1>5 DEF Truthful
<1>8. pc'[j] # "finished"
  BY <1>1, <1>3
<1>9. QED
  BY <1>2, <1>6, <1>7, <1>8 DEF Truthful

(* The last step of a goroutine. *)
LEMMA AtTheEnd ==
    ASSUME TypeOK, NEW j \in Jobs, Truthful(j), NoExecutor(j) \/ Finish(j)
    PROVE  /\ UNCHANGED <<uploaded, err>>
           /\ \A i \in Jobs \ {j} : /\ pc'[i] = pc[i] /\ status'[i] = status[i]
                                    /\ results'[i] = results[i]
           /\ Truthful(j)'
<1>1. /\ pc \in [Jobs -> Steps] /\ status \in [Jobs -> {"", "success", "failed"}]
      /\ results \in [Jobs -> {"none", "ok", "error"}]
  BY DEF TypeOK
<1>2. UNCHANGED <<uploaded, err>> /\ pc' = [pc EXCEPT ![j] = "finished"]
  BY DEF NoExecutor, Finish, Goto
<1>3. \/ /\ pc[j] = "begin" /\ status' = status
         /\ results' = [results EXCEPT ![j] = "error"]
      \/ /\ pc[j] = "record" /\ err[j]
         /\ status' = [status EXCEPT ![j] = "failed"]
         /\ results' = [results EXCEPT ![j] = "error"]
      \/ /\ pc[j] = "record" /\ ~err[j]
         /\ status' = [status EXCEPT ![j] = "success"]
         /\ results' = [results EXCEPT ![j] = "ok"]
  BY DEF NoExecutor, Finish
<1>4. \A i \in Jobs \ {j} : /\ pc'[i] = pc[i] /\ status'[i] = status[i]
                           /\ results'[i] = results[i]
  BY <1>1, <1>2, <1>3
<1>5. /\ results'[j] = "ok" => j \in uploaded
      /\ status'[j] = "success" => results'[j] = "ok"
  BY <1>1, <1>3 DEF Truthful
<1>6. pc'[j] = "finished"
  BY <1>1, <1>2
<1>7. QED
  BY <1>2, <1>4, <1>5, <1>6 DEF Truthful

LEMMA TruthStep == ASSUME TypeOK, Control, Truth, [Next]_vars PROVE Truth'
<1>1. CASE Prepare \/ Mkdir \/ Wait \/ Cancel \/ UNCHANGED vars
  <2>1. UNCHANGED <<pc, err, uploaded, results, status, manifest>>
    BY <1>1 DEF Prepare, Mkdir, Abort, Wait, Cancel, vars, mainVars, jobVars
  <2>2. exit' \in {exit, "nonzero"} /\ (main' = "done" => main = "done")
    BY <1>1 DEF Prepare, Mkdir, Abort, Wait, Cancel, vars, mainVars
  <2>3. QED
    BY <2>1, <2>2 DEF Truth, Truthful, Latest
<1>2. CASE Spawn
  <2>1. /\ next \in Jobs /\ pc' = [pc EXCEPT ![next] = "begin"] /\ main' = "loop"
        /\ UNCHANGED <<err, uploaded, results, status, exit>>
    BY <1>2 DEF Spawn
  <2>2. pc \in [Jobs -> Steps] /\ pc[next] = "waiting"
    BY <2>1, Ahead DEF TypeOK
  <2>3. \A j \in Jobs : pc'[j] = IF j = next THEN "begin" ELSE pc[j]
    BY <2>1, <2>2
  <2>4. \A j \in Jobs : Truthful(j)'
    BY <2>1, <2>2, <2>3 DEF Truth, Truthful
  <2>5. QED
    BY <2>1, <2>4 DEF Truth
<1>3. CASE RecordResults
  <2>1. UNCHANGED <<pc, err, uploaded, results, status>>
    BY <1>3 DEF RecordResults, jobVars
  <2>2. main' = "done" => manifest' = [n \in Names |-> Latest(n)']
    BY <1>3, <2>1 DEF RecordResults, Latest
  <2>3. exit' = "zero" => \A j \in Jobs : results[j] = "ok"
    BY <1>3 DEF RecordResults
  <2>4. exit' = "zero" => uploaded' = Jobs
    BY <2>1, <2>3 DEF Truth, Truthful, TypeOK
  <2>5. QED
    BY <2>1, <2>2, <2>4 DEF Truth, Truthful
<1>4. ASSUME NEW j \in Jobs, Goroutine(j) PROVE Truth'
  <2>1. UNCHANGED <<main, exit>> /\ main # "done"
    BY <1>4, GoroutineMoves DEF mainVars, Control
  <2>2. uploaded \subseteq uploaded' /\ \A i \in Jobs : Truthful(i)'
    <3>1. CASE NoExecutor(j) \/ Finish(j)
      BY <3>1, AtTheEnd DEF Truth, Truthful
    <3>2. CASE Stop(j) \/ Archive(j) \/ Look(j) \/ Upload(j) \/ Restart(j) \/ Broker(j)
      BY <3>2, OnTheWay DEF Truth, Truthful
    <3>3. QED
      BY <1>4, <3>1, <3>2 DEF Goroutine
  <2>3. uploaded' \subseteq Jobs
    BY TypeStep DEF TypeOK
  <2>4. QED
    BY <2>1, <2>2, <2>3 DEF Truth
<1>5. QED
  BY <1>1, <1>2, <1>3, <1>4 DEF Next, Main

(* The command's exit status and the manifest never claim a backup that    *)
(* was not made: exit status 0 means that every archive is on the remote,  *)
(* a recorded success that the last job of that name uploaded its own.     *)
THEOREM ReportsAreTrue == Spec => []ReportIsTrue
<1>1. Init => TypeOK /\ Control /\ Truth
  BY TypeInit, ControlInit, TruthInit
<1>2. TypeOK /\ Control /\ Truth /\ [Next]_vars => TypeOK' /\ Control' /\ Truth'
  BY TypeStep, ControlStep, TruthStep
<1>3. Truth => ReportIsTrue
  <2> SUFFICES ASSUME Truth, main = "done", NEW j \in Jobs,
                      \A i \in Jobs : JobList[i].name = JobList[j].name => i <= j,
                      manifest[JobList[j].name] = "success"
               PROVE  status[j] = "success"
    BY DEF Truth, Truthful, ReportIsTrue
  <2> DEFINE IsLast(k) == /\ JobList[k].name = JobList[j].name
                          /\ \A i \in Jobs : JobList[i].name = JobList[j].name => i <= k
             last == CHOOSE k \in Jobs : IsLast(k)
  <2>1. last \in Jobs /\ IsLast(last)
    OBVIOUS
  <2>2. last <= j /\ j <= last
    BY <2>1
  <2>3. last = j
    BY <2>1, <2>2, JobsFacts
  <2>4. JobList[j].name \in Names
    BY DEF Names
  <2>5. Latest(JobList[j].name) = status[last]
    BY DEF Latest
  <2>6. QED
    BY <2>3, <2>4, <2>5 DEF Truth
<1>4. QED
  BY <1>1, <1>2, <1>3, PTL DEF Spec
-----------------------------------------------------------------------------
(* No job has container trouble to tell of. *)
NothingTold == \A j \in Jobs : told[j] = {}

(* Only a docker call that fails is told, and without faults only those    *)
(* that are cancelled do.                                                  *)
LEMMA NothingToldStep ==
    ASSUME TypeOK, NothingTold, ~Faults, ~cancelled, [Next]_vars
    PROVE  NothingTold'
<1>1. ~MayFail
  BY DEF MayFail
<1>2. ASSUME NEW j \in Jobs, Goroutine(j) PROVE told' = told
  BY <1>1, <1>2 DEF Goroutine, NoExecutor, Stop, Archive, Look, Upload, Restart, Finish,
                    Broker
<1>3. CASE Main \/ Cancel \/ UNCHANGED vars
  BY <1>3 DEF Main, Prepare, Mkdir, Abort, Spawn, Wait, RecordResults, Cancel, vars, jobVars,
              NothingTold
<1>4. QED
  BY <1>2, <1>3 DEF Next, NothingTold

LEMMA NothingToldInit == Init => NothingTold
BY DEF Init, NothingTold

(* Where docker and rclone do not fail, only a cancelled command leaves a  *)
(* container down that ran before it, for every list of jobs and every     *)
(* --parallel: the deferred docker start keeps n8n's "always restarting    *)
(* the container" but for the context that it shares with the backup. That *)
(* a signal is enough to break it is what run RunCancelled shows.          *)
THEOREM RestartedUnlessCancelled ==
    ASSUME ~Faults
    PROVE  Spec /\ [](~cancelled) => []AlwaysRestarted
<1>1. Init => TypeOK /\ NothingTold
  BY TypeInit, NothingToldInit
<1>2. TypeOK /\ NothingTold /\ ~cancelled /\ [Next]_vars => TypeOK' /\ NothingTold'
  BY TypeStep, NothingToldStep
<1>3. NothingTold /\ DownIsReported => AlwaysRestarted
  BY DEF NothingTold, DownIsReported, AlwaysRestarted
<1>4. QED
  BY <1>1, <1>2, <1>3, NeverSilentlyDown, PTL DEF Spec
-----------------------------------------------------------------------------
(* Nothing has failed so far, and what has finished has succeeded. *)
AllWell ==
    /\ main # "aborted" /\ exit # "nonzero"
    /\ \A j \in Jobs : /\ err[j] = FALSE
                       /\ results[j] = IF pc[j] = "finished" THEN "ok" ELSE "none"

LEMMA AllWellInit == Init => AllWell
<1> SUFFICES ASSUME Init PROVE AllWell
  OBVIOUS
<1>1. /\ main = "prepare" /\ exit = "none"
      /\ \A j \in Jobs : pc[j] = "waiting" /\ err[j] = FALSE /\ results[j] = "none"
  BY DEF Init
<1>2. QED
  BY <1>1 DEF AllWell

(* A step that cannot fail moves its goroutine on and sets no error; the   *)
(* copy of a rabbitmq job finds its file, because nobody else removes it.  *)
LEMMA WellOnTheWay ==
    ASSUME TypeOK, AllDefinitions, ~MayFail, ~Faults, NEW j \in Jobs, Ready(j),
           Stop(j) \/ Archive(j) \/ Look(j) \/ Upload(j) \/ Restart(j) \/ Broker(j)
    PROVE  /\ UNCHANGED <<err, results>> /\ pc[j] # "finished"
           /\ \E s \in Steps \ {"finished"} : pc' = [pc EXCEPT ![j] = s]
<1>1. UNCHANGED results /\ pc[j] # "finished"
  BY ArchiveMoves DEF Stop, Archive, Look, Upload, Restart, Broker, OpenExport, WriteExport,
         CopyExport, RemoveExport
<1>2. \E s \in Steps \ {"finished"} : pc' = [pc EXCEPT ![j] = s]
  BY ArchiveMoves DEF Stop, Look, Upload, Restart, Goto, Return, Deferred, Broker, OpenExport,
         WriteExport, CopyExport, RemoveExport, Steps
<1>3. CASE Stop(j) \/ Look(j) \/ Upload(j) \/ Restart(j)
  BY <1>1, <1>2, <1>3 DEF Stop, Look, Upload, Restart
<1>4. CASE Archive(j)
  BY <1>1, <1>2, <1>4 DEF Archive, Refuse, Dump, Tar, ExecDump, Pack
<1>5. CASE Broker(j)
  <2>1. pc[j] = "cp" => export[Container(j)] # "none"
    BY DEF AllDefinitions, Definitions, TypeOK
  <2>2. QED
    BY <1>1, <1>2, <1>5, <2>1
       DEF Broker, OpenExport, WriteExport, CopyExport, RemoveExport
<1>6. QED
  BY <1>1, <1>2, <1>3, <1>4, <1>5

LEMMA AllWellStep ==
    ASSUME TypeOK, Control, AllDefinitions, AllWell, ~Faults, ~cancelled,
           \A j \in Jobs : Ready(j), [Next]_vars
    PROVE  AllWell'
<1>1. ~MayFail
  BY DEF MayFail
<1>2. pc \in [Jobs -> Steps] /\ results \in [Jobs -> {"none", "ok", "error"}]
  BY DEF TypeOK
<1>3. CASE Prepare \/ Mkdir \/ Wait \/ Cancel \/ UNCHANGED vars
  <2>1. UNCHANGED <<pc, err, results, exit>> /\ main' \in {main, "mkdir", "loop", "record"}
    BY <1>1, <1>3 DEF Prepare, Mkdir, Wait, Cancel, vars, mainVars, jobVars
  <2>2. QED
    BY <2>1 DEF AllWell
<1>4. CASE RecordResults
  <2>1. \A j \in Jobs : pc[j] = "finished"
    BY <1>4 DEF RecordResults, Control
  <2>2. UNCHANGED <<pc, err, results>> /\ main' # "aborted"
    BY <1>4 DEF RecordResults, jobVars
  <2>3. exit' = "zero"
    BY <1>4, <2>1 DEF RecordResults, AllWell
  <2>4. QED
    BY <2>2, <2>3 DEF AllWell
<1>5. CASE Spawn
  <2>1. /\ next \in Jobs /\ pc' = [pc EXCEPT ![next] = "begin"]
        /\ UNCHANGED <<main, exit, err, results>>
    BY <1>5 DEF Spawn
  <2>2. pc[next] = "waiting"
    BY <2>1, Ahead
  <2>3. \A j \in Jobs : pc'[j] = "finished" <=> pc[j] = "finished"
    BY <1>2, <2>1, <2>2
  <2>4. QED
    BY <2>1, <2>3 DEF AllWell
<1>6. ASSUME NEW j \in Jobs, Goroutine(j) PROVE AllWell'
  <2>1. UNCHANGED <<main, exit>>
    BY <1>6, GoroutineMoves DEF mainVars
  <2>2. ~NoExecutor(j)
    BY DEF NoExecutor, Ready
  <2>3. CASE Finish(j)
    <3>1. /\ err' = err /\ pc' = [pc EXCEPT ![j] = "finished"]
          /\ results' = [results EXCEPT ![j] = "ok"]
      BY <2>3 DEF Finish, Goto, AllWell
    <3>2. \A i \in Jobs : /\ pc'[i] = IF i = j THEN "finished" ELSE pc[i]
                          /\ results'[i] = IF i = j THEN "ok" ELSE results[i]
      BY <1>2, <3>1
    <3>3. QED
      BY <2>1, <3>1, <3>2 DEF AllWell
  <2>4. CASE Stop(j) \/ Archive(j) \/ Look(j) \/ Upload(j) \/ Restart(j) \/ Broker(j)
    <3>1. /\ UNCHANGED <<err, results>> /\ pc[j] # "finished"
          /\ \E s \in Steps \ {"finished"} : pc' = [pc EXCEPT ![j] = s]
      BY <1>1, <2>4, WellOnTheWay
    <3>2. \A i \in Jobs : pc'[i] = "finished" <=> pc[i] = "finished"
      BY <1>2, <3>1
    <3>3. QED
      BY <2>1, <3>1, <3>2 DEF AllWell
  <2>5. QED
    BY <1>6, <2>2, <2>3, <2>4 DEF Goroutine
<1>7. QED
  BY <1>3, <1>4, <1>5, <1>6 DEF Next, Main

(* A command whose jobs have all that they need, on which no signal and no *)
(* failure falls, ends with exit status 0, every archive on the remote and *)
(* every container that it stopped running again, in every interleaving of *)
(* its goroutines: the jobs do not make each other fail. Of two that share *)
(* a broker, and run at the same time, one may remove the other's file;    *)
(* hence the hypothesis on Parallel.                                       *)
THEOREM HealthyRunSucceeds ==
    ASSUME ~Faults, \A j \in Jobs : Ready(j), Parallel = 1 \/ OwnBroker
    PROVE  Spec /\ [](~cancelled)
           => [](Over => exit = "zero" /\ uploaded = Jobs /\ before \subseteq up)
<1>1. Init => TypeOK /\ Control /\ AllDefinitions /\ AllWell
  BY TypeInit, ControlInit, DefinitionsInit, AllWellInit
<1>2. TypeOK /\ Control /\ AllDefinitions /\ AllWell /\ ~cancelled /\ [Next]_vars
      => TypeOK' /\ Control' /\ AllDefinitions' /\ AllWell'
  BY TypeStep, ControlStep, DefinitionsStep, AllWellStep
<1>3. TypeOK /\ AllWell /\ ReportIsTrue /\ AlwaysRestarted
      => (Over => exit = "zero" /\ uploaded = Jobs /\ before \subseteq up)
  BY DEF TypeOK, AllWell, Over, ReportIsTrue, AlwaysRestarted
<1>4. QED
  BY <1>1, <1>2, <1>3, ReportsAreTrue, RestartedUnlessCancelled, PTL DEF Spec
-----------------------------------------------------------------------------
(* How far a goroutine and runBackup are. *)
Stage == [waiting |-> 0, begin |-> 1, tar |-> 2, pack |-> 2, export |-> 2, cp |-> 3,
          look |-> 4, put |-> 5, restart |-> 6, remove |-> 6, record |-> 7, finished |-> 8]

Phase(m) ==
    IF m = "prepare" THEN 0 ELSE IF m = "mkdir" THEN 1 ELSE IF m = "loop" THEN 2
    ELSE IF m = "record" THEN 3 ELSE 4

(* runBackup moves on: to a later phase, or past one more directory. *)
RunMovesOn ==
    /\ UNCHANGED <<pc, cancelled>>
    /\ \/ Phase(main') > Phase(main)
       \/ main' = main /\ toMake' \subseteq toMake /\ toMake' # toMake

(* One job moves on, started by the loop or in its own goroutine. *)
JobMovesOn(j) ==
    /\ UNCHANGED <<main, toMake, cancelled>>
    /\ \E s \in Steps : pc' = [pc EXCEPT ![j] = s] /\ Stage[s] > Stage[pc[j]]

SignalComes == UNCHANGED <<main, toMake, pc>> /\ ~cancelled /\ cancelled'

(* Nothing is retried and nothing is done over: every step takes runBackup *)
(* or one job further, or is the one signal.                               *)
OnlyForward == [][RunMovesOn \/ (\E j \in Jobs : JobMovesOn(j)) \/ SignalComes]_vars

LEMMA ReturnsForward ==
    ASSUME NEW j \in Jobs,
           pc[j] \in {"begin", "tar", "pack", "export", "cp", "look", "put"}
    PROVE  Deferred(j) \in Steps /\ Stage[Deferred(j)] > Stage[pc[j]]
<1>1. Deferred(j) \in {"restart", "remove", "record"}
  BY DEF Deferred
<1>2. Stage[Deferred(j)] \in {6, 7}
  BY <1>1 DEF Stage
<1>3. Stage[pc[j]] \in 1..5
  BY DEF Stage
<1>4. QED
  BY <1>1, <1>2, <1>3 DEF Steps

LEMMA GoroutineForward ==
    ASSUME TypeOK, NEW j \in Jobs, Goroutine(j)
    PROVE  JobMovesOn(j)
<1> DEFINE On == \E s \in Steps : pc' = [pc EXCEPT ![j] = s] /\ Stage[s] > Stage[pc[j]]
<1>1. ASSUME NoExecutor(j) \/ Finish(j) PROVE On
  <2>1. pc' = [pc EXCEPT ![j] = "finished"] /\ pc[j] \in {"begin", "record"}
    BY <1>1 DEF NoExecutor, Finish, Goto
  <2>2. QED
    BY <2>1 DEF Stage, Steps
<1>2. ASSUME Stop(j) \/ Restart(j) PROVE On
  <2>1. /\ pc[j] \in {"begin", "restart"}
        /\ \/ pc[j] = "begin" /\ pc' = [pc EXCEPT ![j] = "tar"]
           \/ pc' = [pc EXCEPT ![j] = "record"]
    BY <1>2 DEF Stop, Restart, Goto
  <2>2. QED
    BY <2>1 DEF Stage, Steps
<1>3. ASSUME Archive(j) PROVE On
  <2>1. /\ pc[j] \in {"begin", "tar", "pack"}
        /\ \/ \E s \in {"look", "record"} : pc' = [pc EXCEPT ![j] = s]
           \/ pc[j] = "begin" /\ pc' = [pc EXCEPT ![j] = "pack"]
           \/ pc' = [pc EXCEPT ![j] = Deferred(j)]
    BY <1>3 DEF Archive, Refuse, Dump, Tar, ExecDump, Pack, Goto, Return
  <2>2. CASE pc' = [pc EXCEPT ![j] = Deferred(j)]
    BY <2>1, <2>2, ReturnsForward
  <2>3. QED
    BY <2>1, <2>2 DEF Stage, Steps
<1>4. ASSUME Look(j) \/ Upload(j) PROVE On
  <2>1. /\ pc[j] \in {"look", "put"}
        /\ \/ pc[j] = "look" /\ pc' = [pc EXCEPT ![j] = "put"]
           \/ pc' = [pc EXCEPT ![j] = Deferred(j)]
    BY <1>4 DEF Look, Upload, Goto, Return
  <2>2. CASE pc' = [pc EXCEPT ![j] = Deferred(j)]
    BY <2>1, <2>2, ReturnsForward
  <2>3. QED
    BY <2>1, <2>2 DEF Stage, Steps
<1>5. ASSUME Broker(j) PROVE On
  <2>1. /\ pc[j] \in {"begin", "export", "cp", "remove"}
        /\ \/ pc[j] = "begin" /\ pc' = [pc EXCEPT ![j] = "export"]
           \/ pc[j] = "export" /\ pc' = [pc EXCEPT ![j] = "cp"]
           \/ pc[j] = "cp" /\ pc' = [pc EXCEPT ![j] = "look"]
           \/ pc[j] = "remove" /\ pc' = [pc EXCEPT ![j] = "record"]
           \/ pc[j] # "remove" /\ pc' = [pc EXCEPT ![j] = Deferred(j)]
    BY <1>5 DEF Broker, OpenExport, WriteExport, CopyExport, RemoveExport, Goto, Return
  <2>2. CASE pc[j] # "remove" /\ pc' = [pc EXCEPT ![j] = Deferred(j)]
    BY <2>1, <2>2, ReturnsForward
  <2>3. QED
    BY <2>1, <2>2 DEF Stage, Steps
<1>6. UNCHANGED <<main, toMake, cancelled>>
  <2>1. UNCHANGED <<main, toMake>>
    BY GoroutineMoves DEF mainVars
  <2>2. cancelled' = cancelled
    BY DEF Goroutine, NoExecutor, Stop, Archive, Look, Upload, Restart, Finish, Broker
  <2>3. QED
    BY <2>1, <2>2
<1>7. QED
  BY <1>1, <1>2, <1>3, <1>4, <1>5, <1>6 DEF Goroutine, JobMovesOn

(* The safety half of Termination, for every list of jobs: no step of the  *)
(* command goes back to an earlier one, whatever fails or is cancelled.    *)
(* There are finitely many directories, jobs and stages, so no run of the  *)
(* command goes on for ever.                                               *)
THEOREM NothingRepeated == Spec => OnlyForward
<1> DEFINE Onward == RunMovesOn \/ (\E j \in Jobs : JobMovesOn(j)) \/ SignalComes
<1>1. TypeOK /\ Control /\ [Next]_vars => [Onward]_vars
  <2> SUFFICES ASSUME TypeOK, Control, Next PROVE Onward
    OBVIOUS
  <2>1. CASE Prepare \/ Wait \/ RecordResults
    <3>1. UNCHANGED <<pc, cancelled>>
      BY <2>1 DEF Prepare, Abort, Wait, RecordResults, jobVars
    <3>2. \/ main = "prepare" /\ main' \in {"mkdir", "aborted"}
          \/ main = "loop" /\ main' = "record"
          \/ main = "record" /\ main' \in {"done", "not recorded"}
      BY <2>1 DEF Prepare, Abort, Wait, RecordResults
    <3>3. Phase(main') > Phase(main)
      <4>1. CASE main = "prepare" /\ main' \in {"mkdir", "aborted"}
        BY <4>1 DEF Phase
      <4>2. CASE main = "loop" /\ main' = "record"
        BY <4>2 DEF Phase
      <4>3. CASE main = "record" /\ main' \in {"done", "not recorded"}
        <5>1. Phase(main) = 3
          BY <4>3 DEF Phase
        <5>2. Phase(main') = 4
          BY <4>3 DEF Phase
        <5>3. QED
          BY <5>1, <5>2
      <4>4. QED
        BY <3>2, <4>1, <4>2, <4>3
    <3>4. QED
      BY <3>1, <3>3 DEF RunMovesOn
  <2>2. CASE Mkdir
    <3>1. UNCHANGED <<pc, cancelled>>
      BY <2>2 DEF Mkdir, Abort, jobVars
    <3>2. \/ main = "mkdir" /\ main' \in {"loop", "aborted"}
          \/ main' = main /\ \E path \in toMake : toMake' = toMake \ {path}
      BY <2>2 DEF Mkdir, Abort
    <3>3. CASE main = "mkdir" /\ main' \in {"loop", "aborted"}
      BY <3>1, <3>3 DEF RunMovesOn, Phase
    <3>4. QED
      BY <3>1, <3>2, <3>3 DEF RunMovesOn
  <2>3. CASE Spawn
    <3>1. /\ next \in Jobs /\ pc' = [pc EXCEPT ![next] = "begin"]
          /\ UNCHANGED <<main, toMake, cancelled>>
      BY <2>3 DEF Spawn
    <3>2. pc[next] = "waiting"
      BY <3>1, Ahead
    <3>3. Stage["begin"] > Stage[pc[next]] /\ "begin" \in Steps
      BY <3>2 DEF Stage, Steps
    <3>4. QED
      BY <3>1, <3>3 DEF JobMovesOn
  <2>4. CASE Cancel
    BY <2>4 DEF Cancel, SignalComes, mainVars, jobVars
  <2>5. QED
    BY <2>1, <2>2, <2>3, <2>4, GoroutineForward DEF Next, Main
<1>2. Spec => [](TypeOK /\ Control)
  <2>1. TypeOK /\ Control /\ [Next]_vars => TypeOK' /\ Control'
    BY TypeStep, ControlStep
  <2>2. QED
    BY TypeInit, ControlInit, <2>1, PTL DEF Spec
<1>3. QED
  BY <1>1, <1>2, PTL DEF Spec, OnlyForward

(* A command that is not over has work to do: in runBackup, in its loop    *)
(* for a job there is a token for, in wg.Wait for goroutines that have     *)
(* all finished, or in some goroutine.                                     *)
NeverStuck ==
    Over \/ InFlight # {} \/ main \in {"prepare", "mkdir", "record"}
         \/ (main = "loop" /\ next \in Jobs /\ sem < Parallel)
         \/ (main = "loop" /\ next \notin Jobs /\ \A j \in Jobs : pc[j] = "finished")

(* The loop never waits for a token that nobody will give back, and        *)
(* wg.Wait never for a goroutine that was not started, for every list of   *)
(* jobs, also an empty one, and every --parallel.                          *)
THEOREM SomethingToDo == Spec => []NeverStuck
<1>1. TypeOK /\ Control => NeverStuck
  <2> SUFFICES ASSUME TypeOK, Control, main = "loop", InFlight = {} PROVE NeverStuck
    BY DEF TypeOK, Control, NeverStuck
  <2>1. sem < Parallel
    <3>1. Cardinality(InFlight) = 0
      BY FS_EmptySet
    <3>2. QED
      BY <3>1, ParallelPositive DEF Control, BoundedParallelism
  <2>2. CASE next \in Jobs
    BY <2>1, <2>2 DEF NeverStuck
  <2>3. CASE next \notin Jobs
    <3>1. next \in 1..(Len(JobList) + 1)
      BY DEF TypeOK
    <3>2. next \in Int /\ \A j \in Jobs : j < next
      BY <2>3, <3>1, JobsFacts
    <3>3. \A j \in Jobs : pc[j] # "waiting"
      BY <3>2, JobsFacts DEF Control, BoundedParallelism
    <3>4. QED
      BY <2>3, <3>3 DEF InFlight, NeverStuck
  <2>4. QED
    BY <2>2, <2>3
<1>2. TypeOK /\ Control /\ [Next]_vars => TypeOK' /\ Control'
  BY TypeStep, ControlStep
<1>3. QED
  BY <1>1, <1>2, TypeInit, ControlInit, PTL DEF Spec
=============================================================================
