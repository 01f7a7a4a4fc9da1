------------------------ MODULE BackupPipelineProofs ------------------------
(***************************************************************************)
(* What BackupPipeline guarantees for every number of runs and all         *)
(* settings of the job, changed between the runs in any way.               *)
(***************************************************************************)
EXTENDS BackupPipeline, FiniteSetTheorems, FunctionTheorems, TLAPS

LEMMA SettingsFacts ==
    ASSUME NEW s \in Settings
    PROVE  s.keepLocal \in Nat /\ s.retention \in BOOLEAN /\ s.minKeep \in Nat
BY PipelineAssumption

(* What the two kinds of objects are made of. *)
LEMMA ObjectFacts ==
    ASSUME NEW r \in Runs, NEW w \in BOOLEAN
    PROVE  /\ Archive(r, w) \in Object(Runs) /\ Manifest(r) \in Object(Runs)
           /\ Archive(r, w).run = r /\ Archive(r, w).kind = "archive"
           /\ Archive(r, w).whole = w
           /\ Manifest(r).run = r /\ Manifest(r).kind = "manifest"
BY DEF Object, Archive, Manifest

LEMMA ArchiveIs ==
    ASSUME NEW o \in Object(Runs), o.kind = "archive"
    PROVE  o = Archive(o.run, o.whole) /\ o.run \in Runs /\ o.whole \in BOOLEAN
BY DEF Object, Archive

LEMMA PutFacts ==
    ASSUME NEW dir, NEW o
    PROVE  /\ o \in Put(dir, o)
           /\ \A x \in Put(dir, o) : \/ x = o
                                     \/ x \in dir /\ (x.run # o.run \/ x.kind # o.kind)
           /\ \A x \in dir : x.run # o.run \/ x.kind # o.kind => x \in Put(dir, o)
BY DEF Put

(* The bounds of the counters, alone. *)
Counters == run \in 0..MaxRuns /\ expiredTo \in 0..run

LEMMA CountersFacts ==
    ASSUME TypeOK
    PROVE  /\ Counters /\ MaxRuns \in Nat /\ run \in Nat /\ expiredTo \in Nat
           /\ pc # "idle" => run \in Runs
<1>1. Counters /\ (pc # "idle" => run > 0)
  BY DEF TypeOK, Counters
<1>2. MaxRuns \in Nat
  BY PipelineAssumption
<1>3. QED
  BY <1>1, <1>2 DEF Counters, Runs
-----------------------------------------------------------------------------
LEMMA TypeInit == Init => TypeOK
<1> SUFFICES ASSUME Init PROVE TypeOK
  OBVIOUS
<1>1. run \in 0..MaxRuns /\ expiredTo \in 0..run
  <2>1. MaxRuns \in Nat /\ run = 0 /\ expiredTo = 0
    BY PipelineAssumption DEF Init
  <2>2. QED
    BY <2>1
<1>2. QED
  BY <1>1 DEF Init, TypeOK, Steps, Results

(* The steps that end the command, and the ones that go on with it. *)
LEMMA OverType ==
    ASSUME TypeOK, NEW res \in Results, NEW said \in SUBSET Warnings, Over(res, said),
           local' \subseteq Object(Runs), remote' \subseteq Object(Runs)
    PROVE  TypeOK'
BY DEF TypeOK, Over, Steps

LEMMA ContinueType ==
    ASSUME TypeOK, pc # "idle", NEW s \in Steps \ {"idle"}, Continue(s),
           local' \subseteq Object(Runs), remote' \subseteq Object(Runs),
           hasManifest' \in BOOLEAN, warn' \subseteq Warnings,
           todo' = {} \/ s \in {"prune local", "prune remote"}
    PROVE  TypeOK'
BY DEF TypeOK, Continue

LEMMA TypeStep == ASSUME TypeOK, [Next]_vars PROVE TypeOK'
<1>1. pc # "idle" => run \in Runs
  BY CountersFacts
<1>2. local \subseteq Object(Runs) /\ remote \subseteq Object(Runs)
  BY DEF TypeOK
<1>3. pc # "idle" => \A w \in BOOLEAN :
           /\ Put(local, Archive(run, w)) \subseteq Object(Runs)
           /\ Put(remote, Archive(run, w)) \subseteq Object(Runs)
  BY <1>1, <1>2, ObjectFacts DEF Put
<1>4. pc # "idle" => /\ Put(local, Manifest(run)) \subseteq Object(Runs)
                    /\ Put(remote, Manifest(run)) \subseteq Object(Runs)
  BY <1>1, <1>2, ObjectFacts DEF Put
<1>5. CASE Start
  <2>1. run' = run + 1 /\ run < MaxRuns /\ expiredTo' = expiredTo
    BY <1>5 DEF Start
  <2>2. run' \in 0..MaxRuns /\ expiredTo' \in 0..run' /\ run' > 0
    BY <2>1, CountersFacts DEF Counters
  <2>3. /\ pc' = "produce" /\ job' \in Settings /\ result' = "none" /\ warn' = {}
        /\ todo = {} /\ UNCHANGED <<cancelled, hasManifest, todo, local, remote>>
    BY <1>5 DEF Start, TypeOK
  <2>4. cancelled \in BOOLEAN /\ hasManifest \in BOOLEAN
    BY DEF TypeOK
  <2>5. pc' \in Steps /\ pc' # "idle" /\ result' \in Results /\ warn' \subseteq Warnings
    BY <2>3 DEF Steps, Results
  <2>6. QED
    BY <1>2, <2>2, <2>3, <2>4, <2>5 DEF TypeOK
<1>6. CASE Produce
  BY <1>6, <1>2, OverType, ContinueType DEF Produce, Fail, Results, TypeOK, Steps
<1>7. CASE MakeManifest
  BY <1>7, <1>2, ContinueType DEF MakeManifest, Warn, Warnings, TypeOK, Steps
<1>8. ASSUME NEW w \in Warnings, SkipLocal(w), pc # "idle",
             remote' = remote, hasManifest' = hasManifest
      PROVE  TypeOK'
  BY <1>8, <1>2, ContinueType DEF SkipLocal, Warn, TypeOK, Steps
<1>9. CASE OpenCopy
  BY <1>9, <1>2, <1>3, <1>8, ContinueType DEF OpenCopy, TypeOK, Steps, Warnings
<1>10. CASE CopyLocal
  BY <1>10, <1>2, <1>3, <1>8, ContinueType DEF CopyLocal, TypeOK, Steps, Warnings
<1>11. CASE CopyManifest
  BY <1>11, <1>2, <1>4, ContinueType DEF CopyManifest, Warn, TypeOK, Steps, Warnings
<1>12. CASE ListLocal
  BY <1>12, <1>2, <1>8, ContinueType DEF ListLocal, TypeOK, Steps, Warnings
<1>13. CASE PruneLocal
  BY <1>13, <1>2, <1>8, ContinueType DEF PruneLocal, TypeOK, Steps, Warnings
<1>14. CASE Upload
  BY <1>14, <1>2, <1>3, ContinueType, OverType
     DEF Upload, FailedCall, Fail, TypeOK, Steps, Results
<1>15. CASE UploadManifest
  BY <1>15, <1>2, <1>4, ContinueType
     DEF UploadManifest, FailedCall, Warn, TypeOK, Steps, Warnings
<1>16. CASE Verify
  BY <1>16, <1>2, ContinueType, OverType DEF Verify, Fail, TypeOK, Steps, Results
<1>17. CASE ListRemote
  BY <1>17, <1>2, ContinueType, OverType
     DEF ListRemote, Succeed, Warn, TypeOK, Steps, Results, Warnings
<1>18. CASE PruneRemote
  BY <1>18, <1>2, ContinueType, OverType
     DEF PruneRemote, FailedCall, Succeed, Warn, TypeOK, Steps, Results, Warnings
<1>19. CASE Cancel
  BY <1>19 DEF Cancel, TypeOK
<1>20. CASE Kill
  BY <1>20, <1>2, OverType DEF Kill, Fail, Results
<1>21. CASE Expire
  <2>1. run' = run /\ expiredTo' = expiredTo + 1 /\ expiredTo < run
    BY <1>21, CountersFacts DEF Expire
  <2>2. expiredTo' \in 0..run'
    BY <2>1, CountersFacts DEF Counters
  <2>3. QED
    BY <1>21, <2>2 DEF Expire, TypeOK
<1>22. CASE UNCHANGED vars
  BY <1>22 DEF vars, TypeOK
<1>23. QED
  BY <1>5, <1>6, <1>7, <1>9, <1>10, <1>11, <1>12, <1>13, <1>14, <1>15, <1>16,
     <1>17, <1>18, <1>19, <1>20, <1>21, <1>22 DEF Next

(* The types hold in every state, for every number of runs; what one       *)
(* command works with in its memory is gone when it is over.               *)
THEOREM TypeCorrect == Spec => []TypeOK
<1>1. Init => TypeOK
  BY TypeInit
<1>2. TypeOK /\ [Next]_vars => TypeOK'
  BY TypeStep
<1>3. QED
  BY <1>1, <1>2, PTL DEF Spec
-----------------------------------------------------------------------------
(* The steps before the local copy, those of retainLocalCopy, and those of *)
(* UploadArchive after it.                                                 *)
Uncopied == {"produce", "manifest", "open copy"}
Copying == {"open copy", "copy", "copy manifest", "list local", "prune local"}
Verifying == {"upload manifest", "verify", "list remote", "prune remote"}
Uploading == {"upload"} \cup Verifying
Unsent == Uncopied \cup Copying \cup {"upload"}

(* The steps of a run in progress. *)
Work ==
    \/ Produce \/ MakeManifest
    \/ OpenCopy \/ CopyLocal \/ CopyManifest \/ ListLocal \/ PruneLocal
    \/ Upload \/ UploadManifest \/ Verify \/ ListRemote \/ PruneRemote
    \/ Cancel \/ Kill

(* They write only files of their own run, and none before its time.       *)
Orderly ==
    /\ UNCHANGED <<job, run, expiredTo>> /\ pc # "idle"
    /\ \A o \in local' : o \in local \/ o.run = run
    /\ \A o \in remote' : o \in remote \/ o.run = run
    /\ pc' \in Uncopied => pc \in Uncopied /\ local' = local
    /\ pc' \in Unsent => pc \in Unsent /\ remote' = remote

LEMMA WorkIsOrderly == ASSUME TypeOK, Work PROVE Orderly
<1> USE DEF Orderly, Uncopied, Unsent, Copying, Continue, Over
<1>1. \A dir, w : \A o \in Put(dir, Archive(run, w)) : o \in dir \/ o.run = run
  BY DEF Put, Archive
<1>2. \A dir : \A o \in Put(dir, Manifest(run)) : o \in dir \/ o.run = run
  BY DEF Put, Manifest
<1>3. CASE Produce \/ MakeManifest \/ Cancel \/ Kill
  BY <1>3 DEF Produce, MakeManifest, Cancel, Kill, Fail, TypeOK, Steps
<1>4. CASE OpenCopy \/ CopyLocal
  BY <1>1, <1>4 DEF OpenCopy, CopyLocal, SkipLocal
<1>5. CASE CopyManifest
  BY <1>2, <1>5 DEF CopyManifest
<1>6. CASE ListLocal \/ PruneLocal
  BY <1>6 DEF ListLocal, PruneLocal, SkipLocal
<1>7. CASE Upload
  BY <1>1, <1>7 DEF Upload, FailedCall, Fail
<1>8. CASE UploadManifest
  BY <1>2, <1>8 DEF UploadManifest, FailedCall
<1>9. CASE Verify \/ ListRemote \/ PruneRemote
  BY <1>9 DEF Verify, ListRemote, PruneRemote, FailedCall, Fail, Succeed
<1>10. QED
  BY <1>3, <1>4, <1>5, <1>6, <1>7, <1>8, <1>9 DEF Work

(* How old the files are that a run finds: before its own copy and its own *)
(* upload, each of them is of an earlier run.                              *)
Ages ==
    /\ pc # "idle" => expiredTo < run
    /\ \A o \in local \cup remote : o.run <= run
    /\ pc \in Uncopied => \A o \in local : o.run < run
    /\ pc \in Unsent => \A o \in remote : o.run < run

LEMMA AgesStep == ASSUME TypeOK, Ages, [Next]_vars PROVE Ages'
<1>1. run \in Nat /\ expiredTo \in Nat /\ expiredTo <= run
  BY CountersFacts DEF Counters
<1>2. \A o \in local \cup remote : o.run \in Nat
  <2>1. local \cup remote \subseteq Object(Runs)
    BY DEF TypeOK
  <2>2. \A o \in Object(Runs) : o.run \in Runs
    BY DEF Object
  <2>3. Runs \subseteq Nat
    BY DEF Runs
  <2>4. QED
    BY <2>1, <2>2, <2>3
<1>3. CASE Start
  <2>1. run' = run + 1 /\ UNCHANGED <<local, remote, expiredTo>>
    BY <1>3 DEF Start
  <2>2. \A o \in local \cup remote : o.run < run'
    BY <1>1, <1>2, <2>1 DEF Ages
  <2>3. expiredTo' < run'
    BY <1>1, <2>1
  <2>4. \A o \in local \cup remote : o.run <= run'
    BY <1>1, <1>2, <2>1, <2>2
  <2>5. QED
    BY <2>1, <2>2, <2>3, <2>4 DEF Ages
<1>4. CASE Expire
  <2>1. /\ expiredTo' = expiredTo + 1 /\ (pc # "idle" => expiredTo < run - 1)
        /\ UNCHANGED <<pc, run, local, remote>>
    BY <1>4 DEF Expire
  <2>2. pc' # "idle" => expiredTo' < run'
    BY <1>1, <2>1
  <2>3. QED
    BY <2>1, <2>2 DEF Ages
<1>5. CASE Work
  <2>1. Orderly
    BY <1>5, WorkIsOrderly
  <2>2. \A o \in local' \cup remote' : o.run <= run
    BY <1>1, <2>1 DEF Orderly, Ages
  <2>3. QED
    BY <2>1, <2>2 DEF Orderly, Ages
<1>6. CASE UNCHANGED vars
  BY <1>6 DEF vars, Ages
<1>7. QED
  BY <1>3, <1>4, <1>5, <1>6 DEF Next, Work
-----------------------------------------------------------------------------
(* Retention's floor: of whatever it gives up, `keep` files are kept that  *)
(* are no older (FilesToPrune, for every listing, order and floor).        *)
LEMMA PrunedHasFloor ==
    ASSUME NEW files, IsFiniteSet(files), NEW q \in NewestFirst(files), NEW expired,
           NEW keep \in Nat, NEW o \in FilesToPrune(q, expired, keep)
    PROVE  /\ o \in files /\ o \in expired
           /\ \E kept \in SUBSET (files \ FilesToPrune(q, expired, keep)) :
                  /\ Cardinality(kept) = keep
                  /\ \A x \in kept : x # o /\ x.run >= o.run
<1> DEFINE n == Cardinality(files)
<1>1. n \in Nat
  BY FS_CardinalityType
<1>2. q \in [1..n -> files]
  BY DEF NewestFirst
<1>3. \A i, j \in 1..n : i < j => q[i] # q[j] /\ q[i].run >= q[j].run
  BY DEF NewestFirst
<1> HIDE DEF n
<1>4. PICK i \in 1..n : i > keep /\ q[i] = o /\ o \in expired
  BY <1>2 DEF FilesToPrune
<1> DEFINE f == [k \in 1..keep |-> q[k]]
           kept == {q[k] : k \in 1..keep}
<1>5. \A k \in 1..keep : k \in 1..n /\ k < i
  BY <1>1, <1>4
<1>6. kept \subseteq files /\ \A x \in kept : x # o /\ x.run >= o.run
  BY <1>2, <1>3, <1>4, <1>5
<1>7. kept \cap FilesToPrune(q, expired, keep) = {}
  <2> SUFFICES ASSUME NEW k \in 1..keep, NEW l \in 1..n, l > keep, q[k] = q[l]
               PROVE  FALSE
    BY <1>2 DEF FilesToPrune
  <2>1. k \in 1..n /\ k < l
    BY <1>1, <1>5
  <2>2. QED
    BY <1>3, <2>1
<1>8. Cardinality(kept) = keep
  <2>1. f \in [1..keep -> kept] /\ \A t \in kept : \E k \in 1..keep : f[k] = t
    OBVIOUS
  <2>2. \A a, b \in 1..keep : f[a] = f[b] => a = b
    <3> SUFFICES ASSUME NEW a \in 1..keep, NEW b \in 1..keep, q[a] = q[b], a # b
                 PROVE  FALSE
      OBVIOUS
    <3>1. a \in 1..n /\ b \in 1..n /\ (a < b \/ b < a)
      BY <1>5
    <3>2. QED
      BY <1>3, <3>1
  <2>3. f \in Bijection(1..keep, kept)
    BY <2>1, <2>2, Fun_IsBij
  <2>4. IsFiniteSet(1..keep) /\ Cardinality(1..keep) = keep
    BY FS_Interval
  <2>5. QED
    BY <2>3, <2>4, FS_Bijection DEF ExistsBijection
<1>9. QED
  BY <1>2, <1>4, <1>6, <1>7, <1>8

(* Both directories hold finitely many files. *)
Finite == IsFiniteSet(local) /\ IsFiniteSet(remote)

LEMMA PutFinite ==
    ASSUME NEW dir, NEW o, IsFiniteSet(dir)
    PROVE  IsFiniteSet(Put(dir, o))
<1>1. IsFiniteSet({x \in dir : x.run # o.run \/ x.kind # o.kind})
  BY FS_Subset
<1>2. QED
  BY <1>1, FS_AddElement DEF Put

LEMMA FiniteStep == ASSUME Finite, [Next]_vars PROVE Finite'
<1> USE DEF Finite
<1>1. CASE OpenCopy \/ CopyLocal \/ CopyManifest
  BY <1>1, PutFinite DEF OpenCopy, CopyLocal, CopyManifest, SkipLocal
<1>2. CASE Upload \/ UploadManifest
  BY <1>2, PutFinite DEF Upload, UploadManifest, FailedCall
<1>3. CASE PruneLocal
  <2>1. local' \subseteq local /\ remote' = remote
    BY <1>3 DEF PruneLocal, SkipLocal
  <2>2. QED
    BY <2>1, FS_Subset
<1>4. CASE PruneRemote
  <2>1. remote' \subseteq remote /\ local' = local
    BY <1>4 DEF PruneRemote, FailedCall
  <2>2. QED
    BY <2>1, FS_Subset
<1>5. CASE Start \/ Produce \/ MakeManifest \/ ListLocal \/ Verify \/ ListRemote
  BY <1>5 DEF Start, Produce, MakeManifest, ListLocal, SkipLocal, Verify, ListRemote
<1>6. CASE Cancel \/ Kill \/ Expire \/ UNCHANGED vars
  BY <1>6 DEF Cancel, Kill, Expire, vars
<1>7. QED
  BY <1>1, <1>2, <1>3, <1>4, <1>5, <1>6 DEF Next
-----------------------------------------------------------------------------
(* From its copy on, the run's own archive is the newest local one, and    *)
(* the local pruning is not after it.                                      *)
LocalNewest ==
    /\ pc = "copy" => \A r \in GoodRuns(local) : r < run
    /\ pc \in {"copy manifest", "list local", "prune local"} =>
           /\ Archive(run, TRUE) \in local
           /\ \A o \in ListFiles(local) : o.run = run => o.whole
    /\ pc \in Copying => job.keepLocal > 0
    /\ pc = "prune local" => \A o \in todo : o.kind = "archive" /\ o.run < run

LEMMA LocalNewestStep ==
    ASSUME TypeOK, Finite, Ages, LocalNewest, [Next]_vars
    PROVE  LocalNewest'
<1> USE DEF Continue, Copying
<1>1. job \in Settings /\ local \subseteq Object(Runs)
  BY DEF TypeOK
<1>2. job.keepLocal \in Nat /\ run \in Nat /\ (pc # "idle" => run \in Runs)
  BY <1>1, SettingsFacts, CountersFacts
<1>3. ASSUME pc' \notin Copying PROVE LocalNewest'
  BY <1>3 DEF LocalNewest
<1>4. CASE MakeManifest
  <2>1. pc' \in {"upload", "open copy"} /\ job' = job /\ (job.keepLocal = 0 => pc' = "upload")
    BY <1>4 DEF MakeManifest
  <2>2. CASE pc' = "open copy"
    <3>1. job'.keepLocal > 0
      <4>1. job.keepLocal # 0 /\ job' = job
        BY <2>1, <2>2
      <4>2. job.keepLocal > 0
        BY <1>2, <4>1
      <4>3. QED
        BY <4>1, <4>2
    <3>2. QED
      BY <2>2, <3>1 DEF LocalNewest
  <2>3. QED
    BY <1>3, <2>1, <2>2
<1>5. CASE OpenCopy
  <2>1. CASE local' = Put(local, Archive(run, FALSE)) /\ pc' = "copy" /\ UNCHANGED <<job, run>>
    <3>1. pc = "open copy"
      BY <1>5 DEF OpenCopy
    <3>2. \A o \in local : o.run < run
      BY <3>1 DEF Ages, Uncopied
    <3>3. \A r \in GoodRuns(local') : r < run
      BY <2>1, <3>2 DEF GoodRuns, Put, Archive
    <3>4. QED
      BY <2>1, <3>1, <3>3 DEF LocalNewest
  <2>2. QED
    BY <1>3, <1>5, <2>1 DEF OpenCopy, SkipLocal
<1>6. CASE CopyLocal
  <2>1. CASE local' = Put(local, Archive(run, TRUE)) /\ pc' = "copy manifest" /\ UNCHANGED <<job, run>>
    <3>1. Archive(run, TRUE) \in local'
      BY <2>1 DEF Put
    <3>2. \A o \in ListFiles(local') : o.run = run => o.whole
      <4>1. Archive(run, TRUE).run = run /\ Archive(run, TRUE).kind = "archive"
        BY DEF Archive
      <4>2. Archive(run, TRUE).whole
        BY Zenon DEF Archive
      <4>3. QED
        BY <2>1, <4>1, <4>2 DEF ListFiles, Put
    <3>3. pc = "copy"
      BY <1>6 DEF CopyLocal
    <3>4. QED
      BY <2>1, <3>1, <3>2, <3>3 DEF LocalNewest
  <2>2. QED
    BY <1>3, <1>6, <2>1 DEF CopyLocal, SkipLocal
<1>7. CASE CopyManifest
  <2>1. /\ pc = "copy manifest" /\ pc' = "list local" /\ UNCHANGED <<job, run>>
        /\ local' = local \/ local' = Put(local, Manifest(run))
    BY <1>7 DEF CopyManifest
  <2>2. Archive(run, TRUE).kind = "archive"
    BY DEF Archive
  <2>3. ListFiles(local') = ListFiles(local)
    <3>1. Manifest(run).kind = "manifest"
      BY DEF Manifest
    <3>2. ListFiles(Put(local, Manifest(run))) = ListFiles(local)
      BY <3>1 DEF ListFiles, Put
    <3>3. QED
      BY <2>1, <3>2
  <2>4. Archive(run, TRUE) \in ListFiles(local)
    BY <2>1, <2>2 DEF LocalNewest, ListFiles
  <2>5. Archive(run, TRUE) \in local'
    BY <2>3, <2>4 DEF ListFiles
  <2>6. QED
    BY <2>1, <2>3, <2>5 DEF LocalNewest
<1>8. CASE ListLocal
  <2>1. pc = "list local" /\ UNCHANGED <<job, run, local>>
    BY <1>8 DEF ListLocal, SkipLocal
  <2>2. CASE /\ pc' = "prune local"
             /\ \E q \in NewestFirst(ListFiles(local)) :
                    todo' = FilesToPrune(q, local, job.keepLocal)
    <3>1. PICK q \in NewestFirst(ListFiles(local)) :
              todo' = FilesToPrune(q, local, job.keepLocal)
      BY <2>2
    <3>2. IsFiniteSet(ListFiles(local)) /\ job.keepLocal > 0
      BY <2>1, FS_Subset DEF Finite, ListFiles, LocalNewest
    <3>3. \A o \in todo' : o.kind = "archive" /\ o.run < run
      <4> TAKE o \in todo'
      <4>1. PICK kept \in SUBSET (ListFiles(local) \ todo') :
                   /\ Cardinality(kept) = job.keepLocal
                   /\ \A x \in kept : x # o /\ x.run >= o.run
        BY <1>2, <3>1, <3>2, PrunedHasFloor
      <4>2. o \in ListFiles(local)
        BY <1>2, <3>1, <3>2, PrunedHasFloor
      <4>3. o \in local /\ o.kind = "archive" /\ o.run \in Runs /\ o.run <= run
        BY <1>1, <4>2, ArchiveIs DEF ListFiles, Ages
      <4>4. PICK x \in kept : TRUE
        BY <3>2, <4>1, FS_EmptySet
      <4>5. x \in local /\ x.kind = "archive" /\ x.run \in Runs /\ x.run <= run
        BY <1>1, <4>1, <4>4, ArchiveIs DEF ListFiles, Ages
      <4>6. SUFFICES ASSUME o.run = run PROVE FALSE
        BY <1>2, <4>3 DEF Runs
      <4>7. x.run = run
        BY <1>2, <4>1, <4>3, <4>4, <4>5, <4>6 DEF Runs
      <4>8. o.whole /\ x.whole
        BY <2>1, <4>2, <4>4, <4>6, <4>7 DEF LocalNewest
      <4>9. o = Archive(run, o.whole) /\ x = Archive(run, x.whole)
        BY <1>1, <4>3, <4>5, <4>6, <4>7, ArchiveIs
      <4>10. o.whole \in BOOLEAN /\ x.whole \in BOOLEAN
        BY <1>1, <4>3, <4>5, ArchiveIs
      <4>11. o = x
        BY <4>8, <4>9, <4>10
      <4>12. QED
        BY <4>1, <4>4, <4>11
    <3>4. QED
      BY <2>1, <2>2, <3>3 DEF LocalNewest
  <2>3. QED
    BY <1>3, <1>8, <2>2 DEF ListLocal, SkipLocal
<1>9. CASE PruneLocal
  <2>1. pc = "prune local" /\ UNCHANGED <<job, run>>
    BY <1>9 DEF PruneLocal, SkipLocal
  <2>2. ASSUME NEW o \in todo, NEW m \in {{}, Sidecar(local, o)}, pc' = pc,
               local' = local \ ({o} \cup m), todo' = todo \ {o}
        PROVE  LocalNewest'
    <3>1. o.run # run
      <4>1. o.run < run
        BY <2>1 DEF LocalNewest
      <4>2. QED
        BY <1>2, <4>1
    <3>2. \A x \in {o} \cup m : x.run = o.run
      BY DEF Sidecar
    <3>3. Archive(run, TRUE).run = run
      BY DEF Archive
    <3>4. Archive(run, TRUE) \in local'
      BY <2>1, <2>2, <3>1, <3>2, <3>3 DEF LocalNewest
    <3>5. ListFiles(local') \subseteq ListFiles(local)
      BY <2>2 DEF ListFiles
    <3>6. QED
      BY <2>1, <2>2, <3>4, <3>5 DEF LocalNewest
  <2>3. QED
    BY <1>3, <1>9, <2>1, <2>2 DEF PruneLocal, SkipLocal
<1>10. CASE Cancel \/ Expire \/ UNCHANGED vars
  BY <1>10 DEF Cancel, Expire, vars, LocalNewest
<1>11. CASE Start \/ Produce \/ Kill
  BY <1>3, <1>11 DEF Start, Produce, Kill, Fail, Over
<1>12. CASE Upload \/ UploadManifest \/ Verify \/ ListRemote \/ PruneRemote
  BY <1>3, <1>12 DEF Upload, UploadManifest, Verify, ListRemote, PruneRemote, Fail,
                     Succeed, Over
<1>13. QED
  BY <1>4, <1>5, <1>6, <1>7, <1>8, <1>9, <1>10, <1>11, <1>12 DEF Next

(* What writing and deleting files do to the good archives of a directory. *)
LEMMA GoodAfterArchive ==
    ASSUME NEW dir, NEW r, r \notin GoodRuns(dir)
    PROVE  /\ GoodRuns(Put(dir, Archive(r, TRUE))) = GoodRuns(dir) \cup {r}
           /\ GoodRuns(Put(dir, Archive(r, FALSE))) = GoodRuns(dir)
<1>1. \A w : Archive(r, w).run = r /\ Archive(r, w).kind = "archive"
  BY DEF Archive
<1>2. Archive(r, TRUE).whole /\ ~Archive(r, FALSE).whole
  BY Zenon DEF Archive
<1>3. \A w : \A o \in dir : o.run # r => o \in Put(dir, Archive(r, w))
  BY <1>1 DEF Put
<1>4. \A w : \A o \in Put(dir, Archive(r, w)) : o \in dir \/ o = Archive(r, w)
  BY DEF Put
<1>5. \A w : GoodRuns(dir) \subseteq GoodRuns(Put(dir, Archive(r, w)))
  BY <1>3 DEF GoodRuns
<1>6. r \in GoodRuns(Put(dir, Archive(r, TRUE)))
  <2>1. Archive(r, TRUE) \in Put(dir, Archive(r, TRUE))
    BY DEF Put
  <2>2. QED
    BY <1>1, <1>2, <2>1 DEF GoodRuns
<1>7. /\ GoodRuns(Put(dir, Archive(r, TRUE))) \subseteq GoodRuns(dir) \cup {r}
      /\ GoodRuns(Put(dir, Archive(r, FALSE))) \subseteq GoodRuns(dir)
  BY <1>1, <1>2, <1>4 DEF GoodRuns
<1>8. QED
  BY <1>5, <1>6, <1>7

LEMMA GoodAfterManifest ==
    ASSUME NEW dir, NEW r
    PROVE  GoodRuns(Put(dir, Manifest(r))) = GoodRuns(dir)
<1>1. Manifest(r).kind = "manifest"
  BY DEF Manifest
<1>2. QED
  BY <1>1 DEF GoodRuns, Put

LEMMA GoodAfterDelete ==
    ASSUME NEW dir, NEW o, o.kind = "archive", NEW m, \A x \in m : x.kind = "manifest"
    PROVE  \/ GoodRuns(dir \ ({o} \cup m)) = GoodRuns(dir)
           \/ /\ o.run \in GoodRuns(dir)
              /\ GoodRuns(dir \ ({o} \cup m)) = GoodRuns(dir) \ {o.run}
<1> DEFINE rest == dir \ ({o} \cup m)
<1>1. GoodRuns(rest) \subseteq GoodRuns(dir)
  BY DEF GoodRuns
<1>2. GoodRuns(dir) \subseteq GoodRuns(rest) \cup {o.run}
  <2>1. \A x \in dir : x.kind = "archive" /\ x # o => x \in rest
    OBVIOUS
  <2>2. QED
    BY <2>1 DEF GoodRuns
<1>3. QED
  BY <1>1, <1>2

(* Every step stores a newer copy, gives up one that has a newer one, or   *)
(* leaves the good local copies alone.                                     *)
LEMMA LocalCopiesStep ==
    ASSUME TypeOK, Ages, LocalNewest, [Next]_vars
    PROVE  LocalCopies!Next \/ GoodRuns(local') = GoodRuns(local)
<1>1. run \in Nat /\ (pc # "idle" => run \in Runs)
  BY CountersFacts
<1>2. ASSUME local' = local PROVE GoodRuns(local') = GoodRuns(local)
  BY <1>2
<1>3. CASE OpenCopy
  <2>1. pc = "open copy"
    BY <1>3 DEF OpenCopy
  <2>2. \A r \in GoodRuns(local) : r < run
    BY <2>1 DEF Ages, Uncopied, GoodRuns
  <2>3. run \notin GoodRuns(local)
    BY <1>1, <2>2
  <2>4. QED
    BY <1>2, <1>3, <2>3, GoodAfterArchive DEF OpenCopy, SkipLocal
<1>4. CASE CopyLocal
  <2>1. run \in Runs /\ \A r \in GoodRuns(local) : r < run
    BY <1>1, <1>4 DEF CopyLocal, LocalNewest
  <2>2. run \notin GoodRuns(local)
    BY <1>1, <2>1
  <2>3. CASE local' = Put(local, Archive(run, TRUE))
    <3>1. GoodRuns(local') = GoodRuns(local) \cup {run}
      BY <2>2, <2>3, GoodAfterArchive
    <3>2. QED
      BY <2>1, <3>1 DEF LocalCopies!Next, LocalCopies!Store
  <2>4. QED
    BY <1>2, <1>4, <2>3 DEF CopyLocal, SkipLocal
<1>5. CASE CopyManifest
  BY <1>2, <1>5, GoodAfterManifest DEF CopyManifest
<1>6. CASE PruneLocal
  <2>1. pc = "prune local"
    BY <1>6 DEF PruneLocal
  <2>2. ASSUME NEW o \in todo, NEW m \in {{}, Sidecar(local, o)},
               local' = local \ ({o} \cup m)
        PROVE  LocalCopies!Next \/ GoodRuns(local') = GoodRuns(local)
    <3>1. o.run < run /\ o.kind = "archive" /\ Archive(run, TRUE) \in local
      BY <2>1 DEF LocalNewest
    <3>2. run \in GoodRuns(local)
      <4>1. Archive(run, TRUE).run = run /\ Archive(run, TRUE).kind = "archive"
        BY DEF Archive
      <4>2. Archive(run, TRUE).whole
        BY Zenon DEF Archive
      <4>3. QED
        BY <3>1, <4>1, <4>2 DEF GoodRuns
    <3>3. \A x \in m : x.kind = "manifest"
      BY DEF Sidecar
    <3>4. CASE o.run \in GoodRuns(local) /\ GoodRuns(local') = GoodRuns(local) \ {o.run}
      <4>1. o.run \in Runs
        BY <3>4 DEF GoodRuns, TypeOK, Object
      <4>2. QED
        BY <3>1, <3>2, <3>4, <4>1 DEF LocalCopies!Next, LocalCopies!GiveUp
    <3>5. QED
      BY <2>2, <3>1, <3>3, <3>4, GoodAfterDelete
  <2>3. QED
    BY <1>2, <1>6, <2>2 DEF PruneLocal, SkipLocal
<1>7. CASE Start \/ Produce \/ MakeManifest \/ ListLocal \/ Cancel \/ Kill \/ Expire
  BY <1>2, <1>7 DEF Start, Produce, MakeManifest, ListLocal, SkipLocal, Cancel, Kill,
                    Expire
<1>8. CASE \/ Upload \/ UploadManifest \/ Verify \/ ListRemote \/ PruneRemote
          \/ UNCHANGED vars
  BY <1>2, <1>8 DEF Upload, UploadManifest, Verify, ListRemote, PruneRemote, vars
<1>9. QED
  BY <1>3, <1>4, <1>5, <1>6, <1>7, <1>8 DEF Next

LEMMA FilesInit == Init => Finite /\ Ages /\ LocalNewest
<1> SUFFICES ASSUME Init PROVE Finite /\ Ages /\ LocalNewest
  OBVIOUS
<1>1. pc = "idle" /\ local = {} /\ remote = {}
  BY DEF Init
<1>2. QED
  BY <1>1, FS_EmptySet DEF Finite, Ages, LocalNewest, Uncopied, Unsent, Copying

(* The local directory is a place of retained copies: over any number of   *)
(* runs, with failures, full disks, kills and changes of the settings, a   *)
(* good copy is deleted only while a newer good one is there.              *)
THEOREM LocalCopiesKept == Spec => KeepsLocalCopies
<1>1. Init => TypeOK /\ Finite /\ Ages /\ LocalNewest
  BY TypeInit, FilesInit
<1>2. TypeOK /\ Finite /\ Ages /\ LocalNewest /\ [Next]_vars
      => TypeOK' /\ Finite' /\ Ages' /\ LocalNewest'
  BY TypeStep, FiniteStep, AgesStep, LocalNewestStep
<1>3. Init => LocalCopies!Init
  BY DEF Init, LocalCopies!Init, GoodRuns
<1>4. TypeOK /\ Ages /\ LocalNewest /\ [Next]_vars
      => [LocalCopies!Next]_(GoodRuns(local))
  BY LocalCopiesStep
<1>5. QED
  BY <1>1, <1>2, <1>3, <1>4, PTL DEF Spec, KeepsLocalCopies, LocalCopies!Spec
-----------------------------------------------------------------------------
(* Files that are newer than o, are not to be deleted, and are enough. *)
Floor(o) ==
    \E newer \in SUBSET (ListFiles(remote) \ todo) :
        Cardinality(newer) = job.minKeep /\ \A x \in newer : x.run > o.run

(* Whatever the loop of deletions has still to delete is expired and has   *)
(* its floor; no run has two archives on the remote.                       *)
FloorKept ==
    /\ \A a, b \in ListFiles(remote) : a.run = b.run => a = b
    /\ pc = "prune remote" =>
           \A o \in todo : o \in ListFiles(remote) /\ o.run <= expiredTo /\ Floor(o)

(* One turn of Prune's loop, whatever came of its calls. *)
LEMMA PruneTurn ==
    ASSUME PruneRemote
    PROVE  /\ pc = "prune remote" /\ UNCHANGED <<job, run, expiredTo, local>>
           /\ warn \subseteq warn'
           /\ \/ remote' = remote /\ todo' = {}
              \/ \E o \in todo : \E m \in {{}, Sidecar(remote, o)} :
                    /\ remote' = remote \ ({o} \cup m)
                    /\ pc' = pc /\ todo' \in {{}, todo \ {o}}
<1>1. /\ pc = "prune remote" /\ UNCHANGED <<job, run, expiredTo, local>>
      /\ warn \subseteq warn'
  BY DEF PruneRemote, Succeed, Over, Continue, Warn
<1>2. CASE todo = {} /\ Succeed /\ UNCHANGED remote
  BY <1>1, <1>2 DEF Succeed, Over
<1>3. ASSUME NEW o \in todo, ~cancelled,
             \E m \in {{}, Sidecar(remote, o)} : remote' = remote \ ({o} \cup m),
             todo' = todo \ {o}, Continue(pc)
      PROVE  \E m \in {{}, Sidecar(remote, o)} :
                 remote' = remote \ ({o} \cup m) /\ pc' = pc /\ todo' = todo \ {o}
  BY <1>3 DEF Continue
<1>4. ASSUME NEW o \in todo, FailedCall(remote \ {o}), todo' = {}, Continue(pc)
      PROVE  \/ remote' = remote
             \/ remote' = remote \ ({o} \cup {}) /\ pc' = pc
  BY <1>4 DEF FailedCall, Continue
<1>5. QED
  BY <1>1, <1>2, <1>3, <1>4 DEF PruneRemote

(* Nothing that is not an archive counts for the listing. *)
LEMMA ListAfterManifest ==
    ASSUME NEW dir, NEW r
    PROVE  ListFiles(Put(dir, Manifest(r))) = ListFiles(dir)
<1>1. Manifest(r).kind = "manifest"
  BY DEF Manifest
<1>2. QED
  BY <1>1 DEF ListFiles, Put

LEMMA FloorStep ==
    ASSUME TypeOK, Finite, FloorKept, [Next]_vars
    PROVE  FloorKept'
<1>1. remote \subseteq Object(Runs) /\ job \in Settings
  BY DEF TypeOK
<1>2. job.minKeep \in Nat /\ expiredTo \in Nat
  BY <1>1, SettingsFacts, CountersFacts
<1>3. \A o \in ListFiles(remote) : o.run \in Nat
  <2>1. Runs \subseteq Nat
    BY DEF Runs
  <2>2. QED
    BY <1>1, <2>1, ArchiveIs DEF ListFiles
<1>4. ASSUME pc' # "prune remote", ListFiles(remote') = ListFiles(remote)
      PROVE  FloorKept'
  BY <1>4 DEF FloorKept
<1>5. CASE Start \/ Produce \/ MakeManifest \/ Verify \/ Kill
  BY <1>4, <1>5 DEF Start, Produce, MakeManifest, Verify, Kill, Fail, Over, Continue
<1>6. CASE OpenCopy \/ CopyLocal \/ CopyManifest \/ ListLocal \/ PruneLocal
  BY <1>4, <1>6 DEF OpenCopy, CopyLocal, CopyManifest, ListLocal, PruneLocal, SkipLocal,
                    Continue
<1>7. CASE Upload
  <2>1. pc' # "prune remote"
    BY <1>7 DEF Upload, Fail, Over, Continue
  <2>2. remote' = remote \/ \E w : remote' = Put(remote, Archive(run, w))
    BY <1>7 DEF Upload, FailedCall
  <2>3. ASSUME NEW w, remote' = Put(remote, Archive(run, w)) PROVE FloorKept'
    <3>1. Archive(run, w).run = run /\ Archive(run, w).kind = "archive"
      BY DEF Archive
    <3>2. \A a \in ListFiles(remote') : \/ a = Archive(run, w)
                                        \/ a \in ListFiles(remote) /\ a.run # run
      BY <2>3, <3>1 DEF ListFiles, Put
    <3>3. \A a, b \in ListFiles(remote') : a.run = b.run => a = b
      BY <3>1, <3>2 DEF FloorKept
    <3>4. QED
      BY <2>1, <3>3 DEF FloorKept
  <2>4. QED
    BY <1>4, <2>1, <2>2, <2>3
<1>8. CASE UploadManifest
  BY <1>4, <1>8, ListAfterManifest DEF UploadManifest, FailedCall, Continue
<1>9. CASE ListRemote
  <2>1. pc = "list remote" /\ todo = {} /\ UNCHANGED <<job, expiredTo, remote>>
    BY <1>9 DEF ListRemote, Succeed, Over, Continue, TypeOK
  <2>2. CASE todo' = {}
    BY <2>1, <2>2 DEF FloorKept
  <2>3. CASE \E q \in NewestFirst(ListFiles(remote)) :
                 todo' = FilesToPrune(q, {o \in remote : o.run <= expiredTo}, job.minKeep)
    <3> DEFINE Expired == {o \in remote : o.run <= expiredTo}
    <3>1. PICK q \in NewestFirst(ListFiles(remote)) :
              todo' = FilesToPrune(q, Expired, job.minKeep)
      BY <2>3
    <3>2. IsFiniteSet(ListFiles(remote))
      BY FS_Subset DEF Finite, ListFiles
    <3>3. ASSUME NEW o \in todo'
          PROVE  o \in ListFiles(remote) /\ o.run <= expiredTo /\ Floor(o)'
      <4>1. o \in ListFiles(remote) /\ o \in Expired
        BY <1>2, <3>1, <3>2, PrunedHasFloor
      <4>2. PICK kept \in SUBSET (ListFiles(remote) \ todo') :
                   /\ Cardinality(kept) = job.minKeep
                   /\ \A x \in kept : x # o /\ x.run >= o.run
        <5> HIDE DEF Expired
        <5>1. o \in FilesToPrune(q, Expired, job.minKeep)
          BY <3>1, <3>3
        <5>2. \E kept \in SUBSET (ListFiles(remote) \ FilesToPrune(q, Expired, job.minKeep)) :
                   /\ Cardinality(kept) = job.minKeep
                   /\ \A x \in kept : x # o /\ x.run >= o.run
          BY <1>2, <3>2, <5>1, PrunedHasFloor
        <5>3. QED
          BY <3>1, <5>2
      <4>3. \A x \in kept : x.run # o.run
        BY <4>1, <4>2 DEF FloorKept
      <4>4. \A x \in kept : x.run > o.run
        BY <1>3, <4>1, <4>2, <4>3
      <4>5. Floor(o)'
        BY <2>1, <4>2, <4>4 DEF Floor
      <4>6. QED
        BY <4>1, <4>5
    <3>4. QED
      BY <2>1, <3>3 DEF FloorKept
  <2>4. QED
    BY <1>4, <1>9, <2>1, <2>2, <2>3 DEF ListRemote, Succeed, Over
<1>10. CASE PruneRemote
  <2>1. pc = "prune remote" /\ UNCHANGED <<job, expiredTo>>
    BY <1>10, PruneTurn
  <2>2. CASE remote' = remote /\ todo' = {}
    BY <2>2 DEF FloorKept
  <2>3. ASSUME NEW o \in todo, NEW m \in {{}, Sidecar(remote, o)},
               remote' = remote \ ({o} \cup m), todo' \in {{}, todo \ {o}}
        PROVE  FloorKept'
    <3>1. \A x \in m : x.kind = "manifest"
      BY DEF Sidecar
    <3>2. ListFiles(remote') = ListFiles(remote) \ {o}
      BY <2>3, <3>1 DEF ListFiles
    <3>3. ASSUME NEW p \in todo'
          PROVE  p \in ListFiles(remote') /\ p.run <= expiredTo' /\ Floor(p)'
      <4>1. p \in todo /\ p # o /\ todo' = todo \ {o}
        BY <2>3, <3>3
      <4>2. p \in ListFiles(remote) /\ p.run <= expiredTo /\ Floor(p)
        BY <2>1, <4>1 DEF FloorKept
      <4>3. ListFiles(remote') \ todo' = ListFiles(remote) \ todo
        BY <2>3, <3>2, <4>1
      <4>4. Floor(p)'
        BY <2>1, <4>2, <4>3 DEF Floor
      <4>5. QED
        BY <2>1, <3>2, <4>1, <4>2, <4>4
    <3>4. QED
      BY <3>2, <3>3 DEF FloorKept
  <2>4. QED
    BY <1>10, <2>2, <2>3, PruneTurn
<1>11. CASE Expire
  <2>1. expiredTo' = expiredTo + 1 /\ UNCHANGED <<pc, job, remote, todo>>
    BY <1>11 DEF Expire
  <2>2. \A o \in ListFiles(remote) : o.run <= expiredTo => o.run <= expiredTo'
    BY <1>2, <1>3, <2>1
  <2>3. QED
    BY <2>1, <2>2 DEF FloorKept, Floor
<1>12. CASE Cancel \/ UNCHANGED vars
  BY <1>12 DEF Cancel, vars, FloorKept, Floor
<1>13. QED
  BY <1>5, <1>6, <1>7, <1>8, <1>9, <1>10, <1>11, <1>12 DEF Next

LEMMA FloorInit == Init => FloorKept
<1> SUFFICES ASSUME Init PROVE FloorKept
  OBVIOUS
<1>1. pc = "idle" /\ remote = {}
  BY DEF Init
<1>2. QED
  BY <1>1 DEF FloorKept, ListFiles

(* The archives a step takes from the remote were expired and have their   *)
(* floor left.                                                             *)
LEMMA RemoteFloorStep ==
    ASSUME TypeOK, Finite, Ages, FloorKept, [Next]_vars,
           NEW o \in ListFiles(remote) \ ListFiles(remote')
    PROVE  /\ o.run <= expiredTo
           /\ Cardinality({x \in ListFiles(remote') : x.run > o.run}) >= job.minKeep
<1>1. run \in Nat /\ (pc = "upload" => \A x \in remote : x.run < run)
  BY CountersFacts DEF Ages, Unsent
<1>2. ASSUME Upload PROVE FALSE
  <2>1. pc = "upload" /\ (remote' = remote \/ \E w : remote' = Put(remote, Archive(run, w)))
    BY <1>2 DEF Upload, FailedCall
  <2>2. o \in remote /\ o \notin remote' /\ o.kind = "archive"
    BY DEF ListFiles
  <2>3. o.run = run
    BY <2>1, <2>2 DEF Put, Archive
  <2>4. o.run < run
    BY <1>1, <2>1, <2>2
  <2>5. QED
    BY <1>1, <2>3, <2>4
<1>3. ASSUME UploadManifest PROVE FALSE
  BY <1>3, ListAfterManifest DEF UploadManifest, FailedCall
<1>4. PruneRemote
  <2>1. remote' # remote
    OBVIOUS
  <2>2. CASE Start \/ Produce \/ MakeManifest \/ OpenCopy \/ CopyLocal \/ CopyManifest
    BY <2>1, <2>2 DEF Start, Produce, MakeManifest, OpenCopy, CopyLocal, CopyManifest
  <2>3. CASE \/ ListLocal \/ PruneLocal \/ Verify \/ ListRemote \/ Cancel \/ Kill
             \/ Expire \/ UNCHANGED vars
    BY <2>1, <2>3 DEF ListLocal, PruneLocal, Verify, ListRemote, Cancel, Kill, Expire, vars
  <2>4. QED
    BY <1>2, <1>3, <2>2, <2>3 DEF Next
<1>5. PICK d \in todo : \E m \in {{}, Sidecar(remote, d)} : remote' = remote \ ({d} \cup m)
  BY <1>4, PruneTurn
<1>6. pc = "prune remote"
  BY <1>4, PruneTurn
<1>7. ListFiles(remote') = ListFiles(remote) \ {d}
  BY <1>5 DEF ListFiles, Sidecar
<1>8. o = d
  BY <1>7
<1>9. o.run <= expiredTo /\ Floor(o)
  BY <1>5, <1>6, <1>8 DEF FloorKept
<1>10. PICK newer \in SUBSET (ListFiles(remote) \ todo) :
           Cardinality(newer) = job.minKeep /\ \A x \in newer : x.run > o.run
  BY <1>9 DEF Floor
<1> DEFINE Newer == {x \in ListFiles(remote') : x.run > o.run}
<1>11. newer \subseteq Newer
  BY <1>5, <1>7, <1>10
<1>12. IsFiniteSet(Newer)
  <2>1. Newer \subseteq remote
    BY <1>7 DEF ListFiles
  <2>2. QED
    BY <2>1, FS_Subset DEF Finite
<1>13. Cardinality(newer) <= Cardinality(Newer)
  BY <1>11, <1>12, FS_Subset
<1>14. Cardinality(Newer) \in Nat /\ job.minKeep \in Nat
  BY <1>12, FS_CardinalityType, SettingsFacts DEF TypeOK
<1>15. QED
  BY <1>9, <1>10, <1>13, <1>14

(* Prune's guarantee: over any number of runs and prunes, completed,       *)
(* failed, cancelled or killed, no archive leaves the remote that is not   *)
(* past its retention or does not have min_files_to_keep newer ones.       *)
THEOREM RemoteFloorKept == Spec => RemoteFloor
<1>1. Init => TypeOK /\ Finite /\ Ages /\ FloorKept
  BY TypeInit, FilesInit, FloorInit
<1>2. TypeOK /\ Finite /\ Ages /\ FloorKept /\ [Next]_vars
      => TypeOK' /\ Finite' /\ Ages' /\ FloorKept'
  BY TypeStep, FiniteStep, AgesStep, FloorStep
<1>3. TypeOK /\ Finite /\ Ages /\ FloorKept /\ [Next]_vars
      => [\A o \in ListFiles(remote) \ ListFiles(remote') :
            /\ o.run <= expiredTo
            /\ Cardinality({x \in ListFiles(remote') : x.run > o.run}) >= job.minKeep]_vars
  BY RemoteFloorStep
<1>4. QED
  BY <1>1, <1>2, <1>3, PTL DEF Spec, RemoteFloor
-----------------------------------------------------------------------------
(* Each step leaves behind what it has done, or a warning. *)
Reported ==
    /\ pc \in {"produce", "manifest"} => ~hasManifest /\ warn = {}
    /\ pc \in Copying \cup Uploading => hasManifest \/ "manifest" \in warn
    /\ pc \in {"list local", "prune local"} =>
           (warn \cap {"manifest", "local manifest"} = {} => Manifest(run) \in local)
    /\ pc \in Uploading => LocalTold
    /\ pc \in {"verify", "list remote", "prune remote"} => ManifestTold
    /\ pc \in {"list remote", "prune remote"} => ArchiveTold
    /\ result = "success" => pc = "idle"
    /\ StatusTellsAll

(* A run that has failed, or has begun again, has nothing to tell. *)
LEMMA NothingTold ==
    ASSUME pc' = "idle", result' # "success"
    PROVE  Reported'
BY DEF Reported, StatusTellsAll, Copying, Uploading, Verifying

(* A warning more takes nothing back. *)
LEMMA StillTold ==
    ASSUME UNCHANGED <<job, run>>, warn \subseteq warn'
    PROVE  /\ local' = local /\ LocalTold => LocalTold'
           /\ remote' = remote /\ ManifestTold => ManifestTold'
           /\ remote' = remote /\ ArchiveTold => ArchiveTold'
BY DEF LocalTold, ManifestTold, ArchiveTold

LEMMA ReportedStep ==
    ASSUME TypeOK, Ages, LocalNewest, FloorKept, Reported, [Next]_vars
    PROVE  Reported'
<1> USE DEF Continue, Copying, Uploading, Verifying
<1>1. run \in Nat /\ job \in Settings /\ job.keepLocal \in Nat
  BY CountersFacts, SettingsFacts DEF TypeOK
<1>2. pc # "idle" => result # "success"
  BY DEF Reported
<1>3. CASE Start
  BY <1>3 DEF Start, Reported, StatusTellsAll, TypeOK
<1>4. CASE Produce
  <2>1. CASE Fail("not produced")
    BY <2>1, NothingTold DEF Fail, Over
  <2>2. CASE pc' = "manifest" /\ UNCHANGED <<result, hasManifest, warn>>
    BY <1>2, <1>4, <2>2 DEF Produce, Reported, StatusTellsAll
  <2>3. QED
    BY <1>4, <2>1, <2>2 DEF Produce
<1>5. CASE MakeManifest
  <2>1. /\ pc = "manifest" /\ pc' = IF job.keepLocal = 0 THEN "upload" ELSE "open copy"
        /\ UNCHANGED <<job, result>>
    BY <1>5 DEF MakeManifest
  <2>2. hasManifest' \/ "manifest" \in warn'
    BY <1>5 DEF MakeManifest, Warn
  <2>3. pc' = "upload" => LocalTold'
    <3>1. pc' = "upload" => job' = job /\ job.keepLocal = 0
      BY <2>1
    <3>2. ~(job.keepLocal > 0) \/ pc' # "upload"
      BY <1>1, <3>1
    <3>3. QED
      BY <3>1, <3>2 DEF LocalTold
  <2>4. QED
    BY <1>2, <2>1, <2>2, <2>3 DEF Reported, StatusTellsAll
<1>6. ASSUME NEW w \in Warnings \ {"manifest"}, SkipLocal(w), hasManifest' = hasManifest,
             pc \in Copying, LocalTold'
      PROVE  Reported'
  BY <1>2, <1>6 DEF SkipLocal, Warn, Reported, StatusTellsAll
<1>7. CASE OpenCopy \/ CopyLocal
  <2>1. pc \in {"open copy", "copy"} /\ hasManifest' = hasManifest
    BY <1>7 DEF OpenCopy, CopyLocal
  <2>2. CASE SkipLocal("local copy")
    <3>1. LocalTold'
      BY <2>2 DEF SkipLocal, Warn, LocalTold
    <3>2. QED
      BY <1>6, <2>1, <2>2, <3>1 DEF Warnings
  <2>3. CASE pc' \in {"copy", "copy manifest"} /\ UNCHANGED <<result, warn>>
    BY <1>2, <2>1, <2>3 DEF Reported, StatusTellsAll
  <2>4. QED
    BY <1>7, <2>2, <2>3 DEF OpenCopy, CopyLocal
<1>8. CASE CopyManifest
  <2>1. pc = "copy manifest" /\ pc' = "list local" /\ UNCHANGED <<run, result, hasManifest>>
    BY <1>8 DEF CopyManifest
  <2>2. hasManifest \/ "manifest" \in warn
    BY <2>1 DEF Reported
  <2>3. /\ hasManifest' \/ "manifest" \in warn'
        /\ warn' \cap {"manifest", "local manifest"} = {} => Manifest(run) \in local'
    <3>1. Manifest(run) \in Put(local, Manifest(run))
      BY DEF Put
    <3>2. warn \subseteq warn' /\ hasManifest' = hasManifest
      BY <1>8 DEF CopyManifest, Warn
    <3>3. hasManifest => \/ "local manifest" \in warn'
                         \/ local' = Put(local, Manifest(run))
      BY <1>8 DEF CopyManifest, Warn
    <3>4. QED
      BY <2>2, <3>1, <3>2, <3>3
  <2>4. QED
    BY <1>2, <2>1, <2>2, <2>3 DEF Reported, StatusTellsAll
<1>9. CASE ListLocal \/ PruneLocal
  <2>1. pc \in {"list local", "prune local"} /\ UNCHANGED <<job, run, result, hasManifest>>
    BY <1>9 DEF ListLocal, PruneLocal, SkipLocal
  <2>2. LocalTold
    BY <2>1 DEF Reported, LocalNewest, LocalTold
  <2>3. CASE SkipLocal("local prune")
    <3>1. LocalTold'
      BY <2>1, <2>2, <2>3, StillTold DEF SkipLocal, Warn
    <3>2. QED
      BY <1>6, <2>1, <2>3, <3>1 DEF Warnings
  <2>4. CASE pc' \in {"prune local", "upload"} /\ UNCHANGED <<local, warn>>
    BY <1>2, <2>1, <2>2, <2>4, StillTold DEF Reported, StatusTellsAll
  <2>5. ASSUME NEW o \in todo, NEW m \in {{}, Sidecar(local, o)}, pc = "prune local",
               local' = local \ ({o} \cup m), pc' = pc, warn' = warn
        PROVE  Reported'
    <3>1. o.run < run
      BY <2>5 DEF LocalNewest
    <3>2. o.run # run
      BY <1>1, <3>1
    <3>3. \A x \in {o} \cup m : x.run = o.run
      BY DEF Sidecar
    <3>4. Manifest(run).run = run
      BY DEF Manifest
    <3>5. Manifest(run) \in local => Manifest(run) \in local'
      BY <2>5, <3>2, <3>3, <3>4
    <3>6. QED
      BY <1>2, <2>1, <2>5, <3>5 DEF Reported, StatusTellsAll
  <2>6. QED
    BY <1>9, <2>3, <2>4, <2>5 DEF ListLocal, PruneLocal
<1>10. CASE Upload
  <2>1. CASE Fail("not uploaded")
    BY <2>1, NothingTold DEF Fail, Over
  <2>2. CASE pc' = IF hasManifest THEN "upload manifest" ELSE "list remote"
    <3>1. /\ pc = "upload" /\ UNCHANGED <<job, run, result, hasManifest, warn, local>>
      BY <1>10, <2>2 DEF Upload, Fail, Over
    <3>2. LocalTold'
      BY <3>1, StillTold DEF Reported
    <3>3. hasManifest \/ "manifest" \in warn
      BY <3>1 DEF Reported
    <3>4. ASSUME ~hasManifest PROVE ManifestTold' /\ ArchiveTold'
      BY <3>1, <3>3, <3>4 DEF ManifestTold, ArchiveTold
    <3>5. \/ hasManifest /\ pc' = "upload manifest"
          \/ ~hasManifest /\ pc' = "list remote"
      BY <2>2
    <3>6. hasManifest' \/ "manifest" \in warn'
      BY <3>1, <3>3
    <3>7. QED
      BY <1>2, <3>1, <3>2, <3>4, <3>5, <3>6 DEF Reported, StatusTellsAll
  <2>3. QED
    BY <1>10, <2>1, <2>2 DEF Upload
<1>11. CASE UploadManifest
  <2>1. /\ pc = "upload manifest" /\ pc' = "verify" /\ warn \subseteq warn'
        /\ UNCHANGED <<job, run, result, hasManifest, local>>
    BY <1>11 DEF UploadManifest, Warn
  <2>2. hasManifest' \/ "manifest" \in warn'
    <3>1. hasManifest \/ "manifest" \in warn
      BY <2>1 DEF Reported
    <3>2. QED
      BY <2>1, <3>1
  <2>3. ManifestTold'
    BY <1>11 DEF UploadManifest, Warn, ManifestTold, Put
  <2>4. QED
    BY <1>2, <2>1, <2>2, <2>3, StillTold DEF Reported, StatusTellsAll
<1>12. CASE Verify
  <2>1. CASE Fail("not verified")
    BY <2>1, NothingTold DEF Fail, Over
  <2>2. CASE Archive(run, TRUE) \in remote /\ pc' = "list remote"
    <3>1. /\ pc = "verify"
          /\ UNCHANGED <<job, run, result, hasManifest, warn, local, remote>>
      BY <1>12, <2>2 DEF Verify, Fail, Over
    <3>2. ArchiveTold'
      BY <2>2, <3>1 DEF ArchiveTold
    <3>3. QED
      BY <1>2, <2>2, <3>1, <3>2, StillTold DEF Reported, StatusTellsAll
  <2>3. QED
    BY <1>12, <2>1, <2>2 DEF Verify
<1>13. ASSUME Succeed, UNCHANGED <<local, remote>>, pc \in {"list remote", "prune remote"}
       PROVE  Reported'
  <2>1. pc' = "idle" /\ UNCHANGED <<job, run, warn>>
    BY <1>13 DEF Succeed, Over
  <2>2. ArchiveTold' /\ ManifestTold' /\ LocalTold'
    BY <1>13, <2>1, StillTold DEF Reported
  <2>3. QED
    BY <2>1, <2>2 DEF Reported, StatusTellsAll
<1>14. ASSUME pc \in {"list remote", "prune remote"}, pc' = "prune remote",
              UNCHANGED <<job, run, result, hasManifest, local>>, warn \subseteq warn',
              \A o \in {Archive(run, TRUE), Manifest(run)} : o \in remote => o \in remote'
       PROVE  Reported'
  <2>1. LocalTold'
    BY <1>14, StillTold DEF Reported
  <2>2. ArchiveTold' /\ ManifestTold'
    BY <1>14 DEF Reported, ArchiveTold, ManifestTold
  <2>3. hasManifest' \/ "manifest" \in warn'
    <3>1. hasManifest \/ "manifest" \in warn
      BY <1>14 DEF Reported
    <3>2. QED
      BY <1>14, <3>1
  <2>4. QED
    BY <1>2, <1>14, <2>1, <2>2, <2>3 DEF Reported, StatusTellsAll
<1>15. CASE ListRemote
  <2>1. pc = "list remote" /\ UNCHANGED <<local, remote>>
    BY <1>15 DEF ListRemote
  <2>2. CASE Succeed
    BY <1>13, <2>1, <2>2
  <2>3. CASE /\ pc' = "prune remote" /\ warn \subseteq warn'
             /\ UNCHANGED <<job, run, result, hasManifest>>
    BY <1>14, <2>1, <2>3
  <2>4. QED
    BY <1>15, <2>2, <2>3 DEF ListRemote, Warn
<1>16. CASE PruneRemote
  <2>1. pc = "prune remote" /\ UNCHANGED <<job, run, local>> /\ warn \subseteq warn'
    BY <1>16, PruneTurn
  <2>2. CASE Succeed
    BY <1>13, <1>16, <2>2 DEF PruneRemote, Succeed, Over
  <2>3. CASE pc' = pc
    <3>1. UNCHANGED <<result, hasManifest>>
      BY <1>16, <2>1, <2>3 DEF PruneRemote, Succeed, Over
    <3>2. \A o \in todo : o.run # run
      <4>1. \A o \in todo : o \in ListFiles(remote) /\ o.run <= expiredTo
        BY <2>1 DEF FloorKept
      <4>2. expiredTo \in Nat /\ expiredTo < run
        BY <2>1, CountersFacts DEF Ages
      <4>3. QED
        BY <1>1, <4>1, <4>2
    <3>3. Archive(run, TRUE).run = run /\ Manifest(run).run = run
      BY DEF Archive, Manifest
    <3>4. \A o \in {Archive(run, TRUE), Manifest(run)} : o \in remote => o \in remote'
      BY <1>16, <3>2, <3>3, PruneTurn DEF Sidecar
    <3>5. QED
      BY <1>14, <2>1, <2>3, <3>1, <3>4
  <2>4. QED
    BY <1>16, <2>2, <2>3 DEF PruneRemote
<1>17. CASE Cancel \/ Expire \/ UNCHANGED vars
  <2>1. UNCHANGED <<pc, job, run, hasManifest, local, remote, result, warn>>
    BY <1>17 DEF Cancel, Expire, vars
  <2>2. /\ LocalTold => LocalTold'
        /\ ManifestTold => ManifestTold'
        /\ ArchiveTold => ArchiveTold'
    BY <2>1, StillTold
  <2>3. StatusTellsAll => StatusTellsAll'
    BY <2>1, <2>2 DEF StatusTellsAll
  <2>4. QED
    BY <2>1, <2>2, <2>3 DEF Reported
<1>18. CASE Kill
  BY <1>18, NothingTold DEF Kill, Fail, Over
<1>19. QED
  BY <1>3, <1>4, <1>5, <1>7, <1>8, <1>9, <1>10, <1>11, <1>12, <1>15, <1>16, <1>17,
     <1>18 DEF Next

LEMMA ReportedInit == Init => Reported
<1> SUFFICES ASSUME Init PROVE Reported
  OBVIOUS
<1>1. pc = "idle" /\ result = "none"
  BY DEF Init
<1>2. QED
  BY <1>1 DEF Reported, StatusTellsAll, Copying, Uploading, Verifying

(* All the facts about the remote directory, in one. *)
Inv == TypeOK /\ Finite /\ Ages /\ LocalNewest /\ FloorKept /\ Reported

LEMMA InvHolds == Spec => []Inv
<1>1. Init => Inv
  BY TypeInit, FilesInit, FloorInit, ReportedInit DEF Inv
<1>2. ASSUME Inv, [Next]_vars PROVE Inv'
  <2>1. TypeOK /\ Finite /\ Ages /\ LocalNewest /\ FloorKept /\ Reported
    BY <1>2 DEF Inv
  <2>2. TypeOK' /\ Finite' /\ Ages' /\ LocalNewest'
    BY <1>2, <2>1, TypeStep, FiniteStep, AgesStep, LocalNewestStep
  <2>3. FloorKept' /\ Reported'
    BY <1>2, <2>1, FloorStep, ReportedStep
  <2>4. QED
    BY <2>2, <2>3 DEF Inv
<1>3. QED
  BY <1>1, <1>2, PTL DEF Spec

(* Whatever failed in a run that LastBackupStatus calls a success is named *)
(* among its warnings: what no warning names is on the remote and on the   *)
(* local disk, whole.                                                      *)
THEOREM StatusTold == Spec => []StatusTellsAll
<1>1. Inv => StatusTellsAll
  BY DEF Inv, Reported
<1>2. QED
  BY <1>1, InvHolds, PTL

(* Every step stores a newer copy, gives up one that has a newer one, or   *)
(* leaves the good remote copies alone, unless the run has no manifest.    *)
LEMMA RemoteCopiesStep ==
    ASSUME TypeOK, Ages, FloorKept, Reported, [Next]_vars
    PROVE  \/ RemoteCopies!Next \/ "manifest" \in warn
           \/ GoodRuns(remote') = GoodRuns(remote)
<1>1. run \in Nat /\ (pc # "idle" => run \in Runs)
  BY CountersFacts
<1>2. ASSUME remote' = remote PROVE GoodRuns(remote') = GoodRuns(remote)
  BY <1>2
<1>3. ASSUME pc = "upload", NEW w \in BOOLEAN, remote' = Put(remote, Archive(run, w))
      PROVE  RemoteCopies!Next \/ GoodRuns(remote') = GoodRuns(remote)
  <2>1. run \in Runs
    BY <1>1, <1>3
  <2>2. \A r \in GoodRuns(remote) : r < run
    BY <1>3 DEF Ages, Unsent, GoodRuns
  <2>3. run \notin GoodRuns(remote)
    BY <1>1, <2>2
  <2>4. CASE w = TRUE
    <3>1. GoodRuns(remote') = GoodRuns(remote) \cup {run}
      BY <1>3, <2>3, <2>4, GoodAfterArchive
    <3>2. QED
      BY <2>1, <2>2, <3>1 DEF RemoteCopies!Next, RemoteCopies!Store
  <2>5. CASE w = FALSE
    BY <1>3, <2>3, <2>5, GoodAfterArchive
  <2>6. QED
    BY <2>4, <2>5
<1>4. CASE Upload
  <2>1. pc = "upload"
    BY <1>4 DEF Upload
  <2>2. remote' = remote \/ \E w \in BOOLEAN : remote' = Put(remote, Archive(run, w))
    BY <1>4 DEF Upload, FailedCall
  <2>3. QED
    BY <1>2, <1>3, <2>1, <2>2
<1>5. CASE UploadManifest
  <2>1. remote' = remote \/ remote' = Put(remote, Manifest(run))
    BY <1>5 DEF UploadManifest, FailedCall
  <2>2. QED
    BY <1>2, <2>1, GoodAfterManifest
<1>6. CASE PruneRemote
  <2>1. pc = "prune remote"
    BY <1>6, PruneTurn
  <2>2. SUFFICES ASSUME "manifest" \notin warn, NEW o \in todo,
                        NEW m \in {{}, Sidecar(remote, o)},
                        remote' = remote \ ({o} \cup m)
                 PROVE  RemoteCopies!Next \/ GoodRuns(remote') = GoodRuns(remote)
    BY <1>2, <1>6, PruneTurn
  <2>3. run \in GoodRuns(remote)
    <3>1. Archive(run, TRUE) \in remote
      BY <2>1, <2>2 DEF Reported, ArchiveTold
    <3>2. Archive(run, TRUE).run = run /\ Archive(run, TRUE).kind = "archive"
      BY DEF Archive
    <3>3. Archive(run, TRUE).whole
      BY Zenon DEF Archive
    <3>4. QED
      BY <3>1, <3>2, <3>3 DEF GoodRuns
  <2>4. o.kind = "archive" /\ o.run < run
    <3>1. o \in ListFiles(remote) /\ o.run <= expiredTo
      BY <2>1 DEF FloorKept
    <3>2. expiredTo < run /\ expiredTo \in Nat
      BY <2>1, CountersFacts DEF Ages
    <3>3. o \in remote /\ o.kind = "archive" /\ remote \subseteq Object(Runs)
      BY <3>1 DEF ListFiles, TypeOK
    <3>4. o.run \in Nat
      BY <3>3 DEF Object, Runs
    <3>5. QED
      BY <1>1, <3>1, <3>2, <3>3, <3>4
  <2>5. \A x \in m : x.kind = "manifest"
    BY DEF Sidecar
  <2>6. CASE o.run \in GoodRuns(remote) /\ GoodRuns(remote') = GoodRuns(remote) \ {o.run}
    <3>1. o.run \in Runs
      BY <2>6 DEF GoodRuns, TypeOK, Object
    <3>2. QED
      BY <2>3, <2>4, <2>6, <3>1 DEF RemoteCopies!Next, RemoteCopies!GiveUp
  <2>7. QED
    BY <2>2, <2>4, <2>5, <2>6, GoodAfterDelete
<1>7. CASE \/ Start \/ Produce \/ MakeManifest \/ OpenCopy \/ CopyLocal \/ CopyManifest
          \/ ListLocal \/ PruneLocal
  BY <1>2, <1>7 DEF Start, Produce, MakeManifest, OpenCopy, CopyLocal, CopyManifest,
                    ListLocal, PruneLocal
<1>8. CASE Verify \/ ListRemote \/ Cancel \/ Kill \/ Expire \/ UNCHANGED vars
  BY <1>2, <1>8 DEF Verify, ListRemote, Cancel, Kill, Expire, vars
<1>9. QED
  BY <1>4, <1>5, <1>6, <1>7, <1>8 DEF Next

(* So is the remote directory, in every run that has a manifest: a good    *)
(* remote archive is deleted only while a newer good one is there, because *)
(* nothing is pruned before the run's own archive is verified.             *)
THEOREM RemoteCopiesKept == Spec => KeepsRemoteCopies
<1>1. Inv /\ [Next]_vars
      => [RemoteCopies!Next \/ "manifest" \in warn
                            \/ GoodRuns(remote') = GoodRuns(remote)]_vars
  BY RemoteCopiesStep DEF Inv
<1>2. QED
  BY <1>1, InvHolds, PTL DEF Spec, KeepsRemoteCopies
=============================================================================
