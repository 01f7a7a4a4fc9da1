--------------------------- MODULE GenerateProofs ---------------------------
(***************************************************************************)
(* Theorems about Generate: the safety properties that its run checks, for *)
(* any host, any webhooks and typed values, and any number of commands.    *)
(***************************************************************************)
EXTENDS Generate, FiniteSetTheorems, WellFoundedInduction, TLAPS

\* Credentials under the keys that dockvault knows.
IsCreds(f) == DOMAIN f \subseteq Keys /\ f = [k \in DOMAIN f |-> f[k]]

IsInfo(v) ==
    /\ v = [volume |-> v.volume, containers |-> v.containers, service |-> v.service,
            creds |-> v.creds, name |-> v.name]
    /\ IsCreds(v.creds)

IsJob(j) ==
    /\ j = [name |-> j.name, service |-> j.service, volume |-> j.volume,
            container |-> j.container, creds |-> j.creds, hook |-> j.hook]
    /\ IsCreds(j.creds)

\* The name is being saved.
Open == pc \in {"config", "env", "write env"}

(* What the steps of a command rely on: its scan and job are such as a     *)
(* scan finds, the job being saved is in no finished state, and a command  *)
(* that runs has not yet been counted as a loss.                           *)
Control ==
    /\ \E k \in Nat : DOMAIN scan = 1..k
    /\ \A i \in DOMAIN scan : IsInfo(scan[i])
    /\ IsJob(job)
    /\ \A n \in DOMAIN saved : IsJob(saved[n]) /\ saved[n].name = n
    /\ Open => job.name \in DOMAIN config /\ job.name \notin DOMAIN saved
    /\ pc = "config" => config[job.name] = Torn
    /\ pc # "idle" => losses < commands

IInv == TypeOK /\ Control

LEMMA Bound == MaxCommands \in Nat
BY GenerateAssumption

\* Counting one more command, or one more loss of the current one.
LEMMA CountCommand ==
    ASSUME commands \in 0..MaxCommands, losses \in 0..commands, commands < MaxCommands
    PROVE  /\ commands + 1 \in 0..MaxCommands /\ losses \in 0..(commands + 1)
           /\ losses < commands + 1
BY Bound

LEMMA CountLoss ==
    ASSUME commands \in 0..MaxCommands, losses \in 0..commands, losses < commands
    PROVE  losses + 1 \in 0..commands
BY Bound

(* The credentials of a VolumeInfo. *)
LEMMA ExtractedCreds == ASSUME NEW c PROVE IsCreds(ExtractCredentials(c))
<1>1. CredentialKeys(Image[c]) \cup {"PASSWORD"} \subseteq Keys
  BY DEF CredentialKeys, Keys
<1>2. QED
  BY <1>1 DEF ExtractCredentials, Restricted, IsCreds

LEMMA ScannedInfo ==
    ASSUME NEW seen, NEW hint, NEW i \in DOMAIN ScanVolumes(seen, hint)
    PROVE  IsInfo(ScanVolumes(seen, hint)[i])
<1> DEFINE users == Users(Volumes[i], seen)
<1>1. ScanVolumes(seen, hint)[i] = VolumeInfo(Volumes[i], users, hint)
  BY DEF ScanVolumes
<1>2. IsCreds(NoCredentials)
  BY DEF NoCredentials, IsCreds
<1>3. IsCreds(CredentialsOf(users))
  BY <1>2, ExtractedCreds DEF CredentialsOf
<1>4. QED
  BY <1>1, <1>3 DEF VolumeInfo, IsInfo

LEMMA JobIsJob ==
    ASSUME NEW v, IsCreds(v.creds), NEW hook
    PROVE  IsJob(JobFromVolume(v, hook)) /\ JobFromVolume(v, hook).name = v.name
BY DEF JobFromVolume, IsJob

LEMMA NoJobIsJob == IsJob(NoJob)
<1>1. IsCreds(NoCredentials)
  BY DEF NoCredentials, IsCreds
<1>2. QED
  BY <1>1 DEF NoJob, JobFromVolume, IsJob

(* What .env holds of a job. *)
LEMMA EnvKeys ==
    ASSUME NEW j, IsJob(j)
    PROVE  DOMAIN EnvOf(j) \subseteq Keys \cup {Hook}
BY DEF IsJob, IsCreds, EnvOf, With

(* A candidate of the wizard with what the user has typed. *)
Completed(v, K, x) ==
    [v EXCEPT !.creds = [k \in DOMAIN @ \cup K |-> IF k \in K THEN x ELSE @[k]]]

LEMMA CompletedInfo ==
    ASSUME NEW v, IsInfo(v), NEW K \in SUBSET Missing(v), NEW x
    PROVE  IsInfo(Completed(v, K, x))
<1> DEFINE creds == [k \in DOMAIN v.creds \cup K |-> IF k \in K THEN x ELSE v.creds[k]]
<1>1. K \subseteq Keys
  BY DEF Missing, CredentialKeys, Keys
<1>2. IsCreds(creds)
  BY <1>1 DEF IsInfo, IsCreds
<1>3. Completed(v, K, x) = [volume |-> v.volume, containers |-> v.containers,
                           service |-> v.service, creds |-> creds, name |-> v.name]
  BY DEF IsInfo, Completed
<1>4. QED
  BY <1>2, <1>3 DEF IsInfo

LEMMA Initially == Init => IInv
<1> SUFFICES ASSUME Init PROVE IInv
  OBVIOUS
<1> USE DEF Init
<1>1. IsJob(job)
  BY NoJobIsJob
<1>2. DOMAIN config = {} /\ DOMAIN env = {} /\ DOMAIN saved = {} /\ DOMAIN scan = {}
  BY DEF Empty
<1>3. commands \in 0..MaxCommands /\ losses \in 0..commands
  BY Bound
<1>4. TypeOK
  BY <1>2, <1>3 DEF TypeOK
<1>5. \E k \in Nat : DOMAIN scan = 1..k
  <2>1. DOMAIN scan = 1..0
    BY <1>2
  <2>2. QED
    BY <2>1
<1>6. Control
  BY <1>1, <1>2, <1>5 DEF Control, Open
<1>7. QED
  BY <1>4, <1>6 DEF IInv

LEMMA BeginKeeps == ASSUME IInv, Begin PROVE IInv'
<1>1. PICK seen \in SUBSET ContainerNames, hint \in PortHints : scan' = ScanVolumes(seen, hint)
  BY DEF Begin
<1>2. \A i \in DOMAIN scan' : IsInfo(scan'[i])
  BY <1>1, ScannedInfo
<1>3. \E k \in Nat : DOMAIN scan' = 1..k
  <2>1. Len(Volumes) \in Nat /\ DOMAIN Volumes = 1..Len(Volumes)
    BY HostAssumption
  <2>2. DOMAIN scan' = DOMAIN Volumes
    BY <1>1 DEF ScanVolumes
  <2>3. QED
    BY <2>1, <2>2
<1>4. commands' \in 0..MaxCommands /\ losses' \in 0..commands' /\ losses' < commands'
  <2>1. commands \in 0..MaxCommands /\ losses \in 0..commands
    BY DEF IInv, TypeOK
  <2>2. commands < MaxCommands /\ commands' = commands + 1 /\ losses' = losses
    BY DEF Begin
  <2>3. QED
    BY <2>1, <2>2, CountCommand
<1>5. TypeOK'
  BY <1>4 DEF IInv, TypeOK, Begin
<1>6. Control'
  BY <1>2, <1>3, <1>4 DEF IInv, Control, Open, Begin
<1>7. QED
  BY <1>5, <1>6 DEF IInv

LEMMA NextVolumeKeeps == ASSUME IInv, NextVolume PROVE IInv'
<1>1. IsInfo(scan[next])
  BY DEF IInv, Control, NextVolume
<1>2. IsJob(job')
  BY <1>1, JobIsJob DEF NextVolume, IsInfo
<1>3. TypeOK'
  BY DEF IInv, TypeOK, NextVolume, found
<1>4. Control'
  BY <1>2 DEF IInv, Control, Open, NextVolume, found
<1>5. QED
  BY <1>3, <1>4 DEF IInv

LEMMA SelectKeeps == ASSUME IInv, Select PROVE IInv'
<1>1. PICK i \in DOMAIN scan, hook \in Hooks, x \in Typed : \E K \in SUBSET Missing(scan[i]) :
        LET v == [scan[i] EXCEPT !.creds = [k \in DOMAIN @ \cup K |->
                                                IF k \in K THEN x ELSE @[k]]]
        IN /\ scan' = [scan EXCEPT ![i] = v]
           /\ \/ pc' = "save" /\ job' = JobFromVolume(v, hook)
              \/ UNCHANGED <<pc, job>>
  BY DEF Select
<1>2. PICK K \in SUBSET Missing(scan[i]) :
        /\ scan' = [scan EXCEPT ![i] = Completed(scan[i], K, x)]
        /\ \/ pc' = "save" /\ job' = JobFromVolume(Completed(scan[i], K, x), hook)
           \/ UNCHANGED <<pc, job>>
  BY <1>1 DEF Completed
<1>3. IsInfo(Completed(scan[i], K, x))
  BY CompletedInfo DEF IInv, Control
<1>4. IsJob(job')
  BY <1>2, <1>3, JobIsJob DEF IsInfo, IInv, Control
<1>5. DOMAIN scan' = DOMAIN scan /\ \A k \in DOMAIN scan : IsInfo(scan'[k])
  BY <1>2, <1>3 DEF IInv, Control
<1>6. pc = "choose" /\ pc' \in {"choose", "save"}
  BY <1>2 DEF Select
<1>7. /\ next' = next + 1 /\ next' \in Nat \ {0}
      /\ UNCHANGED <<config, env, mode, store, commands, result, losses, saved>>
  BY DEF Select, IInv, TypeOK
<1>8. TypeOK'
  BY <1>6, <1>7 DEF IInv, TypeOK
<1>9. Control'
  BY <1>4, <1>5, <1>6 DEF IInv, Control, Open, Select
<1>10. QED
  BY <1>8, <1>9 DEF IInv

LEMMA OverKeeps ==
    ASSUME IInv, NEW r \in {"created", "finished", "failed", "killed"}, Over(r),
           pc # "idle", UNCHANGED <<found, saved>>,
           \A n \in DOMAIN config' : config'[n] = Torn \/ config'[n].name = n,
           DOMAIN config' = DOMAIN config, DOMAIN env' \subseteq DOMAIN config,
           \A n \in DOMAIN env' : DOMAIN env'[n] \subseteq Keys \cup {Hook}
    PROVE  IInv'
<1>1. losses' \in 0..commands'
  <2>1. commands \in 0..MaxCommands /\ losses \in 0..commands
    BY DEF IInv, TypeOK
  <2>2. losses < commands
    BY DEF IInv, Control
  <2>3. losses' = losses \/ losses' = losses + 1
    BY <2>1, Bound DEF Over
  <2>4. commands' = commands
    BY DEF found
  <2>5. QED
    BY <2>1, <2>2, <2>3, <2>4, CountLoss
<1>2. IsJob(job')
  BY NoJobIsJob DEF Over
<1>3. pc' = "idle" /\ next' = 1 /\ UNCHANGED <<mode, scan, store, commands, saved>>
      /\ result' \in {"created", "finished", "failed", "killed"}
  BY DEF Over, found
<1>4. TypeOK'
  <2>1. DOMAIN env' \subseteq DOMAIN config' /\ DOMAIN saved' \subseteq DOMAIN config'
    BY <1>3 DEF IInv, TypeOK
  <2>2. mode' \in {"auto", "interactive"}
    BY <1>3 DEF IInv, TypeOK
  <2>3. next' \in Nat \ {0}
    BY <1>3
  <2>4. commands' \in 0..MaxCommands
    BY <1>3 DEF IInv, TypeOK
  <2>5. store' \in {"file", "vault"} /\ (pc' = "write env" => store' = "file")
    BY <1>3 DEF IInv, TypeOK
  <2>6. QED
    BY <1>1, <1>3, <2>1, <2>2, <2>3, <2>4, <2>5 DEF TypeOK
<1>5. Control'
  BY <1>2, <1>3 DEF IInv, Control, Open
<1>6. QED
  BY <1>4, <1>5 DEF IInv

LEMMA FinishKeeps == ASSUME IInv, Finish PROVE IInv'
<1>1. PICK r \in {"created", "finished", "failed", "killed"} : Over(r)
  BY DEF Finish
<1>2. QED
  BY <1>1, OverKeeps DEF Finish, IInv, TypeOK

LEMMA KillKeeps == ASSUME IInv, Kill PROVE IInv'
BY OverKeeps DEF Kill, IInv, TypeOK

LEMMA OpenConfigKeeps == ASSUME IInv, OpenConfig PROVE IInv'
<1>1. CASE Over("failed") /\ UNCHANGED <<config, saved>>
  BY <1>1, OverKeeps DEF OpenConfig, IInv, TypeOK
<1>2. CASE /\ pc' = "config" /\ config' = With(config, job.name, Torn)
           /\ saved' = Without(saved, job.name)
           /\ UNCHANGED <<job, next, result, losses>>
  <2>1. /\ DOMAIN config' = DOMAIN config \cup {job.name} /\ config'[job.name] = Torn
        /\ \A z \in DOMAIN config \ {job.name} : config'[z] = config[z]
    BY <1>2 DEF With
  <2>2. /\ DOMAIN saved' = DOMAIN saved \ {job.name}
        /\ \A z \in DOMAIN saved \ {job.name} : saved'[z] = saved[z]
    BY <1>2 DEF Without
  <2>3. TypeOK'
    BY <1>2, <2>1, <2>2 DEF IInv, TypeOK, OpenConfig, found
  <2>4. Control'
    BY <1>2, <2>1, <2>2 DEF IInv, Control, Open, OpenConfig, found
  <2>5. QED
    BY <2>3, <2>4 DEF IInv
<1>3. QED
  BY <1>1, <1>2 DEF OpenConfig

LEMMA WriteConfigKeeps == ASSUME IInv, WriteConfig PROVE IInv'
<1>1. CASE Over("failed") /\ UNCHANGED config
  BY <1>1, OverKeeps DEF WriteConfig, IInv, TypeOK
<1>2. CASE /\ pc' = "env" /\ config' = With(config, job.name, JobConfig(job))
           /\ UNCHANGED <<job, next, result, losses>>
  <2>0. job.name \in DOMAIN config
    BY DEF WriteConfig, IInv, Control, Open
  <2>1. /\ DOMAIN config' = DOMAIN config /\ config'[job.name] = JobConfig(job)
        /\ \A z \in DOMAIN config \ {job.name} : config'[z] = config[z]
    BY <1>2, <2>0 DEF With
  <2>2. JobConfig(job).name = job.name
    BY DEF JobConfig
  <2>3. TypeOK'
    BY <1>2, <2>1, <2>2 DEF IInv, TypeOK, WriteConfig, found
  <2>4. Control'
    BY <1>2, <2>1 DEF IInv, Control, Open, WriteConfig, found
  <2>5. QED
    BY <2>3, <2>4 DEF IInv
<1>3. QED
  BY <1>1, <1>2 DEF WriteConfig

(* The end of SaveJob. *)
LEMMA SavedKeeps ==
    ASSUME IInv, Saved, pc \in {"env", "write env"}, UNCHANGED <<config, found>>,
           DOMAIN env' \subseteq DOMAIN config,
           \A n \in DOMAIN env' : DOMAIN env'[n] \subseteq Keys \cup {Hook}
    PROVE  IInv'
<1>1. /\ DOMAIN saved' = DOMAIN saved \cup {job.name} /\ saved'[job.name] = job
      /\ \A z \in DOMAIN saved \ {job.name} : saved'[z] = saved[z]
  BY DEF With, Saved
<1>2. job.name \in DOMAIN config
  BY DEF IInv, Control, Open
<1>3. IsJob(job')
  BY NoJobIsJob DEF Saved
<1>4. TypeOK'
  BY <1>1, <1>2 DEF IInv, TypeOK, Saved, found
<1>5. Control'
  BY <1>1, <1>3 DEF IInv, Control, Open, Saved, found
<1>6. QED
  BY <1>4, <1>5 DEF IInv

LEMMA OpenEnvKeeps == ASSUME IInv, OpenEnv PROVE IInv'
<1>1. CASE Over("failed") /\ UNCHANGED env
  BY <1>1, OverKeeps DEF OpenEnv, IInv, TypeOK
<1>2. CASE /\ pc' = "write env" /\ env' = With(env, job.name, NoCredentials)
           /\ UNCHANGED <<job, next, result, losses>>
  <2>1. /\ DOMAIN env' = DOMAIN env \cup {job.name} /\ env'[job.name] = NoCredentials
        /\ \A z \in DOMAIN env \ {job.name} : env'[z] = env[z]
    BY <1>2 DEF With
  <2>2. DOMAIN NoCredentials = {}
    BY DEF NoCredentials
  <2>3. job.name \in DOMAIN config
    BY DEF OpenEnv, IInv, Control, Open
  <2>4. TypeOK'
    BY <1>2, <2>1, <2>2, <2>3 DEF IInv, TypeOK, OpenEnv, found
  <2>5. Control'
    BY <1>2 DEF IInv, Control, Open, OpenEnv, found
  <2>6. QED
    BY <2>4, <2>5 DEF IInv
<1>3. QED
  BY <1>1, <1>2 DEF OpenEnv

(* What .env may hold after a write. *)
LEMMA WrittenKeys ==
    ASSUME IInv, pc \in {"env", "write env"}, NEW e, DOMAIN e \subseteq DOMAIN EnvOf(job),
           env' = With(env, job.name, e)
    PROVE  /\ DOMAIN env' \subseteq DOMAIN config
           /\ \A n \in DOMAIN env' : DOMAIN env'[n] \subseteq Keys \cup {Hook}
<1>1. DOMAIN e \subseteq Keys \cup {Hook}
  BY EnvKeys DEF IInv, Control
<1>2. job.name \in DOMAIN config
  BY DEF IInv, Control, Open
<1>3. /\ DOMAIN env' = DOMAIN env \cup {job.name} /\ env'[job.name] = e
      /\ \A z \in DOMAIN env \ {job.name} : env'[z] = env[z]
  BY DEF With
<1>4. QED
  BY <1>1, <1>2, <1>3 DEF IInv, TypeOK

LEMMA WriteEnvKeeps == ASSUME IInv, WriteEnv PROVE IInv'
<1>1. CASE env' = With(env, job.name, EnvOf(job)) /\ Saved
  <2>1. /\ DOMAIN env' \subseteq DOMAIN config
        /\ \A n \in DOMAIN env' : DOMAIN env'[n] \subseteq Keys \cup {Hook}
    BY <1>1, WrittenKeys DEF WriteEnv
  <2>2. QED
    BY <1>1, <2>1, SavedKeeps DEF WriteEnv
<1>2. CASE /\ \E n \in 0..Len(Lines) : env' = With(env, job.name, FirstLines(EnvOf(job), n))
           /\ Over("failed") /\ UNCHANGED saved
  <2>1. PICK n \in 0..Len(Lines) : env' = With(env, job.name, FirstLines(EnvOf(job), n))
    BY <1>2
  <2>2. DOMAIN FirstLines(EnvOf(job), n) \subseteq DOMAIN EnvOf(job)
    BY DEF FirstLines
  <2>3. /\ DOMAIN env' \subseteq DOMAIN config
        /\ \A m \in DOMAIN env' : DOMAIN env'[m] \subseteq Keys \cup {Hook}
    BY <2>1, <2>2, WrittenKeys DEF WriteEnv
  <2>4. QED
    BY <1>2, <2>3, OverKeeps DEF WriteEnv, IInv, TypeOK
<1>3. QED
  BY <1>1, <1>2 DEF WriteEnv

LEMMA WriteVaultKeeps == ASSUME IInv, WriteVault PROVE IInv'
<1>1. CASE env' = With(env, job.name, EnvOf(job)) /\ Saved
  <2>1. /\ DOMAIN env' \subseteq DOMAIN config
        /\ \A n \in DOMAIN env' : DOMAIN env'[n] \subseteq Keys \cup {Hook}
    BY <1>1, WrittenKeys DEF WriteVault
  <2>2. QED
    BY <1>1, <2>1, SavedKeeps DEF WriteVault
<1>2. CASE Over("failed") /\ UNCHANGED <<env, saved>>
  BY <1>2, OverKeeps DEF WriteVault, IInv, TypeOK
<1>3. QED
  BY <1>1, <1>2 DEF WriteVault

LEMMA EditKeeps == ASSUME IInv, Edit PROVE IInv'
<1>1. PICK n \in DOMAIN config, k \in Keys, x \in Typed :
        /\ env' = With(env, n, With(IF n \in DOMAIN env THEN env[n] ELSE NoCredentials, k, x))
        /\ saved' = Without(saved, n)
  BY DEF Edit
<1> DEFINE old == IF n \in DOMAIN env THEN env[n] ELSE NoCredentials
<1>2. DOMAIN old \subseteq Keys \cup {Hook}
  BY DEF IInv, TypeOK, NoCredentials
<1>3. DOMAIN With(old, k, x) \subseteq Keys \cup {Hook}
  BY <1>2 DEF With
<1>4. /\ DOMAIN env' = DOMAIN env \cup {n} /\ env'[n] = With(old, k, x)
      /\ \A z \in DOMAIN env \ {n} : env'[z] = env[z]
  BY <1>1 DEF With
<1>5. /\ DOMAIN saved' = DOMAIN saved \ {n}
      /\ \A z \in DOMAIN saved \ {n} : saved'[z] = saved[z]
  BY <1>1 DEF Without
<1>6. commands' \in 0..MaxCommands /\ losses' \in 0..commands'
  <2>1. commands \in 0..MaxCommands /\ losses \in 0..commands
    BY DEF IInv, TypeOK
  <2>2. commands < MaxCommands /\ commands' = commands + 1 /\ losses' = losses
    BY DEF Edit
  <2>3. QED
    BY <2>1, <2>2, CountCommand
<1>7. TypeOK'
  BY <1>3, <1>4, <1>5, <1>6 DEF IInv, TypeOK, Edit
<1>8. Control'
  BY <1>5 DEF IInv, Control, Open, Edit
<1>9. QED
  BY <1>7, <1>8 DEF IInv

LEMMA IInvStep == ASSUME IInv, [Next]_vars PROVE IInv'
<1>1. CASE SkipEnv
  BY <1>1, SavedKeeps DEF SkipEnv, IInv, TypeOK
<1>2. CASE UNCHANGED vars
  BY <1>2 DEF vars, IInv, TypeOK, Control, Open
<1>3. QED
  BY <1>1, <1>2, BeginKeeps, NextVolumeKeeps, SelectKeeps, FinishKeeps, OpenConfigKeeps,
     WriteConfigKeeps, OpenEnvKeeps, WriteEnvKeeps, WriteVaultKeeps, KillKeeps, EditKeeps
     DEF Next, Save

THEOREM Inductive == Spec => []IInv
<1>1. QED
  BY Initially, IInvStep, PTL DEF Spec

(* The type invariant, for every host and any number of commands. *)
THEOREM TypeCorrect == Spec => []TypeOK
<1>1. IInv => TypeOK
  BY DEF IInv
<1>2. QED
  BY <1>1, Inductive, PTL
-----------------------------------------------------------------------------
(* Both files of a job that has been saved and not touched since hold it. *)
Stored ==
    \A n \in DOMAIN saved :
        /\ config[n] = JobConfig(saved[n])
        /\ DOMAIN EnvOf(saved[n]) # {} => n \in DOMAIN env /\ env[n] = EnvOf(saved[n])

\* Only the job that is being saved, which is in no finished state, is changed.
LEMMA StoredOthers ==
    ASSUME IInv, Stored, NEW m,
           \A n \in DOMAIN saved' : n # m /\ n \in DOMAIN saved /\ saved'[n] = saved[n],
           \A n \in DOMAIN config : n # m => config'[n] = config[n],
           DOMAIN env \subseteq DOMAIN env',
           \A n \in DOMAIN env : n # m => env'[n] = env[n]
    PROVE  Stored'
BY DEF Stored, IInv, TypeOK

LEMMA StoredOpenConfig == ASSUME IInv, Stored, OpenConfig PROVE Stored'
<1>1. CASE Over("failed") /\ UNCHANGED <<config, saved>>
  BY <1>1 DEF Stored, OpenConfig
<1>2. CASE /\ pc' = "config" /\ config' = With(config, job.name, Torn)
           /\ saved' = Without(saved, job.name)
           /\ UNCHANGED <<job, next, result, losses>>
  <2>1. \A n \in DOMAIN config : n # job.name => config'[n] = config[n]
    BY <1>2 DEF With
  <2>2. \A n \in DOMAIN saved' : n # job.name /\ n \in DOMAIN saved /\ saved'[n] = saved[n]
    BY <1>2 DEF Without
  <2>3. env' = env
    BY DEF OpenConfig
  <2>4. QED
    BY <2>1, <2>2, <2>3, StoredOthers
<1>3. QED
  BY <1>1, <1>2 DEF OpenConfig

LEMMA StoredWriteConfig == ASSUME IInv, Stored, WriteConfig PROVE Stored'
<1>1. job.name \notin DOMAIN saved
  BY DEF IInv, Control, Open, WriteConfig
<1>2. \A n \in DOMAIN config : n # job.name => config'[n] = config[n]
  BY DEF WriteConfig, With
<1>3. env' = env /\ saved' = saved
  BY DEF WriteConfig, found
<1>4. QED
  BY <1>1, <1>2, <1>3, StoredOthers

LEMMA StoredOpenEnv == ASSUME IInv, Stored, OpenEnv PROVE Stored'
<1>1. job.name \notin DOMAIN saved
  BY DEF IInv, Control, Open, OpenEnv
<1>2. \A n \in DOMAIN env : n \in DOMAIN env' /\ (n # job.name => env'[n] = env[n])
  BY DEF OpenEnv, With
<1>3. config' = config /\ saved' = saved
  BY DEF OpenEnv
<1>4. QED
  BY <1>1, <1>2, <1>3, StoredOthers

\* Both ways in which SaveJob ends well.
LEMMA StoredSaved ==
    ASSUME IInv, Stored, Saved, pc \in {"env", "write env"}, config' = config,
           DOMAIN env \subseteq DOMAIN env',
           \A n \in DOMAIN env : n # job.name => env'[n] = env[n],
           DOMAIN EnvOf(job) # {} => job.name \in DOMAIN env' /\ env'[job.name] = EnvOf(job)
    PROVE  Stored'
<1>1. config[job.name] = JobConfig(job)
  BY DEF IInv, TypeOK
<1>2. /\ DOMAIN saved' = DOMAIN saved \cup {job.name} /\ saved'[job.name] = job
      /\ \A z \in DOMAIN saved \ {job.name} : saved'[z] = saved[z]
  BY DEF With, Saved
<1> SUFFICES ASSUME NEW n \in DOMAIN saved'
             PROVE  /\ config'[n] = JobConfig(saved'[n])
                    /\ DOMAIN EnvOf(saved'[n]) # {}
                          => n \in DOMAIN env' /\ env'[n] = EnvOf(saved'[n])
  <2>1. JobConfig(job)' = JobConfig(job')
    BY DEF JobConfig
  <2>2. QED
    BY DEF Stored, JobConfig, EnvOf, With
<1>3. CASE n = job.name
  BY <1>1, <1>2, <1>3
<1>4. CASE n # job.name
  BY <1>2, <1>4 DEF Stored
<1>5. QED
  BY <1>3, <1>4

LEMMA StoredWriteEnv == ASSUME IInv, Stored, WriteEnv PROVE Stored'
<1>1. CASE env' = With(env, job.name, EnvOf(job)) /\ Saved
  <2>1. /\ DOMAIN env' = DOMAIN env \cup {job.name} /\ env'[job.name] = EnvOf(job)
        /\ \A z \in DOMAIN env \ {job.name} : env'[z] = env[z]
    BY <1>1 DEF With
  <2>2. pc = "write env" /\ config' = config
    BY DEF WriteEnv
  <2>3. QED
    BY <1>1, <2>1, <2>2, StoredSaved
<1>2. CASE /\ \E n \in 0..Len(Lines) : env' = With(env, job.name, FirstLines(EnvOf(job), n))
           /\ Over("failed") /\ UNCHANGED saved
  <2>1. job.name \notin DOMAIN saved
    BY DEF IInv, Control, Open, WriteEnv
  <2>2. \A n \in DOMAIN env : n \in DOMAIN env' /\ (n # job.name => env'[n] = env[n])
    BY <1>2 DEF With
  <2>3. config' = config /\ saved' = saved
    BY <1>2 DEF WriteEnv
  <2>4. QED
    BY <2>1, <2>2, <2>3, StoredOthers
<1>3. QED
  BY <1>1, <1>2 DEF WriteEnv

LEMMA StoredWriteVault == ASSUME IInv, Stored, WriteVault PROVE Stored'
<1>1. CASE env' = With(env, job.name, EnvOf(job)) /\ Saved
  <2>1. /\ DOMAIN env' = DOMAIN env \cup {job.name} /\ env'[job.name] = EnvOf(job)
        /\ \A z \in DOMAIN env \ {job.name} : env'[z] = env[z]
    BY <1>1 DEF With
  <2>2. pc = "env" /\ config' = config
    BY DEF WriteVault
  <2>3. QED
    BY <1>1, <2>1, <2>2, StoredSaved
<1>2. CASE Over("failed") /\ UNCHANGED <<env, saved>>
  <2>1. config' = config /\ env' = env /\ saved' = saved
    BY <1>2 DEF WriteVault
  <2>2. QED
    BY <2>1 DEF Stored
<1>3. QED
  BY <1>1, <1>2 DEF WriteVault

LEMMA StoredSkipEnv == ASSUME IInv, Stored, SkipEnv PROVE Stored'
<1>1. Saved /\ pc = "env" /\ config' = config /\ env' = env /\ DOMAIN EnvOf(job) = {}
  BY DEF SkipEnv
<1>2. QED
  BY <1>1, StoredSaved

LEMMA StoredEdit == ASSUME IInv, Stored, Edit PROVE Stored'
<1>1. PICK n \in DOMAIN config, k \in Keys, x \in Typed :
        /\ env' = With(env, n, With(IF n \in DOMAIN env THEN env[n] ELSE NoCredentials, k, x))
        /\ saved' = Without(saved, n)
  BY DEF Edit
<1>2. \A z \in DOMAIN env : z \in DOMAIN env' /\ (z # n => env'[z] = env[z])
  BY <1>1 DEF With
<1>3. \A z \in DOMAIN saved' : z # n /\ z \in DOMAIN saved /\ saved'[z] = saved[z]
  BY <1>1 DEF Without
<1>4. config' = config
  BY DEF Edit
<1>5. QED
  BY <1>2, <1>3, <1>4, StoredOthers

LEMMA StoredStep == ASSUME IInv, Stored, [Next]_vars PROVE Stored'
<1>1. CASE Begin \/ NextVolume \/ Select \/ Finish \/ Kill \/ UNCHANGED vars
  <2>1. config' = config /\ env' = env /\ saved' = saved
    BY <1>1 DEF Begin, NextVolume, Select, Finish, Kill, vars
  <2>2. QED
    BY <2>1 DEF Stored
<1>2. QED
  BY <1>1, StoredOpenConfig, StoredWriteConfig, StoredSkipEnv, StoredOpenEnv, StoredWriteEnv,
     StoredWriteVault, StoredEdit DEF Next, Save

LEMMA AsReadFields ==
    ASSUME NEW j, IsJob(j)
    PROVE  AsRead(j) = [name |-> j.name, service |-> j.service, volume |-> j.volume,
                        container |-> j.container,
                        creds |-> [k \in DOMAIN j.creds |-> Loaded(j.creds[k])],
                        hook |-> Loaded(j.hook)]
<1> DEFINE new == [k \in DOMAIN j.creds |-> Loaded(j.creds[k])]
           e == [j EXCEPT !.creds = new]
<1>1. e = [name |-> j.name, service |-> j.service, volume |-> j.volume,
           container |-> j.container, creds |-> new, hook |-> j.hook]
  <2> HIDE DEF new
  <2>1. QED
    BY DEF IsJob
<1>2. AsRead(j) = [e EXCEPT !.hook = Loaded(j.hook)]
  BY Zenon DEF AsRead
<1>3. [e EXCEPT !.hook = Loaded(j.hook)]
        = [name |-> j.name, service |-> j.service, volume |-> j.volume,
           container |-> j.container, creds |-> new, hook |-> Loaded(j.hook)]
  <2> HIDE DEF new, e
  <2>1. QED
    BY <1>1
<1>4. QED
  BY <1>2, <1>3

(* What LoadJob reads of a job whose files hold it. *)
LEMMA ReadBack ==
    ASSUME IInv, Stored, NEW n \in DOMAIN saved,
           DOMAIN EnvOf(saved[n]) # {} \/ n \notin DOMAIN env
    PROVE  LoadJob(n) = AsRead(saved[n])
<1> DEFINE j == saved[n]
           read == LoadEnv(n)
           creds == [k \in DOMAIN j.creds |-> Loaded(j.creds[k])]
<1>1. IsJob(j) /\ config[n] = JobConfig(j)
  BY DEF IInv, Control, Stored
<1>2. Hook \notin DOMAIN j.creds
  BY <1>1 DEF IsJob, IsCreds, Keys, Hook
<1>3. read = [k \in DOMAIN EnvOf(j) |-> Loaded(EnvOf(j)[k])]
  <2>1. CASE DOMAIN EnvOf(j) # {}
    BY <2>1 DEF Stored, LoadEnv
  <2>2. CASE DOMAIN EnvOf(j) = {} /\ n \notin DOMAIN env
    BY <2>2 DEF LoadEnv, NoCredentials
  <2>3. QED
    BY <2>1, <2>2
<1>4. Loaded(NoHook) = NoHook
  BY GenerateAssumption DEF Loaded
<1>5. /\ Without(read, Hook) = creds
      /\ (IF Hook \in DOMAIN read THEN read[Hook] ELSE NoHook) = Loaded(j.hook)
  <2>1. CASE j.hook = NoHook
    <3>1. read = creds
      BY <1>3, <2>1 DEF EnvOf
    <3>2. Hook \notin DOMAIN read /\ DOMAIN read \ {Hook} = DOMAIN j.creds
      BY <3>1, <1>2
    <3>3. QED
      BY <3>1, <3>2, <1>4, <2>1 DEF Without
  <2>2. CASE j.hook # NoHook
    <3>1. EnvOf(j) = With(j.creds, Hook, j.hook)
      BY <2>2 DEF EnvOf
    <3>2. /\ DOMAIN EnvOf(j) = DOMAIN j.creds \cup {Hook} /\ EnvOf(j)[Hook] = j.hook
          /\ \A k \in DOMAIN j.creds : EnvOf(j)[k] = j.creds[k]
      BY <3>1, <1>2 DEF With
    <3>3. /\ DOMAIN read = DOMAIN j.creds \cup {Hook} /\ read[Hook] = Loaded(j.hook)
          /\ \A k \in DOMAIN j.creds : read[k] = Loaded(j.creds[k])
      BY <1>3, <3>2
    <3>4. DOMAIN read \ {Hook} = DOMAIN j.creds
      BY <3>3, <1>2
    <3>5. QED
      BY <3>3, <3>4 DEF Without
  <2>3. QED
    BY <2>1, <2>2
<1>6. /\ config[n].name = j.name /\ config[n].service = j.service
      /\ config[n].volume = j.volume /\ config[n].container = j.container
  BY <1>1 DEF JobConfig
<1>7. AsRead(j) = [name |-> j.name, service |-> j.service, volume |-> j.volume,
                   container |-> j.container, creds |-> creds, hook |-> Loaded(j.hook)]
  BY <1>1, AsReadFields
<1>8. QED
  BY <1>5, <1>6, <1>7 DEF LoadJob

(* LoadJob reads what SaveJob was given, after any commands, however they  *)
(* ended, and any edits of other jobs.                                     *)
THEOREM JobsAreReadBack == Spec => []RoundTrip
<1>1. Init => Stored
  BY DEF Init, Empty, Stored
<1>2. IInv /\ Stored /\ [Next]_vars => Stored'
  BY StoredStep
<1>3. IInv /\ Stored => RoundTrip
  BY ReadBack DEF RoundTrip, Stored
<1>4. QED
  BY <1>1, <1>2, <1>3, Inductive, PTL DEF Spec
-----------------------------------------------------------------------------
(* The jobs that cannot be loaded. *)
TornJobs == {n \in DOMAIN config : config[n] = Torn}
Allowed == losses + (IF pc = "config" THEN 1 ELSE 0)
Damage == IsFiniteSet(TornJobs) /\ Cardinality(TornJobs) <= Allowed

LEMMA LossesNat == ASSUME IInv PROVE losses \in Nat
<1>1. commands \in 0..MaxCommands /\ losses \in 0..commands
  BY DEF IInv, TypeOK
<1>2. QED
  BY <1>1, Bound

LEMMA AddOne ==
    ASSUME NEW S, IsFiniteSet(S), NEW x
    PROVE  /\ IsFiniteSet(S \cup {x}) /\ Cardinality(S \cup {x}) \in Nat
           /\ Cardinality(S \cup {x}) <= Cardinality(S) + 1
<1>1. CASE x \in S
  <2>1. S \cup {x} = S
    BY <1>1
  <2>2. Cardinality(S) \in Nat
    BY FS_CardinalityType
  <2>3. Cardinality(S) <= Cardinality(S) + 1
    BY <2>2
  <2>4. QED
    BY <2>1, <2>2, <2>3
<1>2. CASE x \notin S
  <2>1. IsFiniteSet(S \cup {x}) /\ Cardinality(S \cup {x}) = Cardinality(S) + 1
    BY <1>2, FS_AddElement
  <2>2. Cardinality(S) \in Nat
    BY FS_CardinalityType
  <2>3. QED
    BY <2>1, <2>2
<1>3. QED
  BY <1>1, <1>2

LEMMA DamageOpenConfig == ASSUME IInv, Damage, OpenConfig PROVE Damage'
<1>1. losses \in Nat /\ pc = "save"
  BY LossesNat DEF OpenConfig
<1>2. IsFiniteSet(TornJobs) /\ Cardinality(TornJobs) \in Nat /\ Cardinality(TornJobs) <= losses
  BY <1>1, FS_CardinalityType DEF Damage, Allowed
<1>3. CASE Over("failed") /\ UNCHANGED <<config, saved>>
  <2>1. TornJobs' = TornJobs /\ Allowed' = losses + 1
    BY <1>1, <1>3 DEF TornJobs, Allowed, Over
  <2>2. QED
    BY <1>1, <1>2, <2>1 DEF Damage
<1>4. CASE /\ pc' = "config" /\ config' = With(config, job.name, Torn)
           /\ saved' = Without(saved, job.name)
           /\ UNCHANGED <<job, next, result, losses>>
  <2>1. TornJobs' = TornJobs \cup {job.name}
    BY <1>4 DEF TornJobs, With
  <2>2. Allowed' = losses + 1
    BY <1>4 DEF Allowed
  <2>3. /\ IsFiniteSet(TornJobs \cup {job.name})
        /\ Cardinality(TornJobs \cup {job.name}) \in Nat
        /\ Cardinality(TornJobs \cup {job.name}) <= Cardinality(TornJobs) + 1
    BY <1>2, AddOne
  <2>5. Cardinality(TornJobs \cup {job.name}) <= losses + 1
    BY <1>1, <1>2, <2>3
  <2>6. QED
    BY <2>1, <2>2, <2>3, <2>5 DEF Damage
<1>5. QED
  BY <1>3, <1>4 DEF OpenConfig

LEMMA DamageWriteConfig == ASSUME IInv, Damage, WriteConfig PROVE Damage'
<1>1. losses \in Nat /\ pc = "config"
  BY LossesNat DEF WriteConfig
<1>2. /\ IsFiniteSet(TornJobs) /\ Cardinality(TornJobs) \in Nat
      /\ Cardinality(TornJobs) <= losses + 1
  BY <1>1, FS_CardinalityType DEF Damage, Allowed
<1>3. CASE Over("failed") /\ UNCHANGED config
  <2>1. TornJobs' = TornJobs /\ Allowed' = losses + 1
    BY <1>1, <1>3 DEF TornJobs, Allowed, Over
  <2>2. QED
    BY <1>2, <2>1 DEF Damage
<1>4. CASE /\ pc' = "env" /\ config' = With(config, job.name, JobConfig(job))
           /\ UNCHANGED <<job, next, result, losses>>
  <2>1. JobConfig(job) # Torn
    <3>1. "name" \in DOMAIN JobConfig(job) /\ DOMAIN Torn = {}
      BY DEF JobConfig, Torn
    <3>2. QED
      BY <3>1
  <2>2. job.name \in TornJobs
    BY <1>1 DEF IInv, Control, Open, TornJobs
  <2>3. TornJobs' = TornJobs \ {job.name}
    BY <1>4, <2>1, <2>2 DEF TornJobs, With
  <2>4. Allowed' = losses
    BY <1>1, <1>4 DEF Allowed
  <2>5. /\ IsFiniteSet(TornJobs \ {job.name})
        /\ Cardinality(TornJobs \ {job.name}) = Cardinality(TornJobs) - 1
    BY <1>2, <2>2, FS_RemoveElement
  <2>6. Cardinality(TornJobs \ {job.name}) <= losses
    BY <1>1, <1>2, <2>5
  <2>7. QED
    BY <2>3, <2>4, <2>5, <2>6 DEF Damage
<1>5. QED
  BY <1>3, <1>4 DEF WriteConfig

\* The steps that leave job.json alone.
LEMMA DamageElsewhere ==
    ASSUME IInv, Damage, config' = config, pc' # "config",
           (pc # "config" /\ losses' = losses) \/ losses' = losses + 1
    PROVE  Damage'
<1>1. losses \in Nat
  BY LossesNat
<1>2. TornJobs' = TornJobs
  BY DEF TornJobs
<1>3. IsFiniteSet(TornJobs) /\ Cardinality(TornJobs) \in Nat
  BY FS_CardinalityType DEF Damage
<1>4. Cardinality(TornJobs) <= losses'
  BY <1>1, <1>3 DEF Damage, Allowed
<1>5. Allowed' = losses'
  <2>1. losses' \in Nat /\ losses' + 0 = losses'
    BY <1>1
  <2>2. Allowed' = losses' + 0
    BY DEF Allowed
  <2>3. QED
    BY <2>1, <2>2, Zenon
<1>6. QED
  BY <1>2, <1>3, <1>4, <1>5 DEF Damage

LEMMA DamageStep == ASSUME IInv, Damage, [Next]_vars PROVE Damage'
<1>0. losses \in Nat
  BY LossesNat
<1>1. CASE \/ Begin \/ NextVolume \/ Select \/ SkipEnv \/ OpenEnv \/ WriteEnv
           \/ WriteVault \/ Edit
  <2>1. config' = config /\ pc # "config" /\ pc' # "config"
    BY <1>1
    DEF Begin, NextVolume, Select, SkipEnv, OpenEnv, WriteEnv, WriteVault, Edit, Saved, Over
  <2>2. losses' = losses \/ losses' = losses + 1
    BY <1>1, <1>0
    DEF Begin, NextVolume, Select, SkipEnv, OpenEnv, WriteEnv, WriteVault, Edit, Saved, Over
  <2>3. QED
    BY <2>1, <2>2, DamageElsewhere
<1>2. CASE Kill
  <2>1. config' = config /\ pc' = "idle" /\ losses' = losses + 1
    BY <1>2 DEF Kill, Over
  <2>2. QED
    BY <2>1, DamageElsewhere
<1>3. CASE Finish
  <2>1. config' = config /\ pc = "choose" /\ pc' = "idle" /\ losses' = losses + 0
    BY <1>3 DEF Finish, Over
  <2>2. losses' = losses
    BY <1>0, <2>1
  <2>3. QED
    BY <2>1, <2>2, DamageElsewhere
<1>4. CASE UNCHANGED vars
  <2>1. TornJobs' = TornJobs /\ Allowed' = Allowed
    BY <1>4 DEF vars, TornJobs, Allowed
  <2>2. QED
    BY <2>1 DEF Damage
<1>5. QED
  BY <1>1, <1>2, <1>3, <1>4, DamageOpenConfig, DamageWriteConfig DEF Next, Save

(* Commands that were killed or failed cannot have left more unreadable    *)
(* jobs than there were such commands.                                     *)
THEOREM DamageBounded == Spec => []DamageIsBounded
<1>1. Init => Damage
  <2> SUFFICES ASSUME Init PROVE Damage
    OBVIOUS
  <2>1. TornJobs = {} /\ Allowed = 0
    BY DEF Init, Empty, TornJobs, Allowed
  <2>2. QED
    BY <2>1, FS_EmptySet DEF Damage
<1>2. IInv /\ Damage /\ [Next]_vars => Damage'
  BY DamageStep
<1>3. Damage => DamageIsBounded
  BY DEF Damage, TornJobs, Allowed, DamageIsBounded
<1>4. QED
  BY <1>1, <1>2, <1>3, Inductive, PTL DEF Spec
-----------------------------------------------------------------------------
\* The job directory of scan[j] holds its job.
Has(j) ==
    /\ scan[j].name \in DOMAIN config
    /\ config[scan[j].name] = JobConfig(JobFromVolume(scan[j], NoHook))

(* What --auto has done so far: scan[next - 1] is being saved, and every   *)
(* earlier volume has its job, or a later volume of its name has one.      *)
Progress ==
    /\ pc = "idle" => next = 1
    /\ pc # "idle" => result = "none"
    /\ mode = "auto" /\ pc = "choose" =>
        \A i \in DOMAIN scan : i < next =>
            \E j \in DOMAIN scan : j >= i /\ scan[j].name = scan[i].name /\ Has(j)
    /\ mode = "auto" /\ pc \notin {"idle", "choose"} =>
        \E last \in DOMAIN scan :
            /\ next = last + 1
            /\ job.name = scan[last].name
            /\ JobConfig(job) = JobConfig(JobFromVolume(scan[last], NoHook))
            /\ \A i \in DOMAIN scan : i < last /\ scan[i].name # job.name =>
                \E j \in DOMAIN scan : j >= i /\ scan[j].name = scan[i].name /\ Has(j)

CoverInv == Progress /\ EveryVolumeHasJob

LEMMA AnyHook ==
    ASSUME NEW v, NEW hook
    PROVE  /\ JobConfig(JobFromVolume(v, hook)) = JobConfig(JobFromVolume(v, NoHook))
           /\ JobFromVolume(v, hook).name = v.name
BY DEF JobConfig, JobFromVolume

LEMMA ScanIndices == ASSUME IInv PROVE DOMAIN scan \subseteq Nat
BY DEF IInv, Control

LEMMA CoverBegin == ASSUME IInv, CoverInv, Begin PROVE CoverInv'
<1>1. pc = "idle" /\ pc' = "choose" /\ next' = next /\ result' = "none"
  BY DEF Begin
<1>2. next' = 1
  BY <1>1 DEF CoverInv, Progress
<1>3. \A i \in DOMAIN scan' : ~(i < next')
  <2>1. IInv'
    BY BeginKeeps
  <2>2. \A i \in DOMAIN scan' : i \in Nat /\ i >= 1
    BY <2>1 DEF IInv, Control
  <2>3. QED
    BY <1>2, <2>2
<1>4. Progress'
  BY <1>1, <1>3 DEF Progress
<1>5. EveryVolumeHasJob'
  BY <1>1 DEF EveryVolumeHasJob
<1>6. QED
  BY <1>4, <1>5 DEF CoverInv

LEMMA CoverNextVolume == ASSUME IInv, CoverInv, NextVolume PROVE CoverInv'
<1>1. /\ pc = "choose" /\ mode = "auto" /\ next \in DOMAIN scan /\ pc' = "save"
      /\ next' = next + 1 /\ scan' = scan /\ mode' = mode /\ config' = config
      /\ result' = result
  BY DEF NextVolume, found
<1>2. PICK hook \in Hooks : job' = JobFromVolume(scan[next], hook)
  BY DEF NextVolume
<1>3. /\ job'.name = scan[next].name
      /\ JobConfig(job') = JobConfig(JobFromVolume(scan[next], NoHook))
  BY <1>2, AnyHook
<1>4. \A i \in DOMAIN scan : i < next =>
        \E j \in DOMAIN scan : j >= i /\ scan[j].name = scan[i].name /\ Has(j)
  BY <1>1 DEF CoverInv, Progress
<1>5. \A j \in DOMAIN scan : Has(j) <=> Has(j)'
  BY <1>1 DEF Has
<1>6. result' = "none"
  BY <1>1 DEF CoverInv, Progress
<1>7. JobConfig(job)' = JobConfig(job')
  BY DEF JobConfig
<1>8. Progress'
  <2>1. JobConfig(JobFromVolume(scan[next], NoHook))
          = JobConfig(JobFromVolume(scan'[next], NoHook))
    BY <1>1
  <2>2. \E last \in DOMAIN scan' :
            /\ next' = last + 1
            /\ job'.name = scan'[last].name
            /\ JobConfig(job') = JobConfig(JobFromVolume(scan'[last], NoHook))
            /\ \A i \in DOMAIN scan' : i < last /\ scan'[i].name # job'.name =>
                \E j \in DOMAIN scan' : j >= i /\ scan'[j].name = scan'[i].name /\ Has(j)'
    <3>1. next \in DOMAIN scan'
      BY <1>1
    <3>2. WITNESS next \in DOMAIN scan'
    <3>3. QED
      BY <1>1, <1>3, <1>4, <1>5, <2>1
  <2>3. QED
    BY <1>1, <1>6, <2>2 DEF Progress, JobConfig, JobFromVolume
<1>9. QED
  BY <1>6, <1>8 DEF CoverInv, EveryVolumeHasJob

LEMMA CoverSelect == ASSUME IInv, CoverInv, Select PROVE CoverInv'
<1>1. pc = "choose" /\ pc' \in {"choose", "save"} /\ mode = "interactive" /\ mode' = mode
      /\ result' = result
  BY DEF Select
<1>2. result' = "none"
  BY <1>1 DEF CoverInv, Progress
<1>3. QED
  BY <1>1, <1>2 DEF CoverInv, Progress, EveryVolumeHasJob

\* A command that ends in any other way than by having created all jobs.
LEMMA CoverOver ==
    ASSUME NEW r \in {"finished", "failed", "killed"}, Over(r)
    PROVE  CoverInv'
BY DEF Over, CoverInv, Progress, EveryVolumeHasJob

LEMMA CoverFinish == ASSUME IInv, CoverInv, Finish PROVE CoverInv'
<1>1. CASE mode = "auto" /\ next \notin DOMAIN scan /\ Over("created")
  <2>1. /\ pc = "choose" /\ scan' = scan /\ config' = config
        /\ pc' = "idle" /\ next' = 1
    BY <1>1 DEF Finish, Over, found
  <2>2. \A i \in DOMAIN scan : i < next =>
          \E j \in DOMAIN scan : j >= i /\ scan[j].name = scan[i].name /\ Has(j)
    BY <1>1, <2>1 DEF CoverInv, Progress
  <2>3. \A i \in DOMAIN scan : i < next
    <3>1. PICK k \in Nat : DOMAIN scan = 1..k
      BY DEF IInv, Control
    <3>2. next \in Nat \ {0}
      BY DEF IInv, TypeOK
    <3>3. QED
      BY <1>1, <3>1, <3>2
  <2>4. EveryVolumeHasJob'
    BY <2>1, <2>2, <2>3 DEF EveryVolumeHasJob, Has
  <2>5. Progress'
    BY <2>1 DEF Progress
  <2>6. QED
    BY <2>4, <2>5 DEF CoverInv
<1>2. QED
  BY <1>1, CoverOver DEF Finish

\* The steps of SaveJob that do not finish it change its job's files only.
LEMMA CoverSaving ==
    ASSUME IInv, CoverInv, pc \notin {"idle", "choose"}, pc' \notin {"idle", "choose"},
           UNCHANGED <<mode, scan, next, job, result>>,
           DOMAIN config \subseteq DOMAIN config',
           \A n \in DOMAIN config : n # job.name => config'[n] = config[n]
    PROVE  CoverInv'
<1>1. result' = "none"
  BY DEF CoverInv, Progress
<1>2. \A j \in DOMAIN scan : scan[j].name # job.name /\ Has(j) => Has(j)'
  BY DEF Has
<1>3. ASSUME mode' = "auto"
      PROVE  \E last \in DOMAIN scan' :
                /\ next' = last + 1
                /\ job'.name = scan'[last].name
                /\ JobConfig(job') = JobConfig(JobFromVolume(scan'[last], NoHook))
                /\ \A i \in DOMAIN scan' : i < last /\ scan'[i].name # job'.name =>
                    \E j \in DOMAIN scan' : j >= i /\ scan'[j].name = scan'[i].name /\ Has(j)'
  <2>1. PICK last \in DOMAIN scan :
            /\ next = last + 1
            /\ job.name = scan[last].name
            /\ JobConfig(job) = JobConfig(JobFromVolume(scan[last], NoHook))
            /\ \A i \in DOMAIN scan : i < last /\ scan[i].name # job.name =>
                \E j \in DOMAIN scan : j >= i /\ scan[j].name = scan[i].name /\ Has(j)
    BY <1>3 DEF CoverInv, Progress
  <2>2. last \in DOMAIN scan'
    OBVIOUS
  <2>3. WITNESS last \in DOMAIN scan'
  <2>4. QED
    BY <1>2, <2>1
<1>4. Progress'
  BY <1>1, <1>3 DEF Progress, JobConfig, JobFromVolume
<1>5. QED
  BY <1>1, <1>4 DEF CoverInv, EveryVolumeHasJob

LEMMA CoverOpenConfig == ASSUME IInv, CoverInv, OpenConfig PROVE CoverInv'
<1>1. CASE /\ pc' = "config" /\ config' = With(config, job.name, Torn)
           /\ saved' = Without(saved, job.name)
           /\ UNCHANGED <<job, next, result, losses>>
  <2>1. \A n \in DOMAIN config :
            n \in DOMAIN config' /\ (n # job.name => config'[n] = config[n])
    BY <1>1 DEF With
  <2>2. pc = "save" /\ mode' = mode /\ scan' = scan
    BY DEF OpenConfig, found
  <2>3. QED
    BY <1>1, <2>1, <2>2, CoverSaving
<1>2. QED
  BY <1>1, CoverOver DEF OpenConfig

LEMMA CoverWriteConfig == ASSUME IInv, CoverInv, WriteConfig PROVE CoverInv'
<1>1. CASE /\ pc' = "env" /\ config' = With(config, job.name, JobConfig(job))
           /\ UNCHANGED <<job, next, result, losses>>
  <2>1. \A n \in DOMAIN config :
            n \in DOMAIN config' /\ (n # job.name => config'[n] = config[n])
    BY <1>1 DEF With
  <2>2. pc = "config" /\ mode' = mode /\ scan' = scan
    BY DEF WriteConfig, found
  <2>3. QED
    BY <1>1, <2>1, <2>2, CoverSaving
<1>2. QED
  BY <1>1, CoverOver DEF WriteConfig

LEMMA CoverOpenEnv == ASSUME IInv, CoverInv, OpenEnv PROVE CoverInv'
<1>1. CASE /\ pc' = "write env" /\ env' = With(env, job.name, NoCredentials)
           /\ UNCHANGED <<job, next, result, losses>>
  <2>1. pc = "env" /\ mode' = mode /\ scan' = scan /\ config' = config
    BY DEF OpenEnv, found
  <2>2. QED
    BY <1>1, <2>1, CoverSaving
<1>2. QED
  BY <1>1, CoverOver DEF OpenEnv

LEMMA Before ==
    ASSUME NEW a \in Nat, NEW b \in Nat, a < b + 1
    PROVE  a <= b /\ (a # b => a < b)
OBVIOUS

\* Both ways in which SaveJob ends well.
LEMMA CoverSaved ==
    ASSUME IInv, CoverInv, Saved, pc \in {"env", "write env"},
           UNCHANGED <<config, found>>
    PROVE  CoverInv'
<1>1. /\ pc' = "choose" /\ next' = next /\ result' = result
      /\ scan' = scan /\ mode' = mode
  BY DEF Saved, found
<1>2. result' = "none"
  BY <1>1 DEF CoverInv, Progress
<1>3. \A j \in DOMAIN scan : Has(j) => Has(j)'
  BY <1>1 DEF Has
<1>4. ASSUME mode = "auto", NEW i \in DOMAIN scan, i < next
      PROVE  \E j \in DOMAIN scan : j >= i /\ scan[j].name = scan[i].name /\ Has(j)
  <2>1. PICK last \in DOMAIN scan :
            /\ next = last + 1
            /\ job.name = scan[last].name
            /\ JobConfig(job) = JobConfig(JobFromVolume(scan[last], NoHook))
            /\ \A k \in DOMAIN scan : k < last /\ scan[k].name # job.name =>
                \E j \in DOMAIN scan : j >= k /\ scan[j].name = scan[k].name /\ Has(j)
    BY <1>4 DEF CoverInv, Progress
  <2>2. Has(last)
    <3>1. config[job.name] = JobConfig(job) /\ job.name \in DOMAIN config
      BY DEF IInv, TypeOK, Control, Open
    <3>2. QED
      BY <2>1, <3>1 DEF Has
  <2>3. i <= last /\ (i # last => i < last)
    <3>1. last \in Nat /\ i \in Nat
      BY <1>4, <2>1, ScanIndices
    <3>2. i < last + 1
      BY <1>4, <2>1
    <3>3. QED
      BY <3>1, <3>2, Before
  <2>4. CASE scan[i].name = job.name
    <3>1. last >= i
      <4>1. last \in Nat /\ i \in Nat
        BY <1>4, <2>1, ScanIndices
      <4>2. QED
        BY <2>3, <4>1
    <3>2. QED
      BY <2>1, <2>2, <2>4, <3>1
  <2>5. CASE scan[i].name # job.name
    <3>1. i # last
      BY <2>1, <2>5
    <3>2. i < last
      BY <2>3, <3>1
    <3>3. QED
      BY <1>4, <2>1, <2>5, <3>2
  <2>6. QED
    BY <2>4, <2>5
<1>5. Progress'
  BY <1>1, <1>2, <1>3, <1>4 DEF Progress
<1>6. QED
  BY <1>2, <1>5 DEF CoverInv, EveryVolumeHasJob

LEMMA CoverStep == ASSUME IInv, CoverInv, [Next]_vars PROVE CoverInv'
<1>1. CASE SkipEnv
  BY <1>1, CoverSaved DEF SkipEnv
<1>2. CASE WriteEnv \/ WriteVault
  BY <1>2, CoverSaved, CoverOver DEF WriteEnv, WriteVault
<1>3. CASE Kill
  BY <1>3, CoverOver DEF Kill
<1>4. CASE Edit
  <2>1. pc = "idle" /\ UNCHANGED <<config, mode, scan, pc, next, result>>
    BY <1>4 DEF Edit
  <2>2. QED
    BY <2>1 DEF CoverInv, Progress, EveryVolumeHasJob
<1>5. CASE UNCHANGED vars
  BY <1>5 DEF vars, CoverInv, Progress, EveryVolumeHasJob, Has
<1>6. QED
  BY <1>1, <1>2, <1>3, <1>4, <1>5, CoverBegin, CoverNextVolume, CoverSelect, CoverFinish,
     CoverOpenConfig, CoverWriteConfig, CoverOpenEnv DEF Next, Save

(* A `generate --auto` that ends well has left a job for every volume it   *)
(* has found, or for a later one of the same name.                         *)
THEOREM NoVolumeWithoutJob == Spec => []EveryVolumeHasJob
<1>1. Init => CoverInv
  BY DEF Init, CoverInv, Progress, EveryVolumeHasJob
<1>2. IInv /\ CoverInv /\ [Next]_vars => CoverInv'
  BY CoverStep
<1>3. CoverInv => EveryVolumeHasJob
  BY DEF CoverInv
<1>4. QED
  BY <1>1, <1>2, <1>3, Inductive, PTL DEF Spec
-----------------------------------------------------------------------------
(* The least-number principle for a set, from the well-foundedness of `<`. *)
LessThan == {ss \in Nat \X Nat : ss[1] < ss[2]}

LEMMA Least ==
    ASSUME NEW D \in SUBSET Nat, D # {}
    PROVE  \E x \in D : \A y \in D : x <= y
<1>1. OpToRel(<, Nat) = LessThan
  BY Zenon DEF OpToRel, LessThan
<1>2. IsWellFoundedOn(LessThan, Nat)
  BY <1>1, NatLessThanWellFounded, Zenon
<1>3. PICK x \in D : \A y \in D : <<y, x>> \notin LessThan
  BY <1>2, WFMin, Zenon
<1>4. \A y \in D : ~(y < x)
  <2> TAKE y \in D
  <2>1. <<y, x>> \in Nat \X Nat /\ <<y, x>>[1] = y /\ <<y, x>>[2] = x
    OBVIOUS
  <2>2. QED
    BY <1>3, <2>1 DEF LessThan
<1>5. QED
  BY <1>4

\* Container c can be where a record with these fields has its credentials.
OwnedBy(c, volume, service, creds) ==
    /\ c \in ContainerNames
    /\ volume \in Mounts[c] /\ Fits(c, service)
    /\ \A k \in DOMAIN ExtractCredentials(c) :
        k \in DOMAIN creds /\ ExtractCredentials(c)[k] \in {"", creds[k]}

OwnedInfo(v) ==
    IF v.containers = {} THEN DOMAIN v.creds = {}
    ELSE \E c \in ContainerNames : OwnedBy(c, v.volume, v.service, v.creds)

OwnedJob(j) ==
    DOMAIN j.creds # {} => \E c \in ContainerNames : OwnedBy(c, j.volume, j.service, j.creds)

(* What the scan has found, the job being saved and the jobs that have     *)
(* been saved have their credentials from a container of their service.    *)
Owned ==
    /\ \A i \in DOMAIN scan : OwnedInfo(scan[i])
    /\ OwnedJob(job)
    /\ \A n \in DOMAIN saved : OwnedJob(saved[n])

LEMMA FirstUser ==
    ASSUME NEW users \in SUBSET DOMAIN Containers, users # {}
    PROVE  \E i \in users : First(users) = Containers[i]
<1>1. users \in SUBSET Nat
  BY HostAssumption
<1>2. \E i \in users : \A j \in users : i <= j
  BY <1>1, Least
<1>3. (CHOOSE i \in users : \A j \in users : i <= j) \in users
  BY <1>2
<1>4. QED
  BY <1>3 DEF First

(* The container that tells the service of a volume. *)
LEMMA TargetFits ==
    ASSUME NEW v, NEW seen, Users(v, seen) # {}, NEW hint \in PortHints
    PROVE  /\ Target(Users(v, seen)) \in ContainerNames
           /\ v \in Mounts[Target(Users(v, seen))]
           /\ Fits(Target(Users(v, seen)), ServiceOf(Users(v, seen), hint))
<1> DEFINE users == Users(v, seen)
<1>1. users \in SUBSET DOMAIN Containers /\ Told(users) \in SUBSET DOMAIN Containers
  BY DEF Users, Told
<1>2. PICK i \in users : /\ Target(users) = Containers[i]
                         /\ Told(users) = {} \/ i \in Told(users)
  <2>1. CASE Told(users) = {}
    BY <1>1, <2>1, FirstUser DEF Target
  <2>2. CASE Told(users) # {}
    <3>1. \E i \in Told(users) : Target(users) = Containers[i]
      BY <1>1, <2>2, FirstUser DEF Target
    <3>2. QED
      BY <3>1 DEF Told
  <2>3. QED
    BY <2>1, <2>2
<1>3. Target(users) \in ContainerNames /\ v \in Mounts[Target(users)]
  BY <1>2 DEF Users, ContainerNames, Elements
<1>4. CASE Told(users) # {}
  <2>1. ServiceOf(users, hint) = Image[Target(users)]
    BY <1>4 DEF ServiceOf
  <2>2. QED
    BY <1>3, <2>1 DEF Fits
<1>5. CASE Told(users) = {}
  <2>1. ServiceOf(users, hint) = hint[Target(users)]
    BY <1>5 DEF ServiceOf
  <2>2. Image[Target(users)] = Generic
    BY <1>2, <1>5 DEF Told
  <2>3. IF Ports[Target(users)] = {} THEN hint[Target(users)] = Generic
        ELSE hint[Target(users)] \in Ports[Target(users)]
    BY <1>3 DEF PortHints
  <2>4. QED
    BY <1>3, <2>1, <2>2, <2>3 DEF Fits
<1>6. QED
  BY <1>4, <1>5

LEMMA ScannedOwned ==
    ASSUME NEW seen, NEW hint \in PortHints, NEW i \in DOMAIN ScanVolumes(seen, hint)
    PROVE  OwnedInfo(ScanVolumes(seen, hint)[i])
<1> DEFINE users == Users(Volumes[i], seen)
           v == ScanVolumes(seen, hint)[i]
<1>1. v = VolumeInfo(Volumes[i], users, hint)
  BY DEF ScanVolumes
<1>2. /\ v.volume = Volumes[i] /\ v.containers = users
      /\ v.service = ServiceOf(users, hint) /\ v.creds = CredentialsOf(users)
  BY <1>1 DEF VolumeInfo
<1>3. CASE users = {}
  BY <1>2, <1>3 DEF OwnedInfo, CredentialsOf, NoCredentials
<1>4. CASE users # {}
  <2>1. v.creds = ExtractCredentials(Target(users))
    BY <1>2, <1>4 DEF CredentialsOf
  <2>2. OwnedBy(Target(users), v.volume, v.service, v.creds)
    BY <1>2, <1>4, <2>1, TargetFits DEF OwnedBy
  <2>3. QED
    BY <1>2, <1>4, <2>2 DEF OwnedInfo, OwnedBy
<1>5. QED
  BY <1>3, <1>4

\* A job has the credentials of what it was made of.
LEMMA OwnedJobOf ==
    ASSUME NEW v, OwnedInfo(v), NEW hook
    PROVE  OwnedJob(JobFromVolume(v, hook))
BY DEF OwnedInfo, OwnedJob, JobFromVolume

LEMMA NoJobOwned == OwnedJob(NoJob)
BY DEF NoJob, JobFromVolume, NoCredentials, OwnedJob

(* What the user types fills gaps, and replaces nothing. *)
LEMMA CompletedOwned ==
    ASSUME NEW v, IsInfo(v), OwnedInfo(v), NEW K \in SUBSET Missing(v), NEW x
    PROVE  OwnedInfo(Completed(v, K, x))
<1> DEFINE creds == [k \in DOMAIN v.creds \cup K |-> IF k \in K THEN x ELSE v.creds[k]]
           w == Completed(v, K, x)
<1>1. /\ w.volume = v.volume /\ w.containers = v.containers
      /\ w.service = v.service /\ w.creds = creds
  BY DEF IsInfo, Completed
<1>2. CASE v.containers = {}
  BY <1>1, <1>2 DEF OwnedInfo, Missing
<1>3. CASE v.containers # {}
  <2>1. PICK c \in ContainerNames : OwnedBy(c, v.volume, v.service, v.creds)
    BY <1>3 DEF OwnedInfo
  <2>2. \A k \in K : k \notin DOMAIN v.creds \/ v.creds[k] = ""
    BY DEF Missing
  <2>3. ASSUME NEW k \in DOMAIN ExtractCredentials(c)
        PROVE  k \in DOMAIN creds /\ ExtractCredentials(c)[k] \in {"", creds[k]}
    <3>1. k \in DOMAIN v.creds /\ ExtractCredentials(c)[k] \in {"", v.creds[k]}
      BY <2>1 DEF OwnedBy
    <3>2. QED
      BY <2>2, <3>1
  <2>4. OwnedBy(c, w.volume, w.service, w.creds)
    BY <1>1, <2>1, <2>3 DEF OwnedBy
  <2>5. QED
    BY <1>1, <1>3, <2>4 DEF OwnedInfo
<1>4. QED
  BY <1>2, <1>3

LEMMA OwnedSelect == ASSUME IInv, Owned, Select PROVE Owned'
<1>1. PICK i \in DOMAIN scan, hook \in Hooks, x \in Typed : \E K \in SUBSET Missing(scan[i]) :
        LET v == [scan[i] EXCEPT !.creds = [k \in DOMAIN @ \cup K |->
                                                IF k \in K THEN x ELSE @[k]]]
        IN /\ scan' = [scan EXCEPT ![i] = v]
           /\ \/ pc' = "save" /\ job' = JobFromVolume(v, hook)
              \/ UNCHANGED <<pc, job>>
  BY DEF Select
<1>2. PICK K \in SUBSET Missing(scan[i]) :
        /\ scan' = [scan EXCEPT ![i] = Completed(scan[i], K, x)]
        /\ \/ pc' = "save" /\ job' = JobFromVolume(Completed(scan[i], K, x), hook)
           \/ UNCHANGED <<pc, job>>
  BY <1>1 DEF Completed
<1>3. OwnedInfo(Completed(scan[i], K, x))
  BY CompletedOwned DEF IInv, Control, Owned
<1>4. OwnedJob(job')
  BY <1>2, <1>3, OwnedJobOf DEF Owned
<1>5. DOMAIN scan' = DOMAIN scan /\ \A k \in DOMAIN scan : OwnedInfo(scan'[k])
  BY <1>2, <1>3 DEF Owned
<1>6. saved' = saved
  BY DEF Select
<1>7. QED
  BY <1>4, <1>5, <1>6 DEF Owned

\* The other steps: jobs are kept, saved or forgotten.
LEMMA OwnedKept ==
    ASSUME Owned, scan' = scan, job' = job \/ job' = NoJob,
           \A n \in DOMAIN saved' :
              (n \in DOMAIN saved /\ saved'[n] = saved[n]) \/ saved'[n] = job
    PROVE  Owned'
BY NoJobOwned DEF Owned

LEMMA OwnedStep == ASSUME IInv, Owned, [Next]_vars PROVE Owned'
<1>1. CASE Begin
  <2>1. PICK seen \in SUBSET ContainerNames, hint \in PortHints : scan' = ScanVolumes(seen, hint)
    BY <1>1 DEF Begin
  <2>2. \A i \in DOMAIN scan' : OwnedInfo(scan'[i])
    BY <2>1, ScannedOwned
  <2>3. job' = job /\ saved' = saved
    BY <1>1 DEF Begin
  <2>4. QED
    BY <2>2, <2>3 DEF Owned
<1>2. CASE NextVolume
  <2>1. next \in DOMAIN scan /\ scan' = scan /\ saved' = saved
    BY <1>2 DEF NextVolume, found
  <2>2. PICK hook \in Hooks : job' = JobFromVolume(scan[next], hook)
    BY <1>2 DEF NextVolume
  <2>3. OwnedJob(job')
    BY <2>1, <2>2, OwnedJobOf DEF Owned
  <2>4. QED
    BY <2>1, <2>3 DEF Owned
<1>3. CASE Finish \/ Kill \/ UNCHANGED vars
  <2>1. scan' = scan /\ saved' = saved /\ (job' = job \/ job' = NoJob)
    BY <1>3 DEF Finish, Kill, Over, found, vars
  <2>2. QED
    BY <2>1, OwnedKept
<1>4. CASE OpenConfig \/ WriteConfig \/ OpenEnv
  <2>1. scan' = scan /\ (job' = job \/ job' = NoJob)
    BY <1>4 DEF OpenConfig, WriteConfig, OpenEnv, Over, found
  <2>2. \A n \in DOMAIN saved' : n \in DOMAIN saved /\ saved'[n] = saved[n]
    BY <1>4 DEF OpenConfig, WriteConfig, OpenEnv, Without
  <2>3. QED
    BY <2>1, <2>2, OwnedKept
<1>5. CASE SkipEnv \/ WriteEnv \/ WriteVault
  <2>1. scan' = scan /\ job' = NoJob
    BY <1>5 DEF SkipEnv, WriteEnv, WriteVault, Saved, Over, found
  <2>2. saved' = saved \/ saved' = With(saved, job.name, job)
    BY <1>5 DEF SkipEnv, WriteEnv, WriteVault, Saved
  <2>3. \A n \in DOMAIN saved' : (n \in DOMAIN saved /\ saved'[n] = saved[n]) \/ saved'[n] = job
    BY <2>2 DEF With
  <2>4. QED
    BY <2>1, <2>3, OwnedKept
<1>6. CASE Edit
  <2>1. scan' = scan /\ job' = job
    BY <1>6 DEF Edit
  <2>2. \A n \in DOMAIN saved' : n \in DOMAIN saved /\ saved'[n] = saved[n]
    BY <1>6 DEF Edit, Without
  <2>3. QED
    BY <2>1, <2>2, OwnedKept
<1>7. QED
  BY <1>1, <1>2, <1>3, <1>4, <1>5, <1>6, OwnedSelect DEF Next, Save

(* The credentials of a job belong to a container that mounts its volume   *)
(* and runs its service, whatever sidecars there are.                      *)
THEOREM CredentialsBelong == Spec => []CredentialsOfService
<1>1. Init => Owned
  BY NoJobOwned DEF Init, Empty, Owned
<1>2. IInv /\ Owned /\ [Next]_vars => Owned'
  BY OwnedStep
<1>3. Owned => CredentialsOfService
  BY DEF Owned, OwnedJob, OwnedBy, CredentialsOfService
<1>4. QED
  BY <1>1, <1>2, <1>3, Inductive, PTL DEF Spec
-----------------------------------------------------------------------------
(* The containers that share a volume run the same software. *)
NoSidecar ==
    \A c, d \in ContainerNames : Mounts[c] \cap Mounts[d] # {} => Image[c] = Image[d]

(* The container of the volume, and of a job, is one that the service fits.*)
RunnableInfo(v) == v.containers # {} => Fits(First(v.containers), v.service)
RunnableJob(j) == j.container # "" => Fits(j.container, j.service)

Runnable ==
    /\ \A i \in DOMAIN scan : RunnableInfo(scan[i])
    /\ RunnableJob(job)
    /\ \A n \in DOMAIN saved : RunnableJob(saved[n])

(* Without sidecars the first container's image tells as much as any. *)
LEMMA FirstFits ==
    ASSUME NoSidecar, NEW v, NEW seen, Users(v, seen) # {}, NEW hint \in PortHints
    PROVE  Fits(First(Users(v, seen)), ServiceOf(Users(v, seen), hint))
<1> DEFINE users == Users(v, seen)
<1>1. CASE Told(users) = {}
  <2>1. First(users) = Target(users)
    BY <1>1 DEF Target
  <2>2. QED
    BY <2>1, TargetFits
<1>2. CASE Told(users) # {}
  <2>1. users \in SUBSET DOMAIN Containers
    BY DEF Users
  <2>2. PICK i \in users : First(users) = Containers[i]
    BY <2>1, FirstUser
  <2>3. First(users) \in ContainerNames /\ v \in Mounts[First(users)]
    BY <2>2 DEF Users, ContainerNames, Elements
  <2>4. Target(users) \in ContainerNames /\ v \in Mounts[Target(users)]
    BY TargetFits
  <2>5. Image[First(users)] = Image[Target(users)]
    BY <2>3, <2>4 DEF NoSidecar
  <2>6. ServiceOf(users, hint) = Image[Target(users)]
    BY <1>2 DEF ServiceOf
  <2>7. QED
    BY <2>5, <2>6 DEF Fits
<1>3. QED
  BY <1>1, <1>2

LEMMA ScannedRunnable ==
    ASSUME NoSidecar, NEW seen, NEW hint \in PortHints,
           NEW i \in DOMAIN ScanVolumes(seen, hint)
    PROVE  RunnableInfo(ScanVolumes(seen, hint)[i])
<1> DEFINE users == Users(Volumes[i], seen)
           v == ScanVolumes(seen, hint)[i]
<1>1. v = VolumeInfo(Volumes[i], users, hint)
  BY DEF ScanVolumes
<1>2. v.containers = users /\ v.service = ServiceOf(users, hint)
  BY <1>1 DEF VolumeInfo
<1>3. QED
  BY <1>2, FirstFits DEF RunnableInfo

LEMMA RunnableJobOf ==
    ASSUME NEW v, RunnableInfo(v), NEW hook
    PROVE  RunnableJob(JobFromVolume(v, hook))
BY DEF RunnableInfo, RunnableJob, JobFromVolume

LEMMA NoJobRunnable == RunnableJob(NoJob)
BY DEF NoJob, JobFromVolume, RunnableJob

(* What the user types changes neither the containers nor the service. *)
LEMMA RunnableSelect == ASSUME IInv, Runnable, Select PROVE Runnable'
<1>1. PICK i \in DOMAIN scan, hook \in Hooks, x \in Typed : \E K \in SUBSET Missing(scan[i]) :
        LET v == [scan[i] EXCEPT !.creds = [k \in DOMAIN @ \cup K |->
                                                IF k \in K THEN x ELSE @[k]]]
        IN /\ scan' = [scan EXCEPT ![i] = v]
           /\ \/ pc' = "save" /\ job' = JobFromVolume(v, hook)
              \/ UNCHANGED <<pc, job>>
  BY DEF Select
<1>2. PICK K \in SUBSET Missing(scan[i]) :
        /\ scan' = [scan EXCEPT ![i] = Completed(scan[i], K, x)]
        /\ \/ pc' = "save" /\ job' = JobFromVolume(Completed(scan[i], K, x), hook)
           \/ UNCHANGED <<pc, job>>
  BY <1>1 DEF Completed
<1>3. RunnableInfo(Completed(scan[i], K, x))
  <2>1. IsInfo(scan[i]) /\ RunnableInfo(scan[i])
    BY DEF IInv, Control, Runnable
  <2>2. /\ Completed(scan[i], K, x).containers = scan[i].containers
        /\ Completed(scan[i], K, x).service = scan[i].service
    BY <2>1 DEF IsInfo, Completed
  <2>3. QED
    BY <2>1, <2>2 DEF RunnableInfo
<1>4. RunnableJob(job')
  BY <1>2, <1>3, RunnableJobOf DEF Runnable
<1>5. DOMAIN scan' = DOMAIN scan /\ \A k \in DOMAIN scan : RunnableInfo(scan'[k])
  BY <1>2, <1>3 DEF Runnable
<1>6. saved' = saved
  BY DEF Select
<1>7. QED
  BY <1>4, <1>5, <1>6 DEF Runnable

LEMMA RunnableKept ==
    ASSUME Runnable, scan' = scan, job' = job \/ job' = NoJob,
           \A n \in DOMAIN saved' :
              (n \in DOMAIN saved /\ saved'[n] = saved[n]) \/ saved'[n] = job
    PROVE  Runnable'
BY NoJobRunnable DEF Runnable

LEMMA RunnableStep == ASSUME NoSidecar, IInv, Runnable, [Next]_vars PROVE Runnable'
<1>1. CASE Begin
  <2>1. PICK seen \in SUBSET ContainerNames, hint \in PortHints : scan' = ScanVolumes(seen, hint)
    BY <1>1 DEF Begin
  <2>2. \A i \in DOMAIN scan' : RunnableInfo(scan'[i])
    BY <2>1, ScannedRunnable
  <2>3. job' = job /\ saved' = saved
    BY <1>1 DEF Begin
  <2>4. QED
    BY <2>2, <2>3 DEF Runnable
<1>2. CASE NextVolume
  <2>1. next \in DOMAIN scan /\ scan' = scan /\ saved' = saved
    BY <1>2 DEF NextVolume, found
  <2>2. PICK hook \in Hooks : job' = JobFromVolume(scan[next], hook)
    BY <1>2 DEF NextVolume
  <2>3. RunnableJob(job')
    BY <2>1, <2>2, RunnableJobOf DEF Runnable
  <2>4. QED
    BY <2>1, <2>3 DEF Runnable
<1>3. CASE Finish \/ Kill \/ UNCHANGED vars
  <2>1. scan' = scan /\ saved' = saved /\ (job' = job \/ job' = NoJob)
    BY <1>3 DEF Finish, Kill, Over, found, vars
  <2>2. QED
    BY <2>1, RunnableKept
<1>4. CASE OpenConfig \/ WriteConfig \/ OpenEnv
  <2>1. scan' = scan /\ (job' = job \/ job' = NoJob)
    BY <1>4 DEF OpenConfig, WriteConfig, OpenEnv, Over, found
  <2>2. \A n \in DOMAIN saved' : n \in DOMAIN saved /\ saved'[n] = saved[n]
    BY <1>4 DEF OpenConfig, WriteConfig, OpenEnv, Without
  <2>3. QED
    BY <2>1, <2>2, RunnableKept
<1>5. CASE SkipEnv \/ WriteEnv \/ WriteVault
  <2>1. scan' = scan /\ job' = NoJob
    BY <1>5 DEF SkipEnv, WriteEnv, WriteVault, Saved, Over, found
  <2>2. saved' = saved \/ saved' = With(saved, job.name, job)
    BY <1>5 DEF SkipEnv, WriteEnv, WriteVault, Saved
  <2>3. \A n \in DOMAIN saved' : (n \in DOMAIN saved /\ saved'[n] = saved[n]) \/ saved'[n] = job
    BY <2>2 DEF With
  <2>4. QED
    BY <2>1, <2>3, RunnableKept
<1>6. CASE Edit
  <2>1. scan' = scan /\ job' = job
    BY <1>6 DEF Edit
  <2>2. \A n \in DOMAIN saved' : n \in DOMAIN saved /\ saved'[n] = saved[n]
    BY <1>6 DEF Edit, Without
  <2>3. QED
    BY <2>1, <2>2, RunnableKept
<1>7. QED
  BY <1>1, <1>2, <1>3, <1>4, <1>5, <1>6, RunnableSelect DEF Next, Save

(* Every job is run in a container of its own service, on every host where *)
(* the containers that share a volume run the same software. A sidecar is  *)
(* all that stands in the way: run GenerateSidecar violates the property   *)
(* with one.                                                               *)
THEOREM RunsWhereItBelongs ==
    ASSUME NoSidecar
    PROVE  Spec => []RunsInItsContainer
<1>1. Init => Runnable
  BY NoJobRunnable DEF Init, Empty, Runnable
<1>2. IInv /\ Runnable /\ [Next]_vars => Runnable'
  BY RunnableStep
<1>3. Runnable => RunsInItsContainer
  BY DEF Runnable, RunnableJob, RunsInItsContainer
<1>4. QED
  BY <1>1, <1>2, <1>3, Inductive, PTL DEF Spec
-----------------------------------------------------------------------------
(* A container whose image tells nothing exposes one well-known port at    *)
(* most.                                                                   *)
OnePort == \A c \in ContainerNames :
                Image[c] = Generic => \A s, t \in Ports[c] : s = t

(* Two scans of the same containers find the same volumes, services, names *)
(* and credentials, although inspect lists ports in the order of a Go map: *)
(* only a container that has nothing but ports to tell it by, and more     *)
(* than one of them, can be taken for different services.                  *)
THEOREM ScanIsRepeatable ==
    ASSUME OnePort, NEW seen, NEW hint \in PortHints, NEW other \in PortHints
    PROVE  ScanVolumes(seen, hint) = ScanVolumes(seen, other)
<1>1. ASSUME NEW v PROVE ServiceOf(Users(v, seen), hint) = ServiceOf(Users(v, seen), other)
  <2> DEFINE users == Users(v, seen)
  <2>1. CASE users = {} \/ Told(users) # {}
    BY <2>1 DEF ServiceOf
  <2>2. CASE users # {} /\ Told(users) = {}
    <3>1. users \in SUBSET DOMAIN Containers
      BY DEF Users
    <3>2. PICK i \in users : First(users) = Containers[i]
      BY <2>2, <3>1, FirstUser
    <3>3. First(users) \in ContainerNames /\ Image[First(users)] = Generic
      BY <2>2, <3>1, <3>2 DEF Told, ContainerNames, Elements
    <3>4. hint[First(users)] = other[First(users)]
      BY <3>3 DEF OnePort, PortHints
    <3>5. QED
      BY <2>2, <3>4 DEF ServiceOf, Target
  <2>3. QED
    BY <2>1, <2>2
<1>2. ASSUME NEW v
      PROVE  VolumeInfo(v, Users(v, seen), hint) = VolumeInfo(v, Users(v, seen), other)
  BY <1>1 DEF VolumeInfo
<1>3. QED
  BY <1>2 DEF ScanVolumes
=============================================================================
