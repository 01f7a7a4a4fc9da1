------------------------------ MODULE Generate ------------------------------
(***************************************************************************)
(* `dockvault generate`, again and again: internal/cli/generate.go,        *)
(* internal/generator (Wizard, CreateFromVolume), the job files of         *)
(* internal/workspace (SaveJob, LoadJob, saveEnv, loadEnv) and, where they *)
(* are built for Windows, the Credential Manager of internal/secrets.      *)
(*                                                                         *)
(* A command scans the host and saves a job per volume, or per volume the  *)
(* user selects: first job.json, then .env, each truncated before it is    *)
(* written, or one entry of the Credential Manager, which is replaced as a *)
(* whole. A write may fail, the command may be killed, containers may be *)
(* down or vanish during the scan, and users edit .env by hand.            *)
(***************************************************************************)
EXTENDS Detector, FiniteSets

CONSTANTS
    Hooks,        \* webhook URLs that config.json or the user may give
    Typed,        \* values that users type for a missing credential
    Trimmed,      \* Trimmed[x]: what loadEnv reads of .env where saveEnv wrote x
    MaxCommands,  \* bound: invocations of generate, and edits of an .env
    MaxChoices    \* bound: selections in one run of the wizard

NoHook == ""

ASSUME GenerateAssumption ==
    /\ NoHook \in Hooks /\ Hooks \subseteq STRING
    /\ Typed \subseteq STRING \ {""}
    /\ \A x \in DOMAIN Trimmed : Trimmed[x] \in STRING
    /\ Trimmed[NoHook] = NoHook
    /\ MaxCommands \in Nat /\ MaxChoices \in Nat

VARIABLES
    config,    \* config[n]: what job.json holds, for every job directory n
    env,       \* env[n]: what n's .env or its entry "DockVault/n" holds, if any
    pc,        \* where the current command is; "idle" between commands
    mode,      \* "auto" or "interactive"
    scan,      \* the VolumeInfos it has found
    next,      \* --auto comes to scan[next]; the wizard to its next'th question
    job,       \* the job that is being saved
    result,    \* how the latest command ended
    store,     \* credStore: the "file" .env, or on Windows the "vault"
    commands,  \* invocations and edits so far
    losses,    \* history: commands that were killed or whose write failed
    saved      \* history: saved[n]: what SaveJob has saved, until it is touched

vars == <<config, env, pc, mode, scan, next, job, result, store, commands,
          losses, saved>>
found == <<mode, scan, store, commands>>

Empty == <<>>

\* What is in a job.json that cannot be parsed: no fields.
Torn == [f \in {} |-> ""]

\* f with the value y for x, and f without x.
With(f, x, y) == [z \in DOMAIN f \cup {x} |-> IF z = x THEN y ELSE f[z]]
Without(f, x) == [z \in DOMAIN f \ {x} |-> f[z]]
-----------------------------------------------------------------------------
(* jobFromVolume, with the webhook URL of config.json. *)
JobFromVolume(v, hook) ==
    [name |-> v.name, service |-> v.service, volume |-> v.volume,
     container |-> IF v.containers = {} THEN "" ELSE First(v.containers),
     creds |-> v.creds, hook |-> hook]

NoJob == JobFromVolume([name |-> <<>>, service |-> Generic, volume |-> "",
                        containers |-> {}, creds |-> NoCredentials], NoHook)

(* The part of a job that job.json holds. *)
JobConfig(j) ==
    [name |-> j.name, service |-> j.service, volume |-> j.volume, container |-> j.container]

\* The key of the webhook URL in .env.
Hook == "WEBHOOK"

\* Mutant of EnvOf: a job without credentials has nothing for .env.
EnvOfCredentials(j) ==
    IF j.hook = NoHook \/ DOMAIN j.creds = {} THEN j.creds ELSE With(j.creds, Hook, j.hook)

(* The part that .env holds. *)
EnvOf(j) == IF j.hook = NoHook THEN j.creds ELSE With(j.creds, Hook, j.hook)

(* The lines of .env are trimmed; the blob in the vault is JSON. *)
Loaded(x) == IF store = "file" THEN Trimmed[x] ELSE x

(* loadEnv: no file or entry is as good as an empty one. *)
LoadEnv(n) ==
    IF n \in DOMAIN env THEN [k \in DOMAIN env[n] |-> Loaded(env[n][k])] ELSE NoCredentials

(* LoadJob, for a job.json that can be parsed. *)
LoadJob(n) ==
    [name |-> config[n].name, service |-> config[n].service,
     volume |-> config[n].volume, container |-> config[n].container,
     creds |-> Without(LoadEnv(n), Hook),
     hook |-> IF Hook \in DOMAIN LoadEnv(n) THEN LoadEnv(n)[Hook] ELSE NoHook]
-----------------------------------------------------------------------------
Init ==
    /\ config = Empty /\ env = Empty /\ saved = Empty
    /\ pc = "idle" /\ mode = "auto" /\ scan = <<>> /\ next = 1 /\ job = NoJob
    /\ result = "none" /\ store \in {"file", "vault"} /\ commands = 0 /\ losses = 0

(* The command ends. *)
Over(r) ==
    /\ pc' = "idle" /\ result' = r /\ job' = NoJob /\ next' = 1
    /\ losses' = losses + (IF r \in {"failed", "killed"} THEN 1 ELSE 0)

(* runGenerate, once it has the workspace lock. docker ps lists the        *)
(* running containers only, and one that cannot be inspected is left out,  *)
(* so that a scan may see any set of them.                                 *)
Begin ==
    /\ pc = "idle" /\ commands < MaxCommands
    /\ \E seen \in SUBSET ContainerNames, hint \in PortHints : scan' = ScanVolumes(seen, hint)
    /\ mode' \in {"auto", "interactive"}
    /\ pc' = "choose" /\ result' = "none" /\ commands' = commands + 1
    /\ UNCHANGED <<config, env, next, job, store, losses, saved>>

\* Mutant of NextVolume: an incomplete job is reported and not created.
NextCompleteVolume ==
    /\ pc = "choose" /\ mode = "auto" /\ next \in DOMAIN scan
    /\ \E hook \in Hooks : job' = JobFromVolume(scan[next], hook)
    /\ pc' = IF CredentialKeys(scan[next].service) \subseteq DOMAIN scan[next].creds
             THEN "save" ELSE "choose"
    /\ next' = next + 1
    /\ UNCHANGED <<config, env, found, result, losses, saved>>

(* --auto: CreateFromVolume reads config.json and builds the job. *)
NextVolume ==
    /\ pc = "choose" /\ mode = "auto" /\ next \in DOMAIN scan
    /\ \E hook \in Hooks : job' = JobFromVolume(scan[next], hook)
    /\ pc' = "save" /\ next' = next + 1
    /\ UNCHANGED <<config, env, found, result, losses, saved>>

\* The credentials that PromptMissingCredentials asks for.
Missing(v) ==
    IF v.containers = {} THEN {}
    ELSE {k \in CredentialKeys(v.service) : k \notin DOMAIN v.creds \/ v.creds[k] = ""}

(* Wizard.Run: the user selects a volume, types what is missing (or        *)
(* nothing), and may give a webhook. The job's credentials are the same Go *)
(* map as the candidate's, so that what is typed stays if the user then    *)
(* declines to create the job.                                             *)
Select ==
    /\ pc = "choose" /\ mode = "interactive" /\ next <= MaxChoices
    /\ \E i \in DOMAIN scan, hook \in Hooks, x \in Typed : \E K \in SUBSET Missing(scan[i]) :
        LET v == [scan[i] EXCEPT !.creds = [k \in DOMAIN @ \cup K |->
                                                IF k \in K THEN x ELSE @[k]]]
        IN /\ scan' = [scan EXCEPT ![i] = v]
           /\ \/ pc' = "save" /\ job' = JobFromVolume(v, hook)
              \/ UNCHANGED <<pc, job>>
    /\ next' = next + 1
    /\ UNCHANGED <<config, env, mode, store, commands, result, losses, saved>>

(* The loop of --auto has ended; or the user has chosen Finish in the      *)
(* wizard, or declined before the loop.                                    *)
Finish ==
    /\ pc = "choose"
    /\ \/ mode = "auto" /\ next \notin DOMAIN scan /\ Over("created")
       \/ mode = "interactive" /\ Over("finished")
       \/ mode = "auto" /\ next = 1 /\ Over("finished")
    /\ UNCHANGED <<config, env, found, saved>>
-----------------------------------------------------------------------------
(* SaveJob: the directory is made, and os.WriteFile truncates job.json. An *)
(* error up to here, config.json's included, ends the command.             *)
OpenConfig ==
    /\ pc = "save"
    /\ \/ /\ pc' = "config" /\ config' = With(config, job.name, Torn)
          /\ saved' = Without(saved, job.name)
          /\ UNCHANGED <<job, next, result, losses>>
       \/ Over("failed") /\ UNCHANGED <<config, saved>>
    /\ UNCHANGED <<env, found>>

\* Mutant of WriteConfig: the error of the write is dropped.
WriteConfigUnchecked ==
    /\ pc = "config" /\ pc' = "env"
    /\ config' = With(config, job.name, JobConfig(job)) \/ UNCHANGED config
    /\ UNCHANGED <<env, found, next, job, result, losses, saved>>

(* It writes the file; when that fails, the command ends. *)
WriteConfig ==
    /\ pc = "config"
    /\ \/ /\ pc' = "env" /\ config' = With(config, job.name, JobConfig(job))
          /\ UNCHANGED <<job, next, result, losses>>
       \/ Over("failed") /\ UNCHANGED config
    /\ UNCHANGED <<env, found, saved>>

(* SaveJob is done: with the next volume, or the wizard's next question. *)
Saved ==
    /\ pc' = "choose" /\ saved' = With(saved, job.name, job) /\ job' = NoJob
    /\ UNCHANGED <<next, result, losses>>

(* No credentials and no webhook: an .env that exists stays as it is. *)
SkipEnv ==
    /\ pc = "env" /\ DOMAIN EnvOf(job) = {}
    /\ Saved
    /\ UNCHANGED <<config, env, found>>

(* saveEnv: os.WriteFile truncates .env. *)
OpenEnv ==
    /\ store = "file" /\ pc = "env" /\ DOMAIN EnvOf(job) # {}
    /\ \/ /\ pc' = "write env" /\ env' = With(env, job.name, NoCredentials)
          /\ UNCHANGED <<job, next, result, losses>>
       \/ Over("failed") /\ UNCHANGED env
    /\ UNCHANGED <<config, found, saved>>

\* The lines of .env are sorted by key: the first n of them.
Lines == <<Hook, "DB", "PASSWORD", "USER">>
FirstLines(e, n) == [k \in DOMAIN e \cap {Lines[i] : i \in 1..n} |-> e[k]]

(* It writes the lines, or only some of them. *)
WriteEnv ==
    /\ pc = "write env"
    /\ \/ env' = With(env, job.name, EnvOf(job)) /\ Saved
       \/ /\ \E n \in 0..Len(Lines) : env' = With(env, job.name, FirstLines(EnvOf(job), n))
          /\ Over("failed") /\ UNCHANGED saved
    /\ UNCHANGED <<config, found>>

(* saveEnv on Windows: CredWriteW replaces the job's entry, or fails. *)
WriteVault ==
    /\ store = "vault" /\ pc = "env" /\ DOMAIN EnvOf(job) # {}
    /\ \/ env' = With(env, job.name, EnvOf(job)) /\ Saved
       \/ Over("failed") /\ UNCHANGED <<env, saved>>
    /\ UNCHANGED <<config, found>>
-----------------------------------------------------------------------------
(* The command is killed, wherever it is. *)
Kill ==
    /\ pc # "idle"
    /\ Over("killed")
    /\ UNCHANGED <<config, env, found, saved>>

(* The user types a credential into a job's .env ("fix: edit the job's     *)
(* .env directly"). On Windows nothing reads such a file.                  *)
Edit ==
    /\ store = "file" /\ pc = "idle" /\ commands < MaxCommands /\ commands' = commands + 1
    /\ \E n \in DOMAIN config, k \in Keys, x \in Typed :
        /\ env' = With(env, n, With(IF n \in DOMAIN env THEN env[n] ELSE NoCredentials, k, x))
        /\ saved' = Without(saved, n)
    /\ UNCHANGED <<config, mode, scan, pc, next, job, result, store, losses>>

Save == OpenConfig \/ WriteConfig \/ SkipEnv \/ OpenEnv \/ WriteEnv \/ WriteVault

Next == Begin \/ NextVolume \/ Select \/ Finish \/ Save \/ Kill \/ Edit

Spec == Init /\ [][Next]_vars
-----------------------------------------------------------------------------
(* Types, and where the job being saved can be found. *)
TypeOK ==
    /\ \A n \in DOMAIN config : config[n] = Torn \/ config[n].name = n
    /\ DOMAIN env \subseteq DOMAIN config /\ DOMAIN saved \subseteq DOMAIN config
    /\ \A n \in DOMAIN env : DOMAIN env[n] \subseteq Keys \cup {Hook}
    /\ pc \in {"idle", "choose", "save", "config", "env", "write env"}
    /\ mode \in {"auto", "interactive"} /\ next \in Nat \ {0}
    /\ result \in {"none", "created", "finished", "failed", "killed"}
    /\ store \in {"file", "vault"} /\ (pc = "write env" => store = "file")
    /\ commands \in 0..MaxCommands /\ losses \in 0..commands
    /\ pc \in {"env", "write env"} => config[job.name] = JobConfig(job)

\* The job as LoadJob ought to give it back.
AsRead(j) == [j EXCEPT !.creds = [k \in DOMAIN @ |-> Loaded(@[k])], !.hook = Loaded(@)]

(* LoadJob gives back what SaveJob was given last (but for spaces at the   *)
(* end of values in .env), whatever commands were cut short before; but a  *)
(* job that has neither credentials nor a webhook is read with those of an *)
(* earlier one.                                                            *)
RoundTrip ==
    \A n \in DOMAIN saved :
        /\ config[n] = JobConfig(saved[n])
        /\ DOMAIN EnvOf(saved[n]) # {} \/ n \notin DOMAIN env => LoadJob(n) = AsRead(saved[n])

(* A job that cannot be loaded ends every `backup --all` before it starts. *)
(* Each command that is killed or fails leaves at most one such job.       *)
DamageIsBounded ==
    Cardinality({n \in DOMAIN config : config[n] = Torn})
        <= losses + (IF pc = "config" THEN 1 ELSE 0)

\* Container c is one that a job of service s can come from.
Fits(c, s) == Image[c] = s \/ (Image[c] = Generic /\ s \in Ports[c])

(* The credentials of a job come from one container that mounts its volume *)
(* and runs its service, and what is there is not replaced: "a volume      *)
(* mounted into an unrelated sidecar shouldn't override the service".      *)
CredentialsOfService ==
    \A n \in DOMAIN saved : DOMAIN saved[n].creds # {} =>
        \E c \in ContainerNames :
            /\ saved[n].volume \in Mounts[c] /\ Fits(c, saved[n].service)
            /\ \A k \in DOMAIN ExtractCredentials(c) :
                /\ k \in DOMAIN saved[n].creds
                /\ ExtractCredentials(c)[k] \in {"", saved[n].creds[k]}

(* A `generate --auto` that ends well has left a job for every volume; of  *)
(* several with one name, the last has it (README's "Known limitations").  *)
EveryVolumeHasJob ==
    result = "created" =>
        \A i \in DOMAIN scan : \E j \in DOMAIN scan :
            /\ j >= i /\ scan[j].name = scan[i].name
            /\ scan[j].name \in DOMAIN config
            /\ config[scan[j].name] = JobConfig(JobFromVolume(scan[j], NoHook))
-----------------------------------------------------------------------------
(* ScanVolumes' comment: the sidecar does not decide over "the service the *)
(* primary container clearly identifies".                                  *)
(* Violated: jobFromVolume takes the first container of the volume, not    *)
(* the one that told the service, and pg_dump is run in a sidecar.         *)
RunsInItsContainer ==
    \A n \in DOMAIN saved :
        saved[n].container # "" => Fits(saved[n].container, saved[n].service)
=============================================================================
