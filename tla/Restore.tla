------------------------------ MODULE Restore ------------------------------
(***************************************************************************)
(* `dockvault restore`, again and again, for one job: internal/cli/restore *)
(* (runRestore, maybeRestartContainer) and internal/restore (download,     *)
(* verify, the eight restorers).                                           *)
(*                                                                         *)
(* A restore downloads an archive and its manifest, compares them, stops   *)
(* the container if its type needs that, wipes the volume if its type does *)
(* that, and lets a docker program write the archive's files over the      *)
(* target. Every call may fail. SIGINT and SIGTERM kill the docker client, *)
(* SIGKILL kills dockvault alone, and the program inside the container may *)
(* outlive both; the workspace lock keeps only the commands apart.         *)
(***************************************************************************)
EXTENDS Retention

CONSTANTS
    Runs,          \* runs of the job
    Remotes,       \* what the remote directory may hold
    Types,         \* what BackupType may be
    Files,         \* the files (tables, collections, definitions) in an archive
    Live, Bad, None,   \* a file with live data, with wrong bytes, and no file
    MaxRestores    \* bound: restores of the job

\* stopsContainer, and the types whose restorer gunzips the archive before it
\* does anything with it, wipes the target, or feeds the archive over stdin.
Stops == {"redis", "n8n"}
Gunzips == {"postgres", "mysql", "rabbitmq"}
Wipes == {"n8n"}
Fed == {"postgres", "mysql", "mongodb"}

\* Those whose program reads the archive from a mount or inside its container,
\* and goes on without the docker client that started it.
Detached == {"standard", "hostdir", "n8n", "rabbitmq"}

\* Those whose program goes on after a statement or a document that fails, and
\* ends well: psql has no ON_ERROR_STOP, mongorestore no --stopOnError.
Tolerant == {"postgres", "mongodb"}

ASSUME RestoreAssumption ==
    /\ MaxRestores \in Nat
    /\ Remotes \subseteq SUBSET Object(Runs)
    /\ Types \subseteq Stops \cup Gunzips \cup Wipes \cup Fed \cup Detached

Content == Runs \cup {Live, Bad, None}

VARIABLES
    type,        \* BackupType
    remote,      \* GoogleDrivePath
    pc,          \* where the current command is; "idle" between commands
    tries,       \* commands so far
    cancelled,   \* the command's context has been cancelled
    chosen,      \* the run of the archive that the user has picked
    whole,       \* the downloaded bytes are the ones that were backed up
    warning,     \* missingManifestWarning
    up,          \* the job's container runs
    target,      \* target[f]: from which run a file is, or what became of it
    helper,      \* the docker program that works for the command, if any
    strays,      \* docker programs that have outlived their command
    result,      \* how the latest command ended
    asked,       \* ... whether it asked to start the container
    wasUp,       \* history: the container ran when it began
    touched,     \* history: it has changed the target
    alone        \* history: no stray was at work when it began

command == <<tries, chosen, wasUp, alone>>
vars == <<type, remote, pc, tries, cancelled, chosen, whole, warning, up, target,
          helper, strays, result, asked, wasUp, touched, alone>>

Steps == {"idle", "download", "verify", "stop", "wipe", "wiping", "apply", "applying",
          "prompt"}
Refusals == {"not downloaded", "refused"}
Failures == {"not stopped", "not wiped", "not applied"}
Successes == {"restored", "restored unverified"}
Results == {"none", "killed"} \cup Refusals \cup Failures \cup Successes

Program == [op : {"wipe", "write"}, run : Runs, whole : BOOLEAN, todo : SUBSET Files]

Init ==
    /\ type \in Types /\ remote \in Remotes
    /\ pc = "idle" /\ tries = 0 /\ cancelled = FALSE
    /\ chosen \in Runs /\ whole = FALSE /\ warning = FALSE
    /\ up \in BOOLEAN /\ target = [f \in Files |-> Live]
    /\ helper = {} /\ strays = {}
    /\ result = "none" /\ asked = FALSE
    /\ wasUp = up /\ touched = FALSE /\ alone = TRUE
-----------------------------------------------------------------------------
\* The command goes on with step s.
Continue(s) == pc' = s /\ UNCHANGED <<cancelled, result>>

\* The command is over.
Over(res) == pc' = "idle" /\ cancelled' = FALSE /\ result' = res

(* The job is loaded, an archive is picked from the listing, and RESTORE   *)
(* typed. A command that ends before that has changed nothing. A killed    *)
(* one has left its lock, and whoever removes it waits for its programs.   *)
Begin ==
    /\ pc = "idle" /\ tries < MaxRestores
    /\ result = "killed" => strays = {}
    /\ \E o \in ListFiles(remote) : chosen' = o.run
    /\ tries' = tries + 1 /\ pc' = "download"
    /\ whole' = FALSE /\ warning' = FALSE /\ result' = "none" /\ asked' = FALSE
    /\ wasUp' = up /\ touched' = FALSE /\ alone' = (strays = {})
    /\ UNCHANGED <<type, remote, cancelled, up, target, helper, strays>>

\* Mutant of Download: the container is stopped while the archive comes.
DownloadStopsAlready ==
    /\ pc = "download"
    /\ \/ /\ ~cancelled
          /\ \E w \in BOOLEAN : (w => Archive(chosen, TRUE) \in remote) /\ whole' = w
          /\ Continue("verify")
       \/ Over("not downloaded") /\ UNCHANGED whole
    /\ up' = (up /\ type \notin Stops)
    /\ UNCHANGED <<type, remote, command, warning, target, helper, strays, asked, touched>>

(* rclone copy of the archive; it may damage the bytes of a good one. *)
Download ==
    /\ pc = "download"
    /\ \/ /\ ~cancelled
          /\ \E w \in BOOLEAN : (w => Archive(chosen, TRUE) \in remote) /\ whole' = w
          /\ Continue("verify")
       \/ Over("not downloaded") /\ UNCHANGED whole
    /\ UNCHANGED <<type, remote, command, warning, up, target, helper, strays, asked,
                   touched>>

\* Mutant of Proceed: no type needs its container stopped.
ProceedLive == Continue("apply")

\* What follows the verification.
Proceed == Continue(IF type \in Stops THEN "stop" ELSE "apply")

\* Mutant of Verify: nothing is said of a manifest that is missing.
VerifySilently ==
    /\ pc = "verify"
    /\ \/ Proceed
       \/ Over("refused")
    /\ UNCHANGED <<type, remote, command, whole, warning, up, target, helper, strays,
                   asked, touched>>

(* verifyManifestFile and verifyManifestBytes: a manifest that cannot be   *)
(* fetched or parsed is a warning, one that disagrees a refusal. Then the  *)
(* archive is gunzipped, where its own checksum tells that it is damaged.  *)
Verify ==
    /\ pc = "verify"
    /\ \/ /\ ~cancelled /\ Manifest(chosen) \in remote /\ whole
          /\ Proceed /\ UNCHANGED warning
       \/ /\ type \in Gunzips => whole
          /\ warning' = TRUE /\ Proceed
       \/ Over("refused") /\ UNCHANGED warning
    /\ UNCHANGED <<type, remote, command, whole, up, target, helper, strays, asked,
                   touched>>

(* docker stop; when it fails, it may have stopped the container. *)
Stop ==
    /\ pc = "stop"
    /\ \/ /\ ~cancelled /\ up' = FALSE
          /\ Continue(IF type \in Wipes THEN "wipe" ELSE "apply")
       \/ up' \in {up, up /\ cancelled} /\ Over("not stopped")
    /\ UNCHANGED <<type, remote, command, whole, warning, target, helper, strays, asked,
                   touched>>
-----------------------------------------------------------------------------
\* A docker program is started for the command; docker exec needs the container
\* to be up.
Launch(op, files, s, failure) ==
    /\ \/ /\ ~cancelled /\ (type \in Gunzips \cup Fed => up)
          /\ helper' = {[op |-> op, run |-> chosen, whole |-> whole, todo |-> files]}
          /\ Continue(s)
       \/ Over(failure) /\ UNCHANGED helper
    /\ UNCHANGED <<type, remote, command, whole, warning, up, target, strays, asked,
                   touched>>

(* docker run of rm -rf over everything in the volume. *)
Wipe == pc = "wipe" /\ Launch("wipe", Files, "wiping", "not wiped")

(* docker run of tar, docker exec of psql, mysql, mongorestore or          *)
(* rabbitmqctl, or docker cp: each replaces what the archive holds.        *)
Apply == pc = "apply" /\ Launch("write", Files, "applying", "not applied")

\* What program h makes of a file.
Outcome(h) ==
    IF h.op = "wipe" THEN {None} ELSE {h.run} \cup (IF h.whole THEN {} ELSE {Bad})

\* Program h has dealt with file f.
Without(h, f) == [h EXCEPT !.todo = @ \ {f}]

Touch(h, f) == \E c \in Outcome(h) : target' = [target EXCEPT ![f] = c]

(* The command's program works on one file. *)
Work ==
    \E h \in helper : \E f \in h.todo :
        /\ Touch(h, f) /\ helper' = {Without(h, f)} /\ touched' = TRUE
        /\ UNCHANGED <<type, remote, pc, command, cancelled, whole, warning, up, strays,
                       result, asked>>

(* A program without a command does the same, or breaks off. *)
StrayWork ==
    \E h \in strays :
        /\ \/ \E f \in h.todo : Touch(h, f) /\ strays' = (strays \ {h}) \cup {Without(h, f)}
           \/ strays' = strays \ {h} /\ UNCHANGED target
        /\ UNCHANGED <<type, remote, pc, command, cancelled, whole, warning, up, helper,
                       result, asked, touched>>

\* The program can end well: tar and mongorestore notice damaged bytes, redis'
\* docker cp does not, and the `|| true` after rm hides what it could not remove.
EndsWell(h) ==
    h.op = "write" => /\ h.whole \/ type = "redis"
                      /\ h.todo = {} \/ type \in Tolerant

\* Mutant of Return: no type is known to stop its container.
ReturnUnasked ==
    /\ \E h \in helper :
        \/ EndsWell(h) /\ pc = "wiping" /\ Continue("apply")
        \/ /\ EndsWell(h) /\ pc = "applying"
           /\ Over(IF warning THEN "restored unverified" ELSE "restored")
        \/ Over(IF pc = "wiping" THEN "not wiped" ELSE "not applied")
    /\ helper' = {}
    /\ UNCHANGED <<type, remote, command, whole, warning, up, target, strays, asked,
                   touched>>

(* Its docker client returns. *)
Return ==
    /\ \E h \in helper :
        \/ EndsWell(h) /\ pc = "wiping" /\ Continue("apply")
        \/ EndsWell(h) /\ pc = "applying" /\ type \in Stops /\ Continue("prompt")
        \/ /\ EndsWell(h) /\ pc = "applying" /\ type \notin Stops
           /\ Over(IF warning THEN "restored unverified" ELSE "restored")
        \/ Over(IF pc = "wiping" THEN "not wiped" ELSE "not applied")
    /\ helper' = {}
    /\ UNCHANGED <<type, remote, command, whole, warning, up, target, strays, asked,
                   touched>>

(* maybeRestartContainer: the user declines, cannot be asked, or has the   *)
(* container started, which may fail.                                      *)
Prompt ==
    /\ pc = "prompt"
    /\ asked' = TRUE
    /\ UNCHANGED up \/ (~cancelled /\ up' = TRUE)
    /\ Over(IF warning THEN "restored unverified" ELSE "restored")
    /\ UNCHANGED <<type, remote, command, whole, warning, target, helper, strays, touched>>
-----------------------------------------------------------------------------
(* SIGINT or SIGTERM: no docker or rclone program is started any more. *)
Cancel ==
    /\ pc # "idle" /\ ~cancelled
    /\ cancelled' = TRUE
    /\ UNCHANGED <<type, remote, pc, command, whole, warning, up, target, helper, strays,
                   result, asked, touched>>

\* Mutant of Interrupt: the command does not wait for its client to end.
InterruptAtOnce ==
    /\ cancelled /\ helper # {}
    /\ Over(IF pc = "wiping" THEN "not wiped" ELSE "not applied")
    /\ UNCHANGED <<type, remote, command, whole, warning, up, target, helper, strays,
                   asked, touched>>

(* CommandContext kills the docker client that is running. What it has     *)
(* started in a container does not know.                                   *)
Interrupt ==
    /\ cancelled /\ helper # {}
    /\ Over(IF pc = "wiping" THEN "not wiped" ELSE "not applied")
    /\ strays' = strays \cup (IF type \in Detached THEN helper ELSE {})
    /\ helper' = {}
    /\ UNCHANGED <<type, remote, command, whole, warning, up, target, asked, touched>>

(* SIGKILL: the docker client lives on, unless dockvault fed it. *)
Kill ==
    /\ pc # "idle"
    /\ Over("killed")
    /\ strays' = strays \cup (IF type \in Fed THEN {} ELSE helper)
    /\ helper' = {}
    /\ UNCHANGED <<type, remote, command, whole, warning, up, target, asked, touched>>

Next ==
    \/ Begin \/ Download \/ Verify \/ Stop \/ Wipe \/ Apply \/ Work \/ Return \/ Prompt
    \/ StrayWork \/ Cancel \/ Interrupt \/ Kill

Spec == Init /\ [][Next]_vars
-----------------------------------------------------------------------------
(* Types, and where docker programs can be found: one works for a command  *)
(* that waits for it, others only for commands that are over.              *)
TypeOK ==
    /\ type \in Types /\ remote \in Remotes
    /\ pc \in Steps /\ tries \in 0..MaxRestores /\ cancelled \in BOOLEAN
    /\ chosen \in Runs /\ whole \in BOOLEAN /\ warning \in BOOLEAN
    /\ up \in BOOLEAN /\ target \in [Files -> Content]
    /\ helper \subseteq Program /\ strays \subseteq Program
    /\ result \in Results /\ asked \in BOOLEAN
    /\ wasUp \in BOOLEAN /\ touched \in BOOLEAN /\ alone \in BOOLEAN
    /\ helper # {} => pc \in {"wiping", "applying"}

(* A refusal leaves everything as it was: archive and manifest are fetched *)
(* and compared "before touching a database or a live container".          *)
RefusalIsHarmless ==
    result \in Refusals \/ pc \in {"download", "verify", "stop"} => up = wasUp /\ ~touched

(* The files of a redis or n8n container are never replaced while it runs, *)
(* neither by a command nor by what is left of one that has had the target *)
(* for itself ("copying over it live risks corruption").                   *)
NotWrittenLive ==
    type \in Stops /\ (helper # {} \/ (strays # {} /\ alone)) => ~up

\* Every file of the archive is in place.
Exact == \A f \in Files : target[f] = chosen

(* A restore that ends without error or warning has put the bytes that     *)
(* were backed up in place, whatever the remote held, whatever failed and  *)
(* was cut short in earlier restores, provided that errors of the type's   *)
(* program are errors, and that no earlier restore has a program at work.  *)
(* (Ctrl-C kills the docker client of a restore and releases its lock; the *)
(* container goes on, and may wipe what the next one has put in place.)    *)
VerifiedIsExact == result = "restored" /\ alone /\ type \notin Tolerant => Exact

(* "Post-restore container state: never silent": a container starts only   *)
(* after the question, and stays down only after it, or after an error of  *)
(* a step that follows the stop; other types never touch its run state.    *)
RunStateIsTold ==
    pc = "idle" /\ up # wasUp =>
        /\ type \in Stops
        /\ asked \/ (~up /\ result \in Failures \cup {"killed"})
-----------------------------------------------------------------------------
(* README's "replace, don't merge": "restoring replaces existing data".     *)
(* Violated: statements that fail leave the data of before, and psql ends  *)
(* with status 0, so that the restore is a success without a warning.      *)
SuccessReplaces == result = "restored" /\ alone => Exact
=============================================================================
