----------------------------- MODULE Deployment -----------------------------
(***************************************************************************)
(* A deployment over days: setups and schedule commands of an operator,    *)
(* and the `backup --all` that the service manager starts every night.     *)
(* Setup and backup share the workspace lock and what setup writes; any of *)
(* them may be killed, and the machine restarted, at any step. What a      *)
(* backup does inside is in BackupRun and BackupPipeline: here it reads    *)
(* config.json (internal/cli/backup.go) and uses the remote.               *)
(***************************************************************************)
EXTENDS Setup, Schedule

CONSTANTS
    Ours,        \* install commands that resolve Home to this workspace
    MaxNights,   \* bound: nights
    MaxEvents    \* bound: setups, schedule commands, kills and restarts, together

ASSUME DeploymentAssumption ==
    /\ Ours \subseteq Installs
    /\ MaxNights \in Nat /\ MaxEvents \in Nat

VARIABLES
    backup,   \* where the night's backup is, or "off"
    events,   \* how many setups, schedule commands and kills there have been
    kills,    \* how many kills and restarts among them
    lost      \* history: backups that a kill, or the lock it left, has cost

countVars == <<events, kills, lost>>
vars == <<lockVars, setupVars, scheduleVars, backup, countVars>>

Init ==
    /\ LockInit /\ SetupInit /\ ScheduleInit
    /\ backup = "off" /\ events = 0 /\ kills = 0 /\ lost = 0

Working == backup \in {"load", "run"}
-----------------------------------------------------------------------------
(* The hour of the timer. A backup that is still running is not started    *)
(* again; one of another workspace is none of this one's.                  *)
Night ==
    /\ night < MaxNights /\ backup # "lock"
    /\ night' = night + 1
    /\ backup' = IF Fires /\ backup = "off" /\ loaded[First] \in Ours THEN "lock" ELSE backup
    /\ UNCHANGED <<lock, setupVars, scheduleVars, countVars>>

(* runBackup: Lock. *)
LockBackup ==
    /\ backup = "lock" /\ Lock("backup")
    /\ backup' = "load"
    /\ UNCHANGED <<night, setupVars, scheduleVars, countVars>>

(* Lock is refused: by a setup that waits at a prompt; by the lock file of *)
(* a dead process, which is younger than staleLockAge, or the PID of which *)
(* another process has by now.                                             *)
Refused ==
    /\ backup = "lock" /\ backup' = "off"
    /\ \/ lock.alive /\ UNCHANGED lost
       \/ Abandoned /\ MayBeYoung /\ lost' = lost + 1
       \/ Abandoned /\ UNCHANGED lost
    /\ UNCHANGED <<lockVars, setupVars, scheduleVars, events, kills>>

(* LoadConfig and CheckConfigured of the remote it names. *)
LoadBackup ==
    /\ backup = "load" /\ backup' = "run"
    /\ config # Torn /\ remotes[Resolved] # Absent
    /\ UNCHANGED <<lockVars, setupVars, scheduleVars, countVars>>

(* The jobs run, through a remote that can be reached. *)
RunBackup ==
    /\ backup = "run" /\ backup' = "off" /\ Unlock
    /\ Reaches(Resolved)
    /\ UNCHANGED <<night, setupVars, scheduleVars, countVars>>

FailBackup ==
    /\ Working /\ backup' = "off" /\ Unlock
    /\ UNCHANGED <<night, setupVars, scheduleVars, countVars>>

Event == events < MaxEvents /\ events' = events + 1

\* A kill, by an operator or with the machine.
Kills == Event /\ kills' = kills + 1

KillBackup ==
    /\ Working /\ backup' = "off" /\ Abandon
    /\ Kills /\ lost' = lost + 1
    /\ UNCHANGED <<night, setupVars, scheduleVars>>

StartSetup ==
    /\ Event /\ Begin
    /\ UNCHANGED <<night, scheduleVars, backup, kills, lost>>

RunWizard == Wizard /\ UNCHANGED <<night, scheduleVars, backup, countVars>>

KillWizard ==
    /\ KillSetup /\ Kills
    /\ UNCHANGED <<night, scheduleVars, backup, lost>>

StartSchedule ==
    /\ Event /\ \E c \in Cmd : Start(c)
    /\ UNCHANGED <<lockVars, setupVars, backup, kills, lost>>

RunSchedule ==
    /\ \E c \in Cmd : Manage(c)
    /\ UNCHANGED <<lockVars, setupVars, backup, countVars>>

(* The machine goes down with everything that runs on it, and comes back.  *)
RestartMachine ==
    /\ Restart /\ Kills
    /\ backup' = "off" /\ lost' = IF backup = "off" THEN lost ELSE lost + 1
    /\ IF lock.alive THEN Abandon ELSE UNCHANGED lock
    /\ Leave
    /\ UNCHANGED <<night, deployVars, confirmed, touched>>

Next ==
    \/ Night \/ LockBackup \/ Refused \/ LoadBackup \/ RunBackup \/ FailBackup \/ KillBackup
    \/ StartSetup \/ RunWizard \/ KillWizard
    \/ StartSchedule \/ RunSchedule \/ RestartMachine

Spec == Init /\ [][Next]_vars
-----------------------------------------------------------------------------
TypeOK ==
    /\ LockTypeOK /\ SetupTypeOK /\ ScheduleTypeOK
    /\ backup \in {"off", "lock", "load", "run"}
    /\ events \in Nat /\ kills \in Nat /\ lost \in Nat

(* "Setup complete": whatever was aborted, killed or repeated before, the  *)
(* remote that config.json names has exactly the account and the drive     *)
(* that were chosen and listed, until another setup begins to write. (Then *)
(* it may name a remote without a drive, with another one, or with the key *)
(* of another account, until a setup is complete again.)                   *)
ConfirmedTarget ==
    confirmed # NoDraft /\ ~touched =>
        /\ config = confirmed.remote /\ key = confirmed.account
        /\ remotes[config] = confirmed.drive
        /\ Reaches(config)

(* What a backup reads first is what it uses to the end: nobody edits the  *)
(* key, the remote or config.json under it.                                *)
StableDuringBackup == [][Working /\ Working' => UNCHANGED deployVars]_vars

(* staleLockAge "is what eventually reclaims the lock": a kill, whether of *)
(* a backup, of a setup that was left at a prompt, or of the machine,      *)
(* costs the backups of two nights at most. (Those that are refused because *)
(* another process has got the PID of the dead one are not counted.)       *)
KillCostsTwoNights == lost <= 2 * kills
=============================================================================
