------------------------------ MODULE Schedule ------------------------------
(***************************************************************************)
(* `dockvault schedule --install` and `--uninstall`: runSchedule of        *)
(* internal/cli/schedule.go with systemd.go and launchd.go of              *)
(* internal/scheduler. The commands write unit files in place and tell the *)
(* platform's service manager, which acts on what it has read of them.     *)
(* They take no lock, so that two of them may interleave. On Windows they  *)
(* only print what a person is to do, which changes nothing.               *)
(*                                                                         *)
(* What a unit file says is the command that has written it: with its      *)
(* --at, its user and its home.                                            *)
(***************************************************************************)
EXTENDS Naturals, FiniteSets, TornFile

CONSTANTS
    Cmd,        \* invocations of `schedule`
    Installs    \* those with --install; the others have --uninstall

ASSUME ScheduleAssumption ==
    /\ Installs \subseteq Cmd
    /\ Absent \notin Cmd /\ Torn \notin Cmd

VARIABLES
    platform,   \* DetectPlatform: "linux" or "darwin"
    step,       \* step[c]: where the command is
    unit,       \* unit[c]: the unit file that it writes or removes next
    units,      \* the unit files
    loaded,     \* what the service manager has read of each
    on,         \* the timer is enabled and active, or the launchd job loaded
    sole,       \* history: the command that has been alone since its start
    report,     \* history: the last such command that reported success
    masked      \* history: launchctl has not done what it was told, in silence

managerVars  == <<units, loaded, on>>
scheduleVars == <<platform, step, unit, managerVars, sole, report, masked>>

Unit   == {"service", "timer", "plist"}
NoUnit == "none"

\* Those of the platform, and the one that is written first or removed last.
Used  == IF platform = "linux" THEN {"service", "timer"} ELSE {"plist"}
First == IF platform = "linux" THEN "service" ELSE "plist"
Last  == IF platform = "linux" THEN "timer" ELSE "plist"

ScheduleInit ==
    /\ platform \in {"linux", "darwin"}
    /\ step = [c \in Cmd |-> "idle"] /\ unit = [c \in Cmd |-> NoUnit]
    /\ units = [u \in Unit |-> Absent] /\ loaded = units /\ on = FALSE
    /\ sole = Absent /\ report = Absent /\ masked = FALSE

Running(c) == step[c] \notin {"idle", "over"}

\* c goes on at s, with the unit file u.
Put(c, s, u) == step' = [step EXCEPT ![c] = s] /\ unit' = [unit EXCEPT ![c] = u]
To(c, s, u)  == Put(c, s, u) /\ UNCHANGED <<sole, report>>

(* The command returns nil and says so. *)
Succeed(c) ==
    /\ Put(c, "over", NoUnit)
    /\ sole' = Absent
    /\ report' = IF sole = c THEN c ELSE report

\* The service manager as it is asked to fires every night.
Fires == on /\ \A u \in Used : loaded[u] \in Cmd
-----------------------------------------------------------------------------
(* runSchedule and what precedes the first change: EnsureLayout, the path  *)
(* of the binary, the user, parseHHMM, MkdirAll.                           *)
Start(c) ==
    /\ step[c] = "idle"
    /\ \/ c \in Installs /\ Put(c, "open", First)
       \/ c \notin Installs /\ Put(c, "stop", NoUnit)
    /\ sole' = IF \E d \in Cmd : Running(d) THEN Absent ELSE c
    /\ report' = Absent /\ masked' = FALSE
    /\ UNCHANGED <<platform, managerVars>>

(* os.WriteFile of a unit file. *)
OpenUnit(c) ==
    /\ step[c] = "open" /\ To(c, "write", unit[c])
    /\ units' = [units EXCEPT ![unit[c]] = Torn]
    /\ UNCHANGED <<platform, loaded, on, masked>>

\* Mutant of WriteUnit: no daemon-reload for a timer that is active already.
WriteAndTrust(c) ==
    /\ step[c] = "write"
    /\ units' = [units EXCEPT ![unit[c]] = c]
    /\ \/ unit[c] = "service" /\ To(c, "open", "timer")
       \/ unit[c] = "timer" /\ To(c, IF on THEN "start" ELSE "reload", NoUnit)
       \/ unit[c] = "plist" /\ To(c, "start", NoUnit)
    /\ UNCHANGED <<platform, loaded, on, masked>>

(* Its contents, which may mix with those another command is writing.      *)
WriteUnit(c) ==
    /\ step[c] = "write"
    /\ \E content \in {c, Torn} :
        /\ sole = c => content = c
        /\ units' = [units EXCEPT ![unit[c]] = content]
    /\ \/ unit[c] = "service" /\ To(c, "open", "timer")
       \/ unit[c] = "timer" /\ To(c, "reload", NoUnit)
       \/ unit[c] = "plist" /\ To(c, "start", NoUnit)
    /\ UNCHANGED <<platform, loaded, on, masked>>

(* What the service manager does when it obeys: `systemctl daemon-reload`; *)
(* `systemctl enable --now`, for a timer it has read; `launchctl load -w`, *)
(* unless the job is loaded; `systemctl disable --now`; `launchctl unload`.*)
Obey(c) ==
    \/ step[c] = "reload" /\ loaded' = units /\ UNCHANGED on
    \/ /\ step[c] = "start" /\ platform = "linux" /\ loaded["timer"] \in Cmd
       /\ on' = TRUE /\ UNCHANGED loaded
    \/ /\ step[c] = "start" /\ platform = "darwin" /\ ~on /\ units["plist"] \in Cmd
       /\ on' = TRUE /\ loaded' = units
    \/ step[c] = "stop" /\ platform = "linux" /\ on' = FALSE /\ UNCHANGED loaded
    \/ /\ step[c] = "stop" /\ platform = "darwin"
       /\ on' = FALSE /\ loaded' = [loaded EXCEPT !["plist"] = Absent]

(* The daemon-reload, which is the last thing that --uninstall does.       *)
Reload(c) ==
    /\ step[c] = "reload" /\ Obey(c)
    /\ \/ c \in Installs /\ To(c, "start", NoUnit)
       \/ c \notin Installs /\ Succeed(c)
    /\ UNCHANGED <<platform, units, masked>>

(* The timer is started, or the job loaded. launchctl leaves a job that is *)
(* loaded as it is, and may report no error.                               *)
Activate(c) ==
    /\ step[c] = "start" /\ Succeed(c)
    /\ \/ Obey(c) /\ UNCHANGED masked
       \/ platform = "darwin" /\ on /\ masked' = TRUE /\ UNCHANGED <<loaded, on>>
    /\ UNCHANGED <<platform, units>>

(* The timer is stopped, or the job unloaded. An error does not count:     *)
(* there may be nothing to stop.                                           *)
Stop(c) ==
    /\ step[c] = "stop" /\ To(c, "remove", Last)
    /\ \/ Obey(c) /\ UNCHANGED masked
       \/ masked' = TRUE /\ UNCHANGED <<loaded, on>>
    /\ UNCHANGED <<platform, units>>

\* Mutant of RemoveUnit: without the daemon-reload that follows.
RemoveAndLeave(c) ==
    /\ step[c] = "remove"
    /\ units' = [units EXCEPT ![unit[c]] = Absent]
    /\ \/ unit[c] = "timer" /\ To(c, "remove", "service")
       \/ unit[c] \in {"service", "plist"} /\ Succeed(c)
    /\ UNCHANGED <<platform, loaded, on, masked>>

(* os.Remove; a file that is not there is no error. *)
RemoveUnit(c) ==
    /\ step[c] = "remove"
    /\ units' = [units EXCEPT ![unit[c]] = Absent]
    /\ \/ unit[c] = "timer" /\ To(c, "remove", "service")
       \/ unit[c] = "service" /\ To(c, "reload", NoUnit)
       \/ unit[c] = "plist" /\ Succeed(c)
    /\ UNCHANGED <<platform, loaded, on, masked>>

(* Any other error ends the command, as a kill does. The service manager   *)
(* may have obeyed before the client failed.                               *)
FailSchedule(c) ==
    /\ Running(c) /\ Put(c, "over", NoUnit)
    /\ Obey(c) \/ UNCHANGED <<loaded, on>>
    /\ sole' = Absent
    /\ UNCHANGED <<platform, units, report, masked>>

(* The machine is restarted: the service manager reads what is there.      *)
Restart ==
    /\ loaded' = units
    /\ on' = IF platform = "linux" THEN on ELSE units["plist"] \in Cmd
    /\ step' = [c \in Cmd |-> IF Running(c) THEN "over" ELSE step[c]]
    /\ unit' = [c \in Cmd |-> NoUnit] /\ sole' = Absent
    /\ UNCHANGED <<platform, units, report, masked>>

Manage(c) ==
    \/ OpenUnit(c) \/ WriteUnit(c) \/ Reload(c) \/ Activate(c)
    \/ Stop(c) \/ RemoveUnit(c) \/ FailSchedule(c)
-----------------------------------------------------------------------------
Content == Cmd \cup {Absent, Torn}
Steps   == {"idle", "open", "write", "reload", "start", "stop", "remove", "over"}

ScheduleTypeOK ==
    /\ platform \in {"linux", "darwin"}
    /\ step \in [Cmd -> Steps]
    /\ unit \in [Cmd -> Unit \cup {NoUnit}]
    /\ \A c \in Cmd : step[c] \in {"open", "write", "remove"} => unit[c] # NoUnit
    /\ units \in [Unit -> Content] /\ loaded \in [Unit -> Content] /\ on \in BOOLEAN
    /\ sole \in Cmd \cup {Absent} /\ report \in Cmd \cup {Absent} /\ masked \in BOOLEAN

(* "Installed and enabled", "Installed and loaded": the service manager    *)
(* fires every night by what that very command has written, from now on    *)
(* and after a restart, if no other schedule command overlapped it, no     *)
(* later one was started, and, on macOS, no job was loaded before.         *)
InstalledFires ==
    report \in Installs /\ ~masked =>
        /\ Fires
        /\ \A u \in Used : units[u] = report /\ loaded[u] = report

(* "Removed": nothing fires any more, although the error of the command    *)
(* that stops the timer is ignored; only a launchd job that could not be   *)
(* unloaded stays, until the next restart.                                 *)
RemovedIsOff ==
    report \in Cmd \ Installs =>
        /\ \A u \in Used : units[u] = Absent
        /\ platform = "linux" \/ ~masked => ~Fires
=============================================================================
