-------------------------- MODULE DeploymentProofs --------------------------
(***************************************************************************)
(* Proofs that the properties of Deployment hold whatever the accounts,    *)
(* drives, remotes and schedule commands are, and however many setups,     *)
(* kills, restarts and nights there are. Setup, the schedule commands and  *)
(* the lock have an invariant each; only the last needs the others.        *)
(***************************************************************************)
EXTENDS Deployment, TLAPS

(* --- What setup writes ------------------------------------------------- *)

\* A setup has done what its stage says, and nobody has undone it.
Progress ==
    /\ HasAccount => touched
    /\ HasAccount /\ wizard # "write key" => key = draft.account
    /\ HasDrive => remotes[draft.remote] = draft.drive /\ draft.drive \in Sees[draft.account]

SetupInv == SetupTypeOK /\ Progress /\ ConfirmedTarget

\* What any step of the deployment is for setup.
Aborted == Leave /\ UNCHANGED <<deployVars, confirmed, touched>>
SetupNext == Begin \/ Wizard \/ Aborted \/ UNCHANGED setupVars

LEMMA Empty ==
    /\ NoDraft \in [account : Account \cup {Absent}, remote : Remote \cup {Absent},
                    drive : Drive \cup {Absent}]
    /\ NoDraft.account = Absent /\ NoDraft.remote = Absent /\ NoDraft.drive = Absent
BY DEF NoDraft

LEMMA SetupStart == SetupInit => SetupInv
<1> SUFFICES ASSUME SetupInit PROVE SetupInv
  OBVIOUS
<1>1. SetupTypeOK
  BY SetupAssumption, Empty DEF SetupInit, SetupTypeOK, Stages, HasAccount, HasRemote, HasDrive
<1>2. Progress /\ ConfirmedTarget
  BY DEF SetupInit, Progress, ConfirmedTarget, HasAccount, HasRemote, HasDrive
<1> QED BY <1>1, <1>2 DEF SetupInv

\* The draft's fields, and the constants' marks, kept apart.
LEMMA DraftFields ==
    ASSUME SetupTypeOK
    PROVE  /\ draft = [account |-> draft.account, remote |-> draft.remote, drive |-> draft.drive]
           /\ HasAccount => draft.account \in Account
           /\ HasRemote => draft.remote \in Remote
           /\ HasDrive => draft.drive \in Drive
           /\ ~HasAccount => draft.account = Absent
           /\ ~HasRemote => draft.remote = Absent
           /\ ~HasDrive => draft.drive = Absent
BY DEF SetupTypeOK

LEMMA SetupTypeStutter == SetupTypeOK /\ UNCHANGED setupVars => SetupTypeOK'
<1> SUFFICES ASSUME SetupTypeOK, UNCHANGED setupVars PROVE SetupTypeOK'
  OBVIOUS
<1>1. UNCHANGED <<wizard, draft, key, remotes, config, confirmed, touched>>
  BY DEF setupVars
<1>2. UNCHANGED <<HasAccount, HasRemote, HasDrive>>
  BY <1>1 DEF HasAccount, HasRemote, HasDrive
<1> QED BY <1>1, <1>2 DEF SetupTypeOK

LEMMA SetupTypeStep ==
    ASSUME SetupTypeOK, Progress, SetupNext
    PROVE  SetupTypeOK'
<1> USE SetupAssumption DEF Stages, At, Goto, HasAccount, HasRemote, HasDrive, deployVars
<1>1. ASSUME Begin PROVE SetupTypeOK'
  BY <1>1 DEF Begin, SetupTypeOK
<1>2. ASSUME ChooseAccount PROVE SetupTypeOK'
  BY <1>2 DEF ChooseAccount, SetupTypeOK
<1>3. ASSUME WriteKey PROVE SetupTypeOK'
  BY <1>3, DraftFields DEF WriteKey, SetupTypeOK
<1>l. ASSUME Leave, key' \in Account \cup {Absent, Torn}, config' \in Remote \cup {Absent, Torn},
             remotes' \in [Remote -> Drive \cup {MyDrive, Absent}], UNCHANGED <<confirmed, touched>>
      PROVE  SetupTypeOK'
  BY <1>l, Empty DEF Leave, SetupTypeOK
<1>4. ASSUME ChooseRemote PROVE SetupTypeOK'
  <2>1. PICK r \in Remote : Configure(r, MyDrive, "list", [draft EXCEPT !.remote = r])
    BY <1>4 DEF ChooseRemote
  <2>2. /\ remotes' \in [Remote -> Drive \cup {MyDrive, Absent}]
        /\ UNCHANGED <<key, config, confirmed, touched>>
    BY <2>1 DEF Configure, SetupTypeOK
  <2>3. CASE Leave
    BY <1>l, <2>2, <2>3 DEF SetupTypeOK
  <2>4. CASE wizard' = "list" /\ draft' = [draft EXCEPT !.remote = r]
    BY <1>4, <2>2, <2>4 DEF ChooseRemote, SetupTypeOK
  <2> QED BY <2>1, <2>3, <2>4 DEF Configure
<1>5. ASSUME SelectDrive PROVE SetupTypeOK'
  <2>1. PICK d \in Sees[key] :
           Configure(draft.remote, d, "confirm", [draft EXCEPT !.drive = d])
    BY <1>5 DEF SelectDrive
  <2>2. d \in Drive
    BY <1>5, DraftFields DEF SelectDrive, Progress
  <2>3. /\ remotes' \in [Remote -> Drive \cup {MyDrive, Absent}]
        /\ UNCHANGED <<key, config, confirmed, touched>>
    BY <2>1, <2>2 DEF Configure, SetupTypeOK
  <2>4. CASE Leave
    BY <1>l, <2>3, <2>4 DEF SetupTypeOK
  <2>5. CASE wizard' = "confirm" /\ draft' = [draft EXCEPT !.drive = d]
    BY <1>5, <2>2, <2>3, <2>5 DEF SelectDrive, SetupTypeOK
  <2> QED BY <2>1, <2>4, <2>5 DEF Configure
<1>6. ASSUME Confirm PROVE SetupTypeOK'
  BY <1>6 DEF Confirm, SetupTypeOK
<1>7. ASSUME OpenConfig PROVE SetupTypeOK'
  BY <1>7 DEF OpenConfig, SetupTypeOK
<1>8. ASSUME WriteConfig PROVE SetupTypeOK'
  BY <1>8, DraftFields DEF WriteConfig, Leave, NoDraft, SetupTypeOK
<1>9. ASSUME Fail \/ Aborted PROVE SetupTypeOK'
  BY <1>l, <1>9 DEF Fail, Aborted, SetupTypeOK
<1>10. ASSUME UNCHANGED setupVars PROVE SetupTypeOK'
  BY <1>10, SetupTypeStutter
<1> QED BY <1>1, <1>2, <1>3, <1>4, <1>5, <1>6, <1>7, <1>8, <1>9, <1>10 DEF SetupNext, Wizard

LEMMA SetupStep ==
    ASSUME SetupInv, SetupNext
    PROVE  SetupInv'
<1> USE SetupAssumption DEF At, Goto, HasAccount, HasRemote, HasDrive, deployVars
<1>0. SetupTypeOK /\ Progress /\ ConfirmedTarget
  BY DEF SetupInv
<1>t. SetupTypeOK'
  BY <1>0, SetupTypeStep
<1>r. remotes \in [Remote -> Drive \cup {MyDrive, Absent}]
  BY <1>0 DEF SetupTypeOK
<1> SUFFICES Progress' /\ ConfirmedTarget'
  BY <1>t DEF SetupInv
<1>1. ASSUME Begin PROVE Progress' /\ ConfirmedTarget'
  BY <1>0, <1>1 DEF Begin, Progress, ConfirmedTarget, Reaches
<1>2. ASSUME ChooseAccount PROVE Progress' /\ ConfirmedTarget'
  BY <1>0, <1>2 DEF ChooseAccount, Progress, ConfirmedTarget
<1>3. ASSUME WriteKey PROVE Progress' /\ ConfirmedTarget'
  BY <1>0, <1>3 DEF WriteKey, Progress, ConfirmedTarget
<1>4. ASSUME ChooseRemote PROVE Progress' /\ ConfirmedTarget'
  <2>1. PICK r \in Remote : Configure(r, MyDrive, "list", [draft EXCEPT !.remote = r])
    BY <1>4 DEF ChooseRemote
  <2>2. touched' /\ draft'.account \in {draft.account, Absent}
    BY <1>0, <1>4, <2>1, DraftFields DEF ChooseRemote, Configure, Progress, Leave, NoDraft
  <2> QED BY <1>0, <1>4, <2>1, <2>2, DraftFields
          DEF ChooseRemote, Configure, Leave, NoDraft, Progress, ConfirmedTarget
<1>5. ASSUME SelectDrive PROVE Progress' /\ ConfirmedTarget'
  <2>1. PICK d \in Sees[key] :
           Configure(draft.remote, d, "confirm", [draft EXCEPT !.drive = d])
    BY <1>5 DEF SelectDrive
  <2>2. touched' /\ draft.remote \in Remote /\ key = draft.account
    BY <1>0, <1>5, <2>1, DraftFields DEF SelectDrive, Configure, Progress
  <2>3. remotes'[draft.remote] = d
    BY <1>r, <2>1, <2>2 DEF Configure
  <2>4. CASE draft' = [draft EXCEPT !.drive = d] /\ wizard' = "confirm"
    <3>1. draft'.account = draft.account /\ draft'.remote = draft.remote /\ draft'.drive = d
      BY <1>0, <2>4, DraftFields
    <3> QED BY <2>1, <2>2, <2>3, <2>4, <3>1 DEF Configure, Progress, ConfirmedTarget
  <2>5. CASE Leave
    BY <2>2, <2>5 DEF Leave, Progress, ConfirmedTarget
  <2> QED BY <2>1, <2>4, <2>5 DEF Configure
<1>6. ASSUME Confirm PROVE Progress' /\ ConfirmedTarget'
  BY <1>0, <1>6 DEF Confirm, Progress, ConfirmedTarget
<1>7. ASSUME OpenConfig PROVE Progress' /\ ConfirmedTarget'
  BY <1>0, <1>7 DEF OpenConfig, Progress, ConfirmedTarget
<1>8. ASSUME WriteConfig PROVE Progress' /\ ConfirmedTarget'
  <2>1. HasDrive /\ HasAccount /\ wizard # "write key"
    BY <1>8 DEF WriteConfig
  <2>2. key = draft.account /\ remotes[draft.remote] = draft.drive
        /\ draft.drive \in Sees[draft.account]
        /\ draft.account \in Account /\ draft.drive \in Drive
    BY <1>0, <2>1, DraftFields DEF Progress
  <2> QED BY <1>8, <2>2 DEF WriteConfig, Leave, Progress, ConfirmedTarget, Reaches
<1>9. ASSUME Fail \/ Aborted PROVE Progress' /\ ConfirmedTarget'
  BY <1>0, <1>9 DEF Fail, Aborted, Leave, Progress, ConfirmedTarget, Reaches
<1>10. ASSUME UNCHANGED setupVars PROVE Progress' /\ ConfirmedTarget'
  BY <1>0, <1>10 DEF setupVars, Progress, ConfirmedTarget, Reaches
<1> QED BY <1>1, <1>2, <1>3, <1>4, <1>5, <1>6, <1>7, <1>8, <1>9, <1>10 DEF SetupNext, Wizard
-----------------------------------------------------------------------------
(* --- What the schedule commands tell the service manager ---------------- *)

\* Where a command can be, by its kind and its platform.
Shape ==
    \A c \in Cmd :
        /\ step[c] \in {"open", "write", "start"} => c \in Installs
        /\ step[c] \in {"stop", "remove"} => c \notin Installs
        /\ step[c] \in {"open", "write", "remove"} => unit[c] \in Used
        /\ step[c] = "reload" => platform = "linux"

\* A command is alone, or reports, only if no other one runs.
Alone ==
    /\ sole # Absent => report = Absent /\ \A d \in Cmd : Running(d) <=> d = sole
    /\ report # Absent => \A d \in Cmd : ~Running(d)

\* What an install, or an uninstall, that has been alone has done so far.
Installing(c) ==
    /\ step[c] \in {"open", "write"} /\ unit[c] = "timer" => units["service"] = c
    /\ step[c] \in {"reload", "start"} => \A u \in Used : units[u] = c
    /\ step[c] = "start" /\ platform = "linux" => \A u \in Used : loaded[u] = c

Removing(c) ==
    /\ step[c] = "remove" /\ unit[c] = "service" => units["timer"] = Absent
    /\ step[c] = "reload" => \A u \in Used : units[u] = Absent
    /\ step[c] = "remove" /\ platform = "darwin" /\ ~masked => ~on

SoFar ==
    sole # Absent => IF sole \in Installs THEN Installing(sole) ELSE Removing(sole)

ScheduleInv ==
    /\ ScheduleTypeOK /\ Shape /\ Alone /\ SoFar
    /\ InstalledFires /\ RemovedIsOff

ScheduleNext ==
    (\E c \in Cmd : Start(c) \/ Manage(c)) \/ Restart \/ UNCHANGED scheduleVars

LEMMA ScheduleStart == ScheduleInit => ScheduleInv
<1> SUFFICES ASSUME ScheduleInit PROVE ScheduleInv
  OBVIOUS
<1>1. ScheduleTypeOK
  BY DEF ScheduleInit, ScheduleTypeOK, Unit, NoUnit, Content, Steps
<1>2. Shape /\ Alone /\ SoFar
  BY DEF ScheduleInit, Shape, Alone, SoFar, Running
<1>3. InstalledFires /\ RemovedIsOff
  BY ScheduleAssumption DEF ScheduleInit, InstalledFires, RemovedIsOff
<1> QED BY <1>1, <1>2, <1>3 DEF ScheduleInv

LEMMA ScheduleTypeStep ==
    ASSUME ScheduleTypeOK, Shape, ScheduleNext
    PROVE  ScheduleTypeOK'
<1> USE ScheduleAssumption DEF managerVars, Unit, NoUnit, Content, Steps
<1>s. /\ step \in [Cmd -> Steps] /\ unit \in [Cmd -> Unit \cup {NoUnit}]
      /\ \A c \in Cmd : step[c] \in {"open", "write", "remove"} => unit[c] # NoUnit
  BY DEF ScheduleTypeOK
<1>1. ASSUME NEW c \in Cmd, Start(c) PROVE ScheduleTypeOK'
  <2>1. \E s \in Steps, u \in Unit \cup {NoUnit} :
           /\ step' = [step EXCEPT ![c] = s] /\ unit' = [unit EXCEPT ![c] = u]
           /\ s \in {"open", "write", "remove"} => u # NoUnit
    BY <1>1 DEF Start, Put, First
  <2>2. /\ step' \in [Cmd -> Steps] /\ unit' \in [Cmd -> Unit \cup {NoUnit}]
        /\ \A d \in Cmd : step'[d] \in {"open", "write", "remove"} => unit'[d] # NoUnit
    BY <1>s, <2>1
  <2>3. /\ sole' \in {Absent, c} /\ report' = Absent /\ masked' = FALSE
        /\ UNCHANGED <<platform, units, loaded, on>>
    BY <1>1 DEF Start
  <2> QED BY <2>2, <2>3 DEF ScheduleTypeOK
<1>2. ASSUME NEW c \in Cmd, OpenUnit(c) PROVE ScheduleTypeOK'
  BY <1>2 DEF OpenUnit, To, Put, ScheduleTypeOK
<1>3. ASSUME NEW c \in Cmd, WriteUnit(c) PROVE ScheduleTypeOK'
  BY <1>3 DEF WriteUnit, To, Put, ScheduleTypeOK
<1>o. ASSUME NEW c \in Cmd, Obey(c) PROVE loaded' \in [Unit -> Content] /\ on' \in BOOLEAN
  <2>1. units \in [Unit -> Content] /\ loaded \in [Unit -> Content] /\ on \in BOOLEAN
    BY DEF ScheduleTypeOK
  <2>2. loaded' \in {units, loaded, [loaded EXCEPT !["plist"] = Absent]}
    BY <1>o DEF Obey
  <2>3. on' \in {on, TRUE, FALSE}
    BY <1>o DEF Obey
  <2> QED BY <2>1, <2>2, <2>3
<1>4. ASSUME NEW c \in Cmd, Reload(c) PROVE ScheduleTypeOK'
  BY <1>4, <1>o DEF Reload, To, Put, Succeed, ScheduleTypeOK
<1>5. ASSUME NEW c \in Cmd, Activate(c) PROVE ScheduleTypeOK'
  BY <1>5, <1>o DEF Activate, Put, Succeed, ScheduleTypeOK
<1>6. ASSUME NEW c \in Cmd, Stop(c) PROVE ScheduleTypeOK'
  BY <1>6, <1>o DEF Stop, To, Put, Last, ScheduleTypeOK
<1>7. ASSUME NEW c \in Cmd, RemoveUnit(c) PROVE ScheduleTypeOK'
  BY <1>7 DEF RemoveUnit, To, Put, Succeed, ScheduleTypeOK
<1>8. ASSUME NEW c \in Cmd, FailSchedule(c) PROVE ScheduleTypeOK'
  BY <1>8, <1>o DEF FailSchedule, Put, ScheduleTypeOK
<1>9. ASSUME Restart PROVE ScheduleTypeOK'
  <2>1. on' \in BOOLEAN
    <3>1. CASE platform = "linux"
      BY <1>9, <3>1 DEF Restart, ScheduleTypeOK
    <3>2. CASE platform # "linux" /\ units["plist"] \in Cmd
      BY <1>9, <3>2 DEF Restart
    <3>3. CASE platform # "linux" /\ units["plist"] \notin Cmd
      BY <1>9, <3>3 DEF Restart
    <3> QED BY <3>1, <3>2, <3>3
  <2> QED BY <1>9, <2>1 DEF Restart, Running, ScheduleTypeOK
<1>10. ASSUME UNCHANGED scheduleVars PROVE ScheduleTypeOK'
  BY <1>10 DEF scheduleVars, ScheduleTypeOK
<1> QED BY <1>1, <1>2, <1>3, <1>4, <1>5, <1>6, <1>7, <1>8, <1>9, <1>10 DEF ScheduleNext, Manage

LEMMA ShapeStep ==
    ASSUME ScheduleTypeOK, Shape, ScheduleNext
    PROVE  Shape'
<1> USE ScheduleAssumption DEF managerVars, Used
<1>0. /\ step \in [Cmd -> Steps] /\ unit \in [Cmd -> Unit \cup {NoUnit}]
      /\ platform \in {"linux", "darwin"}
  BY DEF ScheduleTypeOK
<1>1. ASSUME NEW c \in Cmd, Start(c) PROVE Shape'
  BY <1>0, <1>1 DEF Start, Put, First, Shape
<1>2. ASSUME NEW c \in Cmd, OpenUnit(c) PROVE Shape'
  BY <1>0, <1>2 DEF OpenUnit, To, Put, Shape
<1>3. ASSUME NEW c \in Cmd, WriteUnit(c) PROVE Shape'
  BY <1>0, <1>3 DEF WriteUnit, To, Put, Shape
<1>4. ASSUME NEW c \in Cmd, Reload(c) PROVE Shape'
  BY <1>0, <1>4 DEF Reload, To, Put, Succeed, Shape
<1>5. ASSUME NEW c \in Cmd, Activate(c) PROVE Shape'
  BY <1>0, <1>5 DEF Activate, Put, Succeed, Shape
<1>6. ASSUME NEW c \in Cmd, Stop(c) PROVE Shape'
  BY <1>0, <1>6 DEF Stop, To, Put, Last, Shape
<1>7. ASSUME NEW c \in Cmd, RemoveUnit(c) PROVE Shape'
  BY <1>0, <1>7 DEF RemoveUnit, To, Put, Succeed, Shape
<1>8. ASSUME NEW c \in Cmd, FailSchedule(c) PROVE Shape'
  BY <1>0, <1>8 DEF FailSchedule, Put, Shape
<1>9. ASSUME Restart PROVE Shape'
  BY <1>0, <1>9 DEF Restart, Running, Shape
<1>10. ASSUME UNCHANGED scheduleVars PROVE Shape'
  BY <1>10 DEF scheduleVars, Shape
<1> QED BY <1>1, <1>2, <1>3, <1>4, <1>5, <1>6, <1>7, <1>8, <1>9, <1>10 DEF ScheduleNext, Manage

LEMMA AloneStep ==
    ASSUME ScheduleTypeOK, Shape, Alone, ScheduleNext
    PROVE  Alone'
<1> USE ScheduleAssumption DEF Running
<1>0. step \in [Cmd -> Steps]
  BY DEF ScheduleTypeOK
<1>1. ASSUME NEW c \in Cmd, Start(c) PROVE Alone'
  BY <1>0, <1>1 DEF Start, Put, Alone
<1>2. ASSUME NEW c \in Cmd, Running(c), step'[c] \notin {"idle", "over"},
             step' = [step EXCEPT ![c] = step'[c]], UNCHANGED <<sole, report>>
      PROVE Alone'
  BY <1>0, <1>2 DEF Alone
<1>3. ASSUME NEW c \in Cmd, Running(c), Succeed(c) PROVE Alone'
  BY <1>0, <1>3 DEF Succeed, Put, Alone
<1>4. ASSUME NEW c \in Cmd, OpenUnit(c) PROVE Alone'
  BY <1>0, <1>2, <1>4 DEF OpenUnit, To, Put
<1>5. ASSUME NEW c \in Cmd, WriteUnit(c) PROVE Alone'
  BY <1>0, <1>2, <1>5 DEF WriteUnit, To, Put
<1>6. ASSUME NEW c \in Cmd, Reload(c) PROVE Alone'
  BY <1>0, <1>2, <1>3, <1>6 DEF Reload, To, Put
<1>7. ASSUME NEW c \in Cmd, Activate(c) PROVE Alone'
  BY <1>0, <1>3, <1>7 DEF Activate
<1>8. ASSUME NEW c \in Cmd, Stop(c) PROVE Alone'
  BY <1>0, <1>2, <1>8 DEF Stop, To, Put
<1>9. ASSUME NEW c \in Cmd, RemoveUnit(c) PROVE Alone'
  BY <1>0, <1>2, <1>3, <1>9 DEF RemoveUnit, To, Put
<1>10. ASSUME NEW c \in Cmd, FailSchedule(c) PROVE Alone'
  BY <1>0, <1>10 DEF FailSchedule, Put, Alone
<1>11. ASSUME Restart PROVE Alone'
  BY <1>0, <1>11 DEF Restart, Alone
<1>12. ASSUME UNCHANGED scheduleVars PROVE Alone'
  BY <1>12 DEF scheduleVars, Alone
<1> QED BY <1>1, <1>4, <1>5, <1>6, <1>7, <1>8, <1>9, <1>10, <1>11, <1>12
        DEF ScheduleNext, Manage

\* While a command that is not alone takes its steps, there is nothing to show.
LEMMA NobodyAlone ==
    ASSUME sole' = Absent, report' = Absent
    PROVE  SoFar' /\ InstalledFires' /\ RemovedIsOff'
BY ScheduleAssumption DEF SoFar, InstalledFires, RemovedIsOff

LEMMA ScheduleStep ==
    ASSUME ScheduleInv, ScheduleNext
    PROVE  ScheduleInv'
<1> USE ScheduleAssumption DEF managerVars
<1>0. /\ ScheduleTypeOK /\ Shape /\ Alone /\ SoFar
      /\ InstalledFires /\ RemovedIsOff
  BY DEF ScheduleInv
<1>t. ScheduleTypeOK' /\ Shape' /\ Alone'
  BY <1>0, ScheduleTypeStep, ShapeStep, AloneStep
<1>y. /\ step \in [Cmd -> Steps] /\ unit \in [Cmd -> Unit \cup {NoUnit}]
      /\ units \in [Unit -> Content] /\ loaded \in [Unit -> Content]
      /\ platform \in {"linux", "darwin"} /\ on \in BOOLEAN
      /\ sole \in Cmd \cup {Absent} /\ report \in Cmd \cup {Absent}
  BY <1>0 DEF ScheduleTypeOK
<1>u. Used \subseteq Unit /\ (platform = "linux" <=> "timer" \in Used)
      /\ (platform = "linux" <=> "service" \in Used) /\ (platform = "darwin" <=> "plist" \in Used)
      /\ \A u \in Used : u \in {"service", "timer", "plist"}
  BY <1>y DEF Used, Unit
<1> DEFINE Goal == SoFar' /\ InstalledFires' /\ RemovedIsOff'
<1> SUFFICES Goal
  BY <1>t DEF ScheduleInv
<1>1. ASSUME NEW c \in Cmd, Start(c) PROVE Goal
  <2>1. report' = Absent
    BY <1>1 DEF Start
  <2>2. ASSUME sole' = c PROVE IF c \in Installs THEN Installing(c)' ELSE Removing(c)'
    BY <1>1, <1>y DEF Start, Put, First, Installing, Removing
  <2>3. sole' \in {c, Absent}
    BY <1>1 DEF Start
  <2> QED BY <2>1, <2>2, <2>3 DEF SoFar, InstalledFires, RemovedIsOff
\* A command that runs: it is alone, or nothing is.
<1>2. ASSUME NEW c \in Cmd, Manage(c) PROVE Goal
  <2>1. Running(c)
    BY <1>2 DEF Manage, OpenUnit, WriteUnit, Reload, Activate, Stop, RemoveUnit, FailSchedule,
                Running
  <2>2. report = Absent /\ (sole = c \/ sole = Absent)
    BY <1>0, <2>1 DEF Alone
  <2>3. CASE sole = Absent
    <3>1. sole' = Absent /\ report' = Absent
      BY <1>2, <2>2, <2>3 DEF Manage, OpenUnit, WriteUnit, Reload, Activate, Stop, RemoveUnit,
                              FailSchedule, To, Succeed
    <3> QED BY <3>1, NobodyAlone
  <2>4. CASE sole = c
    <3> USE DEF SoFar
    <3>1. CASE OpenUnit(c)
      <4>1. sole' = c /\ report' = Absent
        BY <2>2, <2>4, <3>1 DEF OpenUnit, To
      <4>2. c \in Installs /\ Installing(c)'
        BY <1>0, <1>y, <1>u, <2>4, <3>1 DEF OpenUnit, To, Put, Shape, Installing, Used
      <4> QED BY <4>1, <4>2 DEF InstalledFires, RemovedIsOff
    <3>2. CASE WriteUnit(c)
      <4>1. sole' = c /\ report' = Absent
        BY <2>2, <2>4, <3>2 DEF WriteUnit, To
      <4>2. c \in Installs /\ Installing(c)'
        BY <1>0, <1>y, <1>u, <2>4, <3>2 DEF WriteUnit, To, Put, Shape, Installing, Used
      <4> QED BY <4>1, <4>2 DEF InstalledFires, RemovedIsOff
    <3>3. CASE Reload(c)
      <4>1. loaded' = units /\ UNCHANGED <<units, platform>> /\ platform = "linux"
        BY <1>0, <3>3 DEF Reload, Obey, Shape
      <4>2. CASE c \in Installs
        <5>1. sole' = c /\ report' = Absent /\ step'[c] = "start"
          BY <1>y, <2>2, <2>4, <3>3, <4>2 DEF Reload, To, Put
        <5>2. Installing(c)'
          BY <1>0, <2>4, <3>3, <4>1, <4>2, <5>1 DEF Reload, Installing, Used
        <5> QED BY <4>2, <5>1, <5>2 DEF InstalledFires, RemovedIsOff
      <4>3. CASE c \notin Installs
        <5>1. sole' = Absent /\ report' = c
          BY <2>4, <3>3, <4>3 DEF Reload, Succeed
        <5>2. \A u \in Used : units[u] = Absent
          BY <1>0, <2>4, <3>3, <4>3 DEF Reload, Removing
        <5>3. ~Fires'
          BY <1>u, <4>1, <5>2 DEF Fires, Used
        <5> QED BY <4>1, <4>3, <5>1, <5>2, <5>3 DEF InstalledFires, RemovedIsOff, Used
      <4> QED BY <4>2, <4>3
    <3>4. CASE Activate(c)
      <4>1. sole' = Absent /\ report' = c /\ c \in Installs /\ UNCHANGED <<units, platform>>
        BY <1>0, <2>4, <3>4 DEF Activate, Succeed, Shape
      <4>2. \A u \in Used : units[u] = c
        BY <1>0, <2>4, <3>4, <4>1 DEF Activate, Installing
      <4>3. ~masked' => on' /\ \A u \in Used : loaded'[u] = c
        BY <1>0, <1>y, <2>4, <3>4, <4>1, <4>2 DEF Activate, Obey, Installing, Used
      <4> QED BY <4>1, <4>2, <4>3 DEF InstalledFires, RemovedIsOff, Fires, Used
    <3>5. CASE Stop(c)
      <4>1. sole' = c /\ report' = Absent /\ step'[c] = "remove" /\ unit'[c] = Last
        BY <1>y, <2>2, <2>4, <3>5 DEF Stop, To, Put
      <4>2. c \notin Installs /\ Removing(c)'
        BY <1>0, <1>y, <2>4, <3>5, <4>1 DEF Stop, Obey, Shape, Removing, Last
      <4> QED BY <4>1, <4>2 DEF InstalledFires, RemovedIsOff
    <3>6. CASE RemoveUnit(c)
      <4>1. /\ units' = [units EXCEPT ![unit[c]] = Absent] /\ unit[c] \in Used
            /\ c \notin Installs /\ UNCHANGED <<platform, loaded, on, masked>>
        BY <1>0, <3>6 DEF RemoveUnit, Shape
      <4>2. CASE unit[c] \in {"timer", "service"}
        <5>1. sole' = c /\ report' = Absent
          BY <2>2, <2>4, <3>6, <4>2 DEF RemoveUnit, To
        <5>2. Removing(c)'
          BY <1>0, <1>y, <1>u, <2>4, <3>6, <4>1, <4>2 DEF RemoveUnit, To, Put, Removing, Used, Unit
        <5> QED BY <4>1, <5>1, <5>2 DEF InstalledFires, RemovedIsOff
      <4>3. CASE unit[c] = "plist"
        <5>1. sole' = Absent /\ report' = c
          BY <2>4, <3>6, <4>3 DEF RemoveUnit, Succeed
        <5>2. platform = "darwin" /\ Used = {"plist"}
          BY <1>y, <4>1, <4>3 DEF Used
        <5>3. ~masked' => ~on'
          BY <1>0, <2>4, <3>6, <4>1, <5>2 DEF RemoveUnit, Removing
        <5>4. units'["plist"] = Absent
          BY <1>y, <4>1, <4>3 DEF Unit
        <5> QED BY <4>1, <5>1, <5>2, <5>3, <5>4 DEF InstalledFires, RemovedIsOff, Fires, Used
      <4> QED BY <1>u, <4>1, <4>2, <4>3
    <3>7. CASE FailSchedule(c)
      BY <2>2, <3>7, NobodyAlone DEF FailSchedule
    <3> QED BY <1>2, <3>1, <3>2, <3>3, <3>4, <3>5, <3>6, <3>7 DEF Manage
  <2> QED BY <2>2, <2>3, <2>4
<1>3. ASSUME Restart PROVE Goal
  <2>1. /\ loaded' = units /\ sole' = Absent /\ UNCHANGED <<platform, units, report, masked>>
        /\ Used' = Used
    BY <1>3 DEF Restart, Used
  <2>2. SoFar'
    BY <2>1 DEF SoFar
  <2>3. InstalledFires'
    <3>1. CASE platform = "linux"
      BY <1>0, <1>3, <2>1, <3>1 DEF Restart, InstalledFires, Fires
    <3>2. CASE platform = "darwin"
      <4>1. ASSUME report \in Installs, ~masked PROVE on' = TRUE
        <5>1. units["plist"] \in Cmd
          BY <1>0, <1>u, <3>2, <4>1 DEF InstalledFires
        <5> QED BY <1>3, <3>2, <5>1 DEF Restart
      <4> QED BY <1>0, <2>1, <4>1 DEF InstalledFires, Fires
    <3> QED BY <1>y, <3>1, <3>2
  <2>4. RemovedIsOff'
    BY <1>0, <1>u, <2>1 DEF RemovedIsOff, Fires, Used
  <2> QED BY <2>2, <2>3, <2>4
<1>4. ASSUME UNCHANGED scheduleVars PROVE Goal
  BY <1>0, <1>4 DEF scheduleVars, SoFar, Installing, Removing, InstalledFires, RemovedIsOff,
                    Fires, Used
<1> QED BY <1>1, <1>2, <1>3, <1>4 DEF ScheduleNext
-----------------------------------------------------------------------------
(* --- The lock and the nights -------------------------------------------- *)

CountTypeOK ==
    /\ backup \in {"off", "lock", "load", "run"}
    /\ events \in Nat /\ kills \in Nat /\ lost \in Nat

\* The lock is that of the command that runs, if one does.
Holder ==
    /\ lock.alive => lock.by # "nobody"
    /\ wizard # "off" <=> (lock.alive /\ lock.by = "setup")
    /\ Working <=> (lock.alive /\ lock.by = "backup")
    /\ lock.by # "nobody" => lock.day <= night

\* How many backups the lock file of a dead process can still cost.
Further ==
    IF ~Abandoned THEN 0
    ELSE IF night <= lock.day THEN (IF backup = "lock" THEN 2 ELSE 1)
    ELSE IF night = lock.day + 1 /\ backup = "lock" THEN 1 ELSE 0

Bounded == lost + Further <= 2 * kills

LockInv == LockTypeOK /\ CountTypeOK /\ Holder /\ Bounded

IInv == SetupInv /\ ScheduleInv /\ LockInv

LEMMA LockStart == Init => LockInv
BY DEF Init, LockInit, SetupInit, LockInv, LockTypeOK, CountTypeOK, Holder, Bounded, Further,
       Abandoned, NoLock, Working

\* What the parts of a step that are not the lock's leave of it.
LEMMA WizardLock ==
    ASSUME Wizard
    PROVE  /\ wizard # "off"
           /\ (wizard' # "off" /\ UNCHANGED lock) \/ (wizard' = "off" /\ Unlock)
BY DEF Wizard, ChooseAccount, WriteKey, ChooseRemote, SelectDrive, Confirm, OpenConfig,
       WriteConfig, Fail, Configure, Leave, At, Goto

LEMMA LockStep ==
    ASSUME LockInv, Next
    PROVE  LockInv'
<1>0. LockTypeOK /\ CountTypeOK /\ Holder /\ Bounded
  BY DEF LockInv
<1>y. /\ night \in Nat /\ lock.by \in {"nobody", "setup", "backup"} /\ lock.alive \in BOOLEAN
      /\ lock.day \in Nat /\ events \in Nat /\ kills \in Nat /\ lost \in Nat
      /\ backup \in {"off", "lock", "load", "run"}
      /\ lock = [by |-> lock.by, alive |-> lock.alive, day |-> lock.day]
  BY <1>0 DEF LockTypeOK, CountTypeOK
<1>f. Further \in 0..2 /\ (lock.alive => Further = 0)
  BY <1>y DEF Further, Abandoned
<1>b. lost + Further <= 2 * kills /\ lost <= 2 * kills
  BY <1>0, <1>y, <1>f DEF Bounded
<1> USE DEF LockTypeOK, CountTypeOK, Working
<1>1. ASSUME Night PROVE LockInv'
  <2>1. /\ backup' = backup \/ (backup = "off" /\ backup' = "lock")
        /\ night' = night + 1 /\ backup # "lock"
        /\ UNCHANGED <<lock, wizard, events, kills, lost>>
    BY <1>1 DEF Night, setupVars, countVars
  <2>2. Further' <= Further
    BY <1>0, <1>y, <2>1 DEF Further, Abandoned, Holder
  <2>3. Further' \in Nat
    BY DEF Further
  <2>4. Bounded'
    BY <1>y, <1>f, <1>b, <2>1, <2>2, <2>3 DEF Bounded
  <2> QED BY <1>0, <1>y, <2>1, <2>4 DEF LockInv, Holder
<1>2. ASSUME LockBackup PROVE LockInv'
  <2>1. /\ backup = "lock" /\ backup' = "load" /\ ~lock.alive
        /\ lock' = [by |-> "backup", alive |-> TRUE, day |-> night]
        /\ UNCHANGED <<night, wizard, events, kills, lost>>
    BY <1>0, <1>2 DEF LockBackup, Lock, Abandoned, setupVars, countVars, Holder
  <2>2. Further' = 0
    BY <2>1 DEF Further, Abandoned
  <2>3. lost <= 2 * kills
    BY <1>0, <1>y DEF Bounded, Further
  <2> QED BY <1>0, <1>y, <2>1, <2>2, <2>3 DEF LockInv, Holder, Bounded
<1>3. ASSUME Refused PROVE LockInv'
  <2>1. /\ backup = "lock" /\ backup' = "off"
        /\ UNCHANGED <<night, lock, wizard, events, kills>>
    BY <1>3 DEF Refused, lockVars, setupVars
  <2>2. \/ lost' = lost /\ Further' <= Further
        \/ lost' = lost + 1 /\ Further' = Further - 1
    BY <1>y, <1>3, <2>1 DEF Refused, Further, Abandoned, MayBeYoung
  <2>3. Further' \in 0..2
    BY <1>y, <2>1 DEF Further
  <2>4. lost' \in Nat /\ Bounded'
    BY <1>y, <1>f, <1>b, <2>1, <2>2, <2>3 DEF Bounded
  <2> QED BY <1>0, <1>y, <2>1, <2>4 DEF LockInv, Holder
<1>4. ASSUME LoadBackup PROVE LockInv'
  <2>1. /\ backup = "load" /\ backup' = "run"
        /\ UNCHANGED <<night, lock, wizard, events, kills, lost>>
    BY <1>4 DEF LoadBackup, lockVars, setupVars, countVars
  <2>2. Further' = Further
    BY <2>1 DEF Further, Abandoned
  <2> QED BY <1>0, <1>y, <2>1, <2>2 DEF LockInv, Holder, Bounded
<1>5. ASSUME RunBackup \/ FailBackup PROVE LockInv'
  <2>1. /\ backup \in {"load", "run"} /\ backup' = "off" /\ lock' = NoLock
        /\ UNCHANGED <<night, wizard, events, kills, lost>>
    BY <1>5 DEF RunBackup, FailBackup, Unlock, setupVars, countVars
  <2>2. Further' = 0
    BY <2>1 DEF Further, Abandoned, NoLock
  <2> QED BY <1>0, <1>y, <1>b, <2>1, <2>2 DEF LockInv, Holder, Bounded, NoLock
\* A command is killed: its lock file stays, for another backup or two.
<1>k. ASSUME NEW who \in {"setup", "backup"}, lock.by = who, lock.alive,
             lock' = [lock EXCEPT !.alive = FALSE], UNCHANGED night
      PROVE  /\ lock' = [by |-> who, alive |-> FALSE, day |-> lock.day]
             /\ Further' \in 0..2 /\ (backup' = "off" => Further' \in 0..1)
  <2>1. lock' = [by |-> who, alive |-> FALSE, day |-> lock.day]
    BY <1>y, <1>k
  <2>2. lock'.by = who /\ ~lock'.alive /\ lock'.day = lock.day /\ night' = night
    BY <1>k, <2>1
  <2>3. Further' \in 0..2 /\ (backup' # "lock" => Further' \in 0..1)
    BY <2>2 DEF Further
  <2> QED BY <2>1, <2>3
<1>6. ASSUME KillBackup PROVE LockInv'
  <2>1. /\ backup \in {"load", "run"} /\ backup' = "off"
        /\ lock' = [lock EXCEPT !.alive = FALSE]
        /\ UNCHANGED <<night, wizard>>
        /\ events' = events + 1 /\ kills' = kills + 1 /\ lost' = lost + 1
    BY <1>6 DEF KillBackup, Abandon, Kills, Event, setupVars
  <2>2. lock.by = "backup" /\ lock.alive /\ wizard = "off"
    BY <1>0, <2>1 DEF Holder
  <2>3. lock' = [by |-> "backup", alive |-> FALSE, day |-> lock.day] /\ Further' \in 0..1
    BY <1>k, <2>1, <2>2
  <2>4. Bounded'
    BY <1>y, <1>b, <2>1, <2>3 DEF Bounded
  <2>5. lock'.by = "backup" /\ ~lock'.alive /\ lock'.day = lock.day
    BY <2>3
  <2>t. LockTypeOK'
    <3>1. night' \in Nat
      BY <1>y, <2>1
    <3> QED BY <1>y, <2>3, <3>1
  <2>6. Holder'
    BY <1>0, <1>y, <2>1, <2>2, <2>5 DEF Holder
  <2> QED BY <1>y, <2>1, <2>4, <2>t, <2>6 DEF LockInv
<1>7. ASSUME StartSetup PROVE LockInv'
  <2>1. /\ wizard = "off" /\ wizard' = "account" /\ events' = events + 1
        /\ lock.by = "nobody" \/ ~lock.alive
        /\ lock' = [by |-> "setup", alive |-> TRUE, day |-> night]
        /\ UNCHANGED <<night, backup, kills, lost>>
    BY <1>7 DEF StartSetup, Event, Begin, Lock, Abandoned, At, Goto
  <2>2. Further' = 0
    BY <2>1 DEF Further, Abandoned
  <2>3. ~lock.alive
    BY <1>0, <2>1 DEF Holder
  <2> QED BY <1>0, <1>y, <1>b, <2>1, <2>2, <2>3 DEF LockInv, Holder, Bounded
<1>8. ASSUME RunWizard PROVE LockInv'
  <2>1. /\ wizard # "off" /\ UNCHANGED <<night, backup, events, kills, lost>>
        /\ (wizard' # "off" /\ UNCHANGED lock) \/ (wizard' = "off" /\ lock' = NoLock)
    BY <1>8, WizardLock DEF RunWizard, countVars, Unlock
  <2>2. lock.by = "setup" /\ lock.alive
    BY <1>0, <2>1 DEF Holder
  <2>3. Further' = 0
    BY <2>1, <2>2 DEF Further, Abandoned, NoLock
  <2>4. Bounded'
    BY <1>y, <1>b, <2>1, <2>3 DEF Bounded
  <2>5. ~Working
    BY <1>0, <2>2 DEF Holder
  <2>6. CASE wizard' # "off" /\ UNCHANGED lock
    BY <1>0, <1>y, <2>1, <2>2, <2>4, <2>5, <2>6 DEF Holder, LockInv
  <2>7. CASE wizard' = "off" /\ lock' = NoLock
    BY <1>0, <1>y, <2>1, <2>4, <2>5, <2>7 DEF Holder, NoLock, LockInv
  <2> QED BY <2>1, <2>6, <2>7
<1>9. ASSUME KillWizard PROVE LockInv'
  <2>1. /\ wizard # "off" /\ wizard' = "off" /\ lock' = [lock EXCEPT !.alive = FALSE]
        /\ UNCHANGED <<night, backup, lost>>
        /\ events' = events + 1 /\ kills' = kills + 1
    BY <1>9 DEF KillWizard, KillSetup, At, Leave, Abandon, Kills, Event
  <2>2. lock.by = "setup" /\ lock.alive
    BY <1>0, <2>1 DEF Holder
  <2>3. lock' = [by |-> "setup", alive |-> FALSE, day |-> lock.day] /\ Further' \in 0..2
    BY <1>k, <2>1, <2>2
  <2>4. Bounded'
    BY <1>y, <1>b, <2>1, <2>3 DEF Bounded
  <2>5. lock'.by = "setup" /\ ~lock'.alive /\ lock'.day = lock.day
    BY <2>3
  <2>t. LockTypeOK'
    <3>1. night' \in Nat
      BY <1>y, <2>1
    <3> QED BY <1>y, <2>3, <3>1
  <2>6. Holder'
    BY <1>0, <1>y, <2>1, <2>2, <2>5 DEF Holder
  <2> QED BY <1>y, <2>1, <2>4, <2>t, <2>6 DEF LockInv
<1>10. ASSUME StartSchedule \/ RunSchedule PROVE LockInv'
  <2>1. UNCHANGED <<night, lock, wizard, backup, kills, lost>> /\ events' \in Nat
    BY <1>y, <1>10 DEF StartSchedule, RunSchedule, Event, lockVars, setupVars, countVars
  <2>2. Further' = Further
    BY <2>1 DEF Further, Abandoned
  <2> QED BY <1>0, <2>1, <2>2 DEF LockInv, Holder, Bounded
<1>11. ASSUME RestartMachine PROVE LockInv'
  <2>1. /\ backup' = "off" /\ wizard' = "off" /\ UNCHANGED night
        /\ events' = events + 1 /\ kills' = kills + 1
        /\ lost' = IF backup = "off" THEN lost ELSE lost + 1
        /\ IF lock.alive THEN lock' = [lock EXCEPT !.alive = FALSE] ELSE UNCHANGED lock
    BY <1>11 DEF RestartMachine, Leave, Abandon, Kills, Event
  <2>2. CASE lock.alive
    <3>1. lock.by \in {"setup", "backup"}
      BY <1>0, <1>y, <2>2 DEF Holder
    <3>2. lock' = [by |-> lock.by, alive |-> FALSE, day |-> lock.day] /\ Further' \in 0..1
      BY <1>k, <2>1, <2>2, <3>1
    <3>3. Bounded' /\ lost' \in Nat
      BY <1>y, <1>b, <2>1, <3>2 DEF Bounded
    <3> QED BY <1>0, <1>y, <2>1, <3>1, <3>2, <3>3 DEF LockInv, Holder
  <2>3. CASE ~lock.alive
    <3>1. UNCHANGED lock /\ Further' <= Further /\ Further' \in 0..2
      BY <1>y, <2>1, <2>3 DEF Further, Abandoned
    <3>2. Bounded' /\ lost' \in Nat
      BY <1>y, <1>f, <1>b, <2>1, <3>1 DEF Bounded
    <3> QED BY <1>0, <1>y, <2>1, <2>3, <3>1, <3>2 DEF LockInv, Holder
  <2> QED BY <1>y, <2>2, <2>3
<1> QED BY <1>1, <1>2, <1>3, <1>4, <1>5, <1>6, <1>7, <1>8, <1>9, <1>10, <1>11 DEF Next

LEMMA LockStutter ==
    ASSUME LockInv, UNCHANGED vars
    PROVE  LockInv'
BY DEF LockInv, vars, lockVars, setupVars, countVars, LockTypeOK, CountTypeOK, Holder, Bounded,
       Further, Abandoned, Working
-----------------------------------------------------------------------------
LEMMA Parts ==
    ASSUME [Next]_vars
    PROVE  SetupNext /\ ScheduleNext
<1>1. ASSUME Next PROVE SetupNext
  BY <1>1 DEF Next, Night, LockBackup, Refused, LoadBackup, RunBackup, FailBackup, KillBackup,
     StartSetup, RunWizard, KillWizard, StartSchedule, RunSchedule, RestartMachine, KillSetup,
     SetupNext, Aborted
<1>2. ASSUME Next PROVE ScheduleNext
  BY <1>2 DEF Next, Night, LockBackup, Refused, LoadBackup, RunBackup, FailBackup, KillBackup,
     StartSetup, RunWizard, KillWizard, StartSchedule, RunSchedule, RestartMachine,
     ScheduleNext
<1> QED BY <1>1, <1>2 DEF vars, SetupNext, ScheduleNext

THEOREM Invariance == Spec => []IInv
<1>1. Init => IInv
  BY SetupStart, ScheduleStart, LockStart DEF Init, IInv
<1>2. IInv /\ [Next]_vars => IInv'
  BY Parts, SetupStep, ScheduleStep, LockStep, LockStutter DEF IInv
<1> QED BY <1>1, <1>2, PTL DEF Spec

\* Every variable has its type.
THEOREM TypeCorrect == Spec => []TypeOK
<1>1. IInv => TypeOK
  BY DEF IInv, SetupInv, ScheduleInv, LockInv, CountTypeOK, TypeOK
<1> QED BY <1>1, Invariance, PTL

(* A complete setup leaves what it has confirmed, until another one begins *)
(* to write, whatever is aborted, killed or run beside it.                 *)
THEOREM TargetIsConfirmed == Spec => []ConfirmedTarget
<1>1. IInv => ConfirmedTarget
  BY DEF IInv, SetupInv
<1> QED BY <1>1, Invariance, PTL

(* A schedule that is reported as installed fires, by what was installed,  *)
(* on both platforms and through restarts.                                 *)
THEOREM InstalledIsTrue == Spec => []InstalledFires
<1>1. IInv => InstalledFires
  BY DEF IInv, ScheduleInv
<1> QED BY <1>1, Invariance, PTL

(* One that is reported as removed does not, even if it was never stopped. *)
THEOREM RemovedIsTrue == Spec => []RemovedIsOff
<1>1. IInv => RemovedIsOff
  BY DEF IInv, ScheduleInv
<1> QED BY <1>1, Invariance, PTL

(* What kills and their lock files cost is bounded, however many there are *)
(* and in whatever nights they come.                                       *)
THEOREM KillsAreBounded == Spec => []KillCostsTwoNights
<1>1. IInv => KillCostsTwoNights
  <2>1. Further \in {0, 1, 2}
    BY DEF Further
  <2> QED BY <2>1 DEF IInv, LockInv, CountTypeOK, Bounded, KillCostsTwoNights
<1> QED BY <1>1, Invariance, PTL

(* Nobody edits the key, a remote or config.json under a running backup:   *)
(* only a setup does, which would have to hold the lock that the backup    *)
(* holds.                                                                  *)
THEOREM BackupUndisturbed == Spec => StableDuringBackup
<1>1. IInv /\ [Next]_vars => [Working /\ Working' => UNCHANGED deployVars]_vars
  <2> SUFFICES ASSUME IInv, Next, Working, Working' PROVE UNCHANGED deployVars
    OBVIOUS
  <2>1. wizard = "off"
    BY DEF IInv, LockInv, Holder
  <2>2. ~RunWizard /\ ~KillWizard
    BY <2>1, WizardLock DEF RunWizard, KillWizard, KillSetup, At
  <2> QED BY <2>2 DEF Next, Night, LockBackup, Refused, LoadBackup, RunBackup, FailBackup,
          KillBackup, StartSetup, Begin, StartSchedule, RunSchedule, RestartMachine,
          setupVars, deployVars
<1> QED BY <1>1, Invariance, PTL DEF Spec, StableDuringBackup
-----------------------------------------------------------------------------
(* --- What an operator has been told, and what the nights make of it ----- *)

\* "Setup complete" and then, or before, "Installed", for this workspace.
OperatorDone == confirmed # NoDraft /\ ~touched /\ report \in Ours /\ ~masked

(* Every night a backup is started; what it loads is the remote that was   *)
(* confirmed, and it reaches the drive that was; and no running process    *)
(* can keep the lock from it but a setup that waits at its first prompt.   *)
NightIsServed ==
    OperatorDone =>
        /\ Fires /\ loaded[First] \in Ours
        /\ config # Torn /\ Resolved = confirmed.remote
        /\ remotes[Resolved] = confirmed.drive /\ remotes[Resolved] # Absent
        /\ Reaches(Resolved)
        /\ lock.alive /\ ~Working => wizard = "account"

(* What a setup and a schedule command have reported goes together and is  *)
(* kept: whatever was aborted, killed, restarted or run again in between,  *)
(* each night's backup meets every condition that it checks, and the rest  *)
(* is up to the network, the lock file of a dead process and the jobs. It  *)
(* takes the invariants of setup, of the schedule commands and of the lock *)
(* together.                                                               *)
THEOREM NightsAreServed == Spec => []NightIsServed
<1>1. IInv => NightIsServed
  <2> SUFFICES ASSUME IInv, OperatorDone PROVE NightIsServed
    BY DEF NightIsServed
  <2>1. /\ config = confirmed.remote /\ remotes[config] = confirmed.drive
        /\ Reaches(config)
    BY DEF IInv, SetupInv, ConfirmedTarget, OperatorDone
  <2>2. confirmed.remote \in Remote /\ confirmed.drive \in Drive
    BY DEF IInv, SetupInv, SetupTypeOK, OperatorDone
  <2>3. config # Torn /\ Resolved = config /\ confirmed.drive # Absent
    BY <2>1, <2>2, SetupAssumption DEF Resolved
  <2>4. Fires /\ \A u \in Used : loaded[u] = report
    BY DeploymentAssumption DEF IInv, ScheduleInv, InstalledFires, OperatorDone
  <2>5. First \in Used
    BY DEF First, Used
  <2>6. loaded[First] \in Ours
    BY <2>4, <2>5 DEF OperatorDone
  <2>7. ASSUME lock.alive, ~Working PROVE wizard = "account"
    <3>1. lock.by \in {"setup", "backup"} /\ wizard \in Stages
      BY <2>7 DEF IInv, LockInv, LockTypeOK, Holder, SetupInv, SetupTypeOK
    <3>2. wizard # "off"
      BY <2>7, <3>1 DEF IInv, LockInv, Holder
    <3>3. ~HasAccount
      BY DEF IInv, SetupInv, Progress, OperatorDone
    <3> QED BY <3>2, <3>3 DEF HasAccount
  <2> QED BY <2>1, <2>3, <2>4, <2>6, <2>7 DEF NightIsServed
<1> QED BY <1>1, Invariance, PTL
=============================================================================
