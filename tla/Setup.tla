------------------------------- MODULE Setup --------------------------------
(***************************************************************************)
(* `dockvault setup`: runSetup of internal/cli/setup.go and the Wizard of  *)
(* internal/setup/wizard.go, which edits in place what every later command *)
(* relies on: the service account's key (one file for all remotes), an     *)
(* rclone remote and config.json. It may be run again at any time, and any *)
(* of its runs may end at any step: at a prompt with EOF, in an rclone     *)
(* call, at a write, or by a kill, which is how an operator leaves a       *)
(* prompt, since main.go takes the SIGINT and ReadString goes on waiting.  *)
(*                                                                         *)
(* A remote is what rclone's own configuration says of it. All of them     *)
(* refer to the same key file. An account is identified with its key.      *)
(***************************************************************************)
EXTENDS DayLock, TornFile

CONSTANTS
    Account,    \* service accounts whose key files pass ValidateServiceAccountJSON
    Drive,      \* Shared Drives
    Sees,       \* Sees[a]: the drives a has been added to; none if it is revoked
    MyDrive,    \* team_drive="": no Shared Drive, but the account's own space
    Remote,     \* names of rclone remotes
    Default     \* "dockvault_backup", the remote of DefaultConfig

ASSUME SetupAssumption ==
    /\ Sees \in [Account -> SUBSET Drive]
    /\ Default \in Remote
    /\ MyDrive \notin Drive \cup {Absent}
    /\ Absent \notin Account \cup Drive \cup Remote
    /\ Torn \notin Account \cup Remote

VARIABLES
    wizard,      \* where the running setup is, or "off"
    draft,       \* its local variables: saPath's account, remoteName, chosen
    key,         \* secrets/gcp-service-account.json: whose key it holds
    remotes,     \* remotes[r]: the team_drive of r, or Absent
    config,      \* the rclone_remote of config.json
    confirmed,   \* history: the draft of the last setup that was complete
    touched      \* history: a later one has begun to write

deployVars == <<key, remotes, config>>
setupVars  == <<wizard, draft, key, remotes, config, confirmed, touched>>

NoDraft == [account |-> Absent, remote |-> Absent, drive |-> Absent]

SetupInit ==
    /\ wizard = "off" /\ draft = NoDraft
    /\ key = Absent /\ remotes = [r \in Remote |-> Absent] /\ config = Absent
    /\ confirmed = NoDraft /\ touched = FALSE

At(s)   == wizard = s
Goto(s) == wizard' = s
Leave   == wizard' = "off" /\ draft' = NoDraft
-----------------------------------------------------------------------------
\* Mutant of Begin: setup is left out of the commands that take the lock.
BeginUnlocked ==
    /\ At("off") /\ Goto("account")
    /\ UNCHANGED <<lock, draft, deployVars, confirmed, touched>>

(* runSetup: Open, EnsureLayout, Lock. One that is refused leaves no trace. *)
Begin ==
    /\ At("off") /\ Lock("setup") /\ Goto("account")
    /\ UNCHANGED <<draft, deployVars, confirmed, touched>>

\* Mutant of ChooseAccount: an empty path is not asked for again.
AcceptNone ==
    /\ At("account") /\ Goto("write key")
    /\ key' = Torn /\ touched' = TRUE
    /\ UNCHANGED <<lock, draft, remotes, config, confirmed>>

(* setupServiceAccount prompts until a key is valid and accepted;          *)
(* copyServiceAccountFile opens the file of the key that is in use.        *)
ChooseAccount ==
    /\ At("account") /\ Goto("write key")
    /\ \E a \in Account : draft' = [draft EXCEPT !.account = a]
    /\ key' = Torn /\ touched' = TRUE
    /\ UNCHANGED <<lock, remotes, config, confirmed>>

WriteKey ==
    /\ At("write key") /\ Goto("remote")
    /\ key' = draft.account
    /\ UNCHANGED <<lock, draft, remotes, config, confirmed, touched>>

(* ConfigureServiceAccountRemote: `rclone config create`, which validates  *)
(* nothing. One that reports an error may have changed the remote.         *)
Configure(name, drive, next, chosen) ==
    /\ remotes' = [remotes EXCEPT ![name] = drive]
    /\ \/ Goto(next) /\ draft' = chosen /\ UNCHANGED lock
       \/ Leave /\ Unlock
    /\ UNCHANGED <<key, config, confirmed, touched>>

(* setupRcloneRemote: a name, new or in use, at first without a Shared     *)
(* Drive, to list those there are.                                         *)
ChooseRemote ==
    /\ At("remote")
    /\ \E r \in Remote : Configure(r, MyDrive, "list", [draft EXCEPT !.remote = r])

\* Mutant of SelectDrive: the remote is left as it was for the listing.
SelectAndForget ==
    /\ At("list")
    /\ \E d \in Sees[key] :
           Configure(draft.remote, MyDrive, "confirm", [draft EXCEPT !.drive = d])

(* ListSharedDrives and SelectOne, then the remote is made final. A key    *)
(* that Google does not accept, or that sees no drive, is an error.        *)
SelectDrive ==
    /\ At("list")
    /\ \E d \in Sees[key] :
           Configure(draft.remote, d, "confirm", [draft EXCEPT !.drive = d])

(* ListSharedDrives once more, through the finished remote. *)
Confirm ==
    /\ At("confirm") /\ Goto("load")
    /\ Sees[key] # {}
    /\ UNCHANGED <<lock, draft, deployVars, confirmed, touched>>

(* setupConfigDefaults: LoadConfig, for which a missing file is an empty   *)
(* one; the prompts; SaveConfig opens the file.                            *)
OpenConfig ==
    /\ At("load") /\ Goto("write config")
    /\ config # Torn
    /\ config' = Torn
    /\ UNCHANGED <<lock, draft, key, remotes, confirmed, touched>>

WriteConfig ==
    /\ At("write config") /\ Leave /\ Unlock
    /\ config' = draft.remote
    /\ confirmed' = draft /\ touched' = FALSE
    /\ UNCHANGED <<key, remotes>>

(* Any step may return an error, and Run returns the first one; what it    *)
(* has done so far stays done.                                             *)
Fail ==
    /\ ~At("off") /\ Leave /\ Unlock
    /\ UNCHANGED <<deployVars, confirmed, touched>>

(* The process ends without a return. *)
KillSetup ==
    /\ ~At("off") /\ Leave /\ Abandon
    /\ UNCHANGED <<deployVars, confirmed, touched>>

Wizard ==
    \/ ChooseAccount \/ WriteKey \/ ChooseRemote \/ SelectDrive \/ Confirm
    \/ OpenConfig \/ WriteConfig \/ Fail
-----------------------------------------------------------------------------
Stages == {"off", "account", "write key", "remote", "list", "confirm", "load", "write config"}

\* What is chosen so far.
HasAccount == wizard \notin {"off", "account"}
HasRemote  == HasAccount /\ wizard \notin {"write key", "remote"}
HasDrive   == HasRemote /\ wizard # "list"

SetupTypeOK ==
    /\ wizard \in Stages
    /\ draft \in [account : Account \cup {Absent}, remote : Remote \cup {Absent},
                 drive : Drive \cup {Absent}]
    /\ draft.account \in IF HasAccount THEN Account ELSE {Absent}
    /\ draft.remote \in IF HasRemote THEN Remote ELSE {Absent}
    /\ draft.drive \in IF HasDrive THEN Drive ELSE {Absent}
    /\ key \in Account \cup {Absent, Torn}
    /\ remotes \in [Remote -> Drive \cup {MyDrive, Absent}]
    /\ config \in Remote \cup {Absent, Torn}
    /\ confirmed = NoDraft \/ confirmed \in [account : Account, remote : Remote, drive : Drive]
    /\ touched \in BOOLEAN

\* resolveRcloneRemote: the remote that the other commands use.
Resolved == IF config = Absent THEN Default ELSE config

\* What its key and its team_drive let a remote reach.
Reaches(r) == remotes[r] \in Drive /\ key \in Account /\ remotes[r] \in Sees[key]
=============================================================================
