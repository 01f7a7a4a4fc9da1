---------------------------- MODULE LocalCopies ----------------------------
(***************************************************************************)
(* Several goroutines that keep local copies in one directory at the same  *)
(* time: retainLocalCopy, pruneLocalCopies and copyFile of                 *)
(* internal/backup/local_retention.go, as `backup --jobs a,a` runs them.   *)
(* BackupPipeline has one goroutine, and its failures in detail; here a    *)
(* listing and the removals that follow it interleave with another's       *)
(* writes. Manifest sidecars, which are not counted, are left out.         *)
(***************************************************************************)
EXTENDS Clock, FiniteSets

CONSTANTS
    Goroutine,   \* the goroutines that run the job
    KeepLocal,   \* LocalRetentionCount
    Earlier      \* the local copies that earlier commands have left

\* A file: the second in its name, its modification time, the state of the
\* service it holds, whether its bytes are right, and who has it open. It is
\* mixed if somebody opened it while another was writing.
File == [name : Int, mtime : Int, snap : Int, whole : BOOLEAN,
         open : SUBSET Goroutine, mixed : BOOLEAN]

ASSUME LocalAssumption ==
    /\ IsFiniteSet(Goroutine) /\ KeepLocal \in Nat
    /\ Earlier \subseteq File /\ IsFiniteSet(Earlier)
    /\ \A f \in Earlier : f.name < Start /\ f.mtime < Start /\ f.open = {}
    /\ \A f, h \in Earlier : f.name = h.name => f = h

VARIABLES
    pc,       \* where each goroutine is
    name,     \* name[g]: the second in g's archive name
    snap,     \* snap[g]: the state of the service that g's archive holds
    dir,      \* the files of LocalBackupDir/<job>
    todo,     \* todo[g]: what FilesToPrune has returned, not yet removed
    warn,     \* warn[g]: the warnings in the status of g
    copied    \* history: the goroutines whose copyFile has succeeded

localVars == <<dir, todo, warn, copied>>

Unnamed == -1

Goto(g, s) == pc' = [pc EXCEPT ![g] = s]
Warn(g, w) == warn' = [warn EXCEPT ![g] = @ \cup {w}]

\* The file of name n, as a set.
At(n) == {f \in dir : f.name = n}
Others(n) == dir \ At(n)

LocalInit ==
    /\ name = [g \in Goroutine |-> Unnamed] /\ snap = [g \in Goroutine |-> 0]
    /\ dir = Earlier /\ todo = [g \in Goroutine |-> {}]
    /\ warn = [g \in Goroutine |-> {}] /\ copied = {}
-----------------------------------------------------------------------------
\* An archive has been made: its local copy is next, unless it is disabled.
Retain == IF KeepLocal > 0 THEN "open" ELSE "upload"

(* copyFile's O_CREATE|O_TRUNC: the file is there, and empty. A twin whose *)
(* archive was named in the same second has that very file open.           *)
Open(g) ==
    /\ pc[g] = "open"
    /\ \/ LET busy == UNION {f.open : f \in At(name[g])}
          IN  /\ dir' = Others(name[g]) \cup
                        {[name |-> name[g], mtime |-> now, snap |-> snap[g],
                          whole |-> FALSE, open |-> busy \cup {g},
                          mixed |-> busy # {}]}
              /\ Goto(g, "write") /\ UNCHANGED warn
       \/ Warn(g, "local copy") /\ Goto(g, "upload") /\ UNCHANGED dir
    /\ UNCHANGED <<name, snap, todo, copied>>

\* f after g has closed it.
Closed(f, g, whole, time) ==
    [f EXCEPT !.open = @ \ {g}, !.whole = whole, !.mtime = time, !.snap = snap[g]]

\* The file that g has open, unless a twin has removed it meanwhile.
Mine(g) == {f \in At(name[g]) : g \in f.open}

(* io.Copy into the file, which gets a new modification time. The bytes of *)
(* an unlinked file go nowhere, without an error; those of two goroutines  *)
(* in one file may mix. After a failure the truncated file stays.          *)
Write(g) ==
    /\ pc[g] = "write"
    /\ \/ /\ \E ok \in BOOLEAN :
               /\ (\A f \in Mine(g) : f.open = {g} /\ ~f.mixed) => ok
               /\ dir' = (dir \ Mine(g)) \cup {Closed(f, g, ok, now) : f \in Mine(g)}
          /\ copied' = copied \cup {g} /\ Goto(g, "list") /\ UNCHANGED warn
       \/ /\ dir' = (dir \ Mine(g)) \cup {Closed(f, g, FALSE, now) : f \in Mine(g)}
          /\ Warn(g, "local copy") /\ Goto(g, "upload") /\ UNCHANGED copied
    /\ UNCHANGED <<name, snap, todo>>

(* sort.Slice by descending ModTime and files[keep:]: what is beyond the   *)
(* newest `keep`. Files of one second are in no particular order.          *)
Beyond(keep, rest) ==
    /\ rest \subseteq dir
    /\ Cardinality(dir \ rest) = keep
    /\ \A f \in dir \ rest, h \in rest : h.mtime <= f.mtime

\* Mutant of FilesToPrune: one file too few is kept.
FilesToPruneOffByOne(rest) ==
    IF Cardinality(dir) <= KeepLocal THEN rest = {} ELSE Beyond(KeepLocal - 1, rest)

(* With retentionDays = 0 every candidate beyond the floor is old enough.  *)
FilesToPrune(rest) ==
    IF Cardinality(dir) <= KeepLocal THEN rest = {} ELSE Beyond(KeepLocal, rest)

(* pruneLocalCopies lists the directory. The copies that others are still  *)
(* writing are counted like any other.                                     *)
List(g) ==
    /\ pc[g] = "list"
    /\ \/ /\ \E rest \in SUBSET dir : FilesToPrune(rest) /\ todo' = [todo EXCEPT ![g] = rest]
          /\ Goto(g, "prune") /\ UNCHANGED warn
       \/ Warn(g, "local prune") /\ Goto(g, "upload") /\ UNCHANGED todo
    /\ UNCHANGED <<name, snap, dir, copied>>

(* os.Remove of the next candidate, newest first. That somebody else has   *)
(* removed it is no error; any other one ends the pruning.                 *)
Remove(g) ==
    /\ pc[g] = "prune" /\ todo[g] # {}
    /\ \E f \in todo[g] :
        /\ \A h \in todo[g] : h.mtime <= f.mtime
        /\ \/ /\ dir' = Others(f.name) /\ todo' = [todo EXCEPT ![g] = @ \ {f}]
              /\ UNCHANGED <<pc, warn>>
           \/ /\ Warn(g, "local prune") /\ todo' = [todo EXCEPT ![g] = {}]
              /\ Goto(g, "upload") /\ UNCHANGED dir
    /\ UNCHANGED <<name, snap, copied>>

Pruned(g) ==
    /\ pc[g] = "prune" /\ todo[g] = {}
    /\ Goto(g, "upload")
    /\ UNCHANGED <<name, snap, localVars>>

CopyStep(g) == Open(g) \/ Write(g) \/ List(g) \/ Remove(g) \/ Pruned(g)
-----------------------------------------------------------------------------
LocalTypeOK ==
    /\ name \in [Goroutine -> Int] /\ snap \in [Goroutine -> Int]
    /\ dir \subseteq File /\ todo \in [Goroutine -> SUBSET File]
    /\ warn \in [Goroutine -> SUBSET {"local copy", "local prune"}]
    /\ copied \subseteq Goroutine

\* No other goroutine's archive has the name of g's.
Unique(g) == \A h \in Goroutine : name[h] = name[g] => h = g

(* However the goroutines' writes, listings and removals interleave, and   *)
(* whatever of it fails: the local copy that one of them has completed     *)
(* stays, whole, and so a prune never takes the last good copy. It needs a *)
(* floor of at least one per goroutine (with a smaller one two of them can *)
(* each remove the other's), and archives that were not named in the same  *)
(* second.                                                                 *)
CopySurvives ==
    KeepLocal >= Cardinality(Goroutine) =>
        \A g \in copied :
            Unique(g) => \E f \in dir : f.name = name[g] /\ f.whole /\ f.snap = snap[g]
=============================================================================
