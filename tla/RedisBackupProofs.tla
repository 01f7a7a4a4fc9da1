------------------------- MODULE RedisBackupProofs -------------------------
(***************************************************************************)
(* What concurrent Redis backups guarantee for any number of goroutines,   *)
(* any floor and any number of polls: RedisBackup and its LocalCopies.     *)
(***************************************************************************)
EXTENDS RedisBackup, FiniteSetTheorems, TLAPS

Early == {"begin", "bgsave", "poll", "name"}
Named == {"cp", "open", "write", "list", "prune", "upload", "success"}
Past  == {"list", "prune", "upload", "success", "failed"}

\* The floor is at least one per goroutine.
Enough == KeepLocal >= Cardinality(Goroutine)

(* An archive is named once, in a second of this command. *)
Naming ==
    /\ now >= Start
    /\ \A g \in Goroutine : pc[g] \in Early => name[g] = Unnamed
    /\ \A g \in Goroutine : pc[g] \in Named => name[g] >= Start

(* Names are unique in the directory; a file is either an earlier one, in  *)
(* name and in time, or has the name of a goroutine's archive; and only    *)
(* goroutines that are writing it have it open.                            *)
OldFile(f) == f.mtime < Start /\ f.name < Start
NewFile(f) ==
    f.mtime >= Start /\ f.name >= Start /\ \E g \in Goroutine : name[g] = f.name

Files ==
    /\ IsFiniteSet(dir)
    /\ \A f, h \in dir : f.name = h.name => f = h
    /\ \A f \in dir : OldFile(f) \/ NewFile(f)
    /\ \A f \in dir : \A h \in f.open : name[h] = f.name /\ pc[h] = "write"

(* With a large enough floor only earlier files are given up. *)
OnlyOlder == Enough => \A g \in Goroutine : \A f \in todo[g] : f.name < Start

(* A goroutine that writes has its file, to itself. *)
Writing ==
    \A g \in Goroutine : pc[g] = "write" /\ Enough /\ Unique(g) =>
        \E f \in dir : f.name = name[g] /\ f.open = {g} /\ ~f.mixed

Kept ==
    \A g \in copied :
        /\ pc[g] \in Past /\ name[g] >= Start
        /\ Enough /\ Unique(g) =>
             \E f \in dir : f.name = name[g] /\ f.whole /\ f.snap = snap[g]

(* What a goroutine waits for: a save whose end it can notice has started  *)
(* after it asked, so that it holds at least the dataset it asked for.     *)
Fresh ==
    \A g \in Goroutine \ clouded :
        /\ pc[g] \in {"bgsave", "poll", "name", "cp"} =>
             asked[g] <= data /\ (saving # Idle => asked[g] <= saving)
        /\ pc[g] \in {"bgsave", "poll"} => (lastsave # before[g] => asked[g] <= dump)
        /\ pc[g] \in {"name", "cp"} => asked[g] <= dump
        /\ HasDump(g) => asked[g] <= snap[g]

IInv == TypeOK /\ Naming /\ Files /\ OnlyOlder /\ Writing /\ Kept /\ Fresh
-----------------------------------------------------------------------------
LEMMA Constants ==
    /\ Start \in Nat /\ Start > Unnamed
    /\ KeepLocal \in Nat /\ MaxPolls \in Nat /\ IsFiniteSet(Goroutine)
    /\ Earlier \subseteq File /\ IsFiniteSet(Earlier)
    /\ \A f \in Earlier : f.name < Start /\ f.mtime < Start /\ f.open = {}
    /\ \A f, h \in Earlier : f.name = h.name => f = h
BY ClockAssumption, LocalAssumption, RedisAssumption DEF Unnamed

LEMMA InitIInv == ASSUME Init PROVE IInv
<1> USE Constants DEF Init, LocalInit
<1>1. TypeOK
  <2>1. ServerTypeOK /\ AskTypeOK
    BY DEF ServerTypeOK, AskTypeOK, Idle
  <2>2. LocalTypeOK
    BY DEF LocalTypeOK, Unnamed
  <2>3. QED
    BY <2>1, <2>2 DEF TypeOK, Steps
<1>2. Naming /\ Files
  BY DEF Naming, Files, OldFile, Early, Named, Unnamed
<1>3. OnlyOlder /\ Writing /\ Kept
  BY DEF OnlyOlder, Writing, Kept
<1>4. Fresh
  BY DEF Fresh, HasDump
<1>5. QED
  BY <1>1, <1>2, <1>3, <1>4 DEF IInv
-----------------------------------------------------------------------------
(* Where a goroutine is. *)
LEMMA PcStep == ASSUME TypeOK, [Next]_vars PROVE pc' \in [Goroutine -> Steps]
<1> USE DEF TypeOK, Steps, Goto, Fail, Leave, Again
<1>1. ASSUME NEW g \in Goroutine, LastSave(g) PROVE pc' \in [Goroutine -> Steps]
  BY <1>1 DEF LastSave
<1>2. ASSUME NEW g \in Goroutine, BgSave(g) PROVE pc' \in [Goroutine -> Steps]
  BY <1>2 DEF BgSave
<1>3. ASSUME NEW g \in Goroutine, Poll(g) PROVE pc' \in [Goroutine -> Steps]
  BY <1>3 DEF Poll, Differs, GiveUp
<1>4. ASSUME NEW g \in Goroutine, TimedOut(g) PROVE pc' \in [Goroutine -> Steps]
  BY <1>4 DEF TimedOut, GiveUp
<1>5. ASSUME NEW g \in Goroutine, ArchiveFileName(g) PROVE pc' \in [Goroutine -> Steps]
  BY <1>5 DEF ArchiveFileName
<1>6. ASSUME NEW g \in Goroutine, Cp(g) PROVE pc' \in [Goroutine -> Steps]
  BY <1>6 DEF Cp, Retain
<1>7. ASSUME NEW g \in Goroutine, Open(g),
              UNCHANGED <<now, serverVars, askVars>> PROVE pc' \in [Goroutine -> Steps]
  BY <1>7 DEF Open
<1>8. ASSUME NEW g \in Goroutine, Write(g),
              UNCHANGED <<now, serverVars, askVars>> PROVE pc' \in [Goroutine -> Steps]
  BY <1>8 DEF Write
<1>9. ASSUME NEW g \in Goroutine, List(g),
              UNCHANGED <<now, serverVars, askVars>> PROVE pc' \in [Goroutine -> Steps]
  BY <1>9 DEF List
<1>10. ASSUME NEW g \in Goroutine, Remove(g),
              UNCHANGED <<now, serverVars, askVars>> PROVE pc' \in [Goroutine -> Steps]
  BY <1>10 DEF Remove
<1>11. ASSUME NEW g \in Goroutine, Pruned(g),
              UNCHANGED <<now, serverVars, askVars>> PROVE pc' \in [Goroutine -> Steps]
  BY <1>11 DEF Pruned
<1>12. ASSUME NEW g \in Goroutine, Upload(g) PROVE pc' \in [Goroutine -> Steps]
  BY <1>12 DEF Upload
<1>13. ASSUME Server PROVE pc' \in [Goroutine -> Steps]
  BY <1>13 DEF Server
<1>14. ASSUME Time PROVE pc' \in [Goroutine -> Steps]
  BY <1>14 DEF Time
<1>15. ASSUME UNCHANGED vars PROVE pc' \in [Goroutine -> Steps]
  BY <1>15 DEF vars
<1>16. QED
  BY <1>1, <1>2, <1>3, <1>4, <1>5, <1>6, <1>7, <1>8,
     <1>9, <1>10, <1>11, <1>12, <1>13, <1>14, <1>15
     DEF Next, Step, RetainLocalCopy, CopyStep

(* The files, what is left to remove and the warnings. *)
LEMMA LocalTypeStep == ASSUME TypeOK, [Next]_vars PROVE LocalTypeOK'
<1>a. name \in [Goroutine -> Int]
  BY DEF TypeOK, LocalTypeOK
<1>b. snap \in [Goroutine -> Int]
  BY DEF TypeOK, LocalTypeOK
<1>c. now \in Int
  BY DEF TypeOK
<1>d. dump \in Int
  BY DEF TypeOK, ServerTypeOK
<1>e. dir \subseteq File
  BY DEF TypeOK, LocalTypeOK
<1>f. warn \in [Goroutine -> SUBSET {"local copy", "local prune"}]
  BY DEF TypeOK, LocalTypeOK
<1>g. todo \in [Goroutine -> SUBSET File]
  BY DEF TypeOK, LocalTypeOK
<1> USE DEF TypeOK, LocalTypeOK, localVars, Warn
<1>1. ASSUME NEW g \in Goroutine, LastSave(g) PROVE LocalTypeOK'
  BY <1>1 DEF LastSave
<1>2. ASSUME NEW g \in Goroutine, BgSave(g) PROVE LocalTypeOK'
  BY <1>2 DEF BgSave
<1>3. ASSUME NEW g \in Goroutine, Poll(g) PROVE LocalTypeOK'
  BY <1>3 DEF Poll, Differs, GiveUp
<1>4. ASSUME NEW g \in Goroutine, TimedOut(g) PROVE LocalTypeOK'
  BY <1>4 DEF TimedOut, GiveUp
<1>5. ASSUME NEW g \in Goroutine, ArchiveFileName(g) PROVE LocalTypeOK'
  <2>1. name' = name \/ name' = [name EXCEPT ![g] = now]
    BY <1>5 DEF ArchiveFileName
  <2>3. name' \in [Goroutine -> Int]
    <3> HIDE DEF TypeOK, LocalTypeOK
    <3> QED
      BY <2>1, <1>a, <1>c
  <2>4. UNCHANGED <<snap, localVars>>
    BY <1>5 DEF ArchiveFileName
  <2>5. QED
    BY <2>3, <2>4
<1>6. ASSUME NEW g \in Goroutine, Cp(g) PROVE LocalTypeOK'
  <2>1. snap' = snap \/ snap' = [snap EXCEPT ![g] = dump]
    BY <1>6 DEF Cp
  <2>3. snap' \in [Goroutine -> Int]
    <3> HIDE DEF TypeOK, LocalTypeOK
    <3> QED
      BY <2>1, <1>b, <1>d
  <2>4. UNCHANGED <<name, localVars>>
    BY <1>6 DEF Cp
  <2>5. QED
    BY <2>3, <2>4
<1>7. ASSUME NEW g \in Goroutine, Open(g),
              UNCHANGED <<now, serverVars, askVars>> PROVE LocalTypeOK'
  <2> DEFINE busy == UNION {f.open : f \in At(name[g])}
             new == [name |-> name[g], mtime |-> now, snap |-> snap[g],
                     whole |-> FALSE, open |-> busy \cup {g}, mixed |-> busy # {}]
  <2>1. dir' = dir \/ dir' = Others(name[g]) \cup {new}
    BY <1>7 DEF Open
  <2>2. busy \subseteq Goroutine
    <3>1. \A f \in dir : f.open \subseteq Goroutine
      <4> HIDE DEF TypeOK, LocalTypeOK
      <4> QED
        BY <1>e DEF File
    <3>2. \A f \in At(name[g]) : f.open \subseteq Goroutine
      BY <3>1 DEF At
    <3> HIDE DEF TypeOK, LocalTypeOK
    <3>3. QED
      BY <3>2
  <2>3. name[g] \in Int /\ now \in Int /\ snap[g] \in Int
    <3> HIDE DEF TypeOK, LocalTypeOK
    <3> QED
      BY <1>a, <1>b, <1>c
  <2>4. (busy # {}) \in BOOLEAN /\ busy \cup {g} \in SUBSET Goroutine
    BY <2>2
  <2> HIDE DEF busy
  <2>5. new \in File
    BY <2>3, <2>4 DEF File
  <2>6. dir' \subseteq File
    <3> HIDE DEF new
    <3> QED
      BY <2>1, <2>5 DEF Others
  <2>7. /\ UNCHANGED <<name, snap, todo, copied>>
        /\ warn' = warn \/ warn' = [warn EXCEPT ![g] = @ \cup {"local copy"}]
    BY <1>7 DEF Open
  <2>8. QED
    BY <2>6, <2>7
<1>8. ASSUME NEW g \in Goroutine, Write(g),
              UNCHANGED <<now, serverVars, askVars>> PROVE LocalTypeOK'
  <2>1. PICK ok \in BOOLEAN :
            dir' = (dir \ Mine(g)) \cup {Closed(f, g, ok, now) : f \in Mine(g)}
    BY <1>8 DEF Write
  <2>2. ASSUME NEW f \in Mine(g) PROVE Closed(f, g, ok, now) \in File
    <3>1. f \in File
      BY DEF Mine, At
    <3>2. now \in Int /\ snap[g] \in Int /\ f.open \ {g} \in SUBSET Goroutine
      <4> HIDE DEF TypeOK, LocalTypeOK
      <4> QED
        BY <3>1, <1>b, <1>c DEF File
    <3>3. QED
      BY <3>1, <3>2 DEF Closed, File
  <2>3. dir' \subseteq File
    BY <2>1, <2>2
  <2>4. /\ UNCHANGED <<name, snap, todo>>
        /\ warn' = warn \/ warn' = [warn EXCEPT ![g] = @ \cup {"local copy"}]
        /\ copied' \in {copied, copied \cup {g}}
    BY <1>8 DEF Write
  <2>5. QED
    BY <2>3, <2>4
<1>9. ASSUME NEW g \in Goroutine, List(g),
              UNCHANGED <<now, serverVars, askVars>> PROVE LocalTypeOK'
  <2>1. /\ UNCHANGED <<name, snap, dir, copied>>
        /\ \/ \E rest \in SUBSET dir : todo' = [todo EXCEPT ![g] = rest]
           \/ todo' = todo
        /\ warn' = warn \/ warn' = [warn EXCEPT ![g] = @ \cup {"local prune"}]
    BY <1>9 DEF List
  <2>2. todo' \in [Goroutine -> SUBSET File]
    <3> HIDE DEF TypeOK, LocalTypeOK
    <3> QED
      BY <2>1, <1>e, <1>g
  <2>3. warn' \in [Goroutine -> SUBSET {"local copy", "local prune"}]
    <3> HIDE DEF TypeOK, LocalTypeOK
    <3> QED
      BY <2>1, <1>f
  <2>4. QED
    BY <2>1, <2>2, <2>3
<1>10. ASSUME NEW g \in Goroutine, Remove(g),
              UNCHANGED <<now, serverVars, askVars>> PROVE LocalTypeOK'
  <2>1. PICK f \in todo[g] :
            \/ dir' = Others(f.name) /\ todo' = [todo EXCEPT ![g] = @ \ {f}] /\ warn' = warn
            \/ /\ warn' = [warn EXCEPT ![g] = @ \cup {"local prune"}]
               /\ todo' = [todo EXCEPT ![g] = {}] /\ dir' = dir
    BY <1>10 DEF Remove
  <2>2. UNCHANGED <<name, snap, copied>>
    BY <1>10 DEF Remove
  <2>3. dir' \subseteq File
    BY <2>1 DEF Others
  <2>4. todo' \in [Goroutine -> SUBSET File]
    BY <2>1
  <2>5. warn' \in [Goroutine -> SUBSET {"local copy", "local prune"}]
    <3> HIDE DEF TypeOK, LocalTypeOK
    <3> QED
      BY <2>1, <1>f
  <2>6. QED
    BY <2>2, <2>3, <2>4, <2>5
<1>11. ASSUME NEW g \in Goroutine, Pruned(g),
              UNCHANGED <<now, serverVars, askVars>> PROVE LocalTypeOK'
  BY <1>11 DEF Pruned
<1>12. ASSUME NEW g \in Goroutine, Upload(g) PROVE LocalTypeOK'
  BY <1>12 DEF Upload
<1>13. ASSUME Server PROVE LocalTypeOK'
  BY <1>13 DEF Server
<1>14. ASSUME Time PROVE LocalTypeOK'
  BY <1>14 DEF Time
<1>15. ASSUME UNCHANGED vars PROVE LocalTypeOK'
  BY <1>15 DEF vars
<1>16. QED
  BY <1>1, <1>2, <1>3, <1>4, <1>5, <1>6, <1>7, <1>8,
     <1>9, <1>10, <1>11, <1>12, <1>13, <1>14, <1>15
     DEF Next, Step, RetainLocalCopy, CopyStep

(* The server. *)
LEMMA ServerTypeStep == ASSUME TypeOK, [Next]_vars PROVE ServerTypeOK'
<1> USE DEF TypeOK, ServerTypeOK, serverVars, Idle
<1>1. ASSUME NEW g \in Goroutine, LastSave(g) PROVE ServerTypeOK'
  BY <1>1 DEF LastSave
<1>2. ASSUME NEW g \in Goroutine, BgSave(g) PROVE ServerTypeOK'
  BY <1>2 DEF BgSave
<1>3. ASSUME NEW g \in Goroutine, Poll(g) PROVE ServerTypeOK'
  BY <1>3 DEF Poll, Differs, GiveUp
<1>4. ASSUME NEW g \in Goroutine, TimedOut(g) PROVE ServerTypeOK'
  BY <1>4 DEF TimedOut, GiveUp
<1>5. ASSUME NEW g \in Goroutine, ArchiveFileName(g) PROVE ServerTypeOK'
  BY <1>5 DEF ArchiveFileName
<1>6. ASSUME NEW g \in Goroutine, Cp(g) PROVE ServerTypeOK'
  BY <1>6 DEF Cp
<1>7. ASSUME NEW g \in Goroutine, Open(g),
              UNCHANGED <<now, serverVars, askVars>> PROVE ServerTypeOK'
  BY <1>7 DEF Open
<1>8. ASSUME NEW g \in Goroutine, Write(g),
              UNCHANGED <<now, serverVars, askVars>> PROVE ServerTypeOK'
  BY <1>8 DEF Write
<1>9. ASSUME NEW g \in Goroutine, List(g),
              UNCHANGED <<now, serverVars, askVars>> PROVE ServerTypeOK'
  BY <1>9 DEF List
<1>10. ASSUME NEW g \in Goroutine, Remove(g),
              UNCHANGED <<now, serverVars, askVars>> PROVE ServerTypeOK'
  BY <1>10 DEF Remove
<1>11. ASSUME NEW g \in Goroutine, Pruned(g),
              UNCHANGED <<now, serverVars, askVars>> PROVE ServerTypeOK'
  BY <1>11 DEF Pruned
<1>12. ASSUME NEW g \in Goroutine, Upload(g) PROVE ServerTypeOK'
  BY <1>12 DEF Upload
<1>13. ASSUME Server PROVE ServerTypeOK'
  BY <1>13 DEF Server, Change, SaveBegins, SaveEnds, ServerRestarts
<1>14. ASSUME Time PROVE ServerTypeOK'
  BY <1>14 DEF Time
<1>15. ASSUME UNCHANGED vars PROVE ServerTypeOK'
  BY <1>15 DEF vars
<1>16. QED
  BY <1>1, <1>2, <1>3, <1>4, <1>5, <1>6, <1>7, <1>8,
     <1>9, <1>10, <1>11, <1>12, <1>13, <1>14, <1>15
     DEF Next, Step, RetainLocalCopy, CopyStep

(* What waitForSave compares and counts. *)
LEMMA AskTypeStep == ASSUME TypeOK, [Next]_vars PROVE AskTypeOK'
<1>0. MaxPolls \in Nat
  BY Constants
<1> USE DEF TypeOK, AskTypeOK, askVars, ServerTypeOK, Leave, Again
<1>1. ASSUME NEW g \in Goroutine, LastSave(g) PROVE AskTypeOK'
  <2>1. \A reply \in Replies : reply \in Nat \cup {ErrorReply}
    BY DEF Replies
  <2>2. UNCHANGED polls /\ before' \in [Goroutine -> Nat \cup {ErrorReply}]
    BY <1>1, <2>1 DEF LastSave
  <2>3. asked' \in [Goroutine -> Nat] /\ clouded' \subseteq Goroutine
    BY <1>1 DEF LastSave
  <2>4. QED
    BY <2>2, <2>3
<1>2. ASSUME NEW g \in Goroutine, BgSave(g) PROVE AskTypeOK'
  BY <1>2 DEF BgSave
<1>3. ASSUME NEW g \in Goroutine, Poll(g) PROVE AskTypeOK'
  BY <1>0, <1>3 DEF Poll, Differs, GiveUp
<1>4. ASSUME NEW g \in Goroutine, TimedOut(g) PROVE AskTypeOK'
  BY <1>0, <1>4 DEF TimedOut, GiveUp
<1>5. ASSUME NEW g \in Goroutine, ArchiveFileName(g) PROVE AskTypeOK'
  BY <1>5 DEF ArchiveFileName
<1>6. ASSUME NEW g \in Goroutine, Cp(g) PROVE AskTypeOK'
  BY <1>6 DEF Cp
<1>7. ASSUME NEW g \in Goroutine, Open(g),
              UNCHANGED <<now, serverVars, askVars>> PROVE AskTypeOK'
  BY <1>7 DEF Open
<1>8. ASSUME NEW g \in Goroutine, Write(g),
              UNCHANGED <<now, serverVars, askVars>> PROVE AskTypeOK'
  BY <1>8 DEF Write
<1>9. ASSUME NEW g \in Goroutine, List(g),
              UNCHANGED <<now, serverVars, askVars>> PROVE AskTypeOK'
  BY <1>9 DEF List
<1>10. ASSUME NEW g \in Goroutine, Remove(g),
              UNCHANGED <<now, serverVars, askVars>> PROVE AskTypeOK'
  BY <1>10 DEF Remove
<1>11. ASSUME NEW g \in Goroutine, Pruned(g),
              UNCHANGED <<now, serverVars, askVars>> PROVE AskTypeOK'
  BY <1>11 DEF Pruned
<1>12. ASSUME NEW g \in Goroutine, Upload(g) PROVE AskTypeOK'
  BY <1>12 DEF Upload
<1>13. ASSUME Server PROVE AskTypeOK'
  BY <1>13 DEF Server, Change, SaveBegins, SaveEnds, ServerRestarts
<1>14. ASSUME Time PROVE AskTypeOK'
  BY <1>14 DEF Time
<1>15. ASSUME UNCHANGED vars PROVE AskTypeOK'
  BY <1>15 DEF vars
<1>16. QED
  BY <1>1, <1>2, <1>3, <1>4, <1>5, <1>6, <1>7, <1>8,
     <1>9, <1>10, <1>11, <1>12, <1>13, <1>14, <1>15
     DEF Next, Step, RetainLocalCopy, CopyStep

LEMMA TypeStep == ASSUME TypeOK, [Next]_vars PROVE TypeOK'
<1>1. now' \in Nat
  BY DEF TypeOK, Next, Step, LastSave, BgSave, Poll, Differs, GiveUp, TimedOut,
     ArchiveFileName, Cp,
         RetainLocalCopy, Upload, Server, Time, Tick, vars
<1>2. QED
  BY <1>1, PcStep, LocalTypeStep, ServerTypeStep, AskTypeStep DEF TypeOK
-----------------------------------------------------------------------------
(* The clock does not go back. *)
LEMMA NowStep == ASSUME TypeOK, now >= Start, [Next]_vars PROVE now' >= Start
<1>1. now \in Nat /\ Start \in Nat
  BY Constants DEF TypeOK
<1>2. now' = now \/ now' = now + 1
  BY DEF Next, Step, LastSave, BgSave, Poll, Differs, GiveUp, TimedOut, ArchiveFileName, Cp,
         RetainLocalCopy, Upload, Server, Time, Tick, vars
<1>3. QED
  BY <1>1, <1>2

(* What a step of goroutine g may do to names and steps: only              *)
(* ArchiveFileName names an archive, and nobody returns to before it.      *)
LEMMA NameEffect ==
    ASSUME TypeOK, NEW g \in Goroutine, Step(g)
    PROVE  /\ \A h \in Goroutine \ {g} : pc'[h] = pc[h] /\ name'[h] = name[h]
           /\ \/ pc[g] = "name" /\ pc'[g] \in {"cp", "failed"} /\ name'[g] \in {now, name[g]}
                 /\ (pc'[g] = "cp" => name'[g] = now)
              \/ /\ name'[g] = name[g]
                 /\ \/ pc[g] \in Early /\ pc'[g] \in Early \cup {"failed"}
                    \/ pc[g] \in Named /\ pc'[g] \in Named \cup {"failed"}
<1>a. pc \in [Goroutine -> Steps] /\ name \in [Goroutine -> Int]
  BY DEF TypeOK, LocalTypeOK
<1> USE <1>a DEF Goto, Fail, Leave, Again, Early, Named
<1>1. CASE LastSave(g)
  BY <1>1 DEF LastSave
<1>2. CASE BgSave(g)
  BY <1>2 DEF BgSave
<1>3. CASE Poll(g)
  BY <1>3 DEF Poll, Differs, GiveUp
<1>4. CASE TimedOut(g)
  BY <1>4 DEF TimedOut, GiveUp
<1>5. CASE ArchiveFileName(g)
  BY <1>5 DEF ArchiveFileName
<1>6. CASE Cp(g)
  BY <1>6 DEF Cp, Retain
<1>7. CASE Open(g)
  BY <1>7 DEF Open
<1>8. CASE Write(g)
  BY <1>8 DEF Write
<1>9. CASE List(g)
  BY <1>9 DEF List
<1>10. CASE Remove(g)
  BY <1>10 DEF Remove
<1>11. CASE Pruned(g)
  BY <1>11 DEF Pruned
<1>12. CASE Upload(g)
  BY <1>12 DEF Upload
<1>13. QED
  BY <1>1, <1>2, <1>3, <1>4, <1>5, <1>6, <1>7, <1>8, <1>9, <1>10, <1>11, <1>12
     DEF Step, RetainLocalCopy, CopyStep

(* The server and the clock leave the goroutines alone. *)
LEMMA OtherSteps ==
    ASSUME [Next]_vars
    PROVE  (\E g \in Goroutine : Step(g)) \/ UNCHANGED <<pc, name, snap, localVars>>
BY DEF Next, Server, Time, vars

LEMMA NamingStep == ASSUME TypeOK, Naming, [Next]_vars PROVE Naming'
<1>1. now' >= Start
  BY NowStep DEF Naming
<1>2. CASE UNCHANGED <<pc, name, snap, localVars>>
  BY <1>1, <1>2 DEF Naming
<1>3. ASSUME NEW g \in Goroutine, Step(g) PROVE Naming'
  <2>1. ASSUME NEW h \in Goroutine, pc'[h] \in Early PROVE name'[h] = Unnamed
    BY <1>3, <2>1, NameEffect DEF Naming, Early, Named
  <2>2. ASSUME NEW h \in Goroutine, pc'[h] \in Named PROVE name'[h] >= Start
    <3>1. CASE h # g
      BY <1>3, <2>2, <3>1, NameEffect DEF Naming
    <3>2. CASE h = g /\ pc[g] = "name"
      <4>1. name'[g] = now
        BY <1>3, <2>2, <3>2, NameEffect DEF Named, Early
      <4>2. QED
        BY <4>1, <3>2 DEF Naming
    <3>3. CASE h = g /\ pc[g] # "name"
      <4>1. name'[g] = name[g] /\ pc[g] \in Named
        BY <1>3, <2>2, <3>3, NameEffect DEF Named, Early
      <4>2. QED
        BY <4>1, <3>3 DEF Naming
    <3>4. QED
      BY <3>1, <3>2, <3>3
  <2>3. QED
    BY <1>1, <2>1, <2>2 DEF Naming
<1>4. QED
  BY <1>2, <1>3, OtherSteps

(* A name that is unique after a step of this kind was unique before it. *)
LEMMA UniqueBefore ==
    ASSUME TypeOK, Naming, [Next]_vars, NEW g \in Goroutine, name[g] >= Start, Unique(g)'
    PROVE  name'[g] = name[g] /\ Unique(g)
<1>1. name[g] # Unnamed
  BY Constants DEF Unnamed
<1>2. CASE UNCHANGED <<pc, name, snap, localVars>>
  BY <1>2 DEF Unique
<1>3. ASSUME NEW h \in Goroutine, Step(h) PROVE name'[g] = name[g] /\ Unique(g)
  <2>1. pc[h] = "name" => name[h] = Unnamed
    BY DEF Naming, Early
  <2>2. name'[g] = name[g]
    BY <1>1, <1>3, <2>1, NameEffect
  <2>3. ASSUME NEW i \in Goroutine, name[i] = name[g] PROVE i = g
    <3>1. name'[i] = name[i]
      BY <1>1, <1>3, <2>1, <2>3, NameEffect
    <3>2. QED
      BY <2>2, <2>3, <3>1 DEF Unique
  <2>4. QED
    BY <2>2, <2>3 DEF Unique
<1>4. QED
  BY <1>2, <1>3, OtherSteps
-----------------------------------------------------------------------------
(* A step of g that changes nothing in the directory, or only removes      *)
(* files, and does not end a write. *)
LEMMA FilesShrink ==
    ASSUME TypeOK, Naming, Files, NEW g \in Goroutine, Step(g), dir' \subseteq dir,
           \A f \in dir' : g \notin f.open
    PROVE  Files'
<1>1. IsFiniteSet(dir')
  BY FS_Subset DEF Files
<1>2. \A f, h \in dir' : f.name = h.name => f = h
  BY DEF Files
<1>3. ASSUME NEW f \in dir' PROVE (OldFile(f) \/ NewFile(f))'
  <2>1. CASE OldFile(f)
    BY <2>1 DEF OldFile
  <2>2. CASE NewFile(f)
    <3>1. PICK h \in Goroutine : name[h] = f.name
      BY <2>2 DEF NewFile
    <3>2. name[h] >= Start
      BY <2>2, <3>1 DEF NewFile
    <3>3. name[h] # Unnamed
      BY <3>2, Constants DEF Unnamed
    <3>4. name'[h] = name[h]
      BY <3>3, NameEffect DEF Naming, Early
    <3>5. QED
      BY <2>2, <3>1, <3>4 DEF NewFile
  <2>3. QED
    BY <2>1, <2>2 DEF Files
<1>4. ASSUME NEW f \in dir', NEW h \in f.open PROVE name'[h] = f.name /\ pc'[h] = "write"
  <2>1. name[h] = f.name /\ pc[h] = "write" /\ h # g
    BY <1>4 DEF Files
  <2>2. h \in Goroutine
    BY DEF TypeOK, LocalTypeOK, File
  <2>3. QED
    BY <2>1, <2>2, NameEffect
<1>5. QED
  BY <1>1, <1>2, <1>3, <1>4 DEF Files

(* Open leaves the other files alone and puts a file of its own. *)
LEMMA OpenEffect ==
    ASSUME TypeOK, Naming, Files, NEW g \in Goroutine, Open(g), pc'[g] = "write"
    PROVE  \E new :
             /\ dir' = Others(name[g]) \cup {new}
             /\ new.name = name[g] /\ new.mtime = now /\ g \in new.open
             /\ \A h \in new.open \ {g} :
                    \E f \in dir : f.name = name[g] /\ h \in f.open
             /\ Unique(g) => new.open = {g} /\ ~new.mixed
<1> DEFINE busy == UNION {f.open : f \in At(name[g])}
           new == [name |-> name[g], mtime |-> now, snap |-> snap[g],
                   whole |-> FALSE, open |-> busy \cup {g}, mixed |-> busy # {}]
<1>1. dir' = Others(name[g]) \cup {new}
  BY DEF Open, Goto, TypeOK
<1>2. new.name = name[g] /\ new.mtime = now /\ new.open = busy \cup {g}
  OBVIOUS
<1>3. new.mixed = (busy # {})
  OBVIOUS
<1>4. ASSUME NEW h \in busy PROVE \E f \in dir : f.name = name[g] /\ h \in f.open
  BY <1>4 DEF At
<1>5. ASSUME Unique(g) PROVE busy = {}
  <2>1. ASSUME NEW h \in busy PROVE FALSE
    <3>1. PICK f \in dir : f.name = name[g] /\ h \in f.open
      BY <1>4, <2>1
    <3>2. name[h] = name[g] /\ pc[h] = "write"
      BY <3>1 DEF Files
    <3>3. h \in Goroutine
      BY <3>1 DEF TypeOK, LocalTypeOK, File
    <3>4. h = g
      BY <1>5, <3>2, <3>3 DEF Unique
    <3>5. QED
      BY <3>2, <3>4 DEF Open
  <2>2. QED
    BY <2>1
<1>6. QED
  <2> HIDE DEF busy, new
  <2>1. Unique(g) => new.open = {g} /\ ~new.mixed
    BY <1>2, <1>3, <1>5
  <2>2. g \in new.open /\ \A h \in new.open \ {g} : h \in busy
    BY <1>2
  <2>3. QED
    BY <1>1, <1>2, <1>4, <2>1, <2>2

(* Write replaces the one file g has open by the same one closed; if it is *)
(* not there any more, nothing happens to the directory. *)
LEMMA WriteEffect ==
    ASSUME TypeOK, Files, NEW g \in Goroutine, Write(g)
    PROVE  \/ dir' = dir /\ \A f \in dir : g \notin f.open
           \/ \E f \in dir : \E c :
                /\ f.name = name[g] /\ g \in f.open
                /\ dir' = (dir \ {f}) \cup {c}
                /\ c.name = f.name /\ c.mtime = now /\ c.open = f.open \ {g}
                /\ c.snap = snap[g]
                /\ pc'[g] = "list" /\ f.open = {g} /\ ~f.mixed => c.whole = TRUE
<1>1. PICK ok \in BOOLEAN :
          /\ dir' = (dir \ Mine(g)) \cup {Closed(f, g, ok, now) : f \in Mine(g)}
          /\ pc'[g] = "list" => ((\A f \in Mine(g) : f.open = {g} /\ ~f.mixed) => ok)
  BY DEF Write, Goto, TypeOK
<1>2. \A f \in dir : g \in f.open => f \in Mine(g)
  BY DEF Files, Mine, At
<1>3. CASE Mine(g) = {}
  BY <1>1, <1>2, <1>3
<1>4. CASE Mine(g) # {}
  <2>1. PICK f \in Mine(g) : TRUE
    BY <1>4
  <2>2. f \in dir /\ f.name = name[g] /\ g \in f.open
    BY DEF Mine, At
  <2>3. Mine(g) = {f}
    BY <2>2 DEF Mine, At, Files
  <2> DEFINE c == Closed(f, g, ok, now)
  <2>4. dir' = (dir \ {f}) \cup {c}
    BY <1>1, <2>3
  <2>5. f \in File
    BY <2>2 DEF TypeOK, LocalTypeOK
  <2>6. /\ c.name = f.name /\ c.mtime = now /\ c.open = f.open \ {g}
        /\ c.snap = snap[g]
    BY <2>5 DEF Closed, File
  <2>7. c.whole = ok
    BY <2>5 DEF Closed, File
  <2> HIDE DEF c
  <2>8. pc'[g] = "list" /\ f.open = {g} /\ ~f.mixed => c.whole = TRUE
    BY <1>1, <2>3, <2>7
  <2>9. QED
    BY <2>2, <2>4, <2>6, <2>8
<1>5. QED
  BY <1>3, <1>4

\* The other steps only remove files, and are not those of a writer.
LEMMA OtherDirSteps ==
    ASSUME NEW g \in Goroutine, Step(g), ~Open(g), ~Write(g)
    PROVE  dir' \subseteq dir /\ pc[g] # "write" /\ (pc[g] # "prune" => dir' = dir)
BY DEF Step, RetainLocalCopy, CopyStep, LastSave, BgSave, Poll, Differs, GiveUp,
   TimedOut, ArchiveFileName,
       Cp, List, Remove, Pruned, Upload, Others, localVars

LEMMA FilesStep == ASSUME TypeOK, Naming, Files, [Next]_vars PROVE Files'
<1>1. CASE UNCHANGED <<pc, name, snap, localVars>>
  BY <1>1 DEF Files, OldFile, NewFile, localVars
<1>2. ASSUME NEW g \in Goroutine, Step(g), ~Open(g), ~Write(g) PROVE Files'
  <2>1. dir' \subseteq dir /\ pc[g] # "write"
    BY <1>2, OtherDirSteps
  <2>2. \A f \in dir' : g \notin f.open
    BY <2>1 DEF Files
  <2>3. QED
    BY <1>2, <2>1, <2>2, FilesShrink
<1>3. ASSUME NEW g \in Goroutine, Step(g), Open(g), dir' = dir PROVE Files'
  <2>1. \A f \in dir' : g \notin f.open
    BY <1>3 DEF Files, Open
  <2>2. QED
    BY <1>3, <2>1, FilesShrink
<1>4. ASSUME NEW g \in Goroutine, Step(g), Open(g), pc'[g] = "write" PROVE Files'
  <2>1. PICK new :
             /\ dir' = Others(name[g]) \cup {new}
             /\ new.name = name[g] /\ new.mtime = now /\ g \in new.open
             /\ \A h \in new.open \ {g} :
                    \E f \in dir : f.name = name[g] /\ h \in f.open
    BY <1>4, OpenEffect
  <2>2. UNCHANGED <<name, now>> /\ \A h \in Goroutine \ {g} : pc'[h] = pc[h]
    <3>1. name' = name
      BY <1>4 DEF Open
    <3>2. now' = now
      BY <1>4 DEF Open, Step, RetainLocalCopy, LastSave, BgSave, Poll, Differs, GiveUp,
         TimedOut, ArchiveFileName, Cp, Upload
    <3>3. QED
      BY <1>4, <3>1, <3>2, NameEffect
  <2>3. /\ Others(name[g]) \subseteq dir
        /\ \A f \in Others(name[g]) : f.name # name[g]
    BY DEF Others, At
  <2>4. IsFiniteSet(dir')
    <3>1. IsFiniteSet(Others(name[g]))
      BY <2>3, FS_Subset DEF Files
    <3>2. QED
      BY <2>1, <3>1, FS_AddElement
  <2>5. \A f, h \in dir' : f.name = h.name => f = h
    BY <2>1, <2>3 DEF Files
  <2>6. ASSUME NEW f \in dir' PROVE (OldFile(f) \/ NewFile(f))'
    <3>1. CASE f \in dir
      BY <2>2, <3>1 DEF Files, OldFile, NewFile
    <3>2. CASE f = new
      <4>1. name[g] >= Start /\ now >= Start
        BY <1>4 DEF Naming, Open, Named
      <4>2. QED
        BY <2>1, <2>2, <3>2, <4>1 DEF NewFile
    <3>3. QED
      BY <2>1, <2>3, <3>1, <3>2
  <2>7. ASSUME NEW f \in dir, NEW h \in f.open
        PROVE  name'[h] = f.name /\ pc'[h] = "write"
    <3>1. name[h] = f.name /\ pc[h] = "write" /\ h # g
      BY <1>4 DEF Files, Open
    <3>2. h \in Goroutine
      BY DEF TypeOK, LocalTypeOK, File
    <3>3. QED
      BY <2>2, <3>1, <3>2
  <2>8. ASSUME NEW h \in new.open PROVE name'[h] = new.name /\ pc'[h] = "write"
    <3>1. CASE h = g
      BY <1>4, <2>1, <2>2, <3>1
    <3>2. CASE h # g
      BY <2>1, <2>7, <2>8, <3>2
    <3>3. QED
      BY <3>1, <3>2
  <2>9. \A f \in dir' : \A h \in f.open : name'[h] = f.name /\ pc'[h] = "write"
    BY <2>1, <2>3, <2>7, <2>8
  <2>10. QED
    BY <2>4, <2>5, <2>6, <2>9 DEF Files
<1>5. ASSUME NEW g \in Goroutine, Step(g), Write(g) PROVE Files'
  <2>1. CASE dir' = dir /\ \A f \in dir : g \notin f.open
    BY <1>5, <2>1, FilesShrink
  <2>2. ASSUME NEW f \in dir, NEW c,
               /\ f.name = name[g] /\ g \in f.open
               /\ dir' = (dir \ {f}) \cup {c}
               /\ c.name = f.name /\ c.mtime = now /\ c.open = f.open \ {g}
        PROVE  Files'
    <3>1. UNCHANGED <<name, now>> /\ \A h \in Goroutine \ {g} : pc'[h] = pc[h]
      <4>1. name' = name
        BY <1>5 DEF Write
      <4>2. now' = now
        BY <1>5 DEF Write, Step, RetainLocalCopy, LastSave, BgSave, Poll, Differs,
           GiveUp, TimedOut, ArchiveFileName, Cp, Upload
      <4>3. QED
        BY <1>5, <4>1, <4>2, NameEffect
    <3>2. IsFiniteSet(dir')
      <4>1. IsFiniteSet(dir \ {f})
        BY FS_RemoveElement DEF Files
      <4>2. QED
        BY <2>2, <4>1, FS_AddElement
    <3>3. \A k, h \in dir' : k.name = h.name => k = h
      BY <2>2 DEF Files
    <3>4. ASSUME NEW k \in dir' PROVE (OldFile(k) \/ NewFile(k))'
      <4>1. CASE k \in dir
        BY <3>1, <4>1 DEF Files, OldFile, NewFile
      <4>2. CASE k = c
        <5>1. name[g] >= Start /\ now >= Start
          BY <1>5 DEF Naming, Write, Named
        <5>2. QED
          BY <2>2, <3>1, <4>2, <5>1 DEF NewFile
      <4>3. QED
        BY <2>2, <4>1, <4>2
    <3>5. ASSUME NEW k \in dir \ {f}, NEW h \in k.open
          PROVE  name'[h] = k.name /\ pc'[h] = "write"
      <4>1. name[h] = k.name /\ pc[h] = "write"
        BY DEF Files
      <4>2. h # g
        BY <2>2, <4>1 DEF Files
      <4>3. h \in Goroutine
        BY DEF TypeOK, LocalTypeOK, File
      <4>4. QED
        BY <3>1, <4>1, <4>2, <4>3
    <3>6. ASSUME NEW h \in c.open PROVE name'[h] = c.name /\ pc'[h] = "write"
      <4>1. h \in f.open /\ h # g
        BY <2>2, <3>6
      <4>2. name[h] = f.name /\ pc[h] = "write"
        BY <4>1 DEF Files
      <4>3. h \in Goroutine
        BY <4>1 DEF TypeOK, LocalTypeOK, File
      <4>4. QED
        BY <2>2, <3>1, <4>1, <4>2, <4>3
    <3>7. \A k \in dir' : \A h \in k.open : name'[h] = k.name /\ pc'[h] = "write"
      BY <2>2, <3>5, <3>6
    <3>8. QED
      BY <3>2, <3>3, <3>4, <3>7 DEF Files
  <2>3. QED
    BY <1>5, <2>1, <2>2, WriteEffect
<1>6. ASSUME NEW g \in Goroutine, Open(g) PROVE dir' = dir \/ pc'[g] = "write"
  BY <1>6 DEF Open, Goto, TypeOK
<1>7. QED
  BY <1>1, <1>2, <1>3, <1>4, <1>5, <1>6, OtherSteps
-----------------------------------------------------------------------------
LEMMA FileTypes ==
    ASSUME TypeOK
    PROVE  /\ Start \in Int
           /\ \A f \in dir : f.name \in Int /\ f.mtime \in Int
           /\ \A g \in Goroutine : \A f \in todo[g] : f.name \in Int
<1>1. Start \in Int
  BY Constants
<1>2. dir \subseteq File /\ \A g \in Goroutine : todo[g] \subseteq File
  BY DEF TypeOK, LocalTypeOK
<1>3. \A f \in File : f.name \in Int /\ f.mtime \in Int
  BY DEF File
<1>4. QED
  BY <1>1, <1>2, <1>3

(* There are at most as many new files as goroutines. *)
LEMMA FewNew ==
    ASSUME Files, NEW S, S \subseteq dir, \A f \in S : f.name >= Start /\ ~OldFile(f)
    PROVE  Cardinality(S) <= Cardinality(Goroutine)
<1> DEFINE owner == [f \in S |-> CHOOSE g \in Goroutine : name[g] = f.name]
<1>1. \A f \in S : owner[f] \in Goroutine /\ name[owner[f]] = f.name
  BY DEF Files, NewFile
<1>2. ASSUME NEW f \in S, NEW h \in S, owner[f] = owner[h] PROVE f = h
  BY <1>1, <1>2 DEF Files
<1>3. owner \in [S -> Goroutine]
  BY <1>1
<1> HIDE DEF owner
<1>4. owner \in Injection(S, Goroutine)
  BY <1>2, <1>3 DEF Injection, IsInjective
<1>5. QED
  BY <1>4, Constants, FS_Injection

LEMMA OnlyOlderStep == ASSUME TypeOK, Files, OnlyOlder, [Next]_vars PROVE OnlyOlder'
<1>1. CASE UNCHANGED todo
  BY <1>1 DEF OnlyOlder, Enough
<1>2. ASSUME NEW g \in Goroutine, Remove(g) PROVE OnlyOlder'
  <2>1. /\ \A h \in Goroutine \ {g} : todo'[h] = todo[h]
        /\ todo'[g] \subseteq todo[g]
    BY <1>2 DEF Remove, TypeOK, LocalTypeOK
  <2>2. QED
    BY <2>1 DEF OnlyOlder, Enough
<1>3. ASSUME NEW g \in Goroutine, List(g), Enough PROVE OnlyOlder'
  <2>1. SUFFICES ASSUME NEW rest \in SUBSET dir, FilesToPrune(rest),
                        NEW f \in rest, f.name >= Start
                 PROVE  FALSE
    <3>1. /\ \A h \in Goroutine \ {g} : todo'[h] = todo[h]
          /\ todo'[g] = todo[g] \/ \E rest \in SUBSET dir : FilesToPrune(rest) /\ todo'[g] = rest
      BY <1>3 DEF List, TypeOK, LocalTypeOK
    <3>2. \A k \in dir : k.name \in Int /\ Start \in Int
      BY FileTypes
    <3>3. \A rest \in SUBSET dir : FilesToPrune(rest) => \A k \in rest : k.name < Start
      BY <2>1, <3>2
    <3>4. QED
      BY <1>3, <3>1, <3>3 DEF OnlyOlder
  <2>2. /\ Cardinality(dir \ rest) = KeepLocal
        /\ \A k \in dir \ rest : f.mtime <= k.mtime
    BY <2>1 DEF FilesToPrune, Beyond
  <2>3. f \in dir /\ f.name \in Int /\ Start \in Int
    BY <2>1, FileTypes
  <2>4. ~OldFile(f) /\ f.mtime >= Start
    BY <2>1, <2>3 DEF Files, OldFile, NewFile
  <2>5. ASSUME NEW k \in dir \ rest PROVE k.name >= Start /\ ~OldFile(k)
    <3>1. k.mtime \in Int /\ f.mtime \in Int /\ f.mtime <= k.mtime
      BY <2>2, <2>3, FileTypes
    <3>2. ~(k.mtime < Start)
      BY <2>3, <2>4, <3>1
    <3>3. QED
      BY <3>2 DEF Files, OldFile, NewFile
  <2>6. Cardinality((dir \ rest) \cup {f}) <= Cardinality(Goroutine)
    BY <2>1, <2>3, <2>4, <2>5, FewNew
  <2>7. IsFiniteSet(dir \ rest)
    BY FS_Subset DEF Files
  <2>8. Cardinality((dir \ rest) \cup {f}) = KeepLocal + 1
    BY <2>1, <2>2, <2>7, FS_AddElement
  <2>9. Cardinality(Goroutine) \in Nat /\ KeepLocal \in Nat
    BY Constants, FS_CardinalityType
  <2>10. QED
    BY <1>3, <2>6, <2>8, <2>9 DEF Enough
<1>4. ASSUME ~Enough PROVE OnlyOlder'
  BY <1>4 DEF OnlyOlder, Enough
<1>5. QED
  <2>1. \/ UNCHANGED todo
        \/ \E g \in Goroutine : Remove(g) \/ List(g)
    BY DEF Next, Step, LastSave, BgSave, Poll, Differs, GiveUp, TimedOut,
       ArchiveFileName, Cp, Upload,
           RetainLocalCopy, CopyStep, Open, Write, Pruned, Server, Time, vars, localVars
  <2>2. QED
    BY <1>1, <1>2, <1>3, <1>4, <2>1
-----------------------------------------------------------------------------
(* With a large enough floor, the file of another name that this command   *)
(* has written stays, whatever g does. *)
LEMMA FileStays ==
    ASSUME TypeOK, Files, OnlyOlder, Enough, NEW g \in Goroutine, Step(g),
           NEW f \in dir, f.name >= Start,
           f.name # name[g] \/ pc[g] \notin {"open", "write"}
    PROVE  f \in dir'
<1>1. ASSUME ~Open(g), ~Write(g), pc[g] # "prune" PROVE f \in dir'
  BY <1>1, OtherDirSteps
<1>2. CASE Open(g)
  <2>1. f.name # name[g]
    BY <1>2 DEF Open
  <2>2. QED
    BY <1>2, <2>1 DEF Open, Others, At
<1>3. CASE Write(g)
  <2>1. f.name # name[g]
    BY <1>3 DEF Write
  <2>2. QED
    BY <1>3, <2>1, WriteEffect
<1>4. CASE Remove(g)
  <2>1. PICK k \in todo[g] : dir' = dir \/ dir' = Others(k.name)
    BY <1>4 DEF Remove
  <2>2. k.name < Start /\ k.name \in Int /\ Start \in Int
    BY <2>1, FileTypes DEF OnlyOlder
  <2>3. k.name # f.name
    BY <2>2
  <2>4. QED
    BY <2>1, <2>3 DEF Others, At
<1>5. CASE pc[g] = "prune" /\ ~Remove(g)
  BY <1>5 DEF Step, RetainLocalCopy, CopyStep, LastSave, BgSave, Poll, Differs, GiveUp,
     TimedOut, ArchiveFileName, Cp, Open, Write, List, Pruned, Upload, localVars
<1>6. QED
  BY <1>1, <1>2, <1>3, <1>4, <1>5 DEF Remove

LEMMA WritingStep ==
    ASSUME TypeOK, Naming, Files, OnlyOlder, Writing, [Next]_vars PROVE Writing'
<1>1. CASE UNCHANGED <<pc, name, snap, localVars>>
  BY <1>1 DEF Writing, Unique, Enough, localVars
<1>2. SUFFICES ASSUME NEW g \in Goroutine, Step(g), NEW h \in Goroutine,
                      pc'[h] = "write", Enough, Unique(h)'
               PROVE  \E f \in dir' : f.name = name'[h] /\ f.open = {h} /\ ~f.mixed
  BY <1>1, OtherSteps DEF Writing, Enough
<1>3. CASE h # g
  <2>1. pc[h] = "write"
    BY <1>2, <1>3, NameEffect
  <2>2. name[h] >= Start
    BY <2>1 DEF Naming, Named
  <2>3. name'[h] = name[h] /\ Unique(h)
    BY <1>2, <2>2, UniqueBefore
  <2>4. PICK f \in dir : f.name = name[h] /\ f.open = {h} /\ ~f.mixed
    BY <1>2, <2>1, <2>3 DEF Writing
  <2>5. f.name # name[g]
    BY <1>3, <2>3, <2>4 DEF Unique
  <2>6. f \in dir'
    BY <1>2, <2>2, <2>4, <2>5, FileStays
  <2>7. QED
    BY <2>3, <2>4, <2>6
<1>4. CASE h = g
  <2>1. Open(g)
    BY <1>2, <1>4 DEF Step, RetainLocalCopy, CopyStep, LastSave, BgSave, Poll, Differs,
       GiveUp, TimedOut, ArchiveFileName, Cp, Write, List, Remove, Pruned, Upload, Goto,
       Fail, Leave, Again,
       Retain, TypeOK
  <2>2. name[g] >= Start
    BY <2>1 DEF Open, Naming, Named
  <2>3. name'[g] = name[g] /\ Unique(g)
    BY <1>2, <1>4, <2>2, UniqueBefore
  <2>4. PICK new :
             /\ dir' = Others(name[g]) \cup {new} /\ new.name = name[g]
             /\ Unique(g) => new.open = {g} /\ ~new.mixed
    BY <1>2, <1>4, <2>1, OpenEffect
  <2>5. QED
    BY <1>4, <2>3, <2>4
<1>5. QED
  BY <1>3, <1>4

(* Once a local copy is complete, only uploads and prunes follow. *)
LEMMA PastStep ==
    ASSUME TypeOK, NEW g \in Goroutine, Step(g), pc[g] \in Past
    PROVE  pc'[g] \in Past /\ snap' = snap /\ name' = name /\ copied' = copied
BY DEF Past, Step, RetainLocalCopy, CopyStep, LastSave, BgSave, Poll, Differs, GiveUp,
   TimedOut, ArchiveFileName, Cp, Open, Write, List, Remove, Pruned, Upload, Goto, Fail, TypeOK,
       localVars

LEMMA KeptStep ==
    ASSUME TypeOK, Naming, Files, OnlyOlder, Writing, Kept, [Next]_vars PROVE Kept'
<1>1. CASE UNCHANGED <<pc, name, snap, localVars>>
  BY <1>1 DEF Kept, Unique, Enough, localVars
<1>2. ASSUME NEW g \in Goroutine, Step(g), NEW h \in copied
      PROVE  /\ pc'[h] \in Past /\ name'[h] >= Start
             /\ Enough /\ Unique(h)' =>
                  \E f \in dir' : f.name = name'[h] /\ f.whole /\ f.snap = snap'[h]
  <2>0. h \in Goroutine /\ pc[h] \in Past /\ name[h] >= Start
    BY DEF Kept, TypeOK, LocalTypeOK
  <2>1. name'[h] = name[h]
    <3>1. name[h] # Unnamed
      BY <2>0, Constants DEF Unnamed
    <3>2. QED
      BY <1>2, <2>0, <3>1, NameEffect DEF Naming, Early
  <2>2. pc'[h] \in Past
    BY <1>2, <2>0, NameEffect, PastStep
  <2>3. ASSUME Enough, Unique(h)'
        PROVE  \E f \in dir' : f.name = name[h] /\ f.whole /\ f.snap = snap'[h]
    <3>1. Unique(h)
      BY <2>0, <2>3, UniqueBefore
    <3>2. PICK f \in dir : f.name = name[h] /\ f.whole /\ f.snap = snap[h]
      BY <2>3, <3>1 DEF Kept
    <3>3. f.name # name[g] \/ pc[g] \notin {"open", "write"}
      BY <2>0, <3>1, <3>2 DEF Unique, Past
    <3>4. f \in dir'
      BY <1>2, <2>0, <2>3, <3>2, <3>3, FileStays
    <3>5. snap'[h] = snap[h]
      <4>1. CASE h = g
        BY <1>2, <2>0, <4>1, PastStep
      <4>2. CASE h # g
        BY <1>2, <2>0, <4>2
           DEF Step, RetainLocalCopy, CopyStep, LastSave, BgSave, Poll, Differs, GiveUp,
              TimedOut, ArchiveFileName, Cp, Open, Write, List, Remove, Pruned, Upload, TypeOK,
               LocalTypeOK
      <4>3. QED
        BY <4>1, <4>2
    <3>6. QED
      BY <3>2, <3>4, <3>5
  <2>4. QED
    BY <2>0, <2>1, <2>2, <2>3
<1>3. ASSUME NEW g \in Goroutine, Step(g), g \in copied', g \notin copied
      PROVE  /\ pc'[g] \in Past /\ name'[g] >= Start
             /\ Enough /\ Unique(g)' =>
                  \E f \in dir' : f.name = name'[g] /\ f.whole /\ f.snap = snap'[g]
  <2>1. Write(g) /\ pc'[g] = "list"
    BY <1>3 DEF Step, RetainLocalCopy, CopyStep, LastSave, BgSave, Poll, Differs, GiveUp,
       TimedOut, ArchiveFileName, Cp, Open, Write, List, Remove, Pruned, Upload, Goto, TypeOK,
       localVars
  <2>2. pc[g] = "write" /\ name' = name /\ snap' = snap
    BY <2>1 DEF Write
  <2>3. name[g] >= Start
    BY <2>2 DEF Naming, Named
  <2>4. ASSUME Enough, Unique(g)'
        PROVE  \E f \in dir' : f.name = name[g] /\ f.whole /\ f.snap = snap[g]
    <3>1. Unique(g)
      BY <2>3, <2>4, UniqueBefore
    <3>2. PICK f \in dir : f.name = name[g] /\ f.open = {g} /\ ~f.mixed
      BY <2>2, <2>4, <3>1 DEF Writing
    <3>3. g \in f.open
      BY <3>2
    <3>4. PICK k \in dir : \E c :
                /\ k.name = name[g] /\ g \in k.open
                /\ dir' = (dir \ {k}) \cup {c}
                /\ c.name = k.name /\ c.mtime = now /\ c.open = k.open \ {g}
                /\ c.snap = snap[g]
                /\ pc'[g] = "list" /\ k.open = {g} /\ ~k.mixed => c.whole = TRUE
      BY <2>1, <3>2, <3>3, WriteEffect
    <3>5. k = f
      BY <3>2, <3>4 DEF Files
    <3>6. QED
      BY <2>1, <3>2, <3>4, <3>5
  <2>5. QED
    BY <2>1, <2>2, <2>3, <2>4 DEF Past
<1>4. ASSUME NEW g \in Goroutine, Step(g) PROVE copied' \subseteq copied \cup {g}
  BY <1>4 DEF Step, RetainLocalCopy, CopyStep, LastSave, BgSave, Poll, Differs, GiveUp,
     TimedOut, ArchiveFileName, Cp, Open, Write, List, Remove, Pruned, Upload, localVars
<1>5. ASSUME NEW g \in Goroutine, Step(g) PROVE Kept'
  BY <1>2, <1>3, <1>4, <1>5 DEF Kept, Enough
<1>6. QED
  BY <1>1, <1>5, OtherSteps
-----------------------------------------------------------------------------
LEMMA Order == ASSUME NEW a \in Nat, NEW b \in Nat, a <= b PROVE a <= b + 1
OBVIOUS

(* What Fresh asks for goroutine g. *)
FreshFor(g) ==
    /\ pc[g] \in {"bgsave", "poll", "name", "cp"} =>
         asked[g] <= data /\ (saving # Idle => asked[g] <= saving)
    /\ pc[g] \in {"bgsave", "poll"} => (lastsave # before[g] => asked[g] <= dump)
    /\ pc[g] \in {"name", "cp"} => asked[g] <= dump
    /\ HasDump(g) => asked[g] <= snap[g]

LEMMA FreshStep == ASSUME TypeOK, Fresh, [Next]_vars PROVE Fresh'
<1>1. SUFFICES ASSUME NEW g \in Goroutine, g \notin clouded' PROVE FreshFor(g)'
  BY DEF Fresh, FreshFor
<1>2. g \notin clouded => FreshFor(g)
  BY DEF Fresh, FreshFor
<1>3. asked[g] \in Nat /\ data \in Nat /\ dump \in Nat
  BY DEF TypeOK, AskTypeOK, ServerTypeOK
<1>4. CASE UNCHANGED vars \/ Time
  BY <1>1, <1>2, <1>4 DEF Time, vars, serverVars, askVars, FreshFor, HasDump
<1>5. CASE Server
  <2>1. UNCHANGED <<pc, snap, before, asked>>
    BY <1>5 DEF Server
  <2>2. CASE Change
    <3>1. data' = data + 1 /\ UNCHANGED <<saving, dump, lastsave, clouded>>
      BY <2>2 DEF Change
    <3>2. asked[g] <= data => asked[g] <= data'
      BY <1>3, <3>1, Order
    <3>3. QED
      BY <1>1, <1>2, <2>1, <3>1, <3>2 DEF FreshFor, HasDump
  <2>3. CASE SaveBegins
    BY <1>1, <1>2, <2>1, <2>3 DEF SaveBegins, FreshFor, HasDump
  <2>4. CASE SaveEnds
    BY <1>1, <1>2, <2>1, <2>4 DEF SaveEnds, FreshFor, HasDump
  <2>5. CASE ServerRestarts
    BY <1>1, <2>5 DEF ServerRestarts
  <2>6. QED
    BY <1>5, <2>2, <2>3, <2>4, <2>5 DEF Server
<1>6. ASSUME NEW h \in Goroutine, Step(h), h # g PROVE FreshFor(g)'
  <2>1. pc'[g] = pc[g] /\ snap'[g] = snap[g]
    BY <1>6 DEF Step, RetainLocalCopy, CopyStep, LastSave, BgSave, Poll, Differs, GiveUp,
       TimedOut, Leave,
       Again, ArchiveFileName, Cp, Open, Write, List, Remove, Pruned, Upload, Goto, Fail,
       TypeOK, LocalTypeOK
  <2>2. asked'[g] = asked[g] /\ before'[g] = before[g] /\ g \notin clouded
    BY <1>1, <1>6 DEF Step, RetainLocalCopy, CopyStep, LastSave, BgSave, Poll, Differs,
       GiveUp, TimedOut, Leave, Again, ArchiveFileName, Cp, Upload, askVars, TypeOK, AskTypeOK
  <2>3. UNCHANGED <<data, dump, lastsave>> /\ saving' \in {saving, data}
    BY <1>6 DEF Step, RetainLocalCopy, LastSave, BgSave, Poll, Differs, GiveUp, TimedOut,
       ArchiveFileName, Cp, Upload, serverVars
  <2>4. QED
    BY <1>2, <2>1, <2>2, <2>3 DEF FreshFor, HasDump
<1>7. CASE LastSave(g)
  <2>1. CASE pc'[g] = "failed"
    BY <2>1 DEF FreshFor, HasDump
  <2>2. CASE pc'[g] = "bgsave"
    <3>1. asked'[g] = data /\ before'[g] = lastsave /\ saving = Idle
      <4>1. PICK reply \in Replies :
              /\ before' = [before EXCEPT ![g] = reply]
              /\ clouded' = IF saving = Idle /\ reply = lastsave
                            THEN clouded \ {g} ELSE clouded \cup {g}
              /\ asked' = [asked EXCEPT ![g] = data]
        BY <1>7, <2>2 DEF LastSave, Goto, Fail, TypeOK
      <4>2. saving = Idle /\ reply = lastsave
        BY <1>1, <4>1
      <4>3. QED
        BY <4>1, <4>2 DEF TypeOK, AskTypeOK
    <3>2. UNCHANGED serverVars /\ data <= data
      BY <1>3, <1>7 DEF LastSave
    <3>3. QED
      BY <2>2, <3>1, <3>2 DEF FreshFor, HasDump, serverVars
  <2>3. QED
    BY <1>7, <2>1, <2>2 DEF LastSave, Goto, Fail, TypeOK
<1>8. CASE BgSave(g)
  <2>1. /\ pc[g] = "bgsave" /\ pc'[g] \in {"poll", "failed"} /\ saving' \in {saving, data}
        /\ UNCHANGED <<data, dump, lastsave, snap, askVars>>
    BY <1>8 DEF BgSave, Goto, Fail, TypeOK
  <2>2. QED
    BY <1>1, <1>2, <2>1 DEF FreshFor, HasDump, askVars
<1>9. CASE Poll(g) \/ TimedOut(g)
  <2>1. /\ pc[g] = "poll" /\ UNCHANGED <<data, dump, lastsave, saving, snap, asked>>
        /\ \/ pc'[g] = "name" /\ lastsave # before[g] /\ clouded' = clouded
           \/ pc'[g] = "poll" /\ before' = before /\ clouded' = clouded
           \/ pc'[g] = "failed" /\ clouded' = clouded
    BY <1>1, <1>9 DEF Poll, Differs, GiveUp, TimedOut, Leave, Again, Goto, serverVars,
       TypeOK
  <2>2. QED
    BY <1>1, <1>2, <2>1 DEF FreshFor, HasDump
<1>10. CASE ArchiveFileName(g)
  <2>1. /\ pc[g] = "name" /\ pc'[g] \in {"cp", "failed"}
        /\ UNCHANGED <<snap, serverVars, askVars>>
    BY <1>10 DEF ArchiveFileName, Goto, Fail, TypeOK
  <2>2. QED
    BY <1>1, <1>2, <2>1 DEF FreshFor, HasDump, serverVars, askVars
<1>11. CASE Cp(g)
  <2>1. /\ pc[g] = "cp" /\ UNCHANGED <<serverVars, askVars>>
        /\ \/ pc'[g] \in {"open", "upload"} /\ snap'[g] = dump
           \/ pc'[g] = "failed"
    BY <1>11 DEF Cp, Retain, Goto, Fail, TypeOK, LocalTypeOK
  <2>2. QED
    BY <1>1, <1>2, <2>1 DEF FreshFor, HasDump, serverVars, askVars
<1>12. CASE RetainLocalCopy(g) \/ Upload(g)
  <2>1. /\ HasDump(g) /\ pc'[g] \in
             {"write", "list", "prune", "upload", "success", "failed"}
        /\ UNCHANGED <<snap, serverVars, askVars>>
    BY <1>12 DEF RetainLocalCopy, CopyStep, Open, Write, List, Remove, Pruned, Upload,
       Goto, Fail, HasDump, TypeOK
  <2>2. QED
    BY <1>1, <1>2, <2>1 DEF FreshFor, HasDump, serverVars, askVars
<1>13. QED
  BY <1>4, <1>5, <1>6, <1>7, <1>8, <1>9, <1>10, <1>11, <1>12 DEF Next, Step
-----------------------------------------------------------------------------
LEMMA IInvStep == ASSUME IInv, [Next]_vars PROVE IInv'
BY TypeStep, NamingStep, FilesStep, OnlyOlderStep, WritingStep, KeptStep, FreshStep
   DEF IInv

THEOREM Invariance == Spec => []IInv
<1>1. Init => IInv
  BY InitIInv
<1>2. IInv /\ [Next]_vars => IInv'
  BY IInvStep
<1>3. QED
  BY <1>1, <1>2, PTL DEF Spec

(* Type correctness, for any number of goroutines and polls. *)
THEOREM TypeCorrect == Spec => []TypeOK
<1>1. IInv => TypeOK
  BY DEF IInv
<1>2. QED
  BY <1>1, Invariance, PTL

(* A backup archives a dataset at least as new as the one it was asked     *)
(* for, unless a save was under way when it began or the server was        *)
(* restarted (redis.go, backup and waitForSave).                           *)
THEOREM FreshSnapshots == Spec => []SnapshotIsFresh
<1>1. IInv => SnapshotIsFresh
  <2>1. ASSUME IInv, NEW g \in Goroutine, HasDump(g), g \notin clouded
        PROVE  snap[g] >= asked[g]
    <3>1. asked[g] <= snap[g]
      BY <2>1 DEF IInv, Fresh
    <3>2. asked[g] \in Nat /\ snap[g] \in Int
      BY <2>1 DEF IInv, TypeOK, AskTypeOK, LocalTypeOK
    <3>3. QED
      BY <3>1, <3>2
  <2>2. QED
    BY <2>1 DEF SnapshotIsFresh
<1>2. QED
  BY <1>1, Invariance, PTL

(* With a floor of one per goroutine or more, completed local copies stay, *)
(* however the prunes of the others interleave (local_retention.go).       *)
THEOREM CopiesSurvive == Spec => []CopySurvives
<1>1. IInv => CopySurvives
  BY DEF IInv, Kept, CopySurvives, Enough
<1>2. QED
  BY <1>1, Invariance, PTL
-----------------------------------------------------------------------------
(* How far a backup is. *)
Stage == [begin |-> 0, bgsave |-> 1, poll |-> 2, name |-> 3, cp |-> 4, open |-> 5,
          write |-> 6, list |-> 7, prune |-> 8, upload |-> 9, success |-> 10, failed |-> 10]

\* What others have counted, and have left to remove, stays as it is.
LeavesOthers(g) ==
    \A h \in Goroutine \ {g} : polls'[h] = polls[h] /\ todo'[h] = todo[h]

(* A goroutine moves on: to a later stage; or it has polled once more, of  *)
(* MaxPolls times; or has one file less to remove, of finitely many.       *)
BackupMovesOn(g) ==
    \/ /\ \E s \in Steps : pc' = [pc EXCEPT ![g] = s] /\ Stage[s] > Stage[pc[g]]
       /\ LeavesOthers(g)
    \/ /\ pc[g] = "poll" /\ UNCHANGED <<pc, todo>>
       /\ polls[g] < MaxPolls /\ polls' = [polls EXCEPT ![g] = @ + 1]
    \/ /\ pc[g] = "prune" /\ UNCHANGED <<pc, polls>>
       /\ \E f \in todo[g] : todo' = [todo EXCEPT ![g] = @ \ {f}]

(* What is left to be removed is finite. *)
FiniteTodo == \A g \in Goroutine : IsFiniteSet(todo[g])

(* waitForSave does not wait for a save, nor a prune for what others do:   *)
(* each step of a backup takes it further, and the server, other backups   *)
(* and the clock do not take it back.                                      *)
OnlyForward ==
    [][\/ \E g \in Goroutine : BackupMovesOn(g)
       \/ UNCHANGED <<pc, polls, todo>>]_vars

LEMMA FiniteTodoStep == ASSUME TypeOK, Files, FiniteTodo, [Next]_vars PROVE FiniteTodo'
<1>1. CASE UNCHANGED todo
  BY <1>1 DEF FiniteTodo
<1>2. ASSUME NEW g \in Goroutine, Remove(g) PROVE FiniteTodo'
  <2>1. /\ \A h \in Goroutine \ {g} : todo'[h] = todo[h]
        /\ todo'[g] \subseteq todo[g]
    BY <1>2 DEF Remove, TypeOK, LocalTypeOK
  <2>2. IsFiniteSet(todo'[g])
    BY <2>1, FS_Subset DEF FiniteTodo
  <2>3. QED
    BY <2>1, <2>2 DEF FiniteTodo
<1>3. ASSUME NEW g \in Goroutine, List(g) PROVE FiniteTodo'
  <2>1. /\ \A h \in Goroutine \ {g} : todo'[h] = todo[h]
        /\ todo'[g] = todo[g] \/ todo'[g] \in SUBSET dir
    BY <1>3 DEF List, TypeOK, LocalTypeOK
  <2>2. IsFiniteSet(todo'[g])
    BY <2>1, FS_Subset DEF FiniteTodo, Files
  <2>3. QED
    BY <2>1, <2>2 DEF FiniteTodo
<1>4. QED
  <2>1. \/ UNCHANGED todo
        \/ \E g \in Goroutine : Remove(g) \/ List(g)
    BY DEF Next, Step, LastSave, BgSave, Poll, Differs, GiveUp, TimedOut, ArchiveFileName,
       Cp, Upload, RetainLocalCopy, CopyStep, Open, Write, Pruned, Server, Time, vars,
       localVars
  <2>2. QED
    BY <1>1, <1>2, <1>3, <2>1

(* Each action of a goroutine goes to a later stage, but for these two.    *)
LEMMA StageForward ==
    ASSUME TypeOK, NEW g \in Goroutine, Step(g),
           ~(pc[g] = "poll" /\ Again(g)), ~(Remove(g) /\ pc' = pc)
    PROVE  \E s \in Steps : pc' = [pc EXCEPT ![g] = s] /\ Stage[s] > Stage[pc[g]]
<1> DEFINE Goes(from, to) == pc[g] = from /\ pc' = [pc EXCEPT ![g] = to]
<1> DEFINE Climbs == \E s \in Steps : pc' = [pc EXCEPT ![g] = s] /\ Stage[s] > Stage[pc[g]]
<1>1. ASSUME NEW from, NEW to \in Steps, Goes(from, to), Stage[to] > Stage[from]
      PROVE  Climbs
  BY <1>1
<1> SUFFICES Climbs
  OBVIOUS
<1>st. /\ Stage["begin"] = 0 /\ Stage["bgsave"] = 1 /\ Stage["poll"] = 2
       /\ Stage["name"] = 3 /\ Stage["cp"] = 4 /\ Stage["open"] = 5
       /\ Stage["write"] = 6 /\ Stage["list"] = 7 /\ Stage["prune"] = 8
       /\ Stage["upload"] = 9 /\ Stage["success"] = 10 /\ Stage["failed"] = 10
  BY DEF Stage
<1> HIDE DEF Climbs, Goes
<1>2. CASE LastSave(g)
  <2>1. Goes("begin", "bgsave") \/ Goes("begin", "failed")
    BY <1>2 DEF Goes, LastSave, Goto, Fail
  <2>2. QED
    BY <1>1, <1>st, <2>1 DEF Steps
<1>3. CASE BgSave(g)
  <2>1. Goes("bgsave", "poll") \/ Goes("bgsave", "failed")
    BY <1>3 DEF Goes, BgSave, Goto, Fail
  <2>2. QED
    BY <1>1, <1>st, <2>1 DEF Steps
<1>4. CASE Poll(g) \/ TimedOut(g)
  <2>1. Goes("poll", "name") \/ Goes("poll", "failed")
    BY <1>4 DEF Goes, Poll, TimedOut, Differs, GiveUp, Leave, Goto
  <2>2. QED
    BY <1>1, <1>st, <2>1 DEF Steps
<1>5. CASE ArchiveFileName(g)
  <2>1. Goes("name", "cp") \/ Goes("name", "failed")
    BY <1>5 DEF Goes, ArchiveFileName, Goto, Fail
  <2>2. QED
    BY <1>1, <1>st, <2>1 DEF Steps
<1>6. CASE Cp(g)
  <2>1. Goes("cp", "open") \/ Goes("cp", "upload") \/ Goes("cp", "failed")
    BY <1>6 DEF Goes, Cp, Goto, Fail, Retain
  <2>2. QED
    BY <1>1, <1>st, <2>1 DEF Steps
<1>7. CASE Open(g)
  <2>1. Goes("open", "write") \/ Goes("open", "upload")
    BY <1>7 DEF Goes, Open, Goto
  <2>2. QED
    BY <1>1, <1>st, <2>1 DEF Steps
<1>8. CASE Write(g)
  <2>1. Goes("write", "list") \/ Goes("write", "upload")
    BY <1>8 DEF Goes, Write, Goto
  <2>2. QED
    BY <1>1, <1>st, <2>1 DEF Steps
<1>9. CASE List(g)
  <2>1. Goes("list", "prune") \/ Goes("list", "upload")
    BY <1>9 DEF Goes, List, Goto
  <2>2. QED
    BY <1>1, <1>st, <2>1 DEF Steps
<1>10. CASE Remove(g) \/ Pruned(g)
  <2>1. Goes("prune", "upload")
    BY <1>10 DEF Goes, Remove, Pruned, Goto
  <2>2. QED
    BY <1>1, <1>st, <2>1 DEF Steps
<1>11. CASE Upload(g)
  <2>1. Goes("upload", "success") \/ Goes("upload", "failed")
    BY <1>11 DEF Goes, Upload, Goto, Fail
  <2>2. QED
    BY <1>1, <1>st, <2>1 DEF Steps
<1>12. QED
  BY <1>2, <1>3, <1>4, <1>5, <1>6, <1>7, <1>8, <1>9, <1>10, <1>11
     DEF Step, RetainLocalCopy, CopyStep

LEMMA OwnCounters == ASSUME TypeOK, NEW g \in Goroutine, Step(g) PROVE LeavesOthers(g)
<1>1. polls' = polls \/ \E p \in Nat : polls' = [polls EXCEPT ![g] = p]
  <2>1. polls[g] \in Nat
    BY DEF TypeOK, AskTypeOK
  <2>2. CASE Poll(g) \/ TimedOut(g)
    BY <2>1, <2>2 DEF Poll, TimedOut, Differs, Again, GiveUp, Leave
  <2>3. CASE ~(Poll(g) \/ TimedOut(g))
    BY <2>3 DEF Step, LastSave, BgSave, ArchiveFileName, Cp, RetainLocalCopy, Upload, askVars
  <2>4. QED
    BY <2>2, <2>3
<1>2. todo' = todo \/ \E t : todo' = [todo EXCEPT ![g] = t]
  <2>1. CASE RetainLocalCopy(g)
    BY <2>1 DEF RetainLocalCopy, CopyStep, Open, Write, List, Remove, Pruned, localVars
  <2>2. CASE ~RetainLocalCopy(g)
    BY <2>2 DEF Step, LastSave, BgSave, Poll, TimedOut, ArchiveFileName, Cp, Upload, localVars
  <2>3. QED
    BY <2>1, <2>2
<1>3. QED
  BY <1>1, <1>2 DEF LeavesOthers, TypeOK, AskTypeOK, LocalTypeOK

(* A backup waits boundedly: with at most MaxPolls turns of the loop and   *)
(* one per file to prune beside its stages, which never go back, it cannot *)
(* go on for ever, whatever the server, the clock and other backups do.    *)
THEOREM WaitIsBounded == Spec => OnlyForward /\ []FiniteTodo
<1>1. Init => FiniteTodo
  BY FS_EmptySet DEF Init, LocalInit, FiniteTodo
<1>2. IInv /\ FiniteTodo /\ [Next]_vars => FiniteTodo'
  BY FiniteTodoStep DEF IInv
<1> DEFINE Onward == \/ \E g \in Goroutine : BackupMovesOn(g)
                     \/ UNCHANGED <<pc, polls, todo>>
<1>3. IInv /\ [Next]_vars => [Onward]_vars
  <2> SUFFICES ASSUME TypeOK, Next PROVE Onward
    BY DEF IInv
  <2>1. CASE Server \/ Time
    BY <2>1 DEF Server, Time, localVars, askVars
  <2>2. ASSUME NEW g \in Goroutine, Step(g) PROVE BackupMovesOn(g)
    <3>1. CASE pc[g] = "poll" /\ Again(g)
      <4>1. Poll(g) \/ TimedOut(g)
        BY <2>2, <3>1 DEF Step, LastSave, BgSave, ArchiveFileName, Cp, RetainLocalCopy,
           CopyStep, Open, Write, List, Remove, Pruned, Upload
      <4>2. polls[g] \in 0..MaxPolls /\ MaxPolls \in Nat
        BY RedisAssumption DEF TypeOK, AskTypeOK
      <4>3. UNCHANGED <<pc, todo>> /\ polls' = [polls EXCEPT ![g] = @ + 1]
        BY <3>1, <4>1 DEF Again, Poll, TimedOut, localVars
      <4>4. ~TimedOut(g)
        BY <3>1, <4>3 DEF TimedOut, GiveUp, Leave, Goto, TypeOK
      <4>5. polls[g] < MaxPolls
        BY <4>1, <4>4 DEF Poll
      <4>6. QED
        BY <3>1, <4>3, <4>5 DEF BackupMovesOn
    <3>2. CASE Remove(g) /\ pc' = pc
      <4>1. pc[g] = "prune" /\ ~Goto(g, "upload")
        BY <3>2 DEF Remove, Goto, TypeOK
      <4>2. UNCHANGED polls
        BY <2>2, <4>1 DEF Step, LastSave, BgSave, Poll, TimedOut, ArchiveFileName, Cp,
           RetainLocalCopy, CopyStep, Upload, askVars
      <4>3. QED
        BY <3>2, <4>1, <4>2 DEF Remove, BackupMovesOn
    <3>3. QED
      BY <2>2, <3>1, <3>2, StageForward, OwnCounters DEF BackupMovesOn
  <2>3. QED
    BY <2>1, <2>2 DEF Next
<1>4. QED
  BY <1>1, <1>2, <1>3, Invariance, PTL DEF Spec, OnlyForward
=============================================================================
