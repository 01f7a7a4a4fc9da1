----------------------------- MODULE Retention -----------------------------
(***************************************************************************)
(* Which files of a backup directory are listed, in which order, and which *)
(* of them retention gives up: internal/rclone (ListFiles, FilesToPrune)   *)
(* and internal/backup/local_retention.go, which uses the same algorithm.  *)
(*                                                                         *)
(* A directory is a set of objects. An object is one file: an archive or   *)
(* the manifest beside it, both named after the run that made them. Runs   *)
(* are numbered in the order of their archives' modification times.        *)
(* `whole` is FALSE if the file's bytes are not the ones the run produced: *)
(* a truncated copy, or an upload damaged on its way.                      *)
(***************************************************************************)
EXTENDS Integers, FiniteSets

Object(R) == [run : R, kind : {"archive", "manifest"}, whole : BOOLEAN]

Archive(r, w)  == [run |-> r, kind |-> "archive", whole |-> w]
Manifest(r)    == [run |-> r, kind |-> "manifest", whole |-> TRUE]

\* Writing a file replaces the one of the same name.
Put(dir, o) == {x \in dir : x.run # o.run \/ x.kind # o.kind} \cup {o}

\* The manifest sidecar of archive o, as far as there is one.
Sidecar(dir, o) == {x \in dir : x.kind = "manifest" /\ x.run = o.run}

\* The archives of a directory whose bytes are right, by their runs.
GoodRuns(dir) ==
    {o.run : o \in {x \in dir : x.kind = "archive" /\ x.whole}}
-----------------------------------------------------------------------------
(* The files retention and restore see: never a manifest sidecar.          *)
ListFiles(dir) == {x \in dir : x.kind = "archive"}

(* sort.Slice by descending ModTime. It is not stable, so each order of    *)
(* files with equal times is possible.                                     *)
NewestFirst(files) ==
    {q \in [1..Cardinality(files) -> files] :
        \A i, j \in 1..Cardinality(files) :
            i < j => q[i] # q[j] /\ q[i].run >= q[j].run}

\* Mutant of FilesToPrune: one file too few is kept.
FilesToPruneOffByOne(q, expired, keep) ==
    {q[i] : i \in {k \in DOMAIN q : k >= keep /\ q[k] \in expired}}

\* Mutant of FilesToPrune: age alone decides, as `rclone delete --min-age` did.
FilesToPruneByAge(q, expired, keep) ==
    {q[i] : i \in {k \in DOMAIN q : q[k] \in expired}}

(* Everything beyond the newest `keep`, if it is also expired.             *)
FilesToPrune(q, expired, keep) ==
    {q[i] : i \in {k \in DOMAIN q : k > keep /\ q[k] \in expired}}
=============================================================================
