------------------------------- MODULE Clock -------------------------------
(***************************************************************************)
(* The wall clock, in whole seconds: the grain of an archive's name        *)
(* (internal/backup/archive.go), of the modification times that retention  *)
(* compares (internal/backup/local_retention.go formats them as RFC3339)   *)
(* and of Redis' LASTSAVE. The host and its containers share it.           *)
(***************************************************************************)
EXTENDS Integers

CONSTANTS
    Start,       \* the second in which the modelled command starts
    LastSecond   \* bound: the clock stops there

ASSUME ClockAssumption == Start \in Nat /\ LastSecond \in Nat

VARIABLE now

(* Time goes by, whatever the program does meanwhile. *)
Tick == now < LastSecond /\ now' = now + 1
=============================================================================
