------------------------------ MODULE TornFile ------------------------------
(***************************************************************************)
(* A file that os.WriteFile replaces in place: it is truncated by the open *)
(* and filled by the write, so that between the two, or after a kill or a  *)
(* full disk, it is there without its contents. Every file of the modules  *)
(* Setup and Schedule is written in this way.                              *)
(***************************************************************************)
CONSTANTS
    Absent,   \* the file does not exist
    Torn      \* it is truncated, or has a part of its contents

ASSUME TornFileAssumption == Absent # Torn
=============================================================================
