--------------------------- MODULE RetainedCopies ---------------------------
(***************************************************************************)
(* What a place that keeps backups promises: copies come in the order of   *)
(* the runs that made them, and a copy is given up only while a newer one  *)
(* is there. The newest copy is therefore never lost, and a place that has *)
(* held a copy once holds one for good.                                    *)
(***************************************************************************)
EXTENDS Naturals

CONSTANT Runs      \* the runs of a job, natural numbers

VARIABLE copies    \* the runs of which an undamaged copy is kept

Init == copies = {}

Store(r) ==
    /\ \A c \in copies : c < r
    /\ copies' = copies \cup {r}

GiveUp(r) ==
    /\ r \in copies
    /\ \E newer \in copies : newer > r
    /\ copies' = copies \ {r}

Next == \E r \in Runs : Store(r) \/ GiveUp(r)

Spec == Init /\ [][Next]_copies
=============================================================================
