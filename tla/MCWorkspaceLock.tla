-------------------------- MODULE MCWorkspaceLock --------------------------
(* Small instances of WorkspaceLock for TLC. *)
EXTENDS WorkspaceLock, TLC

CONSTANTS p1, p2, p3, p4

ThreeInvocations == {p1, p2, p3}
FourInvocations  == {p1, p2, p3, p4}

\* Invocations are interchangeable; not to be used with liveness.
Symmetry == Permutations(Proc)
=============================================================================
