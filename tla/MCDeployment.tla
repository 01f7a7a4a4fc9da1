---------------------------- MODULE MCDeployment ----------------------------
(* Two accounts, each of which sees a drive of its own: they are           *)
(* interchangeable with their drives.                                      *)
EXTENDS Deployment, TLC

CONSTANTS a1, a2, d1, d2

OneDriveEach == (a1 :> {d1}) @@ (a2 :> {d2})
Exchange ==
    {p \in Permutations({a1, a2, d1, d2}) :
        /\ p[a1] \in {a1, a2} /\ p[d1] \in {d1, d2}
        /\ p[a1] = a1 <=> p[d1] = d1}
=============================================================================
