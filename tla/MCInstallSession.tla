---------------------------- MODULE MCInstallSession ----------------------------
(***************************************************************************)
(* Instances of InstallSession for TLC: j1 and j2 are rows of the game and *)
(* may be exchanged in the runs that check safety only.                    *)
(***************************************************************************)
EXTENDS InstallSession, TLC

CONSTANTS j1, j2

Symmetry == Permutations({j1, j2})

================================================================================
