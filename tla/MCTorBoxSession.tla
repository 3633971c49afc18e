---------------------------- MODULE MCTorBoxSession ----------------------------
(***************************************************************************)
(* Instances of TorBoxSession for TLC: j1 and j2 are its jobs.             *)
(***************************************************************************)
EXTENDS TorBoxSession

CONSTANTS j1, j2

================================================================================
