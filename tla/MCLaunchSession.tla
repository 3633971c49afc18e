---------------------------- MODULE MCLaunchSession ----------------------------
(***************************************************************************)
(* Instances of LaunchSession for TLC: g1 is a plain game, g2 is started   *)
(* with the steam.exe stub.                                                *)
(***************************************************************************)
EXTENDS LaunchSession

CONSTANTS g1, g2

================================================================================
