------------------------------ MODULE MCOverlayLayers ------------------------------
(* The install root, a folder below it, and the one of the launcher. *)
EXTENDS OverlayLayers

MCWalk == << "root", "game", "launcher" >>
================================================================================
