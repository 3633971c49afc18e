--------------------------- MODULE MCPluginLifecycle ---------------------------
(***************************************************************************)
(* Instances of PluginLifecycle for TLC: p is steamidra, whose entries are *)
(* enriched, q any other plugin.                                           *)
(***************************************************************************)
EXTENDS PluginLifecycle

CONSTANTS p, q

================================================================================
