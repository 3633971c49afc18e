------------------------------ MODULE MCCoverFetch ------------------------------
(***************************************************************************)
(* Instances of CoverFetch for TLC: the same game from three sources.  The *)
(* first names its Steam application, the second a cover, the third none.  *)
(***************************************************************************)
EXTENDS CoverFetch

KnownApps == << 1, NoApp, NoApp >>
StoreApps == << 1, 1, 1 >>
================================================================================
