------------------------------- MODULE MCCatalogLoad -------------------------------
(***************************************************************************)
(* Instances of CatalogLoad for TLC: the sources are numbered by their     *)
(* place in the list, plugins first.                                       *)
(***************************************************************************)
EXTENDS CatalogLoad
================================================================================
