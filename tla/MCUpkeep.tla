-------------------------------- MODULE MCUpkeep --------------------------------
(***************************************************************************)
(* What keeps the program, the runtime of the games, the library on its    *)
(* drives and the kinds of the catalog up to date, each on an instance of  *)
(* its own: "part" says which machine a behaviour runs, the others stand   *)
(* still.                                                                  *)
(***************************************************************************)
EXTENDS RuntimeSetup, ProtonVersions, AppUpdater, LibraryDrives, KindProbe

VARIABLE part

\* The redistributables: a modern CRT, a 32 bit one, .NET, an optional depot
\* and one for another system.
MCKind == [d \in Depots |-> CASE d = "m" -> "modern" [] d = "l" -> "vc32" [] d = "n" -> "dotnet"
                              [] d = "o" -> "optional" [] OTHER -> "native"]
MCSteam == [g \in Games |-> IF g = "p" THEN <<"l", "o">> ELSE <<"n", "m", "k">>]
MCManifest == [g \in Games |-> IF g = "p" THEN <<"m">> ELSE <<"l">>]

\* The Protons: two releases of Proton-GE and one of Steam.
MCScan == <<"ge2", "ge1", "steam">>
MCGeReleases == <<"ge1", "ge2">>

\* The releases of the program: lettered ones before and after a stable one
\* of the same number, with and without sums, for both platforms and for one.
R(n, l, p, s, k) == [number |-> n, letter |-> l, pre |-> p, sums |-> s, packages |-> k]
MCVersions ==
    <<R(1, 0, FALSE, FALSE, Platforms), R(1, 1, TRUE, TRUE, {"AppImage"}), R(2, 1, TRUE, TRUE, Platforms),
      R(2, 0, FALSE, TRUE, Platforms), R(2, 2, TRUE, FALSE, {"AppImage"})>>


\* The drives: two to begin with, on two file systems, and a third folder.
MCFirstDrives == <<"a", "b">>
MCVolume == [p \in Paths |-> IF p = "a" THEN 1 ELSE 2]

\* The links: two that tell a kind, the first of them in two entries, one that
\* cannot be parsed and one that is refused.
MCEntries == <<"h", "k", "h", "u", "r">>
MCSearched == <<2, 4>>

----------------------------------------------------------------------------
upkeepVars == <<part, setupVars, protonVars, updaterVars, libraryVars, probeVars>>
OtherSetup == proton
OtherProton == dirs = [d \in Dirs |-> "none"] /\ default = None
OtherUpdater == package = "other" /\ running = 1 /\ ~pre
OtherLibrary == owned = {}
Init ==
    /\ SetupInit /\ ProtonInit /\ UpdaterInit /\ LibraryInit /\ KindInit
    /\ \/ part = "runtime" /\ OtherProton /\ OtherUpdater /\ OtherLibrary
       \/ part = "proton" /\ OtherSetup /\ OtherUpdater /\ OtherLibrary
       \/ part = "updater" /\ OtherSetup /\ OtherProton /\ OtherLibrary
       \/ part = "library" /\ OtherSetup /\ OtherProton /\ OtherUpdater
       \/ part = "probe" /\ OtherSetup /\ OtherProton /\ OtherUpdater /\ OtherLibrary
Next ==
    /\ part' = part
    /\ \/ part = "runtime" /\ SetupNext /\ UNCHANGED <<protonVars, updaterVars, libraryVars, probeVars>>
       \/ part = "proton" /\ ProtonNext /\ UNCHANGED <<setupVars, updaterVars, libraryVars, probeVars>>
       \/ part = "updater" /\ UpdaterNext /\ UNCHANGED <<setupVars, protonVars, libraryVars, probeVars>>
       \/ part = "library" /\ LibraryNext /\ UNCHANGED <<setupVars, protonVars, updaterVars, probeVars>>
       \/ part = "probe" /\ KindNext /\ UNCHANGED <<setupVars, protonVars, updaterVars, libraryVars>>
Spec == Init /\ [][Next]_upkeepVars
================================================================================
