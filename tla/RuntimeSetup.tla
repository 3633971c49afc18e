------------------------------ MODULE RuntimeSetup ------------------------------
(***************************************************************************)
(* RuntimeDependencyService on Linux: before a Windows game starts, the    *)
(* redistributables it needs are installed into its Proton prefix.         *)
(*                                                                         *)
(* A setup runs on the UI thread.  While it asks the network it handles    *)
(* events, so that a launch the program makes by itself (a fallback, a     *)
(* deep link) starts another setup inside the first; while an installer    *)
(* runs nothing else does.                                                 *)
(***************************************************************************)
EXTENDS Naturals, Sequences, FiniteSets, SequencesExt, Filters

CONSTANTS
    Games,         \* games with a prefix
    Depots,        \* shared depots of Steam
    Kind,          \* what RuntimeDepotCatalog says of each
    Unified,       \* depot 228986, which every Windows game gets
    Scripted,      \* those whose install script Steam has put on this machine
    SteamDeps,     \* the depots steamcmd lists for each game
    ManifestDeps,  \* the depots the executable of each asks for
    WindowsGames,  \* the games with an .exe
    MaxLaunches    \* bound on the launches

Kinds == {"modern", "vc64", "vc32", "dotnet", "optional", "native"}
ASSUME SetupAssumption ==
    /\ Kind \in [Depots -> Kinds] /\ Unified \in Depots /\ Kind[Unified] = "modern"
    /\ Scripted \subseteq Depots /\ WindowsGames \subseteq Games
    /\ SteamDeps \in [Games -> Seq(Depots)] /\ ManifestDeps \in [Games -> Seq(Depots)]
    /\ MaxLaunches \in Nat

VARIABLES
    prefix,    \* what the probes find: a CRT per architecture, the file or key of a depot
    marks,     \* installedDepots in state.json
    redist,    \* the installers in the cache of a game, per depot and architecture
    proton,    \* some Proton is installed
    setups,    \* the calls of ensureInstalled under way, the innermost last
    overlay,   \* m_runtimeSetupGameId, NoGame when the overlay is closed
    verdict,   \* what the call that has just returned said, empty after any other step
    launches
setupVars == <<prefix, marks, redist, proton, setups, overlay, verdict, launches>>

NoGame == "no game"
NoVerdict == {}
Arches == {"x64", "x86"}
Parts == Arches \cup Depots

----------------------------------------------------------------------------
\* isVcDepotId and isX64VcDepotId; a modern depot is probed for x64 alone.
IsVc(d) == Kind[d] \in {"modern", "vc64", "vc32"}
ArchOf(d) == IF Kind[d] = "vc32" THEN "x86" ELSE "x64"

\* isDepotInstalledInPrefix: real CRT files, or the file or run key of the depot
Probed(d) == IF IsVc(d) THEN ArchOf(d) ELSE d
Present(d, g) == Probed(d) \in prefix[g]
\* prefixHasRunKey: the key an install script leaves
HasRunKey(d, found) == d \in found

\* mergeDependencies
Merge(primary, extra) == primary \o Only(extra, Depots \ ToSet(primary))

\* The depots of a game: from steamcmd if it answers, from the manifest or the
\* imports of the executable, and the unified CRT for every .exe.
FromSteamCmd(g, answered) == IF answered THEN SteamDeps[g] ELSE <<>>
FromManifest(g) == IF g \in WindowsGames THEN ManifestDeps[g] ELSE <<>>
Needs(g, answered) ==
    LET known == Merge(FromSteamCmd(g, answered), FromManifest(g)) IN
    IF g \in WindowsGames THEN Merge(known, <<Unified>>) ELSE known

\* The install script Steam put on this machine, and its steps; those of modern
\* depots are stale.
HasScript(d) == d \in Scripted
HasSteps(d) == HasScript(d) /\ Kind[d] # "modern"

\* appendCdnVcSteps: the packages it wants, one of them fetched after the other.
Packages(d) == IF Kind[d] = "modern" THEN <<"x64", "x86">> ELSE <<ArchOf(d)>>
Unfetched(d, g) == Only(Packages(d), {a \in Arches : redist[<<g, d, a>>] = "none"})

----------------------------------------------------------------------------
SetupInit ==
    /\ prefix = [g \in Games |-> {}] /\ marks = [g \in Games |-> {}]
    /\ redist = [k \in Games \X Depots \X Arches |-> "none"]
    /\ proton \in BOOLEAN /\ setups = <<>> /\ overlay = NoGame /\ verdict = NoVerdict /\ launches = 0

Top == Last(setups)
Depot == Head(Top.todo)
Waiting == \A k \in DOMAIN setups : setups[k].at # "depot"
Working(at) == setups # <<>> /\ Top.at = at
With(frame) == setups' = Append(Front(setups), frame)
Following(frame) == [frame EXCEPT !.at = "depot", !.todo = Tail(@), !.again = FALSE]

\* ensureRuntimeDependenciesForGame up to the first request
Launch(g) ==
    /\ Waiting /\ launches < MaxLaunches /\ launches' = launches + 1
    /\ overlay' = g /\ verdict' = NoVerdict
    /\ setups' = Append(setups, [game |-> g, at |-> "resolve", deps |-> <<>>, todo |-> <<>>,
                                 again |-> FALSE, fetch |-> <<>>])
    /\ UNCHANGED <<prefix, marks, redist, proton>>

\* resolveFromSteamCmd answers, or times out with nothing.
ResolveDeps(answered) ==
    LET deps == Needs(Top.game, answered) IN
    /\ Working("resolve") /\ verdict' = NoVerdict
    /\ With([Top EXCEPT !.at = "depot", !.deps = deps, !.todo = deps])
    /\ UNCHANGED <<prefix, marks, redist, proton, overlay, launches>>

\* The end of ensureInstalled; clearRuntimeSetup closes the overlay, also when
\* it is that of the call around this one.
Return(ok, depot) ==
    /\ verdict' = {[game |-> Top.game, ok |-> ok, deps |-> ToSet(Top.deps), depot |-> depot]}
    /\ setups' = Front(setups) /\ overlay' = NoGame /\ UNCHANGED launches
Ready == Working("depot") /\ Top.todo = <<>> /\ Return(TRUE, Unified) /\ UNCHANGED <<prefix, marks, redist, proton>>

\* isDepotSatisfied forgets a mark the prefix does not bear out.
Unmarked(d, g) == [marks EXCEPT ![g] = @ \ {d}]
Marked(d, g) == [marks EXCEPT ![g] = @ \cup {d}]

\* A depot for another system, one that is there, .NET (wine-mono has it), and
\* one with nothing to install it from are passed over.
SkipDepot ==
    LET d == Depot g == Top.game IN
    /\ Working("depot") /\ Top.todo # <<>>
    /\ \/ (Kind[d] = "native" \/ Present(d, g)) /\ marks' = marks
       \/ /\ ~Present(d, g) /\ (Kind[d] = "dotnet" \/ (Kind[d] = "optional" /\ ~HasSteps(d)))
          /\ marks' = Unmarked(d, g)
    /\ With(Following(Top)) /\ verdict' = NoVerdict
    /\ UNCHANGED <<prefix, redist, proton, overlay, launches>>

\* installDepotIntoContainer up to the installers
BeginDepot ==
    LET d == Depot g == Top.game IN
    /\ Working("depot") /\ Top.todo # <<>> /\ ~Present(d, g)
    /\ IsVc(d) \/ (Kind[d] = "optional" /\ HasSteps(d))
    /\ marks' = Unmarked(d, g) /\ verdict' = NoVerdict
    /\ With([Top EXCEPT !.at = "fetch", !.fetch = IF HasSteps(d) THEN <<>> ELSE Unfetched(d, g)])
    /\ UNCHANGED <<prefix, redist, proton, overlay, launches>>

\* downloadFileBlocking.  A file written in part counts as downloaded.  The
\* retry of a legacy depot that cannot be downloaded blocks the launch as well.
Fetch(outcome) ==
    LET k == <<Top.game, Depot, Head(Top.fetch)>> IN
    /\ Working("fetch") /\ Top.fetch # <<>>
    /\ IF outcome = "failed"
       THEN Return(FALSE, Depot) /\ redist' = redist
       ELSE /\ redist' = [redist EXCEPT ![k] = outcome]
            /\ With([Top EXCEPT !.fetch = Tail(@)])
            /\ verdict' = NoVerdict /\ UNCHANGED <<overlay, launches>>
    /\ UNCHANGED <<prefix, marks, proton>>

\* What the installers can bring: the script its key and an old CRT that may be
\* real, the packages of the CDN theirs, unless the file is torn.
FromScript(d) == {d, Probed(d)}
FromCdn(d, g) == {a \in Arches : redist[<<g, d, a>>] = "whole"}
\* runProtonInstallerSteps: an installer may fail, and nobody asks.
Gains(d, g, script) == SUBSET (IF script THEN FromScript(d) ELSE FromCdn(d, g))

\* Mutant of Registered: an installer that ran has installed its depot.
RegisteredByRun(d, found, script) == TRUE
\* probeOk, with what the prefix has by then
Registered(d, found, script) == Probed(d) \in found \/ (script /\ HasRunKey(d, found))

\* installDepotIntoContainer from the installers on: marked if the probe finds it
\* (a legacy CRT known by its key alone loses the mark again), a second try of
\* a legacy CRT with the packages of the CDN, optional ones passed over.
RunInstallers ==
    LET d == Depot g == Top.game
        script == HasSteps(d) /\ ~Top.again
    IN
    /\ Working("fetch") /\ Top.fetch = <<>>
    /\ IF ~proton THEN Return(FALSE, Depot) /\ UNCHANGED <<prefix, marks>>
       ELSE \E gained \in Gains(d, g, script) :
              LET ok == Registered(d, prefix[g] \cup gained, HasSteps(d)) IN
              /\ prefix' = [prefix EXCEPT ![g] = @ \cup gained]
              /\ marks' = IF ok /\ Probed(d) \in prefix'[g] THEN Marked(d, g) ELSE marks
              /\ IF ok \/ Kind[d] = "optional"
                 THEN With(Following(Top)) /\ verdict' = NoVerdict /\ UNCHANGED <<overlay, launches>>
                 ELSE IF Kind[d] \in {"vc64", "vc32"} /\ ~Top.again
                 THEN /\ With([Top EXCEPT !.again = TRUE, !.fetch = Unfetched(d, g)])
                      /\ verdict' = NoVerdict /\ UNCHANGED <<overlay, launches>>
                 ELSE Return(FALSE, Depot)
    /\ UNCHANGED <<redist, proton>>

\* containerInfoForGame: the page of a game looks at what is marked and needed.
Info(g) ==
    LET looked == marks[g] \cup ToSet(ManifestDeps[g]) IN
    /\ Waiting /\ marks' = [marks EXCEPT ![g] = {d \in @ : d \in looked => Present(d, g)}]
    /\ verdict' = NoVerdict /\ UNCHANGED <<prefix, redist, proton, setups, overlay, launches>>

\* The user installs or removes Proton; another one puts its stubs in a prefix.
ProtonChanges ==
    /\ Waiting /\ proton' = ~proton /\ verdict' = NoVerdict
    /\ UNCHANGED <<prefix, marks, redist, setups, overlay, launches>>
PrefixReplaced(g) ==
    /\ Waiting /\ prefix[g] # {} /\ \A k \in DOMAIN setups : setups[k].game # g
    /\ prefix' = [prefix EXCEPT ![g] = {}] /\ verdict' = NoVerdict
    /\ UNCHANGED <<marks, redist, proton, setups, overlay, launches>>

SetupNext ==
    \/ \E g \in Games : Launch(g) \/ Info(g) \/ PrefixReplaced(g)
    \/ \E answered \in BOOLEAN : ResolveDeps(answered)
    \/ \E outcome \in {"failed", "whole", "torn"} : Fetch(outcome)
    \/ Ready \/ SkipDepot \/ BeginDepot \/ RunInstallers \/ ProtonChanges

----------------------------------------------------------------------------
SetupTypeOK ==
    /\ prefix \in [Games -> SUBSET Parts] /\ marks \in [Games -> SUBSET Depots]
    /\ redist \in [Games \X Depots \X Arches -> {"none", "whole", "torn"}]
    /\ proton \in BOOLEAN /\ overlay \in Games \cup {NoGame} /\ launches \in 0..MaxLaunches
    /\ \A k \in DOMAIN setups : /\ setups[k].game \in Games /\ setups[k].todo \in Seq(Depots)
                                /\ setups[k].at \in {"resolve", "depot", "fetch"}

\* A game that is let through has a CRT for every Visual C++ depot it needs, or
\* the key of its installer, and its marks are true, whatever the prefix lost
\* since it was marked and whatever another setup did in between; a refused
\* one needs a CRT; no overlay stays open, and no call stays marked waiting,
\* once the calls have returned.  (With the types.)
LaunchReady ==
    /\ SetupTypeOK
    /\ \A v \in verdict :
         IF v.ok
         THEN \A d \in v.deps :
                /\ IsVc(d) => (Present(d, v.game) \/ (HasSteps(d) /\ HasRunKey(d, prefix[v.game])))
                /\ d \in marks[v.game] => Present(d, v.game)
         ELSE IsVc(v.depot) \/ ~proton
    /\ setups = <<>> => overlay = NoGame
================================================================================
