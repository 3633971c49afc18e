------------------------------ MODULE ProtonVersions ------------------------------
(***************************************************************************)
(* ProtonManager and the list of Protons in the settings: the folders that *)
(* are scanned, the download of the latest Proton-GE with its lookup, and  *)
(* which Proton a game runs with.                                          *)
(*                                                                         *)
(* An entry is named by its folder, as its id is.  The lookup waits in     *)
(* nested event loops, so every other handler may run in it; the extraction *)
(* blocks the UI thread.                                                   *)
(***************************************************************************)
EXTENDS Naturals, Sequences, FiniteSets, SequencesExt, Filters

CONSTANTS
    ScanOrder,    \* the folders scanEntries looks into, in its order
    GeReleases,     \* those of them that are releases of Proton-GE, oldest first
    MaxActs       \* bound on what the user and the world outside do

Dirs == ToSet(ScanOrder)
None == "none"
ASSUME ProtonAssumption ==
    /\ ScanOrder \in Seq(Dirs) /\ IsInjective(ScanOrder) /\ None \notin Dirs
    /\ GeReleases \in Seq(Dirs) /\ GeReleases # <<>> /\ MaxActs \in Nat

VARIABLES
    dirs,       \* what is in each folder: "none", "stub" (no proton script), "torn", "whole"
    entries,    \* m_cachedEntries
    stage,      \* downloadLatestGe: "idle", "api", "page" or "archive" (m_downloading)
    release,    \* the release whose archive is fetched
    latest,     \* m_latestGeReleaseName
    lookups,    \* refreshLatestGeRelease: the requests under way
    published,  \* how many of GeReleases there are
    priority,   \* m_protonPriority
    default,    \* m_defaultProtonId
    acts
protonVars == <<dirs, entries, stage, release, latest, lookups, published, priority, default, acts>>

Newest == GeReleases[published]

----------------------------------------------------------------------------
\* findProtonScriptInDir: a folder that was not extracted to its end may have one.
HasProton(d, folders) == folders[d] \in {"torn", "whole"}

\* scanEntries, appendEntry: once each, those with a script
Scan(folders) == Only(ScanOrder, {d \in Dirs : HasProton(d, folders)})

\* executableForId: an entry of the last scan whose script is still there
Runs(d) == d \in ToSet(entries) /\ HasProton(d, dirs)

\* resolveProtonId: that of the game, the default, the first of the priority
\* that runs, the first entry.
Resolve(game) ==
    LET asked == <<game, default>> \o priority
        first == SelectInSeq(asked, Runs)
    IN  CASE first # 0 -> asked[first]
          [] first = 0 /\ entries # <<>> -> Head(entries)
          [] OTHER -> None

\* setProtonPriority and promoteProtonInPriority
Promoted(d, ids) == <<d>> \o Only(ids, Dirs \ {d})
\* setDefaultProtonId; the same one again changes nothing.
WithDefault(d, ids) == IF d = default \/ d = None THEN ids ELSE Promoted(d, ids)

\* New entries come last in the priority; those that are gone keep their place.
Listed(ids, found) == ids \o Only(found, Dirs \ ToSet(ids))

\* Mutant of Sync: the folders are scanned, the order is left as it is.
SyncEntries(folders) == entries' = Scan(folders) /\ UNCHANGED <<priority, default>>
\* syncProtonCatalog after a scan: list what is new, and have a default.
Sync(folders) ==
    LET found == Scan(folders)
        listed == Listed(priority, found)
        chosen == IF default = None /\ found # <<>> THEN Head(found) ELSE default
    IN
    /\ entries' = found
    /\ default' = chosen
    /\ priority' = IF chosen = default THEN listed ELSE Promoted(chosen, listed)

----------------------------------------------------------------------------
\* A start with the settings of an earlier session, or the path an old version
\* kept (m_legacyProtonPath), which the first synchronisation takes over; the
\* latest release is looked up.
ProtonInit ==
    /\ dirs \in [Dirs -> {"none", "whole"}]
    /\ published = 1 /\ stage = "idle" /\ release = None /\ latest = None /\ lookups = {"api"}
    /\ acts = 0
    /\ \E old \in {None, Head(ScanOrder)}, path \in {None} \cup Dirs :
         LET found == Scan(dirs)
             ordered == IF old = None THEN <<>> ELSE <<old>>
             chosen == CASE old # None -> old
                         [] old = None /\ path \in ToSet(found) -> path
                         [] OTHER -> IF found = <<>> THEN None ELSE Head(found)
         IN  /\ entries = found /\ default = chosen
             /\ priority = IF chosen = None THEN <<>> ELSE Promoted(chosen, Listed(ordered, found))

Act == acts < MaxActs /\ acts' = acts + 1

\* downloadLatestGe; a second click while one runs does nothing.
DownloadLatestGe ==
    /\ Act /\ stage = "idle" /\ stage' = "api"
    /\ UNCHANGED <<dirs, entries, release, latest, lookups, published, priority, default>>

\* fetchLatestGeReleaseInfo: the API, and the page of the releases after a
\* refusal.  The name of the release is told before its archive is fetched.
ApiAnswers(outcome) ==
    /\ stage = "api"
    /\ stage' = CASE outcome = "named" -> "archive" [] outcome = "refused" -> "page" [] OTHER -> "idle"
    /\ release' = IF outcome = "named" THEN Newest ELSE release
    /\ latest' = IF outcome = "named" THEN Newest ELSE latest
    /\ UNCHANGED <<dirs, entries, lookups, published, priority, default, acts>>
PageAnswers(outcome) ==
    /\ stage = "page" /\ outcome # "refused"
    /\ stage' = IF outcome = "named" THEN "archive" ELSE "idle"
    /\ release' = IF outcome = "named" THEN Newest ELSE release
    /\ latest' = IF outcome = "named" THEN Newest ELSE latest
    /\ UNCHANGED <<dirs, entries, lookups, published, priority, default, acts>>

\* The finished handler of the archive: written, extracted, its script looked
\* for.  What fails leaves the folder as it got; only success scans again.
ArchiveArrives(outcome) ==
    /\ stage = "archive" /\ stage' = "idle" /\ release' = None
    /\ dirs' = CASE outcome = "extracted" -> [dirs EXCEPT ![release] = "whole"]
                 [] outcome = "not written" -> dirs
                 [] outcome = "empty" -> [dirs EXCEPT ![release] = IF @ = "none" THEN "stub" ELSE @]
                 [] outcome = "cut off" -> [dirs EXCEPT ![release] = "torn"]
    /\ IF outcome = "extracted" THEN Sync(dirs') ELSE UNCHANGED <<entries, priority, default>>
    /\ UNCHANGED <<latest, lookups, published, acts>>

\* refreshLatestGeRelease: asked at the start and by ensureProtonReady, any
\* number of times, each with a page of its own after a refusal.
RefreshLatest ==
    /\ Act /\ lookups' = lookups \cup {"api"}
    /\ UNCHANGED <<dirs, entries, stage, release, latest, published, priority, default>>
LookupAnswers(at, outcome) ==
    /\ at \in lookups /\ (at = "page" => outcome # "refused")
    /\ lookups' = (lookups \ {at}) \cup (IF outcome = "refused" THEN {"page"} ELSE {})
    /\ latest' = IF outcome = "named" THEN Newest ELSE latest
    /\ UNCHANGED <<dirs, entries, stage, release, published, priority, default, acts>>

\* refreshAvailableProtons
RefreshAvailable ==
    /\ Act /\ Sync(dirs)
    /\ UNCHANGED <<dirs, stage, release, latest, lookups, published>>

\* The user picks a default, or moves one a place up or down.
SetDefault(d) ==
    /\ Act /\ d \in ToSet(entries) /\ default' = d /\ priority' = WithDefault(d, priority)
    /\ UNCHANGED <<dirs, entries, stage, release, latest, lookups, published>>
MoveInPriority(k) ==
    /\ Act
    /\ priority' = [priority EXCEPT ![k] = priority[k + 1], ![k + 1] = priority[k]]
    /\ UNCHANGED <<dirs, entries, stage, release, latest, lookups, published, default>>

\* Steam and the user put folders there and remove them; a release appears.
FolderChanges(d, content) ==
    /\ Act /\ dirs' = [dirs EXCEPT ![d] = content]
    /\ UNCHANGED <<entries, stage, release, latest, lookups, published, priority, default>>
PublishGe ==
    /\ Act /\ published < Len(GeReleases) /\ published' = published + 1
    /\ UNCHANGED <<dirs, entries, stage, release, latest, lookups, priority, default>>

\* The settings are saved with every change; a download is lost.
RestartProton ==
    /\ Act /\ stage' = "idle" /\ release' = None /\ latest' = None /\ lookups' = {"api"}
    /\ Sync(dirs)
    /\ UNCHANGED <<dirs, published>>

Lookup == {"named", "refused", "no archive"}
ProtonNext ==
    \/ DownloadLatestGe \/ RefreshLatest \/ RefreshAvailable \/ PublishGe \/ RestartProton
    \/ \E outcome \in Lookup : ApiAnswers(outcome) \/ PageAnswers(outcome)
    \/ \E at \in {"api", "page"}, outcome \in Lookup : LookupAnswers(at, outcome)
    \/ \E outcome \in {"extracted", "not written", "empty", "cut off"} : ArchiveArrives(outcome)
    \/ \E d \in Dirs : SetDefault(d)
    \/ \E d \in Dirs, content \in {"none", "whole"} : FolderChanges(d, content)
    \/ \E k \in 1..(Len(priority) - 1) : MoveInPriority(k)

----------------------------------------------------------------------------
ProtonTypeOK ==
    /\ dirs \in [Dirs -> {"none", "stub", "torn", "whole"}] /\ entries \in Seq(Dirs)
    /\ stage \in {"idle", "api", "page", "archive"} /\ release \in Dirs \cup {None}
    /\ latest \in ToSet(GeReleases) \cup {None} /\ lookups \subseteq {"api", "page"}
    /\ priority \in Seq(Dirs) /\ default \in Dirs \cup {None}
    /\ stage = "archive" => release # None

\* If one Proton of the last scan still runs, every game gets one that runs,
\* whichever was preferred, whatever was moved, downloaded or removed behind
\* the list; every entry has one place in the order the user sees, and so has
\* the default.  (With the types.)
ResolveRuns ==
    /\ ProtonTypeOK
    /\ (\E d \in ToSet(entries) : Runs(d)) => \A game \in Dirs \cup {None} : Runs(Resolve(game))
    /\ IsInjective(priority) /\ ToSet(entries) \subseteq ToSet(priority)
    /\ default = None => entries = <<>>
    /\ default # None => default \in ToSet(priority)
================================================================================
