---------------------------- MODULE PluginLifecycle ----------------------------
(***************************************************************************)
(* Installing, updating and removing source plugins while their code runs. *)
(*                                                                         *)
(* PluginHost keeps a shared library per plugin.  Threads of a pool run    *)
(* inside it: workers that install or download, catalog loads, and lookups *)
(* that enrich a catalog entry.  The library goes only after the           *)
(* before-unload hook has waited for them, which freezes the user          *)
(* interface.                                                              *)
(*                                                                         *)
(* installFromArach and uninstallPlugin run nested event loops, in which   *)
(* any timer, answer or posted call is handled, also another install of    *)
(* the same plugin: what is under way is a stack of frames, and only the   *)
(* last one goes on.  PluginCatalogService downloads packages in the order *)
(* of a queue and hands them to installFromArach.                          *)
(***************************************************************************)
EXTENDS Naturals, Sequences, FiniteSets, SequencesExt

CONSTANTS
    Plugins,
    Enriched,       \* the plugins whose entries are enriched: steamidra
    MaxClicks,      \* bound on what the user installs and removes
    NoPlugin

ASSUME PluginAssumption ==
    /\ IsFiniteSet(Plugins)
    /\ Enriched \subseteq Plugins
    /\ MaxClicks \in Nat
    /\ NoPlugin \notin Plugins

VARIABLES
    disk,           \* the folder of each plugin, and those beside it
    loaded,         \* m_plugins: the plugins whose library is loaded
    listed,         \* the sources the program lists for its plugins
    calls,          \* what runs inside a library: <<plugin, kind>>
    lost,           \* history: the kinds of call whose library went under them
    enriching,      \* m_catalogAddonEnrichInFlight, by plugin
    blocked,        \* m_pluginCallsBlocked
    changed,        \* the queued handlers of pluginsChanged
    stack,          \* the frames of installFromArach and uninstallPlugin
    installBusy,    \* m_pluginInstallBusy
    removing,       \* the plugin a removal is under way for: m_pluginRemoveBusy
    queue,          \* m_installQueue of PluginCatalogService
    installing,     \* m_installingPluginId: the plugin that is downloaded
    update,         \* the automatic update of this session
    clicks          \* what the user has done so far

catalogVars == <<queue, installing, update>>
vars == << disk, loaded, listed, calls, lost, enriching, blocked, changed, stack,
           installBusy, removing, catalogVars, clicks >>

\* "bad" does not load: rejected, or not complete.
Bundles == {"none", "good", "bad"}
Folders == [target : Bundles, bak : Bundles, staging : Bundles]

\* "draining": a catalog load that a removal no longer counts as in flight
Kinds == {"worker", "enrich", "load", "draining"}

\* broken: the staging folder of this install was taken by another one.
\* by: the user chose a file, or the queue of PluginCatalogService downloaded it.
Frames ==
    [ at : {"extract", "copy", "replace", "remove", "retry"}, plugin : Plugins,
      broken : BOOLEAN, by : {"user", "queue"} ]
Frame(at, p, by) == [at |-> at, plugin |-> p, broken |-> FALSE, by |-> by]

\* The start: scan has loaded what loads.  A crash may have left a replacement half
\* done, which scan does not look at.
Init ==
    /\ disk \in [Plugins -> { [target |-> "good", bak |-> "none", staging |-> "none"],
                              [target |-> "none", bak |-> "good", staging |-> "good"] }]
    /\ loaded = {p \in Plugins : disk[p].target = "good"}
    /\ listed = loaded
    /\ calls = {}
    /\ lost = {}
    /\ enriching = {}
    /\ blocked = FALSE
    /\ changed = 0
    /\ stack = <<>>
    /\ installBusy = FALSE
    /\ removing = NoPlugin
    /\ queue = <<>>
    /\ installing = NoPlugin
    /\ update = "armed"
    /\ clicks = 0

--------------------------------------------------------------------------------
(***************************************************************************)
(* The event loop                                                          *)
(***************************************************************************)

\* Events are handled at rest and in the nested loops.
Top == Last(stack)
TopAt(at) == stack # <<>> /\ Top.at = at
Loops == {"extract", "copy", "retry"}
Events == stack = <<>> \/ (stack # <<>> /\ Top.at \in Loops)

\* The overlay that takes every click
Overlay == installing # NoPlugin \/ installBusy \/ removing # NoPlugin

Click == clicks < MaxClicks /\ Events /\ ~Overlay /\ clicks' = clicks + 1

--------------------------------------------------------------------------------
(***************************************************************************)
(* Code that runs in a library                                             *)
(***************************************************************************)
OthersAsBefore ==
    UNCHANGED << disk, loaded, listed, lost, blocked, changed, stack, installBusy,
                 removing, catalogVars, clicks >>

\* runInstallAsync, runAddonInstallAsync, runOwnedDownloadAsync
WorkerStarts(p) ==
    /\ Events
    /\ p \in loaded
    /\ <<p, "worker">> \notin calls
    /\ calls' = calls \cup {<<p, "worker">>}
    /\ OthersAsBefore /\ UNCHANGED enriching

\* A load of the catalog of a plugin, to show it or to count it
LoadStarts(p) ==
    /\ Events
    /\ p \in loaded
    /\ calls \cap ({p} \X {"load", "draining"}) = {}
    /\ calls' = calls \cup {<<p, "load">>}
    /\ OthersAsBefore /\ UNCHANGED enriching

\* ensureCatalogAddons
EnrichStarts(p) ==
    /\ Events
    /\ p \in Enriched \cap loaded
    /\ ~blocked
    /\ p \notin enriching
    /\ calls' = calls \cup {<<p, "enrich">>}
    /\ enriching' = enriching \cup {p}
    /\ OthersAsBefore

\* Its answer, posted to the event loop
EnrichNoted(p) ==
    /\ Events
    /\ p \in enriching
    /\ <<p, "enrich">> \notin calls
    /\ enriching' = enriching \ {p}
    /\ OthersAsBefore /\ UNCHANGED calls

CallReturns ==
    /\ \E c \in calls : calls' = calls \ {c}
    /\ OthersAsBefore /\ UNCHANGED enriching

--------------------------------------------------------------------------------
(***************************************************************************)
(* Loading and unloading                                                   *)
(***************************************************************************)

\* Mutant of Waited: the hook does not wait for the workers of the plugin.
WaitedForLoads(p) == calls \cap (Plugins \X {"enrich", "load"}) = {}

\* The before-unload hook returns: every lookup and every load it knows of has
\* ended, and the workers of this plugin have.
Waited(p) ==
    /\ calls \cap (Plugins \X {"enrich", "load"}) = {}
    /\ <<p, "worker">> \notin calls

\* unloadPlugin, whatever runs in the library
Unload(p) ==
    /\ lost' = lost \cup {k \in Kinds : p \in loaded /\ <<p, k>> \in calls}
    /\ calls' = IF p \in loaded THEN {c \in calls : c[1] # p} ELSE calls

\* loadPluginDir of the folder as it is then
Reload(p, target) ==
    loaded' = IF target = "good" THEN loaded \cup {p} ELSE loaded \ {p}

\* pluginsChanged is handled later, whoever emitted it.
HandleChanged ==
    /\ Events
    /\ changed > 0
    /\ changed' = changed - 1
    /\ blocked' = FALSE
    /\ listed' = loaded
    /\ \E s \in SUBSET {p \in loaded : calls \cap ({p} \X {"load", "draining"}) = {}} :
           calls' = calls \cup (s \X {"load"})
    /\ UNCHANGED << disk, loaded, lost, enriching, stack, installBusy, removing,
                    catalogVars, clicks >>

--------------------------------------------------------------------------------
(***************************************************************************)
(* The queue of PluginCatalogService                                       *)
(***************************************************************************)

\* processInstallQueue: beginInstall of the next one that can begin.  A download that
\* is already running (current) is aborted for it and never heard of again.  Without
\* one the queue is drained, which ends an automatic update.
ProcessQueue(waiting, current, updating) ==
    \/ \E k \in 1..Len(waiting) :
           /\ installing' = waiting[k]
           /\ queue' = SubSeq(waiting, k + 1, Len(waiting))
           /\ update' = updating
    \/ /\ installing' \in (IF waiting = <<>> THEN {current} ELSE {current, NoPlugin})
       /\ queue' = <<>>
       /\ update' = IF updating = "running" THEN "over" ELSE updating

\* PluginCatalogService::installPlugin
Queued(waiting, p) ==
    IF p = installing \/ Contains(waiting, p) THEN waiting ELSE Append(waiting, p)

QueueOnly ==
    UNCHANGED << disk, loaded, listed, calls, lost, enriching, blocked, changed, stack,
                 installBusy, removing >>

\* installOfficialPlugin
InstallOfficial(p) ==
    /\ Click
    /\ ProcessQueue(Queued(queue, p), NoPlugin, update)
    /\ QueueOnly

\* runOfficialPluginAutoUpdate, by a timer until nothing runs in any plugin.  The plugins
\* are asked for in the order of the published list, and when the first request fails, the
\* queue is drained before the others are in it.
AutoUpdate ==
    /\ Events
    /\ update = "armed"
    /\ calls \cap (Plugins \X {"worker", "enrich", "load"}) = {} /\ enriching = {}
    /\ \/ update' = "over" /\ UNCHANGED <<queue, installing>>
       \/ \E s \in SUBSET {p \in Plugins : p \in loaded \/ disk[p].target # "none"} \ {{}} :
          \E order \in SetToSeqs(s \ (Range(queue) \cup {installing})) :
              LET waiting == queue \o order
              IN  \/ /\ installing # NoPlugin
                     /\ queue' = waiting /\ update' = "running" /\ UNCHANGED installing
                  \/ /\ installing = NoPlugin
                     /\ \E updating \in {"running", "over"} :
                            /\ ProcessQueue(waiting, NoPlugin, updating)
                            /\ updating = "over" => installing' # Head(waiting)
    /\ QueueOnly
    /\ UNCHANGED clicks

DownloadFails ==
    /\ Events
    /\ installing # NoPlugin
    /\ ProcessQueue(queue, NoPlugin, update)
    /\ QueueOnly
    /\ UNCHANGED clicks

\* Its package goes to installFromArach, while nothing counts as installing.
Downloaded ==
    /\ Events
    /\ installing # NoPlugin
    /\ stack' = Append(stack, Frame("extract", installing, "queue"))
    /\ installing' = NoPlugin
    /\ installBusy' = TRUE
    /\ UNCHANGED << disk, loaded, listed, calls, lost, enriching, blocked, changed,
                    removing, queue, update, clicks >>

--------------------------------------------------------------------------------
(***************************************************************************)
(* installFromArach, of the innermost frame                                *)
(***************************************************************************)

\* installPluginArach: the user chose a file
InstallFile(p) ==
    /\ Click
    /\ stack' = Append(stack, Frame("extract", p, "user"))
    /\ installBusy' = TRUE
    /\ UNCHANGED << disk, loaded, listed, calls, lost, enriching, blocked, changed,
                    removing, catalogVars >>

\* It returns.  The queue goes on with the next download after one of its own.
InstallReturns ==
    /\ stack' = Front(stack)
    /\ installBusy' = FALSE
    /\ IF Top.by = "queue" THEN ProcessQueue(queue, installing, update)
       ELSE UNCHANGED catalogVars

PackageRefused ==
    /\ TopAt("extract")
    /\ InstallReturns
    /\ UNCHANGED << disk, loaded, listed, calls, lost, enriching, blocked, changed,
                    removing, clicks >>

\* The package is fine and the plugin has no workers: what is left beside its folder
\* goes, also what an outer install of the plugin has staged.
Staged ==
    /\ TopAt("extract")
    /\ <<Top.plugin, "worker">> \notin calls
    /\ disk' = [disk EXCEPT ![Top.plugin].bak = "none", ![Top.plugin].staging = "bad"]
    /\ stack' = [ i \in DOMAIN stack |->
                    IF i = Len(stack) THEN [stack[i] EXCEPT !.at = "copy"]
                    ELSE [stack[i] EXCEPT !.broken = @ \/ stack[i].plugin = Top.plugin] ]
    /\ UNCHANGED << loaded, listed, calls, lost, enriching, blocked, changed, installBusy,
                    removing, catalogVars, clicks >>

CopyFails ==
    /\ TopAt("copy")
    /\ disk' = [disk EXCEPT ![Top.plugin].staging = "none"]
    /\ InstallReturns
    /\ UNCHANGED << loaded, listed, calls, lost, enriching, blocked, changed, removing,
                    clicks >>

\* All is copied, but if another install took the folder the rest of it at most.
\* The before-unload hook begins.
Copied ==
    /\ TopAt("copy")
    /\ \E bundle \in IF Top.broken THEN {"none", "bad"} ELSE {"good", "bad"} :
           disk' = [disk EXCEPT ![Top.plugin].staging = bundle]
    /\ stack' = [stack EXCEPT ![Len(stack)].at = "replace"]
    /\ blocked' = TRUE
    /\ UNCHANGED << loaded, listed, calls, lost, enriching, changed, installBusy,
                    removing, catalogVars, clicks >>

\* What the three ends of a replacement have in common; folder is what they leave.
Replaces(p, folder) ==
    /\ Unload(p)
    /\ Reload(p, folder.target)
    /\ disk' = [disk EXCEPT ![p] = folder]
    /\ InstallReturns
    /\ UNCHANGED <<listed, enriching, blocked, removing, clicks>>

Replacing == TopAt("replace") /\ Waited(Top.plugin)

\* The old folder cannot be moved away: it stays, or it was copied and lost some of
\* its files.
ReplaceFails ==
    /\ Replacing
    /\ disk[Top.plugin].target # "none"
    /\ LET d == disk[Top.plugin]
       IN  \E target \in {d.target, "bad"}, bak \in {"none", "bad", d.target} :
               /\ target # d.target => bak = d.target
               /\ Replaces(Top.plugin, [target |-> target, bak |-> bak, staging |-> "none"])
    /\ changed' = changed + 1

\* Mutant of PlaceFails: the old folder was not kept.
PlaceFailsForGood ==
    /\ Replacing
    /\ \E target \in {"none", "bad"} :
           Replaces(Top.plugin, [target |-> target, bak |-> "none", staging |-> "none"])
    /\ changed' = changed + 1

\* The new one cannot be put in its place: the old one is moved back, which fails when
\* some of the new one was copied.
PlaceFails ==
    /\ Replacing
    /\ LET old == disk[Top.plugin].target
       IN  \/ Replaces(Top.plugin, [target |-> old, bak |-> "none", staging |-> "none"])
           \/ /\ disk[Top.plugin].staging # "none"
              /\ Replaces(Top.plugin, [target |-> "bad", bak |-> old, staging |-> "none"])
    /\ changed' = changed + 1

\* The new one is in place and the old one is deleted, whether or not the new one loads.
Replaced ==
    /\ Replacing
    /\ disk[Top.plugin].staging # "none"
    /\ Replaces(Top.plugin, [ target |-> disk[Top.plugin].staging, bak |-> "none",
                              staging |-> "none" ])
    /\ changed' = changed + 1

--------------------------------------------------------------------------------
(***************************************************************************)
(* Removing a plugin                                                       *)
(***************************************************************************)

\* uninstallPlugin of CoreController: loads are no longer in flight, and a timer waits
\* for what runs.
UninstallPlugin(p) ==
    /\ Click
    /\ removing' = p
    /\ blocked' = TRUE
    /\ calls' = {c \in calls : c[2] # "load"}
                    \cup {<<c[1], "draining">> : c \in {c \in calls : c[2] = "load"}}
    /\ UNCHANGED << disk, loaded, listed, lost, enriching, changed, stack, installBusy,
                    catalogVars >>

\* Mutant of RemovalRefused: calls stay blocked.
RemovalRefusedBlocked ==
    /\ Events
    /\ removing # NoPlugin
    /\ \A i \in DOMAIN stack : stack[i].at # "retry"
    /\ <<removing, "worker">> \in calls
    /\ removing' = NoPlugin
    /\ UNCHANGED << disk, loaded, listed, calls, lost, enriching, blocked, changed, stack,
                    installBusy, catalogVars, clicks >>

\* The timer: nothing runs any more, or 30 s are over.  uninstallPlugin of PluginHost
\* refuses while the plugin has workers.
RemovalRefused ==
    /\ Events
    /\ removing # NoPlugin
    /\ \A i \in DOMAIN stack : stack[i].at # "retry"
    /\ <<removing, "worker">> \in calls
    /\ removing' = NoPlugin
    /\ blocked' = FALSE
    /\ UNCHANGED << disk, loaded, listed, calls, lost, enriching, changed, stack,
                    installBusy, catalogVars, clicks >>

RemovalBegins ==
    /\ Events
    /\ removing # NoPlugin
    /\ \A i \in DOMAIN stack : stack[i].at # "retry"
    /\ <<removing, "worker">> \notin calls
    /\ stack' = Append(stack, Frame("remove", removing, "user"))
    /\ blocked' = TRUE
    /\ UNCHANGED << disk, loaded, listed, calls, lost, enriching, changed, installBusy,
                    removing, catalogVars, clicks >>

\* uninstallPlugin of PluginHost returns.
RemovalReturns(ok) ==
    /\ stack' = Front(stack)
    /\ removing' = NoPlugin
    /\ changed' = changed + 1
    /\ blocked' = (blocked /\ ok)

\* The library goes, then the folder: at the first attempt, or with more of them.
Unloaded ==
    /\ TopAt("remove")
    /\ Waited(Top.plugin)
    /\ Unload(Top.plugin)
    /\ Reload(Top.plugin, "none")
    /\ \/ /\ disk' = [disk EXCEPT ![Top.plugin].target = "none"]
          /\ RemovalReturns(disk[Top.plugin].target # "none")
       \/ /\ disk[Top.plugin].target # "none"
          /\ disk' \in {disk, [disk EXCEPT ![Top.plugin].target = "bad"]}
          /\ stack' = [stack EXCEPT ![Len(stack)].at = "retry"]
          /\ UNCHANGED <<removing, changed, blocked>>
    /\ UNCHANGED <<listed, enriching, installBusy, catalogVars, clicks>>

Removed ==
    /\ TopAt("retry")
    /\ disk' = [disk EXCEPT ![Top.plugin].target = "none"]
    /\ RemovalReturns(TRUE)
    /\ UNCHANGED << loaded, listed, calls, lost, enriching, installBusy, catalogVars,
                    clicks >>

\* What is left of it is loaded again.
RemovalFails ==
    /\ TopAt("retry")
    /\ disk[Top.plugin].target # "none"
    /\ loaded' = loaded \cup {p \in {Top.plugin} : disk[p].target = "good"}
    /\ RemovalReturns(FALSE)
    /\ UNCHANGED << disk, listed, calls, lost, enriching, installBusy, catalogVars,
                    clicks >>

--------------------------------------------------------------------------------
InstallStep ==
    \/ PackageRefused \/ Staged \/ CopyFails \/ Copied
    \/ ReplaceFails \/ PlaceFails \/ Replaced
RemovalStep == Unloaded \/ Removed \/ RemovalFails
Answered == \E p \in Plugins : EnrichNoted(p)
Removal == RemovalRefused \/ RemovalBegins
Download == DownloadFails \/ Downloaded

Next ==
    \/ \E p \in Plugins :
           \/ WorkerStarts(p) \/ LoadStarts(p) \/ EnrichStarts(p)
           \/ InstallOfficial(p) \/ InstallFile(p) \/ UninstallPlugin(p)
    \/ CallReturns \/ Answered \/ HandleChanged
    \/ AutoUpdate \/ Download
    \/ InstallStep \/ RemovalStep \/ Removal

Spec == Init /\ [][Next]_vars

\* Plugin code returns, what is posted runs, timers fire, downloads and files end.
Fairness ==
    /\ WF_vars(CallReturns)
    /\ WF_vars(Answered)
    /\ WF_vars(HandleChanged)
    /\ WF_vars(Download)
    /\ WF_vars(InstallStep)
    /\ WF_vars(RemovalStep)
    /\ WF_vars(Removal)
FairSpec == Spec /\ Fairness

--------------------------------------------------------------------------------
(***************************************************************************)
(* Properties                                                              *)
(***************************************************************************)

\* Every variable has its type; only frames in a nested loop are below another, one
\* removal is under way at most, and no plugin is queued twice or queued and downloaded.
TypeOK ==
    /\ disk \in [Plugins -> Folders]
    /\ loaded \subseteq Plugins /\ listed \subseteq Plugins
    /\ calls \subseteq Plugins \X Kinds
    /\ lost \subseteq Kinds
    /\ enriching \subseteq Enriched
    /\ blocked \in BOOLEAN
    /\ changed \in Nat
    /\ stack \in Seq(Frames)
    /\ installBusy \in BOOLEAN
    /\ removing \in Plugins \cup {NoPlugin}
    /\ queue \in Seq(Plugins) /\ IsInjective(queue) /\ ~Contains(queue, installing)
    /\ installing \in Plugins \cup {NoPlugin}
    /\ update \in {"armed", "running", "over"}
    /\ clicks \in 0..MaxClicks
    /\ \A i \in DOMAIN stack :
           /\ i < Len(stack) => stack[i].at \in Loops
           /\ stack[i].at \in {"remove", "retry"} => stack[i].plugin = removing

\* No install, download, lookup or load in flight loses the library it runs in,
\* whichever installs and removals were nested in each other; only a load that a removal
\* has detached may.  (With the types.)
CallsFinish == TypeOK /\ lost \subseteq {"draining"}

\* A plugin that works is not lost by an install that cannot put its files in place:
\* a copy that loads is left, in its folder or beside it.  Only a removal and a
\* package that replaces it take it away.
Recoverable(p) == disk[p].target = "good" \/ disk[p].bak = "good"
WorkingKept ==
    [][\A p \in Plugins :
          disk[p].target = "good" /\ ~Recoverable(p)' =>
              \/ (TopAt("remove") \/ TopAt("retry")) /\ Top.plugin = p
              \/ disk[p].staging # "none" /\ disk'[p].target = disk[p].staging]_vars

\* When the user stops clicking, every install and removal comes to an end, the queue
\* is drained, and the lookups that were blocked for an unload are allowed again.
Settles ==
    <>[](/\ stack = <<>> /\ removing = NoPlugin
         /\ installing = NoPlugin /\ queue = <<>> /\ update # "running"
         /\ changed = 0 /\ ~blocked)

================================================================================
