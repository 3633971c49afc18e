-------------------------------- MODULE CatalogLoad --------------------------------
(***************************************************************************)
(* CatalogController and its CatalogFeedLoader: how the catalogs of the    *)
(* enabled sources are read from disk, from their plugins and over HTTP,   *)
(* kept per source, and merged into the list that is shown.                *)
(*                                                                         *)
(* All handlers run on the UI thread; disk reads, plugin loads, the        *)
(* preparation of rows and merges run in workers whose ends are handlers.  *)
(* A catalog is the version of its content.  Every plugin has the          *)
(* catalog-source extension.  The catalog page is alive, so a change of    *)
(* the sources selects the enabled ones at once.                           *)
(***************************************************************************)
EXTENDS Integers, Sequences, FiniteSets, Bags, SequencesExt, Filters

CONSTANTS
    SourceCount,  \* sources, in the order of their list
    Plugins,      \* the sources that are plugins
    Linked,       \* the sources with a catalog URL: all manual ones and some plugins
    MaxVersion,   \* bound on the versions of a catalog
    MaxClicks,    \* bound on what the user does
    MaxTicks,     \* bound on catalogs changing and becoming older than their time to live
    Faults        \* the incidents after which the code leaves a load undone

Sources == 1..SourceCount
AllFaults == {"timeout", "hollow payload", "removal refused", "failure of another",
              "unchanged without rows", "request cut off"}

ASSUME SourceAssumption ==
    /\ SourceCount \in Nat
    /\ MaxVersion \in Nat \ {0} /\ MaxClicks \in Nat /\ MaxTicks \in Nat
    /\ Plugins \subseteq Sources
    /\ Sources \ Plugins \subseteq Linked /\ Linked \subseteq Sources
    /\ Faults \subseteq AllFaults

VARIABLES
    enabled,   \* what the settings say of each source
    present,   \* the plugins that are loaded
    server,    \* the version each source offers
    disk,      \* the version in the disk cache; 0: nothing, Hollow: a payload without rows
    active,    \* m_activeSourceIds
    rows,      \* m_catalogBySource; 0: emptied after its rows moved to the merged list
    stamp,     \* m_sourceLoadedAtMs against the time to live
    sha,       \* m_sourcePayloadSha: the version it is the fingerprint of, 0 for none
    loading,   \* m_loadingSourceIds
    queue,     \* m_catalogLoadQueue
    http,      \* m_catalogHttpLoadActive
    feed,      \* the one request of the feed loader
    tasks,     \* m_inFlightPluginCatalogWatchers
    merge,     \* what the newest merge in a worker works on
    merged,    \* m_mergedCache by source; 0: only the first rows of a first download
    preview,   \* m_previewActive
    removing,  \* the plugin that is being removed
    clicks, ticks

vars == << enabled, present, server, disk, active, rows, stamp, sha, loading, queue, http,
           feed, tasks, merge, merged, preview, removing, clicks, ticks >>

None == 0                  \* no version, no source
Hollow == MaxVersion + 1
NotYet == -1
NoRows == << >>            \* the function without arguments
NoFeed == [source |-> None, etag |-> None]
Feeds == [source : Sources, etag : 0..MaxVersion]
\* got: NotYet while the worker runs, then what it found.  first: first rows may come early.
Tasks == [kind : {"disk", "plugin", "check", "prepare"}, source : Sources,
          known : 0..MaxVersion, got : NotYet..Hollow, first : BOOLEAN]

Listed == present \cup (Sources \ Plugins)

Init ==
    /\ enabled \in SUBSET Sources
    /\ present = Plugins
    /\ server = [s \in Sources |-> 1]
    /\ disk \in [Sources -> {None, 1} \cup (IF "hollow payload" \in Faults THEN {Hollow} ELSE {})]
    /\ active = {}
    /\ rows = NoRows
    /\ stamp = [s \in Sources |-> "none"]
    /\ sha = [s \in Sources |-> None]
    /\ loading = {}
    /\ queue = << >>
    /\ http = FALSE
    /\ feed = NoFeed
    /\ tasks = EmptyBag
    /\ merge = NoRows
    /\ merged = NoRows
    /\ preview = FALSE
    /\ removing = None
    /\ clicks = 0
    /\ ticks = 0

--------------------------------------------------------------------------------
(***************************************************************************)
(* A handler is a chain of calls.  State gathers what the chain changes,   *)
(* each call maps a state to a state, Become makes the result the next one.*)
(***************************************************************************)
State ==
    [ present |-> present, disk |-> disk, active |-> active, rows |-> rows, stamp |-> stamp, sha |-> sha,
      loading |-> loading, queue |-> queue, http |-> http, feed |-> feed, tasks |-> tasks,
      merge |-> merge, merged |-> merged, preview |-> preview ]

Become(st) ==
    /\ present' = st.present
    /\ disk' = st.disk
    /\ active' = st.active
    /\ rows' = st.rows
    /\ stamp' = st.stamp
    /\ sha' = st.sha
    /\ loading' = st.loading
    /\ queue' = st.queue
    /\ http' = st.http
    /\ feed' = st.feed
    /\ tasks' = st.tasks
    /\ merge' = st.merge
    /\ merged' = st.merged
    /\ preview' = st.preview

Put(f, s, v) == [x \in DOMAIN f \cup {s} |-> IF x = s THEN v ELSE f[x]]
Has(st, s) == s \in DOMAIN st.rows

\* isSourceCacheFresh
Fresh(st, s) == Has(st, s) /\ st.stamp[s] = "fresh"

\* the row of a source and its time stamp are dropped
Forget(st, s) ==
    [st EXCEPT !.rows = Restrict(@, DOMAIN @ \ {s}), !.stamp[s] = "none"]

\* The load of a source ended without new rows.
Touch(st, s) == [st EXCEPT !.stamp[s] = "fresh", !.loading = @ \ {s}]

One(task) == SetToBag({task})
Watch(st, kind, s, got, first) ==
    [st EXCEPT !.tasks = @ (+) One([kind |-> kind, source |-> s, known |-> st.sha[s],
                                    got |-> got, first |-> first])]

\* loadFeed: the request before it is cancelled
LoadFeed(st, s, etag) == [st EXCEPT !.feed = [source |-> s, etag |-> etag]]

Etag(st, s) == IF st.disk[s] = Hollow THEN None ELSE st.disk[s]

HttpLoad(st, s) == LoadFeed([st EXCEPT !.http = TRUE], s, Etag(st, s))

\* loadCatalogSourceNowFromNetwork.  Without a URL only a plugin that is gone comes here.
FromNetwork(st, s) ==
    CASE s \in st.present -> Watch(st, "plugin", s, NotYet, ~Has(st, s) /\ st.merged = NoRows)
      [] s \notin st.present /\ s \in Linked -> HttpLoad(st, s)
      [] OTHER -> [st EXCEPT !.loading = @ \ {s}]

\* loadCatalogSourceNow
LoadNow(st, s) ==
    IF Has(st, s) \/ st.disk[s] = None THEN FromNetwork(st, s)
    ELSE Watch(st, "disk", s, NotYet, FALSE)

\* processCatalogLoadQueue: goes on to the first source that is not fresh
ProcessQueue(st) ==
    LET i == SelectInSeq(st.queue, LAMBDA s : ~Fresh(st, s))
        s == st.queue[i]
        taken == [Forget(st, s) EXCEPT !.queue = SubSeq(@, i + 1, Len(@))]
    IN  CASE st.http -> st
          [] ~st.http /\ i = 0 -> [st EXCEPT !.queue = << >>]
          [] OTHER -> IF s \in st.loading \cap st.present THEN taken ELSE LoadNow(taken, s)

Queued(st, s) == [st EXCEPT !.queue = IF Contains(@, s) THEN @ ELSE Append(@, s)]

\* requestCatalogLoad
Request(st, s) ==
    LET dropped == IF Has(st, s) THEN Forget(st, s) ELSE st
        started == [dropped EXCEPT !.loading = @ \cup {s}]
    IN  CASE Fresh(st, s) -> st
          [] ~Fresh(st, s) /\ s \in st.loading -> Queued(dropped, s)
          [] OTHER -> IF s \in st.present THEN LoadNow(started, s)
                      ELSE ProcessQueue(Queued(started, s))

\* A call for each of these sources, in the order of the list
Each(S, st, Call(_, _)) ==
    LET after[k \in 0..SourceCount] ==
            IF k = 0 THEN st ELSE IF k \in S THEN Call(after[k - 1], k) ELSE after[k - 1]
    IN  after[SourceCount]

Mergeable(st) == {s \in st.active : Has(st, s) /\ st.rows[s] # None}

\* rebuildMergedCatalog: loads what is missing and starts a merge of what is there
Missing(st, s) ==
    LET evacuated == Has(st, s) /\ st.rows[s] = None /\ Cardinality(st.active) > 1
        kept == IF evacuated THEN Forget(st, s) ELSE st
    IN  IF (~Has(st, s) \/ evacuated) /\ s \notin st.loading THEN Request(kept, s) ELSE kept
Rebuild(st) ==
    LET asked == Each(st.active, st, Missing)
    IN  IF st.active = {} THEN [st EXCEPT !.merge = NoRows, !.merged = NoRows]
        ELSE IF Mergeable(asked) = {} THEN asked
        ELSE [asked EXCEPT !.merge = Restrict(asked.rows, Mergeable(asked))]

\* Mutant of Store: the list is not built again.
StoreOnly(st, s, v) == [Touch(st, s) EXCEPT !.rows = Put(@, s, v)]

\* storeCatalogForSource
Store(st, s, v) ==
    LET stored == [Touch(st, s) EXCEPT !.rows = Put(@, s, v)]
    IN  IF s \in st.active THEN Rebuild(stored) ELSE stored

\* dropCatalogPreview: a merge that is under way is given up, too
DropPreview(st) ==
    IF st.preview THEN [st EXCEPT !.preview = FALSE, !.merge = NoRows, !.merged = NoRows]
    ELSE st

\* revalidateCatalogSource
Revalidate(st, s, etag) ==
    LET cold == [st EXCEPT !.http = TRUE, !.loading = @ \cup {s}]
    IN  CASE s \in st.present -> Watch(st, "check", s, NotYet, FALSE)
          [] s \notin st.present /\ s \in Linked ->
                LoadFeed(IF Has(st, s) THEN st ELSE cold, s, etag)
          [] OTHER -> st

\* refreshCatalog
RefreshSource(st, s) ==
    LET wiped == [Forget(st, s) EXCEPT !.sha[s] = None, !.disk[s] = None,
                                       !.loading = @ \ {s}, !.queue = Only(@, Sources \ {s})]
    IN  IF s \in st.active THEN Request(wiped, s) ELSE wiped

\* selectAllEnabledSources
SelectAll(st) ==
    LET selected == enabled' \cap (st.present \cup (Sources \ Plugins))
    IN  IF selected = st.active THEN st ELSE Rebuild([st EXCEPT !.active = selected])

\* ensureActiveSourceCatalogs
EnsureActive(st) ==
    LET many == Cardinality(st.active) > 1
        Lacks(s) ==
            \/ ~Has(st, s) /\ (many \/ st.merged = NoRows \/ st.stamp[s] = "none")
            \/ Has(st, s) /\ many /\ st.rows[s] = None
    IN  IF st.active = {}
        THEN IF st.merged # NoRows THEN Rebuild(st) ELSE st
        ELSE IF \E s \in st.active : Lacks(s) THEN Rebuild(st) ELSE st

\* detachInFlightPluginCatalogLoads, waitForInFlightPluginCatalogLoads: the results are lost
Detach(st) ==
    [st EXCEPT !.tasks = EmptyBag, !.loading = {}, !.http = @ /\ st.loading = {}]

--------------------------------------------------------------------------------
(***************************************************************************)
(* The user                                                                *)
(***************************************************************************)
Click == clicks < MaxClicks /\ clicks' = clicks + 1

\* startCatalogLoadEarly and the first timer of CoreController
Start ==
    /\ active # enabled \cap Listed
    /\ removing = None
    /\ UNCHANGED << enabled, server, removing, clicks, ticks >>
    /\ Become(EnsureActive(SelectAll(State)))

\* the switch of a source in the settings, with CatalogPage's onSourcesChanged
Toggle(s) ==
    /\ Click
    /\ s \in Listed
    /\ enabled' = IF s \in enabled THEN enabled \ {s} ELSE enabled \cup {s}
    /\ UNCHANGED << server, removing, ticks >>
    /\ Become(SelectAll(State))

\* refreshSelectedCatalogs, and checkUpdates when nothing is shown
Refresh ==
    /\ Click
    /\ \/ Become(Each(active, State, RefreshSource))
       \/ /\ merged = NoRows
          /\ \E s \in enabled \cap Listed :
                /\ \A other \in enabled \cap Listed : s <= other
                /\ Become(RefreshSource(State, s))
    /\ UNCHANGED << enabled, server, removing, ticks >>

\* invalidateSourceCatalog, when a manual source is edited
Edit(s) ==
    /\ Click
    /\ s \notin Plugins
    /\ LET wiped == [Forget(State, s) EXCEPT !.sha[s] = None]
       IN  Become(IF s \in active THEN Rebuild(wiped) ELSE wiped)
    /\ UNCHANGED << enabled, server, removing, ticks >>

\* installCatalogEntry of a game the catalog does not list
RequestLoad(s) ==
    /\ Click
    /\ s \in Listed
    /\ Become(Request(State, s))
    /\ UNCHANGED << enabled, server, removing, ticks >>

\* uninstallPlugin of CoreController, until what runs has drained
RemovalBegins(p) ==
    /\ Click
    /\ removing = None
    /\ p \in present
    /\ removing' = p
    /\ Become(Detach(State))
    /\ UNCHANGED << enabled, server, ticks >>

\* uninstallPlugin of PluginHost with the handler of pluginsChanged.  The plugin is loaded
\* again if its files stay, and stays when it downloads or installs something: the host
\* refuses, and pluginsChanged is not emitted.
RemovalEnds ==
    /\ removing # None
    /\ removing' = None
    /\ UNCHANGED << enabled, server, clicks, ticks >>
    /\ \E refused \in {FALSE} \cup {"removal refused" \in Faults},
          left \in {present, present \ {removing}} :
          Become(IF refused THEN State
                 ELSE EnsureActive(SelectAll([Detach(State) EXCEPT !.present = left])))

\* A plugin is installed or updated: the hook before the unload, then pluginsChanged.
PluginInstalled(p) ==
    /\ Click
    /\ removing = None
    /\ UNCHANGED << enabled, server, removing, ticks >>
    /\ LET unloaded == IF p \in present THEN Detach(State) ELSE State
       IN  Become(EnsureActive(SelectAll([unloaded EXCEPT !.present = @ \cup {p}])))

--------------------------------------------------------------------------------
(***************************************************************************)
(* Time and the sources                                                    *)
(***************************************************************************)
Outside == UNCHANGED << enabled, server, removing, clicks, ticks >>

\* The loader has one request: the next one cancels it, and nobody is told.
CutOff(request) ==
    /\ request.source \notin {None, feed'.source} /\ feed'.source # None
    /\ request.source \notin DOMAIN rows'
Whole == CutOff(feed) => "request cut off" \in Faults

Publish(s) ==
    /\ ticks < MaxTicks /\ server[s] < MaxVersion
    /\ ticks' = ticks + 1
    /\ server' = [server EXCEPT ![s] = @ + 1]
    /\ UNCHANGED << enabled, removing, clicks >>
    /\ Become(State)

Expire(s) ==
    /\ ticks < MaxTicks
    /\ ticks' = ticks + 1
    /\ stamp[s] = "fresh"
    /\ stamp' = [stamp EXCEPT ![s] = "stale"]
    /\ UNCHANGED << enabled, present, server, disk, active, rows, sha, loading, queue, http,
                    feed, tasks, merge, merged, preview, removing, clicks >>

\* refreshStaleSources, once a minute: an answer takes less
Stale == {s \in active : Has(State, s) /\ ~Fresh(State, s) /\ s \notin loading}
Asked(s) == feed.source = s \/ \E t \in DOMAIN tasks : t.source = s
RefreshStale ==
    /\ Stale # {} /\ \A s \in Stale : ~Asked(s)
    /\ Become(Each(Stale, State, LAMBDA st, s : Revalidate(st, s, None)))
    /\ Whole
    /\ Outside

--------------------------------------------------------------------------------
(***************************************************************************)
(* The feed loader                                                         *)
(***************************************************************************)

\* Mutant of FeedEnds: the next load waits for the one that ended.
FeedEndsBusy(st) == [st EXCEPT !.feed = NoFeed]

\* Ends of a request that leave no worker; the rest of the queue follows.
FeedEnds(st) == [st EXCEPT !.http = FALSE, !.feed = NoFeed]

\* feedNotModified; feedLoaded, whose payload is on disk by then
FeedAnswers(s) ==
    /\ feed.source = s
    /\ feed.etag = server[s] /\ ~Has(State, s) => "unchanged without rows" \in Faults
    /\ LET v == server[s]
           saved == [FeedEnds(State) EXCEPT !.disk[s] = v]
       IN  Become(IF feed.etag = v THEN ProcessQueue(Touch(FeedEnds(State), s))
                  ELSE IF sha[s] = v /\ Has(State, s) THEN ProcessQueue(Touch(saved, s))
                  ELSE Watch([saved EXCEPT !.sha[s] = v], "prepare", s, v, FALSE))
    /\ Outside

\* Mutant of Failed: the source is not asked again.
FailedQuietly(st, s) == DropPreview([st EXCEPT !.loading = @ \ {s}])

\* feedFailed
Failed(st, s) ==
    LET dropped == DropPreview([st EXCEPT !.loading = @ \ {s}])
    IN  IF s \in st.active THEN Rebuild(dropped) ELSE dropped
\* A time limit ends the request as a cancelled one: no handler is called.
FeedFails(s) ==
    /\ feed.source = s
    /\ preview /\ s \notin active => "failure of another" \in Faults
    /\ \E limit \in {FALSE} \cup {"timeout" \in Faults} :
          Become(IF limit THEN [State EXCEPT !.feed = NoFeed]
                 ELSE ProcessQueue(Failed(FeedEnds(State), s)))
    /\ Outside

--------------------------------------------------------------------------------
(***************************************************************************)
(* Workers and their ends                                                  *)
(***************************************************************************)
Running(s) == {t \in DOMAIN tasks : t.source = s /\ t.got = NotYet}
Ended(s, kind) == {t \in DOMAIN tasks : t.source = s /\ t.kind = kind /\ t.got # NotYet}

Result(t, v) ==
    [State EXCEPT !.tasks = (@ (-) One(t)) (+) One([t EXCEPT !.got = v])]

\* the worker of loadCatalogSourceNow
DiskRead(s) ==
    /\ \E t \in Running(s) : t.kind = "disk" /\ Become(Result(t, disk[s]))
    /\ Outside

\* loadPluginCatalogEntries: the source's content, saved to disk
PluginLoads(s) ==
    /\ \E t \in Running(s) :
          /\ t.kind # "disk"
          /\ Become([Result(t, server[s]) EXCEPT !.disk[s] = server[s]])
    /\ Outside

\* It fails; what was downloaded before is used, if there is any.
PluginFails(s) ==
    /\ \E t \in Running(s) :
          /\ t.kind # "disk"
          /\ \/ Become(Result(t, Etag(State, s)))
             \/ /\ "hollow payload" \in Faults
                /\ Become([Result(t, None) EXCEPT !.disk[s] = Hollow])
    /\ Outside

Without(t) == [State EXCEPT !.tasks = @ (-) One(t)]

\* the end of the disk worker.  A cache past its time to live is checked.
DiskLoaded(s) ==
    /\ \E t \in Ended(s, "disk") :
          LET stored == Store([Without(t) EXCEPT !.sha[s] = t.got], s, t.got)
          IN  CASE t.got = None -> Become(FromNetwork(Without(t), s))
                [] t.got = Hollow -> Become(Without(t))
                [] OTHER -> \/ Become(stored)
                            \/ /\ s \notin stored.loading
                               /\ Become(Revalidate(stored, s, t.got))
                               /\ CutOff(stored.feed) => "request cut off" \in Faults
    /\ Whole
    /\ Outside

\* A plugin was loaded to rows / its source is what the caller knew.
GotRows(t) == t.got # None /\ t.got # t.known
Unchanged(t) == t.got # None /\ t.got = t.known /\ sha[t.source] = t.got

\* the end of the worker of loadCatalogSourceNowFromNetwork
PluginLoaded(s) ==
    /\ \E t \in Ended(s, "plugin") :
          LET st == Without(t)
          IN  /\ Unchanged(t) /\ ~Has(st, s) => "unchanged without rows" \in Faults
              /\ Become(
                IF Unchanged(t) \/ (GotRows(t) /\ sha[s] = t.got /\ Has(st, s))
                THEN ProcessQueue(Touch(st, s))
                ELSE IF GotRows(t) THEN Store([st EXCEPT !.sha[s] = t.got], s, t.got)
                ELSE IF s \in Linked THEN HttpLoad(st, s)
                ELSE Rebuild(DropPreview([st EXCEPT !.loading = @ \ {s}])))
    /\ Whole
    /\ Outside

\* the end of the worker of revalidateCatalogSource
PluginChecked(s) ==
    /\ \E t \in Ended(s, "check") :
          LET st == Without(t)
          IN  /\ (Unchanged(t) \/ (GotRows(t) /\ sha[s] = t.got)) /\ ~Has(st, s)
                    => "unchanged without rows" \in Faults
              /\ Become(
                IF Unchanged(t) \/ (GotRows(t) /\ sha[s] = t.got)
                THEN [st EXCEPT !.stamp[s] = "fresh"]
                ELSE IF GotRows(t) THEN Store([st EXCEPT !.sha[s] = t.got], s, t.got)
                ELSE st)
    /\ Outside

\* the end of the worker of feedLoaded
Prepared(s) ==
    /\ \E t \in Ended(s, "prepare") : Become(ProcessQueue(Store(Without(t), s, t.got)))
    /\ Outside

\* applyCatalogPreview, posted by the worker of a first download
PreviewArrives(s) ==
    /\ \E t \in DOMAIN tasks :
          /\ t.source = s /\ t.first
          /\ LET st == [State EXCEPT !.tasks = (@ (-) One(t)) (+) One([t EXCEPT !.first = FALSE])]
             IN  Become(
                   IF s \in loading /\ ~Has(st, s) /\ merged = NoRows /\ active = {s}
                   THEN [st EXCEPT !.preview = TRUE, !.merge = NoRows, !.merged = Put(NoRows, s, None)]
                   ELSE st)
    /\ Outside

\* applyMergedCatalogResult.  The rows of an only source move to the merged list.
Evacuated(st) ==
    IF \E s \in st.active : st.active = {s} /\ Has(st, s)
    THEN [st EXCEPT !.rows = [s \in DOMAIN @ |-> IF s \in st.active THEN None ELSE @[s]]]
    ELSE st
MergeEnds ==
    /\ merge # NoRows
    /\ LET swapped == [State EXCEPT !.merged = merge, !.merge = NoRows, !.preview = FALSE]
       IN  Become(IF active \cap loading # {} THEN swapped ELSE Evacuated(swapped))
    /\ Outside

--------------------------------------------------------------------------------
UserStep ==
    \/ Refresh
    \/ \E s \in Sources : Toggle(s) \/ Edit(s) \/ RequestLoad(s)
    \/ \E p \in Plugins : RemovalBegins(p) \/ PluginInstalled(p)

LoadStep(s) ==
    \/ FeedAnswers(s) \/ FeedFails(s)
    \/ DiskRead(s) \/ PluginLoads(s) \/ PluginFails(s)
    \/ DiskLoaded(s) \/ PluginLoaded(s) \/ PluginChecked(s) \/ Prepared(s)
    \/ PreviewArrives(s)

Next ==
    \/ Start \/ UserStep
    \/ \E s \in Sources : Publish(s) \/ Expire(s) \/ LoadStep(s)
    \/ RemovalEnds \/ RefreshStale \/ MergeEnds

(***************************************************************************)
(* The event loop goes on: as long as something is posted, some handler    *)
(* runs (a removal waits 30 s at most), and workers return: weak fairness. *)
(* A source that is asked again and again answers at last: strong.  A      *)
(* handler can run whenever its guard holds, so Posted and the feed stand  *)
(* for ENABLED, which takes TLC too long to evaluate.                      *)
(***************************************************************************)
Posted ==
    \/ active # enabled \cap Listed
    \/ removing # None
    \/ merge # NoRows
    \/ \E t \in DOMAIN tasks : t.got # NotYet

Handler ==
    \/ Start \/ RemovalEnds \/ MergeEnds
    \/ \E s \in Sources : DiskLoaded(s) \/ PluginLoaded(s) \/ PluginChecked(s) \/ Prepared(s)

Fairness ==
    /\ []<>~Posted \/ []<><<Handler>>_vars
    /\ \A s \in Sources :
          /\ WF_vars(DiskRead(s)) /\ SF_vars(PluginLoads(s))
          /\ <>[](feed.source # s) \/ []<><<FeedAnswers(s)>>_vars

Spec == Init /\ [][Next]_vars /\ Fairness

--------------------------------------------------------------------------------
(***************************************************************************)
(* Properties                                                              *)
(***************************************************************************)
Versions == 1..MaxVersion

TypeOK ==
    /\ enabled \subseteq Sources /\ present \subseteq Plugins /\ active \subseteq Sources
    /\ server \in [Sources -> Versions]
    /\ disk \in [Sources -> 0..Hollow]
    /\ DOMAIN rows \subseteq Sources /\ rows \in [DOMAIN rows -> 0..MaxVersion]
    /\ stamp \in [Sources -> {"none", "stale", "fresh"}]
    /\ sha \in [Sources -> 0..MaxVersion]
    /\ loading \subseteq Sources
    /\ queue \in Seq(Sources) /\ IsInjective(queue)
    /\ http \in BOOLEAN /\ preview \in BOOLEAN
    /\ feed \in Feeds \cup {NoFeed}
    /\ DOMAIN tasks \subseteq Tasks /\ \A t \in DOMAIN tasks : tasks[t] \in Nat \ {0}
    /\ DOMAIN merge \subseteq Sources /\ merge \in [DOMAIN merge -> Versions]
    /\ DOMAIN merged \subseteq Sources /\ merged \in [DOMAIN merged -> 0..MaxVersion]
    /\ removing \in Plugins \cup {None}
    /\ clicks \in 0..MaxClicks /\ ticks \in 0..MaxTicks

(***************************************************************************)
(* A source that is shown has its rows, or is loaded by a worker or by the *)
(* request, or waits in the queue, whatever empties rows, forgets loads or *)
(* ends them.  (That the queue goes on is part of Settles.)                *)
(***************************************************************************)
Loads(st, s) ==
    \/ st.http /\ st.feed.source = s
    \/ \E t \in DOMAIN st.tasks : t.source = s /\ t.kind # "check"
NothingForgotten ==
    removing = None =>
        \A s \in active : Has(State, s) \/ Loads(State, s) \/ Contains(queue, s)

(***************************************************************************)
(* With no merge under way, the list shows the rows that are stored of     *)
(* every source that is shown.  (With the types.)                          *)
(***************************************************************************)
ShownIsStored ==
    /\ TypeOK
    /\ merge = NoRows =>
        \A s \in active : Has(State, s) /\ rows[s] # None
            => s \in DOMAIN merged /\ merged[s] = rows[s]

(***************************************************************************)
(* When the user has stopped, the loads come to an end: nothing says       *)
(* "loading" any more and every source that is shown has its rows.  Three  *)
(* sources break it: the queue stops behind one whose cache is read.       *)
(***************************************************************************)
Settles ==
    <>[](loading = {} /\ ~http /\ \A s \in active : Has(State, s))

================================================================================
