----------------------------- MODULE InstallSession -----------------------------
(***************************************************************************)
(* InstallSessionService and the handlers of CoreController around it: how *)
(* a finished download of one game, and the downloads of its add-ons,      *)
(* become an installed game.  Installers are plugin workers that return    *)
(* later, when the row, the session or the game they were started for may  *)
(* be gone.                                                                *)
(*                                                                         *)
(* Downloads are seen from their ends only ("active" until they finish or  *)
(* fail); JobOrchestrator models the way there.  An add-on has one row,    *)
(* which a new download of it takes over.  loaded says that the plugin of  *)
(* the source is loaded and the game's row is in the merged catalog.       *)
(***************************************************************************)
EXTENDS Naturals, FiniteSets, FiniteSetsExt, JobStatus

CONSTANTS
    Jobs,         \* rows of the game itself: downloads, updates, verifications
    AddonCount,   \* add-ons of the game, in the order of the catalog
    Linked,       \* the add-ons with a download link; the others come with the game
    Versions,     \* the add-ons that are versions of one fix
    Selections,      \* the sets of add-ons the user may select for an installation
    MaxWorkers,   \* bound on the game installers alive at a time
    NoJob         \* no row

Addons == 1..AddonCount

ASSUME CountAssumption ==
    /\ AddonCount \in Nat
    /\ MaxWorkers \in Nat \ {0}
    /\ Linked \subseteq Addons
    /\ Versions \subseteq Linked
    /\ Selections \subseteq SUBSET Addons
    /\ NoJob \notin Jobs

VARIABLES
    owned,       \* the plugin of the source downloads and installs by itself
    loaded,
    job,         \* status of each row of the game
    downloading, \* the rows whose download runs, whatever their status says
    verifying,   \* the rows whose kind is Verify
    addonJob,    \* status of the row of each add-on
    files,       \* the downloads on disk: 0 is that of the game, a that of add-on a
    game,        \* the library row: "absent", "placeholder" or, with its folder, "installed"
    installed,   \* the components marked installed in the library row
    session,     \* m_installSessions (and m_installSelectedAddons) of the game
    installing,  \* the game is in m_installingEntries
    workers,     \* number of running installers of the game for each row
    addonWorker, \* the running installer of each add-on (m_installingAddons)
    disowned     \* history: cancelEntry ran since an installer was started

vars == << owned, loaded, job, downloading, verifying, addonJob, files, game, installed,
           session, installing,           workers, addonWorker, disowned >>

\* the game's own session: the row it reports to and what the user selected
Sessions == [job : Jobs, selected : SUBSET Addons, done : BOOLEAN]
NoSession == [job |-> NoJob, selected |-> {}, done |-> FALSE]

\* progress: the game row it reports to.  advances: its end goes on with the session.
AddonInstallers == [busy : {TRUE}, progress : Jobs \cup {NoJob}, advances : BOOLEAN]
NoAddonInstaller == [busy |-> FALSE, progress |-> NoJob, advances |-> FALSE]

\* An installer of the game is running / two of them are / another one may start.
Busy(n) == \E j \in Jobs : n[j] > 0
Crowded(n) == \E j \in Jobs : n[j] > 1 \/ \E k \in Jobs \ {j} : n[j] > 0 /\ n[k] > 0
Room(n) == MapThenSumSet(LAMBDA j : n[j], Jobs) < MaxWorkers

Init ==
    /\ owned \in BOOLEAN
    /\ loaded = TRUE
    /\ job = [j \in Jobs |-> "none"]
    /\ downloading = {}
    /\ verifying = {}
    /\ addonJob = [a \in Addons |-> "none"]
    /\ files = {}
    /\ game = "absent"
    /\ installed = {}
    /\ session = NoSession
    /\ installing = FALSE
    /\ workers = [j \in Jobs |-> 0]
    /\ addonWorker = [a \in Addons |-> NoAddonInstaller]
    /\ disowned = FALSE

--------------------------------------------------------------------------------
(***************************************************************************)
(* A handler runs a chain of calls.  State gathers what the chain changes, *)
(* the calls map a state to a state, and Become makes the result the next  *)
(* state.                                                                  *)
(***************************************************************************)
State ==
    [ job |-> job, downloading |-> downloading, addonJob |-> addonJob,
      files |-> files, game |-> game, installed |-> installed, session |-> session, installing |-> installing,
      workers |-> workers, addonWorker |-> addonWorker, disowned |-> disowned ]


\* A download no row refers to is as good as gone: the next one starts over.
Referred(s, f) ==
    IF f = 0 THEN \E j \in Jobs : Installable(s.job[j]) \/ s.job[j] = "installing"
    ELSE s.addonJob[f] \in {"completed", "installing"}

Become(s) ==
    /\ job' = s.job
    /\ downloading' = {j \in s.downloading : s.job[j] # "none"}
    /\ addonJob' = s.addonJob
    /\ files' = {f \in s.files : Referred(s, f)}
    /\ game' = s.game
    /\ installed' = s.installed
    /\ session' = s.session
    /\ installing' = s.installing
    /\ workers' = s.workers
    /\ addonWorker' = s.addonWorker
    /\ disowned' = (s.disowned /\ Busy(s.workers))

\* setJobPhase: nothing if the row is gone, whatever its status was
Phase(s, j, status) ==
    IF j = NoJob \/ s.job[j] = "none" THEN s ELSE [s EXCEPT !.job[j] = status]
AddonPhase(s, a, status) ==
    IF s.addonJob[a] = "none" THEN s ELSE [s EXCEPT !.addonJob[a] = status]

\* syncInstallSessionPhase
SyncPhase(s) == Phase(s, s.session.job, "installing")

\* resolveAddonArtifactPath
HasArtifact(s, a) == s.addonJob[a] = "completed" /\ a \in s.files

\* gameNeedsInstall
NeedsInstall(s) == s.game # "installed"

\* markCatalogAddonInstalled
MarkInstalled(s, as) ==
    [s EXCEPT !.installed = IF s.game = "absent" THEN @ ELSE @ \cup as]

\* reconcileJobInstallState.  The rows of add-ons come after those of their game.
Reconcile(s) ==
    LET childActive == \E a \in Addons : InProgress(s.addonJob[a])
    IN  [ s EXCEPT
            !.job = [j \in Jobs |->
                IF s.job[j] = "installing" /\ ~NeedsInstall(s) /\ ~childActive
                THEN "completed" ELSE s.job[j]],
            !.addonJob = [a \in Addons |->
                IF s.addonJob[a] = "installing" /\ a \in s.installed THEN "completed"
                ELSE s.addonJob[a]] ]

\* startPluginAddonInstall
StartAddon(s, a, progress, advances) ==
    IF s.addonWorker[a] # NoAddonInstaller \/ NeedsInstall(s) \/ ~loaded
    THEN s
    ELSE LET shown == IF s.addonJob[a] # "none" THEN AddonPhase(s, a, "installing")
                      ELSE IF s.session = NoSession THEN Phase(s, progress, "installing")
                      ELSE s
         IN  SyncPhase([shown EXCEPT !.addonWorker[a] =
                        [busy |-> TRUE, progress |-> progress, advances |-> advances]])

\* advanceInstallSession: the selected add-ons in order, up to the first that has
\* to be waited for or installed.
Advance(s) ==
    LET todo == s.session.selected \ s.installed
        stops == {a \in todo \cap Linked : HasArtifact(s, a) \/ InProgress(s.addonJob[a])}
        first == Min(stops)
        before == {a \in todo : stops = {} \/ a < first}
        shown == MarkInstalled(IF todo = {} THEN s ELSE SyncPhase(s), before)
    IN  IF s.session = NoSession \/ ~s.session.done \/ ~loaded
        THEN s
        ELSE IF stops = {}
        THEN Reconcile([Phase(shown, s.session.job, "completed") EXCEPT !.session = NoSession])
        ELSE IF HasArtifact(s, first)
        THEN StartAddon(shown, first, s.session.job, TRUE)
        ELSE shown

\* commitInstalledCatalogGame: every selected add-on is marked installed.  Earlier
\* ones are kept if the catalog, or the entry the worker was given, lists them.
Commit(s, addons) ==
    [ s EXCEPT !.game = "installed",
               !.installed = s.session.selected \cup IF loaded \/ addons THEN @ ELSE {} ]

\* The session goes on to its add-ons.
GameDone(s) == Advance(SyncPhase([s EXCEPT !.session.done = TRUE]))

\* clearSession
Cleared(s) == [s EXCEPT !.session = NoSession]

\* Mutant of StartInstall: nothing looks whether an installer runs.
StartInstallAgain(s, j) ==
    LET shown == IF s.session # NoSession THEN SyncPhase(s) ELSE Phase(s, j, "installing")
    IN  [shown EXCEPT !.installing = TRUE, !.workers[j] = @ + 1]

\* startPluginInstall of files some plugin can install
StartInstall(s, j) ==
    IF s.installing THEN s
    ELSE LET shown == IF s.session # NoSession THEN SyncPhase(s) ELSE Phase(s, j, "installing")
         IN  [shown EXCEPT !.installing = TRUE, !.workers[j] = @ + 1]

\* ensureLibraryPlaceholder
Placeholder(s) ==
    IF ~NeedsInstall(s) THEN s ELSE [s EXCEPT !.game = "placeholder"]

--------------------------------------------------------------------------------
\* What the user and the update check ask for

\* a row that is free to be a new job: nothing refers to an older one of its name
Fresh(j) ==
    /\ job[j] = "none"
    /\ session.job # j
    /\ workers[j] = 0
    /\ \A a \in Addons : addonWorker[a].progress # j

\* findActiveJobId, else createJob
Taken(j) ==
    IF \E k \in Jobs : InProgress(job[k]) THEN InProgress(job[j]) ELSE Fresh(j)

\* startAddonDownload: a row that failed is downloaded again, any other is kept
AddonStarted(s, as) ==
    [ s EXCEPT !.addonJob =
        [a \in Addons |-> IF a \in as /\ @[a] \in {"none", "failed"} THEN "active" ELSE @[a]] ]

\* pruneUnselectedAddonJobs: removeJob stops the download, not an installer
Pruned(s, selected) ==
    [ s EXCEPT !.addonJob =
        [a \in Addons |-> IF a \in selected THEN @[a] ELSE "none"] ]

Started(s, j) == [s EXCEPT !.job[j] = "active", !.downloading = @ \cup {j}]

\* installResolvedCatalogEntry, also the update of a game whose plugin downloads
Install(j, selected) ==
    /\ loaded
    /\ Taken(j)
    /\ LET started == IF job[j] = "none" THEN Started(State, j) ELSE State
           begun == [ Pruned(Placeholder(started), selected) EXCEPT
                        !.session = [job |-> j, selected |-> selected, done |-> FALSE] ]
       IN  Become(AddonStarted(begun, selected \cap Linked))
    /\ UNCHANGED <<owned, loaded, verifying>>

\* updateCatalogEntry and the automatic update of other games: no session
Update(j) ==
    /\ ~owned
    /\ loaded
    /\ ~NeedsInstall(State)
    /\ \A k \in Jobs : ~InProgress(job[k])
    /\ Fresh(j)
    /\ Become(Started(State, j))
    /\ UNCHANGED <<owned, loaded, verifying>>

\* verifyGameFiles: refused while anything of the game is in progress
Verify(j) ==
    /\ owned
    /\ loaded
    /\ ~NeedsInstall(State)
    /\ \A k \in Jobs : ~InProgress(job[k])
    /\ \A a \in Addons : ~InProgress(addonJob[a])
    /\ Fresh(j)
    /\ Become(Started(State, j))
    /\ verifying' = verifying \cup {j}
    /\ UNCHANGED <<owned, loaded>>

\* installCatalogAddon
InstallAddon(a) ==
    /\ loaded
    /\ a \in Linked
    /\ addonJob[a] \in {"none", "failed"}
    /\ Become(AddonStarted(State, {a}))
    /\ UNCHANGED <<owned, loaded, verifying>>

\* retryJob
RetryDownload(j) ==
    /\ job[j] \in {"failed", "installFailed"}
    /\ Become(Started(State, j))
    /\ UNCHANGED <<owned, loaded, verifying>>

\* clearFinishedJobs, pruneFinishedJobs
RemoveFinished(j) ==
    /\ Terminal(job[j])
    /\ Become([State EXCEPT !.job[j] = "none"])
    /\ verifying' = verifying \ {j}
    /\ UNCHANGED <<owned, loaded>>

\* cancelEntry: the session and the lock are forgotten; a running installer runs on
CancelEntry(s) == [Cleared(s) EXCEPT !.installing = FALSE, !.disowned = TRUE]

\* CoreController::cancelJob: the row goes, and with it the failed rows of the game
CancelJob(j) ==
    /\ InProgress(job[j])
    /\ LET gone == {j} \cup {k \in Jobs : job[k] \in {"failed", "installFailed"}}
       IN  /\ Become([ CancelEntry(State) EXCEPT
                        !.job = [k \in Jobs |-> IF k \in gone THEN "none" ELSE @[k]] ])
           /\ verifying' = verifying \ gone
    /\ UNCHANGED <<owned, loaded>>

\* removeJob of an add-on
RemoveAddonJob(a) ==
    /\ addonJob[a] # "none"
    /\ Become([State EXCEPT !.addonJob[a] = "none"])
    /\ UNCHANGED <<owned, loaded, verifying>>

\* LibraryController::removeGame: the rows of the game go, those of its add-ons,
\* the session and the installers stay
RemoveGame ==
    /\ game # "absent"
    /\ Become([State EXCEPT !.game = "absent", !.installed = {},
                            !.job = [k \in Jobs |-> "none"]])
    /\ verifying' = {}
    /\ UNCHANGED <<owned, loaded>>

\* retryInstall of a game row: first an add-on of an installed game, else the game.
\* A row nothing can be done for changes nothing.
RetryInstall(j) ==
    /\ Installable(job[j])
    /\ LET missing == {a \in Linked \ installed : HasArtifact(State, a)}
       IN  IF ~NeedsInstall(State) /\ loaded /\ missing # {}
           THEN Become(StartAddon(State, Min(missing), NoJob, FALSE))
           ELSE /\ 0 \in files
                /\ Room(workers)
                /\ Become(StartInstall(State, j))
    /\ UNCHANGED <<owned, loaded, verifying>>

\* retryInstall of an add-on row: installDownloadedCatalogAddon
RetryAddonInstall(a) ==
    /\ loaded
    /\ HasArtifact(State, a)
    /\ Become(StartAddon(State, a, NoJob, FALSE))
    /\ UNCHANGED <<owned, loaded, verifying>>

\* confirmManualInstall: the game is committed beside the session
ConfirmManual(j) ==
    /\ Installable(job[j])
    /\ NeedsInstall(State)
    /\ 0 \in files
    /\ Become(Phase(Commit(State, FALSE), j, "completed"))
    /\ UNCHANGED <<owned, loaded, verifying>>

--------------------------------------------------------------------------------
\* Ends of downloads and of installers

\* completePluginDownload; the plugin has installed the game already
OwnedFinished(s0, j) ==
    LET selection == [s0 EXCEPT !.session =
                        [job |-> j, selected |-> installed, done |-> FALSE]]
        begun == IF j \in verifying /\ game # "absent" THEN selection ELSE s0
        s == Commit(begun, TRUE)
        done == IF s.session # NoSession THEN GameDone(s) ELSE Phase(s, j, "completed")
    IN  IF j \in verifying THEN Phase(CancelEntry(done), j, "completed") ELSE done

\* downloadCompleted of a job whose files have to be installed; claimed: some plugin
\* can install them
FilesFinished(s, j, claimed) ==
    IF claimed THEN StartInstall(s, j)
    ELSE IF ~NeedsInstall(s) THEN Commit(s, FALSE)
    ELSE Placeholder(s)

DownloadFinished(j, claimed) ==
    /\ j \in downloading
    /\ Room(workers)
    /\ LET s == [State EXCEPT !.job[j] = "completed", !.downloading = @ \ {j}]
       IN  Become(IF owned THEN OwnedFinished(s, j)
                  ELSE FilesFinished([s EXCEPT !.files = @ \cup {0}], j, claimed))
    /\ verifying' = verifying \ {j}
    /\ UNCHANGED <<owned, loaded>>

DownloadFailed(j) ==
    /\ j \in downloading
    /\ Become([State EXCEPT !.job[j] = "failed", !.downloading = @ \ {j}])
    /\ UNCHANGED <<owned, loaded, verifying>>

\* onTorrentProgress: the label of the transport replaces what the row said
DownloadReports(j) ==
    /\ j \in downloading
    /\ Become([State EXCEPT !.job[j] = "active"])
    /\ UNCHANGED <<owned, loaded, verifying>>

\* onTorrentFinished or onHttpFinished of an add-on
AddonFinished(a) ==
    /\ addonJob[a] = "active"
    /\ Become(Advance([State EXCEPT !.addonJob[a] = "completed", !.files = @ \cup {a}]))
    /\ UNCHANGED <<owned, loaded, verifying>>

\* retryAddonWithSiblingVersion: the newest version nobody has tried, if any
AddonFailed(a) ==
    /\ addonJob[a] = "active"
    /\ LET untried == IF loaded /\ a \in Versions
                      THEN {b \in Versions \ {a} : addonJob[b] = "none"} ELSE {}
           failed == [State EXCEPT !.addonJob[a] = "failed"]
       IN  Become(IF untried = {} THEN failed ELSE AddonStarted(failed, {Max(untried)}))
    /\ UNCHANGED <<owned, loaded, verifying>>

\* The worker is gone and the game can be installed again.
Returned(j, success) ==
    [State EXCEPT !.workers[j] = @ - 1, !.installing = FALSE]

\* The callback of runInstallAsync.  Without a session the add-ons that were
\* downloaded are installed as well and report to the row of the game.  addons: the
\* CatalogEntry the worker was given lists the add-ons.
InstallerReturns(j, success, addons) ==
    LET s == Commit(Returned(j, success), addons)
        ready == {a \in Addons \ s.installed : HasArtifact(s, a) /\ addons
                                               /\ s.addonWorker[a] = NoAddonInstaller}
        withAddons ==
            [ s EXCEPT
                !.job = IF ready # {} /\ s.job[j] # "none"
                        THEN [s.job EXCEPT ![j] = "installing"] ELSE s.job,
                !.addonJob = [a \in Addons |-> IF a \in ready THEN "installing" ELSE @[a]],
                !.addonWorker = [a \in Addons |->
                    IF a \in ready
                    THEN [busy |-> TRUE, progress |-> j, advances |-> FALSE]
                    ELSE @[a]] ]
    IN  /\ workers[j] > 0
        /\ Become(IF ~success
                  THEN Cleared(Phase(Returned(j, success), j, "installFailed"))
                  ELSE Reconcile(IF s.session # NoSession THEN GameDone(s)
                                 ELSE Phase(withAddons, j, "completed")))
        /\ UNCHANGED <<owned, loaded, verifying>>

\* Mutant of AddonInstallerReturns: a failure leaves the add-on's row.
AddonInstallerReturnsSilently(a, success) ==
    /\ addonWorker[a] # NoAddonInstaller
    /\ LET s == [State EXCEPT !.addonWorker[a] = NoAddonInstaller]
           w == addonWorker[a]
           marked == AddonPhase(MarkInstalled(s, {a}), a, "completed")
       IN  Become(IF ~success THEN Cleared(Phase(s, w.progress, "completed"))
                  ELSE IF w.advances THEN Advance(marked) ELSE marked)
    /\ UNCHANGED <<owned, loaded, verifying>>

\* The callback of runAddonInstallAsync: a failure ends the session of the game.
AddonInstallerReturns(a, success) ==
    /\ addonWorker[a] # NoAddonInstaller
    /\ LET s == [State EXCEPT !.addonWorker[a] = NoAddonInstaller]
           w == addonWorker[a]
           marked == AddonPhase(MarkInstalled(s, {a}), a, "completed")
       IN  Become(IF ~success
                  THEN Cleared(Phase(AddonPhase(s, a, "completed"), w.progress, "completed"))
                  ELSE IF w.advances THEN Advance(marked) ELSE marked)
    /\ UNCHANGED <<owned, loaded, verifying>>

--------------------------------------------------------------------------------
\* Background work, plugins and restarts

\* cleanupDownloadArtifact works in the background, and the user has the folder of
\* the downloads too: a download may go at any time.
FilesDeleted(f) ==
    /\ f \in files
    /\ Become([State EXCEPT !.files = @ \ {f}])
    /\ UNCHANGED <<owned, loaded, verifying>>

\* pluginsChanged: the catalog of the source comes or goes, and rows are reconciled
PluginsChanged ==
    /\ loaded' \in BOOLEAN
    /\ Become(Reconcile(State))
    /\ UNCHANGED <<owned, verifying>>

\* Quit or crash, restoreJobs and runStartupMaintenance.  Downloads, and rows that
\* were installing, start again; a completed one may be installed now.
Restart ==
    LET restored ==
            [ State EXCEPT
                !.job = [j \in Jobs |-> IF @[j] = "installing" THEN "active" ELSE @[j]],
                !.addonJob = [a \in Addons |-> IF @[a] = "installing" THEN "active" ELSE @[a]],
                !.session = NoSession, !.installing = FALSE,
                !.workers = [j \in Jobs |-> 0],
                !.addonWorker = [a \in Addons |-> NoAddonInstaller] ]
        shown == IF \E j \in Jobs : InProgress(restored.job[j])
                 THEN Placeholder(restored) ELSE restored
        resumed == [shown EXCEPT !.downloading = {j \in Jobs : InProgress(shown.job[j])}]
        pending == {j \in Jobs : shown.job[j] = "completed"}
    IN  /\ loaded' \in BOOLEAN
        /\ \/ Become(resumed)
           \/ /\ NeedsInstall(shown)
              /\ 0 \in files
              /\ \E j \in pending : Become(StartInstall(resumed, j))
        /\ UNCHANGED <<owned, verifying>>

Next ==
    \/ \E j \in Jobs, selected \in Selections : Install(j, selected)
    \/ \E j \in Jobs : \/ Update(j) \/ Verify(j) \/ RetryDownload(j) \/ RemoveFinished(j)
                       \/ CancelJob(j) \/ RetryInstall(j) \/ ConfirmManual(j)
                       \/ DownloadFailed(j) \/ DownloadReports(j)
    \/ \E j \in Jobs, claimed \in BOOLEAN : DownloadFinished(j, claimed)
    \/ \E a \in Addons : \/ InstallAddon(a) \/ RemoveAddonJob(a) \/ RetryAddonInstall(a)
                         \/ AddonFinished(a) \/ AddonFailed(a)
    \/ \E a \in Addons, success \in BOOLEAN : AddonInstallerReturns(a, success)
    \/ \E j \in Jobs, success, addons \in BOOLEAN : InstallerReturns(j, success, addons)
    \/ RemoveGame
    \/ \E f \in files : FilesDeleted(f)
    \/ PluginsChanged
    \/ Restart

Spec == Init /\ [][Next]_vars

--------------------------------------------------------------------------------
(***************************************************************************)
(* Properties                                                              *)
(***************************************************************************)

\* Every variable has its type.  A game that is not in the library has no
\* components, and rows are verified only by a plugin that downloads itself.
TypeOK ==
    /\ owned \in BOOLEAN
    /\ loaded \in BOOLEAN
    /\ job \in [Jobs -> Statuses]
    /\ downloading \in SUBSET Jobs
    /\ verifying \in SUBSET Jobs
    /\ addonJob \in [Addons -> Statuses]
    /\ files \in SUBSET ({0} \cup Addons)
    /\ game \in {"absent", "placeholder", "installed"}
    /\ installed \in SUBSET Addons
    /\ session \in Sessions \cup {NoSession}
    /\ installing \in BOOLEAN
    /\ workers \in [Jobs -> Nat]
    /\ addonWorker \in [Addons -> AddonInstallers \cup {NoAddonInstaller}]
    /\ disowned \in BOOLEAN
    /\ game = "absent" => installed = {}

\* Two installers write the same game only after the user cancelled while the
\* first one ran: the lock holds in every other history.
OneInstaller == TypeOK /\ (Crowded(workers) => disowned)

\* What says "installing" has an installer that will end it: the lock of a game
\* (m_installingEntries), which would refuse every installation until a restart, and the
\* row of an add-on, which would wait for a callback nobody makes.
InstallingDriven ==
    /\ installing => Busy(workers)
    /\ \A a \in Addons : addonJob[a] = "installing" => addonWorker[a] # NoAddonInstaller

================================================================================
