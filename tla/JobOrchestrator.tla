---------------------------- MODULE JobOrchestrator ----------------------------
(***************************************************************************)
(* Download and install jobs: JobOrchestrator with the JobStore and the    *)
(* JobModel it keeps, the transports it drives (libtorrent session, HTTP   *)
(* session, TorBox session, Hydra link resolvers, plugin-owned workers,    *)
(* library moves), and the façade handlers that call it.                   *)
(*                                                                         *)
(* One action is one handler run to completion on the UI thread: a user    *)
(* command, a signal from a transport, a timer, or a restart of the        *)
(* program.  A job identifier is a fresh UUID in the code, so an element   *)
(* of Jobs is created at most once.                                        *)
(*                                                                         *)
(* The JobStore entry and the JobModel row of a job always carry the same  *)
(* fields: every handler writes one JobEntry to both, and the fields the   *)
(* model has no role for are read back from the store (jobFromModelRow).   *)
(* So one function, store, holds the entries, and rows is the set of jobs  *)
(* the JobModel lists; the end of a library move is the one handler that   *)
(* can write an entry without a row.                                       *)
(***************************************************************************)
EXTENDS Naturals, FiniteSets, JobStatus

CONSTANTS
    Jobs,      \* job identifiers
    Entries,   \* catalog entries (games)
    EntryOf,   \* the entry of each job
    LinkOf,    \* the link each job is created with
    Labels,    \* status labels libtorrent reports for a torrent
    Slots      \* maxConcurrentDownloads

Links == {"magnet", "http", "hydra", "plugin", "move"}

ASSUME EntryAssumption == EntryOf \in [Jobs -> Entries]
ASSUME LinkAssumption  == LinkOf \in [Jobs -> Links]
ASSUME LabelAssumption == Labels \subseteq {"active", "queued"}
ASSUME SlotAssumption  == Slots \in Nat \ {0}

VARIABLES
    store,            \* JobStore::m_jobs: the entry of each job
    rows,             \* jobs listed by the JobModel
    disk,             \* jobs.json, as of the last save()
    dirty,            \* m_dirty, and m_persistTimer armed
    kinds,            \* keys of m_jobKinds
    created,          \* job identifiers handed out so far
    torrents,         \* TorrentSession: jobs with a torrent handle
    pausedTorrents,   \* TorrentSession::pausedJobs
    replies,          \* HttpDownloadSession: jobs with a network reply
    transfers,        \* TorBoxDownloadSession::m_transfers, by stage
    resolvers,        \* m_hydraResolvers
    workers,          \* jobs with a plugin-owned download worker running
    stopping,         \* of these, the ones told to cancel
    movers,           \* move jobs with a copy worker running
    installs,         \* jobs whose installer worker is running
    installingEntries,\* InstallSessionService::m_installingEntries
    torboxEnabled     \* SettingsStore::torboxEnabled (persisted)

records    == <<store, rows, disk, dirty, kinds, created>>
transports == <<torrents, pausedTorrents, replies, transfers, resolvers>>
plugins    == <<workers, stopping>>
installers == <<installs, installingEntries>>
vars == <<records, transports, plugins, movers, installers, torboxEnabled>>

Entry == [status : Statuses, link : Links \cup {"none"}, torbox : BOOLEAN]
NoEntry == [status |-> "none", link |-> "none", torbox |-> FALSE]

Stages == {"none", "waiting", "started", "paused"}

Init ==
    /\ store = [j \in Jobs |-> NoEntry]
    /\ rows = {}
    /\ disk = [j \in Jobs |-> NoEntry]
    /\ dirty = FALSE
    /\ kinds = {}
    /\ created = {}
    /\ torrents = {}
    /\ pausedTorrents = {}
    /\ replies = {}
    /\ transfers = [j \in Jobs |-> "none"]
    /\ resolvers = {}
    /\ workers = {}
    /\ stopping = {}
    /\ movers = {}
    /\ installs = {}
    /\ installingEntries = {}
    /\ torboxEnabled \in BOOLEAN

--------------------------------------------------------------------------------
(***************************************************************************)
(* Helpers shared by the handlers                                          *)
(***************************************************************************)

Status(j) == store[j].status

\* A handler that looks its row up first leaves the entries alone without one.
WithStatus(j, s) ==
    IF j \in rows THEN [store EXCEPT ![j].status = s] ELSE store

\* persistJob: the entry is in the store, the save is left to the timer.
Persist(j) == dirty' = (dirty \/ j \in rows)

\* findActiveJobId is empty for this entry.
NoActiveJob(e) ==
    \A k \in rows : EntryOf[k] = e => ~InProgress(Status(k))

\* Mutant of Routed: a retry keeps the method the job had.
RoutedAsStored(entry, tb) == entry

\* startDownload: while TorBox is enabled every job that is not a direct HTTP
\* download becomes a TorBox job.
Routed(entry, tb) ==
    [entry EXCEPT !.torbox = @ \/ (tb /\ entry.link # "http")]

\* startDownload: the transport a job goes to.
RouteOf(entry) ==
    IF entry.link = "hydra" THEN "resolver"
    ELSE IF entry.torbox THEN "torbox"
    ELSE IF entry.link = "http" THEN "http" ELSE "torrent"

Via(route, S, r, tb) == {j \in S : RouteOf(Routed(r[j], tb)) = route}

\* TorrentSession::addJob and HttpDownloadSession::addJob may refuse a job
\* (bad link, folder); a torrent that already has a handle is accepted, an
\* HTTP job that already has a reply is refused.
Refusals(S, r, tb, handles, open) ==
    { refused \in SUBSET ((Via("torrent", S, r, tb) \ handles)
                            \cup Via("http", S, r, tb)) :
        Via("http", S, r, tb) \cap open \subseteq refused }

\* The entries after startDownload has run for the jobs of S: startTorrent and
\* startHttp fail a refused job, a Hydra link is announced as starting.
Launched(S, r, tb, refused) ==
    [ j \in Jobs |->
        IF j \in refused
        THEN [Routed(r[j], tb) EXCEPT !.status = "failed"]
        ELSE IF j \in Via("resolver", S, r, tb)
        THEN [Routed(r[j], tb) EXCEPT !.status = "active"]
        ELSE IF j \in S THEN Routed(r[j], tb) ELSE r[j] ]

\* startDownload for every job of S, with r the entries and known the
\* m_jobKinds keys as the handler has left them, and handles the torrents.
StartDownload(S, r, known, tb, handles) ==
    \E refused \in Refusals(S, r, tb, handles, replies) :
        /\ store' = Launched(S, r, tb, refused)
        /\ kinds' = known \ refused
        /\ torrents' = handles \cup (Via("torrent", S, r, tb) \ refused)
        /\ pausedTorrents' = pausedTorrents \cap handles
        /\ replies' = replies \cup (Via("http", S, r, tb) \ refused)
        /\ transfers' = [ j \in Jobs |-> IF j \in Via("torbox", S, r, tb)
                                         THEN "waiting" ELSE transfers[j] ]
        /\ resolvers' = (resolvers \ S) \cup Via("resolver", S, r, tb)

Waiting(tr) == {j \in Jobs : tr[j] = "waiting"}
Started(tr) == {j \in Jobs : tr[j] = "started"}

\* TorBoxDownloadSession::pump fills the free slots; hash order decides who.
Fills(tr) ==
    { go \in SUBSET Waiting(tr) :
        \/ go = Waiting(tr) /\ Cardinality(go) + Cardinality(Started(tr)) <= Slots
        \/ Cardinality(go) + Cardinality(Started(tr)) = Slots }

\* pump, with the phase signals it emits for every waiting transfer.
Pump(r, tr) ==
    \E go \in Fills(tr) :
        /\ transfers' = [j \in Jobs |-> IF j \in go THEN "started" ELSE tr[j]]
        /\ store' = [ j \in Jobs |->
                        IF j \in Waiting(tr) /\ r[j].status # "none"
                        THEN [r[j] EXCEPT !.status = IF j \in go THEN "active"
                                                                 ELSE "queued"]
                        ELSE r[j] ]

\* Mutant of StopPath: a paused torrent is taken for one without a handle.
StopPathActive(j) ==
    IF j \in resolvers THEN "resolver"
    ELSE IF store[j].torbox THEN "torbox"
    ELSE IF store[j].link = "plugin" THEN "plugin"
    ELSE IF ~Active(Status(j)) THEN "resumeFile"
    ELSE IF store[j].link = "http" THEN "http" ELSE "torrent"

\* Mutant of StopPath: the test for a running job comes before the one for
\* TorBox, so a job that waits for a slot keeps its transfer.
StopPathRunningFirst(j) ==
    IF j \in resolvers THEN "resolver"
    ELSE IF ~Running(Status(j)) THEN "resumeFile"
    ELSE IF store[j].torbox THEN "torbox"
    ELSE IF store[j].link = "plugin" THEN "plugin"
    ELSE IF store[j].link = "http" THEN "http" ELSE "torrent"

\* What cancelJob and removeJob stop for a job in progress.  The last branch
\* only deletes the resume file: a torrent handle, if there is one, stays.
StopPath(j) ==
    IF j \in resolvers THEN "resolver"
    ELSE IF store[j].torbox THEN "torbox"
    ELSE IF store[j].link = "plugin" THEN "plugin"
    ELSE IF store[j].link = "http"
         THEN IF Running(Status(j)) THEN "http" ELSE "nothing"
    ELSE IF Running(Status(j)) THEN "torrent" ELSE "resumeFile"

StopAll(S, path) == {j \in S : StopPath(j) = path}

\* Stop the transports of the jobs of S (all in progress), then the rest of
\* the handler leaves the entries r.  A TorBox cancel pumps before it returns.
StopTransports(S, r) ==
    LET left == [ j \in Jobs |-> IF j \in StopAll(S, "torbox")
                                 THEN "none" ELSE transfers[j] ]
    IN  /\ resolvers' = resolvers \ S
        /\ torrents' = torrents \ StopAll(S, "torrent")
        /\ pausedTorrents' = pausedTorrents \ StopAll(S, "torrent")
        /\ replies' = replies \ StopAll(S, "http")
        /\ IF StopAll(S, "torbox") = {}
           THEN transfers' = left /\ store' = r
           ELSE Pump(r, left)

Dropped(S) == [j \in Jobs |-> IF j \in S THEN NoEntry ELSE store[j]]

--------------------------------------------------------------------------------
(***************************************************************************)
(* User commands                                                           *)
(***************************************************************************)

\* startCatalogDownload / createJob
CreateDownload(j) ==
    /\ j \notin created
    /\ LinkOf[j] \in {"magnet", "http", "hydra"}
    /\ NoActiveJob(EntryOf[j])
    /\ LET entry == [ status |-> "active", link |-> LinkOf[j],
                      torbox |-> torboxEnabled /\ LinkOf[j] # "http" ]
       IN  StartDownload({j}, [store EXCEPT ![j] = entry], kinds \cup {j},
                         torboxEnabled, torrents)
    /\ created' = created \cup {j}
    /\ rows' = rows \cup {j}
    /\ dirty' = TRUE
    /\ UNCHANGED <<disk, plugins, movers, installers, torboxEnabled>>

\* startPluginOwnedDownload, then runOwnedDownloadAsync.  The new entry is put
\* in the store without persistJob: nothing schedules a save.
CreatePluginDownload(j) ==
    /\ j \notin created
    /\ LinkOf[j] = "plugin"
    /\ NoActiveJob(EntryOf[j])
    /\ store' = [store EXCEPT ![j] = [ status |-> "active", link |-> "plugin",
                                       torbox |-> FALSE ]]
    /\ kinds' = kinds \cup {j}
    /\ created' = created \cup {j}
    /\ rows' = rows \cup {j}
    /\ workers' = workers \cup {j}
    /\ UNCHANGED <<disk, dirty, transports, stopping, movers, installers,
                   torboxEnabled>>

\* LibraryController::moveGame and the moveGameAsync hook; no save either.
CreateMove(j) ==
    /\ j \notin created
    /\ LinkOf[j] = "move"
    /\ \A k \in Jobs : store[k].link = "move" /\ EntryOf[k] = EntryOf[j]
                        => Status(k) = "none" \/ Terminal(Status(k))
    /\ store' = [store EXCEPT ![j] = [ status |-> "moving", link |-> "move",
                                       torbox |-> FALSE ]]
    /\ created' = created \cup {j}
    /\ rows' = rows \cup {j}
    /\ movers' = movers \cup {j}
    /\ UNCHANGED <<disk, dirty, kinds, transports, plugins, installers,
                   torboxEnabled>>

\* CoreController::cancelJob: tell a plugin to stop, JobOrchestrator::cancelJob,
\* forget the entry's install, then remove every cancelled or failed row of the
\* entry.  The cancelled row itself is gone when the handler returns.
CancelJob(j) ==
    /\ j \in rows
    /\ InProgress(Status(j))
    /\ store[j].link # "move"
    /\ LET gone == {j} \cup { k \in rows : /\ EntryOf[k] = EntryOf[j]
                                         /\ Retryable(Status(k)) }
       IN  /\ StopTransports({j}, Dropped(gone))
           /\ rows' = rows \ gone
           /\ kinds' = kinds \ gone
    /\ disk' = store'
    /\ dirty' = TRUE
    /\ stopping' = stopping \cup (workers \cap {j})
    /\ installingEntries' = installingEntries \ {EntryOf[j]}
    /\ UNCHANGED <<created, workers, movers, installs, torboxEnabled>>

\* removeJob on finished rows: the delete button, or pruneFinishedJobs when the
\* rows of S have expired.
RemoveFinished(S) ==
    /\ S # {}
    /\ \A j \in S : Terminal(Status(j))
    /\ store' = Dropped(S)
    /\ rows' = rows \ S
    /\ kinds' = kinds \ S
    /\ disk' = store'
    /\ UNCHANGED <<dirty, created, transports, plugins, movers, installers,
                   torboxEnabled>>

\* Mutant of ClearFinished: the save is left to the timer.
ClearFinishedUnsaved ==
    LET keep == {j \in rows : ~Terminal(Status(j))}
    IN  /\ store' = Dropped(Jobs \ keep)
        /\ rows' = keep
        /\ kinds' = kinds \ (rows \ keep)
        /\ dirty' = TRUE
        /\ UNCHANGED <<disk, created, transports, plugins, movers, installers,
                       torboxEnabled>>

\* clearFinishedJobs: both lists are set to the rows that are not finished.
ClearFinished ==
    LET keep == {j \in rows : ~Terminal(Status(j))}
    IN  /\ store' = Dropped(Jobs \ keep)
        /\ rows' = keep
        /\ kinds' = kinds \ (rows \ keep)
        /\ disk' = store'
        /\ UNCHANGED <<dirty, created, transports, plugins, movers, installers,
                       torboxEnabled>>

\* LibraryController::removeGame through removeJobsForEntry: removeJob on every
\* row of the game, whatever its status.
RemoveGame(e) ==
    LET gone == {j \in rows : EntryOf[j] = e}
        live == {j \in gone : InProgress(Status(j))}
    IN  /\ gone # {}
        /\ StopTransports(live, Dropped(gone))
        /\ rows' = rows \ gone
        /\ kinds' = kinds \ gone
        /\ disk' = store'
        /\ dirty' = (dirty \/ /\ StopAll(live, "torbox") # {}
                              /\ Waiting(transfers) \ gone # {})
        /\ UNCHANGED <<created, plugins, movers, installers, torboxEnabled>>

\* toggleJobPause, pause half.  Direct HTTP downloads have no pause, the cards
\* offer none while a job installs or moves, and a torrent that is "queued" is
\* left alone.
PauseJob(j) ==
    /\ j \in rows
    /\ InProgress(Status(j))
    /\ Status(j) \notin {"paused", "installing", "moving"}
    /\ store[j].link # "http"
    /\ LET paused == [store EXCEPT ![j].status = "paused"]
       IN  IF store[j].link = "plugin"
           THEN store' = paused /\ UNCHANGED transports
           ELSE IF store[j].torbox \/ store[j].link = "hydra"
           THEN /\ resolvers' = resolvers \ {j}
                /\ IF transfers[j] = "none"
                   THEN store' = paused /\ UNCHANGED transfers
                   ELSE Pump(paused, [transfers EXCEPT ![j] = "paused"])
                /\ UNCHANGED <<torrents, pausedTorrents, replies>>
           ELSE /\ Running(Status(j))
                /\ store' = paused
                /\ pausedTorrents' = pausedTorrents \cup ({j} \cap torrents)
                /\ UNCHANGED <<torrents, replies, transfers, resolvers>>
    /\ dirty' = TRUE
    /\ UNCHANGED <<rows, disk, kinds, created, plugins, movers, installers,
                   torboxEnabled>>

\* toggleJobPause, resume half: TorBox and Hydra jobs go through startDownload
\* again, a torrent handle is resumed in place.
ResumeJob(j) ==
    /\ j \in rows
    /\ Paused(Status(j))
    /\ store[j].link # "http"
    /\ LET resumed == [store EXCEPT ![j].status = "active"]
       IN  IF store[j].link = "plugin"
           THEN store' = resumed /\ UNCHANGED <<kinds, transports>>
           ELSE IF store[j].torbox \/ store[j].link = "hydra"
           THEN StartDownload({j}, resumed, kinds, torboxEnabled, torrents)
           ELSE /\ store' = resumed
                /\ pausedTorrents' = pausedTorrents \ {j}
                /\ UNCHANGED <<kinds, torrents, replies, transfers, resolvers>>
    /\ dirty' = TRUE
    /\ UNCHANGED <<rows, disk, created, plugins, movers, installers,
                   torboxEnabled>>

\* retryJob for a download the launcher transfers itself.
RetryDownload(j) ==
    /\ j \in rows
    /\ Retryable(Status(j))
    /\ store[j].link \notin {"plugin", "move"}
    /\ StartDownload({j}, [store EXCEPT ![j].status = "active"], kinds \cup {j},
                     torboxEnabled, torrents)
    /\ dirty' = TRUE
    /\ UNCHANGED <<rows, disk, created, plugins, movers, installers,
                   torboxEnabled>>

\* Mutant of RetryPluginDownload: the kind dropped by the failure is not put back.
RetryPluginWithoutKind(j) ==
    /\ j \in rows
    /\ Retryable(Status(j))
    /\ store[j].link = "plugin"
    /\ store' = [store EXCEPT ![j].status = "active"]
    /\ workers' \in {workers, workers \cup {j}}
    /\ dirty' = TRUE
    /\ UNCHANGED <<rows, disk, kinds, created, transports, stopping, movers,
                   installers, torboxEnabled>>

\* retryJob for a plugin-owned job: preparePluginJobResume, then
\* restartPluginOwnedDownload, which starts no worker when the plugin is not
\* loaded or the catalog entry cannot be found.
RetryPluginDownload(j) ==
    /\ j \in rows
    /\ Retryable(Status(j))
    /\ store[j].link = "plugin"
    /\ store' = [store EXCEPT ![j].status = "active"]
    /\ kinds' = kinds \cup {j}
    /\ workers' \in {workers, workers \cup {j}}
    /\ dirty' = TRUE
    /\ UNCHANGED <<rows, disk, created, transports, stopping, movers, installers,
                   torboxEnabled>>

\* retryInstall and retryPendingInstalls: startPluginInstall refuses an entry
\* that is being installed.
RetryInstall(j) ==
    /\ j \in rows
    /\ Installable(Status(j))
    /\ store[j].link # "move"
    /\ EntryOf[j] \notin installingEntries
    /\ store' = [store EXCEPT ![j].status = "installing"]
    /\ installs' = installs \cup {j}
    /\ installingEntries' = installingEntries \cup {EntryOf[j]}
    /\ dirty' = TRUE
    /\ UNCHANGED <<rows, disk, kinds, created, transports, plugins, movers,
                   torboxEnabled>>

\* routePendingTorrentsThroughTorbox, when the setting is turned on: unfinished
\* peer downloads are cancelled and handed to TorBox; a paused job is not
\* started, a job whose Hydra link is being resolved is started when it is.
EnableTorBox ==
    /\ ~torboxEnabled
    /\ torboxEnabled' = TRUE
    /\ LET routed == { j \in rows :
                         /\ store[j].link \in {"magnet", "hydra"}
                         /\ ~store[j].torbox
                         /\ InProgress(Status(j))
                         /\ Status(j) \notin {"installing", "moving"} }
           starting == {j \in routed : ~Paused(Status(j)) /\ j \notin resolvers}
       IN  /\ StartDownload(starting,
                            [ j \in Jobs |-> IF j \in routed
                                              THEN [store[j] EXCEPT !.torbox = TRUE]
                                              ELSE store[j] ],
                            kinds, TRUE, torrents \ routed)
           /\ dirty' = (dirty \/ routed # {})
    /\ UNCHANGED <<rows, disk, created, plugins, movers, installers>>

DisableTorBox ==
    /\ torboxEnabled
    /\ torboxEnabled' = FALSE
    /\ UNCHANGED <<records, transports, plugins, movers, installers>>

--------------------------------------------------------------------------------
(***************************************************************************)
(* Signals of the transports                                               *)
(***************************************************************************)

\* The end of onTorrentFinished and onHttpFinished: the row is completed, the
\* downloadCompleted handler starts the installer or leaves the row completed
\* (no installer, unknown entry, or the entry is being installed already).
Completed(j) ==
    /\ kinds' = IF j \in rows THEN kinds \ {j} ELSE kinds
    /\ Persist(j)
    /\ \/ /\ store' = WithStatus(j, "completed")
          /\ UNCHANGED installers
       \/ /\ j \in rows
          /\ EntryOf[j] \notin installingEntries
          /\ store' = WithStatus(j, "installing")
          /\ installs' = installs \cup {j}
          /\ installingEntries' = installingEntries \cup {EntryOf[j]}
    /\ UNCHANGED <<rows, disk, created, plugins, movers, torboxEnabled>>

\* onTorrentFailed and onHttpFailed
Failed(j) ==
    /\ kinds' = kinds \ {j}
    /\ Persist(j)
    /\ store' = WithStatus(j, "failed")
    /\ UNCHANGED <<rows, disk, created, plugins, movers, installers,
                   torboxEnabled>>

\* Mutant of Reported: the label of the transport is stored as it comes.
ReportedRaw(j, s) ==
    /\ store' = WithStatus(j, "stalled")
    /\ Persist(j)
    /\ UNCHANGED <<rows, disk, kinds, created, transports, plugins, movers,
                   installers, torboxEnabled>>

\* A progress handler that only sets the status of the row.
Reported(j, s) ==
    /\ store' = WithStatus(j, s)
    /\ Persist(j)
    /\ UNCHANGED <<rows, disk, kinds, created, transports, plugins, movers,
                   installers, torboxEnabled>>

\* Mutant of TorrentProgress: the label wins over a paused row.
TorrentProgressUnpauses(j, label) == j \in torrents /\ Reported(j, label)

\* onTorrentProgress: a paused row keeps its status, any other takes the label.
TorrentProgress(j, label) ==
    /\ j \in torrents
    /\ Reported(j, IF Paused(Status(j)) THEN "paused"
                   ELSE IF j \in pausedTorrents THEN "paused" ELSE label)

\* Mutant of TorrentLeaves: the handle stays in the session.
TorrentStays(j) == j \in torrents /\ UNCHANGED transports

\* pollAlerts: a finished or failed torrent leaves the session before, or as,
\* its signal is handled.
TorrentLeaves(j) ==
    /\ j \in torrents
    /\ torrents' = torrents \ {j}
    /\ pausedTorrents' = pausedTorrents \ {j}
    /\ UNCHANGED <<replies, transfers, resolvers>>

TorrentFinished(j) == TorrentLeaves(j) /\ Completed(j)
TorrentFailed(j)   == TorrentLeaves(j) /\ Failed(j)

\* onHttpProgress on a direct download
HttpProgress(j) == j \in replies /\ Reported(j, "active")

HttpLeaves(j) ==
    /\ j \in replies
    /\ replies' = replies \ {j}
    /\ UNCHANGED <<torrents, pausedTorrents, transfers, resolvers>>

\* onHttpFinished hands a refused page to onHttpFailed.
HttpFinished(j) == HttpLeaves(j) /\ Completed(j)
HttpFailed(j)   == HttpLeaves(j) /\ Failed(j)

\* onHttpProgress and setJobPhase on a running TorBox transfer
TorBoxProgress(j) == transfers[j] = "started" /\ Reported(j, "active")

TorBoxLeaves(j) ==
    /\ transfers[j] = "started"
    /\ transfers' = [transfers EXCEPT ![j] = "none"]
    /\ UNCHANGED <<torrents, pausedTorrents, replies, resolvers>>

TorBoxFinished(j) == TorBoxLeaves(j) /\ Completed(j)
TorBoxFailed(j)   == TorBoxLeaves(j) /\ Failed(j)

\* pump from its zero timer
TorBoxPump ==
    /\ Waiting(transfers) # {}
    /\ Pump(store, transfers)
    /\ dirty' = (dirty \/ Waiting(transfers) \cap rows # {})
    /\ UNCHANGED <<rows, disk, kinds, created, torrents, pausedTorrents, replies,
                   resolvers, plugins, movers, installers, torboxEnabled>>

\* HydraCatalogClient::resolved: the job continues with the link found, unless
\* it is finished or paused by now.
LinkResolved(j, link) ==
    /\ j \in resolvers
    /\ LET found == [ store EXCEPT ![j].link = link,
                                   ![j].torbox = @ /\ link # "http" ]
       IN  IF j \in rows /\ ~Terminal(Status(j)) /\ ~Paused(Status(j))
           THEN /\ StartDownload({j}, found, kinds, torboxEnabled, torrents)
                /\ dirty' = TRUE
           ELSE /\ resolvers' = resolvers \ {j}
                /\ UNCHANGED <<store, kinds, dirty, torrents, pausedTorrents,
                               replies, transfers>>
    /\ UNCHANGED <<rows, disk, created, plugins, movers, installers,
                   torboxEnabled>>

\* HydraCatalogClient::failed
LinkFailed(j) ==
    /\ j \in resolvers
    /\ resolvers' = resolvers \ {j}
    /\ UNCHANGED <<torrents, pausedTorrents, replies, transfers>>
    /\ Failed(j)

\* reportPluginProgress: chunks still in flight after a pause do not unstick it.
PluginProgress(j, s) ==
    /\ j \in workers
    /\ j \in rows => ~Terminal(Status(j))
    /\ Reported(j, IF Paused(Status(j)) /\ s = "active" THEN "paused" ELSE s)

\* The worker returns: completePluginDownload or failPluginDownload, both of
\* which do nothing without a row.
PluginReturns(j, s) ==
    /\ j \in workers
    /\ workers' = workers \ {j}
    /\ stopping' = stopping \ {j}
    /\ store' = WithStatus(j, s)
    /\ kinds' = IF j \in rows THEN kinds \ {j} ELSE kinds
    /\ Persist(j)
    /\ UNCHANGED <<rows, disk, created, transports, movers, installers,
                   torboxEnabled>>

\* The end of a library move: the entry is written to the store even when the
\* row has been removed meanwhile, and nothing schedules a save.
MoveReturns(j, s) ==
    /\ j \in movers
    /\ movers' = movers \ {j}
    /\ store' = [store EXCEPT ![j] = [ status |-> s, link |-> "move",
                                       torbox |-> FALSE ]]
    /\ UNCHANGED <<rows, disk, dirty, kinds, created, transports, plugins,
                   installers, torboxEnabled>>

\* The installer worker returns: setJobPhase on the row, whatever it says now.
InstallReturns(j, s) ==
    /\ j \in installs
    /\ installs' = installs \ {j}
    /\ installingEntries' = installingEntries \ {EntryOf[j]}
    /\ store' = WithStatus(j, s)
    /\ Persist(j)
    /\ UNCHANGED <<rows, disk, kinds, created, transports, plugins, movers,
                   torboxEnabled>>

--------------------------------------------------------------------------------
(***************************************************************************)
(* Persistence, restart                                                    *)
(***************************************************************************)

\* m_persistTimer
PersistTick ==
    /\ dirty
    /\ disk' = store
    /\ dirty' = FALSE
    /\ UNCHANGED <<store, rows, kinds, created, transports, plugins, movers,
                   installers, torboxEnabled>>

\* Mutants of Recovered: a paused job comes back running; a failed job comes
\* back; the method follows the setting of the new process.
RecoveredUnpaused(entry, tb) ==
    IF Terminal(entry.status) \/ entry.status = "none" THEN entry
    ELSE IF entry.link = "move" THEN [entry EXCEPT !.status = "failed"]
    ELSE [entry EXCEPT !.torbox = @ \/ (entry.link # "http" /\ tb),
                       !.status = "active"]

\* restoreJobs: the entry of a job as the first loop leaves it.
Recovered(entry, tb) ==
    IF Terminal(entry.status) \/ entry.status = "none" THEN entry
    ELSE IF entry.link = "move" THEN [entry EXCEPT !.status = "failed"]
    ELSE IF entry.link = "plugin" THEN [entry EXCEPT !.status = "active"]
    ELSE [ entry EXCEPT !.torbox = @ \/ (entry.link # "http" /\ tb),
                        !.status = IF Paused(@) THEN @ ELSE "active" ]

\* Mutant of StaysIdle: no TorBox job is started after a restart.
StaysIdleTorBox(entry) ==
    entry.torbox \/ (Paused(entry.status) /\ entry.link = "hydra")

\* restoreJobs does not start a paused job that goes through TorBox or Hydra.
StaysIdle(entry) ==
    Paused(entry.status) /\ (entry.torbox \/ entry.link = "hydra")

\* The second loop of restoreJobs, its closing pruneFinishedJobs, and
\* resumePluginOwnedDownloads, on the entries r of the first loop.
StartRecovered(r) ==
    LET present == {j \in Jobs : r[j].status # "none"}
        live == {j \in present : ~Terminal(r[j].status)}
        owned == {j \in live : r[j].link = "plugin"}
        starting == {j \in live \ owned : ~StaysIdle(r[j])}
        paused == {j \in starting : Paused(r[j].status)}
    IN  \E expired \in SUBSET (present \ live) :
        \E refused \in Refusals(starting, r, torboxEnabled, {}, {}) :
        \E resumed \in SUBSET owned :
            /\ store' = [ j \in Jobs |->
                            IF j \in expired THEN NoEntry
                            ELSE Launched(starting, r, torboxEnabled, refused)[j] ]
            /\ rows' = present \ expired
            /\ disk' = IF expired = {} THEN r ELSE store'
            /\ dirty' = (store' # r \/ resumed # {})
            /\ kinds' = live \ refused
            /\ torrents' = Via("torrent", starting, r, torboxEnabled) \ refused
            /\ pausedTorrents' = paused \cap torrents'
            /\ replies' = Via("http", starting, r, torboxEnabled) \ refused
            /\ transfers' =
                 [ j \in Jobs |->
                    IF j \in Via("torbox", starting, r, torboxEnabled)
                    THEN "waiting" ELSE "none" ]
            /\ resolvers' = Via("resolver", starting, r, torboxEnabled)
            /\ workers' = resumed
            /\ stopping' = {}
            /\ movers' = {}
            /\ installs' = {}
            /\ installingEntries' = {}
            /\ UNCHANGED <<created, torboxEnabled>>

\* The process starts with jobs.json holding saved (JobStore::load).  One r,
\* bound so that it is evaluated once.
Restart(saved) ==
    \E r \in {[j \in Jobs |-> Recovered(saved[j], torboxEnabled)]} :
        StartRecovered(r)

\* The process dies; what was not saved is lost.
Crash == Restart(disk)

\* prepareShutdown: flushPersistence saves the rows of the JobModel, then the
\* transports stop.  A torrent that still finishes while its resume data is
\* flushed is handled in memory only.
Quit == Restart([j \in Jobs |-> IF j \in rows THEN store[j] ELSE NoEntry])

--------------------------------------------------------------------------------

UserStep ==
    \/ \E j \in Jobs :
        \/ CreateDownload(j)
        \/ CreatePluginDownload(j)
        \/ CreateMove(j)
        \/ CancelJob(j)
        \/ PauseJob(j)
        \/ ResumeJob(j)
        \/ RetryDownload(j)
        \/ RetryPluginDownload(j)
        \/ RetryInstall(j)
    \/ \E S \in SUBSET rows : RemoveFinished(S)
    \/ ClearFinished
    \/ \E e \in Entries : RemoveGame(e)
    \/ EnableTorBox
    \/ DisableTorBox

TransportStep ==
    \E j \in Jobs :
        \/ \E label \in Labels : TorrentProgress(j, label)
        \/ TorrentFinished(j)
        \/ TorrentFailed(j)
        \/ HttpProgress(j)
        \/ HttpFinished(j)
        \/ HttpFailed(j)
        \/ TorBoxProgress(j)
        \/ TorBoxFinished(j)
        \/ TorBoxFailed(j)
        \/ \E link \in {"magnet", "http"} : LinkResolved(j, link)
        \/ LinkFailed(j)

WorkerStep ==
    \E j \in Jobs :
        \/ \E s \in {"active", "installing", "paused"} : PluginProgress(j, s)
        \/ \E s \in {"completed", "failed"} : PluginReturns(j, s)
        \/ \E s \in {"completed", "failed"} : MoveReturns(j, s)
        \/ \E s \in {"completed", "installFailed"} : InstallReturns(j, s)

Next ==
    \/ UserStep
    \/ TransportStep
    \/ WorkerStep
    \/ TorBoxPump
    \/ PersistTick
    \/ Crash
    \/ Quit

Spec == Init /\ [][Next]_vars

--------------------------------------------------------------------------------
(***************************************************************************)
(* Properties                                                              *)
(***************************************************************************)

\* Every variable keeps its type.
TypeOK ==
    /\ store \in [Jobs -> Entry]
    /\ rows \in SUBSET Jobs
    /\ disk \in [Jobs -> Entry]
    /\ dirty \in BOOLEAN
    /\ kinds \in SUBSET Jobs
    /\ created \in SUBSET Jobs
    /\ torrents \in SUBSET Jobs
    /\ pausedTorrents \in SUBSET Jobs
    /\ replies \in SUBSET Jobs
    /\ transfers \in [Jobs -> Stages]
    /\ resolvers \in SUBSET Jobs
    /\ workers \in SUBSET Jobs
    /\ stopping \in SUBSET Jobs
    /\ movers \in SUBSET Jobs
    /\ installs \in SUBSET Jobs
    /\ installingEntries \in SUBSET Entries
    /\ torboxEnabled \in BOOLEAN

\* A libtorrent handle belongs to a listed, unfinished peer download: after a
\* cancel, a removal, a finish, a failure or a switch to TorBox nothing goes on
\* downloading unseen (cancelJob, removeJob, routePendingTorrentsThroughTorbox).
TorrentOwned ==
    \A j \in torrents :
        /\ j \in rows
        /\ store[j].link = "magnet" /\ ~store[j].torbox
        /\ Status(j) \in {"queued", "active", "paused"}

\* The same for the other transports: a reply belongs to a running direct
\* download, a resolver to a running job that still has its Hydra link, a TorBox
\* transfer to a TorBox job whose row says what the transfer does.
TransferOwned ==
    /\ \A j \in replies :
        j \in rows /\ store[j].link = "http" /\ Status(j) = "active"
    /\ \A j \in resolvers :
        j \in rows /\ store[j].link = "hydra" /\ Status(j) = "active"
    /\ \A j \in Jobs : transfers[j] # "none" =>
        /\ j \in rows
        /\ store[j].link = "magnet" /\ store[j].torbox
        /\ transfers[j] = "paused" <=> Paused(Status(j))
        /\ transfers[j] = "started" => Status(j) = "active"

\* No job is moved by two transports at once, whatever was retried, rerouted,
\* resolved or restored in between: two of them would write the same folder.
SingleTransport ==
    \A j \in Jobs :
        Cardinality({ t \in {"torrent", "http", "torbox", "resolver"} :
                        \/ t = "torrent" /\ j \in torrents
                        \/ t = "http" /\ j \in replies
                        \/ t = "torbox" /\ transfers[j] # "none"
                        \/ t = "resolver" /\ j \in resolvers }) <= 1

\* A torrent handle is paused exactly when its row says paused, also after a
\* restart (toggleJobPause, restoreJobs, onTorrentProgress).
PauseAgrees ==
    \A j \in torrents : j \in pausedTorrents <=> Paused(Status(j))

\* A row in progress has something that will move it: a transport, the
\* installer, the copy worker.  Only a paused TorBox or Hydra job waits for the
\* user alone.  (A plugin-owned job is not included: restartPluginOwnedDownload leaves
\* it without a worker when its plugin or its catalog entry is missing.)
Driven ==
    \A j \in rows : store[j].link # "plugin" =>
        CASE Status(j) \in {"queued", "active"} ->
                \/ j \in torrents \cup replies \cup resolvers
                \/ transfers[j] \in {"waiting", "started"}
          [] Status(j) = "paused" ->
                j \in torrents \/ StaysIdle(store[j])
          [] Status(j) = "installing" -> j \in installs
          [] Status(j) = "moving" -> j \in movers
          [] OTHER -> TRUE

\* A job a transport or a worker can still finish has its kind recorded: without
\* it onTorrentFinished takes an update for a first installation.
KindKnown ==
    \A j \in rows :
        \/ j \in torrents \cup replies \cup resolvers \cup workers
        \/ transfers[j] # "none"
        => j \in kinds

\* For the jobs without handles, both at once.
DirectDriven == Driven /\ KindKnown

\* docs/torbox-hydra.md: while TorBox is enabled all torrent downloads use it,
\* restored jobs and retries included: no peer transfer is left and every
\* unfinished torrent job that is not being installed is a TorBox job.
TorBoxRouting ==
    torboxEnabled =>
        /\ torrents = {}
        /\ \A j \in rows :
            /\ InProgress(Status(j)) /\ Status(j) # "installing"
            /\ store[j].link \in {"magnet", "hydra"}
            => store[j].torbox

\* Only the user brings a download back.  A paused one is resumed by no late progress
\* signal, no switch to TorBox, no freed slot and no restart (plugins pause on their own
\* terms), and a finished one comes back to life through a retry only.  A crash may undo
\* a pause or an end that had not been saved yet.
UserRevives ==
    [][ \A j \in rows \cap rows' :
            /\ LinkOf[j] # "plugin" /\ Paused(Status(j))
               /\ store'[j].status \in {"queued", "active"} =>
               ResumeJob(j) \/ (~Paused(disk[j].status) /\ Crash)
            /\ Terminal(Status(j)) /\ ~Terminal(store'[j].status) =>
               \/ RetryDownload(j) \/ RetryPluginDownload(j) \/ RetryInstall(j)
               \/ ~Terminal(disk[j].status) /\ Crash ]_vars

--------------------------------------------------------------------------------
(***************************************************************************)
(* The ledger the jobs domain promises                                     *)
(***************************************************************************)

Phase(j, listed, entry) ==
    IF j \notin created THEN "new"
    ELSE IF ~listed THEN "gone"
    ELSE IF Terminal(entry.status) THEN "over" ELSE "live"

Ledger ==
    INSTANCE JobLedger WITH
        ledger <- [j \in Jobs |-> Phase(j, j \in rows, store[j])],
        saved  <- [j \in Jobs |-> Phase(j, disk[j].status # "none", disk[j])]

\* The orchestrator, with its store, its deferred saves and its recovery,
\* implements the durable ledger: no handler loses, revives or resurrects a job
\* on its own, and a removal survives any crash.
KeepsLedger == Ledger!Spec

================================================================================
