------------------------- MODULE JobOrchestratorProofs -------------------------
(***************************************************************************)
(* Theorems about JobOrchestrator, for every set of jobs and entries, every*)
(* assignment of links and every number of slots: the types, who holds a   *)
(* job, what drives it, and that it implements JobLedger.                  *)
(***************************************************************************)
EXTENDS JobOrchestrator, FiniteSetTheorems, TLAPS

\* The entries once the link of a job has been resolved.
Found(j, link) == [ store EXCEPT ![j].link = link,
                                 ![j].torbox = @ /\ link # "http" ]

\* Only the link and the flag of the job change.
LEMMA FoundEntry ==
    ASSUME store \in [Jobs -> Entry], NEW j \in Jobs, NEW link \in {"magnet", "http"}
    PROVE  /\ Found(j, link) \in [Jobs -> Entry]
           /\ Found(j, link)[j].link = link
           /\ Found(j, link)[j].status = store[j].status
           /\ Found(j, link)[j].torbox = (store[j].torbox /\ link # "http")
           /\ \A k \in Jobs \ {j} : Found(j, link)[k] = store[k]
<1>1. store[j] \in Entry
    OBVIOUS
<1>2. PICK t : t = [ store[j] EXCEPT !.link = link, !.torbox = @ /\ link # "http" ]
    OBVIOUS
<1>3. PICK r : r = Found(j, link)
    OBVIOUS
<1>4. r = [store EXCEPT ![j] = t]
    BY <1>2, <1>3 DEF Found
<1>5. /\ t \in Entry /\ t.link = link /\ t.status = store[j].status
      /\ t.torbox = (store[j].torbox /\ link # "http")
    BY <1>1, <1>2 DEF Entry, Links
<1> QED
    BY <1>3, <1>4, <1>5

\* An entry keeps its type when its status or its method is rewritten.
LEMMA EntryUpdate ==
    ASSUME NEW entry \in Entry
    PROVE  /\ \A s \in Statuses : [entry EXCEPT !.status = s] \in Entry
           /\ \A b \in BOOLEAN : [entry EXCEPT !.torbox = b] \in Entry
BY DEF Entry

\* A job without an entry has a typed one.
LEMMA NoEntryType == NoEntry \in Entry
BY DEF NoEntry, Entry, Statuses

\* The part of TypeOK the transport helpers can disturb.
TransportsOK ==
    /\ store \in [Jobs -> Entry]
    /\ torrents \in SUBSET Jobs
    /\ pausedTorrents \in SUBSET Jobs
    /\ replies \in SUBSET Jobs
    /\ transfers \in [Jobs -> Stages]
    /\ resolvers \in SUBSET Jobs

\* startDownload rewrites an entry to an entry.
LEMMA RoutedType ==
    ASSUME NEW entry \in Entry, NEW tb \in BOOLEAN
    PROVE  Routed(entry, tb) \in Entry
BY DEF Routed, Entry

\* Starting or routing entries (startMagnet, startTorBox) keeps their type.
LEMMA LaunchedType ==
    ASSUME NEW r \in [Jobs -> Entry], NEW tb \in BOOLEAN, NEW S, NEW refused
    PROVE  Launched(S, r, tb, refused) \in [Jobs -> Entry]
<1> SUFFICES ASSUME NEW j \in Jobs
             PROVE  Launched(S, r, tb, refused)[j] \in Entry
    BY DEF Launched
<1>1. Routed(r[j], tb) \in Entry
    BY RoutedType
<1>2. /\ [Routed(r[j], tb) EXCEPT !.status = "failed"] \in Entry
      /\ [Routed(r[j], tb) EXCEPT !.status = "active"] \in Entry
    BY <1>1, EntryUpdate DEF Statuses
<1> QED
    BY <1>1, <1>2 DEF Launched

\* The types startDownload leaves behind.
LEMMA StartDownloadType ==
    ASSUME TypeOK,
           NEW S \in SUBSET Jobs, NEW r \in [Jobs -> Entry],
           NEW known \in SUBSET Jobs, NEW tb \in BOOLEAN,
           NEW handles \in SUBSET Jobs,
           StartDownload(S, r, known, tb, handles)
    PROVE  TransportsOK' /\ kinds' \in SUBSET Jobs
<1>1. PICK refused \in Refusals(S, r, tb, handles, replies) :
        /\ store' = Launched(S, r, tb, refused)
        /\ kinds' = known \ refused
        /\ torrents' = handles \cup (Via("torrent", S, r, tb) \ refused)
        /\ pausedTorrents' = pausedTorrents \cap handles
        /\ replies' = replies \cup (Via("http", S, r, tb) \ refused)
        /\ transfers' = [ j \in Jobs |-> IF j \in Via("torbox", S, r, tb)
                                         THEN "waiting" ELSE transfers[j] ]
        /\ resolvers' = (resolvers \ S) \cup Via("resolver", S, r, tb)
    BY DEF StartDownload
<1>2. store' \in [Jobs -> Entry]
    BY <1>1, LaunchedType
<1>3. transfers' \in [Jobs -> Stages]
    BY <1>1 DEF TypeOK, Stages
<1>4. \A route : Via(route, S, r, tb) \subseteq Jobs
    BY DEF Via
<1> QED
    BY <1>1, <1>2, <1>3, <1>4 DEF TypeOK, TransportsOK

\* The types a pump of the TorBox session leaves behind.
LEMMA PumpType ==
    ASSUME NEW r \in [Jobs -> Entry], NEW tr \in [Jobs -> Stages], Pump(r, tr)
    PROVE  store' \in [Jobs -> Entry] /\ transfers' \in [Jobs -> Stages]
<1>1. PICK go \in Fills(tr) :
        /\ transfers' = [j \in Jobs |-> IF j \in go THEN "started" ELSE tr[j]]
        /\ store' = [ j \in Jobs |->
                        IF j \in Waiting(tr) /\ r[j].status # "none"
                        THEN [r[j] EXCEPT !.status = IF j \in go THEN "active"
                                                                 ELSE "queued"]
                        ELSE r[j] ]
    BY DEF Pump
<1>2. \A j \in Jobs : /\ [r[j] EXCEPT !.status = "active"] \in Entry
                      /\ [r[j] EXCEPT !.status = "queued"] \in Entry
    BY EntryUpdate DEF Statuses
<1>3. store' \in [Jobs -> Entry]
    BY <1>1, <1>2
<1>4. transfers' \in [Jobs -> Stages]
    BY <1>1 DEF Stages
<1> QED
    BY <1>3, <1>4

\* Stopping the transports of a set of jobs keeps the types of both sessions.
LEMMA StopTransportsType ==
    ASSUME TypeOK, NEW S \in SUBSET Jobs, NEW r \in [Jobs -> Entry],
           StopTransports(S, r)
    PROVE  TransportsOK'
<1> DEFINE left == [ j \in Jobs |-> IF j \in StopAll(S, "torbox")
                                    THEN "none" ELSE transfers[j] ]
<1>1. left \in [Jobs -> Stages]
    BY DEF TypeOK, Stages
<1>2. /\ resolvers' = resolvers \ S
      /\ torrents' = torrents \ StopAll(S, "torrent")
      /\ pausedTorrents' = pausedTorrents \ StopAll(S, "torrent")
      /\ replies' = replies \ StopAll(S, "http")
    BY DEF StopTransports
<1>3. Pump(r, left) \/ (transfers' = left /\ store' = r)
    BY DEF StopTransports
<1>4. store' \in [Jobs -> Entry] /\ transfers' \in [Jobs -> Stages]
    BY <1>1, <1>3, PumpType
<1> QED
    BY <1>2, <1>4 DEF TypeOK, TransportsOK

\* Removing entries from the store keeps its type.
LEMMA DroppedType ==
    ASSUME TypeOK, NEW S
    PROVE  Dropped(S) \in [Jobs -> Entry]
BY NoEntryType DEF Dropped, TypeOK

\* Writing a status (setStatus) keeps the type of the store.
LEMMA WithStatusType ==
    ASSUME TypeOK, NEW j \in Jobs, NEW s \in Statuses
    PROVE  WithStatus(j, s) \in [Jobs -> Entry]
<1>1. [store[j] EXCEPT !.status = s] \in Entry
    BY EntryUpdate DEF TypeOK
<1> QED
    BY <1>1 DEF WithStatus, TypeOK

--------------------------------------------------------------------------------
(***************************************************************************)
(* Type correctness                                                        *)
(***************************************************************************)

\* restoreJobs rewrites an entry to an entry.
LEMMA RecoveredType ==
    ASSUME NEW entry \in Entry, NEW tb \in BOOLEAN
    PROVE  Recovered(entry, tb) \in Entry
BY DEF Recovered, Entry, Statuses

\* restoreJobs, from any saved entries, reaches a typed state.
LEMMA RestartType ==
    ASSUME TypeOK, NEW saved \in [Jobs -> Entry], Restart(saved)
    PROVE  TypeOK'
<1> DEFINE r == [j \in Jobs |-> Recovered(saved[j], torboxEnabled)]
           present == {j \in Jobs : r[j].status # "none"}
           live == {j \in present : ~Terminal(r[j].status)}
           owned == {j \in live : r[j].link = "plugin"}
           starting == {j \in live \ owned : ~StaysIdle(r[j])}
           paused == {j \in starting : Paused(r[j].status)}
<1>0. StartRecovered(r)
    BY DEF Restart
<1>1. PICK expired \in SUBSET (present \ live),
           refused \in Refusals(starting, r, torboxEnabled, {}, {}),
           resumed \in SUBSET owned :
        /\ store' = [ j \in Jobs |->
                        IF j \in expired THEN NoEntry
                        ELSE Launched(starting, r, torboxEnabled, refused)[j] ]
        /\ rows' = present \ expired
        /\ disk' = IF expired = {} THEN r ELSE store'
        /\ dirty' = (store' # r \/ resumed # {})
        /\ kinds' = live \ refused
        /\ torrents' = Via("torrent", starting, r, torboxEnabled) \ refused
        /\ pausedTorrents' = paused \cap torrents'
        /\ replies' = Via("http", starting, r, torboxEnabled) \ refused
        /\ transfers' = [ j \in Jobs |->
                            IF j \in Via("torbox", starting, r, torboxEnabled)
                            THEN "waiting" ELSE "none" ]
        /\ resolvers' = Via("resolver", starting, r, torboxEnabled)
        /\ workers' = resumed
        /\ stopping' = {}
        /\ movers' = {}
        /\ installs' = {}
        /\ installingEntries' = {}
        /\ UNCHANGED <<created, torboxEnabled>>
    BY <1>0 DEF StartRecovered
<1>2. r \in [Jobs -> Entry]
    BY RecoveredType DEF TypeOK
<1>3. present \subseteq Jobs /\ live \subseteq Jobs /\ starting \subseteq Jobs
    OBVIOUS
<1>4. \A route : Via(route, starting, r, torboxEnabled) \subseteq Jobs
    BY <1>3 DEF Via
<1>5. Launched(starting, r, torboxEnabled, refused) \in [Jobs -> Entry]
    BY <1>2, LaunchedType DEF TypeOK
<1>6. store' \in [Jobs -> Entry]
    BY <1>1, <1>5, NoEntryType
<1>7. transfers' \in [Jobs -> Stages]
    BY <1>1 DEF Stages
<1>8. owned \subseteq Jobs
    OBVIOUS
<1> HIDE DEF r, present, live, owned, starting, paused
<1>9. disk' \in [Jobs -> Entry] /\ dirty' \in BOOLEAN
    BY <1>1, <1>2, <1>6
<1> QED
    BY <1>1, <1>3, <1>4, <1>6, <1>7, <1>8, <1>9 DEF TypeOK

\* Every operation of the user keeps the types.
LEMMA UserStepType ==
    ASSUME TypeOK, UserStep
    PROVE  TypeOK'
<1> USE DEF records, transports, plugins, installers
<1>1. ASSUME NEW j \in Jobs, CreateDownload(j)
      PROVE  TypeOK'
    <2> DEFINE entry == [ status |-> "active", link |-> LinkOf[j],
                          torbox |-> torboxEnabled /\ LinkOf[j] # "http" ]
               placed == [store EXCEPT ![j] = entry]
               started == {j}
               known == kinds \cup {j}
    <2>1. entry \in Entry
        BY LinkAssumption DEF Entry, Statuses, TypeOK
    <2>2. placed \in [Jobs -> Entry]
        BY <2>1 DEF TypeOK
    <2>3. StartDownload(started, placed, known, torboxEnabled, torrents)
        BY <1>1 DEF CreateDownload
    <2>4. /\ started \in SUBSET Jobs /\ known \in SUBSET Jobs
          /\ torboxEnabled \in BOOLEAN /\ torrents \in SUBSET Jobs
        BY DEF TypeOK
    <2> HIDE DEF entry, placed, started, known
    <2>5. TransportsOK' /\ kinds' \in SUBSET Jobs
        BY <2>2, <2>3, <2>4, StartDownloadType
    <2> QED
        BY <1>1, <2>5 DEF CreateDownload, TypeOK, TransportsOK
<1>2. ASSUME NEW j \in Jobs, CreatePluginDownload(j)
      PROVE  TypeOK'
    BY <1>2 DEF CreatePluginDownload, TypeOK, Entry, Statuses, Links
<1>3. ASSUME NEW j \in Jobs, CreateMove(j)
      PROVE  TypeOK'
    BY <1>3 DEF CreateMove, TypeOK, Entry, Statuses, Links
<1>4. ASSUME NEW j \in Jobs, CancelJob(j)
      PROVE  TypeOK'
    <2> DEFINE stopped == {j}
    <2>1. PICK gone \in SUBSET Jobs :
            /\ StopTransports(stopped, Dropped(gone))
            /\ rows' = rows \ gone
            /\ kinds' = kinds \ gone
        BY <1>4 DEF CancelJob, TypeOK, TransportsOK
    <2>2. Dropped(gone) \in [Jobs -> Entry]
        BY DroppedType
    <2>3. TransportsOK'
        BY <2>1, <2>2, StopTransportsType DEF stopped
    <2> QED
        BY <1>4, <2>1, <2>3 DEF CancelJob, TypeOK, TransportsOK
<1>5. ASSUME NEW j \in Jobs, PauseJob(j)
      PROVE  TypeOK'
    <2> DEFINE paused == [store EXCEPT ![j].status = "paused"]
               stopped == [transfers EXCEPT ![j] = "paused"]
    <2>1. paused \in [Jobs -> Entry]
        BY EntryUpdate DEF TypeOK, Statuses
    <2>2. stopped \in [Jobs -> Stages]
        BY DEF TypeOK, Stages
    <2>3. \/ store' = paused /\ UNCHANGED transfers
          \/ Pump(paused, stopped)
        BY <1>5 DEF PauseJob
    <2>4. store' \in [Jobs -> Entry] /\ transfers' \in [Jobs -> Stages]
        BY <2>1, <2>2, <2>3, PumpType DEF TypeOK
    <2> QED
        BY <1>5, <2>4 DEF PauseJob, TypeOK
<1>6. ASSUME NEW j \in Jobs, ResumeJob(j)
      PROVE  TypeOK'
    <2> DEFINE resumed == [store EXCEPT ![j].status = "active"]
               started == {j}
    <2>1. resumed \in [Jobs -> Entry]
        BY EntryUpdate DEF TypeOK, Statuses
    <2> HIDE DEF resumed, started
    <2>2. \/ store' = resumed /\ UNCHANGED <<kinds, torrents, replies, transfers, resolvers>>
             /\ pausedTorrents' \in SUBSET Jobs
          \/ StartDownload(started, resumed, kinds, torboxEnabled, torrents)
        BY <1>6 DEF ResumeJob, resumed, started, TypeOK
    <2>3. TransportsOK' /\ kinds' \in SUBSET Jobs
        <3>1. CASE StartDownload(started, resumed, kinds, torboxEnabled, torrents)
            <4>1. kinds \in SUBSET Jobs /\ torboxEnabled \in BOOLEAN
                  /\ torrents \in SUBSET Jobs /\ started \in SUBSET Jobs
                BY DEF TypeOK, started
            <4> QED
                BY <2>1, <3>1, <4>1, StartDownloadType
        <3> QED
            BY <2>1, <2>2, <3>1 DEF TypeOK, TransportsOK
    <2> QED
        BY <1>6, <2>3 DEF ResumeJob, TypeOK, TransportsOK
<1>7. ASSUME NEW j \in Jobs, RetryDownload(j)
      PROVE  TypeOK'
    <2> DEFINE retried == [store EXCEPT ![j].status = "active"]
               started == {j}
               known == kinds \cup {j}
    <2>1. retried \in [Jobs -> Entry]
        BY EntryUpdate DEF TypeOK, Statuses
    <2>2. StartDownload(started, retried, known, torboxEnabled, torrents)
        BY <1>7 DEF RetryDownload
    <2>3. /\ started \in SUBSET Jobs /\ known \in SUBSET Jobs
          /\ torboxEnabled \in BOOLEAN /\ torrents \in SUBSET Jobs
        BY DEF TypeOK
    <2> HIDE DEF retried, started, known
    <2>4. TransportsOK' /\ kinds' \in SUBSET Jobs
        BY <2>1, <2>2, <2>3, StartDownloadType
    <2> QED
        BY <1>7, <2>4 DEF RetryDownload, TypeOK, TransportsOK
<1>8. ASSUME NEW j \in Jobs, RetryPluginDownload(j)
      PROVE  TypeOK'
    <2>1. [store EXCEPT ![j].status = "active"] \in [Jobs -> Entry]
        BY EntryUpdate DEF TypeOK, Statuses
    <2> QED
        BY <1>8, <2>1 DEF RetryPluginDownload, TypeOK
<1>9. ASSUME NEW j \in Jobs, RetryInstall(j)
      PROVE  TypeOK'
    <2>1. [store EXCEPT ![j].status = "installing"] \in [Jobs -> Entry]
        BY EntryUpdate DEF TypeOK, Statuses
    <2>2. EntryOf[j] \in Entries
        BY EntryAssumption
    <2> QED
        BY <1>9, <2>1, <2>2 DEF RetryInstall, TypeOK
<1>10. ASSUME NEW S \in SUBSET rows, RemoveFinished(S)
       PROVE  TypeOK'
    BY <1>10, DroppedType DEF RemoveFinished, TypeOK
<1>11. ASSUME ClearFinished
       PROVE  TypeOK'
    BY <1>11, DroppedType DEF ClearFinished, TypeOK
<1>12. ASSUME NEW e \in Entries, RemoveGame(e)
       PROVE  TypeOK'
    <2> DEFINE gone == {j \in rows : EntryOf[j] = e}
               live == {j \in gone : InProgress(Status(j))}
    <2>1. Dropped(gone) \in [Jobs -> Entry]
        BY DroppedType
    <2>2. StopTransports(live, Dropped(gone)) /\ live \in SUBSET Jobs
        BY <1>12 DEF RemoveGame, TypeOK, TransportsOK
    <2> HIDE DEF gone, live
    <2>3. TransportsOK'
        BY <2>1, <2>2, StopTransportsType
    <2> QED
        BY <1>12, <2>3 DEF RemoveGame, TypeOK, TransportsOK
<1>13. ASSUME EnableTorBox
       PROVE  TypeOK'
    <2> DEFINE routed == { j \in rows :
                             /\ store[j].link \in {"magnet", "hydra"}
                             /\ ~store[j].torbox
                             /\ InProgress(Status(j))
                             /\ Status(j) \notin {"installing", "moving"} }
               starting == {j \in routed : ~Paused(Status(j)) /\ j \notin resolvers}
               r == [ j \in Jobs |-> IF j \in routed
                                     THEN [store[j] EXCEPT !.torbox = TRUE]
                                     ELSE store[j] ]
    <2>1. r \in [Jobs -> Entry]
        BY EntryUpdate DEF TypeOK
    <2>2. /\ StartDownload(starting, r, kinds, TRUE, torrents \ routed)
          /\ dirty' = (dirty \/ routed # {})
        BY <1>13 DEF EnableTorBox
    <2>3. starting \in SUBSET Jobs /\ torrents \ routed \in SUBSET Jobs
        BY DEF TypeOK
    <2> HIDE DEF routed, starting, r
    <2>4. kinds \in SUBSET Jobs /\ TRUE \in BOOLEAN
        BY DEF TypeOK
    <2>5. TransportsOK' /\ kinds' \in SUBSET Jobs
        BY <2>1, <2>2, <2>3, <2>4, StartDownloadType
    <2> QED
        BY <1>13, <2>2, <2>5 DEF EnableTorBox, TypeOK, TransportsOK
<1>14. ASSUME DisableTorBox
       PROVE  TypeOK'
    BY <1>14 DEF DisableTorBox, TypeOK
<1> QED
    BY <1>1, <1>2, <1>3, <1>4, <1>5, <1>6, <1>7, <1>8, <1>9, <1>10, <1>11,
       <1>12, <1>13, <1>14 DEF UserStep

\* Every signal of a transfer keeps the types.
LEMMA TransportStepType ==
    ASSUME TypeOK, TransportStep
    PROVE  TypeOK'
<1> USE DEF records, transports, plugins, installers
<1>c. ASSUME NEW j \in Jobs, Completed(j)
      PROVE  /\ store' \in [Jobs -> Entry]
             /\ kinds' \in SUBSET Jobs
             /\ dirty' \in BOOLEAN
             /\ installs' \in SUBSET Jobs
             /\ installingEntries' \in SUBSET Entries
    <2>1. \A s \in {"completed", "installing"} : WithStatus(j, s) \in [Jobs -> Entry]
        BY WithStatusType DEF Statuses
    <2>2. EntryOf[j] \in Entries
        BY EntryAssumption
    <2> QED
        BY <1>c, <2>1, <2>2 DEF Completed, Persist, TypeOK
<1>f. ASSUME NEW j \in Jobs, Failed(j)
      PROVE  /\ store' \in [Jobs -> Entry]
             /\ kinds' \in SUBSET Jobs
             /\ dirty' \in BOOLEAN
    <2>1. WithStatus(j, "failed") \in [Jobs -> Entry]
        BY WithStatusType DEF Statuses
    <2> QED
        BY <1>f, <2>1 DEF Failed, Persist, TypeOK
<1>r. ASSUME NEW j \in Jobs, NEW s \in Statuses, Reported(j, s)
      PROVE  TypeOK'
    <2>1. WithStatus(j, s) \in [Jobs -> Entry]
        BY WithStatusType
    <2> QED
        BY <1>r, <2>1 DEF Reported, Persist, TypeOK
<1>1. ASSUME NEW j \in Jobs, NEW label \in Labels, TorrentProgress(j, label)
      PROVE  TypeOK'
    <2> DEFINE s == IF Paused(Status(j)) THEN "paused"
                    ELSE IF j \in pausedTorrents THEN "paused" ELSE label
    <2>1. s \in Statuses
        BY LabelAssumption DEF Statuses
    <2>2. Reported(j, s)
        BY <1>1 DEF TorrentProgress
    <2> QED
        BY <2>1, <2>2, <1>r
<1>2. ASSUME NEW j \in Jobs, TorrentFinished(j) \/ TorrentFailed(j)
      PROVE  TypeOK'
    BY <1>2, <1>c, <1>f
       DEF TorrentFinished, TorrentFailed, TorrentLeaves, Completed, Failed, TypeOK
<1>3. ASSUME NEW j \in Jobs, HttpFinished(j) \/ HttpFailed(j)
      PROVE  TypeOK'
    BY <1>3, <1>c, <1>f
       DEF HttpFinished, HttpFailed, HttpLeaves, Completed, Failed, TypeOK
<1>4. ASSUME NEW j \in Jobs, TorBoxFinished(j) \/ TorBoxFailed(j)
      PROVE  TypeOK'
    <2>1. transfers' \in [Jobs -> Stages]
        BY <1>4 DEF TorBoxFinished, TorBoxFailed, TorBoxLeaves, TypeOK, Stages
    <2> QED
        BY <1>4, <1>c, <1>f, <2>1
           DEF TorBoxFinished, TorBoxFailed, TorBoxLeaves, Completed, Failed, TypeOK
<1>5. ASSUME NEW j \in Jobs, HttpProgress(j) \/ TorBoxProgress(j)
      PROVE  TypeOK'
    BY <1>5, <1>r DEF HttpProgress, TorBoxProgress, Statuses
<1>6. ASSUME NEW j \in Jobs, NEW link \in {"magnet", "http"}, LinkResolved(j, link)
      PROVE  TypeOK'
    <2> DEFINE found == Found(j, link)
               started == {j}
    <2>1. found \in [Jobs -> Entry]
        BY FoundEntry DEF TypeOK
    <2>2. \/ StartDownload(started, found, kinds, torboxEnabled, torrents)
          \/ /\ resolvers' = resolvers \ {j}
             /\ UNCHANGED <<store, kinds, torrents, pausedTorrents, replies, transfers>>
        BY <1>6 DEF LinkResolved, Found
    <2>3. /\ started \in SUBSET Jobs /\ kinds \in SUBSET Jobs
          /\ torboxEnabled \in BOOLEAN /\ torrents \in SUBSET Jobs
        BY DEF TypeOK
    <2> HIDE DEF found, started
    <2>4. TransportsOK' /\ kinds' \in SUBSET Jobs
        <3>1. CASE StartDownload(started, found, kinds, torboxEnabled, torrents)
            BY <2>1, <2>3, <3>1, StartDownloadType
        <3>2. CASE /\ resolvers' = resolvers \ {j}
                   /\ UNCHANGED <<store, kinds, torrents, pausedTorrents, replies,
                                  transfers>>
            BY <3>2 DEF TypeOK, TransportsOK
        <3> QED
            BY <2>2, <3>1, <3>2
    <2> QED
        BY <1>6, <2>4 DEF LinkResolved, TypeOK, TransportsOK
<1>7. ASSUME NEW j \in Jobs, LinkFailed(j)
      PROVE  TypeOK'
    BY <1>7, <1>f DEF LinkFailed, Failed, TypeOK
<1> QED
    BY <1>1, <1>2, <1>3, <1>4, <1>5, <1>6, <1>7 DEF TransportStep

\* Every report of an installer or a plugin worker keeps the types.
LEMMA WorkerStepType ==
    ASSUME TypeOK, WorkerStep
    PROVE  TypeOK'
<1> USE DEF records, transports, plugins, installers
<1>1. ASSUME NEW j \in Jobs, NEW s \in {"active", "installing", "paused"},
             PluginProgress(j, s)
      PROVE  TypeOK'
    <2> DEFINE new == IF Paused(Status(j)) /\ s = "active" THEN "paused" ELSE s
    <2>1. WithStatus(j, new) \in [Jobs -> Entry]
        BY WithStatusType DEF Statuses
    <2> QED
        BY <1>1, <2>1 DEF PluginProgress, Reported, Persist, TypeOK
<1>2. ASSUME NEW j \in Jobs, NEW s \in {"completed", "failed"}, PluginReturns(j, s)
      PROVE  TypeOK'
    <2>1. WithStatus(j, s) \in [Jobs -> Entry]
        BY WithStatusType DEF Statuses
    <2> QED
        BY <1>2, <2>1 DEF PluginReturns, Persist, TypeOK
<1>3. ASSUME NEW j \in Jobs, NEW s \in {"completed", "failed"}, MoveReturns(j, s)
      PROVE  TypeOK'
    BY <1>3 DEF MoveReturns, TypeOK, Entry, Statuses, Links
<1>4. ASSUME NEW j \in Jobs, NEW s \in {"completed", "installFailed"},
             InstallReturns(j, s)
      PROVE  TypeOK'
    <2>1. WithStatus(j, s) \in [Jobs -> Entry]
        BY WithStatusType DEF Statuses
    <2> QED
        BY <1>4, <2>1 DEF InstallReturns, Persist, TypeOK
<1> QED
    BY <1>1, <1>2, <1>3, <1>4 DEF WorkerStep

\* Every behaviour of the orchestrator keeps the types (TypeOK).
THEOREM TypeCorrect == Spec => []TypeOK
<1>1. Init => TypeOK
    BY NoEntryType DEF Init, TypeOK, Stages
<1>2. TypeOK /\ [Next]_vars => TypeOK'
    <2> SUFFICES ASSUME TypeOK, [Next]_vars
                 PROVE  TypeOK'
        OBVIOUS
    <2>1. CASE UserStep
        BY <2>1, UserStepType
    <2>2. CASE TransportStep
        BY <2>2, TransportStepType
    <2>3. CASE WorkerStep
        BY <2>3, WorkerStepType
    <2>4. CASE TorBoxPump
        BY <2>4, PumpType DEF TorBoxPump, TypeOK, plugins, installers
    <2>5. CASE PersistTick
        BY <2>5 DEF PersistTick, TypeOK, transports, plugins, installers
    <2>6. CASE Crash
        BY <2>6, RestartType DEF Crash, TypeOK
    <2>7. CASE Quit
        <3> DEFINE saved == [j \in Jobs |-> IF j \in rows THEN store[j] ELSE NoEntry]
        <3>1. saved \in [Jobs -> Entry]
            BY NoEntryType DEF TypeOK
        <3> HIDE DEF saved
        <3>2. Restart(saved)
            BY <2>7 DEF Quit, saved
        <3> QED
            BY <3>1, <3>2, RestartType
    <2>8. CASE UNCHANGED vars
        BY <2>8 DEF vars, records, transports, plugins, installers, TypeOK
    <2> QED
        BY <2>1, <2>2, <2>3, <2>4, <2>5, <2>6, <2>7, <2>8 DEF Next
<1> QED
    BY <1>1, <1>2, PTL DEF Spec

--------------------------------------------------------------------------------
(***************************************************************************)
(* TransferOwned and SingleTransport hold for every set of jobs, whatever  *)
(* labels libtorrent reports.                                              *)
(*                                                                         *)
(* Neither is inductive.  What decides where a job may be is its entry:    *)
(* its link and method are the same in the session that holds it, in the   *)
(* store and, for the next process, in jobs.json.  TransportInv says so    *)
(* job by job, together with what keeps the workers and the installer from *)
(* writing the row of a job that is being transferred.                     *)
(***************************************************************************)

\* What an entry of a job, in the store or in jobs.json, may say.
EntryInv(j, entry) ==
    entry.status # "none" =>
        /\ j \in created
        /\ entry.link # "none"
        /\ entry.link \in {"plugin", "move"} \/ LinkOf[j] \in {"plugin", "move"}
           => entry.link = LinkOf[j]
        /\ entry.link = "http" => ~entry.torbox /\ ~Paused(entry.status)
        /\ entry.link = "move" => entry.status = "moving" \/ Terminal(entry.status)

\* A job in a transport is listed, and its entry says which transport.  (A
\* torrent handle may have lost its row: see TorrentOwned.)
HeldInv(j) ==
    /\ j \in replies =>
        /\ j \in rows
        /\ store[j].link = "http" /\ ~store[j].torbox
        /\ Status(j) = "active"
    /\ j \in resolvers =>
        j \in rows /\ store[j].link = "hydra" /\ Status(j) = "active"
    /\ transfers[j] # "none" =>
        /\ j \in rows
        /\ store[j].link = "magnet" /\ store[j].torbox
        /\ Status(j) \in {"queued", "active", "paused"}
        /\ transfers[j] = "paused" <=> Paused(Status(j))
        /\ transfers[j] = "started" => Status(j) = "active"
    /\ j \in torrents /\ j \in rows =>
        /\ store[j].link = "magnet" /\ ~store[j].torbox
        /\ Status(j) \in {"queued", "active", "paused"}

\* Workers only write rows that no transport has.
WorkerInv(j) ==
    /\ j \in workers => LinkOf[j] = "plugin"
    /\ j \in movers => LinkOf[j] = "move"
    /\ j \in workers /\ j \in rows => ~Terminal(Status(j)) /\ j \notin installs
    /\ j \in installs /\ j \in rows => Status(j) = "installing"

\* A job that was not created is nowhere, a listed one has an entry.
CreatedInv(j) ==
    /\ j \notin created =>
        /\ j \notin rows /\ j \notin torrents
        /\ j \notin workers /\ j \notin movers /\ j \notin installs
    /\ j \in rows => Status(j) # "none"

JobInv(j) ==
    /\ EntryInv(j, store[j])
    /\ EntryInv(j, disk[j])
    /\ HeldInv(j)
    /\ WorkerInv(j)
    /\ CreatedInv(j)

TransportInv == \A j \in Jobs : JobInv(j)

--------------------------------------------------------------------------------
(***************************************************************************)
(* What the helpers of the model do to a single job                        *)
(***************************************************************************)

\* WithStatus touches the status of one row.
LEMMA WithStatusAt ==
    ASSUME TypeOK, NEW j \in Jobs, NEW s \in Statuses, NEW k \in Jobs
    PROVE  /\ WithStatus(j, s)[k].link = store[k].link
           /\ WithStatus(j, s)[k].torbox = store[k].torbox
           /\ WithStatus(j, s)[k].status =
                IF k = j /\ j \in rows THEN s ELSE store[k].status
BY DEF WithStatus, TypeOK, Entry

\* A pump starts some of the waiting transfers and writes the rows of all.
LEMMA PumpAt ==
    ASSUME NEW r \in [Jobs -> Entry], NEW tr \in [Jobs -> Stages], Pump(r, tr),
           NEW k \in Jobs
    PROVE  /\ store'[k].link = r[k].link /\ store'[k].torbox = r[k].torbox
           /\ \/ transfers'[k] = tr[k] /\ store'[k].status = r[k].status
              \/ /\ tr[k] = "waiting"
                 /\ \/ r[k].status = "none" /\ store'[k].status = "none"
                       /\ transfers'[k] \in {"waiting", "started"}
                    \/ r[k].status # "none" /\ store'[k].status = "active"
                       /\ transfers'[k] = "started"
                    \/ r[k].status # "none" /\ store'[k].status = "queued"
                       /\ transfers'[k] = "waiting"
<1>1. PICK go \in Fills(tr) :
        /\ transfers' = [j \in Jobs |-> IF j \in go THEN "started" ELSE tr[j]]
        /\ store' = [ j \in Jobs |->
                        IF j \in Waiting(tr) /\ r[j].status # "none"
                        THEN [r[j] EXCEPT !.status = IF j \in go THEN "active"
                                                                 ELSE "queued"]
                        ELSE r[j] ]
    BY DEF Pump
<1>2. go \subseteq Waiting(tr)
    BY DEF Fills
<1>3. CASE k \notin Waiting(tr)
    BY <1>1, <1>2, <1>3
<1>4. CASE k \in Waiting(tr) /\ r[k].status = "none"
    BY <1>1, <1>4 DEF Waiting
<1>5. CASE k \in Waiting(tr) /\ r[k].status # "none"
    <2>1. tr[k] = "waiting"
        BY <1>5 DEF Waiting
    <2>2. CASE k \in go
        <3>1. /\ store'[k] = [r[k] EXCEPT !.status = "active"]
              /\ transfers'[k] = "started"
            BY <1>1, <1>5, <2>2
        <3> QED
            BY <1>5, <2>1, <3>1 DEF Entry
    <2>3. CASE k \notin go
        <3>1. /\ store'[k] = [r[k] EXCEPT !.status = "queued"]
              /\ transfers'[k] = "waiting"
            BY <1>1, <1>5, <2>1, <2>3
        <3> QED
            BY <1>5, <2>1, <3>1 DEF Entry
    <2> QED
        BY <2>2, <2>3
<1> QED
    BY <1>3, <1>4, <1>5

\* startDownload sends a job of S one way, and leaves the others alone.
LEMMA StartDownloadAt ==
    ASSUME TypeOK, NEW S \in SUBSET Jobs, NEW r \in [Jobs -> Entry],
           NEW known, NEW tb \in BOOLEAN, NEW handles \in SUBSET Jobs,
           StartDownload(S, r, known, tb, handles),
           NEW k \in Jobs
    PROVE  /\ k \notin S =>
                /\ store'[k] = r[k]
                /\ k \in torrents' <=> k \in handles
                /\ k \in replies' <=> k \in replies
                /\ k \in resolvers' <=> k \in resolvers
                /\ transfers'[k] = transfers[k]
           /\ k \in S =>
                LET entry == Routed(r[k], tb)
                    route == RouteOf(entry)
                IN  /\ store'[k].link = entry.link
                    /\ store'[k].torbox = entry.torbox
                    /\ store'[k].status \in {r[k].status, "active", "failed"}
                    /\ store'[k].status = "failed" /\ r[k].status # "failed"
                       => /\ k \notin replies' \/ k \in replies
                          /\ k \notin torrents' \/ k \in handles
                          /\ route \in {"torrent", "http"}
                    /\ store'[k].status = "active" /\ r[k].status # "active"
                       => route = "resolver"
                    /\ route = "resolver" => store'[k].status = "active"
                    /\ k \in torrents' => k \in handles \/ route = "torrent"
                    /\ k \in replies' => k \in replies \/ route = "http"
                    /\ k \in resolvers' => route = "resolver"
                    /\ transfers'[k] = IF route = "torbox" THEN "waiting"
                                                           ELSE transfers[k]
<1>1. PICK refused \in Refusals(S, r, tb, handles, replies) :
        /\ store' = Launched(S, r, tb, refused)
        /\ torrents' = handles \cup (Via("torrent", S, r, tb) \ refused)
        /\ replies' = replies \cup (Via("http", S, r, tb) \ refused)
        /\ transfers' = [ j \in Jobs |-> IF j \in Via("torbox", S, r, tb)
                                         THEN "waiting" ELSE transfers[j] ]
        /\ resolvers' = (resolvers \ S) \cup Via("resolver", S, r, tb)
    BY DEF StartDownload
<1>2. refused \subseteq Via("torrent", S, r, tb) \cup Via("http", S, r, tb)
    BY DEF Refusals
<1>3. CASE k \notin S
    BY <1>1, <1>2, <1>3 DEF Launched, Via
<1>4. CASE k \in S
    <2> DEFINE entry == Routed(r[k], tb)
               route == RouteOf(entry)
    <2>1. entry \in Entry
        BY RoutedType
    <2>2. \A w : k \in Via(w, S, r, tb) <=> route = w
        BY <1>4 DEF Via
    <2>3. entry.status = r[k].status
        BY DEF Routed, Entry
    <2>4. store'[k] = IF k \in refused THEN [entry EXCEPT !.status = "failed"]
                      ELSE IF route = "resolver"
                      THEN [entry EXCEPT !.status = "active"] ELSE entry
        BY <1>1, <1>4, <2>2 DEF Launched
    <2>5. k \in refused => route \in {"torrent", "http"}
        BY <1>2, <2>2
    <2> HIDE DEF entry, route
    <2>6. /\ store'[k].link = entry.link
          /\ store'[k].torbox = entry.torbox
          /\ store'[k].status = IF k \in refused THEN "failed"
                                ELSE IF route = "resolver" THEN "active"
                                ELSE r[k].status
        BY <2>1, <2>3, <2>4 DEF Entry
    <2>7. /\ k \in torrents' <=> k \in handles \/ (route = "torrent" /\ k \notin refused)
          /\ k \in replies' <=> k \in replies \/ (route = "http" /\ k \notin refused)
          /\ k \in resolvers' <=> route = "resolver"
          /\ transfers'[k] = IF route = "torbox" THEN "waiting" ELSE transfers[k]
        BY <1>1, <1>4, <2>2
    <2> QED
        BY <1>4, <2>5, <2>6, <2>7 DEF entry, route
<1> QED
    BY <1>3, <1>4

--------------------------------------------------------------------------------
(***************************************************************************)
(* The shapes of handlers                                                  *)
(***************************************************************************)

\* A handler that writes one row and takes nothing from another job.  That the
\* row fits what is left of the job is the handler's part (HeldInv, WorkerInv).
LEMMA RowWritten ==
    ASSUME TypeOK, TransportInv,
           NEW j \in Jobs, NEW s \in Statuses \ {"none"},
           store' = WithStatus(j, s), rows' = rows, disk' = disk,
           created' = created,
           \A k \in Jobs \ {j} : /\ k \in torrents' <=> k \in torrents
                                 /\ k \in replies' <=> k \in replies
                                 /\ k \in resolvers' <=> k \in resolvers
                                 /\ transfers'[k] = transfers[k]
                                 /\ k \in workers' <=> k \in workers
                                 /\ k \in movers' <=> k \in movers
                                 /\ k \in installs' <=> k \in installs,
           j \in created' \/ /\ j \notin torrents' /\ j \notin workers'
                             /\ j \notin movers' /\ j \notin installs',
           j \in rows /\ store[j].link = "http" => s # "paused",
           j \in rows /\ store[j].link = "move" => Terminal(s),
           HeldInv(j)', WorkerInv(j)'
    PROVE  TransportInv'
<1> SUFFICES ASSUME NEW k \in Jobs
             PROVE  JobInv(k)'
    BY DEF TransportInv
<1>1. JobInv(k) /\ JobInv(j)
    BY DEF TransportInv
<1>2. /\ store'[k].link = store[k].link
      /\ store'[k].torbox = store[k].torbox
      /\ store'[k].status = IF k = j /\ j \in rows THEN s ELSE store[k].status
    BY WithStatusAt
<1>3. EntryInv(k, store[k])'
    BY <1>1, <1>2 DEF JobInv, EntryInv, CreatedInv, Status, Paused
<1>4. EntryInv(k, disk[k])'
    BY <1>1 DEF JobInv, EntryInv
<1>5. CreatedInv(k)'
    BY <1>1, <1>2 DEF JobInv, CreatedInv, Status
<1>6. HeldInv(k)'
    <2>1. CASE k = j
        BY <2>1
    <2>2. CASE k # j
        BY <1>1, <1>2, <2>2 DEF JobInv, HeldInv, Status
    <2> QED
        BY <2>1, <2>2
<1>7. WorkerInv(k)'
    <2>1. CASE k = j
        BY <2>1
    <2>2. CASE k # j
        BY <1>1, <1>2, <2>2 DEF JobInv, WorkerInv, Status
    <2> QED
        BY <2>1, <2>2
<1> QED
    BY <1>3, <1>4, <1>5, <1>6, <1>7 DEF JobInv

\* A handler that calls startDownload for the jobs of S.  They are listed, not
\* finished, and no transport has them but the one they will go to.
LEMMA DownloadStarted ==
    ASSUME TypeOK, TransportInv,
           NEW S \in SUBSET Jobs, NEW r \in [Jobs -> Entry], NEW known,
           NEW tb \in BOOLEAN, NEW handles \in SUBSET torrents,
           StartDownload(S, r, known, tb, handles),
           disk' = disk, workers' = workers, movers' = movers,
           installs' = installs,
           created \subseteq created',
           \A k \in S :
                /\ k \in rows' /\ k \in created'
                /\ r[k].link \in {"magnet", "http", "hydra"}
                /\ LinkOf[k] \notin {"plugin", "move"}
                /\ r[k].status \in {"queued", "active"}
                /\ r[k].link = "http" => ~r[k].torbox /\ r[k].status = "active"
                /\ transfers[k] # "none" => r[k].link = "magnet" /\ r[k].torbox
                /\ k \notin replies /\ k \notin handles
                /\ k \notin workers /\ k \notin installs,
           \A k \in Jobs \ S :
                /\ r[k].status = store[k].status /\ r[k].link = store[k].link
                /\ \/ r[k].torbox = store[k].torbox
                   \/ /\ store[k].link \in {"magnet", "hydra"}
                      /\ transfers[k] = "none" /\ k \notin handles
                /\ k \in rows' <=> k \in rows
                /\ k \in created' <=> k \in created
    PROVE  TransportInv'
<1> SUFFICES ASSUME NEW k \in Jobs
             PROVE  JobInv(k)'
    BY DEF TransportInv
<1>1. JobInv(k)
    BY DEF TransportInv
<1>2. handles \in SUBSET Jobs
    BY DEF TypeOK
<1>3. EntryInv(k, disk[k])'
    BY <1>1 DEF JobInv, EntryInv
<1>4. CASE k \notin S
    <2>1. /\ store'[k] = r[k]
          /\ k \in torrents' <=> k \in handles
          /\ k \in replies' <=> k \in replies
          /\ k \in resolvers' <=> k \in resolvers
          /\ transfers'[k] = transfers[k]
        BY <1>2, <1>4, StartDownloadAt
    <2>2. /\ EntryInv(k, store[k])' /\ CreatedInv(k)'
        BY <1>1, <1>4, <2>1 DEF JobInv, EntryInv, CreatedInv, Status
    <2>3. HeldInv(k)'
        BY <1>1, <1>4, <2>1 DEF JobInv, HeldInv, Status
    <2>4. WorkerInv(k)'
        BY <1>1, <1>4, <2>1 DEF JobInv, WorkerInv, Status
    <2> QED
        BY <1>3, <2>2, <2>3, <2>4 DEF JobInv
<1>5. CASE k \in S
    <2> DEFINE entry == Routed(r[k], tb)
               route == RouteOf(entry)
    <2>1. /\ store'[k].link = entry.link
          /\ store'[k].torbox = entry.torbox
          /\ store'[k].status \in {r[k].status, "active", "failed"}
          /\ store'[k].status = "failed" /\ r[k].status # "failed"
             => /\ k \notin replies' \/ k \in replies
                /\ k \notin torrents' \/ k \in handles
                /\ route \in {"torrent", "http"}
          /\ store'[k].status = "active" /\ r[k].status # "active"
             => route = "resolver"
          /\ route = "resolver" => store'[k].status = "active"
          /\ k \in torrents' => k \in handles \/ route = "torrent"
          /\ k \in replies' => k \in replies \/ route = "http"
          /\ k \in resolvers' => route = "resolver"
          /\ transfers'[k] = IF route = "torbox" THEN "waiting" ELSE transfers[k]
        BY <1>2, <1>5, StartDownloadAt
    <2>2. /\ entry.link = r[k].link
          /\ entry.torbox <=> r[k].torbox \/ (tb /\ r[k].link # "http")
        BY DEF Routed, Entry
    <2>3. /\ route = "resolver" <=> r[k].link = "hydra"
          /\ route = "torbox" <=> r[k].link # "hydra" /\ entry.torbox
          /\ route = "http" <=> r[k].link = "http" /\ ~entry.torbox
          /\ route = "torrent" <=> r[k].link = "magnet" /\ ~entry.torbox
        BY <1>5, <2>2 DEF RouteOf
    <2> HIDE DEF entry, route
    <2>4. EntryInv(k, store[k])' /\ CreatedInv(k)'
        BY <1>1, <1>5, <2>1, <2>2 DEF JobInv, EntryInv, CreatedInv, Status, Paused
    <2>5. HeldInv(k)'
        BY <1>1, <1>5, <2>1, <2>2, <2>3 DEF JobInv, HeldInv, Status, Paused
    <2>6. WorkerInv(k)'
        BY <1>1, <1>5, <2>1 DEF JobInv, WorkerInv, Status
    <2> QED
        BY <1>3, <2>4, <2>5, <2>6 DEF JobInv
<1> QED
    BY <1>4, <1>5

\* A handler that stops the jobs of S and drops the rows of gone, which are those
\* of S and finished ones.
LEMMA JobsDropped ==
    ASSUME TypeOK, TransportInv,
           NEW S \in SUBSET Jobs, NEW gone \in SUBSET Jobs,
           S \subseteq gone,
           \A k \in S : k \in rows,
           \A k \in (gone \cap rows) \ S : Terminal(Status(k)),
           \/ StopTransports(S, Dropped(gone))
           \/ S = {} /\ store' = Dropped(gone) /\ UNCHANGED transports,
           rows' = rows \ gone, disk' = store', created' = created,
           workers' = workers, movers' = movers, installs' = installs
    PROVE  TransportInv'
<1> SUFFICES ASSUME NEW k \in Jobs
             PROVE  JobInv(k)'
    BY DEF TransportInv
<1> DEFINE r == Dropped(gone)
           left == [ j \in Jobs |-> IF j \in StopAll(S, "torbox")
                                    THEN "none" ELSE transfers[j] ]
<1>1. JobInv(k)
    BY DEF TransportInv
<1>2. r \in [Jobs -> Entry] /\ left \in [Jobs -> Stages]
    BY DroppedType DEF TypeOK, Stages
<1>3. /\ k \in torrents' => k \in torrents
      /\ k \in replies' => k \in replies
      /\ k \in resolvers' => k \in resolvers
      /\ k \in S /\ StopPath(k) = "torrent" => k \notin torrents'
      /\ k \in S /\ StopPath(k) = "http" => k \notin replies'
      /\ k \in S => k \notin resolvers'
    BY DEF StopTransports, StopAll, transports
<1>4. /\ left[k] \in {"none", transfers[k]}
      /\ k \in S /\ StopPath(k) = "torbox" => left[k] = "none"
    BY DEF StopAll
<1>5. /\ store'[k].link = r[k].link /\ store'[k].torbox = r[k].torbox
      /\ \/ transfers'[k] \in {left[k], transfers[k]} /\ store'[k].status = r[k].status
            /\ (k \in S /\ StopPath(k) = "torbox" => transfers'[k] = "none")
         \/ /\ left[k] = "waiting"
            /\ \/ r[k].status = "none" /\ store'[k].status = "none"
                  /\ transfers'[k] \in {"waiting", "started"}
               \/ r[k].status # "none" /\ store'[k].status = "active"
                  /\ transfers'[k] = "started"
               \/ r[k].status # "none" /\ store'[k].status = "queued"
                  /\ transfers'[k] = "waiting"
    <2>1. \/ Pump(r, left)
          \/ transfers' = left /\ store' = r
          \/ S = {} /\ transfers' = transfers /\ store' = r
        BY DEF StopTransports, transports
    <2> HIDE DEF r, left
    <2>2. CASE Pump(r, left)
        BY <1>2, <1>4, <2>2, PumpAt
    <2>3. CASE transfers' = left /\ store' = r
        BY <1>4, <2>3
    <2>4. CASE S = {} /\ transfers' = transfers /\ store' = r
        BY <2>4
    <2> QED
        BY <2>1, <2>2, <2>3, <2>4
<1>6. r[k] = IF k \in gone THEN NoEntry ELSE store[k]
    BY DEF Dropped
<1> HIDE DEF r, left
<1>7. CASE k \in gone
    <2>1. r[k].status = "none"
        BY <1>6, <1>7 DEF NoEntry
    <2>2. store'[k].status = "none" /\ k \notin rows'
        BY <1>5, <1>7, <2>1
    <2>3. /\ k \notin resolvers' /\ k \notin replies'
        BY <1>1, <1>3, <1>7
           DEF JobInv, HeldInv, StopPath, Terminal, Running, Active, Paused
    <2>4. transfers'[k] = "none"
        <3>1. transfers[k] # "none" => k \in S /\ StopPath(k) = "torbox"
            BY <1>1, <1>7 DEF JobInv, HeldInv, StopPath, Terminal
        <3> QED
            BY <1>4, <1>5, <3>1
    <2> QED
        BY <1>1, <1>3, <2>2, <2>3, <2>4
           DEF JobInv, EntryInv, HeldInv, WorkerInv, CreatedInv
<1>8. CASE k \notin gone
    <2>1. transfers[k] = left[k] /\ r[k] = store[k] /\ (k \in rows' <=> k \in rows)
        BY <1>6, <1>8 DEF left, StopAll
    <2>2. EntryInv(k, store[k])' /\ EntryInv(k, disk[k])' /\ CreatedInv(k)'
        BY <1>1, <1>3, <1>5, <2>1
           DEF JobInv, EntryInv, HeldInv, CreatedInv, Status, Paused
    <2>3. HeldInv(k)'
        BY <1>1, <1>3, <1>5, <2>1 DEF JobInv, HeldInv, Status, Paused
    <2>4. WorkerInv(k)'
        BY <1>1, <1>3, <1>5, <2>1 DEF JobInv, HeldInv, WorkerInv, Status, Terminal
    <2> QED
        BY <2>2, <2>3, <2>4 DEF JobInv
<1> QED
    BY <1>7, <1>8

\* A restart from entries that may be in jobs.json.
LEMMA Restarted ==
    ASSUME TypeOK, NEW saved \in [Jobs -> Entry], Restart(saved),
           \A k \in Jobs : EntryInv(k, saved[k])
    PROVE  TransportInv'
<1> DEFINE r == [j \in Jobs |-> Recovered(saved[j], torboxEnabled)]
           present == {j \in Jobs : r[j].status # "none"}
           live == {j \in present : ~Terminal(r[j].status)}
           owned == {j \in live : r[j].link = "plugin"}
           starting == {j \in live \ owned : ~StaysIdle(r[j])}
           paused == {j \in starting : Paused(r[j].status)}
<1> SUFFICES ASSUME NEW k \in Jobs
             PROVE  JobInv(k)'
    BY DEF TransportInv
<1>1. StartRecovered(r)
    BY DEF Restart
<1>2. PICK expired \in SUBSET (present \ live),
           refused \in Refusals(starting, r, torboxEnabled, {}, {}),
           resumed \in SUBSET owned :
        /\ store' = [ j \in Jobs |->
                        IF j \in expired THEN NoEntry
                        ELSE Launched(starting, r, torboxEnabled, refused)[j] ]
        /\ rows' = present \ expired
        /\ disk' = IF expired = {} THEN r ELSE store'
        /\ torrents' = Via("torrent", starting, r, torboxEnabled) \ refused
        /\ replies' = Via("http", starting, r, torboxEnabled) \ refused
        /\ transfers' = [ j \in Jobs |->
                            IF j \in Via("torbox", starting, r, torboxEnabled)
                            THEN "waiting" ELSE "none" ]
        /\ resolvers' = Via("resolver", starting, r, torboxEnabled)
        /\ workers' = resumed
        /\ movers' = {}
        /\ installs' = {}
        /\ created' = created
    BY ZenonT(40), <1>1 DEF StartRecovered
<1>3. r[k] = Recovered(saved[k], torboxEnabled)
    OBVIOUS
<1>4. /\ k \in present <=> r[k].status # "none"
      /\ k \in live <=> r[k].status # "none" /\ ~Terminal(r[k].status)
      /\ k \in owned <=> k \in live /\ r[k].link = "plugin"
      /\ k \in starting <=> k \in live /\ k \notin owned /\ ~StaysIdle(r[k])
    OBVIOUS
<1> HIDE DEF r, present, live, owned, starting, paused
<1>5. saved[k] \in Entry /\ torboxEnabled \in BOOLEAN
    BY DEF TypeOK
<1>6. r[k] \in Entry
    BY <1>3, <1>5, RecoveredType
<1>7. /\ r[k].link = saved[k].link
      /\ r[k].status = "none" <=> saved[k].status = "none"
      /\ r[k].torbox => saved[k].torbox \/ saved[k].link # "http"
      /\ k \in live /\ r[k].link # "plugin"
         => /\ r[k].link # "move"
            /\ r[k].status \in {"active", "paused"}
            /\ r[k].status = "paused" => saved[k].status = "paused"
      /\ r[k].status = "paused" => saved[k].status = "paused"
      /\ r[k].link = "move" => r[k].status = "none" \/ Terminal(r[k].status)
    BY <1>3, <1>4, <1>5 DEF Recovered, Entry, Terminal, Paused
<1>8. EntryInv(k, r[k])
    BY <1>5, <1>6, <1>7 DEF EntryInv, Paused, Terminal, Entry
<1> DEFINE entry == Routed(r[k], torboxEnabled)
           route == RouteOf(entry)
<1>9. /\ entry.link = r[k].link
      /\ entry.status = r[k].status
      /\ entry.torbox <=> r[k].torbox \/ (torboxEnabled /\ r[k].link # "http")
      /\ entry \in Entry
    BY <1>5, <1>6 DEF Routed, Entry
<1>10. \A w : k \in Via(w, starting, r, torboxEnabled) <=> k \in starting /\ route = w
    BY DEF Via
<1>11. \/ k \in expired /\ store'[k] = NoEntry
       \/ /\ k \notin expired
          /\ store'[k] = IF k \in refused THEN [entry EXCEPT !.status = "failed"]
                         ELSE IF k \in starting /\ route = "resolver"
                         THEN [entry EXCEPT !.status = "active"]
                         ELSE IF k \in starting THEN entry ELSE r[k]
    BY <1>2, <1>10 DEF Launched
<1>12. k \in refused => k \in starting /\ route \in {"torrent", "http"}
    BY <1>2, <1>10 DEF Refusals
<1>13. k \in starting => k \in live
    BY <1>4
<1>14. k \in expired => k \in present /\ k \notin live
    BY <1>2
<1> HIDE DEF entry
<1>15. /\ k \in expired => store'[k].status = "none"
       /\ k \notin expired =>
            /\ store'[k].link = r[k].link
            /\ store'[k].torbox = IF k \in starting THEN entry.torbox ELSE r[k].torbox
            /\ store'[k].status = IF k \in refused THEN "failed"
                                  ELSE IF k \in starting /\ route = "resolver"
                                  THEN "active" ELSE r[k].status
    BY <1>6, <1>9, <1>11, <1>12 DEF NoEntry, Entry
<1>16. EntryInv(k, store[k])'
    BY <1>2, <1>4, <1>7, <1>8, <1>9, <1>12, <1>13, <1>15 DEF EntryInv, Paused, Terminal
<1>17. EntryInv(k, disk[k])'
    BY <1>2, <1>8, <1>16 DEF EntryInv
<1>18. /\ route = "resolver" <=> r[k].link = "hydra"
       /\ route = "torbox" <=> r[k].link # "hydra" /\ entry.torbox
       /\ route = "http" <=> r[k].link = "http" /\ ~entry.torbox
       /\ route = "torrent" => ~entry.torbox /\ r[k].link \notin {"http", "hydra"}
    BY <1>9 DEF RouteOf
<1>19. /\ k \in torrents' <=> k \in starting /\ route = "torrent" /\ k \notin refused
       /\ k \in replies' <=> k \in starting /\ route = "http" /\ k \notin refused
       /\ k \in resolvers' <=> k \in starting /\ route = "resolver"
       /\ transfers'[k] = IF k \in starting /\ route = "torbox" THEN "waiting"
                                                                ELSE "none"
    BY <1>2, <1>10
<1> HIDE DEF route
<1>20. k \in starting =>
        /\ k \in rows'
        /\ r[k].link \in {"magnet", "http", "hydra"}
        /\ r[k].link = "http" => ~r[k].torbox /\ r[k].status = "active"
        /\ r[k].status \in {"active", "paused"}
        /\ r[k].status = "paused" => ~r[k].torbox /\ r[k].link # "hydra"
    BY <1>2, <1>4, <1>6, <1>7, <1>8, <1>13, <1>14
       DEF EntryInv, Entry, Links, StaysIdle, Paused
<1>21. torboxEnabled /\ k \in starting /\ r[k].link # "http" => r[k].torbox
    BY <1>3, <1>4, <1>5, <1>20 DEF Recovered, Terminal, Paused, Entry
<1>22. HeldInv(k)'
    BY <1>9, <1>12, <1>14, <1>13, <1>15, <1>18, <1>19, <1>20, <1>21
       DEF HeldInv, Status, Paused
<1>23. k \in workers' => LinkOf[k] = "plugin" /\ k \in live /\ k \notin starting
    BY <1>2, <1>4, <1>8 DEF EntryInv
<1>24. WorkerInv(k)'
    BY <1>2, <1>4, <1>12, <1>14, <1>15, <1>23 DEF WorkerInv, Status
<1>25. CreatedInv(k)'
    BY <1>2, <1>4, <1>8, <1>12, <1>13, <1>15, <1>19, <1>23
       DEF CreatedInv, EntryInv, Status
<1> QED
    BY <1>16, <1>17, <1>22, <1>24, <1>25 DEF JobInv

--------------------------------------------------------------------------------
(***************************************************************************)
(* Every action keeps TransportInv                                         *)
(***************************************************************************)

\* What EntryUpdate says of the fields.
LEMMA EntryFields ==
    ASSUME NEW entry \in Entry, NEW s
    PROVE  /\ [entry EXCEPT !.status = s].status = s
           /\ [entry EXCEPT !.status = s].link = entry.link
           /\ [entry EXCEPT !.status = s].torbox = entry.torbox
           /\ [entry EXCEPT !.torbox = s].status = entry.status
           /\ [entry EXCEPT !.torbox = s].link = entry.link
           /\ [entry EXCEPT !.torbox = s].torbox = s
BY DEF Entry

\* A new download, plugin download or move starts with the transport it owns.
LEMMA CreateKeeps ==
    ASSUME TypeOK, TransportInv, NEW j \in Jobs,
           CreateDownload(j) \/ CreatePluginDownload(j) \/ CreateMove(j)
    PROVE  TransportInv'
<1>1. CASE CreateDownload(j)
    <2> DEFINE entry == [ status |-> "active", link |-> LinkOf[j],
                          torbox |-> torboxEnabled /\ LinkOf[j] # "http" ]
               r == [store EXCEPT ![j] = entry]
               S == {j}
               known == kinds \cup {j}
    <2>1. entry \in Entry
        BY LinkAssumption DEF Entry, Statuses, TypeOK
    <2>2. r \in [Jobs -> Entry] /\ S \in SUBSET Jobs
        BY <2>1 DEF TypeOK
    <2>3. StartDownload(S, r, known, torboxEnabled, torrents)
        BY <1>1 DEF CreateDownload
    <2>4. /\ disk' = disk /\ workers' = workers /\ movers' = movers
          /\ installs' = installs
          /\ created' = created \cup {j} /\ rows' = rows \cup {j}
          /\ j \notin created /\ LinkOf[j] \in {"magnet", "http", "hydra"}
        BY <1>1 DEF CreateDownload, plugins, installers
    <2>5. JobInv(j)
        BY DEF TransportInv
    <2>6. /\ j \notin rows /\ j \notin torrents /\ j \notin workers
          /\ j \notin installs /\ j \notin replies /\ transfers[j] = "none"
        BY <2>4, <2>5 DEF JobInv, CreatedInv, HeldInv
    <2>7. /\ r[j].link = LinkOf[j] /\ r[j].status = "active"
          /\ r[j].link = "http" => ~r[j].torbox
        BY DEF TypeOK
    <2>8. \A k \in S :
            /\ k \in rows' /\ k \in created'
            /\ r[k].link \in {"magnet", "http", "hydra"}
            /\ LinkOf[k] \notin {"plugin", "move"}
            /\ r[k].status \in {"queued", "active"}
            /\ r[k].link = "http" => ~r[k].torbox /\ r[k].status = "active"
            /\ transfers[k] # "none" => r[k].link = "magnet" /\ r[k].torbox
            /\ k \notin replies /\ k \notin torrents
            /\ k \notin workers /\ k \notin installs
        BY <2>4, <2>6, <2>7
    <2>9. \A k \in Jobs \ S :
            /\ r[k] = store[k]
            /\ k \in rows' <=> k \in rows
            /\ k \in created' <=> k \in created
        BY <2>4
    <2>10. torboxEnabled \in BOOLEAN /\ created \subseteq created'
           /\ torrents \in SUBSET torrents
        BY <2>4 DEF TypeOK
    <2> HIDE DEF entry, r, S, known
    <2> QED
        BY <2>2, <2>3, <2>4, <2>8, <2>9, <2>10, DownloadStarted
<1>2. CASE CreatePluginDownload(j) \/ CreateMove(j)
    <2> SUFFICES ASSUME NEW k \in Jobs
                 PROVE  JobInv(k)'
        BY DEF TransportInv
    <2>1. JobInv(k)
        BY DEF TransportInv
    <2>2. /\ j \notin created /\ created' = created \cup {j}
          /\ rows' = rows \cup {j} /\ disk' = disk
          /\ torrents' = torrents /\ replies' = replies
          /\ transfers' = transfers /\ resolvers' = resolvers
          /\ installs' = installs
          /\ workers' \in {workers, workers \cup {j}}
          /\ movers' \in {movers, movers \cup {j}}
          /\ workers' # workers => LinkOf[j] = "plugin"
          /\ movers' # movers => LinkOf[j] = "move"
        BY <1>2 DEF CreatePluginDownload, CreateMove, transports, plugins, installers
    <2>3. IF k = j THEN /\ store'[k].link = LinkOf[j]
                        /\ LinkOf[j] \in {"plugin", "move"}
                        /\ store'[k].status \in {"active", "moving"}
                        /\ LinkOf[j] = "move" => store'[k].status = "moving"
                   ELSE store'[k] = store[k]
        BY <1>2 DEF CreatePluginDownload, CreateMove, TypeOK
    <2>4. CASE k # j
        <3>1. EntryInv(k, store[k])' /\ EntryInv(k, disk[k])' /\ CreatedInv(k)'
            BY <2>1, <2>2, <2>3, <2>4 DEF JobInv, EntryInv, CreatedInv, Status
        <3>2. HeldInv(k)' /\ WorkerInv(k)'
            BY <2>1, <2>2, <2>3, <2>4 DEF JobInv, HeldInv, WorkerInv, Status
        <3> QED
            BY <3>1, <3>2 DEF JobInv
    <2>5. CASE k = j
        <3>1. EntryInv(k, store[k])' /\ EntryInv(k, disk[k])' /\ CreatedInv(k)'
            BY <2>1, <2>2, <2>3, <2>5 DEF JobInv, EntryInv, CreatedInv, Status
        <3>2. HeldInv(k)'
            BY <2>1, <2>2, <2>5 DEF JobInv, HeldInv, CreatedInv, Status
        <3>3. WorkerInv(k)'
            BY <2>1, <2>2, <2>3, <2>5
               DEF JobInv, WorkerInv, CreatedInv, Status, Terminal
        <3> QED
            BY <3>1, <3>2, <3>3 DEF JobInv
    <2> QED
        BY <2>4, <2>5
<1> QED
    BY <1>1, <1>2

\* Cancelling, removing or clearing jobs leaves no transport of them.
LEMMA DropKeeps ==
    ASSUME TypeOK, TransportInv,
           \/ \E j \in Jobs : CancelJob(j)
           \/ \E S \in SUBSET rows : RemoveFinished(S)
           \/ ClearFinished
           \/ \E e \in Entries : RemoveGame(e)
    PROVE  TransportInv'
<1>1. ASSUME NEW j \in Jobs, CancelJob(j)
      PROVE  TransportInv'
    <2> DEFINE S == {j}
               gone == {j} \cup { k \in rows : /\ EntryOf[k] = EntryOf[j]
                                              /\ Retryable(Status(k)) }
    <2>1. /\ StopTransports(S, Dropped(gone))
          /\ rows' = rows \ gone /\ disk' = store' /\ created' = created
          /\ workers' = workers /\ movers' = movers /\ installs' = installs
          /\ j \in rows
        BY <1>1 DEF CancelJob
    <2>2. /\ S \in SUBSET Jobs /\ gone \in SUBSET Jobs /\ S \subseteq gone
          /\ \A k \in S : k \in rows
          /\ \A k \in (gone \cap rows) \ S : Terminal(Status(k))
        BY <2>1 DEF TypeOK, Retryable, Terminal
    <2> HIDE DEF S, gone
    <2> QED
        BY <2>1, <2>2, JobsDropped
<1>2. ASSUME NEW T \in SUBSET rows, RemoveFinished(T)
      PROVE  TransportInv'
    <2> DEFINE S == {}
    <2>1. /\ S = {} /\ store' = Dropped(T) /\ UNCHANGED transports
          /\ rows' = rows \ T /\ disk' = store' /\ created' = created
          /\ workers' = workers /\ movers' = movers /\ installs' = installs
        BY <1>2 DEF RemoveFinished, plugins, installers
    <2>2. /\ S \in SUBSET Jobs /\ T \in SUBSET Jobs /\ S \subseteq T
          /\ \A k \in S : k \in rows
          /\ \A k \in (T \cap rows) \ S : Terminal(Status(k))
        BY <1>2 DEF TypeOK, RemoveFinished
    <2> HIDE DEF S
    <2> QED
        BY <2>1, <2>2, JobsDropped
<1>3. ASSUME ClearFinished
      PROVE  TransportInv'
    <2> DEFINE S == {}
               gone == Jobs \ {k \in rows : ~Terminal(Status(k))}
    <2>1. /\ S = {} /\ store' = Dropped(gone) /\ UNCHANGED transports
          /\ rows' = rows \ gone /\ disk' = store' /\ created' = created
          /\ workers' = workers /\ movers' = movers /\ installs' = installs
        BY <1>3 DEF ClearFinished, plugins, installers, TypeOK
    <2>2. /\ S \in SUBSET Jobs /\ gone \in SUBSET Jobs /\ S \subseteq gone
          /\ \A k \in S : k \in rows
          /\ \A k \in (gone \cap rows) \ S : Terminal(Status(k))
        OBVIOUS
    <2> HIDE DEF S, gone
    <2> QED
        BY <2>1, <2>2, JobsDropped
<1>4. ASSUME NEW e \in Entries, RemoveGame(e)
      PROVE  TransportInv'
    <2> DEFINE gone == {k \in rows : EntryOf[k] = e}
               S == {k \in gone : InProgress(Status(k))}
    <2>1. /\ StopTransports(S, Dropped(gone))
          /\ rows' = rows \ gone /\ disk' = store' /\ created' = created
          /\ workers' = workers /\ movers' = movers /\ installs' = installs
        BY <1>4 DEF RemoveGame, plugins, installers
    <2>2. /\ S \in SUBSET Jobs /\ gone \in SUBSET Jobs /\ S \subseteq gone
          /\ \A k \in S : k \in rows
        BY DEF TypeOK
    <2>3. ASSUME NEW k \in (gone \cap rows) \ S
          PROVE  Terminal(Status(k))
        <3>1. k \in Jobs /\ k \in rows /\ ~InProgress(Status(k))
            BY DEF TypeOK
        <3>2. Status(k) \in Statuses /\ Status(k) # "none"
            BY <3>1 DEF TransportInv, JobInv, CreatedInv, Status, TypeOK, Entry
        <3> QED
            BY <3>1, <3>2 DEF InProgress, Active, Paused, Terminal, Statuses
    <2> HIDE DEF S, gone
    <2> QED
        BY <2>1, <2>2, <2>3, JobsDropped
<1> QED
    BY <1>1, <1>2, <1>3, <1>4

\* A paused job keeps its transfer, paused in turn.
LEMMA PauseKeeps ==
    ASSUME TypeOK, TransportInv, NEW j \in Jobs, PauseJob(j)
    PROVE  TransportInv'
<1> DEFINE paused == [store EXCEPT ![j].status = "paused"]
           stopped == [transfers EXCEPT ![j] = "paused"]
<1> SUFFICES ASSUME NEW k \in Jobs
             PROVE  JobInv(k)'
    BY DEF TransportInv
<1>1. JobInv(k) /\ JobInv(j)
    BY DEF TransportInv
<1>2. paused \in [Jobs -> Entry] /\ stopped \in [Jobs -> Stages]
    BY EntryUpdate DEF TypeOK, Statuses, Stages
<1>3. /\ paused[k].link = store[k].link /\ paused[k].torbox = store[k].torbox
      /\ paused[k].status = IF k = j THEN "paused" ELSE store[k].status
      /\ stopped[k] = IF k = j THEN "paused" ELSE transfers[k]
    BY EntryFields DEF TypeOK
<1>4. /\ rows' = rows /\ disk' = disk /\ created' = created
      /\ workers' = workers /\ movers' = movers /\ installs' = installs
      /\ torrents' = torrents /\ replies' = replies
      /\ j \in rows /\ store[j].link # "http"
      /\ Status(j) \notin {"paused", "installing", "moving"} /\ InProgress(Status(j))
    BY <1>2 DEF PauseJob, plugins, installers, transports
<1>5. \/ /\ store[j].link = "plugin" \/ ~(store[j].torbox \/ store[j].link = "hydra")
         /\ store' = paused /\ resolvers' = resolvers /\ transfers' = transfers
      \/ /\ store[j].torbox \/ store[j].link = "hydra"
         /\ resolvers' = resolvers \ {j}
         /\ transfers[j] = "none" /\ store' = paused /\ transfers' = transfers
      \/ /\ store[j].torbox \/ store[j].link = "hydra"
         /\ resolvers' = resolvers \ {j}
         /\ transfers[j] # "none" /\ Pump(paused, stopped)
    BY DEF PauseJob, transports
<1> HIDE DEF paused, stopped
<1>6. /\ store'[k].link = paused[k].link /\ store'[k].torbox = paused[k].torbox
      /\ \/ /\ store'[k].status = paused[k].status
            /\ \/ transfers'[k] = transfers[k] /\ (k = j => transfers[k] = "none"
                    \/ store[j].link = "plugin"
                    \/ ~(store[j].torbox \/ store[j].link = "hydra"))
               \/ k = j /\ transfers[j] # "none" /\ transfers'[k] = "paused"
         \/ /\ k # j /\ transfers[k] = "waiting"
            /\ \/ paused[k].status = "none" /\ store'[k].status = "none"
               \/ store'[k].status = "active" /\ transfers'[k] = "started"
               \/ store'[k].status = "queued" /\ transfers'[k] = "waiting"
    <2>1. CASE /\ store' = paused /\ transfers' = transfers
               /\ \/ transfers[j] = "none"
                  \/ store[j].link = "plugin"
                  \/ ~(store[j].torbox \/ store[j].link = "hydra")
        BY <2>1
    <2>2. CASE transfers[j] # "none" /\ Pump(paused, stopped)
        <3>1. CASE k = j
            BY <1>2, <1>3, <2>2, <3>1, PumpAt
        <3>2. CASE k # j
            BY <1>2, <1>3, <2>2, <3>2, PumpAt
        <3> QED
            BY <3>1, <3>2
    <2> QED
        BY <1>5, <2>1, <2>2
<1>7. CASE k = j
    <2>1. EntryInv(k, store[k])' /\ EntryInv(k, disk[k])' /\ CreatedInv(k)'
        BY <1>1, <1>3, <1>4, <1>6, <1>7
           DEF JobInv, EntryInv, CreatedInv, Status, InProgress, Active, Paused,
               Terminal
    <2>2. HeldInv(k)'
        BY <1>1, <1>3, <1>4, <1>5, <1>6, <1>7 DEF JobInv, HeldInv, Status, Paused
    <2>3. WorkerInv(k)'
        BY <1>1, <1>3, <1>4, <1>6, <1>7 DEF JobInv, WorkerInv, Status, Terminal
    <2> QED
        BY <2>1, <2>2, <2>3 DEF JobInv
<1>8. CASE k # j
    <2>1. /\ EntryInv(k, store[k])' /\ EntryInv(k, disk[k])' /\ CreatedInv(k)'
        BY <1>1, <1>3, <1>4, <1>6, <1>8
           DEF JobInv, EntryInv, HeldInv, CreatedInv, Status, Paused
    <2>2. HeldInv(k)'
        BY <1>1, <1>3, <1>4, <1>5, <1>6, <1>8
           DEF JobInv, HeldInv, CreatedInv, Status, Paused
    <2>3. WorkerInv(k)'
        BY <1>1, <1>3, <1>4, <1>6, <1>8
           DEF JobInv, HeldInv, WorkerInv, Status, Terminal
    <2> QED
        BY <2>1, <2>2, <2>3 DEF JobInv
<1> QED
    BY <1>7, <1>8

\* The two handlers that start a listed job again by way of startDownload.
LEMMA RestartKeeps ==
    ASSUME TypeOK, TransportInv, NEW j \in Jobs, NEW known,
           j \in rows, Retryable(Status(j)) \/ Paused(Status(j)),
           store[j].link \notin {"plugin", "move"},
           transfers[j] # "none" \/ j \in torrents
           => store[j].torbox \/ store[j].link = "hydra",
           StartDownload({j}, [store EXCEPT ![j].status = "active"], known,
                         torboxEnabled, torrents),
           rows' = rows, created' = created, disk' = disk,
           workers' = workers, movers' = movers, installs' = installs
    PROVE  TransportInv'
<1> DEFINE r == [store EXCEPT ![j].status = "active"]
           S == {j}
<1>1. JobInv(j)
    BY DEF TransportInv
<1>2. r \in [Jobs -> Entry] /\ S \in SUBSET Jobs
    BY EntryUpdate DEF TypeOK, Statuses
<1>3. /\ r[j].link = store[j].link /\ r[j].torbox = store[j].torbox
      /\ r[j].status = "active"
    BY EntryFields DEF TypeOK
<1>4. store[j].link \in Links \cup {"none"}
    BY DEF TypeOK, Entry
<1>5. /\ r[j].link \in {"magnet", "http", "hydra"}
      /\ LinkOf[j] \notin {"plugin", "move"}
      /\ r[j].link = "http" => ~r[j].torbox
      /\ j \in created
    BY <1>1, <1>3, <1>4 DEF JobInv, EntryInv, CreatedInv, Status, Links
<1>6. /\ transfers[j] # "none" => r[j].link = "magnet" /\ r[j].torbox
      /\ j \notin replies /\ j \notin torrents
    BY <1>1, <1>3 DEF JobInv, HeldInv, Retryable, Paused
<1>7. j \notin workers /\ j \notin installs
    BY <1>1, <1>5 DEF JobInv, WorkerInv, Retryable, Paused
<1>8. \A k \in S :
        /\ k \in rows' /\ k \in created'
        /\ r[k].link \in {"magnet", "http", "hydra"}
        /\ LinkOf[k] \notin {"plugin", "move"}
        /\ r[k].status \in {"queued", "active"}
        /\ r[k].link = "http" => ~r[k].torbox /\ r[k].status = "active"
        /\ transfers[k] # "none" => r[k].link = "magnet" /\ r[k].torbox
        /\ k \notin replies /\ k \notin torrents
        /\ k \notin workers /\ k \notin installs
    BY <1>3, <1>5, <1>6, <1>7
<1>9. \A k \in Jobs \ S : r[k] = store[k]
    OBVIOUS
<1>10. torboxEnabled \in BOOLEAN
    BY DEF TypeOK
<1>11. StartDownload(S, r, known, torboxEnabled, torrents)
    OBVIOUS
<1> HIDE DEF r, S
<1> QED
    BY <1>2, <1>8, <1>9, <1>10, <1>11, DownloadStarted

\* Resuming or retrying a download starts the one transport of its entry.
LEMMA ResumeKeeps ==
    ASSUME TypeOK, TransportInv, NEW j \in Jobs,
           ResumeJob(j) \/ RetryDownload(j)
    PROVE  TransportInv'
<1>1. JobInv(j)
    BY DEF TransportInv
<1>2. CASE RetryDownload(j)
    <2> DEFINE known == kinds \cup {j}
    <2>1. StartDownload({j}, [store EXCEPT ![j].status = "active"], known,
                        torboxEnabled, torrents)
        BY <1>2 DEF RetryDownload
    <2>2. transfers[j] = "none" /\ j \notin torrents
        BY <1>1, <1>2 DEF RetryDownload, JobInv, HeldInv, Retryable
    <2> HIDE DEF known
    <2> QED
        BY <1>2, <2>1, <2>2, RestartKeeps DEF RetryDownload, plugins, installers
<1>3. CASE /\ ResumeJob(j)
           /\ store[j].torbox \/ store[j].link = "hydra"
           /\ store[j].link # "plugin"
    <2>1. store[j].link # "move"
        BY <1>1, <1>3
           DEF ResumeJob, JobInv, EntryInv, Status, Paused, Terminal
    <2> QED
        BY <1>3, <2>1, RestartKeeps DEF ResumeJob, plugins, installers
<1>4. CASE /\ ResumeJob(j)
           /\ \/ ~(store[j].torbox \/ store[j].link = "hydra")
              \/ store[j].link = "plugin"
    <2>1. /\ store' = [store EXCEPT ![j].status = "active"]
          /\ rows' = rows /\ disk' = disk /\ created' = created
          /\ torrents' = torrents /\ replies' = replies
          /\ resolvers' = resolvers /\ transfers' = transfers
          /\ workers' = workers /\ movers' = movers /\ installs' = installs
          /\ j \in rows /\ Paused(Status(j)) /\ store[j].link # "http"
        BY <1>4 DEF ResumeJob, plugins, installers, transports
    <2>2. store' = WithStatus(j, "active")
        BY <2>1 DEF WithStatus
    <2>3. /\ store'[j].link = store[j].link /\ store'[j].torbox = store[j].torbox
          /\ store'[j].status = "active"
        BY <2>1, EntryFields DEF TypeOK
    <2>4. HeldInv(j)' /\ WorkerInv(j)'
        BY <1>1, <1>4, <2>1, <2>3
           DEF JobInv, HeldInv, WorkerInv, Status, Paused, Terminal
    <2>5. j \in created' /\ store[j].link # "move"
        BY <1>1, <2>1
           DEF JobInv, CreatedInv, EntryInv, Status, Paused, Terminal
    <2> QED
        BY <2>1, <2>2, <2>4, <2>5, RowWritten DEF Statuses
<1> QED
    BY <1>2, <1>3, <1>4

\* Retrying a plugin download or an install starts no transport.
LEMMA RetryKeeps ==
    ASSUME TypeOK, TransportInv, NEW j \in Jobs,
           RetryPluginDownload(j) \/ RetryInstall(j)
    PROVE  TransportInv'
<1>1. JobInv(j)
    BY DEF TransportInv
<1>2. PICK s \in {"active", "installing"} : store' = [store EXCEPT ![j].status = s]
    BY DEF RetryPluginDownload, RetryInstall
<1>3. /\ rows' = rows /\ disk' = disk /\ created' = created
      /\ torrents' = torrents /\ replies' = replies
      /\ resolvers' = resolvers /\ transfers' = transfers /\ movers' = movers
      /\ \/ /\ Retryable(Status(j)) /\ store[j].link = "plugin"
            /\ workers' \in {workers, workers \cup {j}} /\ installs' = installs
         \/ /\ Installable(Status(j)) /\ store[j].link # "move"
            /\ store' = [store EXCEPT ![j].status = "installing"]
            /\ installs' = installs \cup {j} /\ workers' = workers
      /\ j \in rows
    <2>1. CASE RetryPluginDownload(j)
        BY <2>1 DEF RetryPluginDownload, installers, transports
    <2>2. CASE RetryInstall(j)
        BY <2>2 DEF RetryInstall, plugins, transports
    <2> QED
        BY <2>1, <2>2
<1>4. /\ store'[j].link = store[j].link /\ store'[j].torbox = store[j].torbox
      /\ store'[j].status = s
    BY <1>2, EntryFields DEF TypeOK
<1>i. store' = [store EXCEPT ![j].status = "installing"]
      => store'[j].status = "installing"
    BY EntryFields DEF TypeOK
<1>5. store' = WithStatus(j, s)
    BY <1>2, <1>3 DEF WithStatus
<1>6. HeldInv(j)'
    BY <1>1, <1>3, <1>4 DEF JobInv, HeldInv, Status, Retryable, Installable
<1>7. WorkerInv(j)'
    BY <1>1, <1>3, <1>4, <1>i
       DEF JobInv, EntryInv, CreatedInv, WorkerInv, Status, Retryable, Installable,
           Terminal
<1>8. j \in created'
    BY <1>1, <1>3 DEF JobInv, CreatedInv
<1> QED
    BY <1>3, <1>5, <1>6, <1>7, <1>8, RowWritten DEF Statuses

\* Turning TorBox on moves a job from one transport to the other, never to both.
LEMMA EnableKeeps ==
    ASSUME TypeOK, TransportInv, EnableTorBox
    PROVE  TransportInv'
<1> DEFINE routed == { j \in rows :
                         /\ store[j].link \in {"magnet", "hydra"}
                         /\ ~store[j].torbox
                         /\ InProgress(Status(j))
                         /\ Status(j) \notin {"installing", "moving"} }
           S == {j \in routed : ~Paused(Status(j)) /\ j \notin resolvers}
           r == [ j \in Jobs |-> IF j \in routed
                                 THEN [store[j] EXCEPT !.torbox = TRUE]
                                 ELSE store[j] ]
           handles == torrents \ routed
           tb == TRUE
<1>1. r \in [Jobs -> Entry] /\ S \in SUBSET Jobs /\ handles \in SUBSET torrents
    BY EntryUpdate DEF TypeOK
<1>2. /\ StartDownload(S, r, kinds, tb, handles)
      /\ rows' = rows /\ disk' = disk /\ created' = created
      /\ workers' = workers /\ movers' = movers /\ installs' = installs
    BY DEF EnableTorBox, plugins, installers
<1>3. ASSUME NEW k \in Jobs
      PROVE  /\ r[k].link = store[k].link /\ r[k].status = store[k].status
             /\ r[k].torbox = store[k].torbox \/ (k \in routed /\ r[k].torbox = TRUE)
             /\ k \in routed => r[k].torbox = TRUE
    BY EntryFields DEF TypeOK
<1>4. ASSUME NEW k \in S
      PROVE  /\ k \in rows' /\ k \in created'
             /\ r[k].link \in {"magnet", "http", "hydra"}
             /\ LinkOf[k] \notin {"plugin", "move"}
             /\ r[k].status \in {"queued", "active"}
             /\ r[k].link = "http" => ~r[k].torbox /\ r[k].status = "active"
             /\ transfers[k] # "none" => r[k].link = "magnet" /\ r[k].torbox
             /\ k \notin replies /\ k \notin handles
             /\ k \notin workers /\ k \notin installs
    <2>1. k \in Jobs /\ k \in routed /\ ~Paused(Status(k))
        BY <1>1
    <2>2. JobInv(k)
        BY <2>1 DEF TransportInv
    <2>3. /\ k \in rows /\ store[k].link \in {"magnet", "hydra"}
          /\ Status(k) \in {"queued", "active"}
        BY <2>1 DEF InProgress, Active
    <2>4. k \in created /\ LinkOf[k] \notin {"plugin", "move"}
        BY <2>2, <2>3 DEF JobInv, EntryInv, CreatedInv, Status
    <2>5. k \notin replies /\ k \notin workers /\ k \notin installs
        BY <2>2, <2>3, <2>4 DEF JobInv, HeldInv, WorkerInv
    <2>6. transfers[k] # "none" => store[k].link = "magnet"
        BY <2>2 DEF JobInv, HeldInv
    <2>7. /\ r[k].link = store[k].link /\ r[k].status = store[k].status
          /\ r[k].torbox = TRUE
        BY <1>3, <2>1
    <2>8. k \notin handles
        BY <2>1
    <2> HIDE DEF r, S, routed, handles
    <2> QED
        BY <1>2, <2>3, <2>4, <2>5, <2>6, <2>7, <2>8 DEF Status
<1>5. ASSUME NEW k \in Jobs \ S
      PROVE  /\ r[k].status = store[k].status /\ r[k].link = store[k].link
             /\ \/ r[k].torbox = store[k].torbox
                \/ /\ store[k].link \in {"magnet", "hydra"}
                   /\ transfers[k] = "none" /\ k \notin handles
             /\ k \in rows' <=> k \in rows
             /\ k \in created' <=> k \in created
    <2>1. k \in routed => /\ store[k].link \in {"magnet", "hydra"}
                          /\ transfers[k] = "none" /\ k \notin handles
        BY DEF TransportInv, JobInv, HeldInv
    <2> HIDE DEF r, routed, handles
    <2> QED
        BY <1>2, <1>3, <2>1
<1>6. tb \in BOOLEAN /\ created \subseteq created'
    BY <1>2
<1> HIDE DEF r, S, routed, handles, tb
<1> QED
    BY <1>1, <1>2, <1>4, <1>5, <1>6, DownloadStarted

\* A transport gives up a job, finished or failed.
LEMMA TransportEndKeeps ==
    ASSUME TypeOK, TransportInv, NEW j \in Jobs,
           \/ TorrentLeaves(j) \/ HttpLeaves(j) \/ TorBoxLeaves(j)
           \/ /\ j \in resolvers /\ resolvers' = resolvers \ {j}
              /\ UNCHANGED <<torrents, pausedTorrents, replies, transfers>>,
           Completed(j) \/ Failed(j)
    PROVE  TransportInv'
<1>1. JobInv(j)
    BY DEF TransportInv
<1>2. /\ rows' = rows /\ disk' = disk /\ created' = created
      /\ workers' = workers /\ movers' = movers
    BY DEF Completed, Failed, plugins, installers
<1>3. PICK s \in {"completed", "installing", "failed"} :
        /\ store' = WithStatus(j, s)
        /\ \/ installs' = installs
           \/ s = "installing" /\ installs' = installs \cup {j} /\ j \in rows
        /\ s = "installing" => j \in installs'
    BY DEF Completed, Failed, installers
<1>4. \A k \in Jobs :
        /\ k \in torrents' => k \in torrents
        /\ k \in replies' => k \in replies
        /\ k \in resolvers' => k \in resolvers
        /\ transfers'[k] \in {"none", transfers[k]}
        /\ k # j => /\ k \in torrents' <=> k \in torrents
                    /\ k \in replies' <=> k \in replies
                    /\ k \in resolvers' <=> k \in resolvers
                    /\ transfers'[k] = transfers[k]
    BY DEF TorrentLeaves, HttpLeaves, TorBoxLeaves, TypeOK
<1>5. \/ j \in torrents /\ j \notin torrents'
      \/ j \in replies /\ j \notin replies'
      \/ transfers[j] = "started" /\ transfers'[j] = "none"
      \/ j \in resolvers /\ j \notin resolvers'
    BY DEF TorrentLeaves, HttpLeaves, TorBoxLeaves, TypeOK
<1>6. /\ store'[j].link = store[j].link /\ store'[j].torbox = store[j].torbox
      /\ store'[j].status = IF j \in rows THEN s ELSE store[j].status
    <2>1. s \in Statuses
        BY DEF Statuses
    <2> QED
        BY <1>3, <2>1, WithStatusAt
<1>7. j \in rows => /\ j \notin torrents' /\ j \notin replies'
                    /\ j \notin resolvers' /\ transfers'[j] = "none"
                    /\ j \notin workers /\ j \notin installs
                    /\ store[j].link \notin {"plugin", "move"}
    <2>1. j \in rows => store[j].link \notin {"plugin", "move"}
                        /\ Status(j) \in {"queued", "active", "paused"}
        BY <1>1, <1>5 DEF JobInv, HeldInv
    <2>2. j \in rows => j \notin workers /\ j \notin installs
        BY <1>1, <2>1 DEF JobInv, EntryInv, CreatedInv, WorkerInv, Status
    <2>3. j \in rows => /\ j \notin torrents' /\ j \notin replies'
                        /\ j \notin resolvers' /\ transfers'[j] = "none"
        BY <1>1, <1>4, <1>5 DEF JobInv, HeldInv
    <2> QED
        BY <2>1, <2>2, <2>3
<1>8. HeldInv(j)' /\ WorkerInv(j)'
    <2>1. CASE j \in rows
        BY <1>1, <1>2, <1>3, <1>6, <1>7, <2>1
           DEF JobInv, HeldInv, WorkerInv, Status, Terminal
    <2>2. CASE j \notin rows
        BY <1>1, <1>2, <1>3, <1>4, <2>2 DEF JobInv, HeldInv, WorkerInv
    <2> QED
        BY <2>1, <2>2
<1>9. \A k \in Jobs \ {j} : k \in installs' <=> k \in installs
    BY <1>3
<1>10. j \in created' \/ /\ j \notin torrents' /\ j \notin workers'
                         /\ j \notin movers' /\ j \notin installs'
    BY <1>1, <1>2, <1>3, <1>4 DEF JobInv, CreatedInv
<1>11. s \in Statuses \ {"none"}
    BY DEF Statuses
<1> QED
    BY <1>2, <1>3, <1>4, <1>7, <1>8, <1>9, <1>10, <1>11, RowWritten

\* A progress signal of a transport: onTorrentProgress, onHttpProgress.
LEMMA ProgressKeeps ==
    ASSUME TypeOK, TransportInv, NEW j \in Jobs,
           \/ \E label \in Labels : TorrentProgress(j, label)
           \/ HttpProgress(j) \/ TorBoxProgress(j)
    PROVE  TransportInv'
<1>1. JobInv(j)
    BY DEF TransportInv
<1>2. PICK s \in {"queued", "active", "paused"} :
        /\ Reported(j, s)
        /\ j \in torrents \/ (s = "active" /\ (j \in replies \/ transfers[j] = "started"))
    BY LabelAssumption DEF TorrentProgress, HttpProgress, TorBoxProgress
<1>3. /\ store' = WithStatus(j, s)
      /\ rows' = rows /\ disk' = disk /\ created' = created
      /\ torrents' = torrents /\ replies' = replies
      /\ resolvers' = resolvers /\ transfers' = transfers
      /\ workers' = workers /\ movers' = movers /\ installs' = installs
    BY <1>2 DEF Reported, transports, plugins, installers
<1>4. s \in Statuses \ {"none"}
    BY DEF Statuses
<1>5. /\ store'[j].link = store[j].link /\ store'[j].torbox = store[j].torbox
      /\ store'[j].status = IF j \in rows THEN s ELSE store[j].status
    BY <1>3, <1>4, WithStatusAt
<1>6. j \in rows => /\ store[j].link \in {"magnet", "http"}
                    /\ store[j].link = "http" => s = "active"
                    /\ Status(j) \in {"queued", "active", "paused"}
                    /\ j \notin workers /\ j \notin installs
    <2>1. j \in rows => /\ store[j].link \in {"magnet", "http"}
                        /\ store[j].link = "http" => s = "active"
                        /\ Status(j) \in {"queued", "active", "paused"}
        BY <1>1, <1>2 DEF JobInv, HeldInv
    <2> QED
        BY <1>1, <2>1 DEF JobInv, EntryInv, WorkerInv, Status
<1>7. HeldInv(j)'
    <2>1. CASE j \in torrents
        BY <1>1, <1>3, <1>5, <2>1 DEF JobInv, HeldInv, Status, Paused
    <2>2. CASE j \notin torrents
        BY <1>1, <1>2, <1>3, <1>5, <2>2 DEF JobInv, HeldInv, Status, Paused
    <2> QED
        BY <2>1, <2>2
<1>8. WorkerInv(j)'
    BY <1>1, <1>3, <1>5, <1>6 DEF JobInv, WorkerInv, Status, Terminal
<1>9. j \in created' \/ /\ j \notin torrents' /\ j \notin workers'
                        /\ j \notin movers' /\ j \notin installs'
    BY <1>1, <1>3 DEF JobInv, CreatedInv
<1> QED
    BY <1>3, <1>4, <1>6, <1>7, <1>8, <1>9, RowWritten

\* HydraCatalogClient::resolved, with a magnet or a direct link.
LEMMA LinkKeeps ==
    ASSUME TypeOK, TransportInv, NEW j \in Jobs,
           NEW link \in {"magnet", "http"}, LinkResolved(j, link)
    PROVE  TransportInv'
<1> DEFINE r == Found(j, link)
           S == {j}
<1>1. JobInv(j)
    BY DEF TransportInv
<1>2. /\ j \in rows /\ store[j].link = "hydra" /\ Status(j) = "active"
      /\ j \notin replies /\ transfers[j] = "none" /\ j \notin torrents
    BY <1>1 DEF LinkResolved, JobInv, HeldInv
<1>3. j \in created /\ LinkOf[j] \notin {"plugin", "move"}
    BY <1>1, <1>2 DEF JobInv, EntryInv, CreatedInv, Status
<1>4. j \notin workers /\ j \notin installs
    BY <1>1, <1>2, <1>3 DEF JobInv, WorkerInv
<1>5. /\ StartDownload(S, r, kinds, torboxEnabled, torrents)
      /\ rows' = rows /\ disk' = disk /\ created' = created
      /\ workers' = workers /\ movers' = movers /\ installs' = installs
    BY <1>2 DEF LinkResolved, Found, plugins, installers, Terminal, Paused
<1>6. /\ r \in [Jobs -> Entry] /\ S \in SUBSET Jobs
      /\ torboxEnabled \in BOOLEAN /\ torrents \in SUBSET torrents
      /\ created \subseteq created'
    BY <1>5, FoundEntry DEF TypeOK
<1>7. /\ r[j].link = link /\ r[j].status = "active"
      /\ r[j].link = "http" => ~r[j].torbox
    BY <1>2, FoundEntry DEF TypeOK, Status
<1>8. \A k \in S :
        /\ k \in rows' /\ k \in created'
        /\ r[k].link \in {"magnet", "http", "hydra"}
        /\ LinkOf[k] \notin {"plugin", "move"}
        /\ r[k].status \in {"queued", "active"}
        /\ r[k].link = "http" => ~r[k].torbox /\ r[k].status = "active"
        /\ transfers[k] # "none" => r[k].link = "magnet" /\ r[k].torbox
        /\ k \notin replies /\ k \notin torrents
        /\ k \notin workers /\ k \notin installs
    BY <1>2, <1>3, <1>4, <1>5, <1>7
<1>9. \A k \in Jobs \ S : r[k] = store[k]
    BY FoundEntry DEF TypeOK
<1> HIDE DEF r, S
<1>10. \A k \in Jobs \ S : /\ r[k].status = store[k].status
                           /\ r[k].link = store[k].link
                           /\ r[k].torbox = store[k].torbox
                           /\ k \in rows' <=> k \in rows
                           /\ k \in created' <=> k \in created
    BY <1>5, <1>9
<1> QED
    BY <1>5, <1>6, <1>8, <1>10, DownloadStarted

\* The plugin, the copy worker or the installer reports.
LEMMA WorkerKeeps ==
    ASSUME TypeOK, TransportInv, WorkerStep
    PROVE  TransportInv'
<1>1. ASSUME NEW j \in Jobs, NEW s \in {"active", "installing", "paused"},
             PluginProgress(j, s)
      PROVE  TransportInv'
    <2>1. JobInv(j)
        BY DEF TransportInv
    <2>2. PICK t \in {"active", "installing", "paused"} :
            /\ store' = WithStatus(j, t)
            /\ rows' = rows /\ disk' = disk /\ created' = created
            /\ torrents' = torrents /\ replies' = replies
            /\ resolvers' = resolvers /\ transfers' = transfers
            /\ workers' = workers /\ movers' = movers /\ installs' = installs
            /\ j \in workers
        BY <1>1 DEF PluginProgress, Reported, transports, plugins, installers
    <2>3. t \in Statuses \ {"none"}
        BY DEF Statuses
    <2>4. /\ store'[j].link = store[j].link /\ store'[j].torbox = store[j].torbox
          /\ store'[j].status = IF j \in rows THEN t ELSE store[j].status
        BY <2>2, <2>3, WithStatusAt
    <2>5. /\ j \in created
          /\ j \in rows => store[j].link = "plugin" /\ j \notin installs
        BY <2>1, <2>2 DEF JobInv, EntryInv, WorkerInv, CreatedInv, Status
    <2>6. HeldInv(j)' /\ WorkerInv(j)'
        BY <2>1, <2>2, <2>4, <2>5 DEF JobInv, HeldInv, WorkerInv, Status, Terminal
    <2> QED
        BY <2>2, <2>3, <2>5, <2>6, RowWritten
<1>2. ASSUME NEW j \in Jobs, NEW s \in {"completed", "failed"}, PluginReturns(j, s)
      PROVE  TransportInv'
    <2>1. JobInv(j)
        BY DEF TransportInv
    <2>2. /\ store' = WithStatus(j, s)
          /\ rows' = rows /\ disk' = disk /\ created' = created
          /\ torrents' = torrents /\ replies' = replies
          /\ resolvers' = resolvers /\ transfers' = transfers
          /\ workers' = workers \ {j} /\ movers' = movers /\ installs' = installs
          /\ j \in workers
        BY <1>2 DEF PluginReturns, transports, installers
    <2>3. s \in Statuses \ {"none"}
        BY DEF Statuses
    <2>4. /\ store'[j].link = store[j].link /\ store'[j].torbox = store[j].torbox
          /\ store'[j].status = IF j \in rows THEN s ELSE store[j].status
        BY <2>2, <2>3, WithStatusAt
    <2>5. /\ j \in created
          /\ j \in rows => store[j].link = "plugin" /\ j \notin installs
        BY <2>1, <2>2 DEF JobInv, EntryInv, WorkerInv, CreatedInv, Status
    <2>6. HeldInv(j)' /\ WorkerInv(j)'
        BY <2>1, <2>2, <2>4, <2>5 DEF JobInv, HeldInv, WorkerInv, Status, Terminal
    <2> QED
        BY <2>2, <2>3, <2>5, <2>6, RowWritten DEF Terminal
<1>3. ASSUME NEW j \in Jobs, NEW s \in {"completed", "failed"}, MoveReturns(j, s)
      PROVE  TransportInv'
    <2> SUFFICES ASSUME NEW k \in Jobs
                 PROVE  JobInv(k)'
        BY DEF TransportInv
    <2>1. JobInv(k)
        BY DEF TransportInv
    <2>2. /\ rows' = rows /\ disk' = disk /\ created' = created
          /\ torrents' = torrents /\ replies' = replies
          /\ resolvers' = resolvers /\ transfers' = transfers
          /\ workers' = workers /\ movers' = movers \ {j} /\ installs' = installs
          /\ j \in movers
        BY <1>3 DEF MoveReturns, transports, plugins, installers
    <2>3. IF k = j THEN /\ store'[k].link = "move" /\ store'[k].status = s
                        /\ store'[k].torbox = FALSE
                   ELSE store'[k] = store[k]
        BY <1>3 DEF MoveReturns, TypeOK
    <2>4. CASE k # j
        <3>1. EntryInv(k, store[k])' /\ EntryInv(k, disk[k])' /\ CreatedInv(k)'
            BY <2>1, <2>2, <2>3, <2>4 DEF JobInv, EntryInv, CreatedInv, Status
        <3>2. HeldInv(k)' /\ WorkerInv(k)'
            BY <2>1, <2>2, <2>3, <2>4 DEF JobInv, HeldInv, WorkerInv, Status
        <3> QED
            BY <3>1, <3>2 DEF JobInv
    <2>5. CASE k = j
        <3>1. k \in created /\ LinkOf[k] = "move"
            BY <2>1, <2>2, <2>5 DEF JobInv, WorkerInv, CreatedInv
        <3>2. k \in rows => store[k].link = "move" /\ k \notin workers
            BY <2>1, <3>1 DEF JobInv, EntryInv, WorkerInv, CreatedInv, Status
        <3>3. k \notin installs \/ k \notin rows
            BY <2>1, <3>2
               DEF JobInv, EntryInv, WorkerInv, Status, Terminal
        <3>4. EntryInv(k, store[k])' /\ EntryInv(k, disk[k])' /\ CreatedInv(k)'
            BY <2>1, <2>2, <2>3, <2>5, <3>1
               DEF JobInv, EntryInv, CreatedInv, Status, Terminal
        <3>5. HeldInv(k)' /\ WorkerInv(k)'
            BY <2>1, <2>2, <2>3, <2>5, <3>2, <3>3
               DEF JobInv, HeldInv, WorkerInv, Status
        <3> QED
            BY <3>4, <3>5 DEF JobInv
    <2> QED
        BY <2>4, <2>5
<1>4. ASSUME NEW j \in Jobs, NEW s \in {"completed", "installFailed"},
             InstallReturns(j, s)
      PROVE  TransportInv'
    <2>1. JobInv(j)
        BY DEF TransportInv
    <2>2. /\ store' = WithStatus(j, s)
          /\ rows' = rows /\ disk' = disk /\ created' = created
          /\ torrents' = torrents /\ replies' = replies
          /\ resolvers' = resolvers /\ transfers' = transfers
          /\ workers' = workers /\ movers' = movers /\ installs' = installs \ {j}
          /\ j \in installs
        BY <1>4 DEF InstallReturns, transports, plugins
    <2>3. s \in Statuses \ {"none"}
        BY DEF Statuses
    <2>4. /\ store'[j].link = store[j].link /\ store'[j].torbox = store[j].torbox
          /\ store'[j].status = IF j \in rows THEN s ELSE store[j].status
        BY <2>2, <2>3, WithStatusAt
    <2>5. /\ j \in created
          /\ j \in rows => Status(j) = "installing" /\ j \notin workers
        BY <2>1, <2>2 DEF JobInv, WorkerInv, CreatedInv
    <2>6. HeldInv(j)' /\ WorkerInv(j)'
        BY <2>1, <2>2, <2>4, <2>5 DEF JobInv, HeldInv, WorkerInv, Status, Terminal
    <2> QED
        BY <2>2, <2>3, <2>5, <2>6, RowWritten DEF Terminal
<1> QED
    BY <1>1, <1>2, <1>3, <1>4 DEF WorkerStep

--------------------------------------------------------------------------------

\* TorBoxPump, from its zero timer.
LEMMA PumpKeeps ==
    ASSUME TypeOK, TransportInv, TorBoxPump
    PROVE  TransportInv'
<1> SUFFICES ASSUME NEW k \in Jobs
             PROVE  JobInv(k)'
    BY DEF TransportInv
<1>1. JobInv(k)
    BY DEF TransportInv
<1>2. /\ Pump(store, transfers)
      /\ rows' = rows /\ disk' = disk /\ created' = created
      /\ torrents' = torrents /\ replies' = replies /\ resolvers' = resolvers
      /\ workers' = workers /\ movers' = movers /\ installs' = installs
    BY DEF TorBoxPump, plugins, installers
<1>3. /\ store'[k].link = store[k].link /\ store'[k].torbox = store[k].torbox
      /\ \/ transfers'[k] = transfers[k] /\ store'[k].status = store[k].status
         \/ /\ transfers[k] = "waiting"
            /\ \/ store[k].status = "none" /\ store'[k].status = "none"
                  /\ transfers'[k] \in {"waiting", "started"}
               \/ store[k].status # "none" /\ store'[k].status = "active"
                  /\ transfers'[k] = "started"
               \/ store[k].status # "none" /\ store'[k].status = "queued"
                  /\ transfers'[k] = "waiting"
    BY <1>2, PumpAt DEF TypeOK
<1>4. EntryInv(k, store[k])' /\ EntryInv(k, disk[k])' /\ CreatedInv(k)'
    BY <1>1, <1>2, <1>3 DEF JobInv, EntryInv, HeldInv, CreatedInv, Status, Paused
<1>5. HeldInv(k)'
    BY <1>1, <1>2, <1>3 DEF JobInv, HeldInv, CreatedInv, Status, Paused
<1>6. WorkerInv(k)'
    BY <1>1, <1>2, <1>3 DEF JobInv, HeldInv, WorkerInv, Status, Terminal
<1> QED
    BY <1>4, <1>5, <1>6 DEF JobInv

\* Every user command.
LEMMA UserStepKeeps ==
    ASSUME TypeOK, TransportInv, UserStep
    PROVE  TransportInv'
<1>1. ASSUME NEW j \in Jobs,
             CreateDownload(j) \/ CreatePluginDownload(j) \/ CreateMove(j)
      PROVE  TransportInv'
    BY <1>1, CreateKeeps
<1>2. CASE \/ \E j \in Jobs : CancelJob(j)
           \/ \E S \in SUBSET rows : RemoveFinished(S)
           \/ ClearFinished
           \/ \E e \in Entries : RemoveGame(e)
    BY <1>2, DropKeeps
<1>3. ASSUME NEW j \in Jobs, PauseJob(j)
      PROVE  TransportInv'
    BY <1>3, PauseKeeps
<1>4. ASSUME NEW j \in Jobs, ResumeJob(j) \/ RetryDownload(j)
      PROVE  TransportInv'
    BY <1>4, ResumeKeeps
<1>5. ASSUME NEW j \in Jobs, RetryPluginDownload(j) \/ RetryInstall(j)
      PROVE  TransportInv'
    BY <1>5, RetryKeeps
<1>6. CASE EnableTorBox
    BY <1>6, EnableKeeps
<1>7. CASE DisableTorBox
    BY <1>7 DEF DisableTorBox, records, transports, plugins, installers,
                TransportInv, JobInv, EntryInv, HeldInv, WorkerInv, CreatedInv, Status
<1> QED
    BY <1>1, <1>2, <1>3, <1>4, <1>5, <1>6, <1>7 DEF UserStep

\* Every signal of a transport.
LEMMA TransportStepKeeps ==
    ASSUME TypeOK, TransportInv, TransportStep
    PROVE  TransportInv'
<1>1. ASSUME NEW j \in Jobs,
             \/ \E label \in Labels : TorrentProgress(j, label)
             \/ HttpProgress(j) \/ TorBoxProgress(j)
      PROVE  TransportInv'
    BY <1>1, ProgressKeeps
<1>2. ASSUME NEW j \in Jobs,
             \/ TorrentFinished(j) \/ TorrentFailed(j)
             \/ HttpFinished(j) \/ HttpFailed(j)
             \/ TorBoxFinished(j) \/ TorBoxFailed(j)
             \/ LinkFailed(j)
      PROVE  TransportInv'
    <2>1. /\ \/ TorrentLeaves(j) \/ HttpLeaves(j) \/ TorBoxLeaves(j)
             \/ /\ j \in resolvers /\ resolvers' = resolvers \ {j}
                /\ UNCHANGED <<torrents, pausedTorrents, replies, transfers>>
          /\ Completed(j) \/ Failed(j)
        BY <1>2 DEF TorrentFinished, TorrentFailed, HttpFinished, HttpFailed,
                    TorBoxFinished, TorBoxFailed, LinkFailed
    <2> QED
        BY <2>1, TransportEndKeeps
<1>3. ASSUME NEW j \in Jobs, NEW link \in {"magnet", "http"}, LinkResolved(j, link)
      PROVE  TransportInv'
    BY <1>3, LinkKeeps
<1> QED
    BY <1>1, <1>2, <1>3 DEF TransportStep

\* An empty ledger: nothing is held.
LEMMA TransportInitial ==
    ASSUME Init
    PROVE  TransportInv
BY DEF Init, TransportInv, JobInv, EntryInv, HeldInv, WorkerInv, CreatedInv,
       NoEntry, Status

\* TransportInv is inductive relative to TypeOK.
LEMMA TransportInductive ==
    ASSUME TypeOK, TransportInv, [Next]_vars
    PROVE  TransportInv'
<1>1. CASE UserStep
    BY <1>1, UserStepKeeps
<1>2. CASE TransportStep
    BY <1>2, TransportStepKeeps
<1>3. CASE WorkerStep
    BY <1>3, WorkerKeeps
<1>4. CASE TorBoxPump
    BY <1>4, PumpKeeps
<1>5. CASE PersistTick
    BY <1>5 DEF PersistTick, transports, plugins, installers, TransportInv,
                JobInv, EntryInv, HeldInv, WorkerInv, CreatedInv, Status
<1>6. CASE Crash
    <2>1. \A k \in Jobs : EntryInv(k, disk[k])
        BY DEF TransportInv, JobInv
    <2>2. Restart(disk) /\ disk \in [Jobs -> Entry]
        BY <1>6 DEF Crash, TypeOK
    <2> QED
        BY <2>1, <2>2, Restarted
<1>7. CASE Quit
    <2> DEFINE saved == [j \in Jobs |-> IF j \in rows THEN store[j] ELSE NoEntry]
    <2>1. saved \in [Jobs -> Entry]
        BY NoEntryType DEF TypeOK
    <2>2. \A k \in Jobs : EntryInv(k, saved[k])
        BY DEF TransportInv, JobInv, EntryInv, NoEntry
    <2> HIDE DEF saved
    <2>3. Restart(saved)
        BY <1>7 DEF Quit, saved
    <2> QED
        BY <2>1, <2>2, <2>3, Restarted
<1>8. CASE UNCHANGED vars
    BY <1>8 DEF vars, records, transports, plugins, installers, TransportInv,
                JobInv, EntryInv, HeldInv, WorkerInv, CreatedInv, Status
<1> QED
    BY <1>1, <1>2, <1>3, <1>4, <1>5, <1>6, <1>7, <1>8 DEF Next

--------------------------------------------------------------------------------

\* In every behaviour the sessions and the entries agree on who has which job:
\* the invariant the two theorems below are read off.
THEOREM TransportCorrect == Spec => []TransportInv
<1>1. Init => TransportInv
    BY TransportInitial
<1>2. TypeOK /\ TransportInv /\ [Next]_vars => TransportInv'
    BY TransportInductive
<1> QED
    BY <1>1, <1>2, TypeCorrect, PTL DEF Spec

\* A reply, a resolver or a TorBox transfer always belongs to a listed job that
\* is in progress, goes that way, and has the row the session implies, for every
\* set of jobs and links: cancelJob, removeJob, toggleJobPause, the switch to
\* TorBox and restoreJobs leave no such transfer behind.
THEOREM TransferOwnedHolds == Spec => []TransferOwned
<1>1. TypeOK /\ TransportInv => TransferOwned
    <2> SUFFICES ASSUME TypeOK, TransportInv
                 PROVE  TransferOwned
        OBVIOUS
    <2>1. \A j \in Jobs : HeldInv(j)
        BY DEF TransportInv, JobInv
    <2>2. replies \subseteq Jobs /\ resolvers \subseteq Jobs
        BY DEF TypeOK
    <2> QED
        BY <2>1, <2>2 DEF HeldInv, TransferOwned
<1> QED
    BY <1>1, TypeCorrect, TransportCorrect, PTL

\* No job is ever in two transports at once: startDownload, retries, link
\* resolution, the switch to TorBox and a restart hand a job on, never copy it.
THEOREM SingleTransportHolds == Spec => []SingleTransport
<1>1. TransportInv => SingleTransport
    <2> SUFFICES ASSUME TransportInv, NEW j \in Jobs
                 PROVE  Cardinality({ t \in {"torrent", "http", "torbox", "resolver"} :
                            \/ t = "torrent" /\ j \in torrents
                            \/ t = "http" /\ j \in replies
                            \/ t = "torbox" /\ transfers[j] # "none"
                            \/ t = "resolver" /\ j \in resolvers }) <= 1
        BY DEF SingleTransport
    <2> DEFINE T == { t \in {"torrent", "http", "torbox", "resolver"} :
                            \/ t = "torrent" /\ j \in torrents
                            \/ t = "http" /\ j \in replies
                            \/ t = "torbox" /\ transfers[j] # "none"
                            \/ t = "resolver" /\ j \in resolvers }
    <2>1. HeldInv(j)
        BY DEF TransportInv, JobInv
    <2>2. \A t, u \in T : t = u
        BY <2>1 DEF HeldInv
    <2> HIDE DEF T
    <2>3. T = {} \/ \E t \in T : T = {t}
        BY <2>2
    <2>4. Cardinality(T) = 0 \/ Cardinality(T) = 1
        BY <2>3, FS_EmptySet, FS_Singleton
    <2>5. Cardinality(T) <= 1
        BY <2>4
    <2> QED
        BY <2>5 DEF T
<1> QED
    BY <1>1, TransportCorrect, PTL

--------------------------------------------------------------------------------
(***************************************************************************)
(* What the user is shown is what happens, for every set of jobs: a row in *)
(* progress is driven by something, a paused torrent is paused, a finished *)
(* job comes back through a retry only, and no torrent is left behind.     *)
(*                                                                         *)
(* The last of these depends on the labels libtorrent reports.  A row that *)
(* says "queued" is one the torrent paths of cancelJob and removeJob do    *)
(* not take for running, so the theorems about it assume that no torrent   *)
(* is reported as queued; LabelInv is the part of the invariant that needs *)
(* it.                                                                     *)
(***************************************************************************)

\* A paused handle is a handle, and says what its row says.
PauseInv(k) ==
    /\ k \in pausedTorrents => k \in torrents
    /\ k \in torrents =>
        /\ LinkOf[k] \notin {"plugin", "move"}
        /\ k \in pausedTorrents <=> Paused(Status(k))

\* Only the end of a move writes an entry nobody lists.
UnlistedInv(k) == k \notin rows => Status(k) = "none" \/ LinkOf[k] = "move"

\* What a row says is going on is going on.
DriveInv(k) ==
    k \in rows /\ store[k].link # "plugin" =>
        /\ Status(k) \in {"queued", "active"} =>
            \/ k \in torrents \/ k \in replies \/ k \in resolvers
            \/ transfers[k] \in {"waiting", "started"}
        /\ Status(k) = "paused" => k \in torrents \/ StaysIdle(store[k])
        /\ Status(k) = "installing" => k \in installs
        /\ Status(k) = "moving" => k \in movers

\* What is downloaded, or may be again, has its kind recorded.
KindInv(k) ==
    k \in rows /\ (Status(k) \in {"queued", "active", "paused"} \/ k \in workers)
        => k \in kinds

\* Without the label only TorBox queues: every handle has a row, and none is left
\* while TorBox is enabled.
LabelInv(k) ==
    "queued" \notin Labels =>
        /\ k \in torrents => k \in rows
        /\ Status(k) = "queued" => store[k].torbox
        /\ torboxEnabled =>
            /\ k \notin torrents
            /\ /\ k \in rows /\ store[k].link \in {"magnet", "hydra"}
               /\ Status(k) \in {"queued", "active", "paused"}
               => store[k].torbox

ControlAt(k) ==
    PauseInv(k) /\ UnlistedInv(k) /\ DriveInv(k) /\ KindInv(k) /\ LabelInv(k)

ControlInv == \A k \in Jobs : ControlAt(k)

\* What UserRevives forbids, but for the actions it excepts.
Calm(k) ==
    k \in rows /\ k \in rows' =>
        /\ LinkOf[k] # "plugin" /\ Paused(Status(k))
           => store'[k].status \notin {"queued", "active"}
        /\ Terminal(Status(k)) => Terminal(store'[k].status)

--------------------------------------------------------------------------------
(***************************************************************************)
(* The shapes of handlers                                                  *)
(***************************************************************************)

\* What StartDownloadAt does not say: a job that was not refused is where it was
\* sent, and its kind stays.
LEMMA StartDownloadDrives ==
    ASSUME TypeOK, NEW S \in SUBSET Jobs, NEW r \in [Jobs -> Entry],
           NEW known, NEW tb \in BOOLEAN, NEW handles \in SUBSET Jobs,
           StartDownload(S, r, known, tb, handles),
           NEW k \in Jobs
    PROVE  /\ k \in pausedTorrents' <=> k \in pausedTorrents /\ k \in handles
           /\ k \in handles => k \in torrents'
           /\ k \notin S => (k \in kinds' <=> k \in known)
           /\ k \in S /\ store'[k].status # "failed" =>
                LET route == RouteOf(Routed(r[k], tb))
                IN  /\ route = "torrent" => k \in torrents'
                    /\ route = "http" => k \in replies'
                    /\ route = "resolver" => k \in resolvers'
                    /\ k \in known => k \in kinds'
<1>1. PICK refused \in Refusals(S, r, tb, handles, replies) :
        /\ store' = Launched(S, r, tb, refused)
        /\ kinds' = known \ refused
        /\ torrents' = handles \cup (Via("torrent", S, r, tb) \ refused)
        /\ pausedTorrents' = pausedTorrents \cap handles
        /\ replies' = replies \cup (Via("http", S, r, tb) \ refused)
        /\ resolvers' = (resolvers \ S) \cup Via("resolver", S, r, tb)
    BY DEF StartDownload
<1>2. refused \subseteq Via("torrent", S, r, tb) \cup Via("http", S, r, tb)
    BY DEF Refusals
<1>3. CASE k \notin S
    BY <1>1, <1>2, <1>3 DEF Via
<1>4. CASE k \in S
    <2>1. \A w : k \in Via(w, S, r, tb) <=> RouteOf(Routed(r[k], tb)) = w
        BY <1>4 DEF Via
    <2>2. Routed(r[k], tb) \in Entry
        BY RoutedType
    <2>3. k \in refused => store'[k].status = "failed"
        BY <1>1, <2>2 DEF Launched, Entry
    <2> QED
        BY <1>1, <1>4, <2>1, <2>3
<1> QED
    BY <1>3, <1>4

\* A handler that writes one row and takes nothing from another job.
LEMMA RowControl ==
    ASSUME TypeOK, ControlInv,
           NEW j \in Jobs, NEW s \in Statuses \ {"none"},
           store' = WithStatus(j, s), rows' = rows, torboxEnabled' = torboxEnabled,
           \A k \in Jobs \ {j} : /\ k \in torrents' <=> k \in torrents
                                 /\ k \in pausedTorrents' <=> k \in pausedTorrents
                                 /\ k \in replies' <=> k \in replies
                                 /\ k \in resolvers' <=> k \in resolvers
                                 /\ transfers'[k] = transfers[k]
                                 /\ k \in workers' <=> k \in workers
                                 /\ k \in movers' <=> k \in movers
                                 /\ k \in installs' <=> k \in installs
                                 /\ k \in kinds' <=> k \in kinds,
           ControlAt(j)'
    PROVE  ControlInv' /\ \A k \in Jobs \ {j} : Calm(k)
<1>1. ASSUME NEW k \in Jobs \ {j}
      PROVE  ControlAt(k)' /\ Calm(k)
    <2>1. store'[k] = store[k]
        BY DEF WithStatus, TypeOK
    <2>2. ControlAt(k)
        BY DEF ControlInv
    <2>3. PauseInv(k)' /\ UnlistedInv(k)'
        BY <2>1, <2>2 DEF ControlAt, PauseInv, UnlistedInv, Status
    <2>4. DriveInv(k)' /\ KindInv(k)'
        BY <2>1, <2>2 DEF ControlAt, DriveInv, KindInv, StaysIdle, Status
    <2>5. LabelInv(k)'
        BY <2>1, <2>2 DEF ControlAt, LabelInv, Status
    <2>6. Calm(k)
        BY <2>1 DEF Calm, Status, Paused
    <2> QED
        BY <2>3, <2>4, <2>5, <2>6 DEF ControlAt
<1> QED
    BY <1>1 DEF ControlInv

\* A handler that calls startDownload for the jobs of S, and takes the handles that
\* are not among handles from jobs that need none.
LEMMA DownloadControl ==
    ASSUME TypeOK, TransportInv, ControlInv,
           NEW S \in SUBSET Jobs, NEW r \in [Jobs -> Entry], NEW known \in SUBSET Jobs,
           NEW tb \in BOOLEAN, NEW handles \in SUBSET torrents,
           StartDownload(S, r, known, tb, handles),
           workers' = workers, movers' = movers, installs' = installs,
           torboxEnabled' = tb,
           \A k \in S :
                /\ k \in rows' /\ k \in known
                /\ r[k].link \in {"magnet", "http", "hydra"}
                /\ LinkOf[k] \notin {"plugin", "move"}
                /\ r[k].status \in {"queued", "active"}
                /\ r[k].link = "http" => ~r[k].torbox /\ r[k].status = "active"
                /\ "queued" \notin Labels => (r[k].status = "queued" => r[k].torbox)
                /\ k \notin handles,
           \A k \in Jobs \ S :
                /\ r[k].status = store[k].status /\ r[k].link = store[k].link
                /\ k \in rows' <=> k \in rows
                /\ k \in known <=> k \in kinds
                /\ \/ r[k].torbox = store[k].torbox /\ (k \in torrents => k \in handles)
                   \/ /\ r[k].torbox /\ k \notin handles /\ k \in rows
                      /\ store[k].link \in {"magnet", "hydra"}
                      /\ Paused(Status(k)) \/ k \in resolvers
                /\ "queued" \notin Labels /\ tb =>
                    /\ k \notin handles
                    /\ /\ k \in rows /\ store[k].link \in {"magnet", "hydra"}
                       /\ Status(k) \in {"queued", "active", "paused"}
                       => r[k].torbox
    PROVE  ControlInv' /\ \A k \in Jobs \ S : Calm(k)
<1> SUFFICES ASSUME NEW k \in Jobs
             PROVE  ControlAt(k)' /\ (k \notin S => Calm(k))
    BY DEF ControlInv
<1>1. JobInv(k) /\ ControlAt(k)
    BY DEF TransportInv, ControlInv
<1>2. handles \in SUBSET Jobs
    BY DEF TypeOK
<1>3. /\ k \in pausedTorrents' <=> k \in pausedTorrents /\ k \in handles
      /\ k \in handles => k \in torrents'
      /\ k \notin S => (k \in kinds' <=> k \in known)
    BY <1>2, StartDownloadDrives
<1>4. CASE k \notin S
    <2>1. /\ store'[k] = r[k]
          /\ k \in torrents' <=> k \in handles
          /\ k \in replies' <=> k \in replies
          /\ k \in resolvers' <=> k \in resolvers
          /\ transfers'[k] = transfers[k]
        BY <1>2, <1>4, StartDownloadAt
    <2>2. PauseInv(k)' /\ UnlistedInv(k)'
        BY <1>1, <1>3, <1>4, <2>1 DEF ControlAt, PauseInv, UnlistedInv, Status
    <2>3. DriveInv(k)'
        BY <1>1, <1>4, <2>1 DEF ControlAt, DriveInv, StaysIdle, Status, Paused, JobInv, HeldInv
    <2>4. KindInv(k)'
        BY <1>1, <1>3, <1>4, <2>1 DEF ControlAt, KindInv, Status
    <2>5. LabelInv(k)'
        BY <1>1, <1>4, <2>1 DEF ControlAt, LabelInv, Status
    <2>6. Calm(k)
        BY <1>4, <2>1 DEF Calm, Status, Paused
    <2> QED
        BY <2>2, <2>3, <2>4, <2>5, <2>6 DEF ControlAt
<1>5. CASE k \in S
    <2> DEFINE entry == Routed(r[k], tb)
               route == RouteOf(entry)
    <2>1. /\ store'[k].link = entry.link
          /\ store'[k].torbox = entry.torbox
          /\ store'[k].status \in {r[k].status, "active", "failed"}
          /\ store'[k].status = "active" /\ r[k].status # "active"
             => route = "resolver"
          /\ route = "resolver" => store'[k].status = "active"
          /\ k \in torrents' => k \in handles \/ route = "torrent"
          /\ transfers'[k] = IF route = "torbox" THEN "waiting" ELSE transfers[k]
        BY <1>2, <1>5, StartDownloadAt
    <2>2. store'[k].status # "failed" =>
            /\ route = "torrent" => k \in torrents'
            /\ route = "http" => k \in replies'
            /\ route = "resolver" => k \in resolvers'
            /\ k \in known => k \in kinds'
        BY <1>2, <1>5, StartDownloadDrives
    <2>3. /\ entry.link = r[k].link
          /\ entry.torbox <=> r[k].torbox \/ (tb /\ r[k].link # "http")
        BY DEF Routed, Entry
    <2>4. /\ route = "resolver" <=> r[k].link = "hydra"
          /\ route = "torbox" <=> r[k].link # "hydra" /\ entry.torbox
          /\ route = "http" <=> r[k].link = "http" /\ ~entry.torbox
          /\ route = "torrent" <=> r[k].link = "magnet" /\ ~entry.torbox
        BY <1>5, <2>3 DEF RouteOf
    <2> HIDE DEF entry, route
    <2>5. store'[k].status \in {"queued", "active", "failed"}
        BY <1>5, <2>1
    <2>6. PauseInv(k)' /\ UnlistedInv(k)'
        BY <1>3, <1>5, <2>1, <2>5 DEF PauseInv, UnlistedInv, Status, Paused
    <2>7. DriveInv(k)'
        BY <1>5, <2>1, <2>2, <2>3, <2>4, <2>5 DEF DriveInv, Status
    <2>8. KindInv(k)'
        <3>1. k \notin workers
            BY <1>1, <1>5 DEF JobInv, WorkerInv
        <3> QED
            BY <1>5, <2>2, <2>5, <3>1 DEF KindInv, Status
    <2>9. LabelInv(k)'
        BY <1>5, <2>1, <2>3, <2>4, <2>5 DEF LabelInv, Status
    <2> QED
        BY <1>5, <2>6, <2>7, <2>8, <2>9 DEF ControlAt
<1> QED
    BY <1>4, <1>5

\* A handler that stops the jobs of S and drops the rows of gone, which are those
\* of S and finished ones: a torrent loses its handle unless its row said queued.
LEMMA DropControl ==
    ASSUME TypeOK, TransportInv, ControlInv,
           NEW S \in SUBSET Jobs, NEW gone \in SUBSET Jobs,
           S \subseteq gone,
           \A k \in S : k \in rows,
           \A k \in (gone \cap rows) \ S : Terminal(Status(k)),
           \/ StopTransports(S, Dropped(gone))
           \/ S = {} /\ store' = Dropped(gone) /\ UNCHANGED transports,
           \A k \in Jobs \ gone : k \in kinds' <=> k \in kinds,
           rows' = rows \ gone, torboxEnabled' = torboxEnabled,
           workers' = workers, movers' = movers, installs' = installs
    PROVE  ControlInv' /\ \A k \in Jobs : Calm(k)
<1> SUFFICES ASSUME NEW k \in Jobs
             PROVE  ControlAt(k)' /\ Calm(k)
    BY DEF ControlInv
<1> DEFINE r == Dropped(gone)
           left == [ j \in Jobs |-> IF j \in StopAll(S, "torbox")
                                    THEN "none" ELSE transfers[j] ]
<1>1. JobInv(k) /\ ControlAt(k)
    BY DEF TransportInv, ControlInv
<1>2. r \in [Jobs -> Entry] /\ left \in [Jobs -> Stages]
    BY DroppedType DEF TypeOK, Stages
<1>3. /\ k \in torrents' <=> k \in torrents /\ ~(k \in S /\ StopPath(k) = "torrent")
      /\ k \in pausedTorrents' <=>
            k \in pausedTorrents /\ ~(k \in S /\ StopPath(k) = "torrent")
      /\ k \notin S => /\ k \in replies' <=> k \in replies
                       /\ k \in resolvers' <=> k \in resolvers
    BY DEF StopTransports, StopAll, transports
<1>4. /\ store'[k].link = r[k].link /\ store'[k].torbox = r[k].torbox
      /\ \/ transfers'[k] \in {left[k], transfers[k]} /\ store'[k].status = r[k].status
         \/ /\ left[k] = "waiting"
            /\ \/ r[k].status = "none" /\ store'[k].status = "none"
               \/ store'[k].status = "active" /\ transfers'[k] = "started"
               \/ store'[k].status = "queued" /\ transfers'[k] = "waiting"
            /\ r[k].status = "none" => store'[k].status = "none"
    <2>1. \/ Pump(r, left)
          \/ transfers' = left /\ store' = r
          \/ S = {} /\ transfers' = transfers /\ store' = r
        BY DEF StopTransports, transports
    <2> HIDE DEF r, left
    <2>2. CASE Pump(r, left)
        BY <1>2, <2>2, PumpAt
    <2>3. CASE transfers' = left /\ store' = r
        BY <2>3
    <2>4. CASE S = {} /\ transfers' = transfers /\ store' = r
        BY <2>4
    <2> QED
        BY <2>1, <2>2, <2>3, <2>4
<1>5. r[k] = IF k \in gone THEN NoEntry ELSE store[k]
    BY DEF Dropped
<1>6. k \notin gone => left[k] = transfers[k]
    BY DEF StopAll
<1> HIDE DEF r, left
<1>7. CASE k \in gone
    <2>1. r[k].status = "none"
        BY <1>5, <1>7 DEF NoEntry
    <2>2. store'[k].status = "none" /\ k \notin rows'
        BY <1>4, <1>7, <2>1
    <2>3. k \in torrents /\ k \in rows /\ (Paused(Status(k)) \/ "queued" \notin Labels)
          => k \notin torrents' /\ k \notin pausedTorrents'
        <3> SUFFICES ASSUME k \in torrents, k \in rows,
                            Paused(Status(k)) \/ "queued" \notin Labels
                     PROVE  k \in S /\ StopPath(k) = "torrent"
            BY <1>3
        <3>1. /\ store[k].link = "magnet" /\ ~store[k].torbox
              /\ Status(k) \in {"active", "paused"} /\ k \notin resolvers
            BY <1>1 DEF JobInv, HeldInv, ControlAt, LabelInv, Paused
        <3>2. k \in S
            BY <1>7, <3>1 DEF Terminal
        <3> QED
            BY <3>1, <3>2 DEF StopPath, Running, Active, Paused
    <2>4. k \in torrents /\ k \notin rows => ~Paused(Status(k))
        BY <1>1 DEF ControlAt, PauseInv, UnlistedInv, Paused
    <2>5. PauseInv(k)'
        BY <1>1, <1>3, <2>2, <2>3, <2>4 DEF ControlAt, PauseInv, Status, Paused
    <2>6. LabelInv(k)'
        BY <1>1, <1>3, <2>2, <2>3 DEF ControlAt, LabelInv, Status
    <2> QED
        BY <2>2, <2>5, <2>6 DEF ControlAt, UnlistedInv, DriveInv, KindInv, Calm, Status
<1>8. CASE k \notin gone
    <2>1. /\ k \notin S /\ (k \in rows' <=> k \in rows) /\ (k \in kinds' <=> k \in kinds)
          /\ k \in torrents' <=> k \in torrents
          /\ k \in pausedTorrents' <=> k \in pausedTorrents
          /\ k \in replies' <=> k \in replies
          /\ k \in resolvers' <=> k \in resolvers
        BY <1>3, <1>8
    <2>2. /\ store'[k].link = store[k].link /\ store'[k].torbox = store[k].torbox
          /\ \/ transfers'[k] = transfers[k] /\ store'[k].status = store[k].status
             \/ /\ transfers[k] = "waiting" /\ store[k].status \in {"queued", "active"}
                /\ k \in rows /\ store[k].link = "magnet" /\ store[k].torbox
                /\ \/ store'[k].status = "active" /\ transfers'[k] = "started"
                   \/ store'[k].status = "queued" /\ transfers'[k] = "waiting"
        BY <1>1, <1>4, <1>5, <1>6, <1>8 DEF JobInv, HeldInv, Status, Paused
    <2>3. PauseInv(k)' /\ UnlistedInv(k)'
        BY <1>1, <2>1, <2>2 DEF JobInv, HeldInv, ControlAt, PauseInv, UnlistedInv, Status, Paused
    <2>4. DriveInv(k)' /\ KindInv(k)'
        BY <1>1, <2>1, <2>2 DEF ControlAt, DriveInv, KindInv, StaysIdle, Status, Paused
    <2>5. LabelInv(k)'
        BY <1>1, <2>1, <2>2 DEF ControlAt, LabelInv, Status
    <2>6. Calm(k)
        BY <2>1, <2>2 DEF Calm, Status, Paused, Terminal
    <2> QED
        BY <2>3, <2>4, <2>5, <2>6 DEF ControlAt
<1> QED
    BY <1>7, <1>8

\* What a restart makes of the entry it finds.
RestoredAt(k, found) ==
    /\ k \in rows' <=> store'[k].status # "none"
    /\ found.status = "none" => store'[k].status = "none"
    /\ Terminal(found.status) =>
        store'[k].status = "none" \/ Terminal(store'[k].status)
    /\ LinkOf[k] # "move" /\ found.status # "none" /\ ~Terminal(found.status)
       => store'[k].status # "none"
    /\ LinkOf[k] # "plugin" /\ Paused(found.status)
       => store'[k].status \notin {"queued", "active"}

\* The entries on disk after a restart that has saved nothing yet.
UnsavedAt(k, found) ==
    /\ disk'[k].status = "none" <=> found.status = "none"
    /\ LinkOf[k] # "move" => (Terminal(disk'[k].status) <=> Terminal(found.status))

\* A restart from entries that may be in jobs.json.
LEMMA RestartControl ==
    ASSUME TypeOK, NEW saved \in [Jobs -> Entry], Restart(saved),
           \A k \in Jobs : EntryInv(k, saved[k])
    PROVE  /\ ControlInv'
           /\ \A k \in Jobs : RestoredAt(k, saved[k])
           /\ disk' = store' \/ \A k \in Jobs : UnsavedAt(k, saved[k])
<1> DEFINE r == [j \in Jobs |-> Recovered(saved[j], torboxEnabled)]
           present == {j \in Jobs : r[j].status # "none"}
           live == {j \in present : ~Terminal(r[j].status)}
           owned == {j \in live : r[j].link = "plugin"}
           starting == {j \in live \ owned : ~StaysIdle(r[j])}
           paused == {j \in starting : Paused(r[j].status)}
<1>1. StartRecovered(r)
    BY DEF Restart
<1>2. PICK expired \in SUBSET (present \ live),
           refused \in Refusals(starting, r, torboxEnabled, {}, {}),
           resumed \in SUBSET owned :
        /\ store' = [ j \in Jobs |->
                        IF j \in expired THEN NoEntry
                        ELSE Launched(starting, r, torboxEnabled, refused)[j] ]
        /\ rows' = present \ expired
        /\ disk' = IF expired = {} THEN r ELSE store'
        /\ kinds' = live \ refused
        /\ torrents' = Via("torrent", starting, r, torboxEnabled) \ refused
        /\ pausedTorrents' = paused \cap torrents'
        /\ replies' = Via("http", starting, r, torboxEnabled) \ refused
        /\ transfers' = [ j \in Jobs |->
                            IF j \in Via("torbox", starting, r, torboxEnabled)
                            THEN "waiting" ELSE "none" ]
        /\ resolvers' = Via("resolver", starting, r, torboxEnabled)
        /\ workers' = resumed
        /\ torboxEnabled' = torboxEnabled
    BY ZenonT(40), <1>1 DEF StartRecovered
<1>3. ASSUME NEW k \in Jobs
      PROVE  /\ ControlAt(k)'
             /\ RestoredAt(k, saved[k])
             /\ disk' = r => UnsavedAt(k, saved[k])
    <2>1. r[k] = Recovered(saved[k], torboxEnabled)
        OBVIOUS
    <2>2. /\ k \in present <=> r[k].status # "none"
          /\ k \in live <=> r[k].status # "none" /\ ~Terminal(r[k].status)
          /\ k \in owned <=> k \in live /\ r[k].link = "plugin"
          /\ k \in starting <=> k \in live /\ k \notin owned /\ ~StaysIdle(r[k])
          /\ k \in paused <=> k \in starting /\ Paused(r[k].status)
        OBVIOUS
    <2> HIDE DEF r, present, live, owned, starting, paused
    <2>3. saved[k] \in Entry /\ torboxEnabled \in BOOLEAN /\ EntryInv(k, saved[k])
        BY DEF TypeOK
    <2>4. r[k] \in Entry
        BY <2>1, <2>3, RecoveredType
    <2>5. /\ r[k].link = saved[k].link
          /\ r[k].status = "none" <=> saved[k].status = "none"
          /\ r[k].torbox <=> \/ saved[k].torbox
                             \/ /\ k \in live /\ r[k].link \notin {"plugin", "http"}
                                /\ torboxEnabled
          /\ Terminal(saved[k].status) => r[k].status = saved[k].status
          /\ Terminal(r[k].status) => Terminal(saved[k].status) \/ r[k].link = "move"
          /\ k \in live => r[k].link # "move" /\ r[k].status \in {"active", "paused"}
          /\ k \in live /\ r[k].link # "plugin"
             => (r[k].status = "paused" <=> saved[k].status = "paused")
          /\ k \in live /\ r[k].link = "plugin" => r[k].status = "active"
        BY <2>1, <2>2, <2>3 DEF Recovered, Entry, Terminal, Paused
    <2> DEFINE entry == Routed(r[k], torboxEnabled)
               route == RouteOf(entry)
    <2>6. /\ entry.link = r[k].link
          /\ entry.status = r[k].status
          /\ entry.torbox <=> r[k].torbox \/ (torboxEnabled /\ r[k].link # "http")
          /\ entry \in Entry
        BY <2>3, <2>4 DEF Routed, Entry
    <2>7. \A w : k \in Via(w, starting, r, torboxEnabled) <=> k \in starting /\ route = w
        BY DEF Via
    <2>8. \/ k \in expired /\ store'[k] = NoEntry
          \/ /\ k \notin expired
             /\ store'[k] = IF k \in refused THEN [entry EXCEPT !.status = "failed"]
                            ELSE IF k \in starting /\ route = "resolver"
                            THEN [entry EXCEPT !.status = "active"]
                            ELSE IF k \in starting THEN entry ELSE r[k]
        BY <1>2, <2>7 DEF Launched
    <2>9. k \in refused => k \in starting /\ route \in {"torrent", "http"}
        BY <1>2, <2>7 DEF Refusals
    <2>10. k \in expired => k \in present /\ k \notin live
        BY <1>2
    <2> HIDE DEF entry
    <2>11. /\ k \in expired => store'[k].status = "none"
           /\ k \notin expired =>
                /\ store'[k].link = r[k].link
                /\ store'[k].torbox = IF k \in starting THEN entry.torbox ELSE r[k].torbox
                /\ store'[k].status = IF k \in refused THEN "failed"
                                      ELSE IF k \in starting /\ route = "resolver"
                                      THEN "active" ELSE r[k].status
        BY <2>4, <2>6, <2>8, <2>9 DEF NoEntry, Entry
    <2>12. /\ route = "resolver" <=> r[k].link = "hydra"
           /\ route = "torbox" <=> r[k].link # "hydra" /\ entry.torbox
           /\ route = "http" <=> r[k].link = "http" /\ ~entry.torbox
           /\ route = "torrent" <=> r[k].link \notin {"http", "hydra"} /\ ~entry.torbox
        BY <2>6 DEF RouteOf
    <2>13. /\ k \in torrents' <=> k \in starting /\ route = "torrent" /\ k \notin refused
           /\ k \in replies' <=> k \in starting /\ route = "http" /\ k \notin refused
           /\ k \in resolvers' <=> k \in starting /\ route = "resolver"
           /\ transfers'[k] = IF k \in starting /\ route = "torbox" THEN "waiting"
                                                                    ELSE "none"
           /\ k \in pausedTorrents' <=> k \in paused /\ k \in torrents'
           /\ k \in rows' <=> k \in present /\ k \notin expired
           /\ k \in kinds' <=> k \in live /\ k \notin refused
           /\ k \in workers' => k \in owned
        BY <1>2, <2>7
    <2> HIDE DEF route
    <2>14. k \in starting =>
            /\ k \in live /\ k \notin owned /\ k \in rows'
            /\ r[k].link \in {"magnet", "http", "hydra"}
            /\ LinkOf[k] \notin {"plugin", "move"}
            /\ r[k].link = "http" => r[k].status = "active" /\ ~r[k].torbox
            /\ r[k].status = "paused" => ~r[k].torbox /\ r[k].link # "hydra"
        BY <2>2, <2>3, <2>4, <2>5, <2>10, <2>13
           DEF EntryInv, Entry, Links, StaysIdle, Paused
    <2>15. k \in live => k \in present /\ k \notin expired /\ k \in rows'
        BY <2>2, <2>10, <2>13
    <2>16. torboxEnabled /\ k \in starting /\ r[k].link # "http" => r[k].torbox
        BY <2>5, <2>14
    <2>17. k \in rows' <=> store'[k].status # "none"
        BY <2>2, <2>9, <2>10, <2>11, <2>13, <2>15, <2>14
    <2>18. PauseInv(k)' /\ UnlistedInv(k)'
        BY <2>2, <2>6, <2>11, <2>12, <2>13, <2>14, <2>15, <2>17
           DEF PauseInv, UnlistedInv, Status, Paused
    <2>19. DriveInv(k)'
        <3>1. k \notin live => Status(k)' = "none" \/ Terminal(Status(k)')
            BY <2>2, <2>9, <2>11, <2>14, <2>17, <2>13 DEF Status, Terminal
        <3>2. k \in live /\ k \notin starting /\ r[k].link # "plugin"
              => Status(k)' = "paused" /\ StaysIdle(store[k])'
            BY <2>2, <2>5, <2>9, <2>11, <2>15 DEF Status, StaysIdle, Paused
        <3>3. CASE k \in starting
            BY <2>2, <2>5, <2>6, <2>9, <2>11, <2>12, <2>13, <2>14, <2>15, <2>16, <3>3
               DEF DriveInv, Status
        <3>4. CASE k \notin starting
            BY <2>11, <2>15, <3>1, <3>2, <3>4 DEF DriveInv, Status, Terminal
        <3> QED
            BY <3>3, <3>4
    <2>20. KindInv(k)'
        BY <2>2, <2>9, <2>11, <2>13, <2>14, <2>15 DEF KindInv, Status, Terminal
    <2>21. LabelInv(k)'
        BY <1>2, <2>2, <2>5, <2>6, <2>9, <2>11, <2>12, <2>13, <2>14, <2>15, <2>16
           DEF LabelInv, Status, Terminal
    <2>22. RestoredAt(k, saved[k])
        <3>1. saved[k].status = "none" => store'[k].status = "none"
            BY <2>2, <2>5, <2>13, <2>17
        <3>2. Terminal(saved[k].status) => store'[k].status = "none" \/ Terminal(store'[k].status)
            BY <2>2, <2>5, <2>9, <2>11, <2>14, <2>17, <2>13
        <3>3. LinkOf[k] # "move" /\ saved[k].status # "none" /\ ~Terminal(saved[k].status)
              => store'[k].status # "none"
            BY <2>2, <2>3, <2>5, <2>15, <2>17 DEF EntryInv
        <3>4. LinkOf[k] # "plugin" /\ Paused(saved[k].status)
              => store'[k].status \notin {"queued", "active"}
            <4> SUFFICES ASSUME LinkOf[k] # "plugin", saved[k].status = "paused"
                         PROVE  store'[k].status \notin {"queued", "active"}
                BY DEF Paused
            <4>1. r[k].link # "plugin" /\ r[k].link # "move"
                BY <2>3, <2>5 DEF EntryInv, Terminal
            <4>2. k \in live /\ r[k].status = "paused"
                BY <2>2, <2>5, <4>1 DEF Terminal
            <4> QED
                BY <2>11, <2>12, <2>14, <2>15, <4>2
        <3> QED
            BY <2>17, <3>1, <3>2, <3>3, <3>4 DEF RestoredAt
    <2>23. disk' = r => UnsavedAt(k, saved[k])
        BY <2>3, <2>5 DEF UnsavedAt, EntryInv, Terminal
    <2> QED
        BY <2>18, <2>19, <2>20, <2>21, <2>22, <2>23 DEF ControlAt
<1> HIDE DEF r
<1> QED
    BY <1>2, <1>3 DEF ControlInv

--------------------------------------------------------------------------------
(***************************************************************************)
(* Every action keeps ControlInv, and is calm but for its own job          *)
(***************************************************************************)

\* What the rows and handles that a handler does not start owe to LabelInv.
LEMMA RoutedAlready ==
    ASSUME ControlInv, torboxEnabled, "queued" \notin Labels, NEW k \in Jobs
    PROVE  /\ k \notin torrents
           /\ /\ k \in rows /\ store[k].link \in {"magnet", "hydra"}
              /\ Status(k) \in {"queued", "active", "paused"}
              => store[k].torbox
BY DEF ControlInv, ControlAt, LabelInv

\* A new job is driven from the start.
LEMMA CreateControl ==
    ASSUME TypeOK, TransportInv, ControlInv, NEW j \in Jobs,
           CreateDownload(j) \/ CreatePluginDownload(j) \/ CreateMove(j)
    PROVE  ControlInv' /\ \A k \in Jobs : Calm(k)
<1>1. CASE CreateDownload(j)
    <2> DEFINE entry == [ status |-> "active", link |-> LinkOf[j],
                          torbox |-> torboxEnabled /\ LinkOf[j] # "http" ]
               r == [store EXCEPT ![j] = entry]
               S == {j}
               known == kinds \cup {j}
               handles == torrents
    <2>1. entry \in Entry
        BY LinkAssumption DEF Entry, Statuses, TypeOK
    <2>2. /\ r \in [Jobs -> Entry] /\ S \in SUBSET Jobs
          /\ known \in SUBSET Jobs /\ handles \in SUBSET torrents
          /\ torboxEnabled \in BOOLEAN
        BY <2>1 DEF TypeOK
    <2>3. StartDownload(S, r, known, torboxEnabled, handles)
        BY <1>1 DEF CreateDownload
    <2>4. /\ workers' = workers /\ movers' = movers /\ installs' = installs
          /\ torboxEnabled' = torboxEnabled
          /\ created' = created \cup {j} /\ rows' = rows \cup {j}
          /\ j \notin created /\ LinkOf[j] \in {"magnet", "http", "hydra"}
        BY <1>1 DEF CreateDownload, plugins, installers
    <2>5. j \notin rows /\ j \notin torrents
        BY <2>4 DEF TransportInv, JobInv, CreatedInv
    <2>6. /\ r[j].link = LinkOf[j] /\ r[j].status = "active"
          /\ r[j].link = "http" => ~r[j].torbox
        BY DEF TypeOK
    <2>7. \A k \in S :
            /\ k \in rows' /\ k \in known
            /\ r[k].link \in {"magnet", "http", "hydra"}
            /\ LinkOf[k] \notin {"plugin", "move"}
            /\ r[k].status \in {"queued", "active"}
            /\ r[k].link = "http" => ~r[k].torbox /\ r[k].status = "active"
            /\ "queued" \notin Labels => (r[k].status = "queued" => r[k].torbox)
            /\ k \notin handles
        BY <2>4, <2>5, <2>6
    <2>8. \A k \in Jobs \ S : /\ r[k] = store[k]
                              /\ k \in rows' <=> k \in rows
                              /\ k \in known <=> k \in kinds
        BY <2>4
    <2> HIDE DEF entry, r, S, known
    <2>9. ControlInv' /\ \A k \in Jobs \ S : Calm(k)
        BY <2>2, <2>3, <2>4, <2>7, <2>8, RoutedAlready, DownloadControl
    <2> QED
        BY <2>5, <2>9 DEF S, Calm
<1>2. CASE CreatePluginDownload(j) \/ CreateMove(j)
    <2> SUFFICES ASSUME NEW k \in Jobs
                 PROVE  ControlAt(k)' /\ Calm(k)
        BY DEF ControlInv
    <2>1. JobInv(k) /\ ControlAt(k)
        BY DEF TransportInv, ControlInv
    <2>2. /\ j \notin created /\ rows' = rows \cup {j}
          /\ torrents' = torrents /\ pausedTorrents' = pausedTorrents
          /\ replies' = replies /\ transfers' = transfers /\ resolvers' = resolvers
          /\ installs' = installs /\ torboxEnabled' = torboxEnabled
        BY <1>2 DEF CreatePluginDownload, CreateMove, transports, installers
    <2>3. \/ /\ workers' = workers \cup {j} /\ movers' = movers
             /\ kinds' = kinds \cup {j}
             /\ store'[j] = [status |-> "active", link |-> "plugin", torbox |-> FALSE]
          \/ /\ movers' = movers \cup {j} /\ workers' = workers /\ kinds' = kinds
             /\ store'[j] = [status |-> "moving", link |-> "move", torbox |-> FALSE]
        BY <1>2 DEF CreatePluginDownload, CreateMove, plugins, TypeOK
    <2>4. k # j => store'[k] = store[k]
        BY <1>2 DEF CreatePluginDownload, CreateMove, TypeOK
    <2>5. CASE k = j
        <3>1. k \notin rows /\ k \notin torrents /\ k \notin workers
            BY <2>1, <2>2, <2>5 DEF JobInv, CreatedInv
        <3>2. PauseInv(k)' /\ UnlistedInv(k)' /\ Calm(k)
            BY <2>1, <2>2, <2>5, <3>1 DEF ControlAt, PauseInv, UnlistedInv, Calm, Status
        <3>3. DriveInv(k)' /\ KindInv(k)' /\ LabelInv(k)'
            BY <2>2, <2>3, <2>5, <3>1 DEF DriveInv, KindInv, LabelInv, Status
        <3> QED
            BY <3>2, <3>3 DEF ControlAt
    <2>6. CASE k # j
        <3>1. PauseInv(k)' /\ UnlistedInv(k)' /\ Calm(k)
            BY <2>1, <2>2, <2>4, <2>6
               DEF ControlAt, PauseInv, UnlistedInv, Calm, Status, Paused
        <3>2. DriveInv(k)' /\ KindInv(k)' /\ LabelInv(k)'
            BY <2>1, <2>2, <2>3, <2>4, <2>6
               DEF ControlAt, DriveInv, KindInv, LabelInv, StaysIdle, Status
        <3> QED
            BY <3>1, <3>2 DEF ControlAt
    <2> QED
        BY <2>5, <2>6
<1> QED
    BY <1>1, <1>2

\* The two handlers that start a listed job again by way of startDownload.
LEMMA AgainControl ==
    ASSUME TypeOK, TransportInv, ControlInv, NEW j \in Jobs,
           NEW known \in SUBSET Jobs,
           j \in rows, Retryable(Status(j)) \/ Paused(Status(j)),
           j \in known, \A k \in Jobs \ {j} : k \in known <=> k \in kinds,
           store[j].link \notin {"plugin", "move"},
           j \in torrents => store[j].torbox \/ store[j].link = "hydra",
           StartDownload({j}, [store EXCEPT ![j].status = "active"], known,
                         torboxEnabled, torrents),
           rows' = rows, torboxEnabled' = torboxEnabled,
           workers' = workers, movers' = movers, installs' = installs
    PROVE  ControlInv' /\ \A k \in Jobs \ {j} : Calm(k)
<1> DEFINE r == [store EXCEPT ![j].status = "active"]
           S == {j}
           handles == torrents
<1>1. JobInv(j)
    BY DEF TransportInv
<1>2. /\ r \in [Jobs -> Entry] /\ S \in SUBSET Jobs /\ handles \in SUBSET torrents
      /\ torboxEnabled \in BOOLEAN
    BY EntryUpdate DEF TypeOK, Statuses
<1>3. /\ r[j].link = store[j].link /\ r[j].torbox = store[j].torbox
      /\ r[j].status = "active"
    BY EntryFields DEF TypeOK
<1>4. store[j].link \in Links \cup {"none"}
    BY DEF TypeOK, Entry
<1>5. /\ r[j].link \in {"magnet", "http", "hydra"}
      /\ LinkOf[j] \notin {"plugin", "move"}
      /\ r[j].link = "http" => ~r[j].torbox
      /\ j \notin torrents
    BY <1>1, <1>3, <1>4 DEF JobInv, EntryInv, HeldInv, CreatedInv, Status, Links
<1>6. \A k \in S :
        /\ k \in rows' /\ k \in known
        /\ r[k].link \in {"magnet", "http", "hydra"}
        /\ LinkOf[k] \notin {"plugin", "move"}
        /\ r[k].status \in {"queued", "active"}
        /\ r[k].link = "http" => ~r[k].torbox /\ r[k].status = "active"
        /\ "queued" \notin Labels => (r[k].status = "queued" => r[k].torbox)
        /\ k \notin handles
    BY <1>3, <1>5
<1>7. \A k \in Jobs \ S : /\ r[k] = store[k]
                          /\ k \in rows' <=> k \in rows
                          /\ k \in known <=> k \in kinds
    OBVIOUS
<1>8. StartDownload(S, r, known, torboxEnabled, handles)
    OBVIOUS
<1>9. workers' = workers /\ movers' = movers /\ installs' = installs
      /\ torboxEnabled' = torboxEnabled
    OBVIOUS
<1> HIDE DEF r, S
<1>10. ControlInv' /\ \A k \in Jobs \ S : Calm(k)
    BY <1>2, <1>6, <1>7, <1>8, <1>9, RoutedAlready, DownloadControl
<1> QED
    BY <1>10 DEF S

\* Resuming or retrying a download: it is driven by the transport it is sent to, or
\* by the handle it still has.
LEMMA ResumeControl ==
    ASSUME TypeOK, TransportInv, ControlInv, NEW j \in Jobs,
           ResumeJob(j) \/ RetryDownload(j)
    PROVE  ControlInv' /\ \A k \in Jobs \ {j} : Calm(k)
<1>1. JobInv(j) /\ ControlAt(j)
    BY DEF TransportInv, ControlInv
<1>2. CASE RetryDownload(j)
    <2> DEFINE known == kinds \cup {j}
    <2>1. /\ StartDownload({j}, [store EXCEPT ![j].status = "active"], known,
                           torboxEnabled, torrents)
          /\ known \in SUBSET Jobs /\ j \in known
          /\ \A k \in Jobs \ {j} : k \in known <=> k \in kinds
        BY <1>2 DEF RetryDownload, TypeOK
    <2>2. j \notin torrents
        BY <1>1, <1>2 DEF RetryDownload, JobInv, HeldInv, Retryable
    <2> HIDE DEF known
    <2> QED
        BY <1>2, <2>1, <2>2, AgainControl DEF RetryDownload, plugins, installers
<1>3. CASE /\ ResumeJob(j)
           /\ store[j].torbox \/ store[j].link = "hydra"
           /\ store[j].link # "plugin"
    <2>1. store[j].link # "move"
        BY <1>1, <1>3 DEF ResumeJob, JobInv, EntryInv, Status, Paused, Terminal
    <2>2. kinds \in SUBSET Jobs /\ j \in kinds
        BY <1>1, <1>3 DEF ResumeJob, TypeOK, ControlAt, KindInv, Paused
    <2> QED
        BY <1>3, <2>1, <2>2, AgainControl DEF ResumeJob, plugins, installers
<1>4. CASE /\ ResumeJob(j)
           /\ \/ ~(store[j].torbox \/ store[j].link = "hydra")
              \/ store[j].link = "plugin"
    <2>1. /\ store' = [store EXCEPT ![j].status = "active"]
          /\ rows' = rows /\ torboxEnabled' = torboxEnabled /\ kinds' = kinds
          /\ torrents' = torrents /\ replies' = replies
          /\ resolvers' = resolvers /\ transfers' = transfers
          /\ workers' = workers /\ movers' = movers /\ installs' = installs
          /\ pausedTorrents' = IF store[j].link = "plugin" THEN pausedTorrents
                               ELSE pausedTorrents \ {j}
          /\ j \in rows /\ Paused(Status(j))
        BY <1>4 DEF ResumeJob, plugins, installers, transports
    <2>2. store' = WithStatus(j, "active")
        BY <2>1 DEF WithStatus
    <2>3. /\ store'[j].link = store[j].link /\ store'[j].torbox = store[j].torbox
          /\ store'[j].status = "active"
        BY <2>1, EntryFields DEF TypeOK
    <2>4. store[j].link = "plugin" => LinkOf[j] = "plugin"
        BY <1>1, <2>1 DEF JobInv, EntryInv, CreatedInv, Status
    <2>5. PauseInv(j)' /\ UnlistedInv(j)'
        BY <1>1, <2>1, <2>3, <2>4 DEF ControlAt, PauseInv, UnlistedInv, Status, Paused
    <2>6. DriveInv(j)' /\ KindInv(j)'
        BY <1>1, <1>4, <2>1, <2>3
           DEF ControlAt, DriveInv, KindInv, StaysIdle, Status, Paused
    <2>7. LabelInv(j)'
        BY <1>1, <2>1, <2>3 DEF ControlAt, LabelInv, Status, Paused
    <2>8. ControlAt(j)'
        BY <2>5, <2>6, <2>7 DEF ControlAt
    <2> QED
        BY <2>1, <2>2, <2>8, RowControl DEF Statuses
<1> QED
    BY <1>2, <1>3, <1>4

\* Retrying a plugin download or an install.
LEMMA RetryControl ==
    ASSUME TypeOK, TransportInv, ControlInv, NEW j \in Jobs,
           RetryPluginDownload(j) \/ RetryInstall(j)
    PROVE  ControlInv' /\ \A k \in Jobs \ {j} : Calm(k)
<1>1. JobInv(j) /\ ControlAt(j)
    BY DEF TransportInv, ControlInv
<1>2. /\ rows' = rows /\ torboxEnabled' = torboxEnabled
      /\ torrents' = torrents /\ pausedTorrents' = pausedTorrents
      /\ replies' = replies /\ resolvers' = resolvers
      /\ transfers' = transfers /\ movers' = movers /\ j \in rows
    BY DEF RetryPluginDownload, RetryInstall, transports
<1>3. \/ /\ store' = [store EXCEPT ![j].status = "active"]
         /\ Retryable(Status(j)) /\ store[j].link = "plugin"
         /\ workers' \in {workers, workers \cup {j}} /\ installs' = installs
         /\ kinds' = kinds \cup {j}
      \/ /\ store' = [store EXCEPT ![j].status = "installing"]
         /\ Installable(Status(j)) /\ store[j].link # "move"
         /\ installs' = installs \cup {j} /\ workers' = workers /\ kinds' = kinds
    BY DEF RetryPluginDownload, RetryInstall, installers, plugins
<1>4. PICK s \in {"active", "installing"} :
        /\ store' = [store EXCEPT ![j].status = s]
        /\ s = "active" => store[j].link = "plugin" /\ j \in kinds'
        /\ s = "installing" => j \in installs' /\ workers' = workers /\ kinds' = kinds
    BY <1>3
<1>5. /\ store'[j].link = store[j].link /\ store'[j].torbox = store[j].torbox
      /\ store'[j].status = s
    BY <1>4, EntryFields DEF TypeOK
<1>6. store' = WithStatus(j, s)
    BY <1>2, <1>4 DEF WithStatus
<1>7. j \notin torrents
    BY <1>1, <1>2, <1>3 DEF JobInv, HeldInv, Retryable, Installable
<1>8. PauseInv(j)' /\ UnlistedInv(j)' /\ LabelInv(j)'
    BY <1>1, <1>2, <1>4, <1>5, <1>7
       DEF JobInv, EntryInv, CreatedInv, ControlAt, PauseInv, UnlistedInv, LabelInv,
           Status
<1>9. DriveInv(j)' /\ KindInv(j)'
    BY <1>1, <1>2, <1>4, <1>5 DEF ControlAt, DriveInv, KindInv, Status
<1>10. \A k \in Jobs \ {j} : /\ k \in workers' <=> k \in workers
                             /\ k \in installs' <=> k \in installs
                             /\ k \in kinds' <=> k \in kinds
    BY <1>3
<1>11. ControlAt(j)'
    BY <1>8, <1>9 DEF ControlAt
<1> QED
    BY <1>2, <1>6, <1>10, <1>11, RowControl DEF Statuses

\* Cancelling, removing or clearing jobs.
LEMMA DropsControl ==
    ASSUME TypeOK, TransportInv, ControlInv,
           \/ \E j \in Jobs : CancelJob(j)
           \/ \E S \in SUBSET rows : RemoveFinished(S)
           \/ ClearFinished
           \/ \E e \in Entries : RemoveGame(e)
    PROVE  ControlInv' /\ \A k \in Jobs : Calm(k)
<1>1. ASSUME NEW j \in Jobs, CancelJob(j)
      PROVE  ControlInv' /\ \A k \in Jobs : Calm(k)
    <2> DEFINE S == {j}
               gone == {j} \cup { k \in rows : /\ EntryOf[k] = EntryOf[j]
                                              /\ Retryable(Status(k)) }
    <2>1. /\ StopTransports(S, Dropped(gone))
          /\ rows' = rows \ gone /\ torboxEnabled' = torboxEnabled
          /\ workers' = workers /\ movers' = movers /\ installs' = installs
          /\ kinds' = kinds \ gone /\ j \in rows
        BY <1>1 DEF CancelJob
    <2>2. /\ S \in SUBSET Jobs /\ gone \in SUBSET Jobs /\ S \subseteq gone
          /\ \A k \in S : k \in rows
          /\ \A k \in (gone \cap rows) \ S : Terminal(Status(k))
        BY <2>1 DEF TypeOK, Retryable, Terminal
    <2> HIDE DEF S, gone
    <2>3. \A k \in Jobs \ gone : k \in kinds' <=> k \in kinds
        BY <2>1
    <2> QED
        BY <2>1, <2>2, <2>3, DropControl
<1>2. ASSUME NEW T \in SUBSET rows, RemoveFinished(T)
      PROVE  ControlInv' /\ \A k \in Jobs : Calm(k)
    <2> DEFINE S == {}
    <2>1. /\ S = {} /\ store' = Dropped(T) /\ UNCHANGED transports
          /\ rows' = rows \ T /\ torboxEnabled' = torboxEnabled
          /\ workers' = workers /\ movers' = movers /\ installs' = installs
          /\ kinds' = kinds \ T
        BY <1>2 DEF RemoveFinished, plugins, installers
    <2>2. /\ S \in SUBSET Jobs /\ T \in SUBSET Jobs /\ S \subseteq T
          /\ \A k \in S : k \in rows
          /\ \A k \in (T \cap rows) \ S : Terminal(Status(k))
          /\ \A k \in Jobs \ T : k \in kinds' <=> k \in kinds
        BY <1>2, <2>1 DEF TypeOK, RemoveFinished
    <2> HIDE DEF S
    <2> QED
        BY <2>1, <2>2, DropControl
<1>3. ASSUME ClearFinished
      PROVE  ControlInv' /\ \A k \in Jobs : Calm(k)
    <2> DEFINE S == {}
               keep == {k \in rows : ~Terminal(Status(k))}
               gone == Jobs \ keep
    <2>1. /\ S = {} /\ store' = Dropped(gone) /\ UNCHANGED transports
          /\ rows' = keep /\ torboxEnabled' = torboxEnabled
          /\ workers' = workers /\ movers' = movers /\ installs' = installs
          /\ kinds' = kinds \ (rows \ keep)
        BY <1>3 DEF ClearFinished, plugins, installers
    <2>2. /\ S \in SUBSET Jobs /\ gone \in SUBSET Jobs /\ S \subseteq gone
          /\ \A k \in S : k \in rows
          /\ \A k \in (gone \cap rows) \ S : Terminal(Status(k))
          /\ rows' = rows \ gone
        BY <2>1 DEF TypeOK
    <2>3. \A k \in Jobs \ gone : k \in kinds' <=> k \in kinds
        BY <2>1
    <2> HIDE DEF S, keep, gone
    <2> QED
        BY <2>1, <2>2, <2>3, DropControl
<1>4. ASSUME NEW e \in Entries, RemoveGame(e)
      PROVE  ControlInv' /\ \A k \in Jobs : Calm(k)
    <2> DEFINE gone == {k \in rows : EntryOf[k] = e}
               S == {k \in gone : InProgress(Status(k))}
    <2>1. /\ StopTransports(S, Dropped(gone))
          /\ rows' = rows \ gone /\ torboxEnabled' = torboxEnabled
          /\ workers' = workers /\ movers' = movers /\ installs' = installs
          /\ kinds' = kinds \ gone
        BY <1>4 DEF RemoveGame, plugins, installers
    <2>2. /\ S \in SUBSET Jobs /\ gone \in SUBSET Jobs /\ S \subseteq gone
          /\ \A k \in S : k \in rows
        BY DEF TypeOK
    <2>3. ASSUME NEW k \in (gone \cap rows) \ S
          PROVE  Terminal(Status(k))
        <3>1. k \in Jobs /\ k \in rows /\ ~InProgress(Status(k))
            BY DEF TypeOK
        <3>2. Status(k) \in Statuses /\ Status(k) # "none"
            BY <3>1 DEF TransportInv, JobInv, CreatedInv, Status, TypeOK, Entry
        <3> QED
            BY <3>1, <3>2 DEF InProgress, Active, Paused, Terminal, Statuses
    <2>4. \A k \in Jobs \ gone : k \in kinds' <=> k \in kinds
        BY <2>1
    <2> HIDE DEF S, gone
    <2> QED
        BY <2>1, <2>2, <2>3, <2>4, DropControl
<1> QED
    BY <1>1, <1>2, <1>3, <1>4

\* A job is paused; a TorBox cancel or pause pumps, which moves no paused row.
LEMMA PauseControl ==
    ASSUME TypeOK, TransportInv, ControlInv, NEW j \in Jobs, PauseJob(j)
    PROVE  ControlInv' /\ \A k \in Jobs : Calm(k)
<1> DEFINE paused == [store EXCEPT ![j].status = "paused"]
           stopped == [transfers EXCEPT ![j] = "paused"]
<1> SUFFICES ASSUME NEW k \in Jobs
             PROVE  ControlAt(k)' /\ Calm(k)
    BY DEF ControlInv
<1>1. JobInv(k) /\ JobInv(j) /\ ControlAt(k) /\ ControlAt(j)
    BY DEF TransportInv, ControlInv
<1>2. paused \in [Jobs -> Entry] /\ stopped \in [Jobs -> Stages]
    BY EntryUpdate DEF TypeOK, Statuses, Stages
<1>3. /\ paused[k].link = store[k].link /\ paused[k].torbox = store[k].torbox
      /\ paused[k].status = IF k = j THEN "paused" ELSE store[k].status
      /\ stopped[k] = IF k = j THEN "paused" ELSE transfers[k]
    BY EntryFields DEF TypeOK
<1>4. /\ rows' = rows /\ kinds' = kinds /\ torboxEnabled' = torboxEnabled
      /\ workers' = workers /\ movers' = movers /\ installs' = installs
      /\ torrents' = torrents /\ replies' = replies
      /\ j \in rows /\ store[j].link # "http" /\ Status(j) \in {"queued", "active"}
    BY <1>2 DEF PauseJob, plugins, installers, transports, InProgress, Active, Paused
<1>5. \/ /\ store[j].link = "plugin"
         /\ store' = paused /\ resolvers' = resolvers /\ transfers' = transfers
         /\ pausedTorrents' = pausedTorrents
      \/ /\ store[j].link # "plugin" /\ ~(store[j].torbox \/ store[j].link = "hydra")
         /\ store' = paused /\ resolvers' = resolvers /\ transfers' = transfers
         /\ pausedTorrents' = pausedTorrents \cup ({j} \cap torrents)
      \/ /\ store[j].torbox \/ store[j].link = "hydra"
         /\ resolvers' = resolvers \ {j}
         /\ \/ transfers[j] = "none" /\ store' = paused /\ transfers' = transfers
            \/ transfers[j] # "none" /\ Pump(paused, stopped)
         /\ pausedTorrents' = pausedTorrents
    BY DEF PauseJob, transports
<1> HIDE DEF paused, stopped
<1>6. /\ store'[k].link = store[k].link /\ store'[k].torbox = store[k].torbox
      /\ k = j => store'[k].status = "paused"
      /\ k # j => \/ transfers'[k] = transfers[k] /\ store'[k].status = store[k].status
                  \/ /\ transfers[k] = "waiting"
                     /\ \/ store[k].status = "none" /\ store'[k].status = "none"
                        \/ store'[k].status = "active" /\ transfers'[k] = "started"
                        \/ store'[k].status = "queued" /\ transfers'[k] = "waiting"
    <2>1. CASE store' = paused /\ transfers' = transfers
        BY <1>3, <2>1
    <2>2. CASE Pump(paused, stopped)
        <3>1. CASE k = j
            BY <1>2, <1>3, <2>2, <3>1, PumpAt
        <3>2. CASE k # j
            BY <1>2, <1>3, <2>2, <3>2, PumpAt
        <3> QED
            BY <3>1, <3>2
    <2> QED
        BY <1>5, <2>1, <2>2
<1>7. CASE k = j
    <2>1. store[j].link # "move" /\ store[j].link # "none"
        BY <1>1, <1>4 DEF JobInv, EntryInv, CreatedInv, Status, Terminal
    <2>2. store[j].link = "plugin" <=> LinkOf[j] = "plugin"
        BY <1>1, <1>4 DEF JobInv, EntryInv, CreatedInv, Status
    <2>3. j \in torrents => store[j].link = "magnet" /\ ~store[j].torbox
        BY <1>1, <1>4 DEF JobInv, HeldInv
    <2>4. PauseInv(k)' /\ UnlistedInv(k)'
        BY <1>1, <1>4, <1>5, <1>6, <1>7, <2>3
           DEF ControlAt, PauseInv, UnlistedInv, Status, Paused
    <2>5. DriveInv(k)'
        BY <1>1, <1>4, <1>5, <1>6, <1>7, <2>1
           DEF JobInv, HeldInv, ControlAt, DriveInv, StaysIdle, Status, Paused
    <2>6. KindInv(k)' /\ LabelInv(k)' /\ Calm(k)
        BY <1>1, <1>4, <1>6, <1>7
           DEF ControlAt, KindInv, LabelInv, Calm, Status, Terminal
    <2> QED
        BY <2>4, <2>5, <2>6 DEF ControlAt
<1>8. CASE k # j
    <2>1. PauseInv(k)' /\ UnlistedInv(k)'
        BY <1>1, <1>4, <1>5, <1>6, <1>8
           DEF JobInv, HeldInv, ControlAt, PauseInv, UnlistedInv, Status, Paused
    <2>2. DriveInv(k)' /\ KindInv(k)'
        BY <1>1, <1>4, <1>5, <1>6, <1>8
           DEF JobInv, HeldInv, ControlAt, DriveInv, KindInv, StaysIdle, Status, Paused
    <2>3. LabelInv(k)'
        BY <1>1, <1>4, <1>6, <1>8 DEF JobInv, HeldInv, ControlAt, LabelInv, Status
    <2>4. Calm(k)
        BY <1>1, <1>4, <1>6, <1>8 DEF JobInv, HeldInv, Calm, Status, Paused, Terminal
    <2> QED
        BY <2>1, <2>2, <2>3, <2>4 DEF ControlAt
<1> QED
    BY <1>7, <1>8

\* Turning TorBox on hands every torrent over, also those it does not start.
LEMMA EnableControl ==
    ASSUME TypeOK, TransportInv, ControlInv, EnableTorBox
    PROVE  ControlInv' /\ \A k \in Jobs : Calm(k)
<1> DEFINE routed == { j \in rows :
                         /\ store[j].link \in {"magnet", "hydra"}
                         /\ ~store[j].torbox
                         /\ InProgress(Status(j))
                         /\ Status(j) \notin {"installing", "moving"} }
           S == {j \in routed : ~Paused(Status(j)) /\ j \notin resolvers}
           r == [ j \in Jobs |-> IF j \in routed
                                 THEN [store[j] EXCEPT !.torbox = TRUE]
                                 ELSE store[j] ]
           handles == torrents \ routed
           tb == TRUE
<1>1. r \in [Jobs -> Entry] /\ S \in SUBSET Jobs /\ handles \in SUBSET torrents
      /\ kinds \in SUBSET Jobs /\ tb \in BOOLEAN
    BY EntryUpdate DEF TypeOK
<1>2. /\ StartDownload(S, r, kinds, tb, handles)
      /\ rows' = rows /\ torboxEnabled' = tb
      /\ workers' = workers /\ movers' = movers /\ installs' = installs
    BY DEF EnableTorBox, plugins, installers
<1>3. ASSUME NEW k \in Jobs
      PROVE  /\ r[k].link = store[k].link /\ r[k].status = store[k].status
             /\ r[k].torbox = IF k \in routed THEN TRUE ELSE store[k].torbox
    BY EntryFields DEF TypeOK
<1>4. \A k \in Jobs : k \in S <=> k \in routed /\ ~Paused(Status(k)) /\ k \notin resolvers
    OBVIOUS
<1>5. \A k \in Jobs : k \in handles <=> k \in torrents /\ k \notin routed
    OBVIOUS
<1>6. \A k \in Jobs : k \in routed <=>
        /\ k \in rows
        /\ store[k].link \in {"magnet", "hydra"} /\ ~store[k].torbox
        /\ Status(k) \in {"queued", "active", "paused"}
    BY DEF InProgress, Active, Paused
<1> HIDE DEF r, S, routed, handles, tb
<1>7. ASSUME NEW k \in S
      PROVE  /\ k \in rows' /\ k \in kinds
             /\ r[k].link \in {"magnet", "http", "hydra"}
             /\ LinkOf[k] \notin {"plugin", "move"}
             /\ r[k].status \in {"queued", "active"}
             /\ r[k].link = "http" => ~r[k].torbox /\ r[k].status = "active"
             /\ "queued" \notin Labels => (r[k].status = "queued" => r[k].torbox)
             /\ k \notin handles
    <2>1. k \in Jobs
        BY <1>1
    <2>2. JobInv(k) /\ ControlAt(k)
        BY <2>1 DEF TransportInv, ControlInv
    <2>3. /\ k \in rows /\ store[k].link \in {"magnet", "hydra"}
          /\ Status(k) \in {"queued", "active"} /\ k \in routed
        BY <1>4, <1>6, <2>1 DEF Paused
    <2>4. LinkOf[k] \notin {"plugin", "move"}
        BY <2>2, <2>3 DEF JobInv, EntryInv, CreatedInv, Status
    <2>5. k \in kinds
        BY <2>2, <2>3 DEF ControlAt, KindInv
    <2>6. k \notin handles
        BY <1>5, <2>1, <2>3
    <2>7. /\ r[k].link = store[k].link /\ r[k].status = Status(k) /\ r[k].torbox = TRUE
        BY <1>3, <2>1, <2>3 DEF Status
    <2> QED
        BY <1>2, <2>3, <2>4, <2>5, <2>6, <2>7
<1>8. ASSUME NEW k \in Jobs \ S
      PROVE  /\ r[k].status = store[k].status /\ r[k].link = store[k].link
             /\ k \in rows' <=> k \in rows
             /\ \/ r[k].torbox = store[k].torbox /\ (k \in torrents => k \in handles)
                \/ /\ r[k].torbox /\ k \notin handles /\ k \in rows
                   /\ store[k].link \in {"magnet", "hydra"}
                   /\ Paused(Status(k)) \/ k \in resolvers
             /\ "queued" \notin Labels /\ tb =>
                    /\ k \notin handles
                    /\ /\ k \in rows /\ store[k].link \in {"magnet", "hydra"}
                       /\ Status(k) \in {"queued", "active", "paused"}
                       => r[k].torbox
    <2>1. JobInv(k) /\ ControlAt(k)
        BY DEF TransportInv, ControlInv
    <2>2. CASE k \in routed
        BY <1>2, <1>3, <1>4, <1>5, <1>6, <2>2
    <2>3. CASE k \notin routed
        <3>1. "queued" \notin Labels => k \notin torrents
            BY <1>6, <2>1, <2>3 DEF JobInv, HeldInv, ControlAt, LabelInv
        <3>2. store[k].torbox \in BOOLEAN
            BY DEF TypeOK, Entry
        <3> QED
            BY <1>2, <1>3, <1>5, <1>6, <2>3, <3>1, <3>2
    <2> QED
        BY <2>2, <2>3
<1>9. ControlInv' /\ \A k \in Jobs \ S : Calm(k)
    BY <1>1, <1>2, <1>7, <1>8, DownloadControl
<1>10. ASSUME NEW k \in S
       PROVE  Calm(k)
    BY <1>1, <1>4, <1>6 DEF Calm, Terminal
<1> QED
    BY <1>9, <1>10

\* A transport gives up a job, finished or failed.
LEMMA EndControl ==
    ASSUME TypeOK, TransportInv, ControlInv, NEW j \in Jobs,
           \/ TorrentLeaves(j) \/ HttpLeaves(j) \/ TorBoxLeaves(j)
           \/ /\ j \in resolvers /\ resolvers' = resolvers \ {j}
              /\ UNCHANGED <<torrents, pausedTorrents, replies, transfers>>,
           Completed(j) \/ Failed(j)
    PROVE  ControlInv' /\ \A k \in Jobs : Calm(k)
<1>1. JobInv(j) /\ ControlAt(j)
    BY DEF TransportInv, ControlInv
<1>2. /\ rows' = rows /\ torboxEnabled' = torboxEnabled
      /\ workers' = workers /\ movers' = movers
      /\ \A k \in Jobs \ {j} : k \in kinds' <=> k \in kinds
      /\ j \notin rows => (j \in kinds' => j \in kinds)
    BY DEF Completed, Failed, plugins, installers
<1>3. PICK s \in {"completed", "installing", "failed"} :
        /\ store' = WithStatus(j, s)
        /\ \/ installs' = installs
           \/ s = "installing" /\ installs' = installs \cup {j} /\ j \in rows
        /\ s = "installing" => j \in installs'
    BY DEF Completed, Failed, installers
<1>4. \A k \in Jobs \ {j} :
        /\ k \in torrents' <=> k \in torrents
        /\ k \in pausedTorrents' <=> k \in pausedTorrents
        /\ k \in replies' <=> k \in replies
        /\ k \in resolvers' <=> k \in resolvers
        /\ transfers'[k] = transfers[k]
        /\ k \in installs' <=> k \in installs
    BY <1>3 DEF TorrentLeaves, HttpLeaves, TorBoxLeaves, TypeOK
<1>5. \/ j \in torrents /\ j \notin torrents' /\ j \notin pausedTorrents'
      \/ /\ torrents' = torrents /\ pausedTorrents' = pausedTorrents
         /\ j \in replies \/ transfers[j] = "started" \/ j \in resolvers
    BY DEF TorrentLeaves, HttpLeaves, TorBoxLeaves
<1>6. s \in Statuses \ {"none"}
    BY DEF Statuses
<1>7. /\ store'[j].link = store[j].link /\ store'[j].torbox = store[j].torbox
      /\ store'[j].status = IF j \in rows THEN s ELSE store[j].status
    BY <1>3, <1>6, WithStatusAt
<1>8. j \notin torrents' /\ j \notin pausedTorrents'
    BY <1>1, <1>5 DEF JobInv, HeldInv, ControlAt, PauseInv
<1>9. j \in rows => /\ Status(j) \in {"queued", "active", "paused"}
                    /\ j \notin workers
    <2>1. j \in rows => store[j].link \notin {"plugin", "move"}
                        /\ Status(j) \in {"queued", "active", "paused"}
        BY <1>1, <1>5 DEF JobInv, HeldInv
    <2> QED
        BY <1>1, <2>1 DEF JobInv, EntryInv, CreatedInv, WorkerInv, Status
<1>10. PauseInv(j)' /\ UnlistedInv(j)' /\ LabelInv(j)'
    BY <1>1, <1>2, <1>7, <1>8
       DEF ControlAt, PauseInv, UnlistedInv, LabelInv, Status
<1>11. DriveInv(j)' /\ KindInv(j)'
    BY <1>1, <1>2, <1>3, <1>7, <1>9 DEF DriveInv, KindInv, Status
<1>12. Calm(j)
    BY <1>2, <1>7, <1>9 DEF Calm, Status, Terminal
<1>13. ControlAt(j)'
    BY <1>10, <1>11 DEF ControlAt
<1>14. ControlInv' /\ \A k \in Jobs \ {j} : Calm(k)
    BY <1>2, <1>3, <1>4, <1>6, <1>13, RowControl
<1> QED
    BY <1>12, <1>14

\* A progress signal of a transport: the label of a paused torrent is "paused".
LEMMA ProgressControl ==
    ASSUME TypeOK, TransportInv, ControlInv, NEW j \in Jobs,
           \/ \E label \in Labels : TorrentProgress(j, label)
           \/ HttpProgress(j) \/ TorBoxProgress(j)
    PROVE  ControlInv' /\ \A k \in Jobs : Calm(k)
<1>1. JobInv(j) /\ ControlAt(j)
    BY DEF TransportInv, ControlInv
<1>2. PICK s \in {"queued", "active", "paused"} :
        /\ Reported(j, s)
        /\ \/ /\ j \in torrents
              /\ s = "paused" <=> Paused(Status(j)) \/ j \in pausedTorrents
              /\ s = "queued" => "queued" \in Labels
           \/ s = "active" /\ (j \in replies \/ transfers[j] = "started")
    BY LabelAssumption DEF TorrentProgress, HttpProgress, TorBoxProgress
<1>3. /\ store' = WithStatus(j, s)
      /\ rows' = rows /\ kinds' = kinds /\ torboxEnabled' = torboxEnabled
      /\ torrents' = torrents /\ pausedTorrents' = pausedTorrents
      /\ replies' = replies /\ resolvers' = resolvers /\ transfers' = transfers
      /\ workers' = workers /\ movers' = movers /\ installs' = installs
    BY <1>2 DEF Reported, transports, plugins, installers
<1>4. s \in Statuses \ {"none"}
    BY DEF Statuses
<1>5. /\ store'[j].link = store[j].link /\ store'[j].torbox = store[j].torbox
      /\ store'[j].status = IF j \in rows THEN s ELSE store[j].status
    BY <1>3, <1>4, WithStatusAt
<1>6. j \in rows => /\ Status(j) \in {"queued", "active", "paused"}
                    /\ s = "paused" <=> Paused(Status(j))
    BY <1>1, <1>2 DEF JobInv, HeldInv, ControlAt, PauseInv, Paused
<1>7. PauseInv(j)' /\ UnlistedInv(j)'
    BY <1>1, <1>3, <1>5, <1>6 DEF ControlAt, PauseInv, UnlistedInv, Status, Paused
<1>8. DriveInv(j)' /\ KindInv(j)'
    BY <1>1, <1>2, <1>3, <1>5, <1>6 DEF ControlAt, DriveInv, KindInv, Status
<1>9. LabelInv(j)'
    BY <1>1, <1>2, <1>3, <1>5, <1>6 DEF ControlAt, LabelInv, Status
<1>10. Calm(j)
    BY <1>3, <1>5, <1>6 DEF Calm, Status, Terminal, Paused
<1>11. ControlAt(j)'
    BY <1>7, <1>8, <1>9 DEF ControlAt
<1>12. ControlInv' /\ \A k \in Jobs \ {j} : Calm(k)
    BY <1>3, <1>4, <1>11, RowControl
<1> QED
    BY <1>10, <1>12

\* HydraCatalogClient::resolved, with a magnet or a direct link.
LEMMA LinkControl ==
    ASSUME TypeOK, TransportInv, ControlInv, NEW j \in Jobs,
           NEW link \in {"magnet", "http"}, LinkResolved(j, link)
    PROVE  ControlInv' /\ \A k \in Jobs : Calm(k)
<1> DEFINE r == Found(j, link)
           S == {j}
           handles == torrents
<1>1. JobInv(j) /\ ControlAt(j)
    BY DEF TransportInv, ControlInv
<1>2. /\ j \in rows /\ store[j].link = "hydra" /\ Status(j) = "active"
      /\ j \notin torrents /\ j \in kinds
    BY <1>1 DEF LinkResolved, JobInv, HeldInv, ControlAt, KindInv
<1>3. LinkOf[j] \notin {"plugin", "move"}
    BY <1>1, <1>2 DEF JobInv, EntryInv, CreatedInv, Status
<1>4. /\ StartDownload(S, r, kinds, torboxEnabled, handles)
      /\ rows' = rows /\ torboxEnabled' = torboxEnabled
      /\ workers' = workers /\ movers' = movers /\ installs' = installs
    BY <1>2 DEF LinkResolved, Found, plugins, installers, Terminal, Paused
<1>5. /\ r \in [Jobs -> Entry] /\ S \in SUBSET Jobs /\ kinds \in SUBSET Jobs
      /\ torboxEnabled \in BOOLEAN /\ handles \in SUBSET torrents
    BY FoundEntry DEF TypeOK
<1>6. /\ r[j].link = link /\ r[j].status = "active"
      /\ r[j].link = "http" => ~r[j].torbox
    BY <1>2, FoundEntry DEF TypeOK, Status
<1>7. \A k \in S :
        /\ k \in rows' /\ k \in kinds
        /\ r[k].link \in {"magnet", "http", "hydra"}
        /\ LinkOf[k] \notin {"plugin", "move"}
        /\ r[k].status \in {"queued", "active"}
        /\ r[k].link = "http" => ~r[k].torbox /\ r[k].status = "active"
        /\ "queued" \notin Labels => (r[k].status = "queued" => r[k].torbox)
        /\ k \notin handles
    BY <1>2, <1>3, <1>4, <1>6
<1>8. \A k \in Jobs \ S : r[k] = store[k] /\ (k \in rows' <=> k \in rows)
    BY <1>4, FoundEntry DEF TypeOK
<1> HIDE DEF r, S
<1>9. ControlInv' /\ \A k \in Jobs \ S : Calm(k)
    BY <1>4, <1>5, <1>7, <1>8, RoutedAlready, DownloadControl
<1>10. Calm(j)
    BY <1>2 DEF Calm, Terminal, Paused
<1> QED
    BY <1>9, <1>10 DEF S

\* The plugin, the copy worker or the installer reports.
LEMMA WorkerControl ==
    ASSUME TypeOK, TransportInv, ControlInv, WorkerStep
    PROVE  ControlInv' /\ \A k \in Jobs : Calm(k)
<1>1. ASSUME NEW j \in Jobs, NEW t \in {"active", "installing", "paused"},
             PluginProgress(j, t)
      PROVE  ControlInv' /\ \A k \in Jobs : Calm(k)
    <2>1. JobInv(j) /\ ControlAt(j)
        BY DEF TransportInv, ControlInv
    <2>2. PICK s \in {"active", "installing", "paused"} :
            /\ store' = WithStatus(j, s)
            /\ rows' = rows /\ kinds' = kinds /\ torboxEnabled' = torboxEnabled
            /\ torrents' = torrents /\ pausedTorrents' = pausedTorrents
            /\ replies' = replies /\ resolvers' = resolvers
            /\ transfers' = transfers
            /\ workers' = workers /\ movers' = movers /\ installs' = installs
            /\ j \in workers /\ (j \in rows => ~Terminal(Status(j)))
        BY <1>1 DEF PluginProgress, Reported, transports, plugins, installers
    <2>3. s \in Statuses \ {"none"}
        BY DEF Statuses
    <2>4. /\ store'[j].link = store[j].link /\ store'[j].torbox = store[j].torbox
          /\ store'[j].status = IF j \in rows THEN s ELSE store[j].status
        BY <2>2, <2>3, WithStatusAt
    <2>5. LinkOf[j] = "plugin" /\ (j \in rows => store[j].link = "plugin")
        BY <2>1, <2>2 DEF JobInv, EntryInv, WorkerInv, CreatedInv, Status
    <2>6. PauseInv(j)' /\ UnlistedInv(j)' /\ LabelInv(j)'
        BY <2>1, <2>2, <2>4, <2>5
           DEF ControlAt, PauseInv, UnlistedInv, LabelInv, Status
    <2>7. DriveInv(j)' /\ KindInv(j)'
        BY <2>1, <2>2, <2>4, <2>5 DEF ControlAt, DriveInv, KindInv, Status
    <2>8. Calm(j)
        BY <2>2, <2>5 DEF Calm
    <2>9. ControlAt(j)'
        BY <2>6, <2>7 DEF ControlAt
    <2>10. ControlInv' /\ \A k \in Jobs \ {j} : Calm(k)
        BY <2>2, <2>3, <2>9, RowControl
    <2> QED
        BY <2>8, <2>10
<1>2. ASSUME NEW j \in Jobs, NEW s \in {"completed", "failed"}, PluginReturns(j, s)
      PROVE  ControlInv' /\ \A k \in Jobs : Calm(k)
    <2>1. JobInv(j) /\ ControlAt(j)
        BY DEF TransportInv, ControlInv
    <2>2. /\ store' = WithStatus(j, s)
          /\ rows' = rows /\ torboxEnabled' = torboxEnabled
          /\ kinds' = IF j \in rows THEN kinds \ {j} ELSE kinds
          /\ torrents' = torrents /\ pausedTorrents' = pausedTorrents
          /\ replies' = replies /\ resolvers' = resolvers
          /\ transfers' = transfers
          /\ workers' = workers \ {j} /\ movers' = movers /\ installs' = installs
          /\ j \in workers
        BY <1>2 DEF PluginReturns, transports, installers
    <2>3. s \in Statuses \ {"none"}
        BY DEF Statuses
    <2>4. /\ store'[j].link = store[j].link /\ store'[j].torbox = store[j].torbox
          /\ store'[j].status = IF j \in rows THEN s ELSE store[j].status
        BY <2>2, <2>3, WithStatusAt
    <2>5. LinkOf[j] = "plugin"
        BY <2>1, <2>2 DEF JobInv, WorkerInv
    <2>6. PauseInv(j)' /\ UnlistedInv(j)' /\ LabelInv(j)'
        BY <2>1, <2>2, <2>4, <2>5
           DEF ControlAt, PauseInv, UnlistedInv, LabelInv, Status
    <2>7. DriveInv(j)' /\ KindInv(j)'
        BY <2>2, <2>4 DEF DriveInv, KindInv, Status
    <2>8. Calm(j)
        BY <2>2, <2>4, <2>5 DEF Calm, Terminal
    <2>9. ControlAt(j)'
        BY <2>6, <2>7 DEF ControlAt
    <2>10. \A k \in Jobs \ {j} : /\ k \in workers' <=> k \in workers
                                 /\ k \in kinds' <=> k \in kinds
        BY <2>2
    <2>11. ControlInv' /\ \A k \in Jobs \ {j} : Calm(k)
        BY <2>2, <2>3, <2>9, <2>10, RowControl
    <2> QED
        BY <2>8, <2>11
<1>3. ASSUME NEW j \in Jobs, NEW s \in {"completed", "failed"}, MoveReturns(j, s)
      PROVE  ControlInv' /\ \A k \in Jobs : Calm(k)
    <2> SUFFICES ASSUME NEW k \in Jobs
                 PROVE  ControlAt(k)' /\ Calm(k)
        BY DEF ControlInv
    <2>1. JobInv(k) /\ ControlAt(k)
        BY DEF TransportInv, ControlInv
    <2>2. /\ rows' = rows /\ kinds' = kinds /\ torboxEnabled' = torboxEnabled
          /\ torrents' = torrents /\ pausedTorrents' = pausedTorrents
          /\ replies' = replies /\ resolvers' = resolvers
          /\ transfers' = transfers
          /\ workers' = workers /\ movers' = movers \ {j} /\ installs' = installs
          /\ j \in movers
        BY <1>3 DEF MoveReturns, transports, plugins, installers
    <2>3. IF k = j THEN /\ store'[k].link = "move" /\ store'[k].status = s
                        /\ store'[k].torbox = FALSE
                   ELSE store'[k] = store[k]
        BY <1>3 DEF MoveReturns, TypeOK
    <2>4. CASE k # j
        <3>1. PauseInv(k)' /\ UnlistedInv(k)' /\ Calm(k)
            BY <2>1, <2>2, <2>3, <2>4
               DEF ControlAt, PauseInv, UnlistedInv, Calm, Status, Paused
        <3>2. DriveInv(k)' /\ KindInv(k)' /\ LabelInv(k)'
            BY <2>1, <2>2, <2>3, <2>4
               DEF ControlAt, DriveInv, KindInv, LabelInv, StaysIdle, Status
        <3> QED
            BY <3>1, <3>2 DEF ControlAt
    <2>5. CASE k = j
        <3>1. LinkOf[k] = "move" /\ k \notin torrents /\ k \notin workers
            BY <2>1, <2>2, <2>5 DEF JobInv, WorkerInv, ControlAt, PauseInv
        <3>2. PauseInv(k)' /\ UnlistedInv(k)' /\ LabelInv(k)' /\ Calm(k)
            BY <2>1, <2>2, <2>3, <2>5, <3>1
               DEF ControlAt, PauseInv, UnlistedInv, LabelInv, Calm, Status, Terminal
        <3>3. DriveInv(k)' /\ KindInv(k)'
            BY <2>2, <2>3, <2>5, <3>1 DEF DriveInv, KindInv, Status
        <3> QED
            BY <3>2, <3>3 DEF ControlAt
    <2> QED
        BY <2>4, <2>5
<1>4. ASSUME NEW j \in Jobs, NEW s \in {"completed", "installFailed"},
             InstallReturns(j, s)
      PROVE  ControlInv' /\ \A k \in Jobs : Calm(k)
    <2>1. JobInv(j) /\ ControlAt(j)
        BY DEF TransportInv, ControlInv
    <2>2. /\ store' = WithStatus(j, s)
          /\ rows' = rows /\ kinds' = kinds /\ torboxEnabled' = torboxEnabled
          /\ torrents' = torrents /\ pausedTorrents' = pausedTorrents
          /\ replies' = replies /\ resolvers' = resolvers
          /\ transfers' = transfers
          /\ workers' = workers /\ movers' = movers /\ installs' = installs \ {j}
          /\ j \in installs
        BY <1>4 DEF InstallReturns, transports, plugins
    <2>3. s \in Statuses \ {"none"}
        BY DEF Statuses
    <2>4. /\ store'[j].link = store[j].link /\ store'[j].torbox = store[j].torbox
          /\ store'[j].status = IF j \in rows THEN s ELSE store[j].status
        BY <2>2, <2>3, WithStatusAt
    <2>5. j \in rows => /\ Status(j) = "installing" /\ j \notin workers
                        /\ j \notin torrents
        BY <2>1, <2>2 DEF JobInv, WorkerInv, HeldInv
    <2>6. PauseInv(j)' /\ UnlistedInv(j)' /\ LabelInv(j)'
        BY <2>1, <2>2, <2>4, <2>5
           DEF ControlAt, PauseInv, UnlistedInv, LabelInv, Status
    <2>7. DriveInv(j)' /\ KindInv(j)' /\ Calm(j)
        BY <2>2, <2>4, <2>5 DEF DriveInv, KindInv, Calm, Status, Terminal, Paused
    <2>8. ControlAt(j)'
        BY <2>6, <2>7 DEF ControlAt
    <2>9. \A k \in Jobs \ {j} : k \in installs' <=> k \in installs
        BY <2>2
    <2>10. ControlInv' /\ \A k \in Jobs \ {j} : Calm(k)
        BY <2>2, <2>3, <2>8, <2>9, RowControl
    <2> QED
        BY <2>7, <2>10
<1> QED
    BY <1>1, <1>2, <1>3, <1>4 DEF WorkerStep

\* TorBoxPump, from its zero timer.
LEMMA PumpControl ==
    ASSUME TypeOK, TransportInv, ControlInv, TorBoxPump
    PROVE  ControlInv' /\ \A k \in Jobs : Calm(k)
<1> SUFFICES ASSUME NEW k \in Jobs
             PROVE  ControlAt(k)' /\ Calm(k)
    BY DEF ControlInv
<1>1. JobInv(k) /\ ControlAt(k)
    BY DEF TransportInv, ControlInv
<1>2. /\ Pump(store, transfers)
      /\ rows' = rows /\ kinds' = kinds /\ torboxEnabled' = torboxEnabled
      /\ torrents' = torrents /\ pausedTorrents' = pausedTorrents
      /\ replies' = replies /\ resolvers' = resolvers
      /\ workers' = workers /\ movers' = movers /\ installs' = installs
    BY DEF TorBoxPump, plugins, installers
<1>3. /\ store'[k].link = store[k].link /\ store'[k].torbox = store[k].torbox
      /\ \/ transfers'[k] = transfers[k] /\ store'[k].status = store[k].status
         \/ /\ transfers[k] = "waiting" /\ store[k].status \in {"queued", "active"}
            /\ k \in rows /\ store[k].link = "magnet" /\ store[k].torbox
            /\ \/ store'[k].status = "active" /\ transfers'[k] = "started"
               \/ store'[k].status = "queued" /\ transfers'[k] = "waiting"
    <2>1. /\ store'[k].link = store[k].link /\ store'[k].torbox = store[k].torbox
          /\ \/ transfers'[k] = transfers[k] /\ store'[k].status = store[k].status
             \/ /\ transfers[k] = "waiting"
                /\ \/ store[k].status = "none"
                   \/ store'[k].status = "active" /\ transfers'[k] = "started"
                   \/ store'[k].status = "queued" /\ transfers'[k] = "waiting"
        BY <1>2, PumpAt DEF TypeOK
    <2>2. transfers[k] = "waiting" =>
            /\ store[k].status \in {"queued", "active"} /\ k \in rows
            /\ store[k].link = "magnet" /\ store[k].torbox
        BY <1>1 DEF JobInv, HeldInv, Status, Paused
    <2> QED
        BY <2>1, <2>2
<1>4. PauseInv(k)' /\ UnlistedInv(k)'
    BY <1>1, <1>2, <1>3
       DEF JobInv, HeldInv, ControlAt, PauseInv, UnlistedInv, Status, Paused
<1>5. DriveInv(k)' /\ KindInv(k)'
    BY <1>1, <1>2, <1>3 DEF ControlAt, DriveInv, KindInv, StaysIdle, Status, Paused
<1>6. LabelInv(k)' /\ Calm(k)
    BY <1>1, <1>2, <1>3 DEF ControlAt, LabelInv, Calm, Status, Paused, Terminal
<1> QED
    BY <1>4, <1>5, <1>6 DEF ControlAt

\* Nothing that ControlInv reads has changed.
LEMMA StutterControl ==
    ASSUME ControlInv,
           UNCHANGED <<store, rows, kinds, transports, workers, movers, installs>>,
           torboxEnabled' => torboxEnabled
    PROVE  ControlInv' /\ \A k \in Jobs : Calm(k)
<1> SUFFICES ASSUME NEW k \in Jobs
             PROVE  ControlAt(k)' /\ Calm(k)
    BY DEF ControlInv
<1>1. ControlAt(k)
    BY DEF ControlInv
<1>2. PauseInv(k)' /\ UnlistedInv(k)' /\ DriveInv(k)'
    BY <1>1 DEF ControlAt, PauseInv, UnlistedInv, DriveInv, StaysIdle, Status, transports
<1>3. KindInv(k)' /\ Calm(k)
    BY <1>1 DEF ControlAt, KindInv, Calm, Status, Paused
<1>4. LabelInv(k)'
    BY <1>1 DEF ControlAt, LabelInv, Status, transports
<1> QED
    BY <1>2, <1>3, <1>4 DEF ControlAt

--------------------------------------------------------------------------------
(***************************************************************************)
(* The steps of the specification                                          *)
(***************************************************************************)

\* The job a user brings back by hand.
Revived(k) ==
    \/ ResumeJob(k)
    \/ RetryDownload(k) \/ RetryPluginDownload(k) \/ RetryInstall(k)

\* Nothing is driven before anything is there.
LEMMA ControlInitial ==
    ASSUME Init
    PROVE  ControlInv
BY DEF Init, ControlInv, ControlAt, PauseInv, UnlistedInv, DriveInv, KindInv, LabelInv,
       NoEntry, Status

\* ControlInv is inductive relative to TypeOK and TransportInv, and every step but
\* a crash is calm for the jobs the user does not bring back.
LEMMA ControlStep ==
    ASSUME TypeOK, TransportInv, ControlInv, [Next]_vars
    PROVE  /\ ControlInv'
           /\ \A k \in Jobs : \/ Calm(k) \/ Revived(k)
                              \/ Crash /\ RestoredAt(k, disk[k])
<1>1. ASSUME NEW j \in Jobs,
             CreateDownload(j) \/ CreatePluginDownload(j) \/ CreateMove(j)
      PROVE  ControlInv' /\ \A k \in Jobs : Calm(k)
    BY <1>1, CreateControl
<1>2. CASE \/ \E j \in Jobs : CancelJob(j)
           \/ \E S \in SUBSET rows : RemoveFinished(S)
           \/ ClearFinished
           \/ \E e \in Entries : RemoveGame(e)
    BY <1>2, DropsControl
<1>3. ASSUME NEW j \in Jobs, PauseJob(j)
      PROVE  ControlInv' /\ \A k \in Jobs : Calm(k)
    BY <1>3, PauseControl
<1>4. ASSUME NEW j \in Jobs, Revived(j)
      PROVE  ControlInv' /\ \A k \in Jobs : Calm(k) \/ Revived(k)
    BY <1>4, ResumeControl, RetryControl DEF Revived
<1>5. CASE EnableTorBox
    BY <1>5, EnableControl
<1>6. CASE DisableTorBox
    BY <1>6, StutterControl DEF DisableTorBox, records, plugins, installers
<1>7. ASSUME NEW j \in Jobs,
             \/ \E label \in Labels : TorrentProgress(j, label)
             \/ HttpProgress(j) \/ TorBoxProgress(j)
      PROVE  ControlInv' /\ \A k \in Jobs : Calm(k)
    BY <1>7, ProgressControl
<1>8. ASSUME NEW j \in Jobs,
             \/ TorrentFinished(j) \/ TorrentFailed(j)
             \/ HttpFinished(j) \/ HttpFailed(j)
             \/ TorBoxFinished(j) \/ TorBoxFailed(j)
             \/ LinkFailed(j)
      PROVE  ControlInv' /\ \A k \in Jobs : Calm(k)
    <2>1. /\ \/ TorrentLeaves(j) \/ HttpLeaves(j) \/ TorBoxLeaves(j)
             \/ /\ j \in resolvers /\ resolvers' = resolvers \ {j}
                /\ UNCHANGED <<torrents, pausedTorrents, replies, transfers>>
          /\ Completed(j) \/ Failed(j)
        BY <1>8 DEF TorrentFinished, TorrentFailed, HttpFinished, HttpFailed,
                    TorBoxFinished, TorBoxFailed, LinkFailed
    <2> QED
        BY <2>1, EndControl
<1>9. ASSUME NEW j \in Jobs, NEW link \in {"magnet", "http"}, LinkResolved(j, link)
      PROVE  ControlInv' /\ \A k \in Jobs : Calm(k)
    BY <1>9, LinkControl
<1>10. CASE WorkerStep
    BY <1>10, WorkerControl
<1>11. CASE TorBoxPump
    BY <1>11, PumpControl
<1>12. CASE PersistTick
    BY <1>12, StutterControl DEF PersistTick, plugins, installers
<1>13. CASE Crash
    <2>1. \A k \in Jobs : EntryInv(k, disk[k])
        BY DEF TransportInv, JobInv
    <2>2. Restart(disk) /\ disk \in [Jobs -> Entry]
        BY <1>13 DEF Crash, TypeOK
    <2> QED
        BY <1>13, <2>1, <2>2, RestartControl
<1>14. CASE Quit
    <2> DEFINE found == [j \in Jobs |-> IF j \in rows THEN store[j] ELSE NoEntry]
    <2>1. found \in [Jobs -> Entry]
        BY NoEntryType DEF TypeOK
    <2>2. \A k \in Jobs : EntryInv(k, found[k])
        BY DEF TransportInv, JobInv, EntryInv, NoEntry
    <2>3. \A k \in Jobs : k \in rows => found[k] = store[k]
        OBVIOUS
    <2> HIDE DEF found
    <2>4. Restart(found)
        BY <1>14 DEF Quit, found
    <2>5. ControlInv' /\ \A k \in Jobs : RestoredAt(k, found[k])
        BY <2>1, <2>2, <2>4, RestartControl
    <2>6. \A k \in Jobs : Calm(k)
        BY <2>3, <2>5 DEF RestoredAt, Calm, Status
    <2> QED
        BY <2>5, <2>6
<1>15. CASE UNCHANGED vars
    BY <1>15, StutterControl DEF vars, records, plugins, installers
<1>16. CASE UserStep
    BY <1>1, <1>2, <1>3, <1>4, <1>5, <1>6, <1>16 DEF UserStep, Revived
<1>17. CASE TransportStep
    BY <1>7, <1>8, <1>9, <1>17 DEF TransportStep
<1> QED
    BY <1>10, <1>11, <1>12, <1>13, <1>14, <1>15, <1>16, <1>17 DEF Next

\* In every behaviour what a row says is what happens: the invariant the theorems
\* below are read off.
THEOREM ControlCorrect == Spec => []ControlInv
<1>1. Init => ControlInv
    BY ControlInitial
<1>2. TypeOK /\ TransportInv /\ ControlInv /\ [Next]_vars => ControlInv'
    BY ControlStep
<1> QED
    BY <1>1, <1>2, TypeCorrect, TransportCorrect, PTL DEF Spec

\* A row in progress always has something that moves it, for every set of jobs:
\* no handler (a cancel, a pause, a switch to TorBox, a restart) leaves one that
\* nothing will ever end.
THEOREM DrivenHolds == Spec => []Driven
<1>1. TypeOK /\ ControlInv => Driven
    <2> SUFFICES ASSUME TypeOK, ControlInv
                 PROVE  Driven
        OBVIOUS
    <2>1. \A j \in rows : j \in Jobs /\ DriveInv(j)
        BY DEF TypeOK, ControlInv, ControlAt
    <2> QED
        BY <2>1 DEF DriveInv, Driven
<1> QED
    BY <1>1, TypeCorrect, ControlCorrect, PTL

\* The same, and the kind of every job a transport or a worker can still finish is
\* recorded, so that onTorrentFinished never takes an update for an installation.
THEOREM DirectDrivenHolds == Spec => []DirectDriven
<1>1. TypeOK /\ TransportInv /\ ControlInv => KindKnown
    <2> SUFFICES ASSUME TypeOK, TransportInv, ControlInv, NEW j \in rows,
                        \/ j \in torrents \cup replies \cup resolvers \cup workers
                        \/ transfers[j] # "none"
                 PROVE  j \in kinds
        BY DEF KindKnown
    <2>1. j \in Jobs
        BY DEF TypeOK
    <2>2. HeldInv(j) /\ KindInv(j)
        BY <2>1 DEF TransportInv, JobInv, ControlInv, ControlAt
    <2> QED
        BY <2>2 DEF HeldInv, KindInv
<1> QED
    BY <1>1, DrivenHolds, TypeCorrect, TransportCorrect, ControlCorrect, PTL
       DEF DirectDriven

\* A torrent is paused exactly when its row says so: after a pause, a resume, a
\* late progress signal and a restart.
THEOREM PauseAgreesHolds == Spec => []PauseAgrees
<1>1. TypeOK /\ ControlInv => PauseAgrees
    BY DEF TypeOK, ControlInv, ControlAt, PauseInv, PauseAgrees
<1> QED
    BY <1>1, TypeCorrect, ControlCorrect, PTL

\* Unless libtorrent reports a torrent as queued, a handle always belongs to a
\* listed, unfinished peer download: nothing goes on downloading unseen.
THEOREM TorrentOwnedHolds ==
    ASSUME "queued" \notin Labels
    PROVE  Spec => []TorrentOwned
<1>1. TypeOK /\ TransportInv /\ ControlInv => TorrentOwned
    <2> SUFFICES ASSUME TypeOK, TransportInv, ControlInv, NEW j \in torrents
                 PROVE  /\ j \in rows
                        /\ store[j].link = "magnet" /\ ~store[j].torbox
                        /\ Status(j) \in {"queued", "active", "paused"}
        BY DEF TorrentOwned
    <2>1. j \in Jobs
        BY DEF TypeOK
    <2>2. HeldInv(j) /\ LabelInv(j)
        BY <2>1 DEF TransportInv, JobInv, ControlInv, ControlAt
    <2> QED
        BY <2>2 DEF HeldInv, LabelInv
<1> QED
    BY <1>1, TypeCorrect, TransportCorrect, ControlCorrect, PTL

\* docs/torbox-hydra.md, with the same proviso: while TorBox is enabled no peer
\* transfer is left, and every unfinished torrent job that is not being installed
\* is a TorBox job.
THEOREM TorBoxRoutingHolds ==
    ASSUME "queued" \notin Labels
    PROVE  Spec => []TorBoxRouting
<1>1. TypeOK /\ TransportInv /\ ControlInv => TorBoxRouting
    <2> SUFFICES ASSUME TypeOK, TransportInv, ControlInv, torboxEnabled
                 PROVE  /\ torrents = {}
                        /\ \A j \in rows :
                            /\ InProgress(Status(j)) /\ Status(j) # "installing"
                            /\ store[j].link \in {"magnet", "hydra"}
                            => store[j].torbox
        BY DEF TorBoxRouting
    <2>1. torrents \subseteq Jobs /\ rows \subseteq Jobs
        BY DEF TypeOK
    <2>2. torrents = {}
        BY <2>1, RoutedAlready
    <2>3. ASSUME NEW j \in rows,
                 InProgress(Status(j)), Status(j) # "installing",
                 store[j].link \in {"magnet", "hydra"}
          PROVE  store[j].torbox
        <3>1. JobInv(j) /\ ControlAt(j)
            BY <2>1 DEF TransportInv, ControlInv
        <3>2. Status(j) # "moving"
            BY <2>3, <3>1 DEF JobInv, EntryInv, CreatedInv, WorkerInv, ControlAt,
                              DriveInv, Status
        <3> QED
            BY <2>1, <2>3, <3>2, RoutedAlready DEF InProgress, Active, Paused
    <2> QED
        BY <2>2, <2>3
<1> QED
    BY <1>1, TypeCorrect, TransportCorrect, ControlCorrect, PTL

\* Only the user brings a download back: of all handlers only the resume of a job
\* makes a paused one run, and only a retry makes a finished one live.  A crash may
\* undo a pause or an end that had not been saved.
THEOREM UserRevivesHolds == Spec => UserRevives
<1>1. TypeOK /\ TransportInv /\ ControlInv /\ [Next]_vars =>
        [ \A j \in rows \cap rows' :
            /\ LinkOf[j] # "plugin" /\ Paused(Status(j))
               /\ store'[j].status \in {"queued", "active"} =>
               ResumeJob(j) \/ (~Paused(disk[j].status) /\ Crash)
            /\ Terminal(Status(j)) /\ ~Terminal(store'[j].status) =>
               \/ RetryDownload(j) \/ RetryPluginDownload(j) \/ RetryInstall(j)
               \/ ~Terminal(disk[j].status) /\ Crash ]_vars
    <2> SUFFICES ASSUME TypeOK, TransportInv, ControlInv, [Next]_vars,
                        NEW j \in rows \cap rows'
                 PROVE  /\ LinkOf[j] # "plugin" /\ Paused(Status(j))
                           /\ store'[j].status \in {"queued", "active"} =>
                           ResumeJob(j) \/ (~Paused(disk[j].status) /\ Crash)
                        /\ Terminal(Status(j)) /\ ~Terminal(store'[j].status) =>
                           \/ RetryDownload(j) \/ RetryPluginDownload(j)
                           \/ RetryInstall(j)
                           \/ ~Terminal(disk[j].status) /\ Crash
        OBVIOUS
    <2>1. j \in Jobs
        BY DEF TypeOK
    <2>2. \/ Calm(j) \/ Revived(j)
          \/ Crash /\ RestoredAt(j, disk[j])
        BY <2>1, ControlStep
    <2>3. CASE Calm(j)
        BY <2>3 DEF Calm
    <2>4. CASE Revived(j)
        <3>1. RetryDownload(j) \/ RetryPluginDownload(j) \/ RetryInstall(j)
              => ~Paused(Status(j))
            BY DEF RetryDownload, RetryPluginDownload, RetryInstall, Retryable,
                   Installable, Paused
        <3>2. ResumeJob(j) => ~Terminal(Status(j))
            BY DEF ResumeJob, Paused, Terminal
        <3> QED
            BY <2>4, <3>1, <3>2 DEF Revived
    <2>5. CASE Crash /\ RestoredAt(j, disk[j])
        BY <2>5 DEF RestoredAt
    <2> QED
        BY <2>2, <2>3, <2>4, <2>5
<1> QED
    BY <1>1, TypeCorrect, TransportCorrect, ControlCorrect, PTL DEF Spec, UserRevives

--------------------------------------------------------------------------------
(***************************************************************************)
(* The orchestrator implements the durable ledger, for every set of jobs   *)
(* without a library move.                                                 *)
(*                                                                         *)
(* With moves it does not: the end of a move writes its entry back to the  *)
(* store although its row has been removed, and the next save makes it     *)
(* durable, so a dropped job comes back with the next start.               *)
(***************************************************************************)

\* What the refinement mapping makes of the state.
LedgerNow   == [j \in Jobs |-> Phase(j, j \in rows, store[j])]
LedgerSaved == [j \in Jobs |-> Phase(j, disk[j].status # "none", disk[j])]

\* A step of the ledger, or none.
LedgerStep == Ledger!Next \/ UNCHANGED <<LedgerNow, LedgerSaved>>

\* A listed job is one with an entry, when nothing is moved.
LEMMA ListedHasEntry ==
    ASSUME TypeOK, TransportInv, ControlInv, NEW k \in Jobs, LinkOf[k] # "move"
    PROVE  /\ k \in rows <=> store[k].status # "none"
           /\ k \in rows => k \in created
           /\ disk[k].status # "none" => k \in created
<1>1. JobInv(k) /\ UnlistedInv(k)
    BY DEF TransportInv, ControlInv, ControlAt
<1> QED
    BY <1>1 DEF JobInv, EntryInv, CreatedInv, UnlistedInv, Status

--------------------------------------------------------------------------------
(***************************************************************************)
(* The shapes of handlers                                                  *)
(***************************************************************************)

\* A handler that lists and drops no job, saves nothing, and ends or revives at
\* most one.
LEMMA OneTurns ==
    ASSUME TypeOK, TransportInv, NEW j \in Jobs,
           rows' = rows, created' = created, disk' = disk,
           \A k \in rows \ {j} : Terminal(store'[k].status) <=> Terminal(Status(k))
    PROVE  LedgerStep
<1>1. LedgerSaved' = LedgerSaved
    BY DEF LedgerSaved, Phase
<1>2. \A k \in Jobs \ {j} : LedgerNow'[k] = LedgerNow[k]
    BY DEF LedgerNow, Phase, Status
<1>3. j \in rows => j \in created
    BY DEF TransportInv, JobInv, CreatedInv
<1>4. /\ LedgerNow \in [Jobs -> {"new", "gone", "over", "live"}]
      /\ LedgerNow' \in [Jobs -> {"new", "gone", "over", "live"}]
    BY DEF LedgerNow, Phase
<1>5. CASE LedgerNow'[j] = LedgerNow[j]
    <2>1. LedgerNow' = LedgerNow
        BY <1>2, <1>4, <1>5
    <2> QED
        BY <1>1, <2>1 DEF LedgerStep
<1>6. CASE LedgerNow'[j] # LedgerNow[j]
    <2>1. \/ LedgerNow[j] = "live" /\ LedgerNow'[j] = "over"
          \/ LedgerNow[j] = "over" /\ LedgerNow'[j] = "live"
        BY <1>3, <1>6 DEF LedgerNow, Phase
    <2>2. \/ /\ LedgerNow[j] = "live"
             /\ LedgerNow' = [LedgerNow EXCEPT ![j] = "over"]
          \/ /\ LedgerNow[j] = "over"
             /\ LedgerNow' = [LedgerNow EXCEPT ![j] = "live"]
        BY <1>2, <1>4, <2>1
    <2>3. Ledger!End(j) \/ Ledger!Revive(j)
        BY <1>1, <2>2 DEF Ledger!End, Ledger!Revive, LedgerNow, LedgerSaved
    <2> QED
        BY <2>3 DEF LedgerStep, Ledger!Next
<1> QED
    BY <1>5, <1>6

\* A handler that lists a new job.
LEMMA OneBegins ==
    ASSUME TypeOK, TransportInv, NEW j \in Jobs, j \notin created,
           created' = created \cup {j}, rows' = rows \cup {j}, disk' = disk,
           \A k \in Jobs \ {j} : store'[k] = store[k]
    PROVE  LedgerStep
<1>1. \A k \in Jobs \ {j} : LedgerNow'[k] = LedgerNow[k]
    BY DEF LedgerNow, Phase
<1>2. /\ LedgerNow[j] = "new"
      /\ LedgerNow'[j] \in {"live", "over"}
    BY DEF LedgerNow, Phase
<1>3. disk[j].status = "none"
    BY DEF TransportInv, JobInv, EntryInv
<1>4. LedgerSaved' = [LedgerSaved EXCEPT ![j] = "gone"]
    BY <1>3 DEF LedgerSaved, Phase
<1>5. /\ LedgerNow \in [Jobs -> {"new", "gone", "over", "live"}]
      /\ LedgerNow' \in [Jobs -> {"new", "gone", "over", "live"}]
    BY DEF LedgerNow, Phase
<1>6. LedgerNow' \in {[LedgerNow EXCEPT ![j] = p] : p \in {"live", "over"}}
    <2>1. LedgerNow' = [LedgerNow EXCEPT ![j] = LedgerNow'[j]]
        BY <1>1, <1>5
    <2> QED
        BY <1>2, <2>1
<1>7. Ledger!Begin(j)
    BY <1>2, <1>4, <1>6 DEF Ledger!Begin, LedgerNow, LedgerSaved
<1> QED
    BY <1>7 DEF LedgerStep, Ledger!Next

\* A handler that drops the rows of gone and saves at once.
LEMMA SomeDropped ==
    ASSUME TypeOK, TransportInv, ControlInv, \A j \in Jobs : LinkOf[j] # "move",
           TypeOK', TransportInv', ControlInv',
           NEW gone,
           rows' = rows \ gone, created' = created, disk' = store',
           \A k \in rows \ gone : Terminal(store'[k].status) <=> Terminal(Status(k))
    PROVE  LedgerStep
<1> DEFINE S == rows \cap gone
<1>1. S \in SUBSET Jobs /\ rows \subseteq Jobs
    BY DEF TypeOK
<1>2. \A k \in Jobs : k \in rows => k \in created
    BY ListedHasEntry
<1>3. \A k \in Jobs : k \in rows' <=> store'[k].status # "none"
    BY DEF TransportInv, ControlInv, ControlAt, JobInv, CreatedInv, UnlistedInv, Status
<1>4. \A k \in Jobs : LedgerSaved'[k] = LedgerNow'[k]
    BY <1>3 DEF LedgerSaved, LedgerNow, Phase
<1>5. \A k \in Jobs : LedgerNow'[k] = IF k \in S THEN "gone" ELSE LedgerNow[k]
    BY <1>2 DEF LedgerNow, Phase, Status
<1>6. \A k \in S : LedgerNow[k] \in {"live", "over"}
    BY <1>1, <1>2 DEF LedgerNow, Phase
<1>7. /\ LedgerNow' = [k \in Jobs |-> IF k \in S THEN "gone" ELSE LedgerNow[k]]
      /\ LedgerSaved' = LedgerNow'
    BY <1>4, <1>5 DEF LedgerNow, LedgerSaved
<1> HIDE DEF S
<1>8. Ledger!Drop(S)
    BY <1>1, <1>6, <1>7 DEF Ledger!Drop, LedgerNow, LedgerSaved
<1> QED
    BY <1>1, <1>8 DEF LedgerStep, Ledger!Next

\* A restart from entries that stand for the phases of found.
LEMMA LedgerRecovers ==
    ASSUME TypeOK, \A j \in Jobs : LinkOf[j] # "move",
           NEW saved \in [Jobs -> Entry], Restart(saved),
           \A k \in Jobs : EntryInv(k, saved[k])
    PROVE  LET found == [k \in Jobs |-> Phase(k, saved[k].status # "none", saved[k])]
           IN  /\ LedgerNow' \in [Jobs -> {"new", "live", "over", "gone"}]
               /\ \A k \in Jobs : LedgerNow'[k] \in Ledger!Found(found[k])
               /\ LedgerSaved' \in {found, LedgerNow'}
<1> DEFINE found == [k \in Jobs |-> Phase(k, saved[k].status # "none", saved[k])]
<1>1. created' = created
    BY DEF Restart, StartRecovered
<1>2. /\ \A k \in Jobs : RestoredAt(k, saved[k])
      /\ disk' = store' \/ \A k \in Jobs : UnsavedAt(k, saved[k])
    BY RestartControl
<1>3. LedgerNow' \in [Jobs -> {"new", "live", "over", "gone"}]
    BY DEF LedgerNow, Phase
<1>4. ASSUME NEW k \in Jobs
      PROVE  LedgerNow'[k] \in Ledger!Found(found[k])
    <2>1. RestoredAt(k, saved[k]) /\ LinkOf[k] # "move"
        BY <1>2
    <2>2. LedgerNow'[k] = IF k \notin created THEN "new"
                          ELSE IF k \notin rows' THEN "gone"
                          ELSE IF Terminal(store'[k].status) THEN "over" ELSE "live"
        BY <1>1 DEF LedgerNow, Phase
    <2>3. found[k] = IF k \notin created THEN "new"
                     ELSE IF ~(saved[k].status # "none") THEN "gone"
                     ELSE IF Terminal(saved[k].status) THEN "over" ELSE "live"
        BY DEF Phase
    <2> HIDE DEF found
    <2> QED
        BY <2>1, <2>2, <2>3 DEF RestoredAt, Ledger!Found
<1>5. CASE disk' = store'
    <2>1. \A k \in Jobs : k \in rows' <=> disk'[k].status # "none"
        BY <1>2, <1>5 DEF RestoredAt
    <2>2. LedgerSaved' = LedgerNow'
        BY <1>5, <2>1 DEF LedgerSaved, LedgerNow, Phase
    <2> QED
        BY <1>3, <1>4, <2>2
<1>6. CASE \A k \in Jobs : UnsavedAt(k, saved[k])
    <2>1. ASSUME NEW k \in Jobs
          PROVE  LedgerSaved'[k] = found[k]
        BY <1>1, <1>6 DEF LedgerSaved, Phase, UnsavedAt
    <2>2. LedgerSaved' = found
        BY <2>1 DEF LedgerSaved
    <2> QED
        BY <1>3, <1>4, <2>2
<1> QED
    BY <1>2, <1>5, <1>6

--------------------------------------------------------------------------------
(***************************************************************************)
(* Every step is a step of the ledger                                      *)
(***************************************************************************)

\* What startDownload, a pump and setJobPhase do to the other jobs.
LEMMA OthersStay ==
    ASSUME TypeOK, TransportInv, NEW j \in Jobs, NEW r \in [Jobs -> Entry],
           \A k \in Jobs \ {j} : r[k] = store[k],
           \/ \E known \in SUBSET Jobs :
                StartDownload({j}, r, known, torboxEnabled, torrents)
           \/ \E tr \in [Jobs -> Stages] :
                /\ Pump(r, tr)
                /\ \A k \in Jobs \ {j} : tr[k] = transfers[k]
           \/ store' = r
    PROVE  \A k \in rows \ {j} : Terminal(store'[k].status) <=> Terminal(Status(k))
<1> SUFFICES ASSUME NEW k \in rows \ {j}
             PROVE  Terminal(store'[k].status) <=> Terminal(Status(k))
    OBVIOUS
<1>1. k \in Jobs /\ r[k] = store[k] /\ torboxEnabled \in BOOLEAN
      /\ torrents \in SUBSET Jobs
    BY DEF TypeOK
<1>2. ASSUME NEW known \in SUBSET Jobs,
             StartDownload({j}, r, known, torboxEnabled, torrents)
      PROVE  store'[k] = store[k]
    <2> DEFINE S == {j}
    <2>1. S \in SUBSET Jobs /\ k \notin S /\ k \in Jobs
          /\ StartDownload(S, r, known, torboxEnabled, torrents)
        BY <1>1, <1>2
    <2> HIDE DEF S
    <2> QED
        BY <1>1, <2>1, StartDownloadAt
<1>3. ASSUME NEW tr \in [Jobs -> Stages], Pump(r, tr), tr[k] = transfers[k]
      PROVE  \/ store'[k].status = store[k].status
             \/ /\ store[k].status \in {"queued", "active"}
                /\ store'[k].status \in {"queued", "active"}
    <2>1. \/ store'[k].status = r[k].status
          \/ /\ tr[k] = "waiting"
             /\ store'[k].status \in {"none", "queued", "active"}
             /\ store'[k].status = "none" => r[k].status = "none"
        BY <1>1, <1>3, PumpAt
    <2>2. HeldInv(k)
        BY <1>1 DEF TransportInv, JobInv
    <2> QED
        BY <1>1, <1>3, <2>1, <2>2 DEF HeldInv, Status, Paused
<1>4. \/ store'[k].status = store[k].status
      \/ /\ store[k].status \in {"queued", "active"}
         /\ store'[k].status \in {"queued", "active"}
    BY <1>1, <1>2, <1>3
<1> QED
    BY <1>4 DEF Status, Terminal

\* A signal writes the row of its own job only.
LEMMA OneRowStays ==
    ASSUME NEW j \in Jobs, NEW s, store' = WithStatus(j, s), TypeOK
    PROVE  \A k \in rows \ {j} : Terminal(store'[k].status) <=> Terminal(Status(k))
BY DEF WithStatus, Status, TypeOK

\* A new download or plugin download.
LEMMA CreateLedger ==
    ASSUME TypeOK, TransportInv, \A k \in Jobs : LinkOf[k] # "move", NEW j \in Jobs,
           CreateDownload(j) \/ CreatePluginDownload(j) \/ CreateMove(j)
    PROVE  LedgerStep
<1>1. CASE CreateDownload(j)
    <2> DEFINE entry == [ status |-> "active", link |-> LinkOf[j],
                          torbox |-> torboxEnabled /\ LinkOf[j] # "http" ]
               r == [store EXCEPT ![j] = entry]
               S == {j}
               known == kinds \cup {j}
    <2>1. entry \in Entry
        BY LinkAssumption DEF Entry, Statuses, TypeOK
    <2>2. /\ r \in [Jobs -> Entry] /\ S \in SUBSET Jobs
          /\ torrents \in SUBSET Jobs /\ torboxEnabled \in BOOLEAN
        BY <2>1 DEF TypeOK
    <2>3. /\ StartDownload(S, r, known, torboxEnabled, torrents)
          /\ created' = created \cup {j} /\ rows' = rows \cup {j} /\ disk' = disk
          /\ j \notin created
        BY <1>1 DEF CreateDownload
    <2>4. \A k \in Jobs \ {j} : r[k] = store[k] /\ k \notin S
        OBVIOUS
    <2> HIDE DEF entry, r, S, known
    <2>5. \A k \in Jobs \ {j} : store'[k] = store[k]
        BY <2>2, <2>3, <2>4, StartDownloadAt
    <2> QED
        BY <2>3, <2>5, OneBegins
<1>2. CASE CreatePluginDownload(j)
    <2>1. \A k \in Jobs \ {j} : store'[k] = store[k]
        BY <1>2 DEF CreatePluginDownload, TypeOK
    <2> QED
        BY <1>2, <2>1, OneBegins DEF CreatePluginDownload
<1>3. ~CreateMove(j)
    BY DEF CreateMove
<1> QED
    BY <1>1, <1>2, <1>3

\* Cancelling, removing or clearing jobs.
LEMMA DropLedger ==
    ASSUME TypeOK, TransportInv, ControlInv, \A j \in Jobs : LinkOf[j] # "move",
           TypeOK', TransportInv', ControlInv',
           \/ \E j \in Jobs : CancelJob(j)
           \/ \E S \in SUBSET rows : RemoveFinished(S)
           \/ ClearFinished
           \/ \E e \in Entries : RemoveGame(e)
    PROVE  LedgerStep
<1>1. ASSUME NEW S, NEW gone, StopTransports(S, Dropped(gone)), NEW k \in rows \ gone
      PROVE  Terminal(store'[k].status) <=> Terminal(Status(k))
    <2> DEFINE r == Dropped(gone)
               left == [ j \in Jobs |-> IF j \in StopAll(S, "torbox")
                                        THEN "none" ELSE transfers[j] ]
    <2>1. k \in Jobs /\ r[k] = store[k] /\ left[k] \in {"none", transfers[k]}
        BY DEF Dropped, TypeOK
    <2>2. r \in [Jobs -> Entry] /\ left \in [Jobs -> Stages]
        BY DroppedType DEF TypeOK, Stages
    <2>3. Pump(r, left) \/ store' = r
        BY <1>1 DEF StopTransports
    <2> HIDE DEF r, left
    <2>4. \/ store'[k].status = store[k].status
          \/ /\ transfers[k] = "waiting"
             /\ store'[k].status \in {"none", "queued", "active"}
             /\ store'[k].status = "none" => store[k].status = "none"
        BY <2>1, <2>2, <2>3, PumpAt
    <2>5. HeldInv(k)
        BY <2>1 DEF TransportInv, JobInv
    <2> QED
        BY <2>4, <2>5 DEF HeldInv, Status, Terminal, Paused
<1>2. ASSUME NEW j \in Jobs, CancelJob(j)
      PROVE  LedgerStep
    <2> DEFINE S == {j}
               gone == {j} \cup { k \in rows : /\ EntryOf[k] = EntryOf[j]
                                              /\ Retryable(Status(k)) }
    <2>1. /\ StopTransports(S, Dropped(gone))
          /\ rows' = rows \ gone /\ created' = created /\ disk' = store'
        BY <1>2 DEF CancelJob
    <2> HIDE DEF S, gone
    <2>2. \A k \in rows \ gone : Terminal(store'[k].status) <=> Terminal(Status(k))
        BY <1>1, <2>1
    <2> QED
        BY <2>1, <2>2, SomeDropped
<1>3. ASSUME NEW e \in Entries, RemoveGame(e)
      PROVE  LedgerStep
    <2> DEFINE gone == {k \in rows : EntryOf[k] = e}
               S == {k \in gone : InProgress(Status(k))}
    <2>1. /\ StopTransports(S, Dropped(gone))
          /\ rows' = rows \ gone /\ created' = created /\ disk' = store'
        BY <1>3 DEF RemoveGame
    <2> HIDE DEF S, gone
    <2>2. \A k \in rows \ gone : Terminal(store'[k].status) <=> Terminal(Status(k))
        BY <1>1, <2>1
    <2> QED
        BY <2>1, <2>2, SomeDropped
<1>4. ASSUME NEW T \in SUBSET rows, RemoveFinished(T)
      PROVE  LedgerStep
    <2>1. \A k \in rows \ T : Terminal(store'[k].status) <=> Terminal(Status(k))
        BY <1>4 DEF RemoveFinished, Dropped, Status, TypeOK
    <2> QED
        BY <1>4, <2>1, SomeDropped DEF RemoveFinished
<1>5. ASSUME ClearFinished
      PROVE  LedgerStep
    <2> DEFINE keep == {k \in rows : ~Terminal(Status(k))}
               gone == Jobs \ keep
    <2>1. /\ rows' = rows \ gone /\ created' = created /\ disk' = store'
          /\ store' = Dropped(gone)
        BY <1>5 DEF ClearFinished, TypeOK
    <2> HIDE DEF keep, gone
    <2>2. \A k \in rows \ gone : Terminal(store'[k].status) <=> Terminal(Status(k))
        BY <2>1 DEF Dropped, Status, TypeOK
    <2> QED
        BY <2>1, <2>2, SomeDropped
<1> QED
    BY <1>2, <1>3, <1>4, <1>5

\* Pausing, resuming and retrying a job.
LEMMA TurnLedger ==
    ASSUME TypeOK, TransportInv, NEW j \in Jobs, PauseJob(j) \/ Revived(j)
    PROVE  LedgerStep
<1>1. /\ rows' = rows /\ created' = created /\ disk' = disk
    BY DEF PauseJob, Revived, ResumeJob, RetryDownload, RetryPluginDownload,
           RetryInstall
<1>2. PICK s \in {"paused", "active", "installing"} :
        \/ store' = [store EXCEPT ![j].status = s]
        \/ Pump([store EXCEPT ![j].status = s], [transfers EXCEPT ![j] = "paused"])
        \/ \E known \in {kinds, kinds \cup {j}} :
              StartDownload({j}, [store EXCEPT ![j].status = s], known,
                            torboxEnabled, torrents)
    <2>1. CASE PauseJob(j)
        BY <2>1 DEF PauseJob
    <2>2. CASE Revived(j)
        BY <2>2 DEF Revived, ResumeJob, RetryDownload, RetryPluginDownload, RetryInstall
    <2> QED
        BY <2>1, <2>2
<1> DEFINE r == [store EXCEPT ![j].status = s]
           stopped == [transfers EXCEPT ![j] = "paused"]
<1>3. r \in [Jobs -> Entry] /\ stopped \in [Jobs -> Stages]
    BY EntryUpdate DEF TypeOK, Statuses, Stages
<1>4. /\ \A k \in Jobs \ {j} : r[k] = store[k] /\ stopped[k] = transfers[k]
      /\ kinds \in SUBSET Jobs /\ kinds \cup {j} \in SUBSET Jobs
    BY DEF TypeOK
<1>5. \/ store' = r \/ Pump(r, stopped)
      \/ StartDownload({j}, r, kinds, torboxEnabled, torrents)
      \/ StartDownload({j}, r, kinds \cup {j}, torboxEnabled, torrents)
    BY <1>2
<1> HIDE DEF r, stopped
<1>6. \A k \in rows \ {j} : Terminal(store'[k].status) <=> Terminal(Status(k))
    BY <1>3, <1>4, <1>5, OthersStay
<1> QED
    BY <1>1, <1>6, OneTurns

\* The switch to TorBox fails no job: all of them go to TorBox or to their resolver.
LEMMA EnableLedger ==
    ASSUME TypeOK, TransportInv, EnableTorBox
    PROVE  LedgerStep
<1> DEFINE routed == { j \in rows :
                         /\ store[j].link \in {"magnet", "hydra"}
                         /\ ~store[j].torbox
                         /\ InProgress(Status(j))
                         /\ Status(j) \notin {"installing", "moving"} }
           S == {j \in routed : ~Paused(Status(j)) /\ j \notin resolvers}
           r == [ j \in Jobs |-> IF j \in routed
                                 THEN [store[j] EXCEPT !.torbox = TRUE]
                                 ELSE store[j] ]
           handles == torrents \ routed
           tb == TRUE
<1>1. r \in [Jobs -> Entry] /\ S \in SUBSET Jobs /\ handles \in SUBSET Jobs
      /\ tb \in BOOLEAN
    BY EntryUpdate DEF TypeOK
<1>t. tb = TRUE
    OBVIOUS
<1>2. /\ StartDownload(S, r, kinds, tb, handles)
      /\ rows' = rows /\ created' = created /\ disk' = disk
    BY DEF EnableTorBox
<1>3. \A k \in Jobs : r[k].link = store[k].link /\ r[k].status = store[k].status
    BY EntryFields DEF TypeOK
<1>4. \A k \in S : /\ k \in Jobs
                   /\ store[k].link \in {"magnet", "hydra"}
                   /\ Status(k) \in {"queued", "active"}
    BY DEF TypeOK, InProgress, Active, Paused
<1> HIDE DEF routed, S, r, handles, tb
<1>5. ASSUME NEW k \in Jobs
      PROVE  Terminal(store'[k].status) <=> Terminal(Status(k))
    <2>1. CASE k \notin S
        BY <1>1, <1>2, <1>3, <2>1, StartDownloadAt DEF Status
    <2>2. CASE k \in S
        <3> DEFINE entry == Routed(r[k], tb)
                   route == RouteOf(entry)
        <3>1. /\ store'[k].status \in {r[k].status, "active", "failed"}
              /\ store'[k].status = "failed" /\ r[k].status # "failed"
                 => route \in {"torrent", "http"}
            BY <1>1, <1>2, <2>2, StartDownloadAt
        <3>2. entry.link = r[k].link /\ entry.torbox
            BY <1>1, <1>3, <1>4, <1>t, <2>2 DEF Routed, Entry
        <3>3. route \in {"resolver", "torbox"}
            BY <3>2 DEF RouteOf
        <3> HIDE DEF entry, route
        <3> QED
            BY <1>3, <1>4, <2>2, <3>1, <3>3 DEF Status, Terminal
    <2> QED
        BY <2>1, <2>2
<1>6. LedgerNow' = LedgerNow /\ LedgerSaved' = LedgerSaved
    BY <1>2, <1>5 DEF LedgerNow, LedgerSaved, Phase, Status
<1> QED
    BY <1>6 DEF LedgerStep

\* A signal of a transport or a worker.
LEMMA SignalLedger ==
    ASSUME TypeOK, TransportInv, \A j \in Jobs : LinkOf[j] # "move",
           TransportStep \/ WorkerStep
    PROVE  LedgerStep
<1>1. ASSUME NEW j \in Jobs, NEW s, store' = WithStatus(j, s),
             rows' = rows, created' = created, disk' = disk
      PROVE  LedgerStep
    BY <1>1, OneRowStays, OneTurns
<1>2. ASSUME NEW j \in Jobs, NEW s, Reported(j, s)
      PROVE  LedgerStep
    BY <1>1, <1>2 DEF Reported
<1>3. ASSUME NEW j \in Jobs, Completed(j) \/ Failed(j)
      PROVE  LedgerStep
    BY <1>1, <1>3 DEF Completed, Failed
<1>4. ASSUME NEW j \in Jobs, NEW link \in {"magnet", "http"}, LinkResolved(j, link)
      PROVE  LedgerStep
    <2> DEFINE r == Found(j, link)
    <2>1. /\ rows' = rows /\ created' = created /\ disk' = disk
          /\ \/ StartDownload({j}, r, kinds, torboxEnabled, torrents)
             \/ store' = store
        BY <1>4 DEF LinkResolved, Found
    <2>2. r \in [Jobs -> Entry] /\ kinds \in SUBSET Jobs
        BY FoundEntry DEF TypeOK
    <2>3. \A k \in Jobs \ {j} : r[k] = store[k]
        BY FoundEntry DEF TypeOK
    <2> HIDE DEF r
    <2>4. \A k \in rows \ {j} : Terminal(store'[k].status) <=> Terminal(Status(k))
        BY <2>1, <2>2, <2>3, OthersStay DEF Status
    <2> QED
        BY <2>1, <2>4, OneTurns
<1>5. CASE TransportStep
    BY <1>2, <1>3, <1>4, <1>5
       DEF TransportStep, TorrentProgress, HttpProgress, TorBoxProgress,
           TorrentFinished, TorrentFailed, HttpFinished, HttpFailed,
           TorBoxFinished, TorBoxFailed, LinkFailed
<1>6. ASSUME NEW j \in Jobs, NEW s, MoveReturns(j, s)
      PROVE  FALSE
    BY <1>6 DEF MoveReturns, TransportInv, JobInv, WorkerInv
<1>7. ASSUME NEW j \in Jobs, NEW s, PluginReturns(j, s) \/ InstallReturns(j, s)
      PROVE  LedgerStep
    BY <1>1, <1>7 DEF PluginReturns, InstallReturns
<1>8. CASE WorkerStep
    BY <1>2, <1>6, <1>7, <1>8 DEF WorkerStep, PluginProgress
<1> QED
    BY <1>5, <1>8

\* Every step of the orchestrator is one of the ledger, or none.
LEMMA StepLedger ==
    ASSUME TypeOK, TransportInv, ControlInv, TypeOK', TransportInv', ControlInv',
           \A j \in Jobs : LinkOf[j] # "move", [Next]_vars
    PROVE  LedgerStep
<1>1. \A k \in Jobs : k \in rows <=> store[k].status # "none"
    BY ListedHasEntry
<1>2. CASE UserStep
    <2>1. CASE DisableTorBox
        <3>1. LedgerNow' = LedgerNow /\ LedgerSaved' = LedgerSaved
            BY <2>1 DEF DisableTorBox, records, LedgerNow, LedgerSaved, Phase
        <3> QED
            BY <3>1 DEF LedgerStep
    <2> QED
        BY <1>2, <2>1, CreateLedger, DropLedger, TurnLedger, EnableLedger
           DEF UserStep, Revived
<1>3. CASE TransportStep \/ WorkerStep
    BY <1>3, SignalLedger
<1>4. CASE TorBoxPump
    <2>1. /\ Pump(store, transfers) /\ rows' = rows /\ created' = created
          /\ disk' = disk /\ store \in [Jobs -> Entry] /\ transfers \in [Jobs -> Stages]
        BY <1>4 DEF TorBoxPump, TypeOK
    <2>2. ASSUME NEW k \in rows
          PROVE  Terminal(store'[k].status) <=> Terminal(store[k].status)
        <3>1. k \in Jobs
            BY DEF TypeOK
        <3>2. \/ store'[k].status = store[k].status
              \/ /\ transfers[k] = "waiting"
                 /\ store'[k].status \in {"none", "queued", "active"}
                 /\ store'[k].status = "none" => store[k].status = "none"
            BY <2>1, <3>1, PumpAt
        <3>3. HeldInv(k)
            BY <3>1 DEF TransportInv, JobInv
        <3> QED
            BY <3>2, <3>3 DEF HeldInv, Status, Terminal, Paused
    <2>3. LedgerNow' = LedgerNow /\ LedgerSaved' = LedgerSaved
        BY <2>1, <2>2 DEF LedgerNow, LedgerSaved, Phase
    <2> QED
        BY <2>3 DEF LedgerStep
<1>5. CASE PersistTick
    <2>1. /\ LedgerNow' = LedgerNow
          /\ LedgerSaved' = LedgerNow
        BY <1>1, <1>5 DEF PersistTick, LedgerNow, LedgerSaved, Phase
    <2>2. Ledger!Save
        BY <2>1 DEF Ledger!Save, LedgerNow, LedgerSaved
    <2> QED
        BY <2>2 DEF LedgerStep, Ledger!Next
<1>6. CASE Crash
    <2>1. /\ Restart(disk) /\ disk \in [Jobs -> Entry]
          /\ \A k \in Jobs : EntryInv(k, disk[k])
        BY <1>6 DEF Crash, TypeOK, TransportInv, JobInv
    <2>2. /\ LedgerNow' \in [Jobs -> {"new", "live", "over", "gone"}]
          /\ \A k \in Jobs : LedgerNow'[k] \in Ledger!Found(LedgerSaved[k])
          /\ LedgerSaved' \in {LedgerSaved, LedgerNow'}
        BY <2>1, LedgerRecovers DEF LedgerSaved
    <2>3. Ledger!Recover(LedgerSaved)
        BY <2>2 DEF Ledger!Recover, Ledger!Phases, LedgerNow, LedgerSaved
    <2> QED
        BY <2>3 DEF LedgerStep, Ledger!Next, LedgerSaved
<1>7. CASE Quit
    <2> DEFINE kept == [j \in Jobs |-> IF j \in rows THEN store[j] ELSE NoEntry]
    <2>1. kept \in [Jobs -> Entry]
        BY NoEntryType DEF TypeOK
    <2>2. \A k \in Jobs : EntryInv(k, kept[k])
        BY DEF TransportInv, JobInv, EntryInv, NoEntry
    <2>3. \A k \in Jobs : Phase(k, kept[k].status # "none", kept[k])
                          = Phase(k, k \in rows, store[k])
        BY <1>1 DEF Phase, NoEntry
    <2>4. Restart(kept)
        BY <1>7 DEF Quit
    <2> HIDE DEF kept
    <2>5. LedgerNow = [k \in Jobs |-> Phase(k, kept[k].status # "none", kept[k])]
        BY <2>3 DEF LedgerNow
    <2>6. /\ LedgerNow' \in [Jobs -> {"new", "live", "over", "gone"}]
          /\ \A k \in Jobs : LedgerNow'[k] \in Ledger!Found(LedgerNow[k])
          /\ LedgerSaved' \in {LedgerNow, LedgerNow'}
        BY <2>1, <2>2, <2>4, <2>5, LedgerRecovers
    <2>7. Ledger!Recover(LedgerNow)
        BY <2>6 DEF Ledger!Recover, Ledger!Phases, LedgerNow, LedgerSaved
    <2> QED
        BY <2>7 DEF LedgerStep, Ledger!Next, LedgerNow
<1>8. CASE UNCHANGED vars
    <2>1. LedgerNow' = LedgerNow /\ LedgerSaved' = LedgerSaved
        BY <1>8 DEF vars, records, LedgerNow, LedgerSaved, Phase
    <2> QED
        BY <2>1 DEF LedgerStep
<1> QED
    BY <1>2, <1>3, <1>4, <1>5, <1>6, <1>7, <1>8 DEF Next

\* The store, its deferred saves and its recovery are the durable ledger, for every
\* set of downloads, links and labels: no handler loses a job or brings a dropped
\* one back, a removal survives a crash, and a restart finds what was saved.
THEOREM KeepsLedgerHolds ==
    ASSUME \A j \in Jobs : LinkOf[j] # "move"
    PROVE  Spec => KeepsLedger
<1>1. Init => Ledger!Init
    BY DEF Init, Ledger!Init, Phase
<1>2. /\ TypeOK /\ TransportInv /\ ControlInv
      /\ TypeOK' /\ TransportInv' /\ ControlInv' /\ [Next]_vars
      => [Ledger!Next]_<<[j \in Jobs |-> Phase(j, j \in rows, store[j])],
                         [j \in Jobs |-> Phase(j, disk[j].status # "none", disk[j])]>>
    BY StepLedger DEF LedgerStep, LedgerNow, LedgerSaved
<1> QED
    BY <1>1, <1>2, TypeCorrect, TransportCorrect, ControlCorrect, PTL
       DEF Spec, KeepsLedger, Ledger!Spec

================================================================================
