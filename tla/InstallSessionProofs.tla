-------------------------- MODULE InstallSessionProofs --------------------------
(***************************************************************************)
(* Theorems about InstallSession, for every set of rows, every number of   *)
(* add-ons and every selection of them.                                    *)
(***************************************************************************)
EXTENDS InstallSession, TLAPS

--------------------------------------------------------------------------------
(***************************************************************************)
(* The inductive invariant, of the state a chain of calls works on         *)
(***************************************************************************)

Workers == AddonInstallers \cup {NoAddonInstaller}

States ==
    [ job : [Jobs -> Statuses], downloading : SUBSET Jobs, addonJob : [Addons -> Statuses],
      files : SUBSET ({0} \cup Addons), game : {"absent", "placeholder", "installed"},
      installed : SUBSET Addons, session : Sessions \cup {NoSession}, installing : BOOLEAN,
      workers : [Jobs -> Nat], addonWorker : [Addons -> Workers], disowned : BOOLEAN ]

\* The lock is held exactly while an installer runs, until the user cancels; then
\* it may be taken again beside the installer that runs on.
LockOK(held, n, gone) ==
    /\ held => Busy(n)
    /\ Busy(n) /\ ~gone => held
    /\ Crowded(n) => gone

\* A row that says installing has an installer.
RowsOK(rows, ws) == \A a \in Addons : rows[a] = "installing" => ws[a] # NoAddonInstaller

Good(s) ==
    /\ s \in States
    /\ LockOK(s.installing, s.workers, s.disowned)
    /\ RowsOK(s.addonJob, s.addonWorker)
    /\ s.game = "absent" => s.installed = {}

InstallInv ==
    /\ owned \in BOOLEAN /\ loaded \in BOOLEAN /\ verifying \in SUBSET Jobs
    /\ Good(State)

--------------------------------------------------------------------------------
(***************************************************************************)
(* What each call of a chain keeps                                         *)
(***************************************************************************)

\* setJobPhase
LEMMA PhaseKeeps ==
    ASSUME NEW s, Good(s), NEW j \in Jobs \cup {NoJob}, NEW status \in Statuses
    PROVE  /\ Good(Phase(s, j, status))
           /\ Phase(s, j, status).session = s.session
           /\ Phase(s, j, status).game = s.game
           /\ Phase(s, j, status).addonJob = s.addonJob
           /\ Phase(s, j, status).addonWorker = s.addonWorker
<1> DEFINE r == [s EXCEPT !.job[j] = status]
<1>1. CASE j = NoJob \/ s.job[j] = "none"
    BY <1>1 DEF Phase
<1>2. CASE ~(j = NoJob \/ s.job[j] = "none")
    <2>1. Phase(s, j, status) = r
        BY <1>2 DEF Phase
    <2>2. r \in States
        BY <1>2 DEF Good, States
    <2>3. /\ r.installing = s.installing /\ r.workers = s.workers /\ r.disowned = s.disowned
          /\ r.addonJob = s.addonJob /\ r.addonWorker = s.addonWorker
          /\ r.game = s.game /\ r.installed = s.installed /\ r.session = s.session
        BY DEF Good, States
    <2> HIDE DEF r
    <2>4. Good(r)
        BY <2>2, <2>3 DEF Good
    <2> QED
        BY <2>1, <2>3, <2>4
<1> QED
    BY <1>1, <1>2

\* The session of a state names a row or none.
LEMMA SessionJob ==
    ASSUME NEW s, Good(s)
    PROVE  s.session.job \in Jobs \cup {NoJob} /\ s.session.selected \in SUBSET Addons
BY DEF Good, States, Sessions, NoSession

\* syncInstallSessionPhase
LEMMA SyncPhaseKeeps ==
    ASSUME NEW s, Good(s)
    PROVE  /\ Good(SyncPhase(s))
           /\ SyncPhase(s).session = s.session
           /\ SyncPhase(s).game = s.game
           /\ SyncPhase(s).addonJob = s.addonJob
           /\ SyncPhase(s).addonWorker = s.addonWorker
BY PhaseKeeps, SessionJob DEF SyncPhase, Statuses

\* setJobPhase of an add-on; installing only beside a worker
LEMMA AddonPhaseKeeps ==
    ASSUME NEW s, Good(s), NEW a \in Addons, NEW status \in Statuses, status # "installing"
    PROVE  /\ Good(AddonPhase(s, a, status))
           /\ AddonPhase(s, a, status).session = s.session
<1> DEFINE r == [s EXCEPT !.addonJob[a] = status]
<1>1. CASE s.addonJob[a] = "none"
    BY <1>1 DEF AddonPhase
<1>2. CASE s.addonJob[a] # "none"
    <2>1. AddonPhase(s, a, status) = r
        BY <1>2 DEF AddonPhase
    <2>2. r \in States
        BY DEF Good, States
    <2>3. /\ r.installing = s.installing /\ r.workers = s.workers /\ r.disowned = s.disowned
          /\ r.addonJob = [s.addonJob EXCEPT ![a] = status] /\ r.addonWorker = s.addonWorker
          /\ r.game = s.game /\ r.installed = s.installed /\ r.session = s.session
        BY DEF Good, States
    <2>4. s.addonJob \in [Addons -> Statuses]
        BY DEF Good, States
    <2> HIDE DEF r
    <2>5. RowsOK(r.addonJob, r.addonWorker)
        BY <2>3, <2>4 DEF Good, RowsOK
    <2> QED
        BY <2>1, <2>2, <2>3, <2>5 DEF Good
<1> QED
    BY <1>1, <1>2

\* markCatalogAddonInstalled
LEMMA MarkInstalledKeeps ==
    ASSUME NEW s, Good(s), NEW as \in SUBSET Addons
    PROVE  /\ Good(MarkInstalled(s, as))
           /\ MarkInstalled(s, as).session = s.session
           /\ MarkInstalled(s, as).game = s.game
<1> DEFINE v == IF s.game = "absent" THEN s.installed ELSE s.installed \cup as
           r == [s EXCEPT !.installed = v]
<1>1. MarkInstalled(s, as) = r
    BY DEF MarkInstalled
<1>2. v \in SUBSET Addons /\ (s.game = "absent" => v = {})
    BY DEF Good, States
<1> HIDE DEF v
<1>3. r \in States
    BY <1>2 DEF Good, States
<1>4. /\ r.installing = s.installing /\ r.workers = s.workers /\ r.disowned = s.disowned
      /\ r.addonJob = s.addonJob /\ r.addonWorker = s.addonWorker
      /\ r.game = s.game /\ r.installed = v /\ r.session = s.session
    BY DEF Good, States
<1> HIDE DEF r
<1> QED
    BY <1>1, <1>2, <1>3, <1>4 DEF Good

\* reconcileJobInstallState
LEMMA ReconcileKeeps ==
    ASSUME NEW s, Good(s)
    PROVE  Good(Reconcile(s))
<1> DEFINE rows == [j \in Jobs |->
                IF s.job[j] = "installing" /\ ~NeedsInstall(s)
                   /\ ~(\E a \in Addons : InProgress(s.addonJob[a]))
                THEN "completed" ELSE s.job[j]]
           addons == [a \in Addons |->
                IF s.addonJob[a] = "installing" /\ a \in s.installed THEN "completed"
                ELSE s.addonJob[a]]
           r == [s EXCEPT !.job = rows, !.addonJob = addons]
<1>1. Reconcile(s) = r
    BY DEF Reconcile
<1>2. rows \in [Jobs -> Statuses] /\ addons \in [Addons -> Statuses]
    BY DEF Good, States, Statuses
<1>3. RowsOK(addons, s.addonWorker)
    BY DEF Good, RowsOK
<1> HIDE DEF rows, addons
<1>4. r \in States
    BY <1>2 DEF Good, States
<1>5. /\ r.installing = s.installing /\ r.workers = s.workers /\ r.disowned = s.disowned
      /\ r.addonJob = addons /\ r.addonWorker = s.addonWorker
      /\ r.game = s.game /\ r.installed = s.installed
    BY DEF Good, States
<1> HIDE DEF r
<1> QED
    BY <1>1, <1>3, <1>4, <1>5 DEF Good

\* clearSession and a new session
LEMMA SessionKeeps ==
    ASSUME NEW s, Good(s), NEW v \in Sessions \cup {NoSession}
    PROVE  Good([s EXCEPT !.session = v]) /\ [s EXCEPT !.session = v].session = v
<1> DEFINE r == [s EXCEPT !.session = v]
<1>1. r \in States
    BY DEF Good, States
<1>2. /\ r.installing = s.installing /\ r.workers = s.workers /\ r.disowned = s.disowned
      /\ r.addonJob = s.addonJob /\ r.addonWorker = s.addonWorker
      /\ r.game = s.game /\ r.installed = s.installed /\ r.session = v
    BY DEF Good, States
<1> HIDE DEF r
<1>3. Good(r)
    BY <1>1, <1>2 DEF Good
<1> QED
    BY <1>2, <1>3 DEF r

\* startPluginAddonInstall: the row says installing together with its worker.
LEMMA StartAddonKeeps ==
    ASSUME NEW s, Good(s), NEW a, NEW progress \in Jobs \cup {NoJob},
           NEW advances \in BOOLEAN
    PROVE  Good(StartAddon(s, a, progress, advances))
<1> DEFINE w == [busy |-> TRUE, progress |-> progress, advances |-> advances]
           addons == [s.addonJob EXCEPT ![a] = "installing"]
           ws == [s.addonWorker EXCEPT ![a] = w]
<1>1. CASE s.addonWorker[a] # NoAddonInstaller \/ NeedsInstall(s) \/ ~loaded
    BY <1>1 DEF StartAddon
<1>2. CASE ~(s.addonWorker[a] # NoAddonInstaller \/ NeedsInstall(s) \/ ~loaded)
    <2> DEFINE shown == IF s.addonJob[a] # "none" THEN AddonPhase(s, a, "installing")
                        ELSE IF s.session = NoSession THEN Phase(s, progress, "installing")
                        ELSE s
               r == [shown EXCEPT !.addonWorker[a] = w]
    <2>1. StartAddon(s, a, progress, advances) = SyncPhase(r)
        BY <1>2 DEF StartAddon
    <2>2. w \in Workers /\ w # NoAddonInstaller
        BY DEF Workers, AddonInstallers, NoAddonInstaller
    <2>3. ws \in [Addons -> Workers] /\ \A b \in Addons : ws[b] = IF b = a THEN w
                                                                ELSE s.addonWorker[b]
        BY <2>2 DEF Good, States
    <2>4. addons \in [Addons -> Statuses]
          /\ \A b \in Addons : b # a => addons[b] = s.addonJob[b]
        BY DEF Good, States, Statuses
    <2>5. RowsOK(addons, ws) /\ RowsOK(s.addonJob, ws)
        BY <2>2, <2>3, <2>4 DEF Good, RowsOK
    <2>6. CASE s.addonJob[a] # "none"
        <3> DEFINE v == [s EXCEPT !.addonJob = addons]
        <3>1. shown = v
            BY <2>6 DEF AddonPhase
        <3>2. v \in States
            BY <2>4 DEF Good, States
        <3>3. /\ v.installing = s.installing /\ v.workers = s.workers
              /\ v.disowned = s.disowned /\ v.addonJob = addons
              /\ v.addonWorker = s.addonWorker
              /\ v.game = s.game /\ v.installed = s.installed
            BY DEF Good, States
        <3> HIDE DEF v, shown
        <3> QED
            <4> DEFINE q == [v EXCEPT !.addonWorker = ws]
            <4>1. r = q
                BY <3>1, <3>3
            <4> HIDE DEF ws, r
            <4>2. q \in States
                BY <2>3, <3>2 DEF States
            <4>3. /\ q.installing = v.installing /\ q.workers = v.workers
                  /\ q.disowned = v.disowned /\ q.addonJob = v.addonJob
                  /\ q.addonWorker = ws /\ q.game = v.game /\ q.installed = v.installed
                BY <3>2 DEF States
            <4> HIDE DEF q
            <4>4. Good(q)
                BY <2>5, <3>3, <4>2, <4>3 DEF Good
            <4> QED
                BY <2>1, <4>1, <4>4, SyncPhaseKeeps
    <2>7. CASE s.addonJob[a] = "none"
        <3>1. Good(shown) /\ shown.addonJob = s.addonJob /\ shown.addonWorker = s.addonWorker
            BY <2>7, PhaseKeeps DEF Statuses
        <3> HIDE DEF shown
        <3> QED
            <4> DEFINE q == [shown EXCEPT !.addonWorker = ws]
            <4>1. r = q
                BY <3>1
            <4> HIDE DEF ws, r
            <4>2. q \in States
                BY <2>3, <3>1 DEF Good, States
            <4>3. /\ q.installing = shown.installing /\ q.workers = shown.workers
                  /\ q.disowned = shown.disowned /\ q.addonJob = shown.addonJob
                  /\ q.addonWorker = ws /\ q.game = shown.game
                  /\ q.installed = shown.installed
                BY <3>1 DEF Good, States
            <4> HIDE DEF q
            <4>4. Good(q)
                BY <2>5, <3>1, <4>2, <4>3 DEF Good
            <4> QED
                BY <2>1, <4>1, <4>4, SyncPhaseKeeps
    <2> QED
        BY <2>6, <2>7
<1> QED
    BY <1>1, <1>2

\* advanceInstallSession
LEMMA AdvanceKeeps ==
    ASSUME NEW s, Good(s)
    PROVE  Good(Advance(s))
<1> DEFINE todo == s.session.selected \ s.installed
           stops == {a \in todo \cap Linked : HasArtifact(s, a) \/ InProgress(s.addonJob[a])}
           first == Min(stops)
           before == {a \in todo : stops = {} \/ a < first}
           shown == MarkInstalled(IF todo = {} THEN s ELSE SyncPhase(s), before)
           last == Phase(shown, s.session.job, "completed")
<1>1. before \in SUBSET Addons /\ s.session.job \in Jobs \cup {NoJob}
    BY SessionJob
<1>2. \/ Advance(s) = s
      \/ Advance(s) = Reconcile([last EXCEPT !.session = NoSession])
      \/ Advance(s) = StartAddon(shown, first, s.session.job, TRUE)
      \/ Advance(s) = shown
    BY DEF Advance
<1> HIDE DEF before, first, stops
<1>3. Good(shown)
    BY <1>1, SyncPhaseKeeps, MarkInstalledKeeps
<1> HIDE DEF shown
<1>4. Good(last)
    BY <1>1, <1>3, PhaseKeeps DEF Statuses
<1> HIDE DEF last
<1>5. Good([last EXCEPT !.session = NoSession])
    BY <1>4, SessionKeeps
<1>6. Good(Reconcile([last EXCEPT !.session = NoSession]))
    BY <1>5, ReconcileKeeps
<1>7. Good(StartAddon(shown, first, s.session.job, TRUE))
    BY <1>1, <1>3, StartAddonKeeps
<1> QED
    BY <1>2, <1>3, <1>6, <1>7

\* commitInstalledCatalogGame
LEMMA CommitKeeps ==
    ASSUME NEW s, Good(s), NEW addons \in BOOLEAN
    PROVE  /\ Good(Commit(s, addons))
           /\ Commit(s, addons).session = s.session
           /\ Commit(s, addons).game = "installed"
           /\ Commit(s, addons).job = s.job
           /\ Commit(s, addons).addonWorker = s.addonWorker
<1> DEFINE v == s.session.selected \cup IF loaded \/ addons THEN s.installed ELSE {}
           r == [s EXCEPT !.game = "installed", !.installed = v]
<1>1. Commit(s, addons) = r
    BY DEF Commit
<1>2. v \in SUBSET Addons
    BY SessionJob DEF Good, States
<1> HIDE DEF v
<1>3. r \in States
    BY <1>2 DEF Good, States
<1>4. /\ r.installing = s.installing /\ r.workers = s.workers /\ r.disowned = s.disowned
      /\ r.addonJob = s.addonJob /\ r.addonWorker = s.addonWorker
      /\ r.game = "installed" /\ r.session = s.session /\ r.job = s.job
    BY DEF Good, States
<1> HIDE DEF r
<1>5. Good(r)
    BY <1>3, <1>4 DEF Good
<1> QED
    BY <1>1, <1>4, <1>5

\* The session goes on to its add-ons.
LEMMA GameDoneKeeps ==
    ASSUME NEW s, Good(s), s.session # NoSession
    PROVE  Good(GameDone(s))
<1> DEFINE v == [s.session EXCEPT !.done = TRUE]
           r == [s EXCEPT !.session = v]
<1>1. s.session \in Sessions
    BY DEF Good, States
<1>2. v \in Sessions
    BY <1>1 DEF Sessions
<1>3. Good(r)
    BY <1>2, SessionKeeps
<1>4. GameDone(s) = Advance(SyncPhase(r))
    BY DEF GameDone
<1> HIDE DEF r
<1> QED
    BY <1>3, <1>4, SyncPhaseKeeps, AdvanceKeeps

\* ensureLibraryPlaceholder
LEMMA PlaceholderKeeps ==
    ASSUME NEW s, Good(s)
    PROVE  Good(Placeholder(s))
<1> DEFINE r == [s EXCEPT !.game = "placeholder"]
<1>1. r \in States
    BY DEF Good, States
<1>2. /\ r.installing = s.installing /\ r.workers = s.workers /\ r.disowned = s.disowned
      /\ r.addonJob = s.addonJob /\ r.addonWorker = s.addonWorker
      /\ r.game = "placeholder"
    BY DEF Good, States
<1>3. Placeholder(s) = s \/ Placeholder(s) = r
    BY DEF Placeholder
<1> HIDE DEF r
<1>4. Good(r)
    BY <1>1, <1>2 DEF Good
<1> QED
    BY <1>3, <1>4

\* setJobPhase does not touch the lock.
LEMMA PhaseLock ==
    ASSUME NEW s, Good(s), NEW j \in Jobs \cup {NoJob}, NEW status \in Statuses
    PROVE  /\ Phase(s, j, status).installing = s.installing
           /\ Phase(s, j, status).workers = s.workers
           /\ Phase(s, j, status).disowned = s.disowned
BY DEF Phase, Good, States

\* startPluginInstall: a lock that is free means that no installer runs, or that
\* the user cancelled while one did.
LEMMA StartInstallKeeps ==
    ASSUME NEW s, Good(s), NEW j \in Jobs
    PROVE  Good(StartInstall(s, j))
<1>1. CASE s.installing
    BY <1>1 DEF StartInstall
<1>2. CASE ~s.installing
    <2> DEFINE shown == IF s.session # NoSession THEN SyncPhase(s)
                        ELSE Phase(s, j, "installing")
               n == [s.workers EXCEPT ![j] = @ + 1]
               r == [shown EXCEPT !.installing = TRUE, !.workers = n]
    <2>1. Good(shown) /\ shown.addonJob = s.addonJob /\ shown.addonWorker = s.addonWorker
        BY ZenonT(40), PhaseKeeps, SyncPhaseKeeps DEF Statuses
    <2>2. /\ shown.workers = s.workers /\ shown.disowned = s.disowned
          /\ shown.installing = s.installing
        BY PhaseLock, SessionJob DEF SyncPhase, Statuses
    <2>3. StartInstall(s, j) = r
        BY <1>2, <2>2 DEF StartInstall
    <2>4. s.workers \in [Jobs -> Nat] /\ LockOK(s.installing, s.workers, s.disowned)
        BY DEF Good, States
    <2>5. n \in [Jobs -> Nat]
          /\ \A k \in Jobs : n[k] = IF k = j THEN s.workers[j] + 1 ELSE s.workers[k]
        BY <2>4
    <2> HIDE DEF n, shown
    <2>6. LockOK(TRUE, n, s.disowned)
        BY <1>2, <2>4, <2>5 DEF LockOK, Busy, Crowded
    <2>7. r \in States
        BY <2>1, <2>5 DEF Good, States
    <2>8. /\ r.installing = TRUE /\ r.workers = n /\ r.disowned = shown.disowned
          /\ r.addonJob = shown.addonJob /\ r.addonWorker = shown.addonWorker
          /\ r.game = shown.game /\ r.installed = shown.installed
        BY <2>1 DEF Good, States
    <2> HIDE DEF r
    <2> QED
        BY <2>1, <2>2, <2>3, <2>6, <2>7, <2>8 DEF Good
<1> QED
    BY <1>1, <1>2

\* Rows of the game may say anything: they are not what the lock is about.
LEMMA RowsKeep ==
    ASSUME NEW s, Good(s), NEW rows \in [Jobs -> Statuses]
    PROVE  Good([s EXCEPT !.job = rows])
<1> DEFINE r == [s EXCEPT !.job = rows]
<1>1. r \in States
    BY DEF Good, States
<1>2. /\ r.installing = s.installing /\ r.workers = s.workers /\ r.disowned = s.disowned
      /\ r.addonJob = s.addonJob /\ r.addonWorker = s.addonWorker
      /\ r.game = s.game /\ r.installed = s.installed
    BY DEF Good, States
<1> HIDE DEF r
<1>3. Good(r)
    BY <1>1, <1>2 DEF Good
<1> QED
    BY <1>3 DEF r

\* Neither is what is downloaded and what lies on disk.
LEMMA DownloadsKeep ==
    ASSUME NEW s, Good(s), NEW down \in SUBSET Jobs, NEW f \in SUBSET ({0} \cup Addons)
    PROVE  Good([s EXCEPT !.downloading = down, !.files = f])
<1> DEFINE r == [s EXCEPT !.downloading = down, !.files = f]
<1>1. r \in States
    BY DEF Good, States
<1>2. /\ r.installing = s.installing /\ r.workers = s.workers /\ r.disowned = s.disowned
      /\ r.addonJob = s.addonJob /\ r.addonWorker = s.addonWorker
      /\ r.game = s.game /\ r.installed = s.installed
    BY DEF Good, States
<1> HIDE DEF r
<1>3. Good(r)
    BY <1>1, <1>2 DEF Good
<1> QED
    BY <1>3 DEF r

\* Rows of add-ons, as long as none says installing that did not.
LEMMA AddonRowsKeep ==
    ASSUME NEW s, Good(s), NEW rows \in [Addons -> Statuses],
           \A a \in Addons : rows[a] = "installing" => s.addonJob[a] = "installing"
    PROVE  Good([s EXCEPT !.addonJob = rows])
<1> DEFINE r == [s EXCEPT !.addonJob = rows]
<1>1. r \in States
    BY DEF Good, States
<1>2. /\ r.installing = s.installing /\ r.workers = s.workers /\ r.disowned = s.disowned
      /\ r.addonJob = rows /\ r.addonWorker = s.addonWorker
      /\ r.game = s.game /\ r.installed = s.installed
    BY DEF Good, States
<1> HIDE DEF r
<1>3. RowsOK(rows, s.addonWorker)
    BY DEF Good, RowsOK
<1>4. Good(r)
    BY <1>1, <1>2, <1>3 DEF Good
<1> QED
    BY <1>4 DEF r

\* cancelEntry: whatever runs on has been disowned.
LEMMA CancelEntryKeeps ==
    ASSUME NEW s, Good(s)
    PROVE  Good(CancelEntry(s))
<1> DEFINE c == [s EXCEPT !.session = NoSession]
           r == [c EXCEPT !.installing = FALSE, !.disowned = TRUE]
<1>1. CancelEntry(s) = r
    BY DEF CancelEntry, Cleared
<1>2. Good(c)
    BY SessionKeeps
<1> HIDE DEF c
<1>3. r \in States
    BY <1>2 DEF Good, States
<1>4. /\ r.installing = FALSE /\ r.workers = c.workers /\ r.disowned = TRUE
      /\ r.addonJob = c.addonJob /\ r.addonWorker = c.addonWorker
      /\ r.game = c.game /\ r.installed = c.installed
    BY <1>2 DEF Good, States
<1> HIDE DEF r
<1> QED
    BY <1>1, <1>2, <1>3, <1>4 DEF Good, LockOK

\* A finished call is the next state: rows, files and downloads nobody refers to go,
\* and nothing is disowned once no installer runs.
LEMMA BecomeKeeps ==
    ASSUME NEW s, Good(s), Become(s)
    PROVE  Good(State')
<1> DEFINE r == State'
<1>1. s \in States /\ s.workers \in [Jobs -> Nat]
    BY DEF Good, States
<1>2. r = [ job |-> s.job, downloading |-> {j \in s.downloading : s.job[j] # "none"},
            addonJob |-> s.addonJob, files |-> {f \in s.files : Referred(s, f)},
            game |-> s.game, installed |-> s.installed, session |-> s.session,
            installing |-> s.installing, workers |-> s.workers,
            addonWorker |-> s.addonWorker, disowned |-> (s.disowned /\ Busy(s.workers)) ]
    BY DEF Become, State
<1>3. (s.disowned /\ Busy(s.workers)) \in BOOLEAN
    BY DEF Busy
<1>4. r \in States
    BY <1>1, <1>2, <1>3 DEF States
<1>5. /\ r.installing = s.installing /\ r.workers = s.workers
      /\ r.disowned = (s.disowned /\ Busy(s.workers))
      /\ r.addonJob = s.addonJob /\ r.addonWorker = s.addonWorker
      /\ r.game = s.game /\ r.installed = s.installed
    BY <1>2
<1>6. LockOK(s.installing, s.workers, s.disowned /\ Busy(s.workers))
    <2>1. LockOK(s.installing, s.workers, s.disowned)
        BY DEF Good
    <2>2. Crowded(s.workers) => Busy(s.workers)
        BY <1>1 DEF Crowded, Busy
    <2> QED
        BY <2>1, <2>2 DEF LockOK
<1> HIDE DEF r
<1>7. Good(r)
    BY <1>4, <1>5, <1>6 DEF Good
<1> QED
    BY <1>7 DEF r

\* startAddonDownload
LEMMA AddonStartedKeeps ==
    ASSUME NEW s, Good(s), NEW as
    PROVE  Good(AddonStarted(s, as))
<1> DEFINE rows == [a \in Addons |-> IF a \in as /\ s.addonJob[a] \in {"none", "failed"}
                                     THEN "active" ELSE s.addonJob[a]]
<1>1. AddonStarted(s, as) = [s EXCEPT !.addonJob = rows]
    BY DEF AddonStarted
<1>2. rows \in [Addons -> Statuses]
    BY DEF Good, States, Statuses
<1>3. \A a \in Addons : rows[a] = "installing" => s.addonJob[a] = "installing"
    OBVIOUS
<1> HIDE DEF rows
<1> QED
    BY <1>1, <1>2, <1>3, AddonRowsKeep

\* pruneUnselectedAddonJobs
LEMMA PrunedKeeps ==
    ASSUME NEW s, Good(s), NEW selected
    PROVE  Good(Pruned(s, selected))
<1> DEFINE rows == [a \in Addons |-> IF a \in selected THEN s.addonJob[a] ELSE "none"]
<1>1. Pruned(s, selected) = [s EXCEPT !.addonJob = rows]
    BY DEF Pruned
<1>2. rows \in [Addons -> Statuses]
    BY DEF Good, States, Statuses
<1>3. \A a \in Addons : rows[a] = "installing" => s.addonJob[a] = "installing"
    OBVIOUS
<1> HIDE DEF rows
<1> QED
    BY <1>1, <1>2, <1>3, AddonRowsKeep

\* A row of the game gets another status, and its download starts or ends.
LEMMA RowKeeps ==
    ASSUME NEW s, Good(s), NEW j \in Jobs, NEW status \in Statuses,
           NEW down \in SUBSET Jobs, NEW f \in SUBSET ({0} \cup Addons)
    PROVE  /\ Good([s EXCEPT !.job[j] = status])
           /\ Good([s EXCEPT !.job[j] = status, !.downloading = down])
           /\ Good([s EXCEPT !.job[j] = status, !.downloading = down, !.files = f])
<1> DEFINE rows == [s.job EXCEPT ![j] = status]
           r == [s EXCEPT !.job = rows]
<1>1. rows \in [Jobs -> Statuses]
    BY DEF Good, States
<1>2. /\ [s EXCEPT !.job[j] = status] = r
      /\ [s EXCEPT !.job[j] = status, !.downloading = down]
         = [r EXCEPT !.downloading = down]
      /\ [s EXCEPT !.job[j] = status, !.downloading = down, !.files = f]
         = [r EXCEPT !.downloading = down, !.files = f]
    OBVIOUS
<1>3. r.files = s.files /\ s.files \in SUBSET ({0} \cup Addons)
    BY DEF Good, States
<1> HIDE DEF rows
<1>4. Good(r)
    BY <1>1, RowsKeep
<1> HIDE DEF r
<1>5. r \in States
    BY <1>4 DEF Good
<1>6. [r EXCEPT !.downloading = down] = [r EXCEPT !.downloading = down, !.files = r.files]
    BY <1>5 DEF States
<1>7. /\ Good([r EXCEPT !.downloading = down, !.files = r.files])
      /\ Good([r EXCEPT !.downloading = down, !.files = f])
    BY <1>3, <1>4, DownloadsKeep
<1> QED
    BY <1>2, <1>4, <1>6, <1>7

\* The callback of an installer: the lock is free, and unless the user cancelled no
\* other installer runs that it would have to protect.
LEMMA ReturnedKeeps ==
    ASSUME Good(State), NEW j \in Jobs, NEW success, workers[j] > 0
    PROVE  Good(Returned(j, success))
<1> DEFINE n == [workers EXCEPT ![j] = @ - 1]
           r == [State EXCEPT !.workers = n, !.installing = FALSE]
<1>1. Returned(j, success) = r
    BY DEF Returned, State
<1>2. workers \in [Jobs -> Nat] /\ LockOK(installing, workers, disowned)
    BY DEF Good, States, State
<1>3. n \in [Jobs -> Nat]
      /\ \A k \in Jobs : n[k] = IF k = j THEN workers[j] - 1 ELSE workers[k]
    BY <1>2
<1> HIDE DEF n
<1>4. Crowded(n) => disowned
    BY <1>2, <1>3 DEF LockOK, Crowded
<1>5. Busy(n) => disowned
    <2> SUFFICES ASSUME NEW k \in Jobs, n[k] > 0
                 PROVE  disowned
        BY DEF Busy
    <2>1. CASE k = j
        BY <1>2, <1>3, <2>1 DEF LockOK, Crowded
    <2>2. CASE k # j
        BY <1>2, <1>3, <2>2 DEF LockOK, Crowded
    <2> QED
        BY <2>1, <2>2
<1>6. LockOK(FALSE, n, disowned)
    BY <1>4, <1>5 DEF LockOK
<1>7. r \in States
    BY <1>3 DEF Good, States
<1>8. /\ r.installing = FALSE /\ r.workers = n /\ r.disowned = State.disowned
      /\ r.addonJob = State.addonJob /\ r.addonWorker = State.addonWorker
      /\ r.game = State.game /\ r.installed = State.installed
      /\ State.disowned = disowned
    BY DEF Good, States, State
<1> HIDE DEF r
<1> QED
    BY <1>1, <1>6, <1>7, <1>8 DEF Good

\* completePluginDownload
LEMMA OwnedFinishedKeeps ==
    ASSUME NEW s, Good(s), NEW j \in Jobs, installed \in SUBSET Addons
    PROVE  Good(OwnedFinished(s, j))
<1> DEFINE v == [job |-> j, selected |-> installed, done |-> FALSE]
           begun == IF j \in verifying /\ game # "absent" THEN [s EXCEPT !.session = v] ELSE s
           c == Commit(begun, TRUE)
           done == IF c.session # NoSession THEN GameDone(c) ELSE Phase(c, j, "completed")
<1>1. OwnedFinished(s, j)
        = IF j \in verifying THEN Phase(CancelEntry(done), j, "completed") ELSE done
    BY DEF OwnedFinished
<1>2. v \in Sessions
    BY DEF Sessions
<1> HIDE DEF v
<1>3. Good(begun)
    BY <1>2, SessionKeeps
<1> HIDE DEF begun
<1>4. Good(c)
    BY <1>3, CommitKeeps
<1> HIDE DEF c
<1>5. Good(done)
    BY <1>4, GameDoneKeeps, PhaseKeeps DEF Statuses
<1> HIDE DEF done
<1>6. Good(Phase(CancelEntry(done), j, "completed"))
    BY <1>5, CancelEntryKeeps, PhaseKeeps DEF Statuses
<1> QED
    BY <1>1, <1>5, <1>6

\* downloadCompleted of a job whose files have to be installed
LEMMA FilesFinishedKeeps ==
    ASSUME NEW s, Good(s), NEW j \in Jobs, NEW claimed
    PROVE  Good(FilesFinished(s, j, claimed))
BY StartInstallKeeps, CommitKeeps, PlaceholderKeeps DEF FilesFinished

--------------------------------------------------------------------------------
(***************************************************************************)
(* Every action keeps it                                                   *)
(***************************************************************************)

\* A chain from the present state to a good one.
LEMMA ChainKeeps ==
    ASSUME NEW s, Good(s), Become(s), owned' \in BOOLEAN, loaded' \in BOOLEAN,
           verifying' \in SUBSET Jobs
    PROVE  InstallInv'
BY BecomeKeeps DEF InstallInv

LEMMA StartedKeeps ==
    ASSUME Good(State), NEW j \in Jobs
    PROVE  Good(Started(State, j))
<1>1. State.downloading \cup {j} \in SUBSET Jobs
    BY DEF Good, States
<1> QED
    BY <1>1, RowKeeps DEF Started, Statuses

\* What the user and the update check ask for
LEMMA RequestKeeps ==
    ASSUME InstallInv, NEW j \in Jobs,
           \/ \E selected \in Selections : Install(j, selected)
           \/ Update(j) \/ Verify(j) \/ RetryDownload(j)
    PROVE  InstallInv'
<1>1. Good(State) /\ owned \in BOOLEAN /\ loaded \in BOOLEAN /\ verifying \in SUBSET Jobs
    BY DEF InstallInv
<1>2. Good(Started(State, j))
    BY <1>1, StartedKeeps
<1>3. ASSUME NEW selected \in Selections, Install(j, selected)
      PROVE  InstallInv'
    <2> DEFINE started == IF job[j] = "none" THEN Started(State, j) ELSE State
               pruned == Pruned(Placeholder(started), selected)
               v == [job |-> j, selected |-> selected, done |-> FALSE]
               begun == [pruned EXCEPT !.session = v]
    <2>1. Become(AddonStarted(begun, selected \cap Linked)) /\ UNCHANGED <<owned, loaded, verifying>>
        BY <1>3 DEF Install
    <2>2. v \in Sessions
        BY CountAssumption DEF Sessions
    <2> HIDE DEF v
    <2>3. Good(started)
        BY <1>1, <1>2
    <2> HIDE DEF started
    <2>4. Good(pruned)
        BY <2>3, PlaceholderKeeps, PrunedKeeps
    <2> HIDE DEF pruned
    <2>5. Good(begun)
        BY <2>2, <2>4, SessionKeeps
    <2> HIDE DEF begun
    <2>6. Good(AddonStarted(begun, selected \cap Linked))
        BY <2>5, AddonStartedKeeps
    <2> QED
        BY <1>1, <2>1, <2>6, ChainKeeps
<1>4. CASE Update(j)
    BY <1>1, <1>2, <1>4, ChainKeeps DEF Update
<1>5. CASE Verify(j)
    <2>1. (verifying \cup {j}) \in SUBSET Jobs
        BY <1>1
    <2> QED
        BY <1>1, <1>2, <1>5, <2>1, ChainKeeps DEF Verify
<1>6. CASE RetryDownload(j)
    BY <1>1, <1>2, <1>6, ChainKeeps DEF RetryDownload
<1> QED
    BY <1>3, <1>4, <1>5, <1>6

\* The user removes rows, cancels and removes the game.
LEMMA RemovalKeeps ==
    ASSUME InstallInv,
           \/ \E j \in Jobs : RemoveFinished(j) \/ CancelJob(j)
           \/ \E a \in Addons : RemoveAddonJob(a)
           \/ RemoveGame
    PROVE  InstallInv'
<1>1. Good(State) /\ owned \in BOOLEAN /\ loaded \in BOOLEAN /\ verifying \in SUBSET Jobs
    BY DEF InstallInv
<1>2. ASSUME NEW j \in Jobs, RemoveFinished(j)
      PROVE  InstallInv'
    <2>1. State.downloading \in SUBSET Jobs /\ State.files \in SUBSET ({0} \cup Addons)
        BY <1>1 DEF Good, States
    <2>2. Good([State EXCEPT !.job[j] = "none"])
        BY <1>1, <2>1, RowKeeps DEF Statuses
    <2> QED
        BY <1>1, <1>2, <2>2, ChainKeeps DEF RemoveFinished
<1>3. ASSUME NEW j \in Jobs, CancelJob(j)
      PROVE  InstallInv'
    <2> DEFINE gone == {j} \cup {k \in Jobs : job[k] \in {"failed", "installFailed"}}
               c == CancelEntry(State)
               rows == [k \in Jobs |-> IF k \in gone THEN "none" ELSE c.job[k]]
    <2>1. Become([c EXCEPT !.job = rows]) /\ verifying' = verifying \ gone
          /\ UNCHANGED <<owned, loaded>>
        BY <1>3 DEF CancelJob
    <2>2. Good(c)
        BY <1>1, CancelEntryKeeps
    <2> HIDE DEF c, gone
    <2>3. rows \in [Jobs -> Statuses]
        BY <2>2 DEF Good, States, Statuses
    <2> HIDE DEF rows
    <2>4. Good([c EXCEPT !.job = rows])
        BY <2>2, <2>3, RowsKeep
    <2> QED
        BY <1>1, <2>1, <2>4, ChainKeeps
<1>4. ASSUME NEW a \in Addons, RemoveAddonJob(a)
      PROVE  InstallInv'
    <2> DEFINE rows == [State.addonJob EXCEPT ![a] = "none"]
    <2>1. Become([State EXCEPT !.addonJob = rows]) /\ UNCHANGED <<owned, loaded, verifying>>
        BY <1>4 DEF RemoveAddonJob
    <2>2. rows \in [Addons -> Statuses]
          /\ \A b \in Addons : rows[b] = "installing" => State.addonJob[b] = "installing"
        BY <1>1 DEF Good, States, Statuses
    <2> HIDE DEF rows
    <2>3. Good([State EXCEPT !.addonJob = rows])
        BY <1>1, <2>2, AddonRowsKeep
    <2> QED
        BY <1>1, <2>1, <2>3, ChainKeeps
<1>5. CASE RemoveGame
    <2> DEFINE r == [State EXCEPT !.game = "absent", !.installed = {},
                                  !.job = [k \in Jobs |-> "none"]]
    <2>1. Become(r) /\ verifying' = {} /\ UNCHANGED <<owned, loaded>>
        BY <1>5 DEF RemoveGame
    <2>2. r \in States
        BY <1>1 DEF Good, States, Statuses
    <2>3. /\ r.installing = State.installing /\ r.workers = State.workers
          /\ r.disowned = State.disowned /\ r.addonJob = State.addonJob
          /\ r.addonWorker = State.addonWorker /\ r.installed = {}
        BY DEF State
    <2> HIDE DEF r
    <2>4. Good(r)
        BY <1>1, <2>2, <2>3 DEF Good
    <2> QED
        BY <1>1, <2>1, <2>4, ChainKeeps
<1> QED
    BY <1>2, <1>3, <1>4, <1>5

\* The user asks for an installation again.
LEMMA RetryKeeps ==
    ASSUME InstallInv,
           \/ \E j \in Jobs : RetryInstall(j) \/ ConfirmManual(j)
           \/ \E a \in Addons : RetryAddonInstall(a)
    PROVE  InstallInv'
<1>1. Good(State) /\ owned \in BOOLEAN /\ loaded \in BOOLEAN /\ verifying \in SUBSET Jobs
    BY DEF InstallInv
<1>2. ASSUME NEW j \in Jobs, RetryInstall(j)
      PROVE  InstallInv'
    <2> DEFINE a == Min({b \in Linked \ installed : HasArtifact(State, b)})
    <2>1. (Become(StartAddon(State, a, NoJob, FALSE)) \/ Become(StartInstall(State, j)))
          /\ UNCHANGED <<owned, loaded, verifying>>
        BY <1>2 DEF RetryInstall
    <2> HIDE DEF a
    <2> QED
        BY <1>1, <2>1, StartAddonKeeps, StartInstallKeeps, ChainKeeps
<1>3. ASSUME NEW j \in Jobs, ConfirmManual(j)
      PROVE  InstallInv'
    <2>1. Good(Phase(Commit(State, FALSE), j, "completed"))
        BY <1>1, CommitKeeps, PhaseKeeps DEF Statuses
    <2> QED
        BY <1>1, <1>3, <2>1, ChainKeeps DEF ConfirmManual
<1>4. ASSUME NEW a \in Addons, RetryAddonInstall(a)
      PROVE  InstallInv'
    BY <1>1, <1>4, StartAddonKeeps, ChainKeeps DEF RetryAddonInstall
<1> QED
    BY <1>2, <1>3, <1>4

\* Downloads end or report.
LEMMA DownloadKeeps ==
    ASSUME InstallInv, NEW j \in Jobs,
           (\E claimed \in BOOLEAN : DownloadFinished(j, claimed))
             \/ DownloadFailed(j) \/ DownloadReports(j)
    PROVE  InstallInv'
<1>1. /\ Good(State) /\ owned \in BOOLEAN /\ loaded \in BOOLEAN /\ verifying \in SUBSET Jobs
      /\ installed \in SUBSET Addons /\ State.downloading \ {j} \in SUBSET Jobs
      /\ State.files \cup {0} \in SUBSET ({0} \cup Addons)
    BY DEF InstallInv, Good, States, State
<1>2. ASSUME NEW claimed \in BOOLEAN, DownloadFinished(j, claimed)
      PROVE  InstallInv'
    <2> DEFINE s == [State EXCEPT !.job[j] = "completed", !.downloading = @ \ {j}]
               f == [s EXCEPT !.files = @ \cup {0}]
    <2>1. Become(IF owned THEN OwnedFinished(s, j) ELSE FilesFinished(f, j, claimed))
          /\ verifying' = verifying \ {j} /\ UNCHANGED <<owned, loaded>>
        BY <1>2 DEF DownloadFinished
    <2>2. Good(s) /\ s.downloading \in SUBSET Jobs /\ s.files \cup {0} \in SUBSET ({0} \cup Addons)
        <3>1. Good(s)
            BY <1>1, RowKeeps DEF Statuses
        <3> QED
            BY <3>1 DEF Good, States
    <2> HIDE DEF s
    <2>3. f = [s EXCEPT !.downloading = s.downloading, !.files = s.files \cup {0}]
        BY <2>2 DEF Good, States
    <2>4. Good(f)
        BY <2>2, <2>3, DownloadsKeep
    <2> HIDE DEF f
    <2>5. Good(OwnedFinished(s, j)) /\ Good(FilesFinished(f, j, claimed))
        BY <1>1, <2>2, <2>4, OwnedFinishedKeeps, FilesFinishedKeeps
    <2> QED
        BY <1>1, <2>1, <2>5, ChainKeeps
<1>3. CASE DownloadFailed(j)
    <2>1. Good([State EXCEPT !.job[j] = "failed", !.downloading = @ \ {j}])
        BY <1>1, RowKeeps DEF Statuses
    <2> QED
        BY <1>1, <1>3, <2>1, ChainKeeps DEF DownloadFailed
<1>4. CASE DownloadReports(j)
    <2>1. Good([State EXCEPT !.job[j] = "active"])
        BY <1>1, RowKeeps DEF Statuses
    <2> QED
        BY <1>1, <1>4, <2>1, ChainKeeps DEF DownloadReports
<1> QED
    BY <1>2, <1>3, <1>4

\* Downloads of add-ons start and end, and what waited for them goes on.
LEMMA AddonDownloadKeeps ==
    ASSUME InstallInv, NEW a \in Addons,
           InstallAddon(a) \/ AddonFinished(a) \/ AddonFailed(a)
    PROVE  InstallInv'
<1>1. /\ Good(State) /\ owned \in BOOLEAN /\ loaded \in BOOLEAN /\ verifying \in SUBSET Jobs
      /\ State.files \cup {a} \in SUBSET ({0} \cup Addons) /\ State.downloading \in SUBSET Jobs
    BY DEF InstallInv, Good, States
<1>2. ASSUME NEW status \in Statuses, status # "installing"
      PROVE  Good([State EXCEPT !.addonJob[a] = status])
    <2> DEFINE rows == [State.addonJob EXCEPT ![a] = status]
    <2>1. rows \in [Addons -> Statuses]
          /\ \A b \in Addons : rows[b] = "installing" => State.addonJob[b] = "installing"
        BY <1>1, <1>2 DEF Good, States
    <2>2. [State EXCEPT !.addonJob[a] = status] = [State EXCEPT !.addonJob = rows]
        OBVIOUS
    <2> HIDE DEF rows
    <2> QED
        BY <1>1, <2>1, <2>2, AddonRowsKeep
<1>3. CASE AddonFinished(a)
    <2> DEFINE s == [State EXCEPT !.addonJob[a] = "completed"]
               f == [State EXCEPT !.addonJob[a] = "completed", !.files = @ \cup {a}]
    <2>1. Become(Advance(f)) /\ UNCHANGED <<owned, loaded, verifying>>
        BY <1>3 DEF AddonFinished
    <2>2. Good(s)
        BY <1>2 DEF Statuses
    <2>3. f = [s EXCEPT !.downloading = State.downloading, !.files = State.files \cup {a}]
        BY DEF State
    <2> HIDE DEF s
    <2>4. Good(f)
        BY <1>1, <2>2, <2>3, DownloadsKeep
    <2> HIDE DEF f
    <2> QED
        BY <1>1, <2>1, <2>4, AdvanceKeeps, ChainKeeps
<1>4. CASE AddonFailed(a)
    <2> DEFINE failed == [State EXCEPT !.addonJob[a] = "failed"]
               untried == IF loaded /\ a \in Versions
                          THEN {b \in Versions \ {a} : addonJob[b] = "none"} ELSE {}
    <2>1. (Become(failed) \/ Become(AddonStarted(failed, {Max(untried)})))
          /\ UNCHANGED <<owned, loaded, verifying>>
        BY <1>4 DEF AddonFailed
    <2>2. Good(failed)
        BY <1>2 DEF Statuses
    <2> HIDE DEF failed, untried
    <2> QED
        BY <1>1, <2>1, <2>2, AddonStartedKeeps, ChainKeeps
<1>5. CASE InstallAddon(a)
    BY <1>1, <1>5, AddonStartedKeeps, ChainKeeps DEF InstallAddon
<1> QED
    BY <1>3, <1>4, <1>5

\* Marking an add-on and ending its row touch different parts of the state.
LEMMA MarkThenRow ==
    ASSUME NEW s \in States, NEW a, NEW as, NEW status
    PROVE  AddonPhase(MarkInstalled(s, as), a, status)
             = MarkInstalled(AddonPhase(s, a, status), as)
<1> DEFINE v == IF s.game = "absent" THEN s.installed ELSE s.installed \cup as
           m == [s EXCEPT !.installed = v]
           rows == [s.addonJob EXCEPT ![a] = status]
           p == [s EXCEPT !.addonJob = rows]
<1>1. MarkInstalled(s, as) = m
    BY DEF MarkInstalled
<1>2. m.addonJob = s.addonJob
    BY DEF States
<1>3. p.game = s.game /\ p.installed = s.installed
    BY DEF States
<1>4. CASE s.addonJob[a] = "none"
    BY <1>1, <1>2, <1>4 DEF AddonPhase
<1>5. CASE s.addonJob[a] # "none"
    <2>1. AddonPhase(m, a, status) = [m EXCEPT !.addonJob = rows]
        BY <1>2, <1>5 DEF AddonPhase
    <2>2. AddonPhase(s, a, status) = p
        BY <1>5 DEF AddonPhase
    <2>3. MarkInstalled(p, as) = [p EXCEPT !.installed = v]
        BY <1>3 DEF MarkInstalled
    <2> HIDE DEF v, rows
    <2>4. [m EXCEPT !.addonJob = rows] = [p EXCEPT !.installed = v]
        BY DEF States
    <2> QED
        BY <1>1, <2>1, <2>2, <2>3, <2>4
<1> QED
    BY <1>4, <1>5

\* The callback of an add-on's installer
LEMMA AddonReturnKeeps ==
    ASSUME InstallInv, NEW a \in Addons, NEW success \in BOOLEAN,
           AddonInstallerReturns(a, success)
    PROVE  InstallInv'
<1> DEFINE w == addonWorker[a]
           ws == [addonWorker EXCEPT ![a] = NoAddonInstaller]
           s == [State EXCEPT !.addonWorker[a] = NoAddonInstaller]
           ended == AddonPhase(s, a, "completed")
           added == MarkInstalled(s, {a})
           marked == AddonPhase(added, a, "completed")
<1>1. /\ Good(State) /\ owned \in BOOLEAN /\ loaded \in BOOLEAN /\ verifying \in SUBSET Jobs
    BY DEF InstallInv
<1>2. /\ Become(IF ~success THEN Cleared(Phase(ended, w.progress, "completed"))
                ELSE IF w.advances THEN Advance(marked) ELSE marked)
      /\ UNCHANGED <<owned, loaded, verifying>>
      /\ w # NoAddonInstaller
    BY DEF AddonInstallerReturns
<1>3. addonWorker \in [Addons -> Workers] /\ addonJob \in [Addons -> Statuses]
    BY <1>1 DEF Good, States, State
<1>4. w.progress \in Jobs \cup {NoJob}
    <2>1. w \in Workers
        BY <1>3
    <2> HIDE DEF w
    <2>2. CASE w \in AddonInstallers
        BY <2>2 DEF AddonInstallers
    <2>3. CASE w = NoAddonInstaller
        BY <2>3 DEF NoAddonInstaller
    <2> QED
        BY <2>1, <2>2, <2>3 DEF Workers
<1>5. /\ ws \in [Addons -> Workers]
      /\ \A b \in Addons : b # a => ws[b] = addonWorker[b]
    BY <1>3 DEF Workers
<1>6. Good(ended)
    <2> DEFINE rows == IF addonJob[a] = "none" THEN addonJob
                       ELSE [addonJob EXCEPT ![a] = "completed"]
               r == [State EXCEPT !.addonWorker = ws, !.addonJob = rows]
    <2>1. ended = r
        <3>1. s.addonJob = addonJob
            BY DEF State
        <3>2. CASE addonJob[a] = "none"
            <4>1. ended = s
                BY <3>1, <3>2 DEF AddonPhase
            <4>2. s = [State EXCEPT !.addonWorker = ws]
                BY DEF State
            <4>3. s \in States
                BY <1>1, <1>5, <4>2 DEF Good, States
            <4>4. r = [s EXCEPT !.addonJob = s.addonJob]
                BY <3>1, <3>2, <4>2
            <4> HIDE DEF s, r
            <4>5. [s EXCEPT !.addonJob = s.addonJob] = s
                BY <4>3 DEF States
            <4> QED
                BY <4>1, <4>4, <4>5
        <3>3. CASE addonJob[a] # "none"
            <4>1. ended = [s EXCEPT !.addonJob[a] = "completed"]
                BY <3>1, <3>3 DEF AddonPhase
            <4> QED
                BY <3>3, <4>1 DEF State
        <3> QED
            BY <3>2, <3>3
    <2>2. rows \in [Addons -> Statuses]
          /\ \A b \in Addons : /\ b # a => rows[b] = addonJob[b]
                               /\ b = a => rows[b] # "installing"
        BY <1>3 DEF Statuses
    <2>3. RowsOK(addonJob, addonWorker)
        BY <1>1 DEF Good, State
    <2>4. RowsOK(rows, ws)
        BY <1>5, <2>2, <2>3 DEF RowsOK
    <2> HIDE DEF rows, ws
    <2>5. r \in States
        BY <1>1, <1>5, <2>2 DEF Good, States
    <2>6. /\ r.installing = State.installing /\ r.workers = State.workers
          /\ r.disowned = State.disowned /\ r.addonJob = rows /\ r.addonWorker = ws
          /\ r.game = State.game /\ r.installed = State.installed
        BY DEF State
    <2> HIDE DEF r
    <2> QED
        BY <1>1, <2>1, <2>4, <2>5, <2>6 DEF Good
<1>7. marked = MarkInstalled(ended, {a})
    <2>1. s \in States
        BY <1>1, <1>5 DEF Good, States
    <2> HIDE DEF s
    <2> QED
        BY <2>1, MarkThenRow
<1> HIDE DEF ended, marked, w
<1>8. Good(marked)
    BY <1>6, <1>7, MarkInstalledKeeps
<1>9. Good(Cleared(Phase(ended, w.progress, "completed")))
    <2>1. Good(Phase(ended, w.progress, "completed"))
        BY <1>4, <1>6, PhaseKeeps DEF Statuses
    <2> QED
        BY <2>1, SessionKeeps DEF Cleared
<1> QED
    BY <1>1, <1>2, <1>8, <1>9, AdvanceKeeps, ChainKeeps

\* The callback of the game's installer
LEMMA ReturnKeeps ==
    ASSUME InstallInv, NEW j \in Jobs, NEW success \in BOOLEAN, NEW addons \in BOOLEAN,
           InstallerReturns(j, success, addons)
    PROVE  InstallInv'
<1> DEFINE q == Returned(j, success)
           s == Commit(q, addons)
           ready == {a \in Addons \ s.installed : HasArtifact(s, a) /\ addons
                                                  /\ s.addonWorker[a] = NoAddonInstaller}
           w == [busy |-> TRUE, progress |-> j, advances |-> FALSE]
           jobs == IF ready # {} /\ s.job[j] # "none"
                   THEN [s.job EXCEPT ![j] = "installing"] ELSE s.job
           rows == [a \in Addons |-> IF a \in ready THEN "installing" ELSE s.addonJob[a]]
           ws == [a \in Addons |-> IF a \in ready THEN w ELSE s.addonWorker[a]]
           r == [s EXCEPT !.job = jobs, !.addonJob = rows, !.addonWorker = ws]
<1>1. /\ Good(State) /\ owned \in BOOLEAN /\ loaded \in BOOLEAN /\ verifying \in SUBSET Jobs
    BY DEF InstallInv
<1>2. /\ Become(IF ~success THEN Cleared(Phase(q, j, "installFailed"))
                ELSE Reconcile(IF s.session # NoSession THEN GameDone(s)
                               ELSE Phase(r, j, "completed")))
      /\ UNCHANGED <<owned, loaded, verifying>>
      /\ workers[j] > 0
    BY DEF InstallerReturns
<1>3. Good(q)
    BY <1>1, <1>2, ReturnedKeeps
<1> HIDE DEF q
<1>4. Good(s)
    BY <1>3, CommitKeeps
<1> HIDE DEF s
<1>5. Good(r)
    <2>1. w \in Workers /\ w # NoAddonInstaller
        BY DEF Workers, AddonInstallers, NoAddonInstaller
    <2>2. s.job \in [Jobs -> Statuses] /\ s.addonJob \in [Addons -> Statuses]
          /\ s.addonWorker \in [Addons -> Workers]
        BY <1>4 DEF Good, States
    <2> HIDE DEF w, ready
    <2>3. jobs \in [Jobs -> Statuses] /\ rows \in [Addons -> Statuses]
          /\ ws \in [Addons -> Workers]
        BY <2>1, <2>2 DEF Statuses
    <2>4. RowsOK(rows, ws)
        BY <1>4, <2>1 DEF Good, RowsOK
    <2> HIDE DEF jobs, rows, ws
    <2>5. r \in States
        BY <1>4, <2>3 DEF Good, States
    <2>6. /\ r.installing = s.installing /\ r.workers = s.workers
          /\ r.disowned = s.disowned /\ r.addonJob = rows /\ r.addonWorker = ws
          /\ r.game = s.game /\ r.installed = s.installed
        BY <1>4 DEF Good, States
    <2> HIDE DEF r
    <2> QED
        BY <1>4, <2>4, <2>5, <2>6 DEF Good
<1> HIDE DEF r
<1>6. Good(Cleared(Phase(q, j, "installFailed")))
    <2>1. Good(Phase(q, j, "installFailed"))
        BY <1>3, PhaseKeeps DEF Statuses
    <2> QED
        BY <2>1, SessionKeeps DEF Cleared
<1>7. Good(Reconcile(IF s.session # NoSession THEN GameDone(s) ELSE Phase(r, j, "completed")))
    <2>1. Good(Phase(r, j, "completed"))
        BY <1>5, PhaseKeeps DEF Statuses
    <2>2. s.session # NoSession => Good(GameDone(s))
        BY <1>4, GameDoneKeeps
    <2> QED
        BY <2>1, <2>2, ReconcileKeeps
<1> QED
    BY <1>1, <1>2, <1>6, <1>7, ChainKeeps

\* Files go, plugins come and go, the program starts again.
LEMMA BackgroundKeeps ==
    ASSUME InstallInv,
           \/ \E f \in files : FilesDeleted(f)
           \/ PluginsChanged
           \/ Restart
    PROVE  InstallInv'
<1>1. /\ Good(State) /\ owned \in BOOLEAN /\ loaded \in BOOLEAN /\ verifying \in SUBSET Jobs
    BY DEF InstallInv
<1>2. ASSUME NEW f \in files, FilesDeleted(f)
      PROVE  InstallInv'
    <2> DEFINE left == State.files \ {f}
    <2>1. Become([State EXCEPT !.files = left]) /\ UNCHANGED <<owned, loaded, verifying>>
        BY <1>2 DEF FilesDeleted
    <2>2. left \in SUBSET ({0} \cup Addons) /\ State.downloading \in SUBSET Jobs
        BY <1>1 DEF Good, States
    <2>3. [State EXCEPT !.files = left]
            = [State EXCEPT !.downloading = State.downloading, !.files = left]
        BY DEF State
    <2> HIDE DEF left
    <2>4. Good([State EXCEPT !.files = left])
        BY <1>1, <2>2, <2>3, DownloadsKeep
    <2> QED
        BY <1>1, <2>1, <2>4, ChainKeeps
<1>3. CASE PluginsChanged
    BY <1>1, <1>3, ReconcileKeeps, ChainKeeps DEF PluginsChanged
<1>4. CASE Restart
    <2> DEFINE rows == [j \in Jobs |-> IF State.job[j] = "installing" THEN "active"
                                       ELSE State.job[j]]
               addons == [a \in Addons |-> IF State.addonJob[a] = "installing" THEN "active"
                                           ELSE State.addonJob[a]]
               idle == [j \in Jobs |-> 0]
               none == [a \in Addons |-> NoAddonInstaller]
               restored == [State EXCEPT !.job = rows, !.addonJob = addons,
                                         !.session = NoSession, !.installing = FALSE,
                                         !.workers = idle, !.addonWorker = none]
               shown == IF \E j \in Jobs : InProgress(restored.job[j])
                        THEN Placeholder(restored) ELSE restored
               resumed == [shown EXCEPT !.downloading = {j \in Jobs : InProgress(shown.job[j])}]
    <2>1. /\ loaded' \in BOOLEAN /\ UNCHANGED <<owned, verifying>>
          /\ Become(resumed) \/ (\E j \in Jobs : Become(StartInstall(resumed, j)))
        BY <1>4 DEF Restart
    <2>2. Good(restored)
        <3>1. State.job \in [Jobs -> Statuses] /\ State.addonJob \in [Addons -> Statuses]
            BY <1>1 DEF Good, States
        <3>2. /\ rows \in [Jobs -> Statuses] /\ addons \in [Addons -> Statuses]
              /\ idle \in [Jobs -> Nat] /\ none \in [Addons -> Workers]
              /\ NoSession \in Sessions \cup {NoSession}
            BY <3>1 DEF Statuses, Workers
        <3>3. LockOK(FALSE, idle, State.disowned) /\ RowsOK(addons, none)
            BY DEF LockOK, Busy, Crowded, RowsOK
        <3> HIDE DEF rows, addons, idle, none
        <3>4. restored \in States
            BY <1>1, <3>2 DEF Good, States
        <3>5. /\ restored.installing = FALSE /\ restored.workers = idle
              /\ restored.disowned = State.disowned /\ restored.addonJob = addons
              /\ restored.addonWorker = none /\ restored.game = State.game
              /\ restored.installed = State.installed
            BY DEF State
        <3> HIDE DEF restored
        <3> QED
            BY <1>1, <3>3, <3>4, <3>5 DEF Good
    <2> HIDE DEF restored
    <2>3. Good(shown)
        BY <2>2, PlaceholderKeeps
    <2> HIDE DEF shown
    <2>4. Good(resumed)
        <3> DEFINE down == {j \in Jobs : InProgress(shown.job[j])}
        <3>1. down \in SUBSET Jobs /\ shown.files \in SUBSET ({0} \cup Addons)
            BY <2>3 DEF Good, States
        <3>2. resumed = [shown EXCEPT !.downloading = down, !.files = shown.files]
            BY <2>3 DEF Good, States
        <3> HIDE DEF down, resumed
        <3> QED
            BY <2>3, <3>1, <3>2, DownloadsKeep
    <2> HIDE DEF resumed
    <2> QED
        BY <1>1, <2>1, <2>4, StartInstallKeeps, ChainKeeps
<1> QED
    BY <1>2, <1>3, <1>4

--------------------------------------------------------------------------------
(***************************************************************************)
(* Theorems                                                                *)
(***************************************************************************)

LEMMA InitHolds == Init => InstallInv
<1> SUFFICES ASSUME Init PROVE InstallInv
    OBVIOUS
<1> DEFINE idle == [j \in Jobs |-> 0]
           none == [a \in Addons |-> NoAddonInstaller]
<1>1. workers = idle /\ addonWorker = none /\ installing = FALSE
    BY DEF Init
<1>2. idle \in [Jobs -> Nat] /\ none \in [Addons -> Workers]
    BY DEF Workers
<1>3. LockOK(FALSE, idle, FALSE)
    BY DEF LockOK, Busy, Crowded
<1> HIDE DEF idle, none
<1>4. State \in States
    BY <1>1, <1>2 DEF Init, State, States, Statuses
<1>5. /\ State.installing = FALSE /\ State.workers = idle /\ State.disowned = FALSE
      /\ State.addonJob = [a \in Addons |-> "none"] /\ State.game = "absent"
      /\ State.installed = {}
    BY <1>1 DEF Init, State
<1>6. Good(State)
    BY <1>3, <1>4, <1>5 DEF Good, RowsOK
<1> QED
    BY <1>6 DEF Init, InstallInv

\* The invariant is inductive: installations, cancellations, callbacks that return
\* to a game that is gone, restarts and plugins that come and go all keep the lock,
\* the rows and the library together.
THEOREM InstallCorrect == Spec => []InstallInv
<1>1. Init => InstallInv
    BY InitHolds
<1>2. ASSUME InstallInv, [Next]_vars
      PROVE  InstallInv'
    <2>1. CASE UNCHANGED vars
        BY <1>2, <2>1 DEF vars, InstallInv, State
    <2>2. CASE Next
        <3>1. ASSUME NEW j \in Jobs,
                     \/ \E selected \in Selections : Install(j, selected)
                     \/ Update(j) \/ Verify(j) \/ RetryDownload(j)
              PROVE  InstallInv'
            BY <1>2, <3>1, RequestKeeps
        <3>2. ASSUME NEW j \in Jobs, RemoveFinished(j) \/ CancelJob(j)
              PROVE  InstallInv'
            BY <1>2, <3>2, RemovalKeeps
        <3>3. ASSUME NEW j \in Jobs, RetryInstall(j) \/ ConfirmManual(j)
              PROVE  InstallInv'
            BY <1>2, <3>3, RetryKeeps
        <3>4. ASSUME NEW j \in Jobs,
                     \/ \E claimed \in BOOLEAN : DownloadFinished(j, claimed)
                     \/ DownloadFailed(j) \/ DownloadReports(j)
              PROVE  InstallInv'
            BY <1>2, <3>4, DownloadKeeps
        <3>5. ASSUME NEW a \in Addons, RemoveAddonJob(a)
              PROVE  InstallInv'
            BY <1>2, <3>5, RemovalKeeps
        <3>6. ASSUME NEW a \in Addons, RetryAddonInstall(a)
              PROVE  InstallInv'
            BY <1>2, <3>6, RetryKeeps
        <3>7. ASSUME NEW a \in Addons, InstallAddon(a) \/ AddonFinished(a) \/ AddonFailed(a)
              PROVE  InstallInv'
            BY <1>2, <3>7, AddonDownloadKeeps
        <3>8. ASSUME NEW a \in Addons, NEW success \in BOOLEAN,
                     AddonInstallerReturns(a, success)
              PROVE  InstallInv'
            BY <1>2, <3>8, AddonReturnKeeps
        <3>9. ASSUME NEW j \in Jobs, NEW success \in BOOLEAN, NEW addons \in BOOLEAN,
                     InstallerReturns(j, success, addons)
              PROVE  InstallInv'
            BY <1>2, <3>9, ReturnKeeps
        <3>10. CASE RemoveGame
            BY <1>2, <3>10, RemovalKeeps
        <3>11. CASE (\E f \in files : FilesDeleted(f)) \/ PluginsChanged \/ Restart
            BY <1>2, <3>11, BackgroundKeeps
        <3> QED
            BY <2>2, <3>1, <3>2, <3>3, <3>4, <3>5, <3>6, <3>7, <3>8, <3>9, <3>10, <3>11
               DEF Next
    <2> QED
        BY <1>2, <2>1, <2>2
<1> QED
    BY <1>1, <1>2, PTL DEF Spec

\* Every variable keeps its type.
LEMMA InvTypes == InstallInv => TypeOK
BY DEF InstallInv, Good, States, State, Workers, TypeOK

\* Two installers write one game only when the user cancelled while the first one
\* ran: no retry, no second download and no restart starts another one.
THEOREM OneInstallerHolds == Spec => []OneInstaller
<1>1. InstallInv => OneInstaller
    BY InvTypes DEF InstallInv, Good, LockOK, State, OneInstaller
<1> QED
    BY <1>1, InstallCorrect, PTL

\* The lock of a game and the row of an add-on that says installing both have an
\* installer whose callback ends them: nothing waits for a callback nobody makes.
THEOREM InstallingDrivenHolds == Spec => []InstallingDriven
<1>1. InstallInv => InstallingDriven
    BY DEF InstallInv, Good, LockOK, RowsOK, State, InstallingDriven
<1> QED
    BY <1>1, InstallCorrect, PTL

================================================================================
