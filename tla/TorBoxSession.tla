----------------------------- MODULE TorBoxSession -----------------------------
(***************************************************************************)
(* TorBoxDownloadSession: one Transfer object per attempt at a job, driven *)
(* by network replies and timers whose callbacks hold the object, not the  *)
(* job.  A job that is cancelled, paused, resumed or retried has a new     *)
(* object while callbacks of the old one are still to come; the partial    *)
(* files on disk and the remote id belong to the job and outlive both.     *)
(*                                                                         *)
(* A file is Size chunks; chunk k of the source is the number k, so the    *)
(* content of a file on disk is a sequence of numbers.                     *)
(***************************************************************************)
EXTENDS Naturals, Sequences, FiniteSets, SequencesExt

CONSTANTS
    Jobs,
    MaxSlots,     \* largest value of maxConcurrentDownloads
    MaxObjects,   \* bound on the Transfer objects alive at a time
    FileCount,    \* files of a torrent
    Size          \* chunks of a file

ASSUME CountAssumption ==
    /\ MaxSlots \in Nat \ {0}
    /\ MaxObjects \in Nat \ {0}
    /\ FileCount \in Nat \ {0}
    /\ Size \in Nat \ {0}

\* A free object names some job (see Unused).
ASSUME JobsAssumption == Jobs # {}

Files == 1..FileCount

Objects == 1..MaxObjects

\* API calls, and the transfer of a file
Calls == {"create", "mylist", "requestdl", "file"}

\* What a timer of a transfer does next: repeat a call, or downloadNext
Timers == {"create", "mylist", "requestdl", "next"}

VARIABLES
    slots,     \* maxConcurrentDownloads
    current,   \* m_transfers: the object of each job in the map, 0 for none
    transfer,  \* the Transfer objects; see Collected for the ones that are free
    pumpDue,   \* a zero timer that calls pump is pending
    known,     \* the remote id is in the job's saved entry
    part,      \* content of the .sprout-part file of each file
    final      \* content of each finished file, <<>> while there is none

vars == <<slots, current, transfer, pumpDue, known, part, final>>

\* usable: there is an API key and the magnet has an info hash.  headers is
\* headersChecked; next is the next chunk the server will send.
Transfer ==
    [ job : Jobs, usable : BOOLEAN, remote : BOOLEAN, paused : BOOLEAN, started : BOOLEAN,
      index : 1..(FileCount + 1), reply : Calls \cup {"none"},
      headers : BOOLEAN, next : 1..(Size + 1), timers : SUBSET Timers ]

\* A Transfer as addJob makes it.
NewTransfer(j, usable, remote) ==
    [ job |-> j, usable |-> usable, remote |-> remote, paused |-> FALSE, started |-> FALSE,
      index |-> 1, reply |-> "none", headers |-> FALSE, next |-> 1,
      timers |-> {} ]

\* An object lives as long as the map, a reply or a timer holds it (shared_ptr).
Unused == NewTransfer(CHOOSE j \in Jobs : TRUE, FALSE, FALSE)
Held(cur, tr, a) ==
    cur[tr[a].job] = a \/ tr[a].reply # "none" \/ tr[a].timers # {}
Collected(cur, tr) ==
    [a \in Objects |-> IF Held(cur, tr, a) THEN tr[a] ELSE Unused]

Init ==
    /\ slots \in 1..MaxSlots
    /\ current = [j \in Jobs |-> 0]
    /\ transfer = [a \in Objects |-> Unused]
    /\ pumpDue = FALSE
    /\ known = [j \in Jobs |-> FALSE]
    /\ part = [j \in Jobs |-> [f \in Files |-> <<>>]]
    /\ final = [j \in Jobs |-> [f \in Files |-> <<>>]]

--------------------------------------------------------------------------------

\* current(t): the map still holds this very object and it is not paused.
Current(a) == current[transfer[a].job] = a /\ ~transfer[a].paused

\* stop: disconnect and drop the reply; timers stay.
Stopped(t) == [t EXCEPT !.reply = "none"]

WaitingIn(cur, tr) ==
    {j \in Jobs : cur[j] # 0 /\ ~tr[cur[j]].paused /\ ~tr[cur[j]].started}
ActiveIn(cur, tr) ==
    {j \in Jobs : cur[j] # 0 /\ ~tr[cur[j]].paused /\ tr[cur[j]].started}

\* Mutant of Admitted: off by one.
AdmittedOneMore(cur, tr, n) ==
    LET waiting == WaitingIn(cur, tr)
    IN  { go \in SUBSET waiting :
            go = waiting \/ Cardinality(ActiveIn(cur, tr)) + Cardinality(go) = n + 1 }

\* The transfers pump lets go; the order of the hash decides which.
Admitted(cur, tr, n) ==
    LET busy == Cardinality(ActiveIn(cur, tr))
        waiting == WaitingIn(cur, tr)
    IN  { go \in SUBSET waiting :
            Cardinality(go) = IF busy >= n THEN 0
                              ELSE IF busy + Cardinality(waiting) <= n
                              THEN Cardinality(waiting) ELSE n - busy }

\* pump over the map cur and the objects tr.  A transfer without key or hash is
\* started, fails at once, and leaves the slot to the pump its fail schedules.
Pump(cur, tr, n, due) ==
    \E go \in Admitted(cur, tr, n) :
        LET bad == {j \in go : ~tr[cur[j]].usable}
            begun(t) == [ t EXCEPT !.started = TRUE,
                          !.reply = IF ~t.usable THEN "none"
                                    ELSE IF t.remote THEN "mylist" ELSE "create" ]
        IN  /\ current' = [j \in Jobs |-> IF j \in bad THEN 0 ELSE cur[j]]
            /\ transfer' = Collected(current',
                             [ a \in Objects |->
                                 IF \E j \in go : cur[j] = a THEN begun(tr[a])
                                                            ELSE tr[a] ])
            /\ pumpDue' = (due \/ bad # {})

--------------------------------------------------------------------------------
(***************************************************************************)
(* Calls of JobOrchestrator                                                *)
(***************************************************************************)

\* addJob: for a new job, a retry, a resume, a restart.  The orchestrator never
\* hands in a job whose transfer is running.
AddJob(j, usable) ==
    /\ current[j] # 0 => transfer[current[j]].paused
    /\ \E a \in Objects :
        /\ ~Held(current, transfer, a)
        /\ \A b \in 1..(a - 1) : Held(current, transfer, b)
        /\ current' = [current EXCEPT ![j] = a]
        /\ transfer' = Collected(current',
                         [transfer EXCEPT ![a] = NewTransfer(j, usable, known[j])])
    /\ pumpDue' = TRUE
    /\ UNCHANGED <<slots, known, part, final>>

\* cancel
Cancel(j) ==
    /\ current[j] # 0
    /\ Pump([current EXCEPT ![j] = 0],
            [transfer EXCEPT ![current[j]] = Stopped(@)], slots, pumpDue)
    /\ UNCHANGED <<slots, known, part, final>>

\* setPaused(id, true); a resume goes through addJob.
Pause(j) ==
    /\ current[j] # 0
    /\ ~transfer[current[j]].paused
    /\ Pump(current,
            [ transfer EXCEPT ![current[j]] =
                [Stopped(@) EXCEPT !.paused = TRUE, !.started = FALSE] ],
            slots, pumpDue)
    /\ UNCHANGED <<slots, known, part, final>>

\* maxConcurrentDownloadsChanged
Resize(n) ==
    /\ n # slots
    /\ slots' = n
    /\ Pump(current, transfer, n, pumpDue)
    /\ UNCHANGED <<known, part, final>>

--------------------------------------------------------------------------------
(***************************************************************************)
(* Network replies and timers of a transfer                                *)
(***************************************************************************)

\* Mutant of Ends: no pump is scheduled.
EndsWithoutPump(a, t) ==
    /\ current' = [current EXCEPT ![t.job] = 0]
    /\ transfer' = Collected(current', [transfer EXCEPT ![a] = Stopped(t)])
    /\ UNCHANGED <<slots, pumpDue>>

\* fail, and the end of downloadNext: out of the map, the orchestrator is told,
\* a pump is scheduled.
Ends(a, t) ==
    /\ current' = [current EXCEPT ![t.job] = 0]
    /\ transfer' = Collected(current', [transfer EXCEPT ![a] = Stopped(t)])
    /\ pumpDue' = TRUE
    /\ UNCHANGED slots

\* The transfer goes on in its slot.
Continue(a, t) ==
    /\ transfer' = Collected(current, [transfer EXCEPT ![a] = t])
    /\ UNCHANGED <<slots, current, pumpDue>>

\* downloadNext: skip the files already there, ask for the next one's link, or
\* finish the job when there is none.
NextFile(j, from) ==
    CHOOSE i \in from..(FileCount + 1) :
        /\ \A f \in from..(i - 1) : Len(final[j][f]) = Size
        /\ i <= FileCount => Len(final[j][i]) # Size

DownloadNext(a, t) ==
    LET i == NextFile(t.job, t.index)
    IN  IF i <= FileCount
        THEN Continue(a, [t EXCEPT !.index = i, !.reply = "requestdl"])
        ELSE Ends(a, [t EXCEPT !.index = i])

\* The finished handler of an API reply starts by clearing it.
Answered(a, call) ==
    /\ transfer[a].reply = call
    /\ Current(a)

Cleared(a) == [transfer[a] EXCEPT !.reply = "none"]

\* Mutant of Busy: the call is given up without a word.
BusyGivesUp(a, call) ==
    /\ call \in {"create", "mylist", "requestdl"}
    /\ Answered(a, call)
    /\ Continue(a, Cleared(a))
    /\ UNCHANGED <<known, part, final>>

\* HTTP 429: the same call again when the timer fires.
Busy(a, call) ==
    /\ call \in {"create", "mylist", "requestdl"}
    /\ Answered(a, call)
    /\ Continue(a, [Cleared(a) EXCEPT !.timers = @ \cup {call}])
    /\ UNCHANGED <<known, part, final>>

\* A refused or failed call, an unusable answer, an error of the torrent
\* (apiRequest, createTorrent, pollTorrent, prepareFiles, downloadFile).
Refused(a, call) ==
    /\ Answered(a, call)
    /\ Ends(a, Cleared(a))
    /\ UNCHANGED <<known, part, final>>

\* createTorrent: the id is announced, which saves it, before the first poll.
TorrentCreated(a) ==
    /\ Answered(a, "create")
    /\ Continue(a, [Cleared(a) EXCEPT !.remote = TRUE, !.reply = "mylist"])
    /\ known' = [known EXCEPT ![transfer[a].job] = TRUE]
    /\ UNCHANGED <<part, final>>

\* pollTorrent: TorBox is still fetching.
StillFetching(a) ==
    /\ Answered(a, "mylist")
    /\ Continue(a, [Cleared(a) EXCEPT !.timers = @ \cup {"mylist"}])
    /\ UNCHANGED <<known, part, final>>

\* pollTorrent, prepareFiles
FilesReady(a) ==
    /\ Answered(a, "mylist")
    /\ DownloadNext(a, Cleared(a))
    /\ UNCHANGED <<known, part, final>>

\* finishFile: the part becomes the file, the next one is taken by a timer.
FinishFile(a, t) ==
    /\ final' = [final EXCEPT ![t.job][t.index] = part[t.job][t.index]]
    /\ part' = [part EXCEPT ![t.job][t.index] = <<>>]
    /\ Continue(a, [t EXCEPT !.reply = "none", !.index = @ + 1,
                                !.timers = @ \cup {"next"}])

\* downloadFile: go on after what the part file holds, or take it as it is.
LinkGiven(a) ==
    /\ Answered(a, "requestdl")
    /\ LET t == Cleared(a)
       IN  IF Len(part[t.job][t.index]) = Size
           THEN FinishFile(a, t)
           ELSE /\ Continue(a, [ t EXCEPT !.reply = "file", !.headers = FALSE,
                                             !.next = Len(part[t.job][t.index]) + 1 ])
                /\ UNCHANGED <<part, final>>
    /\ UNCHANGED known

\* The first drain sees 206 with the range asked for, or 200: the server ignored
\* the range and the part file starts over.
RangeServed(a) ==
    /\ Answered(a, "file")
    /\ ~transfer[a].headers
    /\ Continue(a, [transfer[a] EXCEPT !.headers = TRUE])
    /\ UNCHANGED <<known, part, final>>

\* Mutant of RangeIgnored: the part file is not reset.
RangeIgnoredAppends(a) ==
    /\ Answered(a, "file")
    /\ ~transfer[a].headers
    /\ Continue(a, [transfer[a] EXCEPT !.headers = TRUE, !.next = 1])
    /\ UNCHANGED <<known, part, final>>

RangeIgnored(a) ==
    /\ Answered(a, "file")
    /\ ~transfer[a].headers
    /\ Continue(a, [transfer[a] EXCEPT !.headers = TRUE, !.next = 1])
    /\ part' = [part EXCEPT ![transfer[a].job][transfer[a].index] = <<>>]
    /\ UNCHANGED <<known, final>>

\* drain writes the next chunk; one that would not fit, from a server that sends
\* too much, fails the transfer.
ChunkArrives(a) ==
    LET t == transfer[a]
    IN  /\ Answered(a, "file")
        /\ t.headers
        /\ IF Len(part[t.job][t.index]) < Size
           THEN /\ part' = [part EXCEPT ![t.job][t.index] = Append(@, t.next)]
                /\ Continue(a, [t EXCEPT !.next = @ + 1])
           ELSE UNCHANGED part /\ Ends(a, t)
        /\ UNCHANGED <<known, final>>

\* The reply of a file ends and the part has the announced size.  (Interrupted,
\* it is Refused with the part kept.)
FileReceived(a) ==
    LET t == transfer[a]
    IN  /\ Answered(a, "file")
        /\ t.headers /\ Len(part[t.job][t.index]) = Size
        /\ FinishFile(a, t)
        /\ UNCHANGED known

\* A timer of the transfer fires; it does nothing for an object that is no longer
\* current.
TimerFires(a, timer) ==
    LET t == [transfer[a] EXCEPT !.timers = @ \ {timer}]
    IN  /\ timer \in transfer[a].timers
        /\ IF ~Current(a) THEN Continue(a, t)
           ELSE IF timer = "next" THEN DownloadNext(a, t)
           ELSE Continue(a, [t EXCEPT !.reply = timer])
        /\ UNCHANGED <<known, part, final>>

PumpTimer ==
    /\ pumpDue
    /\ Pump(current, transfer, slots, FALSE)
    /\ UNCHANGED <<slots, known, part, final>>

\* The process ends: the objects and their callbacks go, files and the saved id
\* stay; what a part file had buffered may be lost.
Crash ==
    /\ current' = [j \in Jobs |-> 0]
    /\ transfer' = [a \in Objects |-> Unused]
    /\ pumpDue' = FALSE
    /\ part' \in [Jobs -> [Files -> UNION {Prefixes(part[j][f]) : j \in Jobs, f \in Files}]]
    /\ \A j \in Jobs, f \in Files : IsPrefix(part'[j][f], part[j][f])
    /\ UNCHANGED <<slots, known, final>>


ObjectsOf(j) == {a \in Objects : transfer[a].job = j}

ServerReady(j) ==
    \E a \in ObjectsOf(j) : TorrentCreated(a) \/ FilesReady(a) \/ LinkGiven(a)

ReplyHandled(j) ==
    \E a \in ObjectsOf(j) :
        \/ TorrentCreated(a)
        \/ StillFetching(a)
        \/ FilesReady(a)
        \/ LinkGiven(a)
        \/ RangeServed(a)
        \/ RangeIgnored(a)
        \/ ChunkArrives(a)
        \/ FileReceived(a)
        \/ \E call \in Calls : Busy(a, call) \/ Refused(a, call)

TimerHandled(j) ==
    \E a \in ObjectsOf(j), timer \in Timers : TimerFires(a, timer)

Next ==
    \/ \E j \in Jobs :
        \/ \E usable \in BOOLEAN : AddJob(j, usable)
        \/ Cancel(j)
        \/ Pause(j)
        \/ ReplyHandled(j)
        \/ TimerHandled(j)
    \/ \E n \in 1..MaxSlots : Resize(n)
    \/ PumpTimer
    \/ Crash

Spec == Init /\ [][Next]_vars

\* Qt runs every armed timer; setTransferTimeout ends every reply; and a server
\* that is asked again and again does not stay busy or fetching for ever.
Fairness ==
    /\ WF_vars(PumpTimer)
    /\ \A j \in Jobs : /\ WF_vars(TimerHandled(j))
                       /\ WF_vars(ReplyHandled(j))
                       /\ SF_vars(ServerReady(j))

FairSpec == Spec /\ Fairness

--------------------------------------------------------------------------------
(***************************************************************************)
(* Properties                                                              *)
(***************************************************************************)

\* Every variable keeps its type.
TypeOK ==
    /\ slots \in 1..MaxSlots
    /\ current \in [Jobs -> {0} \cup Objects]
    /\ transfer \in [Objects -> Transfer]
    /\ pumpDue \in BOOLEAN
    /\ known \in [Jobs -> BOOLEAN]
    /\ part \in [Jobs -> [Files -> Seq(1..Size)]]
    /\ final \in [Jobs -> [Files -> Seq(1..Size)]]

\* A transfer in its slot is driven by exactly one callback, a reply or a timer;
\* an object that was replaced, paused or dropped has no reply left, only timers
\* that find it stale (current, stop).
OneContinuation ==
    \A a \in Objects :
        LET t == transfer[a]
        IN  IF current[t.job] = a /\ ~t.paused /\ t.started
            THEN \/ t.reply # "none" /\ t.timers = {}
                 \/ t.reply = "none" /\ Cardinality(t.timers) = 1
            ELSE t.reply = "none"

\* Whatever was paused, cancelled, retried or lost in between, and whether or not
\* the server honours ranges, a part file is a prefix of the source and a
\* finished file is the source (downloadFile, finishFile): no two callbacks ever
\* write for one job.
FilesIntact ==
    LET source == [k \in 1..Size |-> k]
    IN  /\ OneContinuation
        /\ \A j \in Jobs, f \in Files :
            /\ IsPrefix(part[j][f], source)
            /\ final[j][f] \in {<<>>, source}

InUse == Cardinality(ActiveIn(current, transfer))

\* The types hold, and a transfer that waits while a slot is free has a pump on its
\* way; nothing else would ever start it.
NoLostWakeup ==
    /\ TypeOK
    /\ (WaitingIn(current, transfer) # {} /\ InUse < slots) => pumpDue

\* A job that is handed in and not paused finishes, fails or is cancelled: no
\* retry, timer or lost slot leaves it hanging.  The hash order of pump gives no
\* fairness between jobs, so it holds once no more of them are handed in.
Settles ==
    <>[][\A j \in Jobs, usable \in BOOLEAN : ~AddJob(j, usable)]_vars =>
    \A j \in Jobs :
        current[j] # 0 /\ ~transfer[current[j]].paused
        ~> current[j] = 0 \/ transfer[current[j]].paused

Transport ==
    INSTANCE TorBoxTransport WITH
        stage <- [ j \in Jobs |->
                     IF current[j] = 0 THEN "none"
                     ELSE IF transfer[current[j]].paused THEN "paused"
                     ELSE IF transfer[current[j]].started THEN "started"
                     ELSE "waiting" ]

\* The session is the transport the orchestrator counts on.
ImplementsTransport == Transport!Spec

================================================================================
