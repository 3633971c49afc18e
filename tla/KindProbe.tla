------------------------------- MODULE KindProbe -------------------------------
(***************************************************************************)
(* InstallKindProbeService and MagnetMetadataProbe: what kind of package a *)
(* magnet link holds is learned from the names of its files, which one     *)
(* libtorrent session fetches for one link after the other.  Magnets are   *)
(* told by their info hash, names by the hash of their torrent.            *)
(*                                                                         *)
(* libtorrent runs on its own thread: calls to it and its alerts are two   *)
(* queues.  Without a session there is nothing in either.                  *)
(***************************************************************************)
EXTENDS Integers, FiniteSets, SequencesExt, Filters

CONSTANTS
    Hashes,
    Unparsed,     \* hashes of links libtorrent cannot parse
    Refused,      \* hashes of torrents the session does not add
    Telling,      \* hashes whose names tell a kind
    Entries,      \* the hashes of the catalog's entries, in its order
    Searched,     \* the positions of the entries the search text matches
    MaxNewTasks,
    Again,        \* whether a link is tried again while the session still has to
                  \* tell about a try that was given up
    MaxAsks       \* bound on what the rest of the program asks

VARIABLES
    kinds,        \* m_cacheByHash: hash -> whose names told its kind
    kindsFile,    \* install-kind-cache.json
    tasks,        \* m_queue, m_queuedHashes, m_inFlightHashes, m_current
    probing,      \* m_probesEnabled
    probe,        \* MagnetMetadataProbe
    results,      \* deliveries finish() has posted
    net,          \* the session: calls, alerts, torrents, torrents made
    unknown,      \* hashes that were asked for and given up
    asked

probeVars == <<kinds, kindsFile, tasks, probing, probe, results, net, unknown, asked>>

Nobody == "nobody"
ASSUME KindAssumption ==
    /\ Nobody \notin Hashes
    /\ Unparsed \subseteq Hashes /\ Refused \subseteq Hashes /\ Telling \subseteq Hashes
    /\ Entries \in Seq(Hashes) /\ Searched \in Seq(DOMAIN Entries)
    /\ MaxNewTasks \in Nat /\ MaxAsks \in Nat /\ Again \in BOOLEAN
NoSession == [calls |-> <<>>, alerts |-> <<>>, torrents |-> <<>>, made |-> 0]
Idle == [busy |-> FALSE, hash |-> Nobody, handle |-> 0, generation |-> 0, polls |-> FALSE, idles |-> FALSE]
NoTasks == [queue |-> <<>>, queued |-> {}, flying |-> {}, current |-> Nobody]

KindInit ==
    /\ kinds = <<>> /\ kindsFile = <<>> /\ unknown = {} /\ asked = 0
    /\ tasks = NoTasks /\ probing = TRUE
    /\ probe = Idle /\ results = <<>> /\ net = NoSession

----------------------------------------------------------------------------
\* MagnetMetadataProbe

Started(p, h) == [p EXCEPT !.busy = TRUE, !.hash = h, !.handle = 0, !.polls = TRUE, !.idles = FALSE]
Called(n, what, about) == [n EXCEPT !.calls = Append(@, [what |-> what, about |-> about])]

\* One alert of a poll: a torrent of a probe that timed out is removed, what is
\* not about the current torrent is skipped, nothing is heard after the end.
Hear(s, alert) ==
    LET ours == alert.hash = probe.hash
        mine == alert.torrent = s.handle
    IN  IF s.over THEN s
        ELSE CASE alert.what = "added" -> IF ours THEN [s EXCEPT !.handle = alert.torrent]
                                          ELSE [s EXCEPT !.net = Called(@, "remove", alert.torrent)]
               [] alert.what = "refused" -> [s EXCEPT !.over = ours]
               [] alert.what = "metadata" -> IF mine THEN [s EXCEPT !.net = Called(@, "save", alert.torrent)] ELSE s
               [] alert.what = "names" -> IF mine THEN [s EXCEPT !.over = TRUE, !.names = alert.hash] ELSE s
               [] OTHER -> [s EXCEPT !.over = mine]

\* finish: the torrent is removed, the result is posted, and the probe stays
\* busy until it is delivered.
Finish(s) ==
    /\ probe' = [probe EXCEPT !.polls = FALSE, !.idles = TRUE, !.hash = Nobody, !.handle = 0]
    /\ net' = IF s.handle = 0 THEN s.net ELSE Called(s.net, "remove", s.handle)
    /\ results' = Append(results, [generation |-> probe.generation, names |-> s.names])

Poll(late) ==
    LET before == [over |-> FALSE, names |-> Nobody, handle |-> probe.handle,
                   net |-> [net EXCEPT !.alerts = <<>>]]
        hear[k \in 0..Len(net.alerts)] == IF k = 0 THEN before ELSE Hear(hear[k - 1], net.alerts[k])
        heard == hear[Len(net.alerts)]
    IN  /\ probe.polls
        /\ IF heard.over \/ late
           THEN Finish(heard)
           ELSE /\ probe' = [probe EXCEPT !.handle = heard.handle]
                /\ net' = heard.net
                /\ UNCHANGED results
        /\ UNCHANGED <<kinds, kindsFile, tasks, probing, unknown, asked>>

Cancelled(p) == [Idle EXCEPT !.generation = p.generation + 1]

\* dropIdleSession
IdleTimeout ==
    /\ probe.idles
    /\ probe' = [probe EXCEPT !.idles = FALSE]
    /\ net' = IF probe.busy THEN net ELSE NoSession
    /\ UNCHANGED <<kinds, kindsFile, tasks, probing, results, unknown, asked>>

----------------------------------------------------------------------------
\* The session's thread: libtorrent.

Told(n, what, torrent, hash) ==
    [n EXCEPT !.alerts = Append(@, [what |-> what, torrent |-> torrent, hash |-> hash])]
NetStep == UNCHANGED <<kinds, kindsFile, tasks, probing, probe, results, unknown, asked>>

\* A torrent that is there already is not added again.
Add(n, h) ==
    LET there == {t \in DOMAIN n.torrents : n.torrents[t].hash = h} IN
    IF there # {} THEN Told(n, "added", CHOOSE t \in there : TRUE, h)
    ELSE Told([n EXCEPT !.made = @ + 1,
                        !.torrents = [t \in DOMAIN @ \cup {n.made + 1} |->
                            IF t > n.made THEN [hash |-> h, stage |-> "asking"] ELSE @[t]]],
              "added", n.made + 1, h)

Session ==
    /\ net.calls # <<>>
    /\ LET call == Head(net.calls)
           t == call.about
           n == [net EXCEPT !.calls = Tail(@)]
       IN  CASE call.what = "add" -> net' = IF t \in Refused THEN Told(n, "refused", 0, t) ELSE Add(n, t)
             [] call.what = "remove" ->
                   net' = [n EXCEPT !.torrents = [u \in DOMAIN @ \ {t} |-> @[u]]]
             [] OTHER -> net' = IF t \in DOMAIN n.torrents
                                THEN Told(n, "names", t, n.torrents[t].hash) ELSE n
    /\ NetStep

Peers(t) ==
    /\ net.torrents[t].stage = "asking"
    /\ \E what \in {"metadata", "failed"} :
          net' = Told([net EXCEPT !.torrents[t].stage = "told"], what, t, net.torrents[t].hash)
    /\ NetStep

----------------------------------------------------------------------------
\* InstallKindProbeService

EnqueueTask(s, h, front) ==
    IF h \in s.queued \cup s.flying THEN s
    ELSE [s EXCEPT !.queued = @ \cup {h}, !.queue = IF front THEN <<h>> \o @ ELSE Append(@, h)]

\* pumpQueue: links that cannot be parsed are dropped, the first other one is
\* started.
PumpQueue(s, p, n) ==
    LET good == SelectInSeq(s.queue, LAMBDA h : h \in Hashes \ Unparsed)
        gone == IF good = 0 THEN Len(s.queue) ELSE good
        left == [s EXCEPT !.queue = SubSeq(@, gone + 1, Len(@)), !.queued = @ \ ToSet(SubSeq(s.queue, 1, gone))]
    IN  IF ~probing' \/ p.busy
        THEN tasks' = s /\ probe' = p /\ net' = n
        ELSE IF good = 0
        THEN tasks' = left /\ probe' = p /\ net' = n
        ELSE LET h == s.queue[good] IN
             /\ tasks' = [left EXCEPT !.flying = @ \cup {h}, !.current = h]
             /\ probe' = Started(p, h)
             /\ net' = Called(n, "add", h)

Ask == asked < MaxAsks /\ asked' = asked + 1
Untold(h) == (\E call \in ToSet(net.calls) : call.what = "add" /\ call.about = h)
             \/ \E alert \in ToSet(net.alerts) : alert.hash = h
Renewed(hs) ==
    /\ Again \/ \A h \in hs \cap unknown : ~Untold(h)
    /\ unknown' = unknown \ hs
Asking == UNCHANGED <<kinds, kindsFile, results>>

\* queueCatalog: what the search matches goes to the front, one after the
\* other, then everything; a task counts although it is queued already.
QueueCatalog(searching) ==
    LET Uncached(hs) == Only(hs, Hashes \ DOMAIN kinds)
        first == IF searching THEN Uncached([k \in 1..Len(Searched) |-> Entries[Searched[k]]]) ELSE <<>>
        all == first \o Uncached(Entries)
        new == [k \in 1..(IF Len(all) < MaxNewTasks THEN Len(all) ELSE MaxNewTasks) |->
                   [hash |-> all[k], front |-> k <= Len(first)]]
        line[k \in 0..Len(new)] == IF k = 0 THEN tasks ELSE EnqueueTask(line[k - 1], new[k].hash, new[k].front)
    IN  /\ Ask
        /\ probing' = probing
        /\ PumpQueue(line[Len(new)], probe, net)
        /\ Renewed({task.hash : task \in ToSet(new)})
        /\ Asking

PrioritizeEntry(h) ==
    /\ Ask
    /\ h \notin DOMAIN kinds
    /\ probing' = probing
    /\ PumpQueue(EnqueueTask(tasks, h, TRUE), probe, net)
    /\ Renewed({h})
    /\ Asking

\* A probe that is cut off goes back to the front of the queue.
SetBackgroundProbesEnabled ==
    /\ Ask
    /\ probing' = ~probing
    /\ IF probing
       THEN /\ tasks' = IF ~probe.busy THEN tasks
                        ELSE EnqueueTask([tasks EXCEPT !.current = Nobody, !.flying = @ \ {tasks.current}],
                                         tasks.current, TRUE)
            /\ probe' = Cancelled(probe) /\ net' = NoSession
       ELSE PumpQueue(tasks, probe, net)
    /\ UNCHANGED unknown /\ Asking

\* The result, unless the probe was cancelled, and handleProbeFinished.
\* Mutant of Delivered: the result of a cancelled probe counts too.
DeliveredAlways(result) == result.generation <= probe.generation
Delivered(result) == result.generation = probe.generation
HandleProbeFinished ==
    /\ results # <<>>
    /\ results' = Tail(results) /\ probing' = probing
    /\ LET names == Head(results).names
           task == tasks.current
           told == names \in Telling /\ task # Nobody
       IN  IF ~Delivered(Head(results)) THEN UNCHANGED <<kinds, tasks, probe, net, unknown>>
           ELSE /\ kinds' = IF told THEN [h \in DOMAIN kinds \cup {task} |->
                                             IF h = task THEN names ELSE kinds[h]] ELSE kinds
                /\ unknown' = IF told THEN unknown ELSE unknown \cup {task}
                /\ PumpQueue([tasks EXCEPT !.current = Nobody, !.flying = @ \ {task}],
                             [probe EXCEPT !.busy = FALSE], net)
    /\ UNCHANGED <<kindsFile, asked>>

\* The timer saves the kinds; the program ends without that, or in the middle
\* of it, which leaves a file that is not read.
PersistCache ==
    /\ kindsFile # kinds
    /\ kindsFile' = kinds
    /\ UNCHANGED <<kinds, tasks, probing, probe, results, net, unknown, asked>>

LoadCache ==
    /\ Ask
    /\ kinds' \in {kindsFile, <<>>} /\ kindsFile' = kinds'
    /\ tasks' = NoTasks /\ probing' = TRUE /\ unknown' = {}
    /\ probe' = Idle /\ results' = <<>> /\ net' = NoSession

KindNext ==
    \/ \E late \in BOOLEAN : Poll(late)
    \/ IdleTimeout \/ Session
    \/ \E t \in DOMAIN net.torrents : Peers(t)
    \/ \E searching \in BOOLEAN : QueueCatalog(searching)
    \/ \E h \in Hashes : PrioritizeEntry(h)
    \/ SetBackgroundProbesEnabled
    \/ HandleProbeFinished \/ PersistCache \/ LoadCache

----------------------------------------------------------------------------
\* A link's kind is told by its own files: no result reaches another link's
\* task, through probes that are cut off, that time out before their torrent is
\* added, and that are tried again.
KindsTrue == \A file \in {kinds, kindsFile} : \A h \in DOMAIN file : file[h] = h

\* The queue never stands still and forgets nothing (with the types): a free
\* probe means an empty queue, a busy one polls or has posted its result, the
\* sets agree with the queue and the task, and no torrent stays in the session
\* without anyone who will remove it.
ProbesGoOn ==
    /\ tasks.queue \in Seq(Hashes) /\ tasks.queued = ToSet(tasks.queue) /\ IsInjective(tasks.queue)
    /\ tasks.flying = {tasks.current} \ {Nobody} /\ (tasks.current # Nobody) = probe.busy
    /\ tasks.queued \cap tasks.flying = {}
    /\ probing /\ ~probe.busy => tasks.queue = <<>>
    /\ probe.busy => probe.polls \/ \E r \in ToSet(results) : r.generation = probe.generation
    /\ \A t \in DOMAIN net.torrents :
          \/ t = probe.handle
          \/ \E call \in ToSet(net.calls) : call.what = "remove" /\ call.about = t
          \/ \E alert \in ToSet(net.alerts) : alert.what = "added" /\ alert.torrent = t

\* What the program may rely on: kinds that are true and a queue that goes on.
ProbesSound == KindsTrue /\ ProbesGoOn
================================================================================
