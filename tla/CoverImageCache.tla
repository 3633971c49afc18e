------------------------------ MODULE CoverImageCache ------------------------------
(***************************************************************************)
(* CoverImageCache: the files of the covers, the addresses known to fail,  *)
(* and the queue of downloads in which visible cards come first.           *)
(*                                                                         *)
(* Each operator is a method: it maps a record with the fields             *)
(*    found    what is known of each URL: "unknown", "stored", "hollow"    *)
(*             (remembered as stored, but without a usable file), "failed" *)
(*    checked  the URLs whose file: address was found good, and is trusted *)
(*    pending  the queue of [url, visible]                                 *)
(*    flying   the downloads: a function from URLs to "is visible"         *)
(*    posted   the queued signals ready and failed, as [url, ok]           *)
(* to the record after the call.  The signals sent at once are left to the *)
(* caller.  Aborting a download sends its finished signal at once.         *)
(***************************************************************************)
EXTENDS Integers, Sequences, FiniteSets, SequencesExt, FiniteSetsExt

CONSTANTS
    MaxConcurrent,  \* kMaxConcurrent
    MaxPending      \* kMaxPending

ASSUME QueueAssumption == MaxConcurrent \in Nat \ {0} /\ MaxPending \in Nat

Findings == {"unknown", "stored", "hollow", "failed"}

\* localUrlFor is not empty, hasFailed
Local(w, url) == w.found[url] \in {"stored", "hollow"}
HasFailed(w, url) == w.found[url] = "failed"

InFlight(w) == DOMAIN w.flying
VisibleIn(queue) == Cardinality({i \in DOMAIN queue : queue[i].visible})

RemovePending(w, url) == [w EXCEPT !.pending = SelectSeq(@, LAMBDA item : item.url # url)]

\* trimPending: the queue is visible items, then the others, and drops the last of those.
Trimmed(queue) == SubSeq(queue, 1, Min({Len(queue), Max({VisibleIn(queue), MaxPending})}))

\* enqueue: the newest visible one jumps the queue, any other goes to its end.
Enqueue(w, url, visible) ==
    LET others == RemovePending(w, url).pending
        item == [url |-> url, visible |-> visible]
    IN  [w EXCEPT !.pending = Trimmed(IF visible THEN << item >> \o others ELSE Append(others, item))]

\* startNext: a pending URL is neither in flight, nor stored, nor failed (see TypeOK).
StartNext(w) ==
    LET count == Min({MaxConcurrent - Cardinality(InFlight(w)), Len(w.pending)})
        started == SubSeq(w.pending, 1, count)
    IN  [w EXCEPT
            !.pending = SubSeq(@, count + 1, Len(@)),
            !.flying = [url \in DOMAIN @ \cup {started[i].url : i \in 1..count} |->
                            IF url \in DOMAIN @ THEN @[url]
                            ELSE \E i \in 1..count : started[i].url = url /\ started[i].visible]]

Landed(w, url) == [w EXCEPT !.flying = Restrict(@, DOMAIN @ \ {url})]

\* preemptForVisible: a download nobody sees is aborted and queued again for each visible
\* URL that waits.  Which one is the order of a QHash.
Preempted(w) ==
    LET Unseen == {url \in InFlight(w) : ~ w.flying[url]}
        Swap(x, url) == StartNext(Enqueue(Landed(x, url), url, FALSE))
        count == Min({VisibleIn(w.pending), Cardinality(Unseen)})
        victims == SubSeq(SetToSeq(Unseen), 1, count)
    IN  IF Cardinality(InFlight(w)) < MaxConcurrent THEN w
        ELSE FoldLeft(Swap, w, victims)

\* ensure
Ensure(w, url, visible) ==
    LET queued == Enqueue(w, url, visible) IN
    CASE HasFailed(w, url) -> [w EXCEPT !.posted = Append(@, [url |-> url, ok |-> FALSE])]
      [] Local(w, url) -> [w EXCEPT !.posted = Append(@, [url |-> url, ok |-> TRUE])]
      [] url \in InFlight(w) -> [w EXCEPT !.flying[url] = @ \/ visible]
      [] OTHER -> StartNext(IF visible THEN Preempted(queued) ELSE queued)

\* Mutant: release demotes the download and leaves it its slot.
ReleaseDemotes(w, url) ==
    LET dropped == RemovePending(w, url)
    IN  StartNext(IF url \in InFlight(w) THEN [dropped EXCEPT !.flying[url] = FALSE] ELSE dropped)

\* release: a download in flight is demoted and may lose its slot.
Release(w, url) ==
    LET dropped == RemovePending(w, url)
    IN  StartNext(IF url \in InFlight(w) THEN Preempted([dropped EXCEPT !.flying[url] = FALSE])
                  ELSE dropped)

ClearAllFailed(w) ==
    [w EXCEPT !.found = [url \in DOMAIN @ |-> IF @[url] = "failed" THEN "unknown" ELSE @[url]]]

\* remove, of a URL: its download is aborted and its late answer ignored.
Removed(w, url) ==
    LET dropped == [RemovePending(w, url) EXCEPT !.found[url] = "unknown"]
    IN  IF url \in InFlight(w) THEN StartNext(Landed(dropped, url)) ELSE dropped

\* remove, of a file: address: the file is deleted, the URL is still remembered as stored.
RemovedFile(w, url) ==
    [w EXCEPT !.found[url] = IF @ = "stored" THEN "hollow" ELSE @, !.checked = @ \ {url}]

\* localUrlFor, of a file: address
GoodFile(w, url) == url \in w.checked \/ w.found[url] = "stored"
================================================================================
