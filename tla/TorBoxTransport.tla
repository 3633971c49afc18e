---------------------------- MODULE TorBoxTransport ----------------------------
(***************************************************************************)
(* What JobOrchestrator relies on from the TorBox session: a job handed in *)
(* waits, is started when a slot is free, may be paused or cancelled, and  *)
(* only a started transfer reports an end.  JobOrchestrator models its     *)
(* m_torbox this way; TorBoxSession is the session itself.                 *)
(***************************************************************************)
EXTENDS Naturals, FiniteSets

CONSTANTS Jobs, MaxSlots

VARIABLES
    stage,   \* the stage of each job's transfer
    slots    \* maxConcurrentDownloads

Init ==
    /\ stage = [j \in Jobs |-> "none"]
    /\ slots \in 1..MaxSlots

Waiting(st) == {j \in Jobs : st[j] = "waiting"}
Started(st) == {j \in Jobs : st[j] = "started"}

\* The waiting transfers that free slots let go: all of them, or as many as fit.
Fills(st, n) ==
    { go \in SUBSET Waiting(st) :
        LET busy == Cardinality(Started(st))
        IN  IF busy >= n THEN go = {}
            ELSE \/ go = Waiting(st) /\ busy + Cardinality(go) <= n
                 \/ busy + Cardinality(go) = n }

\* Some that go may fail on the spot (no key, a bad link).
Pump(st, n) ==
    \E go \in Fills(st, n) : \E bad \in SUBSET go :
        stage' = [ j \in Jobs |-> IF j \in bad THEN "none"
                                  ELSE IF j \in go THEN "started" ELSE st[j] ]

Add(j) ==
    /\ stage[j] \in {"none", "paused"}
    /\ stage' = [stage EXCEPT ![j] = "waiting"]
    /\ UNCHANGED slots

Cancel(j) ==
    /\ stage[j] # "none"
    /\ Pump([stage EXCEPT ![j] = "none"], slots)
    /\ UNCHANGED slots

Pause(j) ==
    /\ stage[j] \in {"waiting", "started"}
    /\ Pump([stage EXCEPT ![j] = "paused"], slots)
    /\ UNCHANGED slots

Ends(j) ==
    /\ stage[j] = "started"
    /\ stage' = [stage EXCEPT ![j] = "none"]
    /\ UNCHANGED slots

PumpRuns ==
    /\ Pump(stage, slots)
    /\ UNCHANGED slots

Resize ==
    /\ slots' \in 1..MaxSlots
    /\ Pump(stage, slots')

Crash ==
    /\ stage' = [j \in Jobs |-> "none"]
    /\ UNCHANGED slots

Next ==
    \/ \E j \in Jobs : Add(j) \/ Cancel(j) \/ Pause(j) \/ Ends(j)
    \/ PumpRuns
    \/ Resize
    \/ Crash

Spec == Init /\ [][Next]_<<stage, slots>>

================================================================================
