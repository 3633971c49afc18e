------------------------------- MODULE JobLedger -------------------------------
(***************************************************************************)
(* What the jobs domain promises about the list of jobs, whatever moves    *)
(* the bytes: a durable ledger with write-behind.                          *)
(*                                                                         *)
(* A job is new, then live or over; a job that is over is revived by a     *)
(* retry; a job that is dropped is gone for good.  Dropping is durable at  *)
(* once, anything else when it is saved, and a restart finds the jobs that *)
(* were saved: the live ones go on (or end at once), the finished ones are *)
(* still finished (or have expired).                                       *)
(***************************************************************************)
CONSTANT Jobs

VARIABLES
    ledger,   \* the phase of each job
    saved     \* the phase a restart would find

Phases == {"new", "live", "over", "gone"}

Init ==
    /\ ledger = [j \in Jobs |-> "new"]
    /\ saved = [j \in Jobs |-> "new"]

\* A saved record of a job that does not exist yet, or no more, is none.
Begin(j) ==
    /\ ledger[j] = "new"
    /\ ledger' \in {[ledger EXCEPT ![j] = p] : p \in {"live", "over"}}
    /\ saved' = [saved EXCEPT ![j] = "gone"]

End(j) ==
    /\ ledger[j] = "live"
    /\ ledger' = [ledger EXCEPT ![j] = "over"]
    /\ UNCHANGED saved

Revive(j) ==
    /\ ledger[j] = "over"
    /\ ledger' = [ledger EXCEPT ![j] = "live"]
    /\ UNCHANGED saved

Drop(S) ==
    /\ \A j \in S : ledger[j] \in {"live", "over"}
    /\ ledger' = [j \in Jobs |-> IF j \in S THEN "gone" ELSE ledger[j]]
    /\ saved' = ledger'

Save ==
    /\ saved' = ledger
    /\ UNCHANGED ledger

\* What a restart may make of a phase it finds.
Found(p) ==
    CASE p = "live" -> {"live", "over"}
      [] p = "over" -> {"over", "gone"}
      [] OTHER -> {p}

Recover(found) ==
    /\ ledger' \in [Jobs -> Phases]
    /\ \A j \in Jobs : ledger'[j] \in Found(found[j])
    /\ saved' \in {found, ledger'}

Next ==
    \/ \E j \in Jobs : Begin(j) \/ End(j) \/ Revive(j)
    \/ \E S \in SUBSET Jobs : Drop(S)
    \/ Save
    \/ Recover(saved)
    \/ Recover(ledger)

Spec == Init /\ [][Next]_<<ledger, saved>>

================================================================================
