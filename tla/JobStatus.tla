------------------------------- MODULE JobStatus -------------------------------
(***************************************************************************)
(* The status vocabulary of core/jobs/job_status.h.                        *)
(*                                                                         *)
(* Labels no decision tells apart are one value here:                      *)
(*   "active"         checking, metadata, downloading, seeding, starting   *)
(*   "installFailed"  status "failed" with an install-failure detail       *)
(*   "none"           there is no job entry                                *)
(* installing and moving are active in the code as well; they are kept     *)
(* apart because other code tests for them by name.                        *)
(***************************************************************************)

Statuses == {"none", "queued", "active", "installing", "moving", "paused",
             "completed", "failed", "installFailed", "cancelled"}

\* isJobActive
Active(s) == s \in {"active", "installing", "moving"}

\* isJobPaused
Paused(s) == s = "paused"

\* isJobTerminal
Terminal(s) == s \in {"completed", "failed", "installFailed", "cancelled"}

\* isJobInProgress: queued, active or paused
InProgress(s) == Active(s) \/ Paused(s) \/ s = "queued"

\* isJobRunning: excludes "queued", which is what the torrent paths hinge on
Running(s) == Active(s) \/ Paused(s)

\* the rows retryJob accepts
Retryable(s) == s \in {"failed", "installFailed", "cancelled"}

\* jobHasInstallableFiles: completed, or failed in the install phase
Installable(s) == s \in {"completed", "installFailed"}

================================================================================
