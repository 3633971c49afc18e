----------------------------- MODULE ContentRatings -----------------------------
(***************************************************************************)
(* ContentRatingStore: which games of the catalog Steam marks as adult.    *)
(* Applications are asked for in batches, a second apart, with a growing   *)
(* pause after a failure; the answers are saved and signalled every        *)
(* FlushEvery batches, when the queue runs dry and before a pause.  Bits   *)
(* of the descriptor mask other than the adult ones are left out.          *)
(***************************************************************************)
EXTENDS Naturals, Sequences, FiniteSets, SequencesExt

CONSTANTS
    Apps,         \* Steam applications
    AdultApps,    \* those Steam marks as adult
    BatchSize,    \* kBatchSize
    FlushEvery,   \* kFlushEveryBatches
    MaxErrors     \* bound on failing requests

ASSUME RatingsAssumption ==
    /\ AdultApps \subseteq Apps
    /\ BatchSize \in Nat \ {0} /\ FlushEvery \in Nat \ {0} /\ MaxErrors \in Nat

VARIABLES
    checked,    \* m_checked
    adult,      \* m_adult
    queue,      \* m_queue, and m_queued as a set
    inFlight,   \* the batch of the running request, <<>> when there is none
    pacing,     \* m_pacer runs
    unsaved,    \* m_dirty
    unsent,     \* m_adultDirty
    batches,    \* m_batchesSinceFlush
    onDisk,     \* content-descriptors.json: the applications it has checked
    errors      \* requests that failed so far

ratingVars == <<checked, adult, queue, inFlight, pacing, unsaved, unsent, batches, onDisk, errors>>

RatingTypeOK ==
    /\ checked \subseteq Apps /\ adult \subseteq Apps /\ onDisk \subseteq Apps
    /\ queue \in Seq(Apps) /\ IsInjective(queue) /\ ToSet(queue) \cap checked = {}
    /\ IsPrefix(inFlight, queue)
    /\ pacing \in BOOLEAN /\ unsaved \in BOOLEAN /\ unsent \in BOOLEAN
    /\ batches \in 0..FlushEvery /\ errors \in 0..MaxErrors

\* m_queued keeps an application from being queued twice.
Queued(q, apps) == FoldLeft(LAMBDA r, a : IF a \in checked \cup ToSet(r) THEN r ELSE Append(r, a), q, apps)

\* The constructor has loaded what the last session saved, the first catalog
\* has asked for what is missing.
RatingInit(apps) ==
    /\ onDisk \in SUBSET Apps
    /\ checked = onDisk /\ adult = onDisk \cap AdultApps
    /\ queue = Queued(<<>>, apps) /\ inFlight = <<>> /\ pacing = (queue # <<>>)
    /\ unsaved = FALSE /\ unsent = FALSE /\ batches = 0 /\ errors = 0

\* requestMissing: the catalog is ready.  A running request or pause picks the new ones up.
RequestMissing(apps) ==
    /\ queue' = Queued(queue, apps)
    /\ pacing' = (pacing \/ (queue' # queue /\ inFlight = <<>>))
    /\ UNCHANGED <<checked, adult, inFlight, unsaved, unsent, batches, onDisk, errors>>

\* flush: save what is new and say so when a game became an adult one.
Flush(changed) ==
    /\ batches' = 0 /\ unsaved' = FALSE /\ unsent' = FALSE
    /\ onDisk' = IF changed THEN checked' ELSE onDisk

\* fetchNext, when the pacer fires; it never does with an empty queue.
FetchNext ==
    /\ pacing /\ pacing' = FALSE
    /\ inFlight' = IF inFlight # <<>> THEN inFlight
                   ELSE SubSeq(queue, 1, IF BatchSize < Len(queue) THEN BatchSize ELSE Len(queue))
    /\ UNCHANGED <<checked, adult, queue, unsaved, unsent, batches, onDisk, errors>>

\* The answers are told: every FlushEvery batches, and the last ones.
\* Mutant of Told: the last ones are forgotten.
ToldByCount(rest) == batches + 1 >= FlushEvery
Told(rest) == batches + 1 >= FlushEvery \/ rest = 0

\* handleReply, failed: the batch stays queued, the pacer backs off.
RequestFails(announced) ==
    /\ inFlight # <<>> /\ errors < MaxErrors /\ announced = unsent
    /\ inFlight' = <<>> /\ pacing' = TRUE /\ errors' = errors + 1
    /\ UNCHANGED <<checked, adult, queue>>
    /\ Flush(unsaved)

\* handleReply, answered: an application Steam no longer lists counts as checked too.
RequestAnswered(announced) ==
    LET found == ToSet(inFlight) \cap AdultApps
        changed == unsent \/ ~(found \subseteq adult)
        due == Told(Len(queue) - Len(inFlight))
    IN
    /\ inFlight # <<>>
    /\ announced = (due /\ changed)
    /\ inFlight' = <<>>
    /\ adult' = adult \cup found
    /\ checked' = checked \cup ToSet(inFlight)
    /\ queue' = SubSeq(queue, Len(inFlight) + 1, Len(queue))
    /\ IF due THEN Flush(TRUE)
       ELSE /\ batches' = batches + 1 /\ unsaved' = TRUE /\ unsent' = changed
            /\ onDisk' = onDisk
    /\ pacing' = (pacing \/ queue' # <<>>)
    /\ UNCHANGED errors

\* Nothing to ask and nothing asked: the store has told what it knows, to its
\* listeners and to the disk, whatever failed on the way.
RatingsAtRest == queue = <<>> /\ inFlight = <<>>
RatingsTold == RatingsAtRest => (~unsaved /\ ~unsent /\ onDisk = checked)
================================================================================
