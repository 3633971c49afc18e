------------------------------- MODULE AppUpdater -------------------------------
(***************************************************************************)
(* AppUpdater: the check for a release on one of two channels, its         *)
(* download, the check of an AppImage against the checksums of the release *)
(* and the swap of the file on disk, or the start of the Windows setup.    *)
(* The user may change the channel at any time.  A dev build, which checks *)
(* nothing, is left out.                                                   *)
(***************************************************************************)
EXTENDS Naturals, Sequences, FiniteSets, SequencesExt, FiniteSetsExt

CONSTANTS
    Versions,      \* in the order of their publication: [number, letter, pre, sums, packages]
    MaxUpdateActs  \* bound on clicks and restarts

Platforms == {"AppImage", "Setup"}
Letters == 0..2    \* none, a, b
ASSUME UpdaterAssumption ==
    /\ Versions \in Seq([number : Nat, letter : Letters, pre : BOOLEAN, sums : BOOLEAN,
                         packages : SUBSET Platforms])
    /\ Versions # <<>> /\ ~Versions[1].pre /\ MaxUpdateActs \in Nat

VARIABLES
    package,       \* how this copy is packaged, "other" when it cannot replace itself
    running,       \* the release that runs
    onDisk,        \* the file that starts next: [release, whole]
    pre,           \* m_includePreReleases
    reply,         \* m_activeReply: "none", "releases", "latest", "file" or "sums"
    checking,      \* m_checking
    downloading,   \* m_downloading
    offer,         \* m_latestVersion, m_downloadUrl and m_checksumsUrl of the last answer, 0 before
    channel,       \* the channel that answer was taken for
    available,     \* m_updateAvailable
    fetched,       \* what the download brought: "whole" or "damaged"
    quitting,      \* installerLaunchRequested: the program ends
    out,           \* how many of Versions are published
    moves
updaterVars == <<package, running, onDisk, pre, reply, checking, downloading, offer, channel, available,
                 fetched, quitting, out, moves>>

Numbers == 0..Len(Versions)

----------------------------------------------------------------------------
\* compareVersionParts: on the pre-release channel a letter is newer than the
\* plain version, on the stable one older.
Newer(r, s, lettered) ==
    LET a == Versions[r] b == Versions[s] IN
    \/ a.number > b.number
    \/ /\ a.number = b.number
       /\ \/ a.letter > 0 /\ b.letter > 0 /\ a.letter > b.letter
          \/ lettered /\ a.letter > 0 /\ b.letter = 0
          \/ ~lettered /\ a.letter = 0 /\ b.letter > 0

\* handleReleasesListPayload: the one published last among those with a package
\* for this platform.  The other address names the last stable one, with or
\* without a package.
Fits(r) == package \in Versions[r].packages
Best == Max({0} \cup {r \in 1..out : Fits(r)})
Latest == Max({r \in 1..out : ~Versions[r].pre})

----------------------------------------------------------------------------
UpdaterInit ==
    /\ package \in Platforms \cup {"other"} /\ running \in DOMAIN Versions /\ out = running
    /\ onDisk = [release |-> running, whole |-> TRUE]
    /\ pre \in BOOLEAN /\ reply = "none" /\ checking = FALSE /\ downloading = FALSE
    /\ offer = 0 /\ channel = pre /\ available = FALSE /\ fetched = "none" /\ quitting = FALSE /\ moves = 0

Do == moves < MaxUpdateActs /\ moves' = moves + 1 /\ ~quitting

\* checkForUpdates, past its guard: the address depends on the channel.
Asks(p) == checking' = TRUE /\ reply' = IF p THEN "releases" ELSE "latest"

CheckForUpdates ==
    /\ Do /\ ~checking /\ ~downloading /\ Asks(pre)
    /\ UNCHANGED <<package, running, onDisk, pre, downloading, offer, channel, available, fetched, quitting, out>>

\* setIncludePreReleases: a new check, unless one runs or a download does.
SetIncludePreReleases ==
    /\ Do /\ pre' = ~pre
    /\ IF checking \/ downloading THEN UNCHANGED <<checking, reply>> ELSE Asks(~pre)
    /\ UNCHANGED <<package, running, onDisk, downloading, offer, channel, available, fetched, quitting, out>>

\* The reply is read by the channel of now.  An answer in the form of the other
\* one, and one without a release, is refused and leaves the last offer.
CheckFails ==
    /\ checking /\ checking' = FALSE /\ reply' = "none"
    /\ UNCHANGED <<package, running, onDisk, pre, downloading, offer, channel, available, fetched, quitting, out,
                   moves>>
\* Mutant of CheckAnswers: whatever is not the program that runs is offered.
CheckAnswersOther ==
    LET found == IF pre THEN Best ELSE Latest IN
    /\ checking /\ reply = (IF pre THEN "releases" ELSE "latest") /\ found # 0
    /\ checking' = FALSE /\ reply' = "none"
    /\ offer' = found /\ channel' = pre
    /\ available' = (found # running /\ Fits(found))
    /\ UNCHANGED <<package, running, onDisk, pre, downloading, fetched, quitting, out, moves>>
\* An answer that is read replaces the offer, whether it is newer or not.
CheckAnswers ==
    LET found == IF pre THEN Best ELSE Latest IN
    /\ checking /\ reply = (IF pre THEN "releases" ELSE "latest") /\ found # 0
    /\ checking' = FALSE /\ reply' = "none"
    /\ offer' = found /\ channel' = pre
    /\ available' = (Newer(found, running, pre) /\ Fits(found))
    /\ UNCHANGED <<package, running, onDisk, pre, downloading, fetched, quitting, out, moves>>

\* downloadAndInstall: without an offer it checks, without a package to replace
\* it opens the page of the release.
DownloadAndInstall ==
    /\ Do /\ ~checking /\ ~downloading
    /\ CASE ~available -> Asks(pre) /\ downloading' = FALSE
         [] available /\ package = "other" -> UNCHANGED <<checking, reply, downloading>>
         [] available /\ package # "other" ->
              downloading' = TRUE /\ reply' = "file" /\ checking' = FALSE
    /\ UNCHANGED <<package, running, onDisk, pre, offer, channel, available, fetched, quitting, out>>

\* failDownload, and a canceled reply
DownloadFails ==
    /\ reply \in {"file", "sums"} /\ reply' = "none" /\ downloading' = FALSE /\ fetched' = "none"
    /\ UNCHANGED <<package, running, onDisk, pre, checking, offer, channel, available, quitting, out, moves>>

\* installAppImage: the file is renamed over the old one.  If no helper starts
\* to run it, the program goes on as it is.
Installed(content, relaunched) ==
    /\ reply' = "none" /\ fetched' = "none"
    /\ onDisk' = [release |-> offer, whole |-> content = "whole"]
    /\ quitting' = relaunched /\ downloading' = relaunched
    /\ available' = (available /\ relaunched)

\* startDownload, finished: the setup is started as it came, if a folder to
\* install to is found.
SetupArrives(content, started) ==
    /\ reply = "file" /\ package = "Setup"
    /\ IF started THEN Installed(content, TRUE)
       ELSE /\ reply' = "none" /\ downloading' = FALSE /\ fetched' = "none"
            /\ UNCHANGED <<onDisk, quitting, available>>
    /\ UNCHANGED <<package, running, pre, checking, offer, channel, out, moves>>

\* startAppImageDownload, finished: what is no AppImage has failed; the sums
\* decide, if the release has any.
AppImageArrives(content, started) ==
    /\ reply = "file" /\ package = "AppImage"
    /\ IF Versions[offer].sums
       THEN reply' = "sums" /\ fetched' = content /\ UNCHANGED <<onDisk, quitting, downloading, available>>
       ELSE Installed(content, started)
    /\ UNCHANGED <<package, running, pre, checking, offer, channel, out, moves>>

\* Mutant of Matches: the sums are fetched, and not compared.
MatchesAnyway == TRUE
\* The sum of the download is one of those of the release.
Matches == fetched = "whole"
SumsArrive(started) ==
    /\ reply = "sums" /\ Matches /\ Installed(fetched, started)
    /\ UNCHANGED <<package, running, pre, checking, offer, channel, out, moves>>

\* The program ends, for the update or by itself, and the file on disk starts.
StartAgain ==
    /\ quitting \/ moves < MaxUpdateActs
    /\ moves' = IF quitting THEN moves ELSE moves + 1
    /\ onDisk.whole /\ running' = onDisk.release
    /\ reply' = "none" /\ checking' = FALSE /\ downloading' = FALSE /\ offer' = 0 /\ channel' = pre
    /\ available' = FALSE /\ fetched' = "none" /\ quitting' = FALSE
    /\ UNCHANGED <<package, onDisk, pre, out>>

PublishVersion ==
    /\ out < Len(Versions) /\ out' = out + 1
    /\ UNCHANGED <<package, running, onDisk, pre, reply, checking, downloading, offer, channel, available,
                   fetched, quitting, moves>>

UpdaterNext ==
    \/ CheckForUpdates \/ SetIncludePreReleases \/ CheckFails \/ CheckAnswers
    \/ DownloadAndInstall \/ DownloadFails \/ StartAgain \/ PublishVersion
    \/ \E content \in {"whole", "damaged"}, started \in BOOLEAN :
            SetupArrives(content, started) \/ AppImageArrives(content, started)
    \/ \E started \in BOOLEAN : SumsArrive(started)

----------------------------------------------------------------------------
UpdaterTypeOK ==
    /\ package \in Platforms \cup {"other"} /\ running \in DOMAIN Versions /\ out \in DOMAIN Versions
    /\ onDisk \in [release : DOMAIN Versions, whole : BOOLEAN] /\ pre \in BOOLEAN /\ channel \in BOOLEAN
    /\ reply \in {"none", "releases", "latest", "file", "sums"} /\ offer \in Numbers
    /\ fetched \in {"none", "whole", "damaged"} /\ quitting \in BOOLEAN /\ available \in BOOLEAN

\* A working AppImage is only replaced by the file the release was published
\* with, if the release says which that is; what is offered is newer in the
\* channel it was asked for, with a package for this platform; and the flags
\* that keep a check and a download apart hold while there is one, no longer.
\* (With the types.)
UpdateSound ==
    /\ UpdaterTypeOK
    /\ (package = "AppImage" /\ ~onDisk.whole) => ~Versions[onDisk.release].sums
    /\ available => (offer # 0 /\ Fits(offer) /\ Newer(offer, running, channel))
    /\ checking <=> reply \in {"releases", "latest"}
    /\ downloading <=> (reply \in {"file", "sums"} \/ quitting)

\* An update never goes back: in the order of the channel it was offered by,
\* the file on disk becomes a newer one than the program that runs, also when
\* the channel is changed while it is fetched; with the letters of the two
\* channels against each other, no channel offers forth and back by itself.
NeverBack == [][onDisk' # onDisk => Newer(onDisk'.release, running, channel)]_updaterVars
================================================================================
