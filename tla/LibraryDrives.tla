----------------------------- MODULE LibraryDrives -----------------------------
(***************************************************************************)
(* The library on its drives: LibraryController's moves, removals, drives  *)
(* and scans, the workers of core_wiring_services.cpp that copy and wipe   *)
(* folders, LibraryStore with its delayed save, and the start of the       *)
(* program, which drops the rows whose folder is gone and looks for        *)
(* folders without a row.                                                  *)
(*                                                                         *)
(* A title's folder is always <drive>/<title>, so installPath and          *)
(* executableOverride are told by the drive they point into, and a drive   *)
(* by its path.                                                            *)
(***************************************************************************)
EXTENDS Naturals, FiniteSets, SequencesExt

CONSTANTS
    Paths,        \* folders that can be a drive of the library
    FirstDrives,  \* the paths of the drives at first, the first being the default
    Volume,       \* the file system of each path: a rename does not leave it
    Titles,
    HidesDots,    \* entryList skips .files, so that a copy leaves the markers behind
    MaxDrives,    \* bound on the ids given to drives
    MaxClicks,    \* bound on what the user does
    Slips         \* what else may happen, see Slip below

Nowhere == "nowhere"
ASSUME DrivesAssumption ==
    /\ FirstDrives \in Seq(Paths) /\ FirstDrives # <<>> /\ IsInjective(FirstDrives)
    /\ Nowhere \notin Paths /\ MaxDrives \in Nat /\ MaxClicks \in Nat
    /\ Slips \subseteq {"stuck", "over", "drive", "wiped", "reinstalled", "unsaved", "torn"}

VARIABLES
    drives,       \* id and path of each drive, in their order
    standard,     \* id of the default drive
    given,        \* ids given so far
    rows,         \* LibraryStore: title -> [lib, at, exe]; lib 0 is the default drive
    saved,        \* library.json
    folders,      \* path -> title -> what is there, and whether it has Arachnel's marker
    mounted,      \* the paths that were there when the program started
    moving,       \* library moves in their order; one worker runs them
    wiping,       \* title -> paths whose folder of it is to be removed
    found,        \* the scan of the start: the titles it found, and where it looked
    owned,        \* titles installed and neither removed by the user nor downloaded anew
    clicks

libraryVars == <<drives, standard, given, rows, saved, folders, mounted, moving,
                 wiping, found, owned, clicks>>

Empty == [data |-> "none", marked |-> FALSE]
LibraryIds == {d.id : d \in ToSet(drives)}
PathOf(lib) == IF lib \in LibraryIds THEN (CHOOSE d \in ToSet(drives) : d.id = lib).path ELSE Nowhere
DriveOf(row) == IF row.lib = 0 THEN standard ELSE row.lib
Exists(p, t) == p \in mounted /\ folders[p][t].data # "none"
HasMoveJob(t) == \E k \in DOMAIN moving : moving[k].title = t /\ moving[k].job

\* What only happens when the instance admits it: a file that cannot be
\* deleted, a move that fails over a folder that was there, the removal of a
\* drive a game is on its way to, a scan while a removed game is wiped or still
\* moves, a scan that takes a folder copied in part for a game, an installation
\* while its old files are moved or wiped, a kill before library.json tells that
\* a drive is gone, that a game is installed or that part of a folder is left.
Slip(s) == s \in Slips

Click == clicks < MaxClicks /\ clicks' = clicks + 1
Put(t, row) == rows' = [u \in DOMAIN rows \cup {t} |-> IF u = t THEN row ELSE rows[u]]
At(p, t, folder) == [folders EXCEPT ![p][t] = folder]

LibraryInit ==
    /\ drives = [k \in DOMAIN FirstDrives |-> [id |-> k, path |-> FirstDrives[k]]]
    /\ standard = 1 /\ given = Len(drives)
    /\ mounted = Paths /\ moving = <<>> /\ clicks = 0
    /\ wiping = [t \in Titles |-> {}]
    /\ found = [at |-> "start"]
    /\ \E listed \in SUBSET Titles, lib \in {0, 1}, exe, marker \in BOOLEAN :
          /\ rows = [t \in listed |-> [lib |-> lib, at |-> FirstDrives[1],
                                       exe |-> IF exe THEN FirstDrives[1] ELSE Nowhere]]
          /\ folders = [p \in Paths |-> [t \in Titles |->
                IF p = FirstDrives[1] /\ t \in listed
                THEN [data |-> "whole", marked |-> marker] ELSE Empty]]
          /\ owned = listed
    /\ saved = rows

----------------------------------------------------------------------------
\* StorageLibraryModel, and what LibraryController does around it.

GamesOnLibrary(lib) == {t \in DOMAIN rows : DriveOf(rows[t]) = lib}

AddLibrary(p) ==
    /\ Click
    /\ given < MaxDrives /\ p \notin {d.path : d \in ToSet(drives)}
    /\ drives' = Append(drives, [id |-> given + 1, path |-> p])
    /\ given' = given + 1
    /\ UNCHANGED <<standard, rows, saved, folders, mounted, moving, wiping, found, owned>>

\* The games on the default drive by an empty id follow the default.
SetDefaultLibrary(lib) ==
    /\ Click
    /\ lib \in LibraryIds \ {standard}
    /\ standard' = lib
    /\ UNCHANGED <<drives, given, rows, saved, folders, mounted, moving, wiping, found, owned>>

Without(lib) == RemoveAt(drives, CHOOSE k \in DOMAIN drives : drives[k].id = lib)

\* The default drive takes the games, else the last of the others.
FallbackId(lib) == IF lib # standard THEN standard ELSE Last(Without(lib)).id

\* The user confirms with "force" when there are games: they keep their paths.
DetachedTo(lib, t, id) == [rows[t] EXCEPT !.lib = id]
RemoveStorageLibrary(lib) ==
    /\ Click
    /\ lib \in LibraryIds /\ Len(drives) > 1
    /\ Slip("drive") \/ /\ \A k \in DOMAIN moving : moving[k].lib # lib
                        /\ found.at = "candidates" => lib \notin {c.lib : c \in found.titles}
    /\ drives' = Without(lib)
    /\ standard' = IF standard = lib THEN Head(drives').id ELSE standard
    /\ rows' = [t \in DOMAIN rows |->
          IF t \in GamesOnLibrary(lib) THEN DetachedTo(lib, t, FallbackId(lib)) ELSE rows[t]]
    /\ UNCHANGED <<given, saved, folders, mounted, moving, wiping, found, owned>>

----------------------------------------------------------------------------
\* Moves.

\* finalizeMovedGame: paths inside the folder that moved follow it, and when that
\* folder is unknown a path is put behind the new one, which leads nowhere; an
\* install path that leads nowhere becomes the new folder.
Relocated(p, from, to) == CASE p = from -> to [] from = Nowhere -> Nowhere [] OTHER -> p
\* Mutant of FinalizeMovedGame: the executable is not relocated.
FinalizeMovedGameOnly(t, lib, from, to) ==
    IF t \notin DOMAIN rows THEN UNCHANGED rows
    ELSE LET at == Relocated(rows[t].at, from, to) IN
         Put(t, [lib |-> lib, at |-> IF Exists(at, t) THEN at ELSE to, exe |-> rows[t].exe])
FinalizeMovedGame(t, lib, from, to) ==
    IF t \notin DOMAIN rows THEN UNCHANGED rows
    ELSE LET at == Relocated(rows[t].at, from, to) IN
         Put(t, [lib |-> lib, at |-> IF Exists(at, t) THEN at ELSE to,
                 exe |-> Relocated(rows[t].exe, from, to)])

\* moveGame: from where the drive of the row says, else from where the row says,
\* else only the row is written.  A drive that is gone has the empty path,
\* which exists.
MoveGame(t, lib) ==
    LET source == PathOf(DriveOf(rows[t]))
        from == IF source = Nowhere \/ Exists(source, t) THEN source
                ELSE IF Exists(rows[t].at, t) THEN rows[t].at ELSE Nowhere
    IN  /\ Click
        /\ t \in DOMAIN rows /\ lib \in LibraryIds \ {DriveOf(rows[t])}
        /\ PathOf(lib) \in mounted
        /\ ~HasMoveJob(t)
        /\ IF from = Nowhere
           THEN FinalizeMovedGame(t, lib, source, PathOf(lib)) /\ UNCHANGED moving
           ELSE /\ moving' = Append(moving, [title |-> t, lib |-> lib, from |-> from, to |-> PathOf(lib),
                                             step |-> "queued", over |-> "none", job |-> TRUE])
                /\ UNCHANGED rows
        /\ UNCHANGED <<drives, standard, given, saved, folders, mounted, wiping, found, owned>>

\* The worker runs the first move that has not ended.
Turn(k) == k \in DOMAIN moving /\ \A j \in 1..(k - 1) : moving[j].step \in {"done", "failed"}
Becomes(k, step) == moving' = [moving EXCEPT ![k].step = step]
WorkerStep == UNCHANGED <<drives, standard, given, rows, saved, mounted, wiping, found, owned, clicks>>

\* movePathRecursive: nothing to move is a success, and so is a rename onto
\* itself; otherwise the files are copied one by one, over those that are there.
BeginMove(k) ==
    LET m == moving[k]
        t == m.title
        there == folders[m.to][t]
    IN  /\ Turn(k) /\ m.step = "queued"
        /\ IF ~Exists(m.from, t) \/ m.from = m.to
           THEN Becomes(k, "done") /\ UNCHANGED folders
           ELSE IF Volume[m.from] = Volume[m.to] /\ there = Empty
           THEN /\ folders' = [At(m.to, t, folders[m.from][t]) EXCEPT ![m.from][t] = Empty]
                /\ Becomes(k, "done")
           ELSE /\ folders' = At(m.to, t, [data |-> IF there.data = "whole" THEN "whole" ELSE "part",
                        marked |-> there.marked \/ (folders[m.from][t].marked /\ ~HidesDots)])
                /\ moving' = [moving EXCEPT ![k].step = "copying", ![k].over = there.data]
        /\ WorkerStep

\* The copy ends; what was in the folder before is still there beside it.
EndCopy(k) ==
    LET m == moving[k]
        t == m.title
    IN  /\ Turn(k) /\ m.step = "copying" /\ Exists(m.from, t)
        /\ folders' = [folders EXCEPT ![m.to][t].data =
                          IF "whole" \in {folders[m.from][t].data, m.over} THEN "whole" ELSE "part"]
        /\ Becomes(k, "copied")
        /\ WorkerStep

\* Mutant of FailCopy: the clean-up removes the source.
FailCopyRemovesSource(k) ==
    LET m == moving[k] IN
    /\ Turn(k) /\ m.step = "copying"
    /\ Slip("over") \/ m.over # "whole" \/ ~Exists(m.from, m.title)
    /\ folders' = At(m.from, m.title, Empty)
    /\ Becomes(k, "failed")
    /\ WorkerStep

\* It fails, for want of space or because its source is wiped: the destination
\* is removed, whatever was in it.
FailCopy(k) ==
    LET m == moving[k] IN
    /\ Turn(k) /\ m.step = "copying"
    /\ Slip("over") \/ m.over # "whole" \/ ~Exists(m.from, m.title)
    /\ folders' = At(m.to, m.title, Empty)
    /\ Becomes(k, "failed")
    /\ WorkerStep

\* The source is removed.  When a file of it cannot be deleted the move has
\* failed, and the destination is removed too.
RemoveSource(k) ==
    LET m == moving[k]
        t == m.title
    IN  /\ Turn(k) /\ m.step = "copied"
        /\ \/ folders' = At(m.from, t, Empty) /\ Becomes(k, "done")
           \/ /\ Slip("stuck") /\ Exists(m.from, t)
              /\ folders' = [At(m.to, t, Empty) EXCEPT ![m.from][t].data = "part"]
              /\ Becomes(k, "failed")
        /\ WorkerStep

\* The end of the first move reaches the UI thread.
MoveEnds ==
    /\ moving # <<>>
    /\ LET m == Head(moving) IN
          /\ m.step \in {"done", "failed"}
          /\ IF m.step = "done" THEN FinalizeMovedGame(m.title, m.lib, m.from, m.to) ELSE UNCHANGED rows
    /\ moving' = Tail(moving)
    /\ UNCHANGED <<drives, standard, given, saved, folders, mounted, wiping, found, owned, clicks>>

----------------------------------------------------------------------------
\* Removals and installations.

\* removeGame with the files, as every caller asks for: the row and the jobs go
\* at once, the folders 400 ms later on a worker.
RemoveGame(t) ==
    /\ Click
    /\ t \in DOMAIN rows
    /\ Slip("wiped") \/ (found.at = "candidates" => t \notin {c.title : c \in found.titles})
    /\ wiping' = [wiping EXCEPT ![t] = @ \cup ({PathOf(DriveOf(rows[t])), rows[t].at} \ {Nowhere})]
    /\ rows' = [u \in DOMAIN rows \ {t} |-> rows[u]]
    /\ moving' = [k \in DOMAIN moving |->
                     IF moving[k].title = t THEN [moving[k] EXCEPT !.job = FALSE] ELSE moving[k]]
    /\ owned' = owned \ {t}
    /\ UNCHANGED <<drives, standard, given, saved, folders, mounted, found>>

\* removePathRecursive on one of the folders, or five attempts at it.
Wipe(t) ==
    \E p \in wiping[t] :
       /\ \/ /\ wiping' = [wiping EXCEPT ![t] = @ \ {p}]
             /\ folders' = IF p \in mounted THEN At(p, t, Empty) ELSE folders
          \/ /\ Slip("stuck") /\ Exists(p, t)
             /\ folders' = [folders EXCEPT ![p][t].data = "part"]
             /\ wiping' = [wiping EXCEPT ![t] = {}]
       /\ UNCHANGED <<drives, standard, given, rows, saved, mounted, moving, found, owned, clicks>>

\* ensureLibraryPlaceholder when a download begins: an installed game keeps its
\* row, another gets one without a folder on the drive that was chosen.
EnsureLibraryPlaceholder(t, lib) ==
    /\ Click
    /\ lib \in LibraryIds
    /\ t \in DOMAIN rows => ~Exists(rows[t].at, t)
    /\ Slip("reinstalled") \/ (wiping[t] = {} /\ \A k \in DOMAIN moving : moving[k].title # t)
    /\ Put(t, [lib |-> lib, at |-> Nowhere, exe |-> IF t \in DOMAIN rows THEN rows[t].exe ELSE Nowhere])
    /\ owned' = owned \ {t}
    /\ UNCHANGED <<drives, standard, given, saved, folders, mounted, moving, wiping, found>>

\* The end of an installation on the drive of its job: the marker, the path,
\* and an executable inside it when the plugin does not tell one.
CommitInstalledGame(t, lib) ==
    LET p == PathOf(lib) IN
    /\ t \in DOMAIN rows /\ ~Exists(rows[t].at, t)
    /\ p \in mounted
    /\ Slip("reinstalled") \/ \A k \in DOMAIN moving : moving[k].title # t
    /\ folders' = At(p, t, [data |-> "whole", marked |-> TRUE])
    /\ \E exe \in {Nowhere, p} : Put(t, [lib |-> lib, at |-> p, exe |-> exe])
    /\ owned' = owned \cup {t}
    /\ UNCHANGED <<drives, standard, given, saved, mounted, moving, wiping, found, clicks>>

----------------------------------------------------------------------------
\* The scan for installed games.

\* Marked folders whose title, or whose path, no row has, in the order of the drives.
DiscoverInstallCandidates ==
    {c \in [title : Titles \ DOMAIN rows, lib : LibraryIds, at : Paths] :
        c.at = PathOf(c.lib) /\ Exists(c.at, c.title) /\ folders[c.at][c.title].marked}

\* A drive that is added comes last and gets a new id.
FirstOf(cs) == CHOOSE c \in cs : \A d \in cs : c.lib <= d.lib

\* commitScanCandidates: every listed folder gets the marker, every candidate
\* that still has no row gets one.
CommitScanCandidates(cs) ==
    LET new == {c.title : c \in cs} \ DOMAIN rows
        Row(t) == LET c == FirstOf({d \in cs : d.title = t}) IN [lib |-> c.lib, at |-> c.at, exe |-> c.at]
    IN  /\ rows' = [t \in DOMAIN rows \cup new |-> IF t \in new THEN Row(t) ELSE rows[t]]
        /\ folders' = [p \in Paths |-> [t \in Titles |->
              IF t \in DOMAIN rows /\ rows[t].at = p /\ Exists(p, t)
              THEN [folders[p][t] EXCEPT !.marked = TRUE] ELSE folders[p][t]]]
        /\ owned' = owned \cup {t \in new : folders[Row(t).at][t].data = "whole"}
        /\ UNCHANGED saved

NothingGoes == (\A t \in Titles : wiping[t] = {}) /\ \A k \in DOMAIN moving : moving[k].job

NothingTorn == \A c \in DiscoverInstallCandidates : folders[c.at][c.title].data = "whole"
ScanAllowed == (Slip("wiped") \/ NothingGoes) /\ (Slip("torn") \/ NothingTorn)

\* On a worker at the start, and from the settings page.
StartScan ==
    /\ found.at = "start"
    /\ ScanAllowed
    /\ found' = [at |-> "candidates", titles |-> DiscoverInstallCandidates,
                 over |-> {d.path : d \in ToSet(drives)} \cap mounted]
    /\ UNCHANGED <<drives, standard, given, rows, saved, folders, mounted, moving, wiping, owned, clicks>>

EndScan ==
    /\ found.at = "candidates"
    /\ CommitScanCandidates(found.titles)
    /\ found' = [at |-> "done", over |-> found.over]
    /\ UNCHANGED <<drives, standard, given, mounted, moving, wiping, clicks>>

ScanInstalledGames ==
    /\ Click
    /\ ScanAllowed
    /\ CommitScanCandidates(DiscoverInstallCandidates)
    /\ UNCHANGED <<drives, standard, given, mounted, moving, wiping, found>>

----------------------------------------------------------------------------
\* The store, and the program that ends and starts.

Flush ==
    /\ saved # rows
    /\ saved' = rows
    /\ UNCHANGED <<drives, standard, given, rows, folders, mounted, moving, wiping, found, owned, clicks>>

\* pruneBrokenLibraryEntries on what was loaded.
PruneBrokenLibraryEntries(rs, there) ==
    [t \in {u \in DOMAIN rs : rs[u].at = Nowhere
               \/ (rs[u].at \in there /\ folders[rs[u].at][u].data # "none")} |-> rs[t]]

\* It ends in order, with the rows flushed, or is killed, and starts again with
\* some file systems there.  Workers end with it.
Restart(inOrder, there) ==
    /\ Click
    /\ inOrder \/ Slip("unsaved") \/ \A t \in DOMAIN saved :
          /\ saved[t].lib \in {0} \cup LibraryIds
          /\ t \in owned => saved[t].at # Nowhere
          /\ saved[t].at # Nowhere => folders[saved[t].at][t].data # "part"
    /\ rows' = PruneBrokenLibraryEntries(IF inOrder THEN rows ELSE saved, there)
    /\ saved' = IF inOrder THEN rows ELSE saved
    /\ mounted' = there
    /\ moving' = <<>> /\ wiping' = [t \in Titles |-> {}]
    /\ found' = [at |-> "start"]
    /\ owned' = owned \cup {t \in DOMAIN rows' : rows'[t].at # Nowhere /\ folders[rows'[t].at][t].data = "whole"}
    /\ UNCHANGED <<drives, standard, given, folders>>

LibraryNext ==
    \/ \E p \in Paths : AddLibrary(p)
    \/ \E lib \in LibraryIds : SetDefaultLibrary(lib) \/ RemoveStorageLibrary(lib)
    \/ \E t \in Titles, lib \in LibraryIds : 
          MoveGame(t, lib) \/ EnsureLibraryPlaceholder(t, lib) \/ CommitInstalledGame(t, lib)
    \/ \E k \in DOMAIN moving : BeginMove(k) \/ EndCopy(k) \/ FailCopy(k) \/ RemoveSource(k)
    \/ MoveEnds
    \/ \E t \in Titles : RemoveGame(t) \/ Wipe(t)
    \/ StartScan \/ EndScan \/ ScanInstalledGames \/ Flush
    \/ \E inOrder \in BOOLEAN, there \in SUBSET Paths : Restart(inOrder, there)

----------------------------------------------------------------------------
\* No game's files are lost before the user removes it: some folder has all of
\* them, while moves are copied, fail or are cut off, drives come and go, and
\* the program ends or is killed.
FilesKept == \A t \in owned : \E p \in Paths : folders[p][t].data = "whole"

\* A finished move whose end the UI thread has not heard of.
Arrived(t) == \E m \in ToSet(moving) : m.title = t /\ m.step = "done" /\ folders[m.to][t].data = "whole"

\* The library tells what the drives have (with the types): every row is on a
\* drive of the library, an installed game is where its row says and starts
\* from there, and an installed game that lost its row, because its drive was
\* away or library.json is older, is found again by the scan when its folder
\* has the marker.
LibraryTrue ==
    /\ rows \in [DOMAIN rows -> [lib : {0} \cup LibraryIds, at : Paths \cup {Nowhere},
                                 exe : Paths \cup {Nowhere}]]
    /\ standard \in LibraryIds /\ owned \subseteq Titles
    /\ \A t \in owned \cap DOMAIN rows :
          \/ Arrived(t)
          \/ /\ rows[t].at \in mounted /\ folders[rows[t].at][t].data = "whole"
             /\ rows[t].exe \in {Nowhere, rows[t].at}
    /\ found.at = "done" => \A t \in owned \ DOMAIN rows, p \in found.over :
          folders[p][t] # [data |-> "whole", marked |-> TRUE]
================================================================================
