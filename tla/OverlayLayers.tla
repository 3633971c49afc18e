------------------------------- MODULE OverlayLayers -------------------------------
(***************************************************************************)
(* The Steam compatibility layers in the folder of one installed game:     *)
(* Online Fix, the SteamFix kit that replaces it when it refuses a game,   *)
(* and an Unsteam somebody put there.  What is on is nowhere but in the    *)
(* names of the files, and three actors rename, copy and move them: the    *)
(* switch in the game's settings, a launch with its delayed conversion and *)
(* fallback, and the plugin that verifies the files and embeds Online Fix  *)
(* again at the end.                                                       *)
(*                                                                         *)
(* All but the plugin run on the UI thread.  OnlineFix64.dll stands for    *)
(* every DLL of Online Fix but winmm.dll; the session of a launch is in    *)
(* LaunchSession.                                                          *)
(***************************************************************************)
EXTENDS Naturals, Sequences, FiniteSets, SequencesExt

CONSTANTS
    Walk,       \* the folders, as findOverlayDirs comes across them; the first is the install root
    MaxClicks,  \* bound on what the user does
    MaxFaults,  \* bound on files that cannot be renamed or copied
    Promised    \* what happens around a verification and still leaves Online Fix as the user did

Dirs == Range(Walk)
Root == Walk[1]
Incidents == {"switched", "removed", "crash"}

ASSUME OverlayAssumption ==
    /\ Walk \in Seq(STRING) /\ Len(Walk) > 1 /\ Cardinality(Dirs) = Len(Walk)
    /\ MaxClicks \in Nat /\ MaxFaults \in Nat
    /\ Promised \subseteq Incidents

VARIABLES
    disk,      \* for each folder, whose content is in each of its files
    backup,    \* where the Online Fix files in the backups were moved from
    marker,    \* "enabled" in .arachnel-steamidra
    exe,       \* the folder of the executable
    running,   \* the game runs
    watching,  \* m_watchingOnlineFix
    used,      \* m_onlineFixFallbackUsed
    relaunch,  \* m_relaunchWithoutOnlineFix
    pending,   \* single shots that have not fired
    verify,    \* how far the plugin is with a verification
    keepsOff,  \* m_verifyKeepsOnlineFixOff holds the job
    shipped,   \* history: the Online Fix files that came with the game or were embedded
    wanted,    \* history: how Online Fix was last left on purpose
    switched,  \* history: a conversion succeeded and nothing was embedded since
    clicks, faults

vars == << disk, backup, marker, exe, running, watching, used, relaunch, pending, verify,
           keepsOff, shipped, wanted, switched, clicks, faults >>

launch == << running, watching, used, relaunch, pending >>

OverlayDlls == << "winmm.dll", "SteamFix64.dll", "OnlineFix64.dll" >>
Renamed == << "winmm.dll", "SteamFix64.dll", "OnlineFix64.dll", "steam_appid.txt" >>
KitFiles == << "SteamFix64.dll", "winmm.dll", "winmm.txt", "SteamFix.ini" >>
OnlineFixFiles == << "OnlineFix.ini", "dlllist.txt", "winmm.dll", "OnlineFix64.dll" >>
Texts == {"SteamFix.ini", "OnlineFix.ini", "winmm.txt", "dlllist.txt"}
Names == Range(OverlayDlls) \cup Texts
         \cup {"unsteam.dll", "unsteam.ini", "unsteam_loader64.exe", "steam_appid.txt"}
Owners == {"fix", "kit", "unsteam", "text"}

\* A file has its name or, renamed off, its name with .arachnel-off.
On(name) == << name, "on" >>
Off(name) == << name, "off" >>
Files == Names \X {"on", "off"}

NoFiles == << >>
Nothing == << "no folder", "no file" >>  \* no operation is stuck

\* What is come to in an order before it stops at one of some.
Reached(order, stops) ==
    {order[i] : i \in {j \in DOMAIN order : \A k \in 1..j : order[k] \notin stops}}

\* the folder the scan comes across first
FirstOf(dirs, otherwise) ==
    IF dirs = {} THEN otherwise
    ELSE Walk[CHOOSE i \in DOMAIN Walk : Walk[i] \in dirs /\ \A j \in 1..(i - 1) : Walk[j] \notin dirs]

Has(f, file) == file \in DOMAIN f
Put(f, file, owner) == [x \in DOMAIN f \cup {file} |-> IF x = file THEN owner ELSE f[x]]
Without(f, files) == [x \in DOMAIN f \ files |-> f[x]]
Rename(f, from, to) == IF Has(f, from) THEN Put(Without(f, {from}), to, f[from]) ELSE f

--------------------------------------------------------------------------------
(***************************************************************************)
(* What the code makes of the files it finds.                              *)
(***************************************************************************)
WinmmBelongsToUnsteam(f) ==
    Has(f, On("unsteam.dll")) \/ Has(f, On("unsteam.ini")) \/ Has(f, Off("unsteam.dll"))

UnsteamIsLiveIn(f) == Has(f, On("unsteam.dll")) /\ Has(f, On("winmm.dll"))

ActiveDll(f) ==
    \E name \in Range(OverlayDlls) :
        Has(f, On(name)) /\ (name = "winmm.dll" => ~WinmmBelongsToUnsteam(f))

DisabledOverlay(f) == \E name \in Range(OverlayDlls) : Has(f, Off(name))

LooksLikeOverlay(f) ==
    ActiveDll(f) \/ DisabledOverlay(f) \/ \E name \in Texts : Has(f, On(name))

OverlayDirs(dk) == {d \in Dirs : LooksLikeOverlay(dk[d])}

FakeAppIdMode(f) ==
    /\ Has(f, On("steam_appid.txt"))
    /\ \E name \in Texts \ {"dlllist.txt"} : Has(f, On(name))
    /\ ~DisabledOverlay(f)

LiveIn(f) == (ActiveDll(f) \/ FakeAppIdMode(f)) /\ ~UnsteamIsLiveIn(f)

\* detectOnlineFixOverlay.  Without any overlay folder the marker decides.
DetectOnlineFix(dk) ==
    LET dirs == OverlayDirs(dk)
        live == {d \in dirs : LiveIn(dk[d])}
        parked == {d \in dirs : DisabledOverlay(dk[d])}
    IN IF dirs = {}
       THEN [present |-> marker # "none", enabled |-> marker = "on", dir |-> Root]
       ELSE [present |-> TRUE, enabled |-> live # {},
             dir |-> FirstOf(live, FirstOf(parked, FirstOf(dirs, Root)))]

UnsteamOn(f) ==
    Has(f, On("unsteam.dll")) /\ (Has(f, On("unsteam_loader64.exe")) \/ Has(f, On("winmm.dll")))

\* detectUnsteamOverlay: the folders where it is on, of which it reports the first
DetectUnsteam(dk) ==
    {d \in Dirs : (d = Root \/ Has(dk[d], On("unsteam.ini"))) /\ UnsteamOn(dk[d])}

--------------------------------------------------------------------------------
(***************************************************************************)
(* What the code does to the files.  An operation that can fail on the way *)
(* tells what it leaves and whether it is ok; stuck is the file at which   *)
(* it fails.                                                               *)
(***************************************************************************)

\* the names a file has before and after it is switched
From(enable, name) == IF enable THEN Off(name) ELSE On(name)
To(enable, name) == IF enable THEN On(name) ELSE Off(name)

\* renameOverlayInDir: what has the target name is removed before the rename that may fail;
\* that steam_appid.txt could not be renamed is not told.
RenameOverlay(f, d, enable, stuck) ==
    LET stops == {name \in Range(Renamed) : stuck = << d, name >> /\ Has(f, From(enable, name))}
        moved == {name \in Reached(Renamed, stops) : Has(f, From(enable, name))}
        left == DOMAIN f \ ({From(enable, name) : name \in moved}
                            \cup {To(enable, name) : name \in stops})
    IN [files |-> [x \in left \cup {To(enable, name) : name \in moved} |->
                      IF x[1] \in moved /\ x = To(enable, x[1])
                      THEN f[From(enable, x[1])] ELSE f[x]],
        ok |-> stops \subseteq {"steam_appid.txt"}]

\* setOnlineFixOverlayEnabled: folder by folder, up to the first that fails
SetOverlay(dk, enable, stuck) ==
    LET Result(d) == RenameOverlay(dk[d], d, enable, stuck)
        failing == {d \in OverlayDirs(dk) : ~Result(d).ok}
        done == (Reached(Walk, failing) \cup failing) \cap OverlayDirs(dk)
    IN [disk |-> [d \in Dirs |-> IF d \in done THEN Result(d).files ELSE dk[d]],
        ok |-> failing = {}]

\* setUnsteamOverlayEnabled(false)
UnsteamOff(dk) ==
    LET d == FirstOf(DetectUnsteam(dk), Root)
        proxy == Rename(dk[d], On("winmm.dll"), Off("winmm.dll"))
    IN [dk EXCEPT ![d] = Rename(proxy, On("unsteam.dll"), Off("unsteam.dll"))]

\* LibraryController::setGameOnlineFixEnabled
SetOnlineFix(dk, enable, stuck) ==
    SetOverlay(IF enable /\ DetectUnsteam(dk) # {} THEN UnsteamOff(dk) ELSE dk, enable, stuck)

\* the files dlllist.txt names and the ones the heal always wants
Wanted == {"winmm.dll", "dlllist.txt", "OnlineFix.ini", "SteamFix.ini", "OnlineFix64.dll"}

\* healOnlineFixLayoutForExecutable: only what is missing beside the executable is copied
Heal(dk) ==
    LET source == FirstOf({d \in OverlayDirs(dk) : /\ Has(dk[d], On("dlllist.txt"))
                                                   /\ Has(dk[d], On("winmm.dll"))}, exe)
        missing == {On(name) : name \in {n \in Wanted : /\ Has(dk[source], On(n))
                                                        /\ ~Has(dk[exe], On(n))}}
    IN IF source = exe \/ Has(dk[exe], On("SteamFix64.dll")) \/ Has(dk[exe], On("SteamFix.ini"))
       THEN dk
       ELSE [dk EXCEPT ![exe] = [x \in DOMAIN @ \cup missing |->
                                    IF x \in missing THEN dk[source][x] ELSE @[x]]]

\* applyOnlineFixLaunchInfo, what it writes into the folders.  The game runs beside its exe.
ApplyLaunchInfo(dk) ==
    LET fix == DetectOnlineFix(dk)
        WinmmTxt(f) == IF Has(f, On("SteamFix64.dll")) THEN Put(f, On("winmm.txt"), "text") ELSE f
    IN IF fix.enabled
       THEN [d \in Dirs |-> IF d \in {fix.dir, exe}
                            THEN Put(WinmmTxt(dk[d]), On("steam_appid.txt"), "text") ELSE dk[d]]
       ELSE dk

\* what a launch does to the files before it starts the game
Prepared(dk) == ApplyLaunchInfo(IF DetectOnlineFix(dk).present THEN Heal(dk) ELSE dk)

\* the files of Online Fix there are, with their folders
FixFiles(dk) ==
    UNION {{<< d, x[1] >> : x \in {y \in DOMAIN dk[d] : dk[d][y] = "fix"}} : d \in Dirs}

HoldsOnlineFix(f) ==
    \/ Has(f, On("OnlineFix64.dll")) \/ Has(f, Off("OnlineFix64.dll"))
    \/ Has(f, On("OnlineFix.ini")) \/ Has(f, On("dlllist.txt"))

\* convertOnlineFixToSteamFix moves file by file, first beside the executable, then in the root,
\* what is on or off of each name
MoveAway(dk, stuck) ==
    LET folders == IF exe = Root THEN << exe >> ELSE << exe, Root >>
        Held(d) == {name \in Range(OnlineFixFiles) : /\ HoldsOnlineFix(dk[d])
                                                     /\ Has(dk[d], On(name)) \/ Has(dk[d], Off(name))}
        Stops(d) == {name \in Held(d) : stuck = << d, name >>}
        failing == {d \in Range(folders) : Stops(d) # {}}
        Gone(d) == IF d \in Reached(folders, failing) \cup failing
                   THEN Held(d) \cap Reached(OnlineFixFiles, Stops(d)) ELSE {}
    IN [disk |-> [d \in Dirs |-> Without(dk[d], Gone(d) \X {"on", "off"})],
        ok |-> failing = {},
        moved |-> {x \in FixFiles(dk) : x[2] \in Gone(x[1])}]

\* then it copies the kit over, each DLL after what has its name is removed, and writes its texts
PlantKit(dk, stuck) ==
    LET stops == {name \in Range(KitFiles) : stuck = << exe, name >>}
        planted == {On(name) : name \in Reached(KitFiles, stops)}
        removed == {On(name) : name \in stops \ Texts}
    IN [disk |-> [dk EXCEPT ![exe] = [x \in (DOMAIN @ \ removed) \cup planted |->
                                         IF x \in planted THEN "kit" ELSE @[x]]],
        ok |-> stops = {}, moved |-> {}]

\* Mutant: the kit is copied before the Online Fix files are out of the way.
ConvertInPlace(dk, stuckMoving, stuckPlanting) ==
    LET kit == PlantKit(dk, stuckPlanting)
    IN IF kit.ok THEN MoveAway(kit.disk, stuckMoving) ELSE kit

Convert(dk, stuckMoving, stuckPlanting) ==
    LET away == MoveAway(dk, stuckMoving)
    IN IF away.ok THEN [PlantKit(away.disk, stuckPlanting) EXCEPT !.moved = away.moved] ELSE away

--------------------------------------------------------------------------------
(***************************************************************************)
(* States a folder can be found in.                                        *)
(***************************************************************************)
FullFix == [x \in {On(name) : name \in Range(OnlineFixFiles)} |-> "fix"]
BareFix == [x \in {On("winmm.dll"), On("winmm.txt")} |->
               IF x = On("winmm.dll") THEN "fix" ELSE "text"]
Loader == [x \in {On("unsteam.dll"), On("unsteam.ini"), On("unsteam_loader64.exe")} |-> "unsteam"]
Proxy == [x \in {On("unsteam.dll"), On("unsteam.ini"), On("winmm.dll")} |-> "unsteam"]
Over(f, g) == [x \in DOMAIN f \cup DOMAIN g |-> IF x \in DOMAIN f THEN f[x] ELSE g[x]]
Parked(f) == RenameOverlay(f, Root, FALSE, Nothing).files

\* Online Fix came with the game, in the root or beside the executable, or with another
\* program in the last folder; an Unsteam is beside the executable.
Init ==
    /\ exe \in {Root, Walk[2]}
    /\ \E home \in {Root, exe}, fix \in {FullFix, BareFix, Parked(FullFix)},
          launcher \in {NoFiles, FullFix}, unsteam \in {NoFiles, Loader, Proxy} :
          /\ unsteam = Proxy => home # exe
          /\ disk = [d \in Dirs |->
                        Over(IF d = home THEN fix ELSE NoFiles,
                             Over(IF d = exe THEN unsteam ELSE NoFiles,
                                  IF d = Last(Walk) /\ d # exe THEN launcher ELSE NoFiles))]
    /\ backup = {}
    /\ marker = "none"
    /\ running = FALSE
    /\ watching = FALSE
    /\ used = FALSE
    /\ relaunch = FALSE
    /\ pending = {}
    /\ verify = "none"
    /\ keepsOff = FALSE
    /\ shipped = FixFiles(disk)
    /\ wanted = IF DetectOnlineFix(disk).enabled THEN "on" ELSE "off"
    /\ switched = FALSE
    /\ clicks = 0
    /\ faults = 0

--------------------------------------------------------------------------------
Click == clicks < MaxClicks /\ clicks' = clicks + 1

\* A file is in use or cannot be written.
Stuck(file) ==
    /\ faults' = faults + (IF file = Nothing THEN 0 ELSE 1)
    /\ faults' <= MaxFaults
SomeFile ==
    {Nothing} \cup (IF faults < MaxFaults
                    THEN {<< d, x[1] >> : d \in Dirs, x \in UNION {DOMAIN disk[e] : e \in Dirs}}
                    ELSE {})

\* how Online Fix has to stay after an incident
After(incident, want) == IF incident \in Promised THEN want ELSE "open"

\* setGameOnlineFixEnabled; the marker is written when every folder is done
Switch(enable, stuck) ==
    LET r == SetOnlineFix(disk, enable, stuck)
    IN /\ stuck # Nothing => r # SetOnlineFix(disk, enable, Nothing)
       /\ Stuck(stuck)
       /\ disk' = r.disk
       /\ marker' = IF r.ok THEN (IF enable THEN "on" ELSE "off") ELSE marker
       /\ LET want == IF stuck # Nothing THEN "open" ELSE IF enable THEN "on" ELSE "off"
          IN wanted' = IF verify = "none" THEN want ELSE After("switched", want)

\* the switch in the settings of a game that has the layer
ToggleOnlineFix ==
    /\ Click
    /\ DetectOnlineFix(disk).present
    /\ \E stuck \in SomeFile : Switch(~DetectOnlineFix(disk).enabled, stuck)
    /\ UNCHANGED << backup, exe, launch, verify, keepsOff, shipped, switched >>

\* launchGame with the files as dk: it is refused, or prepares them and the game may start
Launch(dk) ==
    /\ used' = (used /\ relaunch)
    /\ relaunch' = FALSE
    /\ \/ disk' = dk /\ running' = FALSE /\ watching' = FALSE
       \/ /\ disk' = Prepared(dk)
          /\ running' \in BOOLEAN
          /\ watching' = (running' /\ DetectOnlineFix(dk).enabled /\ ~used')

Play ==
    /\ Click
    /\ ~running
    /\ Launch(disk)
    /\ UNCHANGED << backup, marker, exe, pending, verify, keepsOff, shipped, wanted, switched,
                    faults >>

\* The game ends, on its own or stopped.
Exits ==
    /\ running
    /\ running' = FALSE
    /\ watching' = FALSE
    /\ UNCHANGED << disk, backup, marker, exe, used, relaunch, pending, verify, keepsOff,
                    shipped, wanted, switched, clicks, faults >>

\* handleOnlineFixSelfProtection: the DLL beside the executable refused the game
SelfProtection ==
    /\ running
    /\ Has(disk[exe], On("OnlineFix64.dll"))
    /\ running' = FALSE
    /\ watching' = FALSE
    /\ pending' = pending \cup {"convert"}
    /\ UNCHANGED << disk, backup, marker, exe, used, relaunch, verify, keepsOff, shipped,
                    wanted, switched, clicks, faults >>

\* installRequiresOnlineFix
Requires(dk) ==
    LET f == dk[DetectOnlineFix(dk).dir]
    IN \E name \in {"SteamFix.ini", "SteamFix64.dll", "OnlineFix.ini", "OnlineFix64.dll"} :
           Has(f, On(name)) \/ Has(f, Off(name))

\* handleOnlineFixLaunchFailure of a game that quit or failed early
LaunchFailure ==
    /\ running
    /\ watching
    /\ ~used
    /\ used' = TRUE
    /\ \/ /\ Requires(disk)
          /\ running' \in BOOLEAN
          /\ watching' = (watching /\ running')
          /\ UNCHANGED << disk, marker, relaunch, pending, wanted, faults >>
       \/ /\ ~Requires(disk)
          /\ running' = FALSE
          /\ watching' = FALSE
          /\ relaunch' = TRUE
          /\ pending' = pending \cup {"fallback"}
          /\ \E stuck \in SomeFile : Switch(FALSE, stuck)
    /\ UNCHANGED << backup, exe, verify, keepsOff, shipped, switched, clicks >>

FallbackFires ==
    /\ "fallback" \in pending
    /\ pending' = pending \ {"fallback"}
    /\ IF running THEN UNCHANGED << disk, running, watching, used, relaunch >>
       ELSE Launch(disk)
    /\ UNCHANGED << backup, marker, exe, verify, keepsOff, shipped, wanted, switched, clicks,
                    faults >>

\* the single shot of handleOnlineFixSelfProtection: it may find the ids missing, fail half
\* way, or succeed and launch the game
Converted(r) ==
    /\ backup' = backup \cup r.moved
    /\ switched' = (switched \/ r.ok)
    /\ IF r.ok /\ ~running THEN Launch(r.disk)
       ELSE disk' = r.disk /\ UNCHANGED << running, watching, used, relaunch >>

ConvertFires ==
    /\ "convert" \in pending
    /\ pending' = pending \ {"convert"}
    /\ \/ /\ Converted(Convert(disk, Nothing, Nothing))
          /\ wanted' = "on"
          /\ UNCHANGED faults
       \/ /\ faults < MaxFaults
          /\ \E stuck \in ({exe, Root} \X (Texts \cup Range(OverlayDlls))) :
                 LET moving == Convert(disk, stuck, Nothing)
                     planting == Convert(disk, Nothing, stuck)
                 IN \E r \in {moving, planting} : Stuck(stuck) /\ ~r.ok /\ Converted(r)
          /\ wanted' = "open"
       \/ UNCHANGED << disk, backup, running, watching, used, relaunch, switched, wanted,
                       faults >>
    /\ UNCHANGED << marker, exe, verify, keepsOff, shipped, clicks >>

--------------------------------------------------------------------------------
(***************************************************************************)
(* A verification.                                                         *)
(***************************************************************************)

\* Mutant: the marker is asked instead of the files.
VerifyGameFilesByMarker ==
    /\ Click
    /\ ~running
    /\ verify = "none"
    /\ verify' = "running"
    /\ keepsOff' = (marker = "off")
    /\ UNCHANGED << disk, backup, marker, exe, launch, shipped, wanted, switched, faults >>

\* verifyGameFiles, prepareGameFilesVerify
VerifyGameFiles ==
    /\ Click
    /\ ~running
    /\ verify = "none"
    /\ verify' = "running"
    /\ keepsOff' = (DetectOnlineFix(disk).present /\ ~DetectOnlineFix(disk).enabled)
    /\ UNCHANGED << disk, backup, marker, exe, launch, shipped, wanted, switched, faults >>

\* the plugin, at the end of its run
Embeds ==
    /\ verify = "running"
    /\ verify' = "embedded"
    /\ \E d \in {Root, exe} :
          /\ disk' = [disk EXCEPT ![d] = Over(FullFix, @)]
          /\ shipped' = shipped \cup ({d} \X Range(OnlineFixFiles))
          /\ switched' = (switched /\ d # exe)
    /\ marker' = "on"
    /\ UNCHANGED << backup, exe, launch, keepsOff, wanted, clicks, faults >>

\* restoreOnlineFixAfterVerify; the plugin may have failed before or after it embedded
VerifyEnds ==
    /\ verify \in {"running", "embedded"}
    /\ verify' = "none"
    /\ keepsOff' = FALSE
    /\ IF keepsOff /\ DetectOnlineFix(disk).enabled
       THEN \E stuck \in SomeFile :
                LET r == SetOnlineFix(disk, FALSE, stuck)
                IN /\ stuck # Nothing => r # SetOnlineFix(disk, FALSE, Nothing)
                   /\ Stuck(stuck)
                   /\ disk' = r.disk
                   /\ marker' = IF r.ok THEN "off" ELSE marker
                   /\ wanted' = IF stuck = Nothing THEN wanted ELSE "open"
       ELSE UNCHANGED << disk, marker, wanted, faults >>
    /\ UNCHANGED << backup, exe, launch, shipped, switched, clicks >>

\* the user removed the job: the success of its plugin finds no row
RemovedJobEnds ==
    /\ Click
    /\ verify = "embedded"
    /\ verify' = "none"
    /\ keepsOff' = FALSE
    /\ wanted' = IF keepsOff THEN After("removed", wanted) ELSE wanted
    /\ UNCHANGED << disk, backup, marker, exe, launch, shipped, switched, faults >>

\* The program is killed; the verification starts over and looks at the files again.
Restart ==
    /\ Click
    /\ running' = FALSE
    /\ watching' = FALSE
    /\ used' = FALSE
    /\ relaunch' = FALSE
    /\ pending' = {}
    /\ verify' = IF verify = "none" THEN "none" ELSE "running"
    /\ keepsOff' = (verify # "none" /\ DetectOnlineFix(disk).present
                                    /\ ~DetectOnlineFix(disk).enabled)
    /\ wanted' = IF keepsOff THEN After("crash", wanted) ELSE wanted
    /\ UNCHANGED << disk, backup, marker, exe, shipped, switched, faults >>

Next ==
    \/ ToggleOnlineFix \/ Play \/ Exits
    \/ SelfProtection \/ LaunchFailure \/ FallbackFires \/ ConvertFires
    \/ VerifyGameFiles \/ Embeds \/ VerifyEnds \/ RemovedJobEnds \/ Restart

Spec == Init /\ [][Next]_vars

--------------------------------------------------------------------------------
(***************************************************************************)
(* Properties.                                                             *)
(***************************************************************************)

\* Type invariant: every file has one of the names the code gives it, and the flags of the
\* launch and of the verification (LaunchController, CoreController) have their types.
TypeOK ==
    /\ DOMAIN disk = Dirs
    /\ \A d \in Dirs : DOMAIN disk[d] \subseteq Files /\ Range(disk[d]) \subseteq Owners
    /\ backup \subseteq Dirs \X Names
    /\ marker \in {"none", "on", "off"}
    /\ exe \in Dirs
    /\ {running, watching, used, relaunch, keepsOff, switched} \subseteq BOOLEAN
    /\ pending \subseteq {"convert", "fallback"}
    /\ verify \in {"none", "running", "embedded"}
    /\ wanted \in {"on", "off", "open"}

\* "Move - never delete" (convertOnlineFixToSteamFix): whatever the switch, the launches, a
\* conversion that stops half way and the verifications do, and in whatever order, a file of
\* Online Fix that came with the game or was embedded is in its folder under one of its two
\* names or in the backups; only a copy of one that the heal made may be gone.  And a game that
\* was switched to SteamFix keeps none of them beside its executable, on or off, though another
\* folder still has a whole set that healOnlineFixLayoutForExecutable copies to any other game;
\* only a plugin that embeds it again brings it back.  (With the types.)
FixKept ==
    /\ TypeOK
    /\ shipped \subseteq backup \cup FixFiles(disk)
    /\ switched => \A x \in DOMAIN disk[exe] : disk[exe][x] # "fix"

\* Online Fix that the user or the fallback turned off reads as off, and stays so through the
\* launches (heal, steam_appid.txt), an Unsteam in the folder, a renamed SteamFix kit, and a
\* verification whose plugin embeds it again.
OffKept ==
    wanted = "off" /\ verify = "none" => ~DetectOnlineFix(disk).enabled
================================================================================
