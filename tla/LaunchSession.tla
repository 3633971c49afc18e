----------------------------- MODULE LaunchSession -----------------------------
(***************************************************************************)
(* LaunchController: starting a game, following its process and dealing    *)
(* with a game that Online Fix keeps from running.                         *)
(*                                                                         *)
(* There is one session (m_gameId and the fields beside it) for all games. *)
(* A launch is a chain of posted events: launchGame posts the preparation, *)
(* which runs nested event loops, starts the process and posts             *)
(* markRunning.  The poll timer and the handlers of failures post further  *)
(* events, and two delays (350 ms and 1500 ms) end in launchGame again.    *)
(* None of these look whether the session is still the one they are about. *)
(*                                                                         *)
(* Time is an age of the session, in steps that keep the order of the      *)
(* limits of the code.                                                     *)
(***************************************************************************)
EXTENDS Naturals, Sequences, SequencesExt

CONSTANTS
    Games,
    Unsteam,        \* the games started with the steam.exe stub beside them
    EarlyExit,      \* kOnlineFixEarlyExitMs, 12 s
    Quick,          \* kOnlineFixWatchMs and the limit of a quick exit, 20 s
    Checkpoint,     \* 30 s between two checkpoints of the play time
    Scan,           \* kSelfProtectionScanMs, 60 s
    MaxAge,         \* bound on the age of a session
    MaxClicks,      \* bound on what the user starts, switches and removes
    MaxEvents,      \* bound on the posted events at which the poll timer waits
    NoGame

ASSUME LimitAssumption ==
    /\ EarlyExit \in Nat /\ Quick \in Nat /\ Checkpoint \in Nat /\ Scan \in Nat
    /\ MaxAge \in Nat /\ MaxClicks \in Nat /\ MaxEvents \in Nat \ {0}
    /\ 0 < EarlyExit /\ EarlyExit < Quick /\ Quick < Checkpoint /\ Checkpoint < Scan
    /\ Unsteam \subseteq Games
    /\ NoGame \notin Games

VARIABLES
    playtime,   \* LibraryGame::playtimeMs of each game, in steps of age
    library,    \* the games in the library
    fix,        \* the overlay in the folder of each game, and whether it is enabled
    session,    \* the tracked game
    shim,       \* m_steamShim runs
    used,       \* m_onlineFixFallbackUsed
    relaunch,   \* m_relaunchWithoutOnlineFix
    logGame,    \* m_logGameId: whose log the polls read
    events,     \* the posted events, in order
    preparing,  \* the launches inside a nested event loop, the innermost last
    delays,     \* the pending delays: [kind, game] -> how many
    clicks,     \* what the user has done so far
    before      \* history: the play time of the tracked game when its session began

vars == << playtime, library, fix, session, shim, used, relaunch, logGame, events,
           preparing, delays, clicks, before >>

\* "online": Online Fix.  "steam": SteamFix.  "legacy": an overlay that can be left out.
Kinds == {"none", "online", "steam", "legacy"}
Overlays == [kind : Kinds, on : BOOLEAN]

\* known: the pid is known, so the timer polls.  root, exe: the process that was
\* started, and the executable of the game in its tree.  code: whether its exit
\* code says that it was closed, which can be read once.  crashed: the log or the code looks like a crash.
Sessions ==
    [ game : Games, known : BOOLEAN, root : {"alive", "dead"},
      exe : {"none", "alive", "gone"}, code : {"clean", "unknown"},
      crashed : BOOLEAN, saw : BOOLEAN, age : 0..MaxAge, credited : 0..MaxAge,
      watching : BOOLEAN, handled : BOOLEAN ]
NoSession == [game |-> NoGame]

Events ==
    [type : {"launch", "protect", "fail"}, game : Games]
        \cup [type : {"mark"}, game : Games, known : BOOLEAN, watch : BOOLEAN]
        \cup [type : {"clear"}, code : {"clean", "unknown"}]

Delays == {"relaunch", "convert"} \X Games

Launch(g) == [type |-> "launch", game |-> g]
Protect(g) == [type |-> "protect", game |-> g]
Fail(g) == [type |-> "fail", game |-> g]
Mark(g, known, watch) == [type |-> "mark", game |-> g, known |-> known, watch |-> watch]
Clear(code) == [type |-> "clear", code |-> code]

Init ==
    /\ playtime \in [Games -> {Checkpoint}]
    /\ library = Games
    /\ fix \in {f \in [Games -> Overlays] :
                    \A g \in Games : IF g \in Unsteam THEN f[g] = [kind |-> "none", on |-> FALSE]
                                      ELSE f[g].kind \in {"online", "legacy"} /\ f[g].on}
    /\ session = NoSession
    /\ shim = FALSE
    /\ used = FALSE
    /\ relaunch = FALSE
    /\ logGame = NoGame
    /\ events = <<>>
    /\ preparing = <<>>
    /\ delays = [d \in Delays |-> 0]
    /\ clicks = 0
    /\ before = 0

--------------------------------------------------------------------------------
(***************************************************************************)
(* What the handlers have in common                                        *)
(***************************************************************************)
Running == session # NoSession

\* recordPlaytime: nothing for a game that has left the library, never below 0
Recorded(g, credit, s) ==
    IF g \notin library THEN playtime
    ELSE [playtime EXCEPT ![g] = IF @ + credit < s.credited THEN 0 ELSE @ + credit - s.credited]

\* launchGame.  The request of an automatic relaunch stands until a game is launched.
LaunchGame(g) ==
    IF g \notin library \/ (Running /\ session.game = g)
    THEN UNCHANGED <<used, relaunch, logGame>>
    ELSE /\ used' = (used /\ relaunch)
         /\ relaunch' = FALSE
         /\ logGame' = g
Posted(g, queue) ==
    IF g \notin library \/ (Running /\ session.game = g) THEN queue
    ELSE Append(queue, Launch(g))

CleanQuit(code, stopped) ==
    ~session.crashed /\ (stopped \/ (code = "clean" /\ session.saw))

\* An exit Online Fix is blamed for.
Blamed(code) ==
    /\ session.watching
    /\ ~used
    /\ session.age < EarlyExit
    /\ ~CleanQuit(code, FALSE)

\* Mutant of EndSession: the stub goes on.
EndSessionKeepsStub(discard) ==
    /\ session' = NoSession
    /\ shim' = shim
    /\ playtime' = Recorded(session.game, IF discard THEN 0 ELSE session.age, session)
    /\ before' = 0

\* clearRunning of a session; its play time counts unless it is discarded
EndSession(discard) ==
    /\ session' = NoSession
    /\ shim' = FALSE
    /\ playtime' = Recorded(session.game, IF discard THEN 0 ELSE session.age, session)
    /\ before' = 0

\* terminateTrackedLaunch and clearRunning of whatever game is tracked
EndTracked ==
    IF Running THEN EndSession(TRUE) ELSE UNCHANGED <<session, shim, playtime, before>>

Delayed(kind, g) == delays' = [delays EXCEPT ![<<kind, g>>] = @ + 1]

\* handleOnlineFixLaunchFailure, with the events that are left and the session as it
\* goes on.  A game that needs its overlay is left alone; for any other it is switched
\* off, if that works.
LaunchFailure(g, queue, goesOn) ==
    /\ events' = queue
    /\ used' = TRUE
    /\ IF used \/ (g \in library /\ fix[g].kind \in {"online", "steam"})
       THEN session' = goesOn /\ UNCHANGED <<fix, shim, playtime, before, relaunch, delays>>
       ELSE /\ \/ fix' = fix
               \/ g \in library /\ fix' = [fix EXCEPT ![g].on = FALSE]
            /\ EndTracked
            /\ relaunch' = TRUE
            /\ Delayed("relaunch", g)
    /\ UNCHANGED <<library, logGame, preparing, clicks>>

--------------------------------------------------------------------------------
(***************************************************************************)
(* The user                                                                *)
(***************************************************************************)

\* Play, in the library or beside a friend: also while a game runs or is prepared
Play(g) ==
    /\ clicks < MaxClicks
    /\ clicks' = clicks + 1
    /\ LaunchGame(g)
    /\ events' = Posted(g, events)
    /\ UNCHANGED <<playtime, library, fix, session, shim, preparing, delays, before>>

\* stopRunningGame, also at shutdown
StopRunningGame ==
    /\ Running
    /\ EndSession(~session.saw \/ (~CleanQuit("unknown", TRUE) /\ session.age < Quick))
    /\ UNCHANGED <<library, fix, used, relaunch, logGame, events, preparing, delays,
                   clicks>>

\* setGameOnlineFixEnabled
ToggleFix(g) ==
    /\ clicks < MaxClicks
    /\ clicks' = clicks + 1
    /\ g \in library
    /\ fix[g].kind # "none"
    /\ fix' = [fix EXCEPT ![g].on = ~@]
    /\ UNCHANGED <<playtime, library, session, shim, used, relaunch, logGame, events,
                   preparing, delays, before>>

\* removeGame: a running game goes on being tracked
RemoveGame(g) ==
    /\ clicks < MaxClicks
    /\ clicks' = clicks + 1
    /\ g \in library
    /\ library' = library \ {g}
    /\ playtime' = [playtime EXCEPT ![g] = 0]
    /\ UNCHANGED <<fix, session, shim, used, relaunch, logGame, events, preparing,
                   delays, before>>

--------------------------------------------------------------------------------
(***************************************************************************)
(* Posted events, in order.  A nested event loop runs them too.            *)
(***************************************************************************)
Next1(type) == events # <<>> /\ Head(events).type = type

\* The deferred part of launchGame begins; a removed game is left alone.
PrepareLaunch ==
    /\ Next1("launch")
    /\ LET g == Head(events).game
       IN  preparing' = IF g \in library THEN Append(preparing, g) ELSE preparing
    /\ events' = Tail(events)
    /\ UNCHANGED <<playtime, library, fix, session, shim, used, relaunch, logGame,
                   delays, clicks, before>>

\* The innermost nested loop returns without what the launch needs.
LaunchRefused ==
    /\ preparing # <<>>
    /\ preparing' = Front(preparing)
    /\ UNCHANGED <<playtime, library, fix, session, shim, used, relaunch, logGame,
                   events, delays, clicks, before>>

\* The process cannot be started: the stub goes, also that of a running game.
StartFails ==
    /\ preparing # <<>>
    /\ preparing' = Front(preparing)
    /\ shim' = FALSE
    /\ UNCHANGED <<playtime, library, fix, session, used, relaunch, logGame, events,
                   delays, clicks, before>>

\* The process is started, with a stub of its own for Unsteam that may fail to start.
ProcessStarts(known) ==
    /\ preparing # <<>>
    /\ LET g == Last(preparing)
       IN  /\ \/ g \in Unsteam /\ shim' \in BOOLEAN
              \/ g \notin Unsteam /\ shim' = shim
           /\ events' = Append(events, Mark(g, known, fix[g].on /\ ~used))
    /\ preparing' = Front(preparing)
    /\ UNCHANGED <<playtime, library, fix, session, used, relaunch, logGame, delays,
                   clicks, before>>

\* Mutant of NewSession: the play time credited to the last game is kept.
NewSessionCredited(m) ==
    [ game |-> m.game, known |-> m.known, root |-> "alive", exe |-> "none",
      code |-> "unknown", crashed |-> FALSE, saw |-> FALSE, age |-> 0,
      credited |-> IF Running THEN session.credited ELSE 0,
      watching |-> m.watch, handled |-> ~m.watch ]

\* markRunning: the session of another game is overwritten, its end never recorded
NewSession(m) ==
    [ game |-> m.game, known |-> m.known, root |-> "alive", exe |-> "none",
      code |-> "unknown", crashed |-> FALSE, saw |-> FALSE, age |-> 0, credited |-> 0,
      watching |-> m.watch, handled |-> ~m.watch ]

MarkRunning ==
    /\ Next1("mark")
    /\ session' = NewSession(Head(events))
    /\ before' = playtime[Head(events).game]
    /\ events' = Tail(events)
    /\ UNCHANGED <<playtime, library, fix, shim, used, relaunch, logGame, preparing,
                   delays, clicks>>

\* clearRunning, posted by a poll: it ends the session there is now
ClearRunning ==
    /\ Next1("clear")
    /\ LET code == Head(events).code
           queue == Tail(events)
       IN  IF ~Running THEN events' = queue /\ UNCHANGED <<session, shim, playtime, before>>
           ELSE /\ EndSession(\/ Blamed(code)
                              \/ ~session.saw
                              \/ ~CleanQuit(code, FALSE) /\ session.age < Quick)
                /\ events' = IF Blamed(code) THEN Append(queue, Fail(session.game)) ELSE queue
    /\ UNCHANGED <<library, fix, used, relaunch, logGame, preparing, delays, clicks>>

\* handleOnlineFixLaunchFailure, posted by clearRunning
FailureHandled ==
    /\ Next1("fail")
    /\ LaunchFailure(Head(events).game, Tail(events), session)

\* handleOnlineFixSelfProtection: without a SteamFix kit, which the user may add at
\* any time, there is only a notice.  The tracked game is closed, whichever it is.
SelfProtectionHandled ==
    /\ Next1("protect")
    /\ events' = Tail(events)
    /\ \/ UNCHANGED <<session, shim, playtime, before, delays>>
       \/ /\ Head(events).game \in library
          /\ EndTracked
          /\ Delayed("convert", Head(events).game)
    /\ UNCHANGED <<library, fix, used, relaunch, logGame, preparing, clicks>>

--------------------------------------------------------------------------------
(***************************************************************************)
(* Delays                                                                  *)
(***************************************************************************)
Elapses(kind, g) ==
    /\ delays[<<kind, g>>] > 0
    /\ delays' = [delays EXCEPT ![<<kind, g>>] = @ - 1]

\* launchGame without the user.  A game with several launch options asks for one and
\* is not launched; the request of a relaunch stands.
AutoLaunch(g) ==
    \/ LaunchGame(g) /\ events' = Posted(g, events)
    \/ UNCHANGED <<used, relaunch, logGame, events>>

\* 350 ms after the overlay was switched off
RelaunchGame(g) ==
    /\ Elapses("relaunch", g)
    /\ AutoLaunch(g)
    /\ UNCHANGED <<playtime, library, fix, session, shim, preparing, clicks, before>>

\* 1500 ms after the game was closed: convertOnlineFixToSteamFix
Converted(g) ==
    /\ Elapses("convert", g)
    /\ fix' = [fix EXCEPT ![g] = [kind |-> "steam", on |-> TRUE]]
    /\ AutoLaunch(g)
    /\ UNCHANGED <<playtime, library, session, shim, preparing, clicks, before>>

\* It may fail before anything was moved, or with Online Fix moved out and nothing in.
ConversionFails(g) ==
    /\ Elapses("convert", g)
    /\ fix' \in {fix, [fix EXCEPT ![g] = [kind |-> "none", on |-> FALSE]]}
    /\ UNCHANGED <<playtime, library, session, shim, used, relaunch, logGame, events,
                   preparing, clicks, before>>

--------------------------------------------------------------------------------
(***************************************************************************)
(* pollRunningGame                                                         *)
(***************************************************************************)

\* The timer runs for a session with a pid.
Polling == Running /\ session.known /\ Len(events) < MaxEvents

Dead == session.root = "dead" /\ session.exe # "alive"
Saw == session.saw \/ session.exe = "alive"

\* Every poll first notes the executable and credits the play time.
DueCredit == Saw /\ session.age >= session.credited + Checkpoint
Credited == IF DueCredit THEN Recorded(session.game, session.age, session) ELSE playtime
Seen ==
    [session EXCEPT !.saw = Saw, !.credited = IF DueCredit THEN session.age ELSE @]

\* "Self-protection failed": only Online Fix says so, but the log is that of logGame
Refused ==
    /\ ~session.handled
    /\ session.age <= Scan
    /\ \/ fix[session.game].kind = "online"
       \/ logGame # session.game

\* Mutant of Unhandled: every poll finds the message again.
StillUnhandled(s) == s

Unhandled(s) == [s EXCEPT !.handled = TRUE]

PollRefused ==
    /\ Polling
    /\ Refused
    /\ session' = Unhandled(Seen)
    /\ playtime' = Credited
    /\ events' = Append(events, Protect(session.game))
    /\ UNCHANGED <<library, fix, shim, used, relaunch, logGame, preparing, delays,
                   clicks, before>>

\* Within the watch an error dialog, or a crash of the executable under a living
\* wrapper, is a failure of Online Fix.  Nothing is credited that early.
Watched == session.watching /\ ~used /\ session.age <= Quick
PollFailure ==
    /\ Polling
    /\ Watched
    /\ \/ Dead
       \/ session.root = "alive" /\ session.exe = "gone" /\ session.saw /\ session.crashed
    /\ LaunchFailure(session.game, events, [session EXCEPT !.code = "unknown"])

\* Nothing is left of the process: the end is posted with what the exit code says.
\* The code can be read once.
PollEnd ==
    /\ Polling
    /\ Dead
    /\ session' = [Seen EXCEPT !.code = "unknown", !.watching = @ /\ session.age <= Quick]
    /\ playtime' = Credited
    /\ events' = Append(events, Clear(session.code))
    /\ UNCHANGED <<library, fix, shim, used, relaunch, logGame, preparing, delays,
                   clicks, before>>

\* The game goes on, or its executable without the process that started it.
PollQuiet ==
    /\ Polling
    /\ ~Dead
    /\ session' = [ Seen EXCEPT
                      !.code = IF session.root = "dead" THEN "unknown" ELSE @,
                      !.watching = @ /\ session.age <= Quick ]
    /\ session' # session
    /\ playtime' = Credited
    /\ UNCHANGED <<library, fix, shim, used, relaunch, logGame, events, preparing,
                   delays, clicks, before>>

--------------------------------------------------------------------------------
(***************************************************************************)
(* The process and time                                                    *)
(***************************************************************************)
Happens(s) ==
    /\ session' = s
    /\ UNCHANGED <<playtime, library, fix, shim, used, relaunch, logGame, events,
                   preparing, delays, clicks, before>>

ExecutableStarts ==
    /\ Running /\ session.known
    /\ session.root = "alive" /\ session.exe = "none"
    /\ Happens([session EXCEPT !.exe = "alive"])

ExecutableExits ==
    /\ Running
    /\ session.exe = "alive"
    /\ \E crashed \in BOOLEAN :
           Happens([session EXCEPT !.exe = "gone", !.crashed = crashed])

\* The process that was started is not a child on Linux and has no code there.
ProcessExits ==
    /\ Running /\ session.known
    /\ session.root = "alive"
    /\ \E code \in {"clean", "unknown"}, crashed \in BOOLEAN :
           Happens([session EXCEPT !.root = "dead", !.code = code,
                                   !.crashed = @ \/ crashed])

TimePasses ==
    /\ Running
    /\ session.age < MaxAge
    /\ Happens([session EXCEPT !.age = @ + 1])

EventRuns ==
    \/ PrepareLaunch
    \/ MarkRunning
    \/ ClearRunning
    \/ FailureHandled
    \/ SelfProtectionHandled
Prepared == LaunchRefused \/ StartFails \/ \E known \in BOOLEAN : ProcessStarts(known)
DelayEnds == \E g \in Games : RelaunchGame(g) \/ Converted(g) \/ ConversionFails(g)
Poll == PollRefused \/ PollFailure \/ PollEnd \/ PollQuiet

Next ==
    \/ \E g \in Games : Play(g) \/ ToggleFix(g) \/ RemoveGame(g)
    \/ StopRunningGame
    \/ EventRuns \/ Prepared \/ DelayEnds \/ Poll
    \/ ExecutableStarts \/ ExecutableExits \/ ProcessExits \/ TimePasses

Spec == Init /\ [][Next]_vars

\* The event loop runs what is posted, nested loops have limits of time, timers fire.
Fairness ==
    /\ WF_vars(EventRuns)
    /\ WF_vars(Prepared)
    /\ WF_vars(DelayEnds)
    /\ WF_vars(Poll)
FairSpec == Spec /\ Fairness

--------------------------------------------------------------------------------
(***************************************************************************)
(* Properties                                                              *)
(***************************************************************************)

\* Every variable has its type; what was credited to the play time was seen and is
\* part of the session.
TypeOK ==
    /\ playtime \in [Games -> Nat]
    /\ library \in SUBSET Games
    /\ fix \in [Games -> Overlays]
    /\ session \in Sessions \cup {NoSession}
    /\ shim \in BOOLEAN
    /\ used \in BOOLEAN
    /\ relaunch \in BOOLEAN
    /\ logGame \in Games \cup {NoGame}
    /\ events \in Seq(Events)
    /\ preparing \in Seq(Games)
    /\ delays \in [Delays -> Nat]
    /\ clicks \in 0..MaxClicks
    /\ before \in Nat
    /\ Running => session.credited <= session.age /\ (session.credited > 0 => session.saw)

\* A session never costs a game play time it had before: what a discarded or crashed
\* session takes back is what it was credited itself, whichever sessions were
\* replaced or ended by events meant for others.
PlaytimeKept ==
    [][\A g \in library' :
          playtime'[g] >= IF Running /\ session.game = g THEN before ELSE playtime[g]]_vars

\* The stub keeps the prefix alive and Steam showing the game as running, so it must
\* not stay when nothing runs: a session will stop it, or a started process is
\* about to become one.  (With the types.)
ShimOwned ==
    /\ TypeOK
    /\ shim => Running \/ \E i \in 1..Len(events) : events[i].type = "mark"

\* When the user stops clicking, relaunches come to an end (the fallback and the
\* switch to SteamFix do not set each other off for ever), and a tracked game that is
\* gone has been noticed, although scans return early and exit codes are read once.
Quiescent == events = <<>> /\ preparing = <<>> /\ \A d \in Delays : delays[d] = 0
Settles == <>[](Quiescent /\ ~(Running /\ session.known /\ Dead))

================================================================================
