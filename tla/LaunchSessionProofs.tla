--------------------------- MODULE LaunchSessionProofs ---------------------------
(***************************************************************************)
(* Theorems of LaunchSession: the stub of Steam never stays when nothing   *)
(* runs, and no session takes play time from a game that it had before,    *)
(* for every set of games, every limit and every order of the posted       *)
(* events.                                                                 *)
(***************************************************************************)
EXTENDS LaunchSession, TLAPS

HasMark(queue) == \E i \in 1..Len(queue) : queue[i].type = "mark"

(* A session has credited to its game what the game has gained since the   *)
(* session began, and not more: what a discarded session takes back is its *)
(* own.                                                                    *)
CreditIsOwn ==
    (Running /\ session.game \in library) => playtime[session.game] >= before + session.credited

LaunchInv == ShimOwned /\ CreditIsOwn

(* What PlaytimeKept says of a step. *)
Kept ==
    \A g \in library' : playtime'[g] >= IF Running /\ session.game = g THEN before ELSE playtime[g]

----------------------------------------------------------------------------
\* A posted event that is not the mark of a started process leaves every mark
\* in the queue; an event that is posted removes none.
LEMMA MarkStays ==
    ASSUME NEW queue \in Seq(Events), queue # <<>>, Head(queue).type # "mark", HasMark(queue)
    PROVE  HasMark(Tail(queue))
<1>1. PICK i \in 1..Len(queue) : queue[i].type = "mark"
    BY DEF HasMark
<1>2. i # 1 /\ Len(Tail(queue)) = Len(queue) - 1
    BY <1>1
<1>3. i - 1 \in 1..Len(Tail(queue)) /\ Tail(queue)[i - 1] = queue[i]
    BY <1>1, <1>2
<1> QED BY <1>1, <1>3 DEF HasMark

LEMMA MarkPosted ==
    ASSUME NEW queue \in Seq(Events), NEW e \in Events, HasMark(queue) \/ e.type = "mark"
    PROVE  HasMark(Append(queue, e))
<1>1. CASE HasMark(queue)
    <2>1. PICK i \in 1..Len(queue) : queue[i].type = "mark"
        BY <1>1 DEF HasMark
    <2>2. i \in 1..Len(Append(queue, e)) /\ Append(queue, e)[i] = queue[i]
        BY <2>1
    <2> QED BY <2>1, <2>2 DEF HasMark
<1>2. CASE e.type = "mark"
    <2>1. Len(queue) + 1 \in 1..Len(Append(queue, e)) /\ Append(queue, e)[Len(queue) + 1] = e
        OBVIOUS
    <2> QED BY <1>2, <2>1 DEF HasMark
<1> QED BY <1>1, <1>2

\* The events have the types they are posted with.
LEMMA PostedTypes ==
    ASSUME NEW g \in Games
    PROVE  /\ Launch(g) \in Events /\ Protect(g) \in Events /\ Fail(g) \in Events
           /\ \A known, watch \in BOOLEAN : Mark(g, known, watch) \in Events
           /\ \A code \in {"clean", "unknown"} : Clear(code) \in Events
    BY DEF Launch, Protect, Fail, Mark, Clear, Events

\* What the fields of the first event are.
LEMMA HeadTypes ==
    ASSUME events \in Seq(Events), events # <<>>
    PROVE  /\ Tail(events) \in Seq(Events) /\ Head(events) \in Events
           /\ Head(events).type \in {"launch", "protect", "fail", "mark"} => Head(events).game \in Games
           /\ Head(events).type = "mark" => Head(events).known \in BOOLEAN /\ Head(events).watch \in BOOLEAN
           /\ Head(events).type = "clear" => Head(events).code \in {"clean", "unknown"}
<1>1. Tail(events) \in Seq(Events) /\ Head(events) \in Events
    OBVIOUS
<1> QED BY <1>1 DEF Events

\* The nested loops form a stack of games.
LEMMA InnermostReturns ==
    ASSUME preparing \in Seq(Games), preparing # <<>>
    PROVE  Front(preparing) \in Seq(Games) /\ Last(preparing) \in Games
    BY DEF Front, Last

\* A session has a game, so it is not the absence of one.
LEMMA SessionOrNot ==
    ASSUME TypeOK
    PROVE  /\ Running <=> session \in Sessions
           /\ Running => /\ session.game \in Games /\ session.credited \in Nat /\ session.age \in Nat
                         /\ session.credited <= session.age
    BY LimitAssumption DEF TypeOK, Running, Sessions, NoSession

----------------------------------------------------------------------------
\* recordPlaytime keeps the types and changes only the game of the session.
LEMMA RecordedTypes ==
    ASSUME TypeOK, NEW g \in Games, NEW credit \in Nat, NEW s, s.credited \in Nat
    PROVE  /\ Recorded(g, credit, s) \in [Games -> Nat]
           /\ \A h \in Games : h # g => Recorded(g, credit, s)[h] = playtime[h]
           /\ g \in library => Recorded(g, credit, s)[g] =
                 IF playtime[g] + credit < s.credited THEN 0 ELSE playtime[g] + credit - s.credited
<1> DEFINE new == IF playtime[g] + credit < s.credited THEN 0 ELSE playtime[g] + credit - s.credited
<1>1. playtime \in [Games -> Nat] /\ playtime[g] \in Nat
    BY DEF TypeOK
<1>2. new \in Nat
    BY <1>1
<1>3. Recorded(g, credit, s) = IF g \notin library THEN playtime ELSE [playtime EXCEPT ![g] = new]
    BY Zenon DEF Recorded
<1> HIDE DEF new
<1>4. [playtime EXCEPT ![g] = new] \in [Games -> Nat] /\ [playtime EXCEPT ![g] = new][g] = new
    BY <1>1, <1>2
<1>5. \A h \in Games : h # g => [playtime EXCEPT ![g] = new][h] = playtime[h]
    BY <1>1
<1>6. new = IF playtime[g] + credit < s.credited THEN 0 ELSE playtime[g] + credit - s.credited
    BY Zenon DEF new
<1>7. CASE g \notin library
    <2>1. Recorded(g, credit, s) = playtime
        BY <1>3, <1>7
    <2> QED BY <1>1, <1>7, <2>1
<1>8. CASE g \in library
    <2>1. Recorded(g, credit, s) = [playtime EXCEPT ![g] = new]
        BY <1>3, <1>8
    <2> QED BY <1>4, <1>5, <1>6, <2>1
<1> QED BY <1>7, <1>8

\* The end of a session stops the stub and takes back no more than it gave.
LEMMA SessionEnds ==
    ASSUME LaunchInv, Running, NEW discard \in BOOLEAN, EndSession(discard), library' = library
    PROVE  /\ playtime' \in [Games -> Nat] /\ session' = NoSession /\ ~Running'
           /\ shim' = FALSE /\ before' = 0 /\ Kept
<1> DEFINE credit == IF discard THEN 0 ELSE session.age
<1>1. TypeOK
    BY DEF LaunchInv, ShimOwned
<1>2. session.game \in Games /\ session.credited \in Nat /\ session.age \in Nat /\ credit \in Nat
    BY <1>1, SessionOrNot
<1>3. playtime' = Recorded(session.game, credit, session)
    BY DEF EndSession
<1>4. session' = NoSession /\ shim' = FALSE /\ before' = 0 /\ ~Running'
    BY DEF EndSession, Running
<1>5. session.game \in library =>
         Recorded(session.game, credit, session)[session.game] >= before
    <2> SUFFICES ASSUME session.game \in library
                 PROVE  Recorded(session.game, credit, session)[session.game] >= before
        OBVIOUS
    <2>1. playtime[session.game] >= before + session.credited
        BY DEF LaunchInv, CreditIsOwn
    <2>2. playtime[session.game] \in Nat /\ before \in Nat
        BY <1>1, <1>2 DEF TypeOK
    <2> HIDE DEF credit
    <2>3. Recorded(session.game, credit, session)[session.game] =
              IF playtime[session.game] + credit < session.credited THEN 0
              ELSE playtime[session.game] + credit - session.credited
        BY <1>1, <1>2, RecordedTypes
    <2> QED BY <1>2, <2>1, <2>2, <2>3
<1> HIDE DEF credit
<1>6. /\ Recorded(session.game, credit, session) \in [Games -> Nat]
      /\ \A h \in Games : h # session.game => Recorded(session.game, credit, session)[h] = playtime[h]
    BY <1>1, <1>2, RecordedTypes
<1>7. Kept
    <2> SUFFICES ASSUME NEW g \in library
                 PROVE  playtime'[g] >= IF Running /\ session.game = g THEN before ELSE playtime[g]
        BY DEF Kept
    <2>1. g \in Games /\ playtime[g] \in Nat
        BY <1>1 DEF TypeOK
    <2> QED BY <1>3, <1>5, <1>6, <2>1
<1> QED BY <1>3, <1>4, <1>6, <1>7

\* Whatever is tracked, ending it keeps the types, and without a stub nothing
\* is owed to one.
LEMMA TrackedEnds ==
    ASSUME LaunchInv, EndTracked, library' = library
    PROVE  /\ playtime' \in [Games -> Nat] /\ ~Running' /\ session' = NoSession
           /\ shim' \in BOOLEAN /\ (shim' => ~Running /\ shim) /\ before' \in Nat /\ Kept
<1>1. TypeOK
    BY DEF LaunchInv, ShimOwned
<1>2. CASE Running
    <2>1. EndSession(TRUE)
        BY <1>2 DEF EndTracked
    <2>2. /\ playtime' \in [Games -> Nat] /\ session' = NoSession /\ ~Running'
          /\ shim' = FALSE /\ before' = 0 /\ Kept
        BY <1>2, <2>1, SessionEnds
    <2>3. before' \in Nat
        BY <2>2
    <2> HIDE DEF Kept
    <2> QED BY <2>2, <2>3, Zenon
<1>3. CASE ~Running
    <2>1. session' = session /\ shim' = shim /\ playtime' = playtime /\ before' = before
        BY <1>3 DEF EndTracked
    <2>2. session = NoSession
        BY <1>3 DEF Running
    <2>3. Kept
        BY <1>1, <1>3, <2>1 DEF Kept, TypeOK
    <2> QED BY <1>1, <1>3, <2>1, <2>2, <2>3 DEF TypeOK, Running
<1> QED BY <1>2, <1>3

\* A step that leaves the sessions and their play time alone keeps what is
\* credited and recorded.
LEMMA SessionUntouched ==
    ASSUME LaunchInv, UNCHANGED <<session, playtime, before, library>>
    PROVE  CreditIsOwn' /\ Kept
<1>1. TypeOK
    BY DEF LaunchInv, ShimOwned
<1>2. CreditIsOwn'
    BY DEF LaunchInv, CreditIsOwn, Running
<1>3. Kept
    <2> SUFFICES ASSUME NEW g \in library
                 PROVE  playtime[g] >= IF Running /\ session.game = g THEN before ELSE playtime[g]
        BY DEF Kept
    <2>1. playtime[g] \in Nat /\ before \in Nat
        BY <1>1 DEF TypeOK
    <2>2. CASE Running /\ session.game = g
        <3>1. playtime[g] >= before + session.credited /\ session.credited \in Nat
            BY <1>1, <2>2, SessionOrNot DEF LaunchInv, CreditIsOwn
        <3> QED BY <2>1, <2>2, <3>1
    <2>3. CASE ~(Running /\ session.game = g)
        BY <2>1, <2>3
    <2> QED BY <2>2, <2>3
<1> QED BY <1>2, <1>3

\* The first note of every poll: the session has seen its executable, and what
\* it is credited is what the game gains.
LEMMA PollCredits ==
    ASSUME LaunchInv, Running
    PROVE  /\ Seen \in Sessions /\ Seen.game = session.game
           /\ Seen.credited <= Seen.age /\ (Seen.credited > 0 => Seen.saw)
           /\ Credited \in [Games -> Nat]
           /\ \A g \in library : /\ Credited[g] >= IF session.game = g THEN before ELSE playtime[g]
                                 /\ g = session.game => Credited[g] >= before + Seen.credited
<1>1. TypeOK
    BY DEF LaunchInv, ShimOwned
<1>2. /\ session \in Sessions /\ session.game \in Games /\ session.credited \in Nat /\ session.age \in Nat
      /\ session.credited <= session.age /\ session.age \in 0..MaxAge
      /\ session.credited > 0 => session.saw
    BY <1>1, SessionOrNot DEF TypeOK, Sessions
<1>3. Saw \in BOOLEAN /\ DueCredit \in BOOLEAN /\ (session.saw => Saw) /\ (DueCredit => Saw)
    BY <1>2 DEF Saw, DueCredit, Sessions
<1> DEFINE amount == IF DueCredit THEN session.age ELSE session.credited
<1>4. amount \in 0..MaxAge /\ amount <= session.age /\ (amount > 0 => Saw) /\ session.credited <= amount
    BY <1>2, <1>3, LimitAssumption DEF Sessions
<1>5. Seen = [session EXCEPT !.saw = Saw, !.credited = amount]
    BY DEF Seen
<1> HIDE DEF amount
<1>6. /\ Seen \in Sessions /\ Seen.game = session.game /\ Seen.credited = amount
      /\ Seen.age = session.age /\ Seen.saw = Saw
    BY <1>2, <1>3, <1>4, <1>5 DEF Sessions
<1>7. playtime \in [Games -> Nat] /\ before \in Nat
    BY <1>1 DEF TypeOK
<1>8. CASE DueCredit
    <2>1. Credited = Recorded(session.game, session.age, session) /\ amount = session.age
        BY <1>8 DEF Credited, amount
    <2>2. Credited \in [Games -> Nat] /\ \A h \in Games : h # session.game => Credited[h] = playtime[h]
        BY <1>1, <1>2, <2>1, RecordedTypes
    <2>3. session.game \in library => Credited[session.game] >= before + amount
        <3> SUFFICES ASSUME session.game \in library PROVE Credited[session.game] >= before + amount
            OBVIOUS
        <3>1. Credited[session.game] =
                  IF playtime[session.game] + session.age < session.credited THEN 0
                  ELSE playtime[session.game] + session.age - session.credited
            BY <1>1, <1>2, <2>1, RecordedTypes
        <3>2. playtime[session.game] >= before + session.credited /\ playtime[session.game] \in Nat
            BY <1>2, <1>7 DEF LaunchInv, CreditIsOwn
        <3> QED BY <1>2, <1>7, <2>1, <3>1, <3>2
    <2>4. \A g \in library : g \in Games
        BY <1>1 DEF TypeOK
    <2> QED BY <1>2, <1>4, <1>6, <1>7, <2>2, <2>3, <2>4
<1>9. CASE ~DueCredit
    <2>1. Credited = playtime /\ amount = session.credited
        BY <1>9 DEF Credited, amount
    <2>2. session.game \in library => playtime[session.game] >= before + amount
        BY <2>1 DEF LaunchInv, CreditIsOwn
    <2>3. \A g \in library : g \in Games
        BY <1>1 DEF TypeOK
    <2> QED BY <1>2, <1>4, <1>6, <1>7, <2>1, <2>2, <2>3
<1> QED BY <1>3, <1>8, <1>9

----------------------------------------------------------------------------
(* The second half of ShimOwned. *)
ShimHeld == shim => (Running \/ HasMark(events))

LEMMA ShimOwnedParts == ShimOwned <=> TypeOK /\ ShimHeld
    BY DEF ShimOwned, ShimHeld, HasMark

\* A launch, by the user or by itself, posts its preparation at most.
LEMMA LaunchPosts ==
    ASSUME TypeOK, NEW g \in Games, AutoLaunch(g)
    PROVE  /\ used' \in BOOLEAN /\ relaunch' \in BOOLEAN /\ logGame' \in Games \cup {NoGame}
           /\ events' \in Seq(Events) /\ (HasMark(events) => HasMark(events'))
<1>1. used' \in BOOLEAN /\ relaunch' \in BOOLEAN /\ logGame' \in Games \cup {NoGame}
    BY DEF AutoLaunch, LaunchGame, TypeOK
<1>2. events \in Seq(Events) /\ Launch(g) \in Events
    BY PostedTypes DEF TypeOK
<1>3. events' = events \/ events' = Append(events, Launch(g))
    BY DEF AutoLaunch, Posted
<1>4. events' \in Seq(Events)
    BY <1>2, <1>3
<1>5. HasMark(events) => HasMark(events')
    BY <1>2, <1>3, MarkPosted
<1> QED BY <1>1, <1>4, <1>5

\* A step that touches neither session nor stub, and loses no mark.
LEMMA QuietStep ==
    ASSUME LaunchInv, UNCHANGED <<session, playtime, before, library, shim, clicks>>,
           fix' \in [Games -> Overlays],
           used' \in BOOLEAN, relaunch' \in BOOLEAN, logGame' \in Games \cup {NoGame},
           events' \in Seq(Events), HasMark(events) => HasMark(events'),
           preparing' \in Seq(Games), delays' \in [Delays -> Nat]
    PROVE  LaunchInv' /\ Kept
<1>1. TypeOK /\ ShimHeld
    BY ShimOwnedParts DEF LaunchInv
<1>2. CreditIsOwn' /\ Kept
    BY SessionUntouched
<1>3. TypeOK'
    BY <1>1 DEF TypeOK, Running
<1>4. ShimHeld'
    BY <1>1 DEF ShimHeld, Running
<1>5. ShimOwned'
    BY <1>3, <1>4 DEF ShimOwned, ShimHeld, HasMark
<1> QED BY <1>2, <1>5 DEF LaunchInv

\* The user plays, stops, switches an overlay or removes a game.
LEMMA UserSteps ==
    ASSUME LaunchInv, NEW g \in Games,
           Play(g) \/ ToggleFix(g) \/ RemoveGame(g) \/ StopRunningGame
    PROVE  LaunchInv' /\ Kept
<1>0. TypeOK /\ ShimHeld /\ CreditIsOwn
    BY ShimOwnedParts DEF LaunchInv
<1>1. CASE Play(g)
    <2>1. AutoLaunch(g)
        BY <1>1 DEF Play, AutoLaunch
    <2>2. /\ used' \in BOOLEAN /\ relaunch' \in BOOLEAN /\ logGame' \in Games \cup {NoGame}
          /\ events' \in Seq(Events) /\ (HasMark(events) => HasMark(events'))
        BY <1>0, <2>1, LaunchPosts
    <2>3. UNCHANGED <<session, playtime, before, library, shim, fix, preparing, delays>> /\ clicks' \in 0..MaxClicks
        BY <1>0, <1>1, LimitAssumption DEF Play, TypeOK
    <2>4. CreditIsOwn' /\ Kept
        BY <2>3, SessionUntouched
    <2>5. TypeOK'
        BY <1>0, <2>2, <2>3 DEF TypeOK, Running
    <2>6. ShimOwned'
        BY <1>0, <2>2, <2>3, <2>5 DEF ShimOwned, ShimHeld, HasMark, Running
    <2> QED BY <2>4, <2>6 DEF LaunchInv
<1>2. CASE ToggleFix(g)
    <2>1. fix' = [fix EXCEPT ![g].on = ~fix[g].on] /\ fix[g] \in Overlays /\ fix[g].on \in BOOLEAN
        BY <1>0, <1>2 DEF ToggleFix, TypeOK, Overlays
    <2>2. fix' \in [Games -> Overlays]
        BY <1>0, <2>1 DEF TypeOK, Overlays
    <2>3. UNCHANGED <<session, playtime, before, library, shim, used, relaunch, logGame, events, preparing, delays>>
          /\ clicks' \in 0..MaxClicks
        BY <1>0, <1>2, LimitAssumption DEF ToggleFix, TypeOK
    <2>4. CreditIsOwn' /\ Kept
        BY <2>3, SessionUntouched
    <2>5. TypeOK'
        BY <1>0, <2>2, <2>3 DEF TypeOK, Running
    <2>6. ShimOwned'
        BY <1>0, <2>3, <2>5 DEF ShimOwned, ShimHeld, HasMark, Running
    <2> QED BY <2>4, <2>6 DEF LaunchInv
<1>3. CASE RemoveGame(g)
    <2>1. UNCHANGED <<session, before, shim, fix, used, relaunch, logGame, events, preparing, delays>>
          /\ clicks' \in 0..MaxClicks
        BY <1>0, <1>3, LimitAssumption DEF RemoveGame, TypeOK
    <2>2. playtime' = [playtime EXCEPT ![g] = 0] /\ playtime \in [Games -> Nat]
        BY <1>0, <1>3 DEF RemoveGame, TypeOK
    <2>3. playtime' \in [Games -> Nat] /\ \A h \in Games : h # g => playtime'[h] = playtime[h]
        BY <2>2
    <2>4. library' = library \ {g} /\ library' \in SUBSET Games
        BY <1>0, <1>3 DEF RemoveGame, TypeOK
    <2>5. TypeOK'
        BY <1>0, <2>1, <2>3, <2>4 DEF TypeOK, Running
    <2>6. ShimOwned'
        BY <1>0, <2>1, <2>5 DEF ShimOwned, ShimHeld, HasMark, Running
    <2>7. CreditIsOwn'
        BY <1>0, <2>1, <2>3, <2>4 DEF CreditIsOwn, Running
    <2>8. Kept
        <3> SUFFICES ASSUME NEW h \in library'
                     PROVE  playtime'[h] >= IF Running /\ session.game = h THEN before ELSE playtime[h]
            BY DEF Kept
        <3>1. h \in library /\ h \in Games /\ h # g /\ playtime[h] \in Nat /\ before \in Nat
            BY <1>0, <2>4 DEF TypeOK
        <3>2. CASE Running /\ session.game = h
            <4>1. playtime[h] >= before + session.credited /\ session.credited \in Nat
                BY <1>0, <3>1, <3>2, SessionOrNot DEF CreditIsOwn
            <4> QED BY <2>3, <3>1, <3>2, <4>1
        <3>3. CASE ~(Running /\ session.game = h)
            BY <2>3, <3>1, <3>3
        <3> QED BY <3>2, <3>3
    <2> QED BY <2>6, <2>7, <2>8 DEF LaunchInv
<1>4. CASE StopRunningGame
    <2> DEFINE discard == ~session.saw \/ (~CleanQuit("unknown", TRUE) /\ session.age < Quick)
    <2>1. discard \in BOOLEAN
        OBVIOUS
    <2>2. Running /\ EndSession(discard)
          /\ UNCHANGED <<library, fix, used, relaunch, logGame, events, preparing, delays, clicks>>
        BY <1>4 DEF StopRunningGame
    <2> HIDE DEF discard
    <2>3. /\ playtime' \in [Games -> Nat] /\ session' = NoSession /\ ~Running'
          /\ shim' = FALSE /\ before' = 0 /\ Kept
        BY <2>1, <2>2, SessionEnds
    <2>4. TypeOK'
        BY <1>0, <2>2, <2>3 DEF TypeOK
    <2> QED BY <2>3, <2>4 DEF LaunchInv, ShimOwned, CreditIsOwn
<1> QED BY <1>1, <1>2, <1>3, <1>4

\* A failure of Online Fix is handled: the session goes on with an exit code
\* that is unknown, or it is ended whichever it is.
LEMMA FailureSteps ==
    ASSUME LaunchInv, NEW g \in Games, NEW queue, NEW goesOn, LaunchFailure(g, queue, goesOn),
           queue \in Seq(Events), HasMark(events) => HasMark(queue),
           \/ goesOn = session
           \/ Running /\ goesOn = [session EXCEPT !.code = "unknown"]
    PROVE  LaunchInv' /\ Kept
<1>0. TypeOK /\ ShimHeld /\ CreditIsOwn
    BY ShimOwnedParts DEF LaunchInv
<1>1. /\ events' = queue /\ used' = TRUE
      /\ UNCHANGED <<library, logGame, preparing, clicks>>
    BY DEF LaunchFailure
<1>2. CASE session' = goesOn /\ UNCHANGED <<fix, shim, playtime, before, relaunch, delays>>
    <2>1. /\ session' \in Sessions \cup {NoSession} /\ Running' = Running
          /\ Running => /\ session'.game = session.game /\ session'.credited = session.credited
                        /\ session'.age = session.age /\ session'.saw = session.saw
        <3>1. CASE goesOn = session
            BY <1>0, <1>2, <3>1 DEF TypeOK, Running
        <3>2. CASE Running /\ goesOn = [session EXCEPT !.code = "unknown"]
            <4>1. session \in Sessions
                BY <1>0, <3>2, SessionOrNot
            <4>2. /\ goesOn \in Sessions /\ goesOn.game = session.game /\ goesOn.credited = session.credited
                  /\ goesOn.age = session.age /\ goesOn.saw = session.saw
                BY <3>2, <4>1 DEF Sessions
            <4>3. goesOn # NoSession
                BY <4>1, <4>2, LimitAssumption DEF Sessions, NoSession
            <4> QED BY <1>2, <3>2, <4>2, <4>3 DEF Running
        <3> QED BY <3>1, <3>2
    <2>2. TypeOK'
        BY <1>0, <1>1, <1>2, <2>1 DEF TypeOK
    <2>3. ShimOwned'
        BY <1>0, <1>1, <1>2, <2>1, <2>2 DEF ShimOwned, ShimHeld, HasMark
    <2>4. CreditIsOwn'
        BY <1>0, <1>1, <1>2, <2>1 DEF CreditIsOwn
    <2>5. Kept
        <3> SUFFICES ASSUME NEW h \in library
                     PROVE  playtime[h] >= IF Running /\ session.game = h THEN before ELSE playtime[h]
            BY <1>1, <1>2 DEF Kept
        <3>1. h \in Games /\ playtime[h] \in Nat /\ before \in Nat
            BY <1>0 DEF TypeOK
        <3> QED BY <1>0, <3>1, SessionOrNot DEF CreditIsOwn
    <2> QED BY <2>3, <2>4, <2>5 DEF LaunchInv
<1>3. CASE /\ \/ fix' = fix
              \/ g \in library /\ fix' = [fix EXCEPT ![g].on = FALSE]
           /\ EndTracked /\ relaunch' = TRUE /\ Delayed("relaunch", g)
    <2>1. fix' \in [Games -> Overlays]
        <3>1. fix[g] \in Overlays /\ [fix[g] EXCEPT !.on = FALSE] \in Overlays
            BY <1>0 DEF TypeOK, Overlays
        <3> QED BY <1>0, <1>3, <3>1 DEF TypeOK
    <2>2. delays' \in [Delays -> Nat]
        BY <1>0, <1>3 DEF TypeOK, Delayed, Delays
    <2>3. /\ playtime' \in [Games -> Nat] /\ ~Running' /\ session' = NoSession
          /\ shim' \in BOOLEAN /\ (shim' => ~Running /\ shim) /\ before' \in Nat /\ Kept
        BY <1>1, <1>3, TrackedEnds
    <2>4. TypeOK'
        BY <1>0, <1>1, <1>3, <2>1, <2>2, <2>3 DEF TypeOK
    <2>5. shim' => HasMark(events')
        BY <1>0, <1>1, <2>3 DEF ShimHeld
    <2>6. ShimOwned'
        BY <2>4, <2>5 DEF ShimOwned, HasMark
    <2> QED BY <2>3, <2>6 DEF LaunchInv, CreditIsOwn
<1> QED BY <1>2, <1>3 DEF LaunchFailure

\* The posted events: a preparation, a start, an end and the two failures.
LEMMA EventSteps ==
    ASSUME LaunchInv, EventRuns
    PROVE  LaunchInv' /\ Kept
<1>0. TypeOK /\ ShimHeld /\ CreditIsOwn /\ events \in Seq(Events)
    BY ShimOwnedParts DEF LaunchInv, TypeOK
<1>1. CASE PrepareLaunch
    <2>1. events # <<>> /\ Head(events).type = "launch" /\ events' = Tail(events)
        BY <1>1 DEF PrepareLaunch, Next1
    <2>2. events' \in Seq(Events) /\ Head(events).game \in Games
        BY <1>0, <2>1, HeadTypes
    <2>3. HasMark(events) => HasMark(events')
        BY <1>0, <2>1, MarkStays
    <2>4. preparing' \in Seq(Games)
        BY <1>0, <1>1, <2>2 DEF PrepareLaunch, TypeOK
    <2>5. UNCHANGED <<playtime, library, fix, session, shim, used, relaunch, logGame, delays, clicks, before>>
        BY <1>1 DEF PrepareLaunch
    <2> QED BY <1>0, <2>2, <2>3, <2>4, <2>5, QuietStep DEF TypeOK
<1>2. CASE MarkRunning
    <2> DEFINE m == Head(events)
    <2>1. events # <<>> /\ m.type = "mark" /\ events' = Tail(events) /\ session' = NewSession(m)
          /\ before' = playtime[m.game]
          /\ UNCHANGED <<playtime, library, fix, shim, used, relaunch, logGame, preparing, delays, clicks>>
        BY <1>2 DEF MarkRunning, Next1
    <2>2. events' \in Seq(Events) /\ m.game \in Games /\ m.known \in BOOLEAN /\ m.watch \in BOOLEAN
        BY <1>0, <2>1, HeadTypes
    <2> HIDE DEF m
    <2>3. session' \in Sessions /\ session'.game = m.game /\ session'.credited = 0 /\ session'.age = 0
        BY <2>1, <2>2, LimitAssumption DEF NewSession, Sessions
    <2>4. Running'
        BY <2>2, <2>3, LimitAssumption DEF Running, NoSession
    <2>5. playtime[m.game] \in Nat
        BY <1>0, <2>2 DEF TypeOK
    <2>6. TypeOK'
        BY <1>0, <2>1, <2>2, <2>3, <2>5 DEF TypeOK
    <2>7. CreditIsOwn'
        BY <2>1, <2>3, <2>5 DEF CreditIsOwn
    <2>8. Kept
        <3> SUFFICES ASSUME NEW h \in library
                     PROVE  playtime[h] >= IF Running /\ session.game = h THEN before ELSE playtime[h]
            BY <2>1 DEF Kept
        <3>1. h \in Games /\ playtime[h] \in Nat /\ before \in Nat
            BY <1>0 DEF TypeOK
        <3> QED BY <1>0, <3>1, SessionOrNot DEF CreditIsOwn
    <2> QED BY <2>4, <2>6, <2>7, <2>8 DEF LaunchInv, ShimOwned
<1>3. CASE ClearRunning
    <2> DEFINE code == Head(events).code
    <2>1. events # <<>> /\ Head(events).type = "clear"
          /\ UNCHANGED <<library, fix, used, relaunch, logGame, preparing, delays, clicks>>
        BY <1>3 DEF ClearRunning, Next1
    <2>2. Tail(events) \in Seq(Events)
        BY <1>0, <2>1, HeadTypes
    <2>3. CASE ~Running
        <3>1. events' = Tail(events) /\ UNCHANGED <<session, shim, playtime, before>>
            BY <1>3, <2>3 DEF ClearRunning
        <3>2. HasMark(events) => HasMark(events')
            BY <1>0, <2>1, <3>1, MarkStays
        <3> QED BY <1>0, <2>1, <2>2, <3>1, <3>2, QuietStep DEF TypeOK
    <2>4. CASE Running
        <3> DEFINE discard == \/ Blamed(code) \/ ~session.saw
                              \/ ~CleanQuit(code, FALSE) /\ session.age < Quick
        <3>1. EndSession(discard) /\ discard \in BOOLEAN
            BY <1>3, <2>4 DEF ClearRunning
        <3>2. events' = IF Blamed(code) THEN Append(Tail(events), Fail(session.game)) ELSE Tail(events)
            BY <1>3, <2>4 DEF ClearRunning
        <3> HIDE DEF discard
        <3>3. /\ playtime' \in [Games -> Nat] /\ session' = NoSession /\ ~Running'
              /\ shim' = FALSE /\ before' = 0 /\ Kept
            BY <2>1, <2>4, <3>1, SessionEnds
        <3>4. Fail(session.game) \in Events
            BY <1>0, <2>4, SessionOrNot, PostedTypes
        <3>5. events' \in Seq(Events)
            BY <2>2, <3>2, <3>4
        <3>6. TypeOK'
            BY <1>0, <2>1, <3>3, <3>5 DEF TypeOK
        <3> QED BY <3>3, <3>6 DEF LaunchInv, ShimOwned, CreditIsOwn
    <2> QED BY <2>3, <2>4
<1>4. CASE FailureHandled
    <2>1. events # <<>> /\ Head(events).type = "fail" /\ LaunchFailure(Head(events).game, Tail(events), session)
        BY <1>4 DEF FailureHandled, Next1
    <2>2. Tail(events) \in Seq(Events) /\ Head(events).game \in Games
        BY <1>0, <2>1, HeadTypes
    <2>3. HasMark(events) => HasMark(Tail(events))
        BY <1>0, <2>1, MarkStays
    <2> QED BY <2>1, <2>2, <2>3, FailureSteps
<1>5. CASE SelfProtectionHandled
    <2>1. events # <<>> /\ Head(events).type = "protect" /\ events' = Tail(events)
          /\ UNCHANGED <<library, fix, used, relaunch, logGame, preparing, clicks>>
        BY <1>5 DEF SelfProtectionHandled, Next1
    <2>2. events' \in Seq(Events) /\ Head(events).game \in Games
        BY <1>0, <2>1, HeadTypes
    <2>3. HasMark(events) => HasMark(events')
        BY <1>0, <2>1, MarkStays
    <2>4. CASE UNCHANGED <<session, shim, playtime, before, delays>>
        BY <1>0, <2>1, <2>2, <2>3, <2>4, QuietStep DEF TypeOK
    <2>5. CASE EndTracked /\ Delayed("convert", Head(events).game)
        <3>1. delays' \in [Delays -> Nat]
            BY <1>0, <2>2, <2>5 DEF TypeOK, Delayed, Delays
        <3>2. /\ playtime' \in [Games -> Nat] /\ ~Running' /\ session' = NoSession
              /\ shim' \in BOOLEAN /\ (shim' => ~Running /\ shim) /\ before' \in Nat /\ Kept
            BY <2>1, <2>5, TrackedEnds
        <3>3. TypeOK'
            BY <1>0, <2>1, <2>2, <3>1, <3>2 DEF TypeOK
        <3>4. shim' => HasMark(events')
            BY <1>0, <2>3, <3>2 DEF ShimHeld
        <3> QED BY <3>2, <3>3, <3>4 DEF LaunchInv, ShimOwned, CreditIsOwn, HasMark
    <2> QED BY <1>5, <2>4, <2>5 DEF SelfProtectionHandled
<1> QED BY <1>1, <1>2, <1>3, <1>4, <1>5 DEF EventRuns

\* A launch that is prepared starts its process, or does not.
LEMMA PreparedSteps ==
    ASSUME LaunchInv, Prepared
    PROVE  LaunchInv' /\ Kept
<1>0. TypeOK /\ ShimHeld /\ CreditIsOwn /\ events \in Seq(Events)
    BY ShimOwnedParts DEF LaunchInv, TypeOK
<1>1. /\ preparing # <<>> /\ preparing' = Front(preparing)
      /\ UNCHANGED <<playtime, library, fix, session, used, relaunch, logGame, delays, clicks, before>>
    BY DEF Prepared, LaunchRefused, StartFails, ProcessStarts
<1>2. preparing' \in Seq(Games) /\ Last(preparing) \in Games
    BY <1>0, <1>1, InnermostReturns DEF TypeOK
<1>3. CreditIsOwn' /\ Kept
    BY <1>1, SessionUntouched
<1>4. CASE LaunchRefused \/ StartFails
    <2>1. events' = events /\ (shim' = shim \/ shim' = FALSE)
        BY <1>4 DEF LaunchRefused, StartFails
    <2>2. TypeOK'
        BY <1>0, <1>1, <1>2, <2>1 DEF TypeOK, Running
    <2>3. ShimOwned'
        BY <1>0, <1>1, <2>1, <2>2 DEF ShimOwned, ShimHeld, HasMark, Running
    <2> QED BY <1>3, <2>3 DEF LaunchInv
<1>5. ASSUME NEW known \in BOOLEAN, ProcessStarts(known) PROVE LaunchInv' /\ Kept
    <2> DEFINE g == Last(preparing)
               watch == fix[g].on /\ ~used
               m == Mark(g, known, watch)
    <2>1. watch \in BOOLEAN
        OBVIOUS
    <2>2. events' = Append(events, m) /\ shim' \in BOOLEAN
        BY <1>0, <1>5 DEF ProcessStarts, TypeOK
    <2> HIDE DEF watch
    <2>3. m \in Events /\ m.type = "mark"
        BY <1>2, <2>1, PostedTypes DEF Mark
    <2> HIDE DEF m
    <2>4. events' \in Seq(Events) /\ HasMark(events')
        BY <1>0, <2>2, <2>3, MarkPosted
    <2>5. TypeOK'
        BY <1>0, <1>1, <1>2, <2>2, <2>4 DEF TypeOK, Running
    <2>6. ShimOwned'
        BY <2>4, <2>5 DEF ShimOwned, HasMark
    <2> QED BY <1>3, <2>6 DEF LaunchInv
<1> QED BY <1>4, <1>5 DEF Prepared

\* The delays end in a launch, after a switch to SteamFix that may fail.
LEMMA DelaySteps ==
    ASSUME LaunchInv, NEW g \in Games, RelaunchGame(g) \/ Converted(g) \/ ConversionFails(g)
    PROVE  LaunchInv' /\ Kept
<1>0. TypeOK /\ events \in Seq(Events)
    BY ShimOwnedParts DEF LaunchInv, TypeOK
<1>1. \E kind \in {"relaunch", "convert"} : Elapses(kind, g)
    BY DEF RelaunchGame, Converted, ConversionFails
<1>2. PICK kind \in {"relaunch", "convert"} : Elapses(kind, g)
    BY <1>1
<1>3. delays' \in [Delays -> Nat]
    <2>1. <<kind, g>> \in Delays /\ delays \in [Delays -> Nat]
        BY <1>0 DEF Delays, TypeOK
    <2>2. delays[<<kind, g>>] - 1 \in Nat
        BY <1>2, <2>1 DEF Elapses
    <2> QED BY <1>2, <2>1, <2>2 DEF Elapses
<1>4. UNCHANGED <<playtime, library, session, shim, preparing, clicks, before>>
    BY DEF RelaunchGame, Converted, ConversionFails
<1>5. fix' \in [Games -> Overlays]
    <2>1. [kind |-> "steam", on |-> TRUE] \in Overlays /\ [kind |-> "none", on |-> FALSE] \in Overlays
        BY DEF Overlays, Kinds
    <2>2. \/ fix' = fix \/ fix' = [fix EXCEPT ![g] = [kind |-> "steam", on |-> TRUE]]
          \/ fix' = [fix EXCEPT ![g] = [kind |-> "none", on |-> FALSE]]
        BY DEF RelaunchGame, Converted, ConversionFails
    <2>3. fix \in [Games -> Overlays]
        BY <1>0 DEF TypeOK
    <2> DEFINE o == [kind |-> "steam", on |-> TRUE]
               n == [kind |-> "none", on |-> FALSE]
    <2>4. o \in Overlays /\ n \in Overlays
        BY <2>1
    <2>5. fix' = fix \/ fix' = [fix EXCEPT ![g] = o] \/ fix' = [fix EXCEPT ![g] = n]
        BY <2>2
    <2> HIDE DEF o, n
    <2> QED BY <2>3, <2>4, <2>5
<1>6. AutoLaunch(g) \/ UNCHANGED <<used, relaunch, logGame, events>>
    BY DEF RelaunchGame, Converted, ConversionFails
<1>7. AutoLaunch(g)
    BY <1>6 DEF AutoLaunch
<1>8. /\ used' \in BOOLEAN /\ relaunch' \in BOOLEAN /\ logGame' \in Games \cup {NoGame}
      /\ events' \in Seq(Events) /\ (HasMark(events) => HasMark(events'))
    BY <1>0, <1>7, LaunchPosts
<1>9. preparing' \in Seq(Games)
    BY <1>0, <1>4 DEF TypeOK
<1> QED BY <1>3, <1>4, <1>5, <1>8, <1>9, QuietStep

\* A step that only writes the session, as the same game and with what it has
\* been credited, or what is credited with this step.
LEMMA SessionSteps ==
    ASSUME LaunchInv, Running, session' \in Sessions, session'.game = session.game,
           session'.credited <= session'.age, session'.credited > 0 => session'.saw,
           playtime' \in [Games -> Nat],
           \A g \in library :
              /\ playtime'[g] >= IF session.game = g THEN before ELSE playtime[g]
              /\ g = session.game => playtime'[g] >= before + session'.credited,
           UNCHANGED <<library, fix, shim, used, relaunch, logGame, preparing, delays, clicks, before>>,
           events' \in Seq(Events), HasMark(events) => HasMark(events')
    PROVE  LaunchInv' /\ Kept
<1>0. TypeOK
    BY ShimOwnedParts DEF LaunchInv
<1>1. Running'
    BY LimitAssumption DEF Running, Sessions, NoSession
<1>2. TypeOK'
    BY <1>0 DEF TypeOK
<1>3. ShimOwned'
    BY <1>1, <1>2 DEF ShimOwned
<1>4. CreditIsOwn' /\ Kept
    BY DEF CreditIsOwn, Kept
<1> QED BY <1>3, <1>4 DEF LaunchInv

\* What the process and its executable write into the session.
LEMMA ProcessWrites ==
    ASSUME NEW s \in Sessions, NEW t, NEW code \in {"clean", "unknown"}, NEW crashed \in BOOLEAN,
           \/ t = [s EXCEPT !.exe = "alive"]
           \/ t = [s EXCEPT !.exe = "gone", !.crashed = crashed]
           \/ t = [s EXCEPT !.root = "dead", !.code = code, !.crashed = crashed]
    PROVE  /\ t \in Sessions /\ t.game = s.game /\ t.credited = s.credited
           /\ t.age = s.age /\ t.saw = s.saw
<1>1. CASE t = [s EXCEPT !.exe = "alive"]
    BY <1>1 DEF Sessions
<1>2. CASE t = [s EXCEPT !.exe = "gone", !.crashed = crashed]
    BY <1>2 DEF Sessions
<1>3. CASE t = [s EXCEPT !.root = "dead", !.code = code, !.crashed = crashed]
    BY <1>3 DEF Sessions
<1> QED BY <1>1, <1>2, <1>3

\* The process, its executable and time.
LEMMA ProcessSteps ==
    ASSUME LaunchInv, ExecutableStarts \/ ExecutableExits \/ ProcessExits \/ TimePasses
    PROVE  LaunchInv' /\ Kept
<1>0. TypeOK /\ CreditIsOwn /\ Running
    BY ShimOwnedParts DEF LaunchInv, ExecutableStarts, ExecutableExits, ProcessExits, TimePasses
<1>1. /\ session \in Sessions /\ session.game \in Games /\ session.credited \in Nat /\ session.age \in Nat
      /\ session.credited <= session.age /\ (session.credited > 0 => session.saw)
    BY <1>0, SessionOrNot DEF TypeOK
<1>2. UNCHANGED <<playtime, library, fix, shim, used, relaunch, logGame, events, preparing, delays, clicks, before>>
    BY DEF ExecutableStarts, ExecutableExits, ProcessExits, TimePasses, Happens
<1>3. /\ session' \in Sessions /\ session'.game = session.game /\ session'.credited = session.credited
      /\ session'.age >= session.age /\ session'.saw = session.saw
    <2>1. CASE ExecutableStarts
        BY <1>1, <2>1 DEF ExecutableStarts, Happens, Sessions
    <2>2. CASE ExecutableExits
        <3>1. PICK crashed \in BOOLEAN : session' = [session EXCEPT !.exe = "gone", !.crashed = crashed]
            BY <2>2 DEF ExecutableExits, Happens
        <3>2. /\ session' \in Sessions /\ session'.game = session.game /\ session'.credited = session.credited
              /\ session'.age = session.age /\ session'.saw = session.saw
            BY <1>1, <3>1, ProcessWrites
        <3> QED BY <1>1, <3>2
    <2>3. CASE ProcessExits
        <3>1. PICK code \in {"clean", "unknown"}, crashed \in BOOLEAN :
                  session' = [session EXCEPT !.root = "dead", !.code = code, !.crashed = session.crashed \/ crashed]
            BY <2>3 DEF ProcessExits, Happens
        <3> DEFINE c == session.crashed \/ crashed
        <3>2. c \in BOOLEAN /\ session' = [session EXCEPT !.root = "dead", !.code = code, !.crashed = c]
            BY <3>1
        <3> HIDE DEF c
        <3>3. /\ session' \in Sessions /\ session'.game = session.game /\ session'.credited = session.credited
              /\ session'.age = session.age /\ session'.saw = session.saw
            BY <1>1, <3>2, ProcessWrites
        <3> QED BY <1>1, <3>3
    <2>4. CASE TimePasses
        <3>1. session' = [session EXCEPT !.age = session.age + 1] /\ session.age + 1 \in 0..MaxAge
            BY <1>1, <2>4, LimitAssumption DEF TimePasses, Happens
        <3> QED BY <1>1, <3>1 DEF Sessions
    <2> QED BY <2>1, <2>2, <2>3, <2>4
<1>4. session'.credited <= session'.age /\ (session'.credited > 0 => session'.saw)
    <2>1. session'.age \in Nat
        BY <1>3 DEF Sessions
    <2> QED BY <1>1, <1>3, <2>1
<1>5. \A g \in library :
         /\ playtime'[g] >= IF session.game = g THEN before ELSE playtime[g]
         /\ g = session.game => playtime'[g] >= before + session'.credited
    <2> SUFFICES ASSUME NEW g \in library
                 PROVE  /\ playtime[g] >= IF session.game = g THEN before ELSE playtime[g]
                        /\ g = session.game => playtime[g] >= before + session.credited
        BY <1>2, <1>3
    <2>1. playtime[g] \in Nat /\ before \in Nat
        BY <1>0 DEF TypeOK
    <2> QED BY <1>0, <1>1, <2>1 DEF CreditIsOwn
<1>6. playtime' \in [Games -> Nat] /\ events' \in Seq(Events) /\ (HasMark(events) => HasMark(events'))
    BY <1>0, <1>2 DEF TypeOK
<1> QED BY <1>0, <1>2, <1>3, <1>4, <1>5, <1>6, SessionSteps

\* What a poll writes into the session beside its first note.
LEMMA PollWrites ==
    ASSUME NEW s \in Sessions, NEW t,
           \/ t = [s EXCEPT !.handled = TRUE]
           \/ \E code \in {"clean", "unknown"}, watching \in BOOLEAN :
                 t = [s EXCEPT !.code = code, !.watching = watching]
    PROVE  /\ t \in Sessions /\ t.game = s.game /\ t.credited = s.credited
           /\ t.age = s.age /\ t.saw = s.saw
<1>1. CASE t = [s EXCEPT !.handled = TRUE]
    BY <1>1 DEF Sessions
<1>2. ASSUME NEW code \in {"clean", "unknown"}, NEW watching \in BOOLEAN,
             t = [s EXCEPT !.code = code, !.watching = watching]
      PROVE  /\ t \in Sessions /\ t.game = s.game /\ t.credited = s.credited
             /\ t.age = s.age /\ t.saw = s.saw
    BY <1>2 DEF Sessions
<1> QED BY <1>1, <1>2

\* The polls: what they note first, and the event one of them posts.
LEMMA PollSteps ==
    ASSUME LaunchInv, Poll
    PROVE  LaunchInv' /\ Kept
<1>0. TypeOK /\ CreditIsOwn /\ Running /\ events \in Seq(Events)
    BY ShimOwnedParts DEF LaunchInv, TypeOK, Poll, PollRefused, PollFailure, PollEnd, PollQuiet, Polling
<1>1. session \in Sessions /\ session.game \in Games
    BY <1>0, SessionOrNot
<1>2. CASE PollFailure
    BY <1>0, <1>1, <1>2, FailureSteps DEF PollFailure
<1>3. CASE PollRefused \/ PollEnd \/ PollQuiet
    <2>1. /\ Seen \in Sessions /\ Seen.game = session.game
          /\ Seen.credited <= Seen.age /\ (Seen.credited > 0 => Seen.saw)
          /\ Credited \in [Games -> Nat]
          /\ \A g \in library : /\ Credited[g] >= IF session.game = g THEN before ELSE playtime[g]
                                /\ g = session.game => Credited[g] >= before + Seen.credited
        BY <1>0, PollCredits
    <2>2. /\ playtime' = Credited
          /\ UNCHANGED <<library, fix, shim, used, relaunch, logGame, preparing, delays, clicks, before>>
        BY <1>3 DEF PollRefused, PollEnd, PollQuiet
    <2>3. /\ session' \in Sessions /\ session'.game = Seen.game /\ session'.credited = Seen.credited
          /\ session'.age = Seen.age /\ session'.saw = Seen.saw
        <3> DEFINE s == Seen
        <3>1. s \in Sessions
            BY <2>1
        <3>2. \/ session' = [s EXCEPT !.handled = TRUE]
              \/ \E code \in {"clean", "unknown"}, watching \in BOOLEAN :
                    session' = [s EXCEPT !.code = code, !.watching = watching]
            <4>1. CASE PollRefused
                BY <4>1 DEF PollRefused, Unhandled
            <4>2. CASE PollEnd
                <5> DEFINE watching == Seen.watching /\ session.age <= Quick
                <5>1. session' = [s EXCEPT !.code = "unknown", !.watching = watching] /\ watching \in BOOLEAN
                    BY <4>2 DEF PollEnd
                <5> QED BY <5>1
            <4>3. CASE PollQuiet
                <5> DEFINE watching == Seen.watching /\ session.age <= Quick
                           code == IF session.root = "dead" THEN "unknown" ELSE Seen.code
                <5>1. session' = [s EXCEPT !.code = code, !.watching = watching] /\ watching \in BOOLEAN
                    BY <4>3 DEF PollQuiet
                <5>2. code \in {"clean", "unknown"}
                    BY <2>1 DEF Sessions
                <5> QED BY <5>1, <5>2
            <4> QED BY <1>3, <4>1, <4>2, <4>3
        <3> QED BY <3>1, <3>2, PollWrites
    <2>4. events' \in Seq(Events) /\ (HasMark(events) => HasMark(events'))
        <3>1. Protect(session.game) \in Events /\ Clear(session.code) \in Events
            <4>1. session.code \in {"clean", "unknown"}
                BY <1>1 DEF Sessions
            <4> QED BY <1>1, <4>1, PostedTypes
        <3>2. \E e \in Events : events' = Append(events, e) \/ events' = events
            BY <1>3, <3>1 DEF PollRefused, PollEnd, PollQuiet
        <3>3. PICK e \in Events : events' = Append(events, e) \/ events' = events
            BY <3>2
        <3>4. events' \in Seq(Events)
            BY <1>0, <3>3
        <3> QED BY <1>0, <3>3, <3>4, MarkPosted
    <2>5. /\ session'.game = session.game
          /\ session'.credited <= session'.age /\ (session'.credited > 0 => session'.saw)
          /\ playtime' \in [Games -> Nat]
        BY <2>1, <2>2, <2>3
    <2>6. \A g \in library : /\ playtime'[g] >= IF session.game = g THEN before ELSE playtime[g]
                             /\ g = session.game => playtime'[g] >= before + session'.credited
        BY <2>1, <2>2, <2>3
    <2> QED BY <1>0, <2>2, <2>3, <2>4, <2>5, <2>6, SessionSteps
<1> QED BY <1>2, <1>3 DEF Poll

----------------------------------------------------------------------------
\* Nothing runs at the start of the program.
LEMMA LaunchInvInit == Init => LaunchInv
<1> SUFFICES ASSUME Init PROVE LaunchInv
    OBVIOUS
<1>1. playtime \in [Games -> Nat] /\ fix \in [Games -> Overlays]
    BY LimitAssumption DEF Init
<1>2. /\ library \in SUBSET Games /\ session = NoSession /\ ~Running /\ shim = FALSE /\ used = FALSE
      /\ relaunch = FALSE /\ logGame = NoGame /\ events \in Seq(Events) /\ preparing \in Seq(Games)
      /\ before = 0
    BY DEF Init, Running
<1>3. delays \in [Delays -> Nat] /\ clicks \in 0..MaxClicks
    BY LimitAssumption DEF Init
<1>4. TypeOK
    BY <1>1, <1>2, <1>3 DEF TypeOK
<1> QED BY <1>2, <1>4 DEF LaunchInv, ShimOwned, CreditIsOwn

\* Every step keeps the invariant and the play time of every game.
LEMMA LaunchInvNext == LaunchInv /\ [Next]_vars => LaunchInv' /\ [Kept]_vars
<1> SUFFICES ASSUME LaunchInv, [Next]_vars PROVE LaunchInv' /\ [Kept]_vars
    OBVIOUS
<1>1. CASE UNCHANGED vars
    <2>1. LaunchInv'
        BY <1>1 DEF vars, LaunchInv, ShimOwned, CreditIsOwn, TypeOK, Running
    <2> QED BY <1>1, <2>1
<1>2. ASSUME NEW g \in Games, Play(g) \/ ToggleFix(g) \/ RemoveGame(g) PROVE LaunchInv' /\ Kept
    BY <1>2, UserSteps
<1>3. CASE StopRunningGame
    <2>1. \E g : g \in Games
        BY <1>3, SessionOrNot DEF StopRunningGame, LaunchInv, ShimOwned
    <2>2. LaunchInv' /\ Kept
        BY <1>3, <2>1, UserSteps
    <2> QED BY <2>2
<1>4. ASSUME NEW g \in Games, RelaunchGame(g) \/ Converted(g) \/ ConversionFails(g)
      PROVE  LaunchInv' /\ Kept
    BY <1>4, DelaySteps
<1>5. CASE EventRuns
    BY <1>5, EventSteps
<1>6. CASE Prepared
    BY <1>6, PreparedSteps
<1>7. CASE Poll
    BY <1>7, PollSteps
<1>8. CASE ExecutableStarts \/ ExecutableExits \/ ProcessExits \/ TimePasses
    BY <1>8, ProcessSteps
<1> QED BY <1>1, <1>2, <1>3, <1>4, <1>5, <1>6, <1>7, <1>8 DEF Next, DelayEnds

\* The inductive invariant: who holds the stub, and that what a session has
\* been credited is part of the play time of its game.
THEOREM LaunchCorrect == Spec => []LaunchInv
<1>1. LaunchInv /\ [Next]_vars => LaunchInv'
    BY LaunchInvNext
<1> QED BY <1>1, LaunchInvInit, PTL DEF Spec

\* The stub of Steam never stays when nothing runs and nothing is about to.
THEOREM ShimOwnedHolds == Spec => []ShimOwned
<1>1. LaunchInv => ShimOwned
    BY DEF LaunchInv
<1> QED BY <1>1, LaunchCorrect, PTL

\* No step takes play time from a game that it had before its session began.
THEOREM PlaytimeKeptHolds == Spec => PlaytimeKept
<1>1. LaunchInv /\ [Next]_vars
          => [\A g \in library' :
                playtime'[g] >= IF Running /\ session.game = g THEN before ELSE playtime[g]]_vars
    BY LaunchInvNext DEF Kept
<1> QED BY <1>1, LaunchCorrect, PTL DEF Spec, PlaytimeKept

================================================================================
