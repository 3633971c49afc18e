-------------------------------- MODULE CoverFetch --------------------------------
(***************************************************************************)
(* How the cards of the catalog get their pictures: CatalogCoverCoordinator*)
(* keeps a plan per entry (a ladder of URLs, one of them being fetched),   *)
(* CoverImageCache downloads, GameMetadataService asks the Steam store     *)
(* when the ladder is used up.                                             *)
(*                                                                         *)
(* Everything runs on the UI thread; downloads and store answers are       *)
(* events.  A card has the address of its picture in the cache or none.    *)
(* The requests that are not visible ones (warm covers) keep the priority  *)
(* of a new plan, which is Visible, and are not told apart.                *)
(***************************************************************************)
EXTENDS CoverImageCache

CONSTANTS
    Count,        \* entries of the catalog
    Apps,         \* Steam applications
    KnownApp,     \* the application each entry comes with, or NoApp
    StoreApp,     \* the application the store search finds for its title
    HasFeed,      \* the entries whose feed names a cover
    Terms,        \* search terms of a title
    MetaSlots,    \* kMaxConcurrent of GameMetadataService
    MetaQueue,    \* kMaxQueueSize of GameMetadataService
    MaxClicks,    \* bound on what the user does
    Faults        \* the incidents after which the code leaves a card waiting

Entries == 1..Count
NoApp == 0
AllFaults == {"timeout", "store cover fails", "short write", "disk full"}

ASSUME CoverAssumption ==
    /\ Count \in Nat /\ Apps \subseteq Nat \ {NoApp}
    /\ KnownApp \in [Entries -> Apps \cup {NoApp}] /\ StoreApp \in [Entries -> Apps]
    /\ HasFeed \subseteq Entries
    /\ Terms \in Nat \ {0} /\ MetaSlots \in Nat \ {0} /\ MetaQueue \in Nat \ {0}
    /\ MaxClicks \in Nat
    /\ Faults \subseteq AllFaults

\* The URLs: kind and number of the application or of the entry.
Urls == ({"thumb", "hq", "header", "hero"} \X Apps) \cup ({"feed", "store"} \X Entries)
None == << "none", 0 >>
Thumb(a) == << "thumb", a >>
Hq(a) == << "hq", a >>
Header(a) == << "header", a >>
Hero(a) == << "hero", a >>
Feed(e) == << "feed", e >>
Store(e) == << "store", e >>

\* isHqUrl: both portrait pictures have library_600x900 in their name.
IsHq(url) == url[1] \in {"thumb", "hq"}

VARIABLES
    cache,   \* CoverImageCache
    plan,    \* m_plans; an entry without a plan has NewPlan
    wait,    \* m_waiters
    heroes,  \* m_heroWaiters
    lost,    \* m_failedEntries
    row,     \* of the catalog entry: its application, cover and spinner (metadataPending)
    hero,    \* m_heroLocal
    known,   \* the metadata cache: application, "has a cover", "has a description"
    asked,   \* the request for metadata of each entry
    queue,   \* m_pending of GameMetadataService: the entries, next first
    later,   \* m_deferredFull
    clicks

vars == << cache, plan, wait, heroes, lost, row, hero, known, asked, queue, later, clicks >>

Phases == {"idle", "fetching", "showing", "done", "failed"}
NewPlan == [wanted |-> FALSE, phase |-> "idle", urls |-> << >>, index |-> 1, active |-> None,
            applied |-> FALSE, upgrading |-> FALSE]
NewRow(app) == [app |-> app, cover |-> None, spinner |-> FALSE]
\* stage of a request; full: not the cover only; left: search terms after this one, Direct for
\* a known application; cover: the store named one
Stages == {"none", "queued", "search", "assets", "details", "size", "players"}
Direct == -1
NotAsked == [stage |-> "none", full |-> FALSE, left |-> 0, cover |-> FALSE]
Running == {"search", "assets", "details", "size", "players"}

Init ==
    /\ cache = [found |-> [url \in Urls |-> "unknown"], checked |-> {}, pending |-> << >>,
                flying |-> << >>, posted |-> << >>]
    /\ plan = [e \in Entries |-> NewPlan]
    /\ wait = [url \in Urls |-> {}]
    /\ heroes = [url \in Urls |-> {}]
    /\ lost = {}
    /\ row = [e \in Entries |-> NewRow(KnownApp[e])]
    /\ hero = [e \in Entries |-> None]
    /\ known = [e \in Entries |-> [app |-> NoApp, cover |-> FALSE, text |-> FALSE]]
    /\ asked = [e \in Entries |-> NotAsked]
    /\ queue = << >>
    /\ later = {}
    /\ clicks = 0

--------------------------------------------------------------------------------
(***************************************************************************)
(* A handler is a chain of calls, each of them a map from a World to the   *)
(* World after it; Become makes the last one the next state.               *)
(***************************************************************************)
World ==
    [ cache |-> cache, plan |-> plan, wait |-> wait, heroes |-> heroes, lost |-> lost, row |-> row,
      hero |-> hero, known |-> known, asked |-> asked, queue |-> queue, later |-> later ]

Become(w) ==
    /\ cache' = w.cache
    /\ plan' = w.plan
    /\ wait' = w.wait
    /\ heroes' = w.heroes
    /\ lost' = w.lost
    /\ row' = w.row
    /\ hero' = w.hero
    /\ known' = w.known
    /\ asked' = w.asked
    /\ queue' = w.queue
    /\ later' = w.later

Has(w, url) == Local(w.cache, url)
Failing(w, url) == HasFailed(w.cache, url)

\* applyCoverToEntry with a picture; with none, a picture on screen is kept.
Show(w, e, url) ==
    IF w.row[e].cover = url /\ ~ w.row[e].spinner THEN w
    ELSE [w EXCEPT !.row[e].cover = url, !.row[e].spinner = FALSE, !.plan[e].applied = TRUE]
Settle(w, e) == [w EXCEPT !.row[e].spinner = FALSE]
Spin(w, e) == [w EXCEPT !.row[e].spinner = TRUE]

Phase(w, e, phase) == [w EXCEPT !.plan[e].phase = phase]

\* applyCover without a picture
NoCover(w, e) == Phase(Settle(w, e), e, IF w.plan[e].applied THEN "done" ELSE "failed")

\* resolveCatalogRemote: prepareCatalogEntry drops the feed's cover of an entry with an
\* application, so no application has a mapped cover.
Remote(w, e) ==
    CASE w.row[e].app # NoApp -> << Thumb(w.row[e].app) >>
      [] e \in HasFeed -> << Feed(e) >>
      [] OTHER -> << >>

OfApp(w, e, KindsOf(_)) == IF w.row[e].app = NoApp THEN << >> ELSE KindsOf(w.row[e].app)

\* buildPlanUrls
Ladder(w, e) ==
    LET rungs == Remote(w, e) \o (IF w.known[e].cover THEN << Store(e) >> ELSE << >>)
                 \o OfApp(w, e, LAMBDA a : << Hq(a), Header(a) >>)
    IN  [w EXCEPT !.plan[e].urls = SelectSeq(rungs, LAMBDA url : ~ Failing(w, url)),
                  !.plan[e].index = 1]

\* the first of the URLs that is in the cache
FirstCached(w, urls) == SelectInSeq(urls, LAMBDA url : Has(w, url))

\* the first portrait picture of the ladder worth an upgrade
Upgrade(w, e) == SelectInSeq(w.plan[e].urls,
                             LAMBDA url : IsHq(url) /\ ~ Has(w, url) /\ ~ Failing(w, url))

Fetch(w, url, visible) == [w EXCEPT !.cache = Ensure(@, url, visible)]

\* releasePlanRemote, which does not look at the heroes that wait for the URL
ReleaseRemote(w, e) ==
    LET url == w.plan[e].active
        left == [w EXCEPT !.plan[e].active = None, !.wait[url] = @ \ {e}]
    IN  IF url = None THEN w
        ELSE IF left.wait[url] = {} THEN [left EXCEPT !.cache = Release(@, url)] ELSE left

--------------------------------------------------------------------------------
(***************************************************************************)
(* GameMetadataService: one request per entry, searches in a queue.        *)
(***************************************************************************)
Stage(w, e, stage) == [w EXCEPT !.asked[e].stage = stage]
Answered(w, e) == [w EXCEPT !.asked[e] = NotAsked]
Busy(w, e) == w.asked[e].stage \in Running
Active(w) == Cardinality({e \in Entries : Busy(w, e)})
AppOf(w, e) == IF w.row[e].app # NoApp THEN w.row[e].app ELSE StoreApp[e]

\* startKnownAppFetch, past the limit of MetaSlots; a cover that is cached is not asked again
StartKnown(w, e, full) ==
    LET cached == full /\ w.known[e].cover
    IN  [w EXCEPT !.asked[e] = [stage |-> IF cached THEN "details" ELSE "assets", full |-> full,
                                left |-> 0, cover |-> cached]]

\* requestNext
RECURSIVE MetaNext(_)
MetaNext(w) ==
    IF Active(w) >= MetaSlots \/ w.queue = << >> THEN w
    ELSE LET e == Head(w.queue)
             taken == [w EXCEPT !.queue = Tail(@)]
         IN  MetaNext(IF w.asked[e].left = Direct THEN StartKnown(taken, e, w.asked[e].full)
                      ELSE Stage(taken, e, "search"))

\* handleMetadataCover without a cover
NoMetadataCover(w, e) ==
    IF (~ w.plan[e].wanted /\ w.plan[e].phase # "fetching") \/ w.plan[e].applied THEN w
    ELSE Settle(Phase([w EXCEPT !.lost = @ \cup {e}], e, "failed"), e)

RECURSIVE QueueFetch(_, _, _), Prepend(_, _, _, _), FailCover(_, _), EnsureUrl(_, _),
          MetadataCover(_, _)

\* tryDeferredFull
TryLater(w, e) == IF e \in w.later THEN QueueFetch([w EXCEPT !.later = @ \ {e}], e, TRUE) ELSE w

FailCover(w, e) == MetaNext(TryLater(NoMetadataCover(Answered(w, e), e), e))

\* prependPending: the oldest request falls out of a full queue.
Prepend(w, e, full, left) ==
    LET longer == << e >> \o Remove(w.queue, e)
        waits == [w EXCEPT !.queue = longer,
                           !.asked[e] = [NotAsked EXCEPT !.stage = "queued", !.full = full,
                                                         !.left = left]]
    IN  IF left < 0 THEN FailCover(w, e)
        ELSE MetaNext(IF Len(longer) <= MetaQueue THEN waits
                      ELSE FailCover([waits EXCEPT !.queue = Front(@)], Last(longer)))

\* ensureDiskCover, for the store's cover
EnsureDisk(w, e) ==
    LET url == Store(e)
        urls == IF Contains(w.plan[e].urls, url) THEN w.plan[e].urls
                ELSE << url >> \o w.plan[e].urls
        wanted == [w EXCEPT !.plan[e].wanted = TRUE]
        fetching == [wanted EXCEPT !.plan[e].phase = "fetching", !.plan[e].active = url,
                                   !.plan[e].urls = urls,
                                   !.plan[e].index = IndexFirstSubSeq(<< url >>, urls),
                                   !.wait[url] = @ \cup {e}]
    IN  CASE w.row[e].cover # None -> w
          [] w.row[e].cover = None /\ Has(w, url) -> Phase(Show(wanted, e, url), e, "done")
          [] w.row[e].cover = None /\ Failing(w, url) -> Settle(wanted, e)
          [] OTHER -> Fetch(fetching, url, TRUE)

\* the metadataReady handler: the row learns its application and the cover is fetched.
MetadataReady(w, e) ==
    LET told == [w EXCEPT !.row[e].app = IF @ = NoApp THEN w.known[e].app ELSE @]
    IN  IF w.known[e].cover THEN EnsureDisk(told, e) ELSE NoCover(told, e)

QueueFetch(w, e, full) ==
    LET app == w.row[e].app
        v == IF app = NoApp THEN w ELSE [w EXCEPT !.known[e].app = app]
        cached == w.known[e].cover
        first == [v EXCEPT !.queue = << e >> \o Remove(@, e), !.asked[e].full = @ \/ full,
                           !.asked[e].left = IF app # NoApp THEN Direct ELSE @]
    IN  IF ~ full /\ cached THEN MetadataCover(v, e)
        ELSE IF full /\ cached /\ w.known[e].text THEN MetadataReady(v, e)
        ELSE IF Busy(w, e) THEN [v EXCEPT !.later = IF full THEN @ \cup {e} ELSE @]
        ELSE IF w.asked[e].stage = "queued" THEN MetaNext(first)
        ELSE IF app # NoApp THEN StartKnown(v, e, full)
        ELSE IF ~ full /\ w.known[e].app # NoApp
             THEN [v EXCEPT !.asked[e] = [NotAsked EXCEPT !.stage = "assets", !.left = Terms - 1]]
        ELSE Prepend(v, e, full, Terms - 1)

--------------------------------------------------------------------------------
(***************************************************************************)
(* CatalogCoverCoordinator.                                                *)
(***************************************************************************)
\* handleMetadataCover with the store's cover
MetadataCover(w, e) ==
    LET url == Store(e)
        p == w.plan[e]
        climbed == IF Contains(p.urls, url)
                   THEN [w EXCEPT !.plan[e].index = IndexFirstSubSeq(<< url >>, p.urls)]
                   ELSE [w EXCEPT !.plan[e].urls = InsertAt(@, p.index, url)]
    IN  IF ~ p.wanted /\ p.phase # "fetching" THEN w ELSE EnsureUrl(climbed, e)

\* ensureCurrentUrl past the last rung
EndOfLadder(w, e) ==
    CASE w.plan[e].applied -> Settle(Phase(w, e, "done"), e)
      [] ~ w.plan[e].applied /\ w.plan[e].wanted ->
             QueueFetch(Spin(Phase(w, e, "fetching"), e), e, FALSE)
      [] OTHER -> Settle(Phase([w EXCEPT !.lost = @ \cup {e}], e, "failed"), e)

EnsureUrl(w, e) ==
    LET p == w.plan[e]
        url == p.urls[p.index]
        shown == Phase(Show(w, e, url), e, IF IsHq(url) THEN "done" ELSE "showing")
        visible == ~ (p.applied /\ IsHq(url))
        fetching == [Spin(Phase(w, e, "fetching"), e) EXCEPT
                        !.plan[e].active = url, !.wait[url] = @ \cup {e},
                        !.plan[e].upgrading = @ \/ ~ visible]
    IN  IF p.index > Len(p.urls) THEN EndOfLadder(w, e)
        ELSE IF ~ Has(w, url) THEN Fetch(fetching, url, visible)
        ELSE IF IsHq(url) \/ (p.wanted /\ p.upgrading) THEN shown
        ELSE IF ~ p.wanted THEN Phase(shown, e, "done")
        ELSE EnsureUrl([shown EXCEPT !.plan[e].index = @ + 1], e)

\* advancePlan
Advance(w, e) ==
    LET next == [w EXCEPT !.plan[e].index = @ + 1, !.plan[e].active = None]
    IN  IF w.plan[e].wanted THEN EnsureUrl(next, e)
        ELSE Phase(next, e, IF w.plan[e].applied THEN "done" ELSE "idle")

\* startOrContinuePlan
StartPlan(w, e) ==
    LET probes == Remote(w, e) \o OfApp(w, e, LAMBDA a : << Hq(a), Header(a) >>)
        hit == FirstCached(w, probes)
        shown == Ladder([Show(w, e, probes[hit]) EXCEPT !.plan[e].applied = TRUE], e)
        rung == Upgrade(shown, e)
        climbing == [Phase(shown, e, "showing") EXCEPT !.plan[e].index = rung]
    IN  IF hit = 0 THEN EnsureUrl(IF w.plan[e].urls = << >> THEN Ladder(w, e) ELSE w, e)
        ELSE IF rung = 0 THEN Settle(Phase(shown, e, "done"), e)
        ELSE EnsureUrl(climbing, e)

\* requestCatalogCover: a picture whose file is gone is taken off the row first.
RequestCover(w, e) ==
    LET shown == w.row[e].cover
        good == shown # None /\ GoodFile(w.cache, shown)
        asking == [w EXCEPT !.lost = @ \ {e}, !.plan[e].wanted = TRUE,
                            !.cache.checked = IF good THEN @ \cup {shown} ELSE @,
                            !.row[e].cover = IF good THEN @ ELSE None]
        p == w.plan[e]
        kept == Ladder([asking EXCEPT !.plan[e].applied = TRUE], e)
        rung == Upgrade(kept, e)
        anew == ~ p.wanted \/ p.urls = << >> \/ p.phase \in {"idle", "failed"}
        fresh == Ladder(ReleaseRemote([asking EXCEPT !.plan[e].upgrading = FALSE], e), e)
    IN  IF good
        THEN IF w.row[e].app = NoApp THEN Phase([asking EXCEPT !.plan[e].applied = TRUE], e, "done")
             ELSE IF rung = 0 THEN Phase(kept, e, "done")
             ELSE EnsureUrl([Phase(kept, e, "showing") EXCEPT !.plan[e].index = rung], e)
        ELSE IF p.phase = "fetching" /\ p.active # None THEN Fetch(asking, p.active, TRUE)
        ELSE StartPlan(IF anew THEN fresh ELSE asking, e)

\* cancelPendingCoverOnly
DropCoverOnly(w, e) ==
    IF w.asked[e].stage = "queued" /\ ~ w.asked[e].full
    THEN [Answered(w, e) EXCEPT !.queue = Remove(@, e)] ELSE w

\* cancelCatalogCover: the plan of a card that waits for nothing is forgotten.
CancelCover(w, e) ==
    LET left == Settle(DropCoverOnly(ReleaseRemote([w EXCEPT !.plan[e].wanted = FALSE], e), e), e)
    IN  IF w.plan[e].phase = "fetching"
        THEN [Phase(left, e, "idle") EXCEPT !.plan[e].upgrading = FALSE]
        ELSE [left EXCEPT !.plan[e] = NewPlan]

\* the URLs invalidateCatalogCover removes, in its order
Invalidated(w, e) ==
    (IF w.row[e].app = NoApp /\ e \in HasFeed THEN << Feed(e) >> ELSE << >>)
    \o (IF w.known[e].cover THEN << Store(e) >> ELSE << >>)
    \o OfApp(w, e, LAMBDA a : << Thumb(a), Hq(a), Hero(a), Header(a) >>)

\* invalidateCatalogCover: a picture whose file is fine is only shown again.
InvalidateCover(w, e) ==
    LET url == w.row[e].cover
        released == ReleaseRemote([w EXCEPT !.lost = @ \ {e}], e)
        file == [released EXCEPT !.cache = IF url = None THEN @ ELSE RemovedFile(@, url)]
        gone == [file EXCEPT !.cache = FoldLeft(Removed, @, Invalidated(w, e)),
                             !.known[e].cover = FALSE, !.hero[e] = None, !.plan[e] = NewPlan,
                             !.row[e].cover = None, !.row[e].spinner = TRUE]
    IN  IF url # None /\ w.cache.found[url] = "stored"
        THEN [w EXCEPT !.row[e].spinner = FALSE, !.plan[e].applied = TRUE]
        ELSE RequestCover(gone, e)

\* queueHeroDownload
QueueHero(w, e, url) ==
    CASE Has(w, url) -> [w EXCEPT !.hero[e] = url]
      [] Failing(w, url) -> w
      [] OTHER -> Fetch([w EXCEPT !.heroes[url] = @ \cup {e}], url, TRUE)

\* requestCatalogHeroCover
RequestHero(w, e) ==
    LET shown == w.row[e].cover
        app == w.row[e].app
        lent == IF shown = None THEN w ELSE [w EXCEPT !.hero[e] = shown]
        probes == << Hero(app), Header(app) >>
        hit == FirstCached(w, probes)
    IN  IF w.hero[e] # None THEN w
        ELSE IF app = NoApp THEN lent
        ELSE IF hit # 0 THEN [w EXCEPT !.hero[e] = probes[hit]]
        ELSE QueueHero(lent, e, Hero(app))

--------------------------------------------------------------------------------
(***************************************************************************)
(* Events: a download ends, a posted signal arrives, the store answers.    *)
(***************************************************************************)
InTurn(Op(_, _), w, entries) == FoldLeft(Op, w, SetToSortSeq(entries, <))

\* handleCacheReady, for one card; the picture is shown even to a card that gave up.
CardReady(url, w, e) ==
    LET shown == Phase(Show([w EXCEPT !.plan[e].active = IF @ = url THEN None ELSE @], e, url),
                       e, IF IsHq(url) THEN "done" ELSE "showing")
    IN  IF ~ w.plan[e].wanted THEN shown
        ELSE IF IsHq(url) THEN Settle([shown EXCEPT !.plan[e].upgrading = FALSE], e)
        ELSE Advance(shown, e)

\* handleCacheFailed, for one card
CardFailed(url, w, e) ==
    LET freed == [w EXCEPT !.plan[e].active = IF @ = url THEN None ELSE @]
    IN  IF w.plan[e].wanted THEN Advance(freed, e)
        ELSE Phase(freed, e, IF w.plan[e].applied THEN "done" ELSE "idle")

\* handleHeroFailed, for one entry
HeroFailed(url, w, e) ==
    LET app == w.row[e].app IN
    CASE app = NoApp -> w
      [] app # NoApp /\ url = Hero(app) /\ ~ Failing(w, Header(app)) -> QueueHero(w, e, Header(app))
      [] OTHER -> IF w.row[e].cover = None THEN w ELSE [w EXCEPT !.hero[e] = w.row[e].cover]

\* The signal ready: handleHeroReady, then handleCacheReady.
Ready(w, url) ==
    LET shown == [w EXCEPT !.hero = [e \in Entries |-> IF e \in w.heroes[url] THEN url ELSE @[e]],
                           !.heroes[url] = {}, !.wait[url] = {}]
    IN  InTurn(LAMBDA x, e : CardReady(url, x, e), shown, w.wait[url])

\* The signal failed: handleHeroFailed, then handleCacheFailed.
Failed(w, url) ==
    LET told == InTurn(LAMBDA x, e : HeroFailed(url, x, e), [w EXCEPT !.heroes[url] = {}],
                       w.heroes[url])
    IN  InTurn(LAMBDA x, e : CardFailed(url, x, e), [told EXCEPT !.wait[url] = {}],
               told.wait[url])

\* Mutant: handleFinished without startNext.
NextDownloadLater(w) == w

\* handleFinished, at its end
NextDownload(w) == [w EXCEPT !.cache = StartNext(@)]

\* How a download ends.  timeout: the transfer timeout cancels it.  short write: the file is
\* closed without a look at what was written.  disk full: the file cannot be opened.
Outcomes(url) ==
    {"image"} \cup (Faults \cap {"timeout", "short write", "disk full"})
    \cup (IF url[1] = "store" /\ "store cover fails" \notin Faults THEN {} ELSE {"error"})

\* handleFinished
DownloadEnds(url, outcome) ==
    /\ url \in InFlight(cache)
    /\ outcome \in Outcomes(url)
    /\ LET landed == [World EXCEPT !.cache = Landed(@, url)]
           Is(finding) == [landed EXCEPT !.cache.found[url] = finding]
       IN  Become(NextDownload(CASE outcome = "image" -> Ready(Is("stored"), url)
                          [] outcome = "short write" -> Ready(Is("hollow"), url)
                          [] outcome = "error" -> Failed(Is("failed"), url)
                          [] outcome = "disk full" -> Failed(landed, url)
                          [] OTHER -> landed))
    /\ UNCHANGED clicks

\* A queued signal of ensure arrives.
Deliver ==
    /\ cache.posted # << >>
    /\ LET signal == Head(cache.posted)
           w == [World EXCEPT !.cache.posted = Tail(@)]
       IN  Become(IF signal.ok THEN Ready(w, signal.url) ELSE Failed(w, signal.url))
    /\ UNCHANGED clicks

\* handleSearchFinished: an error is one more term without a match.
SearchEnds(e, found) ==
    /\ asked[e].stage = "search"
    /\ Become(IF found THEN MetaNext(Stage(World, e, "assets"))
              ELSE Prepend(Answered(World, e), e, asked[e].full, asked[e].left - 1))
    /\ UNCHANGED clicks

\* handleAssetsFinished
AssetsEnd(e, named) ==
    /\ asked[e].stage = "assets"
    /\ LET got == named \/ known[e].cover
           told == IF got THEN [World EXCEPT !.known[e].cover = TRUE, !.known[e].app = AppOf(World, e)]
                   ELSE World
           free == Answered(told, e)
       IN  Become(IF asked[e].full
                  THEN MetaNext([told EXCEPT !.asked[e].stage = "details", !.asked[e].cover = got])
                  ELSE IF got THEN MetaNext(TryLater(MetadataCover(free, e), e))
                  ELSE IF asked[e].left > 0 THEN Prepend(free, e, FALSE, asked[e].left - 1)
                  ELSE FailCover(free, e))
    /\ UNCHANGED clicks

\* handleDetailsFinished: the size is asked for unless it is known.
DetailsEnd(e, ok, then) ==
    /\ asked[e].stage = "details"
    /\ LET told == [World EXCEPT !.known[e] = [app |-> AppOf(World, e), text |-> @.text \/ ok,
                                               cover |-> @.cover \/ asked[e].cover]]
       IN  Become(Stage(MetadataReady(told, e), e, then))
    /\ UNCHANGED clicks

\* handleDepotSizeFinished
SizeEnds(e) ==
    /\ asked[e].stage = "size"
    /\ Become(Stage(MetadataReady(World, e), e, "players"))
    /\ UNCHANGED clicks

\* handlePlayersFinished
PlayersEnd(e) ==
    /\ asked[e].stage = "players"
    /\ Become(MetaNext(TryLater(MetadataReady(Answered(World, e), e), e)))
    /\ UNCHANGED clicks

Event ==
    \/ \E url \in InFlight(cache) : \E outcome \in Outcomes(url) : DownloadEnds(url, outcome)
    \/ Deliver
    \/ \E e \in Entries :
           \/ \E found \in BOOLEAN : SearchEnds(e, found)
           \/ \E named \in BOOLEAN : AssetsEnd(e, named)
           \/ \E ok \in BOOLEAN, then \in {"size", "players"} : DetailsEnd(e, ok, then)
           \/ SizeEnds(e)
           \/ PlayersEnd(e)

--------------------------------------------------------------------------------
(***************************************************************************)
(* What the user does, and a catalog that is merged anew.                  *)
(***************************************************************************)
Click(w) == clicks < MaxClicks /\ clicks' = clicks + 1 /\ Become(w)

\* A card comes into view, or is hovered; it leaves the view.
Appears(e) == Click(RequestCover(World, e))
Leaves(e) == plan[e].wanted /\ Click(CancelCover(World, e))

\* A card could not load the file of its picture (Image.Error).
PictureBroken(e) == row[e].cover # None /\ Click(InvalidateCover(World, e))

\* The entry is the featured one.
Featured(e) == Click(RequestHero(World, e))

\* enrichCatalogEntry: the game is opened or peeked at.
Opened(e) == Click(QueueFetch(World, e, TRUE))

\* The source is loaded again: new rows, with what the metadata cache knows, and
\* clearFailedCoverHints.
Reloaded ==
    Click([World EXCEPT
        !.lost = {}, !.cache = ClearAllFailed(@),
        !.row = [e \in Entries |-> NewRow(IF KnownApp[e] # NoApp THEN KnownApp[e] ELSE known[e].app)]])

Next ==
    \/ Event
    \/ \E e \in Entries :
           Appears(e) \/ Leaves(e) \/ PictureBroken(e) \/ Featured(e) \/ Opened(e)
    \/ Reloaded

\* What Event waits for; it stands for ENABLED <<Event>>_vars.
Awaited == InFlight(cache) # {} \/ cache.posted # << >> \/ Active(World) > 0

\* Downloads and requests end, and the event loop runs what is posted.
Fairness == []<>(~ Awaited) \/ []<> << Event >>_vars

Spec == Init /\ [][Next]_vars /\ Fairness

--------------------------------------------------------------------------------
(***************************************************************************)
(* Properties                                                              *)
(***************************************************************************)
\* The store's cover is inserted at the index of the plan (handleMetadataCover, QList::insert),
\* so while a card waits for the store its index is at most one past its ladder, or the ladder
\* holds the store's cover already.  Ladders are built anew, skip what failed meanwhile and are
\* walked by events, all of them between the question and the answer.
LadderBound ==
    \A e \in Entries :
        LET p == plan[e] IN
        /\ asked[e].stage \in {"queued", "search", "assets"} /\ ~ asked[e].full
        /\ p.wanted \/ p.phase = "fetching"
        => Contains(p.urls, Store(e)) \/ p.index <= Len(p.urls) + 1

\* The queue of CoverImageCache: no URL twice, visible ones first, nothing that flies already or
\* is known to be stored or to fail, which startNext would drop without telling who waits for it.
QueueOK ==
    /\ Cardinality(InFlight(cache)) <= MaxConcurrent
    /\ \A i, j \in DOMAIN cache.pending :
          /\ cache.pending[i].url = cache.pending[j].url => i = j
          /\ i < j /\ cache.pending[j].visible => cache.pending[i].visible
    /\ \A i \in DOMAIN cache.pending :
          LET url == cache.pending[i].url
          IN  cache.found[url] = "unknown" /\ url \notin InFlight(cache)

\* The types, the queue of downloads and that of the metadata, and the ladders.
TypeOK ==
    /\ cache.found \in [Urls -> Findings]
    /\ cache.checked \subseteq Urls
    /\ cache.flying \in [InFlight(cache) -> BOOLEAN] /\ InFlight(cache) \subseteq Urls
    /\ cache.pending \in Seq([url : Urls, visible : BOOLEAN])
    /\ cache.posted \in Seq([url : Urls, ok : BOOLEAN])
    /\ plan \in [Entries -> [wanted : BOOLEAN, phase : Phases, urls : Seq(Urls), index : Nat \ {0},
                             active : Urls \cup {None}, applied : BOOLEAN, upgrading : BOOLEAN]]
    /\ wait \in [Urls -> SUBSET Entries] /\ heroes \in [Urls -> SUBSET Entries]
    /\ lost \subseteq Entries /\ later \subseteq Entries
    /\ row \in [Entries -> [app : Apps \cup {NoApp}, cover : Urls \cup {None}, spinner : BOOLEAN]]
    /\ hero \in [Entries -> Urls \cup {None}]
    /\ known \in [Entries -> [app : Apps \cup {NoApp}, cover : BOOLEAN, text : BOOLEAN]]
    /\ asked \in [Entries -> [stage : Stages, full : BOOLEAN, left : Direct..Terms, cover : BOOLEAN]]
    /\ Len(queue) <= MetaQueue /\ ToSet(queue) = {e \in Entries : asked[e].stage = "queued"}
    /\ clicks \in 0..MaxClicks
    /\ QueueOK
    /\ LadderBound

\* "Demote so Visible can steal the slot" (cover_image_cache.cpp): while a visible cover waits,
\* every slot is taken by a visible one, whatever was released, aborted, raised or trimmed;
\* the queue keeps its limits and no ladder is overrun (QueueOK, LadderBound).
VisibleFirst ==
    /\ TypeOK
    /\ VisibleIn(cache.pending) > 0 =>
           /\ Cardinality(InFlight(cache)) = MaxConcurrent
           /\ \A url \in InFlight(cache) : cache.flying[url]

\* A card that spins over nothing gets a picture or gives up, though its download may be
\* aborted, trimmed, released by another card or shared with one, though the store finds
\* nothing, drops the request from its queue or answers another one first.
Blank(e) == row[e].spinner /\ row[e].cover = None
Settles == \A e \in Entries : Blank(e) ~> ~ Blank(e)
================================================================================
