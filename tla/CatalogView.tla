------------------------------- MODULE CatalogView -------------------------------
(***************************************************************************)
(* The list of games on screen: CatalogFilterService keeps a table with a  *)
(* row per entry of the catalog, a worker of the thread pool reads it and  *)
(* sorts what matches, CatalogModel shows the indices the worker found.    *)
(*                                                                         *)
(* The UI thread and the workers interleave at the places where the worker *)
(* takes and gives back the lock of the catalog.  What a query matches     *)
(* (CatalogSearch) is the constant Hits; of the side filters the genre,    *)
(* the source and the adult one are kept, one of each way a filter reads   *)
(* its row.  A running worker that has been overtaken still finishes.      *)
(***************************************************************************)
EXTENDS ContentRatings

CONSTANTS
    Games,       \* identifiers of catalog entries
    App,         \* the Steam application of each, or NoApp
    Source,      \* the source each comes from
    Date,        \* upload day of each: SortNewest shows the latest first
    Title,       \* place of its title in the alphabet
    Hits,        \* the games the query of the user matches
    Catalogs,    \* what a merge may put into m_catalogCache: sequences of Games
    Hideable,    \* the sources the user hides
    MaxSlots,    \* 32 slots for sources, the last one shared
    MaxClicks,   \* bound on what the user and the sources do
    Faults       \* the incidents after which the code shows something else

NoApp == "no app"
Sources == {Source[g] : g \in Games}
AllFaults == {"enriched while the table is built", "partial catalog while a filter runs"}

ASSUME ViewAssumption ==
    /\ App \in [Games -> Apps \cup {NoApp}] /\ NoApp \notin Apps
    /\ Date \in [Games -> Nat] /\ Title \in [Games -> Nat] /\ Hits \subseteq Games
    /\ Catalogs \subseteq Seq(Games) /\ \A c \in Catalogs : IsInjective(c)
    /\ Hideable \subseteq Sources /\ MaxSlots \in Nat \ {0} /\ MaxClicks \in Nat /\ Faults \subseteq AllFaults

VARIABLES
    cache,     \* m_catalogCache: [id, genre], genre once the metadata named it
    peer,      \* another source still loads: the catalog on screen is withheld
    filters,   \* [query, genre, hidden, hideAdult, sort] as the user set them
    table,     \* [rows, slots]: m_rows with m_searchEntries, m_sourceIdsBySlot
    tableEpoch,
    builtEpoch,
    generation,
    workers,   \* the filter runs in the thread pool
    results,   \* what they have posted to the UI thread
    refilter,  \* m_refilterTimer runs
    shown,     \* CatalogModel::m_indices
    late,      \* indices whose entry has changed since the last filter run began
    clicks

viewVars == <<cache, peer, filters, table, tableEpoch, builtEpoch, generation, workers, results,
              refilter, shown, late, clicks>>

----------------------------------------------------------------------------
\* internSourceSlot and the pass of buildFilterSoA that gives out the slots.
Intern(slots, s) == IF s \in ToSet(slots) \/ Len(slots) >= MaxSlots THEN slots ELSE Append(slots, s)
SlotOf(slots, s) == IF s \in ToSet(slots) THEN CHOOSE i \in DOMAIN slots : slots[i] = s ELSE MaxSlots

\* rowForEntry, catalogFilterRowFromEntry
RowFor(e, slots, adults) ==
    [id |-> e.id, genre |-> e.genre, slot |-> SlotOf(slots, Source[e.id]), adult |-> App[e.id] \in adults]

\* buildFilterSoA
BuildTable(entries, adults) ==
    LET slots == FoldLeft(LAMBDA s, e : Intern(s, Source[e.id]), <<>>, entries) IN
    [rows |-> [i \in DOMAIN entries |-> RowFor(entries[i], slots, adults)], slots |-> slots]

\* rowMatches and the query; the mask has the slots that are not hidden.
SourceMask(slots, hidden) == {i \in DOMAIN slots : slots[i] \notin hidden}
RowMatches(row, f, slots) ==
    /\ f.hideAdult => ~row.adult
    /\ f.hidden # {} => row.slot \in SourceMask(slots, f.hidden)
    /\ f.genre => row.genre
    /\ f.query => row.id \in Hits

\* catalogEntryLess, for the two orders kept
Before(g, h, sort) ==
    IF sort = "newest" /\ Date[g] # Date[h] THEN Date[g] > Date[h] ELSE Title[g] < Title[h]
Sorted(indices, entries, sort) ==
    SetToSortSeq(indices, LAMBDA i, j : \/ Before(entries[i].id, entries[j].id, sort)
                                        \/ entries[i].id = entries[j].id /\ i < j)

----------------------------------------------------------------------------
Fresh(c) == [i \in DOMAIN c |-> [id |-> c[i], genre |-> FALSE]]
AppsOf(c) == SelectSeq([i \in DOMAIN c |-> App[c[i]]], LAMBDA a : a # NoApp)
NoTable == [rows |-> <<>>, slots |-> <<>>]

\* What applyFilter hands to the thread pool.
Run(g, f, epoch, rebuild) ==
    [generation |-> g, at |-> "load", filters |-> f, adult |-> adult, epoch |-> epoch, rebuild |-> rebuild,
     built |-> FALSE, table |-> NoTable, slots |-> <<>>, size |-> 0, found |-> {}]

\* The first catalog has just been merged: its filter run begins.
ViewInit(c) ==
    /\ RatingInit(AppsOf(c)) /\ cache = Fresh(c)
    /\ peer = FALSE
    /\ filters = [query |-> FALSE, genre |-> FALSE, hidden |-> {}, hideAdult |-> TRUE, sort |-> "newest"]
    /\ table = NoTable /\ tableEpoch = 1 /\ builtEpoch = 0 /\ generation = 1
    /\ workers = {Run(1, filters, 1, TRUE)} /\ results = <<>> /\ refilter = FALSE
    /\ shown = <<>> /\ late = {} /\ clicks = 0

\* Mutant of StartFilter: a table of the right size is taken for the current one.
StartFilterBySize(entries, epoch, f) ==
    /\ generation' = generation + 1
    /\ workers' = workers \cup {Run(generation + 1, f, epoch, Len(table.rows) # Len(entries))}
    /\ late' = {}

\* applyFilter up to the hand-over to the thread pool, with the catalog and
\* the epoch the handler leaves behind.
StartFilter(entries, epoch, f) ==
    /\ generation' = generation + 1
    /\ workers' = workers \cup
         {Run(generation + 1, f, epoch, Len(table.rows) # Len(entries) \/ builtEpoch # epoch)}
    /\ late' = {}
Overtaken(w) == w.generation # generation
ViewIdle == /\ \A w \in workers : Overtaken(w)
            /\ \A k \in DOMAIN results : results[k].generation # generation

Click == clicks < MaxClicks /\ clicks' = clicks + 1

\* applyMergedCatalogResult: the catalog is replaced, the table invalidated,
\* the list emptied; while another source loads nothing more happens.
MergeCatalog(c, partial) ==
    /\ Click
    /\ partial => "partial catalog while a filter runs" \in Faults \/ ViewIdle
    /\ cache' = Fresh(c) /\ tableEpoch' = tableEpoch + 1 /\ shown' = <<>> /\ peer' = partial
    /\ IF partial
       THEN late' = {} /\ UNCHANGED <<generation, workers, ratingVars>>
       ELSE /\ StartFilter(cache', tableEpoch', filters)
            /\ RequestMissing(AppsOf(c))
    /\ UNCHANGED <<filters, table, builtEpoch, results, refilter>>

\* metadataReady: the entry learns its genre, syncFilterRow patches its row.
Enrich(i) ==
    /\ Click /\ ~cache[i].genre
    /\ \/ "enriched while the table is built" \in Faults
       \/ \A w \in workers : ~(w.built /\ ~Overtaken(w))
    /\ "enriched while the table is built" \in Faults \/ \A k \in DOMAIN results : ~results[k].built
    /\ cache' = [cache EXCEPT ![i].genre = TRUE]
    /\ IF Len(table.rows) # Len(cache)
       THEN refilter' = TRUE /\ table' = table
       ELSE LET slots == Intern(table.slots, Source[cache[i].id]) IN
            /\ table' = [rows |-> [table.rows EXCEPT ![i] = RowFor(cache'[i], slots, adult)],
                         slots |-> slots]
            /\ refilter' = refilter
    /\ late' = late \cup {i}
    /\ UNCHANGED <<peer, filters, tableEpoch, builtEpoch, generation, workers, results, shown, ratingVars>>

\* setFilters, setSourceHidden, applyPresentation, applyCatalogSearch: one of
\* them sets one filter and runs the filter at once.
SetFilters(f) ==
    /\ Click /\ f # filters /\ f.hideAdult = filters.hideAdult
    /\ filters' = f
    /\ StartFilter(cache, tableEpoch, f)
    /\ UNCHANGED <<cache, peer, table, tableEpoch, builtEpoch, results, refilter, shown, ratingVars>>

\* CatalogFilterService::setHideAdult waits for the timer.
SetHideAdult ==
    /\ Click
    /\ filters' = [filters EXCEPT !.hideAdult = ~@]
    /\ refilter' = TRUE
    /\ UNCHANGED <<cache, peer, table, tableEpoch, builtEpoch, generation, workers, results, shown, late,
                   ratingVars>>

RefilterTimer ==
    /\ refilter /\ refilter' = FALSE
    /\ StartFilter(cache, tableEpoch, filters)
    /\ UNCHANGED <<cache, peer, filters, table, tableEpoch, builtEpoch, results, shown, clicks, ratingVars>>

\* The listener of ratingsChanged: new flags with the next table.
RatingsChanged(announced) ==
    /\ tableEpoch' = IF announced THEN tableEpoch + 1 ELSE tableEpoch
    /\ refilter' = (refilter \/ announced)
    /\ UNCHANGED <<cache, peer, filters, table, builtEpoch, generation, workers, results, shown, late, clicks>>

RatingsStep ==
    \E announced \in BOOLEAN :
        /\ RatingsChanged(announced)
        /\ \/ FetchNext /\ ~announced
           \/ RequestFails(announced)
           \/ RequestAnswered(announced)

----------------------------------------------------------------------------
UnchangedByWorker == UNCHANGED <<cache, peer, filters, table, tableEpoch, builtEpoch, generation, refilter,
                                 shown, late, clicks, ratingVars>>
Continue(w, next) == workers' = (workers \ {w}) \cup (IF Overtaken(w) THEN {} ELSE {next})
Quit(w) == workers' = workers \ {w}

\* loadSoA, under the lock: the table as it is, or a new one of the catalog.
WorkerLoads(w) ==
    LET fresh == w.rebuild \/ Len(table.rows) # Len(cache)
        t == IF fresh THEN BuildTable(cache, w.adult) ELSE table
    IN
    /\ w.at = "load"
    /\ Continue(w, [w EXCEPT !.at = "scan", !.built = fresh, !.table = IF fresh THEN t ELSE NoTable,
                             !.slots = t.slots])
    /\ UNCHANGED results /\ UnchangedByWorker

\* scanCache, under the lock again.  A table that was not built is read where
\* it is, as it is by now.
WorkerScans(w) ==
    LET rows == IF w.built THEN w.table.rows ELSE table.rows
        matching == {i \in DOMAIN rows : RowMatches(rows[i], w.filters, w.slots)}
    IN
    /\ w.at = "scan"
    /\ IF Len(rows) # Len(cache) THEN Quit(w)
       ELSE Continue(w, [w EXCEPT !.at = "sort", !.size = Len(cache), !.found = matching])
    /\ UNCHANGED results /\ UnchangedByWorker

\* The sort, a third time under the lock, and the post to the UI thread.
WorkerSorts(w) ==
    /\ w.at = "sort" /\ Quit(w)
    /\ results' = IF Len(cache) # w.size \/ Overtaken(w) THEN results
                  ELSE Append(results, [generation |-> w.generation, size |-> w.size, built |-> w.built,
                                        table |-> w.table, epoch |-> w.epoch,
                                        indices |-> Sorted(w.found, cache, w.filters.sort)])
    /\ UnchangedByWorker

\* The posted end of applyFilter with applyFilterResult.
ApplyResult ==
    LET r == Head(results) IN
    /\ results # <<>> /\ results' = Tail(results)
    /\ IF r.generation # generation
       THEN UNCHANGED <<table, builtEpoch, shown>>
       ELSE /\ IF r.built THEN table' = r.table /\ builtEpoch' = r.epoch ELSE UNCHANGED <<table, builtEpoch>>
            /\ shown' = IF r.size = Len(cache) THEN r.indices ELSE shown
    /\ UNCHANGED <<cache, peer, filters, tableEpoch, generation, workers, refilter, late, clicks, ratingVars>>

WorkerStep(w) == WorkerLoads(w) \/ WorkerScans(w) \/ WorkerSorts(w)

\* One press on a filter of the user: a side filter, the query or the order.
Presses ==
    {[filters EXCEPT !.genre = ~@], [filters EXCEPT !.query = ~@],
     [filters EXCEPT !.sort = IF @ = "newest" THEN "title" ELSE "newest"]}
    \cup {[filters EXCEPT !.hidden = @ \cup {s}] : s \in Hideable}
    \cup {[filters EXCEPT !.hidden = {}]}

ViewNext ==
    \/ \E c \in Catalogs, partial \in BOOLEAN : MergeCatalog(c, partial)
    \/ \E i \in DOMAIN cache : Enrich(i)
    \/ \E f \in Presses : SetFilters(f)
    \/ SetHideAdult
    \/ RefilterTimer
    \/ RatingsStep
    \/ \E w \in workers : WorkerStep(w)
    \/ ApplyResult

----------------------------------------------------------------------------
Indices == 1..Cardinality(Games)
Rows == [id : Games, genre : BOOLEAN, slot : 1..MaxSlots, adult : BOOLEAN]
ViewTypeOK ==
    /\ RatingTypeOK
    /\ cache \in Seq([id : Games, genre : BOOLEAN]) /\ peer \in BOOLEAN
    /\ filters \in [query : BOOLEAN, genre : BOOLEAN, hidden : SUBSET Sources, hideAdult : BOOLEAN,
                    sort : {"newest", "title"}]
    /\ table.rows \in Seq(Rows) /\ table.slots \in Seq(Sources)
    /\ builtEpoch \in 0..tableEpoch /\ \A w \in workers : w.generation \in 1..generation
    /\ shown \in Seq(Indices) /\ late \subseteq Indices /\ refilter \in BOOLEAN

\* What the user asked for: the entries of the catalog that pass the filters.
Accepted(e) ==
    /\ filters.hideAdult => App[e.id] \notin adult
    /\ Source[e.id] \notin filters.hidden
    /\ filters.genre => e.genre
    /\ filters.query => e.id \in Hits
Wanted == Sorted({i \in DOMAIN cache : Accepted(cache[i])}, cache, filters.sort)
ViewAtRest == ViewIdle /\ ~refilter /\ ~unsent
OnTime(s) == SelectSeq(s, LAMBDA i : i \notin late)

\* At rest the list is what the filters accept, in their order, whatever was
\* replaced, enriched, rated or pressed while a worker ran; a catalog that
\* still waits for a source shows nothing the filters refuse.  Entries
\* enriched since the last run wait for the next one, as syncFilterRow says.
\* (With the types.)
ShownIsWanted ==
    /\ ViewTypeOK
    /\ ViewAtRest => IF peer THEN ToSet(OnTime(shown)) \subseteq ToSet(Wanted)
                     ELSE OnTime(shown) = OnTime(Wanted)
================================================================================
