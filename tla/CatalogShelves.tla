------------------------------ MODULE CatalogShelves ------------------------------
(***************************************************************************)
(* The shelves of the start page: CatalogDiscoveryService fetches a feed   *)
(* of entry identifiers and gives CatalogShelfModel the indices they have  *)
(* in the catalog.  Kept are the hits and the friends shelf; the new and   *)
(* solo ones are filled like the hits.                                     *)
(***************************************************************************)
EXTENDS ContentRatings

CONSTANTS
    Titles,        \* identifiers of catalog entries
    AppOf,         \* the Steam application of each
    Layouts,       \* the catalogs a merge may produce: sequences of Titles
    Feeds,         \* what the feed may say: [hits, friends], sequences of Titles
    MaxShelfClicks,
    ShelfFaults    \* {"preview"}: incidents after which a shelf shows other games

ASSUME ShelfAssumption ==
    /\ AppOf \in [Titles -> Apps]
    /\ Layouts \subseteq Seq(Titles) /\ \A c \in Layouts : IsInjective(c)
    /\ Feeds \subseteq [hits : Seq(Titles), friends : Seq(Titles)]
    /\ MaxShelfClicks \in Nat /\ ShelfFaults \subseteq {"preview"}

VARIABLES
    layout,      \* m_catalogCache, as identifiers, and m_catalogIdToCacheIndex
    feed,        \* m_feed, NoFeed when it is not loaded
    asking,      \* m_activeReply: a request for the feed runs
    loading,     \* m_loading
    friendIds,   \* m_friendEntryIds
    hiding,      \* m_hideAdult
    shelves,     \* m_indices of the hits and of the friends shelf
    presses
shelfVars == <<layout, feed, asking, loading, friendIds, hiding, shelves, presses>>

NoFeed == [hits |-> <<"none">>, friends |-> <<>>]
Empty == [hits |-> <<>>, friends |-> <<>>]

\* indicesForEntryIds: the entries the catalog has, once each, without the
\* adult ones when those are hidden.
IndicesFor(ids, entries, adults, hide) ==
    LET known == SelectSeq(ids, LAMBDA id : /\ id \in ToSet(entries)
                                            /\ hide => AppOf[id] \notin adults)
        index == [k \in DOMAIN known |-> CHOOSE i \in DOMAIN entries : entries[i] = known[k]]
    IN  FoldLeft(LAMBDA s, i : IF i \in ToSet(s) THEN s ELSE Append(s, i), <<>>, index)

\* reapplyFeed; the friends of the feed come before those of the friend list.
Shelved(f, entries, friends, adults, hide) ==
    IF f = NoFeed THEN Empty
    ELSE [hits    |-> IndicesFor(f.hits, entries, adults, hide),
          friends |-> IndicesFor(f.friends \o SelectSeq(friends, LAMBDA id : id \notin ToSet(f.friends)),
                                 entries, adults, hide)]

\* setCache fetches at once; the first catalog has not been merged yet.
ShelfInit ==
    /\ layout = <<>> /\ feed = NoFeed /\ asking = TRUE /\ loading = TRUE
    /\ friendIds = <<>> /\ hiding \in BOOLEAN /\ shelves = Empty /\ presses = 0

Press == presses < MaxShelfClicks /\ presses' = presses + 1

\* refresh, fetchFeed: a running request is aborted and forgotten.
Refresh ==
    /\ Press /\ asking' = TRUE /\ loading' = TRUE
    /\ UNCHANGED <<layout, feed, friendIds, hiding, shelves, ratingVars>>

\* handleFeedFinished: a request that timed out counts as canceled and keeps
\* the feed there is; a failed one and an unreadable answer empty the shelves.
FeedArrives ==
    /\ asking /\ asking' = FALSE /\ loading' = FALSE
    /\ \E f \in Feeds \cup {NoFeed, feed} :
         /\ feed' = f
         /\ shelves' = IF f = feed /\ f \notin Feeds THEN shelves
                       ELSE Shelved(f, layout, friendIds, adult, hiding)
    /\ UNCHANGED <<layout, friendIds, hiding, presses, ratingVars>>

\* Mutant of CatalogMerged: the shelves keep the indices of the catalog before.
CatalogMergedAlone(c, preview) ==
    /\ Press
    /\ preview => "preview" \in ShelfFaults
    /\ layout' = c
    /\ IF preview THEN UNCHANGED ratingVars ELSE RequestMissing([i \in DOMAIN c |-> AppOf[c[i]]])
    /\ UNCHANGED <<feed, asking, loading, friendIds, hiding, shelves>>

\* onCatalogReady after a merge, or a preview, which only replaces the catalog.
CatalogMerged(c, preview) ==
    /\ Press
    /\ preview => "preview" \in ShelfFaults
    /\ layout' = c
    /\ IF preview THEN UNCHANGED <<shelves, ratingVars>>
       ELSE /\ shelves' = Shelved(feed, c, friendIds, adult, hiding)
            /\ RequestMissing([i \in DOMAIN c |-> AppOf[c[i]]])
    /\ UNCHANGED <<feed, asking, loading, friendIds, hiding>>

SetFriendEntryIds(ids) ==
    /\ Press /\ ids # friendIds /\ friendIds' = ids
    /\ shelves' = Shelved(feed, layout, ids, adult, hiding)
    /\ UNCHANGED <<layout, feed, asking, loading, hiding, ratingVars>>

\* CatalogDiscoveryService::setHideAdult
HideAdult ==
    /\ Press /\ hiding' = ~hiding
    /\ shelves' = Shelved(feed, layout, friendIds, adult, ~hiding)
    /\ UNCHANGED <<layout, feed, asking, loading, friendIds, ratingVars>>

\* The listener of ratingsChanged.
Reshelve(announced) ==
    /\ shelves' = IF announced THEN Shelved(feed, layout, friendIds, adult', hiding) ELSE shelves
    /\ UNCHANGED <<layout, feed, asking, loading, friendIds, hiding, presses>>

RatingsArrive ==
    \E announced \in BOOLEAN :
        /\ \/ FetchNext /\ ~announced
           \/ RequestFails(announced)
           \/ RequestAnswered(announced)
        /\ Reshelve(announced)

ShelfNext ==
    \/ Refresh \/ FeedArrives \/ HideAdult \/ RatingsArrive
    \/ \E c \in Layouts, preview \in BOOLEAN : CatalogMerged(c, preview)
    \/ \E ids \in {<<t>> : t \in Titles} : SetFriendEntryIds(ids)

ShelfTypeOK ==
    /\ layout \in Seq(Titles) /\ feed \in Feeds \cup {NoFeed}
    /\ asking \in BOOLEAN /\ loading \in BOOLEAN /\ hiding \in BOOLEAN /\ friendIds \in Seq(Titles)
    /\ \A s \in {"hits", "friends"} : IsInjective(shelves[s]) /\ ToSet(shelves[s]) \subseteq Nat \ {0}

\* A shelf shows games the feed or the friends put there and no other, none of
\* them an adult one the user hides, whatever the catalog was replaced by; and
\* the page does not say "loading" when nothing is being fetched.  (With the types.)
Due(s) == IF feed = NoFeed THEN {} ELSE ToSet(feed[s]) \cup (IF s = "friends" THEN ToSet(friendIds) ELSE {})
ShelvesTrue ==
    /\ ShelfTypeOK
    /\ loading <=> asking
    /\ \A s \in {"hits", "friends"} : \A i \in ToSet(shelves[s]) :
         /\ i \in DOMAIN layout /\ layout[i] \in Due(s)
         /\ (hiding /\ AppOf[layout[i]] \in adult) => unsent
================================================================================
