------------------------------ MODULE CatalogSearch ------------------------------
(***************************************************************************)
(* The search of the catalog: how well a title answers a query             *)
(* (scoreCatalogMatch) and the levels the scan of CatalogFilterService     *)
(* widens a search by, until enough is found.                              *)
(*                                                                         *)
(* A word is a sequence of letters, a title and a query are sequences of   *)
(* words as normalizeSearchText leaves them.  The tables of the program    *)
(* (numerals, stop words, keyboard, sounds, aliases) are constants.        *)
(***************************************************************************)
EXTENDS Integers, Sequences, FiniteSets, SequencesExt, FiniteSetsExt

CONSTANTS
    Library,      \* the titles: sequences of words
    Queries,      \* the queries the user types
    Digits,       \* letters isDigit holds of
    Wide,         \* letters of scripts without spaces
    Foreign,      \* letters from U+0080 on
    StopWords,    \* isStopWord
    OtherNumeral, \* romanToArabicMap and arabicToRomanMap: word |-> word
    Keyboard,     \* convertRussianLayout: the Latin letter on the key of a Cyrillic one
    Sound,        \* phoneticSkeleton: the class a letter sounds like, or Silent
    Aliases,      \* resolveSearchAliases: query |-> sequence of titles
    AppId,        \* steamAppId of each title as a word, or <<>>
    Bonus         \* popularity, quality, application and cover of each title

Silent == "silent"
Levels == 0..3

ASSUME SearchAssumption ==
    /\ \A t \in Library : t # <<>> /\ Bonus[t] \in 0..2450

VARIABLES
    query,        \* the words typed
    level,        \* how far the scan has widened
    score,        \* what the scan of that level gives each title
    answer        \* the titles of the result, Searching before there is one
searchVars == <<query, level, score, answer>>
Searching == {<<>>}

----------------------------------------------------------------------------
AllDigits(w) == w # <<>> /\ ToSet(w) \subseteq Digits
IsCjk(w) == ToSet(w) \cap Wide # {}
Compact(ws) == FlattenSeq(ws)
Variants(w) == {w} \cup (IF w \in DOMAIN OtherNumeral THEN {OtherNumeral[w]} ELSE {})
HasInside(w, v) == \E i \in 1..Len(w) : i + Len(v) - 1 <= Len(w) /\ SubSeq(w, i, i + Len(v) - 1) = v

UpTo(n) == [k \in 1..n |-> k]

\* boundedEditDistance: a row of the table per letter of a, the last two kept
\* (a swap looks two rows back), an early end once a whole row exceeds the limit.
EditRow(a, b, i, prev, prev2) ==
    LET cell(row, j) ==
          LET edit == Min({prev[j + 1] + 1, Last(row) + 1, prev[j] + (IF a[i] = b[j] THEN 0 ELSE 1)})
          IN  IF i > 1 /\ j > 1 /\ a[i] = b[j - 1] /\ a[i - 1] = b[j]
              THEN Append(row, Min({edit, prev2[j - 1] + 1})) ELSE Append(row, edit)
    IN  FoldLeft(cell, <<i>>, UpTo(Len(b)))
BoundedDistance(a, b, limit) ==
    LET first == [j \in 1..(Len(b) + 1) |-> j - 1]
        step(m, i) ==
          IF Min(ToSet(m.row)) > limit THEN m
          ELSE [row |-> EditRow(a, b, i, m.row, m.before), before |-> m.row]
        row == FoldLeft(step, [row |-> first, before |-> first], UpTo(Len(a))).row
        far == Len(a) - Len(b) > limit \/ Len(b) - Len(a) > limit
    IN  IF far \/ Min(ToSet(row)) > limit THEN limit + 1 ELSE Min({Last(row), limit + 1})

\* phoneticSkeleton: a class per letter, neighbours of one class once, nothing
\* for short words and for scripts without a key.
Skeleton(w) ==
    LET heard == SelectSeq([i \in DOMAIN w |-> Sound[w[i]]], LAMBDA s : s # Silent)
        key == FoldLeft(LAMBDA s, c : IF s # <<>> /\ Last(s) = c THEN s ELSE Append(s, c), <<>>, heard)
    IN  IF IsCjk(w) \/ Len(key) < 3 THEN <<>> ELSE key

\* QueryForm::build: a lone number does not turn into a numeral.
Form(ws) ==
    [words |-> ws,
     variants |-> [k \in DOMAIN ws |-> IF Len(ws) > 1 THEN Variants(ws[k]) ELSE {ws[k]}]]
NonStop(f) == {k \in DOMAIN f.words : f.words[k] \notin StopWords}

\* convertRussianLayout, <<>> when nothing of it is Cyrillic
Layout(ws) ==
    IF \A k \in DOMAIN ws : ToSet(ws[k]) \cap DOMAIN Keyboard = {} THEN <<>>
    ELSE [k \in DOMAIN ws |-> [i \in DOMAIN ws[k] |-> IF ws[k][i] \in DOMAIN Keyboard
                                                     THEN Keyboard[ws[k][i]] ELSE ws[k][i]]]

\* resolveSearchAliases: of the whole query, or of its first word
AliasesOf(ws) ==
    IF ws \in DOMAIN Aliases THEN Aliases[ws]
    ELSE IF Len(ws) > 1 /\ <<ws[1]>> \in DOMAIN Aliases
    THEN [k \in DOMAIN Aliases[<<ws[1]>>] |-> Aliases[<<ws[1]>>][k] \o Tail(ws)]
    ELSE <<>>

\* generateTitleAcronyms: the initials, those without stop words, and both
\* with a number at the end written the other way.
Acronyms(t) ==
    LET initials(ws) == [k \in DOMAIN ws |-> ws[k][1]]
        all == initials(t)
        main == initials(SelectSeq(t, LAMBDA w : w \notin StopWords))
        numbered(a) == IF a = <<>> \/ Last(t) \notin DOMAIN OtherNumeral THEN {}
                       ELSE {Front(a) \o OtherNumeral[Last(t)]}
    IN  {a \in {all, main} : Len(a) >= 2} \cup numbered(all) \cup numbered(main)

----------------------------------------------------------------------------
\* tokenHit
Hit(word, variants, cjk, prefix) ==
    IF word \in variants THEN "exact"
    ELSE IF cjk THEN (IF \E v \in variants : HasInside(word, v) THEN "substring" ELSE "none")
    ELSE IF prefix /\ \E v \in variants : Len(v) >= 2 /\ ~AllDigits(v) /\ IsPrefix(v, word)
         THEN "prefix" ELSE "none"
HitOf(t, i, f, k, prefix) == Hit(t[i], f.variants[k], IsCjk(f.words[k]), prefix)

\* findPhrase: the first place where the words follow each other, one where
\* the last is complete before one where it is not; 0 when there is none.
FirstPlace(ends, places) ==
    IF places = {} THEN [start |-> 0, prefix |-> FALSE]
    ELSE IF \E s \in places : ends[s] # "prefix"
    THEN [start |-> Min({s \in places : ends[s] # "prefix"}), prefix |-> FALSE]
    ELSE [start |-> Min(places), prefix |-> TRUE]
Phrase(t, f, prefix) ==
    LET n == Len(f.words)
        starts(s) == \A k \in 1..(n - 1) : HitOf(t, s + k - 1, f, k, FALSE) # "none"
        ends == [s \in 1..(Len(t) - n + 1) |-> HitOf(t, s + n - 1, f, n, prefix)]
    IN  FirstPlace(ends, {s \in DOMAIN ends : ends[s] # "none" /\ starts(s)})

\* findCompactPhrase: the query without spaces is whole words glued together,
\* the last of them perhaps begun only.
CompactPhrase(t, qc, prefix) ==
    LET glued(s, e) == Compact(SubSeq(t, s, e))
        fits(s) == \E e \in s..Len(t) :
                     \/ glued(s, e) = qc
                     \/ /\ prefix /\ IsStrictPrefix(qc, glued(s, e))
                        /\ Len(qc) - Len(glued(s, e - 1)) >= 2
        places == {s \in DOMAIN t : fits(s)}
    IN  IF Len(qc) < 3 \/ places = {} THEN 0 ELSE Min(places)

\* matchAnyOrder: each word takes the best title word that is left.
Gain(t, i, f, k, prefix) ==
    LET h == HitOf(t, i, f, k, prefix) IN
    CASE h = "exact" -> 1200 [] h = "substring" -> 500
      [] h = "prefix" -> IF Len(f.words[k]) < 3 THEN 0 ELSE 700
      [] h = "none" -> 0
BestOf(gains, left) == {i \in left : \A j \in left : gains[i] >= gains[j]}
Take(m, i, gain) ==
    [m EXCEPT !.used = @ \cup {i}, !.bonus = @ + gain, !.ordered = @ /\ i >= m.last, !.last = i]
TakeBest(m, gains, left, dispensable) ==
    CASE left # {} -> (LET i == Min(BestOf(gains, left)) IN Take(m, i, gains[i]))
      [] left = {} /\ dispensable -> m
      [] OTHER -> [m EXCEPT !.ok = FALSE]
AnyOrder(t, f, prefix) ==
    LET gains == [k \in DOMAIN f.words |-> [i \in DOMAIN t |-> Gain(t, i, f, k, prefix)]]
        take(m, k) == TakeBest(m, gains[k], {i \in DOMAIN t \ m.used : gains[k][i] > 0},
                               k \notin NonStop(f) /\ NonStop(f) # {})
    IN  FoldLeft(take, [ok |-> TRUE, used |-> {}, bonus |-> 0, ordered |-> TRUE, last |-> 0],
                 UpTo(Len(f.words)))

\* scoreForm: the first kind of hit there is counts.
First(scores) == FoldLeft(LAMBDA s, n : IF s > 0 THEN s ELSE n, 0, scores)
PhraseScore(p) ==
    CASE p.start = 0 -> 0
      [] p.start = 1 -> IF p.prefix THEN 76000 ELSE 80000
      [] OTHER -> IF p.prefix THEN 66000 ELSE 70000
CompactScore(c) == CASE c = 0 -> 0 [] c = 1 -> 78000 [] OTHER -> 68000
OrderScore(m) == IF m.ok THEN 50000 + Max({1, m.bonus}) + (IF m.ordered THEN 5000 ELSE 0) ELSE 0
ScoreForm(t, f, prefix) ==
    IF f.words = <<>> THEN 0
    ELSE First(<< PhraseScore(Phrase(t, f, prefix)),
                  CompactScore(CompactPhrase(t, Compact(f.words), prefix)),
                  OrderScore(AnyOrder(t, f, prefix)) >>)

\* scoreTypos, per word: [edits, penalty] of its nearest title word, none when
\* it has no neighbour.
Ends(a, b) == a[1] = b[1] \/ Last(a) = Last(b)
Typos(t, f, k) ==
    LET w == f.words[k]
        limit == IF Len(w) >= 10 THEN 2 ELSE 1
        tolerant == Len(w) >= 4 /\ ~IsCjk(w) /\ ToSet(w) \cap Digits = {}
        near == {v \in ToSet(t) : /\ Ends(v, w)
                                  /\ Len(v) - Len(w) <= limit + 2 /\ Len(w) - Len(v) <= limit + 2}
        edit(v) == LET d == BoundedDistance(w, v, limit)
                       s == BoundedDistance(w, SubSeq(v, 1, Len(w)), 1)
                   IN  IF d > limit /\ Len(v) > Len(w) /\ Len(w) >= 5 /\ s <= 1
                       THEN [edits |-> s, penalty |-> 3500 * s + 6000]
                       ELSE [edits |-> d, penalty |-> 3500 * d]
        found == {e \in {edit(v) : v \in near} : e.edits <= limit}
    IN  IF \E i \in DOMAIN t : HitOf(t, i, f, k, TRUE) # "none" THEN {[edits |-> 0, penalty |-> 0]}
        ELSE IF ~tolerant THEN {}
        ELSE {e \in found : \A o \in found : e.edits < o.edits \/ (e.edits = o.edits /\ e.penalty <= o.penalty)}
TypoScore(near, exact) ==
    LET sum(field) == MapThenSumSet(LAMBDA k : (CHOOSE e \in near[k] : TRUE)[field], DOMAIN near)
    IN  IF (\E k \in DOMAIN near : near[k] = {}) \/ sum("edits") \notin 1..2 THEN 0
        ELSE 30000 - sum("penalty") + 600 * exact
ScoreTypos(t, f) ==
    TypoScore([k \in NonStop(f) |-> Typos(t, f, k)],
              Cardinality({k \in NonStop(f) : \E i \in DOMAIN t : t[i] \in f.variants[k]}))

\* scorePhonetic: only words of another script
ScoreSound(t, f) ==
    LET shortest == IF Cardinality(NonStop(f)) >= 2 THEN 3 ELSE 4
        same(k) == \E v \in ToSet(t) :
                     LET w == f.words[k]
                         room == Max({3, Len(w) \div 2})
                     IN  /\ Len(v) - Len(w) <= room /\ Len(w) - Len(v) <= room
                         /\ Skeleton(v) = Skeleton(w)
        sounds(k) == /\ Len(Skeleton(f.words[k])) >= shortest
                     /\ ToSet(f.words[k]) \cap Foreign # {} /\ same(k)
    IN  IF NonStop(f) # {} /\ \A k \in NonStop(f) : sounds(k)
        THEN 20000 + 500 * Cardinality(NonStop(f)) ELSE 0

----------------------------------------------------------------------------
\* scoreCatalogMatch without the bonuses: the steps in their order, each taken
\* when the ones before it found nothing, the aliases beside them.
Less(s, n) == IF s > 0 THEN s - n ELSE 0
\* Mutant of FullTitle: a title that begins with the query counts as the whole.
FullTitleBegun(t, q) == IF IsPrefix(Compact(q), Compact(t)) THEN 100000 ELSE 0
FullTitle(t, q) == IF Compact(t) = Compact(q) THEN 100000 ELSE 0
Worded(t, q, lay, lvl) ==
    First(<< FullTitle(t, q),
             IF lay # <<>> /\ Compact(t) = Compact(lay) THEN 95000 ELSE 0,
             ScoreForm(t, Form(q), lvl >= 1),
             Less(ScoreForm(t, Form(lay), lvl >= 1), 3000),
             IF Compact(q) \in Acronyms(t) THEN 45000 ELSE 0,
             IF lay # <<>> /\ Compact(lay) \in Acronyms(t) THEN 42000 ELSE 0 >>)
Aliased(t, other, lvl) == First([k \in DOMAIN other |-> ScoreForm(t, Form(other[k]), lvl >= 1)])
OrAlias(words, alias) ==
    IF words < 95000 /\ alias > 0 THEN Max({words, Min({alias, 70000}) - 8000}) ELSE words
Literal(t, q, lay, lvl) ==
    OrAlias(Worded(t, q, lay, lvl),
            Aliased(t, IF AliasesOf(q) # <<>> \/ lay = <<>> THEN AliasesOf(q) ELSE AliasesOf(lay), lvl))
Loose(t, q, lvl) ==
    First(<< IF lvl >= 2 THEN ScoreTypos(t, Form(q)) ELSE 0,
             IF lvl >= 3 THEN ScoreSound(t, Form(q)) ELSE 0,
             IF lvl >= 3 THEN ScoreSound(t, Form(Layout(q))) ELSE 0 >>)
Tier(t, q, lvl) == First(<<Literal(t, q, Layout(q), lvl), Loose(t, q, lvl)>>)
Weighed(t, tier, longer) ==
    IF tier = 0 THEN 0
    ELSE Max({1, tier - (IF longer > 0 THEN Min({2000, 15 * longer}) ELSE 0) + Bonus[t]})
Score(t, q, lvl) ==
    IF AppId[t] # <<>> /\ AppId[t] = Compact(q) THEN 120000
    ELSE Weighed(t, Tier(t, q, lvl), Len(Compact(t)) - Len(Compact(q)))

\* The scan of applyFilter: a level after the other while too little is found,
\* then the weak hits beside three strong ones and the far fuzzy ones go.
Enough == <<8, 5, 5, 0>>
Scanned(q, l) == [t \in Library |-> Score(t, q, l)]
Found == {t \in Library : score[t] > 0}
SearchInit == query = <<>> /\ level = 0 /\ score = [t \in Library |-> 0] /\ answer = Searching
Type(q) ==
    /\ query = <<>>
    /\ query' = q /\ score' = Scanned(q, 0) /\ UNCHANGED <<level, answer>>
Widen ==
    /\ query # <<>> /\ answer = Searching /\ Cardinality(Found) < Enough[level + 1]
    /\ level' = level + 1 /\ score' = Scanned(query, level + 1)
    /\ UNCHANGED <<query, answer>>
Trimmed ==
    LET strong == {t \in Found : score[t] >= 50000}
        kept == IF Cardinality(strong) >= 3 THEN strong ELSE Found
        fuzzy == {score[t] : t \in {u \in kept : score[u] < 40000}}
    IN  {t \in kept : score[t] >= 40000 \/ score[t] >= Max(fuzzy) - 4500}
Show ==
    /\ query # <<>> /\ answer = Searching /\ Cardinality(Found) >= Enough[level + 1]
    /\ answer' = Trimmed
    /\ UNCHANGED <<query, level, score>>
SearchNext == Widen \/ Show \/ \E q \in Queries : Type(q)

----------------------------------------------------------------------------
SearchTypeOK ==
    /\ query \in Queries \cup {<<>>} /\ level \in Levels
    /\ score \in [Library -> 0..120000]
    /\ answer \in SUBSET Library \cup {Searching}

\* n single edits (insert, delete, replace, swap of neighbours) from the front
\* make b of a: without rows, without an early end.
Within(a, b, limit) ==
    LET near[p \in (1..(Len(a) + 1)) \X (1..(Len(b) + 1)) \X (0..limit)] ==
          LET i == p[1] j == p[2] n == p[3]
              inA == i <= Len(a)
              inB == j <= Len(b)
          IN  \/ ~inA /\ ~inB
              \/ inA /\ inB /\ a[i] = b[j] /\ near[<<i + 1, j + 1, n>>]
              \/ n > 0 /\ inA /\ near[<<i + 1, j, n - 1>>]
              \/ n > 0 /\ inB /\ near[<<i, j + 1, n - 1>>]
              \/ n > 0 /\ inA /\ inB /\ near[<<i + 1, j + 1, n - 1>>]
              \/ /\ n > 0 /\ i < Len(a) /\ j < Len(b) /\ a[i] = b[j + 1] /\ a[i + 1] = b[j]
                 /\ near[<<i + 2, j + 2, n - 1>>]
    IN  near[<<1, 1, limit>>]
Words == UNION {ToSet(t) : t \in Library}

\* The early end of boundedEditDistance gives up on no word within the limit.
DistanceExact ==
    Len(query) = 1 => \A v \in Words, limit \in 1..2 :
        LET w == query[1] IN
        BoundedDistance(w, v, limit) = Min({n \in 0..limit : Within(w, v, n)} \cup {limit + 1})

\* A title with a word of its own for each word of the query that is no stop
\* word is a whole-word hit at every level.  The result holds every such title;
\* nothing was passed over for a title that scores less; and a title typed in
\* full comes before every other one.  (With the types and the distances.)
Owns(t, f) ==
    \E own \in [NonStop(f) -> DOMAIN t] :
        /\ \A k, l \in NonStop(f) : own[k] = own[l] => k = l
        /\ \A k \in NonStop(f) : t[own[k]] \in f.variants[k]
Owners == {t \in Library : NonStop(Form(query)) # {} /\ Owns(t, Form(query))}
SearchFinds ==
    /\ SearchTypeOK /\ DistanceExact
    /\ query # <<>> => \A t \in Owners : score[t] >= 48000
    /\ (query # <<>> /\ answer # Searching) =>
           /\ Owners \subseteq answer
           /\ \A t \in answer, u \in Library : score[u] >= score[t] => u \in answer
           /\ query \in Library => \A t \in answer :
                score[t] >= score[query] => (Compact(t) = Compact(query) \/ AppId[t] = Compact(query))
================================================================================
