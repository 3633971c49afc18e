---------------------------- MODULE CatalogLoadProofs ----------------------------
(***************************************************************************)
(* Theorems of CatalogLoad, for any sources, plugins, clicks and versions: *)
(* the types, that the list that is shown is what is stored, and that no   *)
(* source is forgotten.                                                    *)
(*                                                                         *)
(* A handler is a chain of calls on a record of the state, so most lemmas  *)
(* are about one call: it keeps a good record good, it only sheds rows,    *)
(* which leaves the list true (Sheds), or it leaves no source without care *)
(* (Carries).                                                              *)
(***************************************************************************)
EXTENDS CatalogLoad, FiniteSetTheorems, SequenceTheorems, WellFoundedInduction, TLAPS

----------------------------------------------------------------------------
(* Lists *)
\* A set of numbers that has a member has a least one.
LEMMA LeastNumber ==
    ASSUME NEW A \in SUBSET Nat, A # {}
    PROVE  \E n \in A : \A m \in A : n <= m
<1>1. PICK b \in A : TRUE
    OBVIOUS
<1> DEFINE Below(n) == {k \in Nat : k < n}
           T == {Below(n) : n \in A}
           R == StrictSubsetOrdering(Nat)
<1>2. T \subseteq FiniteSubsetsOf(Nat)
    <2> SUFFICES ASSUME NEW n \in A PROVE IsFiniteSet(Below(n))
        BY DEF FiniteSubsetsOf
    <2>1. Below(n) \in SUBSET Nat /\ \A s \in Below(n) : s <= n
        OBVIOUS
    <2> HIDE DEF Below
    <2> QED BY <2>1, FS_BoundedSetOfNaturals
<1>3. T # {}
    BY <1>1
<1>4. \E x \in T : \A y \in T : ~(<<y, x>> \in R)
    <2> HIDE DEF T
    <2> QED BY <1>2, <1>3, FS_StrictSubsetOrderingWellFounded, WFMin
<1>5. PICK n \in A : \A m \in A : <<Below(m), Below(n)>> \notin R
    BY <1>4
<1>6. ASSUME NEW m \in A, m < n PROVE FALSE
    <2>1. Below(m) \subseteq Below(n) /\ m \in Below(n) /\ m \notin Below(m)
        BY <1>6
    <2> QED BY <2>1, <1>5 DEF StrictSubsetOrdering
<1> QED BY <1>6

\* What holds of 0 and, when of a number, of the next, holds of every number up to n.
LEMMA Upward ==
    ASSUME NEW n \in Nat, NEW A, 0 \in A, \A k \in 0..(n - 1) : k \in A => k + 1 \in A
    PROVE  \A k \in 0..n : k \in A
<1> DEFINE B == {k \in 0..n : k \notin A}
<1> SUFFICES ASSUME B # {} PROVE FALSE
    OBVIOUS
<1>1. B \in SUBSET Nat
    OBVIOUS
<1>2. PICK k \in B : \A m \in B : k <= m
    <2> HIDE DEF B
    <2> QED BY <1>1, LeastNumber
<1>3. k \in 0..n /\ k \notin A /\ k # 0 /\ k - 1 \in 0..(n - 1) /\ (k - 1) + 1 = k
    BY <1>2
<1>4. k - 1 \notin B
    BY <1>2, <1>3
<1> QED BY <1>3, <1>4

\* A list of results, each made from the one before it.
Turns(n, X) == (1..n) \X X
Made(f, n, X, x, step) == f \in [0..n -> X] /\ f[0] = x /\ \A k \in 1..n : f[k] = step[<<k, f[k - 1]>>]
\* A list of results, each made from the one before it, exists.
LEMMA Stepwise ==
    ASSUME NEW n \in Nat, NEW X, NEW x \in X, NEW step \in [Turns(n, X) -> X]
    PROVE  \E f : Made(f, n, X, x, step)
<1> DEFINE Upto(k, f) == f \in [0..k -> X] /\ f[0] = x /\ \A j \in 1..k : f[j] = step[<<j, f[j - 1]>>]
           A == {k \in 0..n : \E f : Upto(k, f)}
<1>1. 0 \in A
    <2> DEFINE c == [k \in 0..0 |-> x]
    <2>1. c \in [0..0 -> X] /\ c[0] = x /\ 1..0 = {}
        OBVIOUS
    <2>2. Upto(0, c)
        BY <2>1
    <2> HIDE DEF Upto, c
    <2> QED BY <2>2
<1>2. ASSUME NEW k \in 0..(n - 1), k \in A PROVE k + 1 \in A
    <2>1. PICK f : Upto(k, f)
        BY <1>2
    <2> DEFINE g == [j \in 0..(k + 1) |-> IF j = k + 1 THEN step[<<k + 1, f[k]>>] ELSE f[j]]
    <2>2. k + 1 \in 1..n /\ f[k] \in X /\ step[<<k + 1, f[k]>>] \in X
        BY <2>1 DEF Turns
    <2>3. g \in [0..(k + 1) -> X] /\ g[0] = x
        BY <2>1, <2>2
    <2>4. ASSUME NEW j \in 1..(k + 1) PROVE g[j] = step[<<j, g[j - 1]>>]
        <3>1. CASE j = k + 1
            <4>1. j - 1 = k /\ k \in 0..(k + 1) /\ k # k + 1 /\ j \in 0..(k + 1)
                BY <3>1
            <4>2. g[j - 1] = f[k] /\ g[j] = step[<<k + 1, f[k]>>]
                BY <3>1, <4>1
            <4> QED BY <3>1, <4>1, <4>2
        <3>2. CASE j # k + 1
            <4>1. j \in 1..k /\ j - 1 \in 0..(k + 1) /\ j - 1 # k + 1 /\ j \in 0..(k + 1)
                BY <3>2
            <4>2. g[j - 1] = f[j - 1] /\ g[j] = f[j]
                BY <3>2, <4>1
            <4>3. f[j] = step[<<j, f[j - 1]>>]
                BY <2>1, <4>1
            <4> QED BY <4>2, <4>3
        <3> QED BY <3>1, <3>2
    <2>5. Upto(k + 1, g)
        BY <2>3, <2>4
    <2> HIDE DEF Upto, g
    <2> QED BY <2>2, <2>5
<1>3. n \in A
    <2> HIDE DEF A
    <2> QED BY <1>1, <1>2, Upward
<1> QED BY <1>3 DEF Made

\* What is kept of a list, entry by entry.
KeptOf(f, S, s, keep) ==
    /\ f \in [0..Len(s) -> Seq(S)] /\ Only(s, keep) = f[Len(s)] /\ f[0] = <<>>
    /\ \A k \in 1..Len(s) : f[k] = IF s[k] \in keep THEN Append(f[k - 1], s[k]) ELSE f[k - 1]
LEMMA OnlySteps ==
    ASSUME NEW S, NEW s \in Seq(S), NEW keep
    PROVE  \E f : KeptOf(f, S, s, keep)
<1> DEFINE n == Len(s)
           Is(f) == f = [k \in 0..n |-> IF k = 0 THEN <<>> ELSE
                            IF s[k] \in keep THEN Append(f[k - 1], s[k]) ELSE f[k - 1]]
           step == [kx \in (1..n) \X Seq(S) |-> IF s[kx[1]] \in keep THEN Append(kx[2], s[kx[1]]) ELSE kx[2]]
<1>1. n \in Nat /\ <<>> \in Seq(S) /\ step \in [Turns(n, Seq(S)) -> Seq(S)]
    BY DEF Turns
<1>2. PICK g \in [0..n -> Seq(S)] : g[0] = <<>> /\ \A k \in 1..n : g[k] = step[<<k, g[k - 1]>>]
    <2> HIDE DEF step, n
    <2>1. PICK g : Made(g, n, Seq(S), <<>>, step)
        BY <1>1, Stepwise
    <2> QED BY <2>1 DEF Made
<1>3. ASSUME NEW k \in 1..n
      PROVE  k - 1 \in 0..n /\ g[k] = IF s[k] \in keep THEN Append(g[k - 1], s[k]) ELSE g[k - 1]
    <2>1. k - 1 \in 0..n /\ g[k - 1] \in Seq(S) /\ g[k] = step[<<k, g[k - 1]>>]
        <3> HIDE DEF step, n
        <3> QED BY <1>1, <1>2
    <2>2. step[<<k, g[k - 1]>>] = IF s[k] \in keep THEN Append(g[k - 1], s[k]) ELSE g[k - 1]
        BY <2>1
    <2> QED BY <2>1, <2>2
<1>4. Is(g)
    <2> DEFINE h == [k \in 0..n |-> IF k = 0 THEN <<>> ELSE
                            IF s[k] \in keep THEN Append(g[k - 1], s[k]) ELSE g[k - 1]]
    <2>1. DOMAIN g = 0..n /\ DOMAIN h = 0..n
        BY <1>2
    <2>2. ASSUME NEW k \in 0..n PROVE g[k] = h[k]
        <3>1. CASE k = 0
            BY <1>2, <3>1
        <3>2. CASE k # 0
            <4>1. k \in 1..n
                BY <1>1, <3>2
            <4> HIDE DEF step, n
            <4> QED BY <1>3, <3>2, <4>1
        <3> QED BY <3>1, <3>2
    <2>3. g = [k \in 0..n |-> g[k]] /\ h = [k \in 0..n |-> h[k]]
        BY <1>2
    <2> HIDE DEF h
    <2>4. g = h
        BY <2>2, <2>3
    <2> QED BY <2>4 DEF h
<1>5. PICK f : f = CHOOSE h : Is(h)
    OBVIOUS
<1>6. Is(f)
    BY <1>4, <1>5, Zenon
<1>7. Only(s, keep) = f[n]
    BY <1>5, Zenon DEF Only
<1>8. \A k \in 0..n : f[k] = g[k]
    <2> DEFINE A == {k \in 0..n : f[k] = g[k]}
    <2>1. 0 \in A
        BY <1>1, <1>2, <1>6
    <2>2. ASSUME NEW k \in 0..(n - 1), k \in A PROVE k + 1 \in A
        <3>1. k + 1 \in 1..n /\ (k + 1) - 1 = k /\ f[k] = g[k] /\ k + 1 \in 0..n /\ k + 1 # 0
            BY <1>1, <2>2
        <3>2. f[k + 1] = IF s[k + 1] \in keep THEN Append(f[k], s[k + 1]) ELSE f[k]
            BY <1>6, <3>1
        <3>3. g[k + 1] = IF s[k + 1] \in keep THEN Append(g[k], s[k + 1]) ELSE g[k]
            BY <1>3, <3>1
        <3> QED BY <3>1, <3>2, <3>3
    <2> HIDE DEF A
    <2>3. \A k \in 0..n : k \in A
        BY <1>1, <2>1, <2>2, Upward
    <2> QED BY <2>3 DEF A
<1>9. Only(s, keep) = g[n]
    BY <1>1, <1>7, <1>8
<1> QED BY <1>2, <1>3, <1>9 DEF KeptOf

\* One more entry.
LEMMA AppendFacts ==
    ASSUME NEW S, NEW t \in Seq(S), NEW e \in S
    PROVE  /\ Append(t, e) \in Seq(S) /\ ToSet(Append(t, e)) = ToSet(t) \cup {e}
           /\ IsInjective(t) /\ e \notin ToSet(t) => IsInjective(Append(t, e))
<1>1. /\ Append(t, e) \in Seq(S) /\ Len(Append(t, e)) = Len(t) + 1 /\ Len(t) \in Nat
      /\ DOMAIN t = 1..Len(t) /\ DOMAIN Append(t, e) = 1..(Len(t) + 1)
      /\ \A k \in 1..Len(t) : Append(t, e)[k] = t[k]
      /\ Append(t, e)[Len(t) + 1] = e
    OBVIOUS
<1>2. ToSet(t) = {t[k] : k \in 1..Len(t)} /\ ToSet(Append(t, e)) = {Append(t, e)[k] : k \in 1..(Len(t) + 1)}
    BY <1>1 DEF ToSet
<1>3. ToSet(Append(t, e)) = ToSet(t) \cup {e}
    <2> DEFINE u == Append(t, e)
    <2>1. \A k \in 1..(Len(t) + 1) : k \in 1..Len(t) \/ k = Len(t) + 1
        BY <1>1
    <2> HIDE DEF u
    <2>2. \A k \in 1..Len(t) : k \in 1..(Len(t) + 1)
        BY <1>1
    <2>3. Len(t) + 1 \in 1..(Len(t) + 1)
        BY <1>1
    <2>4. /\ ToSet(t) = {t[k] : k \in 1..Len(t)} /\ ToSet(u) = {u[k] : k \in 1..(Len(t) + 1)}
          /\ \A k \in 1..Len(t) : u[k] = t[k]
          /\ u[Len(t) + 1] = e
        BY <1>1, <1>2 DEF u
    <2>5. ToSet(u) = ToSet(t) \cup {e}
        BY <2>1, <2>2, <2>3, <2>4
    <2> QED BY <2>5 DEF u
<1>4. ASSUME IsInjective(t), e \notin ToSet(t) PROVE IsInjective(Append(t, e))
    <2>1. \A j, k \in 1..Len(t) : t[j] = t[k] => j = k
        BY <1>1, <1>4 DEF IsInjective
    <2>2. \A k \in 1..Len(t) : t[k] # e
        BY <1>2, <1>4
    <2>3. ASSUME NEW j \in 1..(Len(t) + 1), NEW k \in 1..(Len(t) + 1), Append(t, e)[j] = Append(t, e)[k]
          PROVE  j = k
        <3>1. (j \in 1..Len(t) \/ j = Len(t) + 1) /\ (k \in 1..Len(t) \/ k = Len(t) + 1)
            BY <1>1
        <3> QED BY ONLY <1>1, <2>1, <2>2, <2>3, <3>1
    <2> QED BY <1>1, <2>3 DEF IsInjective
<1> QED BY <1>1, <1>3, <1>4

\* Only keeps the entries that are in the set, and brings none twice.
LEMMA OnlyFacts ==
    ASSUME NEW S, NEW s \in Seq(S), NEW keep
    PROVE  /\ Only(s, keep) \in Seq(S) /\ ToSet(Only(s, keep)) = ToSet(s) \cap keep
           /\ IsInjective(s) => IsInjective(Only(s, keep))
<1>1. PICK f \in [0..Len(s) -> Seq(S)] :
        /\ Only(s, keep) = f[Len(s)] /\ f[0] = <<>>
        /\ \A k \in 1..Len(s) : f[k] = IF s[k] \in keep THEN Append(f[k - 1], s[k]) ELSE f[k - 1]
    <2>1. PICK f : KeptOf(f, S, s, keep)
        BY OnlySteps
    <2> QED BY <2>1 DEF KeptOf
<1> DEFINE upto(k) == {s[j] : j \in 1..k}
           A == {k \in 0..Len(s) : /\ ToSet(f[k]) = upto(k) \cap keep
                                   /\ IsInjective(s) => IsInjective(f[k])}
<1>2. Len(s) \in Nat /\ ToSet(s) = upto(Len(s)) /\ DOMAIN s = 1..Len(s) /\ \A k \in 1..Len(s) : s[k] \in S
    BY DEF ToSet
<1>3. 0 \in A
    <2>1. 1..0 = {} /\ ToSet(<<>>) = {} /\ IsInjective(<<>>)
        BY DEF ToSet, IsInjective
    <2> QED BY <1>1, <1>2, <2>1
<1>4. ASSUME NEW k \in 0..(Len(s) - 1), k \in A PROVE k + 1 \in A
    <2>1. k + 1 \in 1..Len(s) /\ (k + 1) - 1 = k /\ k + 1 \in 0..Len(s) /\ k \in 0..Len(s)
        BY <1>2
    <2>2. f[k + 1] = IF s[k + 1] \in keep THEN Append(f[k], s[k + 1]) ELSE f[k]
        BY <1>1, <2>1
    <2>3. upto(k + 1) = upto(k) \cup {s[k + 1]}
        <3>1. \A j : j \in 1..(k + 1) <=> j \in 1..k \/ j = k + 1
            BY <2>1
        <3> QED BY ONLY <3>1
    <2>4. ToSet(f[k]) = upto(k) \cap keep /\ (IsInjective(s) => IsInjective(f[k]))
        BY <1>4
    <2>5. f[k] \in Seq(S) /\ s[k + 1] \in S
        BY <1>1, <1>2, <2>1
    <2>6. IsInjective(s) => s[k + 1] \notin upto(k)
        BY <1>2, <2>1 DEF IsInjective
    <2> HIDE DEF upto
    <2>7. CASE s[k + 1] \in keep
        <3>1. f[k + 1] = Append(f[k], s[k + 1])
            BY <2>2, <2>7
        <3>2. ToSet(f[k + 1]) = ToSet(f[k]) \cup {s[k + 1]}
            BY <2>5, <3>1, AppendFacts
        <3>3. ToSet(f[k + 1]) = upto(k + 1) \cap keep
            BY <2>3, <2>4, <2>7, <3>2
        <3>4. ASSUME IsInjective(s) PROVE IsInjective(f[k + 1])
            <4>1. s[k + 1] \notin ToSet(f[k]) /\ IsInjective(f[k])
                BY <2>4, <2>6, <3>4
            <4> QED BY <2>5, <3>1, <4>1, AppendFacts
        <3> QED BY <2>1, <3>3, <3>4
    <2>8. CASE s[k + 1] \notin keep
        <3>1. f[k + 1] = f[k] /\ upto(k + 1) \cap keep = upto(k) \cap keep
            BY <2>2, <2>3, <2>8
        <3> QED BY <2>1, <2>4, <3>1
    <2> QED BY <2>7, <2>8
<1>5. Len(s) \in A
    <2> HIDE DEF A
    <2>1. \A k \in 0..Len(s) : k \in A
        BY <1>2, <1>3, <1>4, Upward
    <2> QED BY <1>2, <2>1
<1> QED BY <1>1, <1>2, <1>5

----------------------------------------------------------------------------
(* The record of the state *)
Stamps == [Sources -> {"none", "stale", "fresh"}]
Shas == [Sources -> 0..MaxVersion]
Disks == [Sources -> 0..Hollow]
Tables(V) == UNION {[D -> V] : D \in SUBSET Sources}
RowTables == Tables(0..MaxVersion)
MergeTables == Tables(Versions)
Queues == {q \in Seq(Sources) : IsInjective(q)}
FeedStates == Feeds \cup {NoFeed}

\* What workers find: only the disk has payloads without rows, and what is
\* prepared has rows.
Finds(kind) ==
    CASE kind = "disk" -> NotYet..Hollow
      [] kind = "prepare" -> Versions
      [] OTHER -> NotYet..MaxVersion
GoodTasks == {t \in Tasks : t.got \in Finds(t.kind)}
TaskBags == UNION {[D -> Nat \ {0}] : D \in SUBSET GoodTasks}

States ==
    [ present : SUBSET Plugins, disk : Disks, active : SUBSET Sources, rows : RowTables,
      stamp : Stamps, sha : Shas, loading : SUBSET Sources, queue : Queues, http : BOOLEAN,
      feed : FeedStates, tasks : TaskBags, merge : MergeTables, merged : RowTables, preview : BOOLEAN ]

\* The list, as the merge that is under way will leave it, has the rows that are
\* stored of what is shown.
Shown(st) ==
    LET list == IF st.merge # NoRows THEN st.merge ELSE st.merged IN
    \A s \in st.active : Has(st, s) /\ st.rows[s] # None => s \in DOMAIN list /\ list[s] = st.rows[s]
Goods == {st \in States : Shown(st)}

CatalogInv ==
    /\ enabled \subseteq Sources /\ server \in [Sources -> Versions]
    /\ removing \in Plugins \cup {None}
    /\ clicks \in 0..MaxClicks /\ ticks \in 0..MaxTicks
    /\ State \in Goods

\* A call that changes neither list nor selection and may forget rows.
Sheds(st, z) ==
    /\ st \in States /\ z \in States
    /\ z.active = st.active /\ z.merge = st.merge /\ z.merged = st.merged
    /\ \A s \in DOMAIN z.rows : s \in DOMAIN st.rows /\ z.rows[s] = st.rows[s]

LEMMA VersionFacts ==
    /\ SourceCount \in Nat /\ MaxVersion \in Nat \ {0} /\ Hollow = MaxVersion + 1
    /\ Versions = 1..MaxVersion /\ Versions \subseteq 0..MaxVersion
    /\ 0..MaxVersion \subseteq 0..Hollow /\ None \in 0..MaxVersion /\ None \notin Versions
    /\ NotYet \notin 0..Hollow /\ 0..MaxVersion \subseteq NotYet..MaxVersion
    /\ 0..Hollow \subseteq NotYet..Hollow /\ Hollow \notin 0..MaxVersion /\ Hollow \in 0..Hollow
    /\ \A v \in 0..Hollow : v # Hollow => v \in 0..MaxVersion
    /\ \A v \in 0..MaxVersion : v # None => v \in Versions
BY SourceAssumption DEF Hollow, Versions, None, NotYet

LEMMA ShedsKeeps ==
    ASSUME NEW st \in Goods, NEW z, Sheds(st, z)
    PROVE  z \in Goods
<1>1. z \in States /\ Shown(st)
    BY DEF Sheds, Goods
<1>2. Shown(z)
    BY <1>1 DEF Sheds, Shown, Has
<1> QED BY <1>1, <1>2 DEF Goods

LEMMA ShedsTwice ==
    ASSUME NEW a, NEW b, NEW c, Sheds(a, b), Sheds(b, c)
    PROVE  Sheds(a, c)
BY DEF Sheds

\* What is neither row, list nor selection changes.
LEMMA QuietSheds ==
    ASSUME NEW st \in States, NEW z \in States, z.active = st.active, z.merge = st.merge,
           z.merged = st.merged, z.rows = st.rows
    PROVE  Sheds(st, z)
BY DEF Sheds

LEMMA TableFacts ==
    ASSUME NEW V, NEW f \in Tables(V)
    PROVE  /\ DOMAIN f \subseteq Sources /\ f \in [DOMAIN f -> V] /\ \A s \in DOMAIN f : f[s] \in V
           /\ \A D : Restrict(f, DOMAIN f \cap D) \in Tables(V)
           /\ \A s \in Sources, v \in V : Put(f, s, v) \in Tables(V)
<1>1. PICK D \in SUBSET Sources : f \in [D -> V]
    BY DEF Tables
<1>2. DOMAIN f = D
    BY <1>1
<1>3. ASSUME NEW E PROVE Restrict(f, DOMAIN f \cap E) \in Tables(V)
    <2>1. Restrict(f, DOMAIN f \cap E) \in [DOMAIN f \cap E -> V]
        BY <1>1, <1>2 DEF Restrict
    <2>2. DOMAIN f \cap E \in SUBSET Sources
        BY <1>2
    <2> QED BY <2>1, <2>2 DEF Tables
<1>4. ASSUME NEW s \in Sources, NEW v \in V PROVE Put(f, s, v) \in Tables(V)
    <2>1. Put(f, s, v) \in [DOMAIN f \cup {s} -> V]
        BY <1>1, <1>2 DEF Put
    <2>2. DOMAIN f \cup {s} \in SUBSET Sources
        BY <1>2
    <2> QED BY <2>1, <2>2 DEF Tables
<1> QED BY <1>1, <1>2, <1>3, <1>4

LEMMA NoRowsFacts ==
    /\ DOMAIN NoRows = {} /\ \A V : NoRows \in Tables(V)
    /\ \A V : \A f \in Tables(V) : DOMAIN f = {} => f = NoRows
<1>1. DOMAIN NoRows = {} /\ NoRows = [x \in {} |-> x]
    BY DEF NoRows
<1>2. ASSUME NEW V PROVE NoRows \in Tables(V)
    <2>1. NoRows \in [{} -> V]
        BY <1>1
    <2> QED BY <2>1 DEF Tables
<1>3. ASSUME NEW V, NEW f \in Tables(V), DOMAIN f = {} PROVE f = NoRows
    <2>1. PICK D \in SUBSET Sources : f \in [D -> V]
        BY DEF Tables
    <2>2. f \in [{} -> V]
        BY <1>3, <2>1
    <2> QED BY <1>1, <2>2
<1> QED BY <1>1, <1>2, <1>3

\* The workers in flight: one more, one less.
LEMMA BagFacts ==
    ASSUME NEW b \in TaskBags
    PROVE  /\ DOMAIN b \subseteq GoodTasks
           /\ \A t \in GoodTasks : b (+) One(t) \in TaskBags
           /\ \A t : b (-) One(t) \in TaskBags
<1>1. PICK D \in SUBSET GoodTasks : b \in [D -> Nat \ {0}]
    BY DEF TaskBags
<1>2. DOMAIN b = D
    BY <1>1
<1>3. \A t : DOMAIN One(t) = {t} /\ One(t)[t] = 1
    BY DEF One, SetToBag
<1>4. ASSUME NEW t \in GoodTasks PROVE b (+) One(t) \in TaskBags
    <2>1. PICK c : c = b (+) One(t)
        OBVIOUS
    <2>2. c = [e \in D \cup {t} |-> (IF e \in D THEN b[e] ELSE 0) + (IF e \in {t} THEN One(t)[e] ELSE 0)]
        BY <1>2, <1>3, <2>1 DEF (+)
    <2>3. \A e \in D \cup {t} : (IF e \in D THEN b[e] ELSE 0) + (IF e \in {t} THEN One(t)[e] ELSE 0) \in Nat \ {0}
        BY <1>1, <1>3
    <2>4. c \in [D \cup {t} -> Nat \ {0}]
        BY <2>2, <2>3
    <2> QED BY <2>1, <2>4 DEF TaskBags
<1>5. ASSUME NEW t PROVE b (-) One(t) \in TaskBags
    <2> DEFINE B == [e \in D |-> IF e \in {t} THEN b[e] - One(t)[e] ELSE b[e]]
               E == {d \in D : B[d] > 0}
    <2>1. PICK c : c = b (-) One(t)
        OBVIOUS
    <2>2. c = [e \in {d \in DOMAIN B : B[d] > 0} |-> B[e]]
        BY <1>2, <1>3, <2>1 DEF (-)
    <2>3. DOMAIN B = D /\ \A e \in E : B[e] \in Nat \ {0}
        BY <1>1, <1>3
    <2>4. c = [e \in E |-> B[e]]
        BY <2>2
    <2> HIDE DEF B
    <2>5. c \in [E -> Nat \ {0}] /\ E \in SUBSET GoodTasks
        BY <2>3, <2>4
    <2> HIDE DEF E
    <2> QED BY <2>1, <2>5 DEF TaskBags
<1> QED BY <1>1, <1>2, <1>4, <1>5

LEMMA NoTasksFacts == EmptyBag \in TaskBags
<1>1. EmptyBag \in [{} -> Nat \ {0}]
    BY DEF EmptyBag, SetToBag
<1> QED BY <1>1 DEF TaskBags
----------------------------------------------------------------------------
(* Calls that load *)
LEMMA ForgetSheds ==
    ASSUME NEW st \in States, NEW s \in Sources
    PROVE  Sheds(st, Forget(st, s)) /\ Forget(st, s).present = st.present
                                    /\ Forget(st, s).loading = st.loading
<1>1. PICK r : r = Restrict(st.rows, DOMAIN st.rows \ {s})
    OBVIOUS
<1>2. st.rows \in RowTables
    BY DEF States
<1>3. r \in RowTables /\ \A u \in DOMAIN r : u \in DOMAIN st.rows /\ r[u] = st.rows[u]
    <2>1. DOMAIN st.rows \cap (Sources \ {s}) = DOMAIN st.rows \ {s}
        BY <1>2, TableFacts DEF RowTables
    <2>2. r \in RowTables
        BY <1>1, <1>2, <2>1, TableFacts DEF RowTables
    <2> QED BY <1>1, <2>2 DEF Restrict
<1>4. PICK x : x = [st.stamp EXCEPT ![s] = "none"]
    OBVIOUS
<1>5. x \in Stamps
    BY <1>4 DEF States, Stamps
<1>6. PICK z : z = [st EXCEPT !.rows = r, !.stamp = x]
    OBVIOUS
<1>7. z = Forget(st, s)
    BY <1>1, <1>4, <1>6 DEF Forget, States
<1>8. z \in States /\ z.active = st.active /\ z.merge = st.merge /\ z.merged = st.merged /\ z.rows = r
      /\ z.present = st.present /\ z.loading = st.loading
    BY <1>3, <1>5, <1>6 DEF States
<1>9. Sheds(st, z)
    BY <1>3, <1>8 DEF Sheds
<1> QED BY <1>7, <1>8, <1>9

LEMMA LoadingSheds ==
    ASSUME NEW st \in States, NEW L \in SUBSET Sources
    PROVE  Sheds(st, [st EXCEPT !.loading = L])
<1>1. PICK z : z = [st EXCEPT !.loading = L]
    OBVIOUS
<1>2. z \in States /\ z.active = st.active /\ z.merge = st.merge /\ z.merged = st.merged /\ z.rows = st.rows
    BY <1>1 DEF States
<1> QED BY <1>1, <1>2, QuietSheds

LEMMA TouchSheds ==
    ASSUME NEW st \in States, NEW s \in Sources
    PROVE  Sheds(st, Touch(st, s)) /\ Touch(st, s).rows = st.rows
<1>1. PICK x : x = [st.stamp EXCEPT ![s] = "fresh"]
    OBVIOUS
<1>2. x \in Stamps
    BY <1>1 DEF States, Stamps
<1>3. PICK z : z = [st EXCEPT !.stamp = x, !.loading = @ \ {s}]
    OBVIOUS
<1>4. z = Touch(st, s)
    BY <1>1, <1>3 DEF Touch, States
<1>5. z \in States /\ z.active = st.active /\ z.merge = st.merge /\ z.merged = st.merged /\ z.rows = st.rows
    BY <1>2, <1>3 DEF States
<1> QED BY <1>4, <1>5, QuietSheds

LEMMA TasksSheds ==
    ASSUME NEW st \in States, NEW b \in TaskBags
    PROVE  Sheds(st, [st EXCEPT !.tasks = b])
<1>1. PICK z : z = [st EXCEPT !.tasks = b]
    OBVIOUS
<1>2. z \in States /\ z.active = st.active /\ z.merge = st.merge /\ z.merged = st.merged /\ z.rows = st.rows
    BY <1>1 DEF States
<1> QED BY <1>1, <1>2, QuietSheds

LEMMA WatchSheds ==
    ASSUME NEW st \in States, NEW s \in Sources, NEW kind \in {"disk", "plugin", "check", "prepare"},
           NEW got \in Finds(kind), got \in NotYet..Hollow, NEW first \in BOOLEAN
    PROVE  Sheds(st, Watch(st, kind, s, got, first))
<1>1. PICK t : t = [kind |-> kind, source |-> s, known |-> st.sha[s], got |-> got, first |-> first]
    OBVIOUS
<1>2. st.sha[s] \in 0..MaxVersion /\ st.tasks \in TaskBags
    BY DEF States, Shas
<1>3. t \in Tasks /\ t.kind = kind /\ t.got = got
    BY <1>1, <1>2 DEF Tasks
<1>4. t \in GoodTasks
    BY <1>3 DEF GoodTasks
<1>5. PICK b : b = st.tasks (+) One(t)
    OBVIOUS
<1>6. b \in TaskBags
    BY <1>2, <1>4, <1>5, BagFacts
<1>7. [st EXCEPT !.tasks = b] = Watch(st, kind, s, got, first)
    BY <1>1, <1>5 DEF Watch
<1> QED BY <1>6, <1>7, TasksSheds

\* A worker that begins has found nothing yet.
LEMMA NotYetFacts ==
    ASSUME NEW kind \in {"disk", "plugin", "check"}
    PROVE  NotYet \in Finds(kind) /\ NotYet \in NotYet..Hollow
<1>1. NotYet \in NotYet..Hollow /\ NotYet \in NotYet..MaxVersion
    BY VersionFacts DEF NotYet
<1> QED BY <1>1 DEF Finds

LEMMA LoadFeedSheds ==
    ASSUME NEW st \in States, NEW s \in Sources, NEW etag \in 0..MaxVersion
    PROVE  Sheds(st, LoadFeed(st, s, etag))
<1>1. PICK f : f = [source |-> s, etag |-> etag]
    OBVIOUS
<1>2. f \in FeedStates
    BY <1>1 DEF FeedStates, Feeds
<1>3. PICK z : z = [st EXCEPT !.feed = f]
    OBVIOUS
<1>4. z \in States /\ z.active = st.active /\ z.merge = st.merge /\ z.merged = st.merged /\ z.rows = st.rows
    BY <1>2, <1>3 DEF States
<1> QED BY <1>1, <1>3, <1>4, QuietSheds DEF LoadFeed

LEMMA HttpSheds ==
    ASSUME NEW st \in States, NEW h \in BOOLEAN, NEW f \in FeedStates
    PROVE  Sheds(st, [st EXCEPT !.http = h]) /\ Sheds(st, [st EXCEPT !.http = h, !.feed = f])
<1>1. PICK y, z : y = [st EXCEPT !.http = h] /\ z = [st EXCEPT !.http = h, !.feed = f]
    OBVIOUS
<1>2. y \in States /\ y.active = st.active /\ y.merge = st.merge /\ y.merged = st.merged /\ y.rows = st.rows
    BY <1>1 DEF States
<1>3. z \in States /\ z.active = st.active /\ z.merge = st.merge /\ z.merged = st.merged /\ z.rows = st.rows
    BY <1>1 DEF States
<1> QED BY <1>1, <1>2, <1>3, QuietSheds

LEMMA EtagFacts ==
    ASSUME NEW st \in States, NEW s \in Sources
    PROVE  Etag(st, s) \in 0..MaxVersion
<1>1. st.disk[s] \in 0..Hollow
    BY DEF States, Disks
<1> QED BY <1>1, VersionFacts DEF Etag

LEMMA HttpLoadSheds ==
    ASSUME NEW st \in States, NEW s \in Sources
    PROVE  Sheds(st, HttpLoad(st, s))
<1>1. PICK y : y = [st EXCEPT !.http = TRUE]
    OBVIOUS
<1>2. Sheds(st, y)
    <2>1. TRUE \in BOOLEAN /\ NoFeed \in FeedStates
        BY DEF FeedStates
    <2> QED BY <1>1, <2>1, HttpSheds
<1>3. y \in States
    BY <1>2 DEF Sheds
<1>4. Sheds(y, LoadFeed(y, s, Etag(st, s)))
    BY <1>3, EtagFacts, LoadFeedSheds
<1> QED BY <1>1, <1>2, <1>4, ShedsTwice DEF HttpLoad

LEMMA FromNetworkSheds ==
    ASSUME NEW st \in States, NEW s \in Sources
    PROVE  Sheds(st, FromNetwork(st, s))
<1>1. CASE s \in st.present
    <2>1. PICK first \in BOOLEAN : first = (~Has(st, s) /\ st.merged = NoRows)
        OBVIOUS
    <2>2. FromNetwork(st, s) = Watch(st, "plugin", s, NotYet, first)
        BY <1>1, <2>1, Zenon DEF FromNetwork
    <2>3. "plugin" \in {"disk", "plugin", "check"} /\ "plugin" \in {"disk", "plugin", "check", "prepare"}
        OBVIOUS
    <2> QED BY <2>2, <2>3, NotYetFacts, WatchSheds
<1>2. CASE s \notin st.present /\ s \in Linked
    BY <1>2, HttpLoadSheds DEF FromNetwork
<1>3. CASE s \notin st.present /\ s \notin Linked
    <2>1. PICK L \in SUBSET Sources : L = st.loading \ {s}
        BY DEF States
    <2>2. FromNetwork(st, s) = [st EXCEPT !.loading = L]
        BY <1>3, <2>1 DEF FromNetwork
    <2> QED BY <2>2, LoadingSheds
<1> QED BY <1>1, <1>2, <1>3

LEMMA LoadNowSheds ==
    ASSUME NEW st \in States, NEW s \in Sources
    PROVE  Sheds(st, LoadNow(st, s))
<1>1. "disk" \in {"disk", "plugin", "check"} /\ "disk" \in {"disk", "plugin", "check", "prepare"} /\ FALSE \in BOOLEAN
    OBVIOUS
<1>2. Sheds(st, Watch(st, "disk", s, NotYet, FALSE))
    BY <1>1, NotYetFacts, WatchSheds
<1> QED BY <1>2, FromNetworkSheds DEF LoadNow

LEMMA QueueSheds ==
    ASSUME NEW st \in States, NEW q \in Queues
    PROVE  Sheds(st, [st EXCEPT !.queue = q])
<1>1. PICK z : z = [st EXCEPT !.queue = q]
    OBVIOUS
<1>2. z \in States /\ z.active = st.active /\ z.merge = st.merge /\ z.merged = st.merged /\ z.rows = st.rows
    BY <1>1 DEF States
<1> QED BY <1>1, <1>2, QuietSheds

LEMMA QueuedSheds ==
    ASSUME NEW st \in States, NEW s \in Sources
    PROVE  Sheds(st, Queued(st, s))
<1>1. st.queue \in Seq(Sources) /\ IsInjective(st.queue)
    BY DEF States, Queues
<1>2. PICK q : q = IF Contains(st.queue, s) THEN st.queue ELSE Append(st.queue, s)
    OBVIOUS
<1>3. Contains(st.queue, s) <=> s \in ToSet(st.queue)
    <2>1. DOMAIN st.queue = 1..Len(st.queue)
        BY <1>1
    <2> QED BY <2>1 DEF Contains, ToSet
<1>4. q \in Queues
    BY <1>1, <1>2, <1>3, AppendFacts DEF Queues
<1>5. Queued(st, s) = [st EXCEPT !.queue = q]
    BY <1>2 DEF Queued
<1> QED BY <1>4, <1>5, QueueSheds

\* The rest of a queue behind one of its places.
LEMMA RestFacts ==
    ASSUME NEW q \in Queues, NEW i \in 1..Len(q)
    PROVE  q[i] \in Sources /\ SubSeq(q, i + 1, Len(q)) \in Queues
<1> DEFINE r == SubSeq(q, i + 1, Len(q))
           n == Len(q)
<1>1. q \in Seq(Sources) /\ IsInjective(q)
    BY DEF Queues
<1>2. /\ n \in Nat /\ i \in Nat /\ i <= n /\ DOMAIN q = 1..n /\ q[i] \in Sources
      /\ r \in Seq(Sources) /\ DOMAIN r = 1..(n - i) /\ \A k \in 1..(n - i) : r[k] = q[i + k]
    BY <1>1
<1> HIDE DEF r, n
<1>3. IsInjective(r)
    <2>1. ASSUME NEW j \in 1..(n - i), NEW k \in 1..(n - i), r[j] = r[k] PROVE j = k
        <3>1. i + j \in 1..n /\ i + k \in 1..n /\ q[i + j] = q[i + k]
            BY <1>2, <2>1
        <3>2. i + j = i + k
            BY <1>1, <1>2, <3>1 DEF IsInjective
        <3> QED BY <1>2, <3>2
    <2> QED BY <1>2, <2>1 DEF IsInjective
<1> QED BY <1>2, <1>3 DEF r, n, Queues

LEMMA ProcessQueueSheds ==
    ASSUME NEW st \in States
    PROVE  Sheds(st, ProcessQueue(st))
<1> DEFINE i == SelectInSeq(st.queue, LAMBDA s : ~Fresh(st, s))
           I == {k \in 1..Len(st.queue) : ~Fresh(st, st.queue[k])}
           s == st.queue[i]
           taken == [Forget(st, s) EXCEPT !.queue = SubSeq(@, i + 1, Len(@))]
<1>1. st.queue \in Queues /\ st.queue \in Seq(Sources) /\ Len(st.queue) \in Nat
    BY DEF States, Queues
<1>2. i = 0 \/ i \in 1..Len(st.queue)
    <2>1. i = IF I # {} THEN CHOOSE x \in I : \A y \in I : x <= y ELSE 0
        BY Zenon DEF SelectInSeq, Min
    <2>2. I \in SUBSET Nat /\ I \subseteq 1..Len(st.queue)
        BY <1>1
    <2>3. ASSUME I # {} PROVE (CHOOSE x \in I : \A y \in I : x <= y) \in I
        <3>1. \E x \in I : \A y \in I : x <= y
            <4> HIDE DEF I
            <4> QED BY <2>2, <2>3, LeastNumber
        <3> HIDE DEF I
        <3> QED BY <3>1
    <2> HIDE DEF I, i
    <2> QED BY <2>1, <2>2, <2>3
<1> HIDE DEF i
<1>3. CASE st.http
    <2>1. ProcessQueue(st) = st
        BY <1>3 DEF ProcessQueue
    <2> QED BY <2>1, QuietSheds
<1>4. CASE ~st.http /\ i = 0
    <2>1. ProcessQueue(st) = [st EXCEPT !.queue = << >>]
        BY <1>4 DEF ProcessQueue, i
    <2>2. << >> \in Queues
        BY DEF Queues, IsInjective
    <2> QED BY <2>1, <2>2, QueueSheds
<1>5. CASE ~st.http /\ i # 0
    <2>1. s \in Sources
        BY <1>1, <1>2, <1>5, RestFacts
    <2>2. PICK f : f = Forget(st, s)
        OBVIOUS
    <2>3. Sheds(st, f) /\ f \in States
        BY <2>1, <2>2, ForgetSheds DEF Sheds
    <2>4. f.queue = st.queue
        BY <2>2 DEF Forget, States
    <2>5. PICK q : q = SubSeq(st.queue, i + 1, Len(st.queue))
        OBVIOUS
    <2>6. q \in Queues
        BY <1>1, <1>2, <1>5, <2>5, RestFacts
    <2>7. taken = [f EXCEPT !.queue = q]
        <3>1. taken = [f EXCEPT !.queue = SubSeq(f.queue, i + 1, Len(f.queue))]
            BY <2>2, Zenon
        <3> QED BY <2>4, <2>5, <3>1
    <2>8. Sheds(f, taken) /\ taken \in States
        <3> HIDE DEF taken
        <3>1. Sheds(f, taken)
            BY <2>3, <2>6, <2>7, QueueSheds
        <3> QED BY <3>1 DEF Sheds
    <2> HIDE DEF taken, s
    <2>9. Sheds(taken, LoadNow(taken, s))
        BY <2>1, <2>8, LoadNowSheds
    <2>10. Sheds(st, taken)
        BY <2>3, <2>8, ShedsTwice
    <2>11. ProcessQueue(st) = IF s \in st.loading \cap st.present THEN taken ELSE LoadNow(taken, s)
        <3>1. ProcessQueue(st) = CASE st.http -> st
                 [] ~st.http /\ i = 0 -> [st EXCEPT !.queue = << >>]
                 [] OTHER -> IF s \in st.loading \cap st.present THEN taken ELSE LoadNow(taken, s)
            BY Zenon DEF ProcessQueue, i, s, taken
        <3> QED BY <1>5, <3>1
    <2>12. Sheds(st, LoadNow(taken, s))
        BY <2>9, <2>10, ShedsTwice
    <2> QED BY <2>10, <2>11, <2>12
<1> QED BY <1>3, <1>4, <1>5

LEMMA RequestSheds ==
    ASSUME NEW st \in States, NEW s \in Sources
    PROVE  Sheds(st, Request(st, s))
<1> DEFINE dropped == IF Has(st, s) THEN Forget(st, s) ELSE st
           started == [dropped EXCEPT !.loading = @ \cup {s}]
<1>1. Sheds(st, dropped) /\ dropped \in States
    <2>1. Sheds(st, st)
        BY QuietSheds
    <2> QED BY <2>1, ForgetSheds DEF Sheds
<1>2. Sheds(st, started) /\ started \in States
    <2> HIDE DEF dropped
    <2>1. PICK L \in SUBSET Sources : L = dropped.loading \cup {s}
        BY <1>1 DEF States
    <2>2. started = [dropped EXCEPT !.loading = L]
        BY <2>1
    <2>3. Sheds(dropped, started)
        BY <1>1, <2>2, LoadingSheds
    <2> QED BY <1>1, <2>3, ShedsTwice DEF Sheds
<1>3. CASE Fresh(st, s)
    <2>1. Request(st, s) = st
        BY <1>3 DEF Request
    <2> QED BY <2>1, QuietSheds
<1>4. CASE ~Fresh(st, s) /\ s \in st.loading
    <2>1. Request(st, s) = Queued(dropped, s)
        BY <1>4 DEF Request
    <2> HIDE DEF dropped
    <2>2. Sheds(dropped, Queued(dropped, s))
        BY <1>1, QueuedSheds
    <2> QED BY <1>1, <2>1, <2>2, ShedsTwice
<1>5. CASE ~Fresh(st, s) /\ s \notin st.loading
    <2>1. Request(st, s) = IF s \in st.present THEN LoadNow(started, s) ELSE ProcessQueue(Queued(started, s))
        <3> HIDE DEF dropped, started
        <3>1. Request(st, s) = CASE Fresh(st, s) -> st
                 [] ~Fresh(st, s) /\ s \in st.loading -> Queued(dropped, s)
                 [] OTHER -> IF s \in st.present THEN LoadNow(started, s) ELSE ProcessQueue(Queued(started, s))
            BY Zenon DEF Request, dropped, started
        <3> QED BY <1>5, <3>1
    <2> HIDE DEF dropped, started
    <2>2. Sheds(st, LoadNow(started, s))
        BY <1>2, LoadNowSheds, ShedsTwice
    <2>3. PICK q : q = Queued(started, s)
        OBVIOUS
    <2>4. Sheds(started, q) /\ q \in States
        BY <1>2, <2>3, QueuedSheds DEF Sheds
    <2>5. Sheds(q, ProcessQueue(q))
        BY <2>4, ProcessQueueSheds
    <2>6. Sheds(st, ProcessQueue(q))
        BY <1>2, <2>4, <2>5, ShedsTwice
    <2> QED BY <2>1, <2>2, <2>3, <2>6
<1> QED BY <1>3, <1>4, <1>5
----------------------------------------------------------------------------
(* Calls for each source, and the list *)
Swept(g, n, S, X, x, step) ==
    /\ g \in [0..n -> X] /\ g[0] = x
    /\ \A k \in 1..n : g[k] = IF k \in S THEN step[<<k, g[k - 1]>>] ELSE g[k - 1]
LEMMA EachSteps ==
    ASSUME NEW n \in Nat, NEW S, NEW X, NEW x \in X, NEW step \in [Turns(n, X) -> X]
    PROVE  \E g : Swept(g, n, S, X, x, step)
<1> DEFINE turn == [kx \in Turns(n, X) |-> IF kx[1] \in S THEN step[kx] ELSE kx[2]]
<1>1. turn \in [Turns(n, X) -> X]
    BY DEF Turns
<1>2. PICK g : Made(g, n, X, x, turn)
    <2> HIDE DEF turn
    <2> QED BY <1>1, Stepwise
<1>3. g \in [0..n -> X] /\ g[0] = x /\ \A k \in 1..n : g[k] = turn[<<k, g[k - 1]>>]
    BY <1>2 DEF Made
<1>4. ASSUME NEW k \in 1..n PROVE turn[<<k, g[k - 1]>>] = IF k \in S THEN step[<<k, g[k - 1]>>] ELSE g[k - 1]
    <2>1. k - 1 \in 0..n /\ g[k - 1] \in X
        BY <1>3
    <2>2. <<k, g[k - 1]>> \in Turns(n, X)
        BY <2>1 DEF Turns
    <2> QED BY <2>2
<1> HIDE DEF turn
<1> QED BY <1>3, <1>4 DEF Swept

LEMMA MissingSheds ==
    ASSUME NEW st \in States, NEW s \in Sources
    PROVE  Sheds(st, Missing(st, s))
<1>1. PICK evacuated \in BOOLEAN : evacuated <=> Has(st, s) /\ st.rows[s] = None /\ Cardinality(st.active) > 1
    OBVIOUS
<1>2. PICK kept : kept = IF evacuated THEN Forget(st, s) ELSE st
    OBVIOUS
<1>3. Sheds(st, kept) /\ kept \in States
    <2>1. Sheds(st, st)
        BY QuietSheds
    <2> QED BY <1>2, <2>1, ForgetSheds DEF Sheds
<1>4. Missing(st, s) \in {kept, Request(kept, s)}
    <2>1. kept = IF Has(st, s) /\ st.rows[s] = None /\ Cardinality(st.active) > 1 THEN Forget(st, s) ELSE st
        BY <1>1, <1>2
    <2> QED BY <2>1, Zenon DEF Missing
<1>5. Sheds(st, Request(kept, s))
    BY <1>3, RequestSheds, ShedsTwice
<1> QED BY <1>3, <1>4, <1>5

\* What is missing is asked for, source by source.
MissingRun(f, S, st) ==
    /\ f[0] = st /\ Each(S, st, Missing) = f[SourceCount]
    /\ \A k \in 0..SourceCount : Sheds(st, f[k])
    /\ \A k \in 1..SourceCount : f[k] = IF k \in S THEN Missing(f[k - 1], k) ELSE f[k - 1]
LEMMA MissingSteps ==
    ASSUME NEW st \in States, NEW S
    PROVE  \E f : MissingRun(f, S, st)
<1> DEFINE n == SourceCount
           X == {z \in States : Sheds(st, z)}
           Is(f) == f = [k \in 0..n |-> IF k = 0 THEN st ELSE
                            IF k \in S THEN Missing(f[k - 1], k) ELSE f[k - 1]]
           step == [kx \in Turns(n, X) |-> Missing(kx[2], kx[1])]
<1>1. n \in Nat /\ st \in X /\ \A k \in 1..n : k \in Sources
    BY VersionFacts, QuietSheds DEF Sources
<1>2. ASSUME NEW z \in X, NEW k \in 1..n PROVE Missing(z, k) \in X
    <2>1. PICK y : y = Missing(z, k)
        OBVIOUS
    <2>2. Sheds(z, y)
        BY <1>1, <2>1, MissingSheds
    <2>3. Sheds(st, y)
        BY <2>2, ShedsTwice
    <2> QED BY <2>1, <2>3 DEF Sheds
<1>3. step \in [Turns(n, X) -> X]
    <2> HIDE DEF X, n
    <2>1. \A kx \in Turns(n, X) : kx[1] \in 1..n /\ kx[2] \in X
        BY DEF Turns
    <2> QED BY <1>2, <2>1
<1>4. PICK g \in [0..n -> X] : g[0] = st /\ \A k \in 1..n : g[k] = IF k \in S THEN step[<<k, g[k - 1]>>] ELSE g[k - 1]
    <2> HIDE DEF X, n, step
    <2>1. PICK g : Swept(g, n, S, X, st, step)
        BY <1>1, <1>3, EachSteps
    <2> QED BY <2>1 DEF Swept
<1>5. ASSUME NEW k \in 1..n
      PROVE  k - 1 \in 0..n /\ g[k] = IF k \in S THEN Missing(g[k - 1], k) ELSE g[k - 1]
    <2> HIDE DEF X, n
    <2>1. k - 1 \in 0..n /\ g[k - 1] \in X /\ <<k, g[k - 1]>> \in Turns(n, X)
        BY <1>1, <1>4 DEF Turns
    <2>2. step[<<k, g[k - 1]>>] = Missing(g[k - 1], k)
        BY <2>1
    <2> HIDE DEF step
    <2> QED BY <1>4, <2>1, <2>2
<1>6. Is(g)
    <2> HIDE DEF X, step, n
    <2> QED BY <1>1, <1>4, <1>5
<1>7. PICK f : f = CHOOSE h : Is(h)
    OBVIOUS
<1>8. Is(f)
    BY <1>6, <1>7, Zenon
<1>9. Each(S, st, Missing) = f[n]
    BY <1>7, Zenon DEF Each
<1>10. \A k \in 0..n : f[k] \in X
    <2> DEFINE A == {k \in 0..n : f[k] \in X}
    <2> HIDE DEF X, n
    <2>1. 0 \in A
        BY <1>1, <1>8
    <2>2. ASSUME NEW k \in 0..(n - 1), k \in A PROVE k + 1 \in A
        <3>1. k + 1 \in 1..n /\ (k + 1) - 1 = k /\ k + 1 \in 0..n /\ k + 1 # 0 /\ f[k] \in X
            BY <1>1, <2>2
        <3>2. f[k + 1] = IF k + 1 \in S THEN Missing(f[k], k + 1) ELSE f[k]
            BY <1>8, <3>1
        <3>3. f[k + 1] \in X
            BY <1>2, <3>1, <3>2
        <3> QED BY <3>1, <3>3
    <2> HIDE DEF A
    <2>3. \A k \in 0..n : k \in A
        BY <1>1, <2>1, <2>2, Upward
    <2> QED BY <2>3 DEF A
<1>11. f[0] = st
    BY <1>1, <1>8
<1>12. ASSUME NEW k \in 1..n PROVE f[k] = IF k \in S THEN Missing(f[k - 1], k) ELSE f[k - 1]
    <2>1. k \in 0..n /\ k # 0
        BY <1>1
    <2> QED BY <1>8, <2>1
<1> QED BY <1>9, <1>10, <1>11, <1>12 DEF MissingRun

LEMMA MissingOnes ==
    ASSUME NEW st \in States, NEW S
    PROVE  Sheds(st, Each(S, st, Missing))
<1>1. PICK f : MissingRun(f, S, st)
    BY MissingSteps
<1>2. SourceCount \in 0..SourceCount
    BY VersionFacts
<1> QED BY <1>1, <1>2 DEF MissingRun

\* The rebuilt list is what is stored, whatever it was.
LEMMA RebuildGood ==
    ASSUME NEW st \in States
    PROVE  Rebuild(st) \in Goods /\ Rebuild(st).active = st.active
<1> DEFINE asked == Each(st.active, st, Missing)
<1>1. Sheds(st, asked)
    BY MissingOnes
<1> HIDE DEF asked
<1>2. asked \in States /\ asked.active = st.active
    BY <1>1 DEF Sheds
<1>3. CASE st.active = {}
    <2>1. PICK z : z = [st EXCEPT !.merge = NoRows, !.merged = NoRows]
        OBVIOUS
    <2>2. NoRows \in RowTables /\ NoRows \in MergeTables
        BY NoRowsFacts DEF RowTables, MergeTables
    <2>3. z \in States /\ z.active = {}
        BY <1>3, <2>1, <2>2 DEF States
    <2>4. Shown(z)
        BY <2>3 DEF Shown
    <2>5. z = Rebuild(st)
        BY <1>3, <2>1 DEF Rebuild
    <2> QED BY <1>3, <2>3, <2>4, <2>5 DEF Goods
<1>4. CASE st.active # {} /\ Mergeable(asked) = {}
    <2>1. Rebuild(st) = asked
        BY <1>4 DEF Rebuild, asked
    <2>2. Shown(asked)
        BY <1>4 DEF Shown, Mergeable
    <2> QED BY <1>2, <2>1, <2>2 DEF Goods
<1>5. CASE st.active # {} /\ Mergeable(asked) # {}
    <2>1. PICK m : m = Restrict(asked.rows, Mergeable(asked))
        OBVIOUS
    <2>2. PICK z : z = [asked EXCEPT !.merge = m]
        OBVIOUS
    <2>3. Rebuild(st) = z
        BY <1>5, <2>1, <2>2 DEF Rebuild, asked
    <2>4. DOMAIN m = Mergeable(asked) /\ \A s \in DOMAIN m : m[s] = asked.rows[s]
        BY <2>1 DEF Restrict
    <2>5. asked.rows \in RowTables
        BY <1>2 DEF States
    <2>6. Mergeable(asked) \in SUBSET Sources /\ \A s \in Mergeable(asked) : asked.rows[s] \in Versions
        <3>1. \A s \in DOMAIN asked.rows : s \in Sources /\ asked.rows[s] \in 0..MaxVersion
            BY <2>5, TableFacts DEF RowTables
        <3> QED BY <3>1, VersionFacts DEF Mergeable, Has
    <2>7. m \in MergeTables
        <3>1. m \in [Mergeable(asked) -> Versions]
            BY <2>1, <2>4, <2>6 DEF Restrict
        <3> QED BY <2>6, <3>1 DEF MergeTables, Tables
    <2>8. z \in States /\ z.active = asked.active /\ z.rows = asked.rows /\ z.merge = m
        BY <1>2, <2>2, <2>7 DEF States
    <2>9. m # NoRows
        BY <1>5, <2>4, NoRowsFacts
    <2>10. Shown(z)
        BY <2>4, <2>8, <2>9 DEF Shown, Mergeable, Has
    <2> QED BY <1>2, <2>3, <2>8, <2>10 DEF Goods
<1> QED BY <1>3, <1>4, <1>5

LEMMA StoreGood ==
    ASSUME NEW st \in Goods, NEW s \in Sources, NEW v \in 0..MaxVersion
    PROVE  Store(st, s, v) \in Goods
<1>1. st \in States /\ Shown(st)
    BY DEF Goods
<1>2. PICK t : t = Touch(st, s)
    OBVIOUS
<1>3. Sheds(st, t) /\ t \in States /\ t.rows = st.rows
    BY <1>1, <1>2, TouchSheds DEF Sheds
<1>4. PICK r : r = Put(t.rows, s, v)
    OBVIOUS
<1>5. r \in RowTables
    <2>1. t.rows \in RowTables
        BY <1>3 DEF States
    <2> QED BY <1>4, <2>1, TableFacts DEF RowTables
<1>6. PICK z : z = [t EXCEPT !.rows = r]
    OBVIOUS
<1>7. z \in States /\ z.active = t.active /\ z.merge = t.merge /\ z.merged = t.merged /\ z.rows = r
    BY <1>3, <1>5, <1>6 DEF States
<1>8. Store(st, s, v) = IF s \in st.active THEN Rebuild(z) ELSE z
    BY <1>2, <1>4, <1>6 DEF Store
<1>9. ASSUME s \notin st.active PROVE Shown(z)
    <2>1. DOMAIN r = DOMAIN t.rows \cup {s} /\ \A u \in DOMAIN r : u # s => r[u] = t.rows[u]
        BY <1>4 DEF Put
    <2>2. z.active = st.active /\ z.merge = st.merge /\ z.merged = st.merged /\ z.rows = r /\ t.rows = st.rows
        BY <1>3, <1>7 DEF Sheds
    <2> QED BY <1>1, <1>9, <2>1, <2>2 DEF Shown, Has
<1> QED BY <1>7, <1>8, <1>9, RebuildGood DEF Goods

LEMMA DropPreviewTyped ==
    ASSUME NEW st \in States
    PROVE  DropPreview(st) \in States /\ DropPreview(st).active = st.active
<1>1. NoRows \in RowTables /\ NoRows \in MergeTables
    BY NoRowsFacts DEF RowTables, MergeTables
<1>2. PICK z : z = [st EXCEPT !.preview = FALSE, !.merge = NoRows, !.merged = NoRows]
    OBVIOUS
<1>3. z \in States /\ z.active = st.active
    BY <1>1, <1>2 DEF States
<1> QED BY <1>2, <1>3 DEF DropPreview

LEMMA RevalidateSheds ==
    ASSUME NEW st \in States, NEW s \in Sources, NEW etag \in 0..MaxVersion
    PROVE  Sheds(st, Revalidate(st, s, etag))
<1>1. CASE s \in st.present
    <2>1. "check" \in {"disk", "plugin", "check"} /\ "check" \in {"disk", "plugin", "check", "prepare"} /\ FALSE \in BOOLEAN
        OBVIOUS
    <2>2. Sheds(st, Watch(st, "check", s, NotYet, FALSE))
        BY <2>1, NotYetFacts, WatchSheds
    <2> QED BY <1>1, <2>2 DEF Revalidate
<1>2. CASE s \notin st.present /\ s \in Linked
    <2>1. PICK cold : cold = [st EXCEPT !.http = TRUE, !.loading = @ \cup {s}]
        OBVIOUS
    <2>2. cold \in States /\ cold.active = st.active /\ cold.merge = st.merge /\ cold.merged = st.merged /\ cold.rows = st.rows
        BY <2>1 DEF States
    <2>3. Sheds(st, cold) /\ Sheds(st, st)
        BY <2>2, QuietSheds
    <2>4. Sheds(st, LoadFeed(cold, s, etag)) /\ Sheds(st, LoadFeed(st, s, etag))
        BY <2>2, <2>3, LoadFeedSheds, ShedsTwice
    <2>5. Revalidate(st, s, etag) = LoadFeed(IF Has(st, s) THEN st ELSE cold, s, etag)
        BY <1>2, <2>1 DEF Revalidate
    <2> QED BY <2>4, <2>5
<1>3. CASE s \notin st.present /\ s \notin Linked
    <2>1. Revalidate(st, s, etag) = st
        BY <1>3 DEF Revalidate
    <2> QED BY <2>1, QuietSheds
<1> QED BY <1>1, <1>2, <1>3

LEMMA RefreshSheds ==
    ASSUME NEW st \in States, NEW s \in Sources
    PROVE  Sheds(st, RefreshSource(st, s))
<1>1. PICK f : f = Forget(st, s)
    OBVIOUS
<1>2. Sheds(st, f) /\ f \in States
    BY <1>1, ForgetSheds DEF Sheds
<1>3. PICK h, d, q : h = [f.sha EXCEPT ![s] = None] /\ d = [f.disk EXCEPT ![s] = None]
                     /\ q = Only(f.queue, Sources \ {s})
    OBVIOUS
<1>4. h \in Shas /\ d \in Disks
    BY <1>2, <1>3, VersionFacts DEF States, Shas, Disks
<1>5. q \in Queues
    <2>1. f.queue \in Seq(Sources) /\ IsInjective(f.queue)
        BY <1>2 DEF States, Queues
    <2> QED BY <1>3, <2>1, OnlyFacts DEF Queues
<1>6. PICK z : z = [f EXCEPT !.sha = h, !.disk = d, !.loading = @ \ {s}, !.queue = q]
    OBVIOUS
<1>7. z \in States /\ z.active = f.active /\ z.merge = f.merge /\ z.merged = f.merged /\ z.rows = f.rows
    BY <1>2, <1>4, <1>5, <1>6 DEF States
<1>8. Sheds(st, z)
    BY <1>2, <1>7, QuietSheds, ShedsTwice
<1>9. z = [f EXCEPT !.sha[s] = None, !.disk[s] = None, !.loading = @ \ {s}, !.queue = Only(@, Sources \ {s})]
    BY <1>2, <1>3, <1>6 DEF States
<1>10. RefreshSource(st, s) = IF s \in st.active THEN Request(z, s) ELSE z
    BY <1>1, <1>9 DEF RefreshSource
<1>11. Sheds(st, Request(z, s))
    BY <1>7, <1>8, RequestSheds, ShedsTwice
<1> QED BY <1>8, <1>10, <1>11

\* The sources that are shown are loaded anew, one by one.
RefreshedRun(f, S, st) ==
    /\ f[0] = st /\ Each(S, st, RefreshSource) = f[SourceCount]
    /\ \A k \in 0..SourceCount : Sheds(st, f[k])
    /\ \A k \in 1..SourceCount : f[k] = IF k \in S THEN RefreshSource(f[k - 1], k) ELSE f[k - 1]
LEMMA RefreshedSteps ==
    ASSUME NEW st \in States, NEW S
    PROVE  \E f : RefreshedRun(f, S, st)
<1> DEFINE n == SourceCount
           X == {z \in States : Sheds(st, z)}
           Is(f) == f = [k \in 0..n |-> IF k = 0 THEN st ELSE
                            IF k \in S THEN RefreshSource(f[k - 1], k) ELSE f[k - 1]]
           step == [kx \in Turns(n, X) |-> RefreshSource(kx[2], kx[1])]
<1>1. n \in Nat /\ st \in X /\ \A k \in 1..n : k \in Sources
    BY VersionFacts, QuietSheds DEF Sources
<1>2. ASSUME NEW z \in X, NEW k \in 1..n PROVE RefreshSource(z, k) \in X
    <2>1. PICK y : y = RefreshSource(z, k)
        OBVIOUS
    <2>2. Sheds(z, y)
        BY <1>1, <2>1, RefreshSheds
    <2>3. Sheds(st, y)
        BY <2>2, ShedsTwice
    <2> QED BY <2>1, <2>3 DEF Sheds
<1>3. step \in [Turns(n, X) -> X]
    <2> HIDE DEF X, n
    <2>1. \A kx \in Turns(n, X) : kx[1] \in 1..n /\ kx[2] \in X
        BY DEF Turns
    <2> QED BY <1>2, <2>1
<1>4. PICK g \in [0..n -> X] : g[0] = st /\ \A k \in 1..n : g[k] = IF k \in S THEN step[<<k, g[k - 1]>>] ELSE g[k - 1]
    <2> HIDE DEF X, n, step
    <2>1. PICK g : Swept(g, n, S, X, st, step)
        BY <1>1, <1>3, EachSteps
    <2> QED BY <2>1 DEF Swept
<1>5. ASSUME NEW k \in 1..n
      PROVE  k - 1 \in 0..n /\ g[k] = IF k \in S THEN RefreshSource(g[k - 1], k) ELSE g[k - 1]
    <2> HIDE DEF X, n
    <2>1. k - 1 \in 0..n /\ g[k - 1] \in X /\ <<k, g[k - 1]>> \in Turns(n, X)
        BY <1>1, <1>4 DEF Turns
    <2>2. step[<<k, g[k - 1]>>] = RefreshSource(g[k - 1], k)
        BY <2>1
    <2> HIDE DEF step
    <2> QED BY <1>4, <2>1, <2>2
<1>6. Is(g)
    <2> HIDE DEF X, step, n
    <2> QED BY <1>1, <1>4, <1>5
<1>7. PICK f : f = CHOOSE h : Is(h)
    OBVIOUS
<1>8. Is(f)
    BY <1>6, <1>7, Zenon
<1>9. Each(S, st, RefreshSource) = f[n]
    BY <1>7, Zenon DEF Each
<1>10. \A k \in 0..n : f[k] \in X
    <2> DEFINE A == {k \in 0..n : f[k] \in X}
    <2> HIDE DEF X, n
    <2>1. 0 \in A
        BY <1>1, <1>8
    <2>2. ASSUME NEW k \in 0..(n - 1), k \in A PROVE k + 1 \in A
        <3>1. k + 1 \in 1..n /\ (k + 1) - 1 = k /\ k + 1 \in 0..n /\ k + 1 # 0 /\ f[k] \in X
            BY <1>1, <2>2
        <3>2. f[k + 1] = IF k + 1 \in S THEN RefreshSource(f[k], k + 1) ELSE f[k]
            BY <1>8, <3>1
        <3>3. f[k + 1] \in X
            BY <1>2, <3>1, <3>2
        <3> QED BY <3>1, <3>3
    <2> HIDE DEF A
    <2>3. \A k \in 0..n : k \in A
        BY <1>1, <2>1, <2>2, Upward
    <2> QED BY <2>3 DEF A
<1>11. f[0] = st
    BY <1>1, <1>8
<1>12. ASSUME NEW k \in 1..n PROVE f[k] = IF k \in S THEN RefreshSource(f[k - 1], k) ELSE f[k - 1]
    <2>1. k \in 0..n /\ k # 0
        BY <1>1
    <2> QED BY <1>8, <2>1
<1> QED BY <1>9, <1>10, <1>11, <1>12 DEF RefreshedRun

LEMMA RefreshedOnes ==
    ASSUME NEW st \in States, NEW S
    PROVE  Sheds(st, Each(S, st, RefreshSource))
<1>1. PICK f : RefreshedRun(f, S, st)
    BY RefreshedSteps
<1>2. SourceCount \in 0..SourceCount
    BY VersionFacts
<1> QED BY <1>1, <1>2 DEF RefreshedRun

\* The stale sources are checked, one by one.
StaleRun(f, S, st) ==
    /\ f[0] = st /\ Each(S, st, LAMBDA y, s : Revalidate(y, s, None)) = f[SourceCount]
    /\ \A k \in 0..SourceCount : Sheds(st, f[k])
    /\ \A k \in 1..SourceCount : f[k] = IF k \in S THEN Revalidate(f[k - 1], k, None) ELSE f[k - 1]
LEMMA StaleSteps ==
    ASSUME NEW st \in States, NEW S
    PROVE  \E f : StaleRun(f, S, st)
<1> DEFINE n == SourceCount
           X == {z \in States : Sheds(st, z)}
           Is(f) == f = [k \in 0..n |-> IF k = 0 THEN st ELSE
                            IF k \in S THEN Revalidate(f[k - 1], k, None) ELSE f[k - 1]]
           step == [kx \in Turns(n, X) |-> Revalidate(kx[2], kx[1], None)]
<1>1. n \in Nat /\ st \in X /\ \A k \in 1..n : k \in Sources
    BY VersionFacts, QuietSheds DEF Sources
<1>2. ASSUME NEW z \in X, NEW k \in 1..n PROVE Revalidate(z, k, None) \in X
    <2>1. PICK y : y = Revalidate(z, k, None)
        OBVIOUS
    <2>2. Sheds(z, y)
        BY <1>1, <2>1, RevalidateSheds, VersionFacts
    <2>3. Sheds(st, y)
        BY <2>2, ShedsTwice
    <2> QED BY <2>1, <2>3 DEF Sheds
<1>3. step \in [Turns(n, X) -> X]
    <2> HIDE DEF X, n
    <2>1. \A kx \in Turns(n, X) : kx[1] \in 1..n /\ kx[2] \in X
        BY DEF Turns
    <2> QED BY <1>2, <2>1
<1>4. PICK g \in [0..n -> X] : g[0] = st /\ \A k \in 1..n : g[k] = IF k \in S THEN step[<<k, g[k - 1]>>] ELSE g[k - 1]
    <2> HIDE DEF X, n, step
    <2>1. PICK g : Swept(g, n, S, X, st, step)
        BY <1>1, <1>3, EachSteps
    <2> QED BY <2>1 DEF Swept
<1>5. ASSUME NEW k \in 1..n
      PROVE  k - 1 \in 0..n /\ g[k] = IF k \in S THEN Revalidate(g[k - 1], k, None) ELSE g[k - 1]
    <2> HIDE DEF X, n
    <2>1. k - 1 \in 0..n /\ g[k - 1] \in X /\ <<k, g[k - 1]>> \in Turns(n, X)
        BY <1>1, <1>4 DEF Turns
    <2>2. step[<<k, g[k - 1]>>] = Revalidate(g[k - 1], k, None)
        BY <2>1
    <2> HIDE DEF step
    <2> QED BY <1>4, <2>1, <2>2
<1>6. Is(g)
    <2> HIDE DEF X, step, n
    <2> QED BY <1>1, <1>4, <1>5
<1>7. PICK f : f = CHOOSE h : Is(h)
    OBVIOUS
<1>8. Is(f)
    BY <1>6, <1>7, Zenon
<1>9. Each(S, st, LAMBDA y, s : Revalidate(y, s, None)) = f[n]
    BY <1>7, Zenon DEF Each
<1>10. \A k \in 0..n : f[k] \in X
    <2> DEFINE A == {k \in 0..n : f[k] \in X}
    <2> HIDE DEF X, n
    <2>1. 0 \in A
        BY <1>1, <1>8
    <2>2. ASSUME NEW k \in 0..(n - 1), k \in A PROVE k + 1 \in A
        <3>1. k + 1 \in 1..n /\ (k + 1) - 1 = k /\ k + 1 \in 0..n /\ k + 1 # 0 /\ f[k] \in X
            BY <1>1, <2>2
        <3>2. f[k + 1] = IF k + 1 \in S THEN Revalidate(f[k], k + 1, None) ELSE f[k]
            BY <1>8, <3>1
        <3>3. f[k + 1] \in X
            BY <1>2, <3>1, <3>2
        <3> QED BY <3>1, <3>3
    <2> HIDE DEF A
    <2>3. \A k \in 0..n : k \in A
        BY <1>1, <2>1, <2>2, Upward
    <2> QED BY <2>3 DEF A
<1>11. f[0] = st
    BY <1>1, <1>8
<1>12. ASSUME NEW k \in 1..n PROVE f[k] = IF k \in S THEN Revalidate(f[k - 1], k, None) ELSE f[k - 1]
    <2>1. k \in 0..n /\ k # 0
        BY <1>1
    <2> QED BY <1>8, <2>1
<1> QED BY <1>9, <1>10, <1>11, <1>12 DEF StaleRun

LEMMA StaleOnes ==
    ASSUME NEW st \in States, NEW S
    PROVE  Sheds(st, Each(S, st, LAMBDA y, s : Revalidate(y, s, None)))
<1>1. PICK f : StaleRun(f, S, st)
    BY StaleSteps
<1>2. SourceCount \in 0..SourceCount
    BY VersionFacts
<1> QED BY <1>1, <1>2 DEF StaleRun

LEMMA SelectAllGood ==
    ASSUME NEW st \in Goods
    PROVE  SelectAll(st) \in Goods
<1>1. PICK selected : selected = enabled' \cap (st.present \cup (Sources \ Plugins))
    OBVIOUS
<1>2. st \in States
    BY DEF Goods
<1>3. selected \in SUBSET Sources
    BY <1>1, <1>2, SourceAssumption DEF States
<1>4. PICK z : z = [st EXCEPT !.active = selected]
    OBVIOUS
<1>5. z \in States
    BY <1>2, <1>3, <1>4 DEF States
<1>6. SelectAll(st) = IF selected = st.active THEN st ELSE Rebuild(z)
    BY <1>1, <1>4 DEF SelectAll
<1> QED BY <1>5, <1>6, RebuildGood

LEMMA EnsureActiveGood ==
    ASSUME NEW st \in Goods
    PROVE  EnsureActive(st) \in Goods
<1>1. st \in States
    BY DEF Goods
<1>2. EnsureActive(st) \in {st, Rebuild(st)}
    BY Zenon DEF EnsureActive
<1> QED BY <1>1, <1>2, RebuildGood

LEMMA DetachSheds ==
    ASSUME NEW st \in States
    PROVE  Sheds(st, Detach(st))
<1>1. PICK h \in BOOLEAN : h = (st.http /\ st.loading = {})
    OBVIOUS
<1>2. PICK z : z = [st EXCEPT !.tasks = EmptyBag, !.loading = {}, !.http = h]
    OBVIOUS
<1>3. z \in States /\ z.active = st.active /\ z.merge = st.merge /\ z.merged = st.merged /\ z.rows = st.rows
    BY <1>2, NoTasksFacts DEF States
<1>4. z = Detach(st)
    BY <1>1, <1>2, Zenon DEF Detach
<1> QED BY <1>3, <1>4, QuietSheds

LEMMA FeedEndsSheds ==
    ASSUME NEW st \in States
    PROVE  Sheds(st, FeedEnds(st)) /\ Sheds(st, [st EXCEPT !.feed = NoFeed])
<1>1. NoFeed \in FeedStates
    BY DEF FeedStates
<1>2. PICK y, z : y = [st EXCEPT !.http = FALSE, !.feed = NoFeed] /\ z = [st EXCEPT !.feed = NoFeed]
    OBVIOUS
<1>3. y \in States /\ y.active = st.active /\ y.merge = st.merge /\ y.merged = st.merged /\ y.rows = st.rows
    BY <1>1, <1>2 DEF States
<1>4. z \in States /\ z.active = st.active /\ z.merge = st.merge /\ z.merged = st.merged /\ z.rows = st.rows
    BY <1>1, <1>2 DEF States
<1> QED BY <1>2, <1>3, <1>4, QuietSheds DEF FeedEnds

\* A load that failed takes the first rows back: only those of what is shown.
LEMMA FailedGood ==
    ASSUME NEW st \in Goods, NEW s \in Sources, st.preview => s \in st.active
    PROVE  Failed(st, s) \in Goods
<1>1. st \in States
    BY DEF Goods
<1>2. PICK L \in SUBSET Sources : L = st.loading \ {s}
    BY <1>1 DEF States
<1>3. PICK z : z = [st EXCEPT !.loading = L]
    OBVIOUS
<1>4. Sheds(st, z) /\ z \in States /\ z \in Goods
    <2>1. Sheds(st, z)
        BY <1>1, <1>3, LoadingSheds
    <2> QED BY <2>1, ShedsKeeps DEF Sheds
<1>5. z.preview = st.preview
    BY <1>1, <1>3 DEF States
<1>6. DropPreview(z) \in States
    BY <1>4, DropPreviewTyped
<1>7. Failed(st, s) = IF s \in st.active THEN Rebuild(DropPreview(z)) ELSE DropPreview(z)
    BY <1>2, <1>3 DEF Failed
<1>8. CASE s \in st.active
    BY <1>6, <1>7, <1>8, RebuildGood
<1>9. CASE s \notin st.active
    <2>1. ~z.preview
        BY <1>5, <1>9
    <2>2. DropPreview(z) = z
        BY <2>1 DEF DropPreview
    <2> QED BY <1>4, <1>7, <1>9, <2>2
<1> QED BY <1>8, <1>9
----------------------------------------------------------------------------
(* The steps *)
LEMMA InvInit == Init => CatalogInv
<1> SUFFICES ASSUME Init PROVE CatalogInv
    OBVIOUS
<1>1. NoRows \in RowTables /\ NoRows \in MergeTables
    BY NoRowsFacts DEF RowTables, MergeTables
<1>2. << >> \in Queues /\ NoFeed \in FeedStates
    BY DEF Queues, IsInjective, FeedStates
<1>3. stamp \in Stamps /\ sha \in Shas /\ disk \in Disks /\ server \in [Sources -> Versions]
    <2>1. None \in 0..Hollow /\ 1 \in 0..Hollow /\ Hollow \in 0..Hollow /\ None \in 0..MaxVersion /\ 1 \in Versions
        BY VersionFacts DEF None
    <2>2. PICK V : V = {None, 1} \cup (IF "hollow payload" \in Faults THEN {Hollow} ELSE {})
        OBVIOUS
    <2>3. V \subseteq 0..Hollow
        BY <2>1, <2>2
    <2>4. disk \in [Sources -> V]
        BY <2>2 DEF Init
    <2>5. disk \in Disks
        BY <2>3, <2>4 DEF Disks
    <2> QED BY <2>1, <2>5 DEF Init, Stamps, Shas
<1>4. State \in States
    BY <1>1, <1>2, <1>3, NoTasksFacts DEF Init, State, States
<1>5. Shown(State)
    BY DEF Init, State, Shown
<1>6. 0 \in 0..MaxClicks /\ 0 \in 0..MaxTicks
    BY SourceAssumption
<1> QED BY <1>3, <1>4, <1>5, <1>6 DEF CatalogInv, Goods, Init

\* What the invariant says, by part.
LEMMA StateFacts ==
    ASSUME CatalogInv
    PROVE  /\ State \in Goods /\ State \in States /\ Sheds(State, State)
           /\ enabled \subseteq Sources /\ server \in [Sources -> Versions]
           /\ present \in SUBSET Plugins /\ disk \in Disks /\ active \in SUBSET Sources
           /\ rows \in RowTables /\ stamp \in Stamps /\ sha \in Shas /\ loading \in SUBSET Sources
           /\ tasks \in TaskBags /\ merge \in MergeTables /\ merged \in RowTables
           /\ preview \in BOOLEAN
<1>1. State \in Goods /\ State \in States /\ enabled \subseteq Sources /\ server \in [Sources -> Versions]
    BY DEF CatalogInv, Goods
<1>2. Sheds(State, State)
    BY <1>1, QuietSheds
<1>3. /\ State.present \in SUBSET Plugins /\ State.disk \in Disks /\ State.active \in SUBSET Sources
      /\ State.rows \in RowTables /\ State.stamp \in Stamps /\ State.sha \in Shas
      /\ State.loading \in SUBSET Sources /\ State.tasks \in TaskBags
      /\ State.merge \in MergeTables /\ State.merged \in RowTables /\ State.preview \in BOOLEAN
    BY <1>1 DEF States
<1> QED BY <1>1, <1>2, <1>3 DEF State

LEMMA BecomeKeeps ==
    ASSUME NEW z \in Goods, Become(z)
    PROVE  State' \in Goods
<1>1. z \in States
    BY DEF Goods
<1>2. z = State'
    BY <1>1 DEF States, State, Become
<1> QED BY <1>2

\* A handler that changes nothing outside of the record.
LEMMA OutsideKeeps ==
    ASSUME CatalogInv, NEW z \in Goods, Become(z), Outside
    PROVE  CatalogInv'
<1>1. State' \in Goods
    BY BecomeKeeps
<1> QED BY <1>1 DEF CatalogInv, Outside

LEMMA ClickKeeps ==
    ASSUME CatalogInv, NEW z \in Goods, Become(z), Click, enabled' \subseteq Sources,
           UNCHANGED <<server, ticks>>, removing' \in Plugins \cup {None}
    PROVE  CatalogInv'
<1>1. State' \in Goods
    BY BecomeKeeps
<1>2. clicks' \in 0..MaxClicks
    BY SourceAssumption DEF CatalogInv, Click
<1> QED BY <1>1, <1>2 DEF CatalogInv

LEMMA SingleFields ==
    ASSUME NEW st \in States
    PROVE  /\ \A d \in Disks : Sheds(st, [st EXCEPT !.disk = d])
           /\ \A h \in Shas : Sheds(st, [st EXCEPT !.sha = h])
           /\ \A x \in Stamps : Sheds(st, [st EXCEPT !.stamp = x])
           /\ \A p \in SUBSET Plugins : Sheds(st, [st EXCEPT !.present = p])
<1>1. ASSUME NEW d \in Disks PROVE Sheds(st, [st EXCEPT !.disk = d])
    <2>1. PICK z : z = [st EXCEPT !.disk = d]
        OBVIOUS
    <2>2. z \in States /\ z.active = st.active /\ z.merge = st.merge /\ z.merged = st.merged /\ z.rows = st.rows
        BY <2>1 DEF States
    <2> QED BY <2>1, <2>2, QuietSheds
<1>2. ASSUME NEW h \in Shas PROVE Sheds(st, [st EXCEPT !.sha = h])
    <2>1. PICK z : z = [st EXCEPT !.sha = h]
        OBVIOUS
    <2>2. z \in States /\ z.active = st.active /\ z.merge = st.merge /\ z.merged = st.merged /\ z.rows = st.rows
        BY <2>1 DEF States
    <2> QED BY <2>1, <2>2, QuietSheds
<1>3. ASSUME NEW x \in Stamps PROVE Sheds(st, [st EXCEPT !.stamp = x])
    <2>1. PICK z : z = [st EXCEPT !.stamp = x]
        OBVIOUS
    <2>2. z \in States /\ z.active = st.active /\ z.merge = st.merge /\ z.merged = st.merged /\ z.rows = st.rows
        BY <2>1 DEF States
    <2> QED BY <2>1, <2>2, QuietSheds
<1>4. ASSUME NEW p \in SUBSET Plugins PROVE Sheds(st, [st EXCEPT !.present = p])
    <2>1. PICK z : z = [st EXCEPT !.present = p]
        OBVIOUS
    <2>2. z \in States /\ z.active = st.active /\ z.merge = st.merge /\ z.merged = st.merged /\ z.rows = st.rows
        BY <2>1 DEF States
    <2> QED BY <2>1, <2>2, QuietSheds
<1> QED BY <1>1, <1>2, <1>3, <1>4

\* One source's fingerprint, file or stamp.
LEMMA OneField ==
    ASSUME NEW st \in States, NEW s \in Sources
    PROVE  /\ \A v \in 0..MaxVersion : Sheds(st, [st EXCEPT !.sha[s] = v])
           /\ \A v \in 0..Hollow : Sheds(st, [st EXCEPT !.disk[s] = v])
           /\ Sheds(st, [st EXCEPT !.stamp[s] = "fresh"])
<1>1. st.sha \in Shas /\ st.disk \in Disks /\ st.stamp \in Stamps
    BY DEF States
<1>2. ASSUME NEW v \in 0..MaxVersion PROVE Sheds(st, [st EXCEPT !.sha[s] = v])
    <2>1. PICK h : h = [st.sha EXCEPT ![s] = v]
        OBVIOUS
    <2>2. h \in Shas
        BY <1>1, <2>1 DEF Shas
    <2>3. [st EXCEPT !.sha[s] = v] = [st EXCEPT !.sha = h]
        BY <2>1 DEF States
    <2> QED BY <2>2, <2>3, SingleFields
<1>3. ASSUME NEW v \in 0..Hollow PROVE Sheds(st, [st EXCEPT !.disk[s] = v])
    <2>1. PICK d : d = [st.disk EXCEPT ![s] = v]
        OBVIOUS
    <2>2. d \in Disks
        BY <1>1, <2>1 DEF Disks
    <2>3. [st EXCEPT !.disk[s] = v] = [st EXCEPT !.disk = d]
        BY <2>1 DEF States
    <2> QED BY <2>2, <2>3, SingleFields
<1>4. Sheds(st, [st EXCEPT !.stamp[s] = "fresh"])
    <2>1. PICK x : x = [st.stamp EXCEPT ![s] = "fresh"]
        OBVIOUS
    <2>2. x \in Stamps
        BY <1>1, <2>1 DEF Stamps
    <2>3. [st EXCEPT !.stamp[s] = "fresh"] = [st EXCEPT !.stamp = x]
        BY <2>1 DEF States
    <2> QED BY <2>2, <2>3, SingleFields
<1> QED BY <1>2, <1>3, <1>4
----------------------------------------------------------------------------
(* The user and time *)
LEMMA StartKeeps ==
    ASSUME CatalogInv, Start
    PROVE  CatalogInv'
<1>1. EnsureActive(SelectAll(State)) \in Goods
    BY StateFacts, SelectAllGood, EnsureActiveGood
<1>2. Outside /\ Become(EnsureActive(SelectAll(State)))
    BY DEF Start, Outside
<1> QED BY <1>1, <1>2, OutsideKeeps

LEMMA ToggleKeeps ==
    ASSUME CatalogInv, NEW s \in Sources, Toggle(s)
    PROVE  CatalogInv'
<1>1. SelectAll(State) \in Goods
    BY StateFacts, SelectAllGood
<1>2. enabled' \subseteq Sources
    BY StateFacts DEF Toggle
<1>3. removing' \in Plugins \cup {None}
    BY DEF CatalogInv, Toggle
<1>4. Become(SelectAll(State)) /\ Click /\ UNCHANGED <<server, ticks>>
    BY DEF Toggle
<1> QED BY <1>1, <1>2, <1>3, <1>4, ClickKeeps

LEMMA RefreshKeeps ==
    ASSUME CatalogInv, Refresh
    PROVE  CatalogInv'
<1>1. PICK z : Sheds(State, z) /\ Become(z)
    <2>1. CASE Become(Each(active, State, RefreshSource))
        <3>1. Sheds(State, Each(active, State, RefreshSource))
            BY StateFacts, RefreshedOnes
        <3> QED BY <2>1, <3>1
    <2>2. CASE \E s \in enabled \cap Listed : Become(RefreshSource(State, s))
        <3>1. PICK s \in enabled \cap Listed : Become(RefreshSource(State, s))
            BY <2>2
        <3>2. s \in Sources /\ State \in States
            BY StateFacts
        <3>3. Sheds(State, RefreshSource(State, s))
            BY <3>2, RefreshSheds
        <3> QED BY <3>1, <3>3
    <2> QED BY <2>1, <2>2 DEF Refresh
<1>2. z \in Goods
    BY <1>1, StateFacts, ShedsKeeps
<1>3. Click /\ UNCHANGED <<enabled, server, removing, ticks>>
    BY DEF Refresh
<1>4. enabled' \subseteq Sources /\ removing' \in Plugins \cup {None}
    BY <1>3 DEF CatalogInv
<1> QED BY <1>1, <1>2, <1>3, <1>4, ClickKeeps

LEMMA EditKeeps ==
    ASSUME CatalogInv, NEW s \in Sources, Edit(s)
    PROVE  CatalogInv'
<1>1. PICK f, w : f = Forget(State, s) /\ w = [f EXCEPT !.sha[s] = None]
    OBVIOUS
<1>2. Sheds(State, f) /\ f \in States
    BY <1>1, StateFacts, ForgetSheds DEF Sheds
<1>3. Sheds(f, w)
    BY <1>1, <1>2, OneField, VersionFacts
<1>4. w \in Goods /\ w \in States
    <2>1. Sheds(State, w)
        BY <1>2, <1>3, ShedsTwice
    <2> QED BY <2>1, StateFacts, ShedsKeeps DEF Sheds
<1>5. PICK z : z = IF s \in active THEN Rebuild(w) ELSE w
    OBVIOUS
<1>6. z \in Goods
    BY <1>4, <1>5, RebuildGood
<1>7. Become(z) /\ Click /\ UNCHANGED <<enabled, server, removing, ticks>>
    BY <1>1, <1>5 DEF Edit
<1>8. enabled' \subseteq Sources /\ removing' \in Plugins \cup {None}
    BY <1>7 DEF CatalogInv
<1> QED BY <1>6, <1>7, <1>8, ClickKeeps

LEMMA RequestLoadKeeps ==
    ASSUME CatalogInv, NEW s \in Sources, RequestLoad(s)
    PROVE  CatalogInv'
<1>1. Sheds(State, Request(State, s))
    BY StateFacts, RequestSheds
<1>2. Request(State, s) \in Goods
    BY <1>1, StateFacts, ShedsKeeps
<1>3. Become(Request(State, s)) /\ Click /\ UNCHANGED <<enabled, server, removing, ticks>>
    BY DEF RequestLoad
<1>4. enabled' \subseteq Sources /\ removing' \in Plugins \cup {None}
    BY <1>3 DEF CatalogInv
<1> QED BY <1>2, <1>3, <1>4, ClickKeeps

LEMMA RemovalBeginsKeeps ==
    ASSUME CatalogInv, NEW p \in Plugins, RemovalBegins(p)
    PROVE  CatalogInv'
<1>1. Sheds(State, Detach(State))
    BY StateFacts, DetachSheds
<1>2. Detach(State) \in Goods
    BY <1>1, StateFacts, ShedsKeeps
<1>3. Become(Detach(State)) /\ Click /\ UNCHANGED <<enabled, server, ticks>> /\ removing' = p
    BY DEF RemovalBegins
<1>4. enabled' \subseteq Sources /\ removing' \in Plugins \cup {None}
    BY <1>3 DEF CatalogInv
<1> QED BY <1>2, <1>3, <1>4, ClickKeeps

\* The plugins that are loaded are others, and the selection follows them.
LEMMA PluginsGood ==
    ASSUME NEW st \in Goods, NEW left \in SUBSET Plugins
    PROVE  EnsureActive(SelectAll([st EXCEPT !.present = left])) \in Goods
<1>1. PICK y : y = [st EXCEPT !.present = left]
    OBVIOUS
<1>2. Sheds(st, y)
    BY <1>1, SingleFields DEF Goods
<1>3. y \in Goods
    BY <1>2, ShedsKeeps
<1> QED BY <1>1, <1>3, SelectAllGood, EnsureActiveGood

LEMMA RemovalEndsKeeps ==
    ASSUME CatalogInv, RemovalEnds
    PROVE  CatalogInv'
<1>1. PICK refused \in {FALSE} \cup {"removal refused" \in Faults}, left \in {present, present \ {removing}} :
          Become(IF refused THEN State
                 ELSE EnsureActive(SelectAll([Detach(State) EXCEPT !.present = left])))
    BY DEF RemovalEnds
<1>2. Detach(State) \in Goods
    <2>1. Sheds(State, Detach(State))
        BY StateFacts, DetachSheds
    <2> QED BY <2>1, StateFacts, ShedsKeeps
<1>3. left \in SUBSET Plugins
    BY StateFacts
<1>4. PICK y : y = EnsureActive(SelectAll([Detach(State) EXCEPT !.present = left]))
    OBVIOUS
<1>5. y \in Goods
    BY <1>2, <1>3, <1>4, PluginsGood
<1>6. PICK z : z = IF refused THEN State ELSE y
    OBVIOUS
<1>7. z \in Goods
    BY <1>5, <1>6, StateFacts
<1>8. Become(z)
    BY <1>1, <1>4, <1>6
<1>9. State' \in Goods
    BY <1>7, <1>8, BecomeKeeps
<1> QED BY <1>9 DEF CatalogInv, RemovalEnds

LEMMA PluginInstalledKeeps ==
    ASSUME CatalogInv, NEW p \in Plugins, PluginInstalled(p)
    PROVE  CatalogInv'
<1>1. PICK u : u = IF p \in present THEN Detach(State) ELSE State
    OBVIOUS
<1>2. u \in Goods
    <2>1. Sheds(State, Detach(State))
        BY StateFacts, DetachSheds
    <2> QED BY <1>1, <2>1, StateFacts, ShedsKeeps
<1>3. PICK left : left = u.present \cup {p}
    OBVIOUS
<1>4. left \in SUBSET Plugins
    BY <1>2, <1>3 DEF Goods, States
<1>5. PICK z : z = EnsureActive(SelectAll([u EXCEPT !.present = left]))
    OBVIOUS
<1>6. z \in Goods
    BY <1>2, <1>4, <1>5, PluginsGood
<1>7. Become(z)
    BY <1>1, <1>3, <1>5 DEF PluginInstalled
<1>8. Click /\ UNCHANGED <<enabled, server, removing, ticks>>
    BY DEF PluginInstalled
<1>9. enabled' \subseteq Sources /\ removing' \in Plugins \cup {None}
    BY <1>8 DEF CatalogInv
<1> QED BY <1>6, <1>7, <1>8, <1>9, ClickKeeps

LEMMA PublishKeeps ==
    ASSUME CatalogInv, NEW s \in Sources, Publish(s)
    PROVE  CatalogInv'
<1>1. State' \in Goods
    BY StateFacts, BecomeKeeps DEF Publish
<1>2. server' \in [Sources -> Versions]
    <2>1. server[s] \in Versions /\ server[s] < MaxVersion
        BY StateFacts DEF Publish
    <2>2. server[s] + 1 \in Versions
        BY <2>1, VersionFacts
    <2> QED BY <2>2, StateFacts DEF Publish
<1>3. ticks' \in 0..MaxTicks
    BY SourceAssumption DEF CatalogInv, Publish
<1> QED BY <1>1, <1>2, <1>3 DEF CatalogInv, Publish

LEMMA ExpireKeeps ==
    ASSUME CatalogInv, NEW s \in Sources, Expire(s)
    PROVE  CatalogInv'
<1>1. PICK x : x = [stamp EXCEPT ![s] = "stale"]
    OBVIOUS
<1>2. x \in Stamps
    BY <1>1, StateFacts DEF Stamps
<1>3. Sheds(State, [State EXCEPT !.stamp = x])
    BY <1>2, StateFacts, SingleFields
<1>4. State' = [State EXCEPT !.stamp = x]
    BY <1>1 DEF State, Expire
<1>5. State' \in Goods
    BY <1>3, <1>4, StateFacts, ShedsKeeps
<1>6. ticks' \in 0..MaxTicks
    BY SourceAssumption DEF CatalogInv, Expire
<1> QED BY <1>5, <1>6 DEF CatalogInv, Expire

LEMMA RefreshStaleKeeps ==
    ASSUME CatalogInv, RefreshStale
    PROVE  CatalogInv'
<1>1. PICK z : z = Each(Stale, State, LAMBDA st, s : Revalidate(st, s, None))
    OBVIOUS
<1>2. Sheds(State, z)
    BY <1>1, StateFacts, StaleOnes
<1>3. z \in Goods
    BY <1>2, StateFacts, ShedsKeeps
<1>4. Become(z) /\ Outside
    BY <1>1 DEF RefreshStale
<1> QED BY <1>3, <1>4, OutsideKeeps

LEMMA StandsStill ==
    ASSUME CatalogInv, UNCHANGED vars
    PROVE  CatalogInv'
<1>1. State' = State
    BY DEF State, vars
<1> QED BY <1>1 DEF CatalogInv, vars
----------------------------------------------------------------------------
(* The feed loader and the workers *)
LEMMA FeedAnswersKeeps ==
    ASSUME CatalogInv, NEW s \in Sources, FeedAnswers(s)
    PROVE  CatalogInv'
<1>1. PICK v : v = server[s]
    OBVIOUS
<1>2. v \in Versions /\ v \in 0..MaxVersion /\ v \in 0..Hollow /\ v \in NotYet..Hollow /\ v \in Finds("prepare")
    <2>1. v \in Versions
        BY <1>1, StateFacts
    <2> QED BY <2>1, VersionFacts DEF Finds
<1>3. PICK e : e = FeedEnds(State)
    OBVIOUS
<1>4. Sheds(State, e) /\ e \in States
    <2>1. Sheds(State, e)
        BY <1>3, StateFacts, FeedEndsSheds
    <2> QED BY <2>1 DEF Sheds
<1>5. PICK saved : saved = [e EXCEPT !.disk[s] = v]
    OBVIOUS
<1>6. Sheds(State, saved) /\ saved \in States
    <2>1. Sheds(e, saved)
        BY <1>2, <1>4, <1>5, OneField
    <2>2. Sheds(State, saved)
        BY <1>4, <2>1, ShedsTwice
    <2> QED BY <2>2 DEF Sheds
<1>7. ASSUME NEW y \in States, Sheds(State, y) PROVE ProcessQueue(Touch(y, s)) \in Goods
    <2>1. PICK t : t = Touch(y, s)
        OBVIOUS
    <2>2. Sheds(State, t)
        BY <1>7, <2>1, TouchSheds, ShedsTwice
    <2>3. t \in States
        BY <2>2 DEF Sheds
    <2>4. Sheds(State, ProcessQueue(t))
        BY <2>2, <2>3, ProcessQueueSheds, ShedsTwice
    <2> QED BY <2>1, <2>4, StateFacts, ShedsKeeps
<1>8. PICK w : w = [saved EXCEPT !.sha[s] = v]
    OBVIOUS
<1>9. Sheds(State, w) /\ w \in States
    <2>1. Sheds(saved, w)
        BY <1>2, <1>6, <1>8, OneField
    <2>2. Sheds(State, w)
        BY <1>6, <2>1, ShedsTwice
    <2> QED BY <2>2 DEF Sheds
<1>10. Watch(w, "prepare", s, v, FALSE) \in Goods
    <2>1. "prepare" \in {"disk", "plugin", "check", "prepare"} /\ FALSE \in BOOLEAN
        OBVIOUS
    <2>2. Sheds(w, Watch(w, "prepare", s, v, FALSE))
        BY <1>2, <1>9, <2>1, WatchSheds
    <2>3. Sheds(State, Watch(w, "prepare", s, v, FALSE))
        BY <1>9, <2>2, ShedsTwice
    <2> QED BY <2>3, StateFacts, ShedsKeeps
<1>11. PICK z : z = IF feed.etag = v THEN ProcessQueue(Touch(e, s))
                    ELSE IF sha[s] = v /\ Has(State, s) THEN ProcessQueue(Touch(saved, s))
                    ELSE Watch(w, "prepare", s, v, FALSE)
    OBVIOUS
<1>12. z \in Goods
    BY <1>4, <1>6, <1>7, <1>10, <1>11
<1>13. Become(z) /\ Outside
    BY <1>1, <1>3, <1>5, <1>8, <1>11 DEF FeedAnswers
<1> QED BY <1>12, <1>13, OutsideKeeps

LEMMA FeedFailsKeeps ==
    ASSUME "failure of another" \notin Faults, CatalogInv, NEW s \in Sources, FeedFails(s)
    PROVE  CatalogInv'
<1>1. preview => s \in active
    BY DEF FeedFails
<1>2. PICK limit \in BOOLEAN : Become(IF limit THEN [State EXCEPT !.feed = NoFeed]
                                      ELSE ProcessQueue(Failed(FeedEnds(State), s)))
    BY DEF FeedFails
<1>3. PICK e : e = FeedEnds(State)
    OBVIOUS
<1>4. Sheds(State, e) /\ Sheds(State, [State EXCEPT !.feed = NoFeed])
    BY <1>3, StateFacts, FeedEndsSheds
<1>5. e \in Goods /\ [State EXCEPT !.feed = NoFeed] \in Goods
    BY <1>4, StateFacts, ShedsKeeps
<1>6. e.preview = preview /\ e.active = active
    BY <1>3 DEF FeedEnds, State
<1>7. PICK f : f = Failed(e, s)
    OBVIOUS
<1>8. f \in Goods
    BY <1>1, <1>5, <1>6, <1>7, FailedGood
<1>9. ProcessQueue(f) \in Goods
    <2>1. Sheds(f, ProcessQueue(f))
        BY <1>8, ProcessQueueSheds DEF Goods
    <2> QED BY <1>8, <2>1, ShedsKeeps
<1>10. PICK z : z = IF limit THEN [State EXCEPT !.feed = NoFeed] ELSE ProcessQueue(f)
    OBVIOUS
<1>11. z \in Goods
    BY <1>5, <1>9, <1>10
<1>12. Become(z)
    BY <1>2, <1>3, <1>7, <1>10
<1>13. Outside
    BY DEF FeedFails
<1> QED BY <1>11, <1>12, <1>13, OutsideKeeps

\* A worker ends, and is gone.
LEMMA TaskFacts ==
    ASSUME CatalogInv, NEW t \in DOMAIN tasks
    PROVE  /\ t \in GoodTasks /\ t \in Tasks /\ t.got \in Finds(t.kind) /\ t.got \in NotYet..Hollow
           /\ t.kind = "prepare" => t.got \in Versions
           /\ t.kind \in {"plugin", "check"} /\ t.got # NotYet => t.got \in 0..MaxVersion
           /\ t.kind = "disk" /\ t.got # NotYet => t.got \in 0..Hollow
           /\ Sheds(State, Without(t)) /\ Without(t) \in Goods /\ Without(t) \in States
<1>1. t \in GoodTasks
    BY StateFacts, BagFacts
<1>2. t \in Tasks /\ t.got \in Finds(t.kind) /\ t.got \in NotYet..Hollow
    BY <1>1 DEF GoodTasks, Tasks
<1>3. t.kind = "prepare" => t.got \in Versions
    BY <1>2 DEF Finds
<1>4. t.kind \in {"plugin", "check"} => t.got \in NotYet..MaxVersion
    BY <1>2 DEF Finds
<1>5. \A v \in NotYet..MaxVersion : v # NotYet => v \in 0..MaxVersion
    BY VersionFacts DEF NotYet
<1>6. \A v \in NotYet..Hollow : v # NotYet => v \in 0..Hollow
    BY VersionFacts DEF NotYet
<1>7. PICK b : b = tasks (-) One(t)
    OBVIOUS
<1>8. b \in TaskBags
    BY <1>7, StateFacts, BagFacts
<1>9. Without(t) = [State EXCEPT !.tasks = b]
    BY <1>7 DEF Without, State
<1>10. Sheds(State, Without(t))
    BY <1>8, <1>9, StateFacts, TasksSheds
<1>11. Without(t) \in Goods /\ Without(t) \in States
    BY <1>10, StateFacts, ShedsKeeps DEF Sheds
<1> QED BY <1>1, <1>2, <1>3, <1>4, <1>5, <1>6, <1>10, <1>11

\* One task takes the place of another.
LEMMA TaskChanged ==
    ASSUME CatalogInv, NEW t \in DOMAIN tasks, NEW u \in GoodTasks
    PROVE  Sheds(State, [State EXCEPT !.tasks = (@ (-) One(t)) (+) One(u)])
<1>1. PICK b, c : b = tasks (-) One(t) /\ c = b (+) One(u)
    OBVIOUS
<1>2. b \in TaskBags
    BY <1>1, StateFacts, BagFacts
<1>3. c \in TaskBags
    BY <1>1, <1>2, BagFacts
<1>4. [State EXCEPT !.tasks = c] = [State EXCEPT !.tasks = (@ (-) One(t)) (+) One(u)]
    BY <1>1 DEF State
<1> QED BY <1>3, <1>4, StateFacts, TasksSheds

LEMMA ResultSheds ==
    ASSUME CatalogInv, NEW t \in DOMAIN tasks, NEW v \in Finds(t.kind), v \in NotYet..Hollow
    PROVE  Sheds(State, Result(t, v))
<1>1. PICK u : u = [t EXCEPT !.got = v]
    OBVIOUS
<1>2. t \in Tasks
    BY TaskFacts
<1>3. u \in Tasks /\ u.kind = t.kind /\ u.got = v
    BY <1>1, <1>2 DEF Tasks
<1>4. u \in GoodTasks
    BY <1>3 DEF GoodTasks
<1> QED BY <1>1, <1>4, TaskChanged DEF Result

\* Workers that run prepare nothing.
LEMMA RunningFacts ==
    ASSUME CatalogInv, NEW s \in Sources, NEW t \in Running(s)
    PROVE  /\ t \in DOMAIN tasks /\ t.kind \in {"disk", "plugin", "check"}
           /\ t.kind = "disk" => \A v \in 0..Hollow : v \in Finds(t.kind) /\ v \in NotYet..Hollow
           /\ t.kind # "disk" => \A v \in 0..MaxVersion : v \in Finds(t.kind) /\ v \in NotYet..Hollow
<1>1. t \in DOMAIN tasks /\ t.got = NotYet
    BY DEF Running
<1>2. t \in Tasks /\ (t.kind = "prepare" => t.got \in Versions)
    BY <1>1, TaskFacts
<1>3. t.kind # "prepare"
    BY <1>1, <1>2, VersionFacts
<1>4. t.kind \in {"disk", "plugin", "check"}
    BY <1>2, <1>3 DEF Tasks
<1>5. /\ \A v \in 0..Hollow : v \in NotYet..Hollow
      /\ \A v \in 0..MaxVersion : v \in NotYet..MaxVersion /\ v \in NotYet..Hollow
    BY VersionFacts
<1> QED BY <1>1, <1>4, <1>5 DEF Finds

LEMMA DiskReadKeeps ==
    ASSUME CatalogInv, NEW s \in Sources, DiskRead(s)
    PROVE  CatalogInv'
<1>1. PICK t \in Running(s) : t.kind = "disk" /\ Become(Result(t, disk[s]))
    BY DEF DiskRead
<1>2. disk[s] \in 0..Hollow
    BY StateFacts DEF Disks
<1>3. t \in DOMAIN tasks /\ disk[s] \in Finds(t.kind) /\ disk[s] \in NotYet..Hollow
    BY <1>1, <1>2, RunningFacts
<1>4. Sheds(State, Result(t, disk[s]))
    BY <1>3, ResultSheds
<1>5. Result(t, disk[s]) \in Goods
    BY <1>4, StateFacts, ShedsKeeps
<1>6. Outside
    BY DEF DiskRead
<1> QED BY <1>1, <1>5, <1>6, OutsideKeeps

LEMMA PluginLoadsKeeps ==
    ASSUME CatalogInv, NEW s \in Sources, PluginLoads(s)
    PROVE  CatalogInv'
<1>1. PICK t \in Running(s) : t.kind # "disk" /\ Become([Result(t, server[s]) EXCEPT !.disk[s] = server[s]])
    BY DEF PluginLoads
<1>2. server[s] \in 0..MaxVersion /\ server[s] \in 0..Hollow
    BY StateFacts, VersionFacts
<1>3. t \in DOMAIN tasks /\ server[s] \in Finds(t.kind) /\ server[s] \in NotYet..Hollow
    BY <1>1, <1>2, RunningFacts
<1>4. PICK r : r = Result(t, server[s])
    OBVIOUS
<1>5. Sheds(State, r)
    BY <1>3, <1>4, ResultSheds
<1>6. r \in Goods /\ r \in States
    BY <1>5, StateFacts, ShedsKeeps DEF Sheds
<1>7. PICK z : z = [r EXCEPT !.disk[s] = server[s]]
    OBVIOUS
<1>8. Sheds(r, z)
    BY <1>2, <1>6, <1>7, OneField
<1>9. z \in Goods
    BY <1>6, <1>8, ShedsKeeps
<1>10. Become(z) /\ Outside
    BY <1>1, <1>4, <1>7 DEF PluginLoads
<1> QED BY <1>9, <1>10, OutsideKeeps

LEMMA PluginFailsKeeps ==
    ASSUME CatalogInv, NEW s \in Sources, PluginFails(s)
    PROVE  CatalogInv'
<1>1. PICK t \in Running(s) : /\ t.kind # "disk"
                              /\ \/ Become(Result(t, Etag(State, s)))
                                 \/ Become([Result(t, None) EXCEPT !.disk[s] = Hollow])
    BY DEF PluginFails
<1>2. t \in DOMAIN tasks /\ \A v \in 0..MaxVersion : v \in Finds(t.kind) /\ v \in NotYet..Hollow
    BY <1>1, RunningFacts
<1>3. Etag(State, s) \in 0..MaxVersion /\ None \in 0..MaxVersion /\ Hollow \in 0..Hollow
    BY StateFacts, EtagFacts, VersionFacts
<1>4. PICK a, b : a = Result(t, Etag(State, s)) /\ b = Result(t, None)
    OBVIOUS
<1>5. Sheds(State, a) /\ Sheds(State, b)
    BY <1>2, <1>3, <1>4, ResultSheds
<1>6. a \in Goods /\ b \in Goods /\ b \in States
    BY <1>5, StateFacts, ShedsKeeps DEF Sheds
<1>7. PICK c : c = [b EXCEPT !.disk[s] = Hollow]
    OBVIOUS
<1>8. Sheds(b, c)
    BY <1>3, <1>6, <1>7, OneField
<1>9. c \in Goods
    BY <1>6, <1>8, ShedsKeeps
<1>10. Outside /\ (Become(a) \/ Become(c))
    BY <1>1, <1>4, <1>7 DEF PluginFails
<1> QED BY <1>6, <1>9, <1>10, OutsideKeeps
----------------------------------------------------------------------------
(* The ends of workers *)
\* Rows that were found are stored with their fingerprint.
LEMMA FoundStored ==
    ASSUME NEW st \in Goods, NEW s \in Sources, NEW v \in 0..MaxVersion
    PROVE  Store([st EXCEPT !.sha[s] = v], s, v) \in Goods
<1>1. PICK w : w = [st EXCEPT !.sha[s] = v]
    OBVIOUS
<1>2. Sheds(st, w)
    BY <1>1, OneField DEF Goods
<1>3. w \in Goods
    BY <1>2, ShedsKeeps
<1> QED BY <1>1, <1>3, StoreGood

\* The load of a source ended without new rows, and the queue goes on.
LEMMA TouchedGood ==
    ASSUME NEW st \in Goods, NEW s \in Sources
    PROVE  ProcessQueue(Touch(st, s)) \in Goods
<1>1. PICK t : t = Touch(st, s)
    OBVIOUS
<1>2. st \in States
    BY DEF Goods
<1>3. Sheds(st, t) /\ t \in States
    BY <1>1, <1>2, TouchSheds DEF Sheds
<1>4. Sheds(st, ProcessQueue(t))
    BY <1>3, ProcessQueueSheds, ShedsTwice
<1> QED BY <1>1, <1>4, ShedsKeeps

LEMMA DiskLoadedKeeps ==
    ASSUME CatalogInv, NEW s \in Sources, DiskLoaded(s)
    PROVE  CatalogInv'
<1>1. PICK t \in Ended(s, "disk") :
          LET stored == Store([Without(t) EXCEPT !.sha[s] = t.got], s, t.got)
          IN  CASE t.got = None -> Become(FromNetwork(Without(t), s))
                [] t.got = Hollow -> Become(Without(t))
                [] OTHER -> \/ Become(stored)
                            \/ /\ s \notin stored.loading
                               /\ Become(Revalidate(stored, s, t.got))
                               /\ CutOff(stored.feed) => "request cut off" \in Faults
    BY DEF DiskLoaded
<1>2. t \in DOMAIN tasks /\ t.kind = "disk" /\ t.got # NotYet
    BY DEF Ended
<1>3. t.got \in 0..Hollow /\ Without(t) \in Goods /\ Without(t) \in States
    BY <1>2, TaskFacts
<1>4. Outside
    BY DEF DiskLoaded
<1>5. CASE t.got = None
    <2>1. Hollow # None
        BY VersionFacts
    <2>2. Become(FromNetwork(Without(t), s))
        BY <1>1, <1>5, <2>1
    <2>3. Sheds(Without(t), FromNetwork(Without(t), s))
        BY <1>3, FromNetworkSheds
    <2>4. FromNetwork(Without(t), s) \in Goods
        BY <1>3, <2>3, ShedsKeeps
    <2> QED BY <1>4, <2>2, <2>4, OutsideKeeps
<1>6. CASE t.got = Hollow
    <2>1. Hollow # None
        BY VersionFacts
    <2>2. Become(Without(t))
        BY <1>1, <1>6, <2>1
    <2> QED BY <1>3, <1>4, <2>2, OutsideKeeps
<1>7. CASE t.got # None /\ t.got # Hollow
    <2>1. t.got \in 0..MaxVersion
        BY <1>3, <1>7, VersionFacts
    <2>2. PICK y : y = Store([Without(t) EXCEPT !.sha[s] = t.got], s, t.got)
        OBVIOUS
    <2>3. y \in Goods /\ y \in States
        BY <1>3, <2>1, <2>2, FoundStored DEF Goods
    <2>4. Become(y) \/ Become(Revalidate(y, s, t.got))
        BY <1>1, <1>7, <2>2
    <2>5. Sheds(y, Revalidate(y, s, t.got))
        BY <2>1, <2>3, RevalidateSheds
    <2>6. Revalidate(y, s, t.got) \in Goods
        BY <2>3, <2>5, ShedsKeeps
    <2> QED BY <1>4, <2>3, <2>4, <2>6, OutsideKeeps
<1> QED BY <1>5, <1>6, <1>7

LEMMA PluginLoadedKeeps ==
    ASSUME CatalogInv, NEW s \in Sources, PluginLoaded(s)
    PROVE  CatalogInv'
<1>1. PICK t \in Ended(s, "plugin") :
          LET st == Without(t)
          IN  Become(
                IF Unchanged(t) \/ (GotRows(t) /\ sha[s] = t.got /\ Has(st, s))
                THEN ProcessQueue(Touch(st, s))
                ELSE IF GotRows(t) THEN Store([st EXCEPT !.sha[s] = t.got], s, t.got)
                ELSE IF s \in Linked THEN HttpLoad(st, s)
                ELSE Rebuild(DropPreview([st EXCEPT !.loading = @ \ {s}])))
    BY DEF PluginLoaded
<1>2. t \in DOMAIN tasks /\ t.kind = "plugin" /\ t.got # NotYet
    BY DEF Ended
<1>3. PICK st : st = Without(t)
    OBVIOUS
<1>4. t.got \in 0..MaxVersion /\ st \in Goods /\ st \in States
    BY <1>2, <1>3, TaskFacts
<1>5. Outside
    BY DEF PluginLoaded
<1>6. PICK a : a = ProcessQueue(Touch(st, s))
    OBVIOUS
<1>7. PICK b : b = Store([st EXCEPT !.sha[s] = t.got], s, t.got)
    OBVIOUS
<1>8. PICK c : c = HttpLoad(st, s)
    OBVIOUS
<1>9. PICK d : d = Rebuild(DropPreview([st EXCEPT !.loading = @ \ {s}]))
    OBVIOUS
<1>10. a \in Goods /\ b \in Goods
    BY <1>4, <1>6, <1>7, TouchedGood, FoundStored
<1>11. c \in Goods
    <2>1. Sheds(st, c)
        BY <1>4, <1>8, HttpLoadSheds
    <2> QED BY <1>4, <2>1, ShedsKeeps
<1>12. d \in Goods
    <2>1. PICK L \in SUBSET Sources : L = st.loading \ {s}
        BY <1>4 DEF States
    <2>2. PICK y : y = [st EXCEPT !.loading = L]
        OBVIOUS
    <2>3. Sheds(st, y)
        BY <1>4, <2>2, LoadingSheds
    <2>4. y \in States
        BY <2>3 DEF Sheds
    <2>5. DropPreview(y) \in States
        BY <2>4, DropPreviewTyped
    <2>6. d = Rebuild(DropPreview(y))
        BY <1>9, <2>1, <2>2
    <2> QED BY <2>5, <2>6, RebuildGood
<1>13. Become(IF Unchanged(t) \/ (GotRows(t) /\ sha[s] = t.got /\ Has(st, s)) THEN a
              ELSE IF GotRows(t) THEN b ELSE IF s \in Linked THEN c ELSE d)
    BY <1>1, <1>3, <1>6, <1>7, <1>8, <1>9
<1>14. PICK z : z = IF Unchanged(t) \/ (GotRows(t) /\ sha[s] = t.got /\ Has(st, s)) THEN a
                    ELSE IF GotRows(t) THEN b ELSE IF s \in Linked THEN c ELSE d
    OBVIOUS
<1>15. z \in Goods
    BY <1>10, <1>11, <1>12, <1>14
<1> QED BY <1>5, <1>13, <1>14, <1>15, OutsideKeeps

LEMMA PluginCheckedKeeps ==
    ASSUME CatalogInv, NEW s \in Sources, PluginChecked(s)
    PROVE  CatalogInv'
<1>1. PICK t \in Ended(s, "check") :
          LET st == Without(t)
          IN  Become(
                IF Unchanged(t) \/ (GotRows(t) /\ sha[s] = t.got)
                THEN [st EXCEPT !.stamp[s] = "fresh"]
                ELSE IF GotRows(t) THEN Store([st EXCEPT !.sha[s] = t.got], s, t.got)
                ELSE st)
    BY DEF PluginChecked
<1>2. t \in DOMAIN tasks /\ t.kind = "check" /\ t.got # NotYet
    BY DEF Ended
<1>3. PICK st : st = Without(t)
    OBVIOUS
<1>4. t.got \in 0..MaxVersion /\ st \in Goods /\ st \in States
    BY <1>2, <1>3, TaskFacts
<1>5. Outside
    BY DEF PluginChecked
<1>6. PICK a : a = [st EXCEPT !.stamp[s] = "fresh"]
    OBVIOUS
<1>7. PICK b : b = Store([st EXCEPT !.sha[s] = t.got], s, t.got)
    OBVIOUS
<1>8. b \in Goods
    BY <1>4, <1>7, FoundStored
<1>9. a \in Goods
    <2>1. Sheds(st, a)
        BY <1>4, <1>6, OneField
    <2> QED BY <1>4, <2>1, ShedsKeeps
<1>10. PICK z : z = IF Unchanged(t) \/ (GotRows(t) /\ sha[s] = t.got) THEN a ELSE IF GotRows(t) THEN b ELSE st
    OBVIOUS
<1>11. Become(z)
    BY <1>1, <1>3, <1>6, <1>7, <1>10
<1>12. z \in Goods
    BY <1>4, <1>8, <1>9, <1>10
<1> QED BY <1>5, <1>11, <1>12, OutsideKeeps

LEMMA PreparedKeeps ==
    ASSUME CatalogInv, NEW s \in Sources, Prepared(s)
    PROVE  CatalogInv'
<1>1. PICK t \in Ended(s, "prepare") : Become(ProcessQueue(Store(Without(t), s, t.got)))
    BY DEF Prepared
<1>2. t \in DOMAIN tasks /\ t.kind = "prepare"
    BY DEF Ended
<1>3. t.got \in 0..MaxVersion /\ Without(t) \in Goods
    BY <1>2, TaskFacts, VersionFacts
<1>4. PICK y : y = Store(Without(t), s, t.got)
    OBVIOUS
<1>5. y \in Goods
    BY <1>3, <1>4, StoreGood
<1>6. ProcessQueue(y) \in Goods
    <2>1. Sheds(y, ProcessQueue(y))
        BY <1>5, ProcessQueueSheds DEF Goods
    <2> QED BY <1>5, <2>1, ShedsKeeps
<1>7. Become(ProcessQueue(y)) /\ Outside
    BY <1>1, <1>4 DEF Prepared
<1> QED BY <1>6, <1>7, OutsideKeeps

LEMMA PreviewArrivesKeeps ==
    ASSUME CatalogInv, NEW s \in Sources, PreviewArrives(s)
    PROVE  CatalogInv'
<1> DEFINE Early(t) == [State EXCEPT !.tasks = (@ (-) One(t)) (+) One([t EXCEPT !.first = FALSE])]
<1>1. PICK t \in DOMAIN tasks :
          Become(IF s \in loading /\ ~Has(Early(t), s) /\ merged = NoRows /\ active = {s}
                 THEN [Early(t) EXCEPT !.preview = TRUE, !.merge = NoRows, !.merged = Put(NoRows, s, None)]
                 ELSE Early(t))
    BY DEF PreviewArrives
<1>2. PICK u : u = [t EXCEPT !.first = FALSE]
    OBVIOUS
<1>3. u \in GoodTasks
    <2>1. t \in Tasks /\ t.got \in Finds(t.kind)
        BY TaskFacts
    <2>2. u \in Tasks /\ u.kind = t.kind /\ u.got = t.got
        BY <1>2, <2>1 DEF Tasks
    <2> QED BY <2>1, <2>2 DEF GoodTasks
<1>4. PICK st : st = Early(t)
    OBVIOUS
<1>5. Sheds(State, st)
    BY <1>2, <1>3, <1>4, TaskChanged
<1>6. st \in Goods /\ st \in States /\ st.active = active
    <2>1. State.active = active
        BY DEF State
    <2> QED BY <1>5, <2>1, StateFacts, ShedsKeeps DEF Sheds
<1>7. PICK m : m = Put(NoRows, s, None)
    OBVIOUS
<1>8. m \in RowTables /\ NoRows \in MergeTables
    <2>1. NoRows \in RowTables /\ NoRows \in MergeTables
        BY NoRowsFacts DEF RowTables, MergeTables
    <2> QED BY <1>7, <2>1, VersionFacts, TableFacts DEF RowTables
<1>9. PICK y : y = [st EXCEPT !.preview = TRUE, !.merge = NoRows, !.merged = m]
    OBVIOUS
<1>10. y \in States /\ y.active = active /\ y.rows = st.rows
    BY <1>6, <1>8, <1>9 DEF States
<1>11. ASSUME ~Has(st, s), active = {s} PROVE y \in Goods
    <2>1. Shown(y)
        BY <1>10, <1>11 DEF Shown, Has
    <2> QED BY <1>10, <2>1 DEF Goods
<1>12. PICK early \in BOOLEAN : early <=> s \in loading /\ ~Has(st, s) /\ merged = NoRows /\ active = {s}
    OBVIOUS
<1>13. PICK z : z = IF early THEN y ELSE st
    OBVIOUS
<1>14. Become(z)
    <2> HIDE DEF Early
    <2> QED BY <1>1, <1>4, <1>7, <1>9, <1>12, <1>13
<1>15. z \in Goods
    BY <1>6, <1>11, <1>12, <1>13
<1>16. Outside
    BY DEF PreviewArrives
<1> QED BY <1>14, <1>15, <1>16, OutsideKeeps

LEMMA MergeEndsKeeps ==
    ASSUME CatalogInv, MergeEnds
    PROVE  CatalogInv'
<1>1. PICK y : y = [State EXCEPT !.merged = merge, !.merge = NoRows, !.preview = FALSE]
    OBVIOUS
<1>2. merge # NoRows /\ merge \in RowTables
    <2>1. merge \in MergeTables
        BY StateFacts
    <2>2. PICK D \in SUBSET Sources : merge \in [D -> Versions]
        BY <2>1 DEF MergeTables, Tables
    <2>3. merge \in [D -> 0..MaxVersion]
        BY <2>2, VersionFacts
    <2> QED BY <2>3 DEF MergeEnds, RowTables, Tables
<1>3. NoRows \in MergeTables
    BY NoRowsFacts DEF MergeTables
<1>4. y \in States /\ y.active = active /\ y.rows = rows /\ y.merge = NoRows /\ y.merged = merge
    <2>1. State.active = active /\ State.rows = rows
        BY DEF State
    <2> QED BY <1>1, <1>2, <1>3, <2>1, StateFacts DEF States
<1>5. Shown(State) /\ State.active = active /\ State.rows = rows /\ State.merge = merge
    BY StateFacts DEF Goods, State
<1>6. y \in Goods
    <2>1. Shown(y)
        BY <1>2, <1>4, <1>5 DEF Shown, Has
    <2> QED BY <1>4, <2>1 DEF Goods
<1>7. PICK r : r = [s \in DOMAIN y.rows |-> IF s \in y.active THEN None ELSE y.rows[s]]
    OBVIOUS
<1>8. r \in RowTables
    <2>1. y.rows \in RowTables
        BY <1>4 DEF States
    <2>2. PICK D \in SUBSET Sources : y.rows \in [D -> 0..MaxVersion]
        BY <2>1 DEF RowTables, Tables
    <2>3. r \in [D -> 0..MaxVersion]
        BY <1>7, <2>2, VersionFacts
    <2> QED BY <2>3 DEF RowTables, Tables
<1>9. PICK x : x = [y EXCEPT !.rows = r]
    OBVIOUS
<1>10. x \in States /\ x.active = y.active /\ x.rows = r
    BY <1>4, <1>8, <1>9 DEF States
<1>11. x \in Goods
    <2>1. \A s \in x.active : Has(x, s) => x.rows[s] = None
        BY <1>7, <1>10 DEF Has
    <2>2. Shown(x)
        BY <2>1 DEF Shown
    <2> QED BY <1>10, <2>2 DEF Goods
<1>12. Evacuated(y) \in {x, y}
    BY <1>7, <1>9 DEF Evacuated
<1>13. Become(y) \/ Become(Evacuated(y))
    BY <1>1 DEF MergeEnds
<1>14. Outside
    BY DEF MergeEnds
<1> QED BY <1>6, <1>11, <1>12, <1>13, <1>14, OutsideKeeps

----------------------------------------------------------------------------
(* The theorems *)
LEMMA InvNext ==
    ASSUME "failure of another" \notin Faults, CatalogInv, [Next]_vars
    PROVE  CatalogInv'
<1>1. CASE Start
    BY <1>1, StartKeeps
<1>2. CASE UserStep
    BY <1>2, RefreshKeeps, ToggleKeeps, EditKeeps, RequestLoadKeeps, RemovalBeginsKeeps, PluginInstalledKeeps
       DEF UserStep
<1>3. CASE \E s \in Sources : Publish(s) \/ Expire(s)
    BY <1>3, PublishKeeps, ExpireKeeps
<1>4. CASE \E s \in Sources : LoadStep(s)
    BY <1>4, FeedAnswersKeeps, FeedFailsKeeps, DiskReadKeeps, PluginLoadsKeeps, PluginFailsKeeps, DiskLoadedKeeps,
       PluginLoadedKeeps, PluginCheckedKeeps, PreparedKeeps, PreviewArrivesKeeps DEF LoadStep
<1>5. CASE RemovalEnds \/ RefreshStale \/ MergeEnds
    BY <1>5, RemovalEndsKeeps, RefreshStaleKeeps, MergeEndsKeeps
<1>6. CASE UNCHANGED vars
    BY <1>6, StandsStill
<1> QED BY <1>1, <1>2, <1>3, <1>4, <1>5, <1>6 DEF Next

\* The invariant holds, when no failed load takes the rows of another source
\* back: every record a handler works on is typed, and the list as the newest
\* merge will leave it has the rows that are stored.
THEOREM CatalogCorrect == ASSUME "failure of another" \notin Faults PROVE Spec => []CatalogInv
<1> QED BY InvInit, InvNext, PTL DEF Spec

\* With no merge under way, the list shows the rows that are stored of every
\* source that is shown, and everything has its type.
THEOREM ShownIsStoredHolds == ASSUME "failure of another" \notin Faults PROVE Spec => []ShownIsStored
<1>1. ASSUME CatalogInv PROVE ShownIsStored
    <2>1. TypeOK
        <3>1. State \in States
            BY <1>1, StateFacts
        <3>2. /\ State.queue \in Queues /\ State.http \in BOOLEAN /\ State.feed \in FeedStates
              /\ State.tasks \in TaskBags
            BY <3>1 DEF States
        <3>3. queue \in Seq(Sources) /\ IsInjective(queue) /\ http \in BOOLEAN /\ feed \in Feeds \cup {NoFeed}
            BY <3>2 DEF State, Queues, FeedStates
        <3>4. DOMAIN tasks \subseteq Tasks /\ \A t \in DOMAIN tasks : tasks[t] \in Nat \ {0}
            <4>1. PICK D \in SUBSET GoodTasks : tasks \in [D -> Nat \ {0}]
                BY <3>2 DEF State, TaskBags
            <4> QED BY <4>1 DEF GoodTasks
        <3>5. /\ DOMAIN rows \subseteq Sources /\ rows \in [DOMAIN rows -> 0..MaxVersion]
              /\ DOMAIN merge \subseteq Sources /\ merge \in [DOMAIN merge -> Versions]
              /\ DOMAIN merged \subseteq Sources /\ merged \in [DOMAIN merged -> 0..MaxVersion]
            BY <1>1, StateFacts, TableFacts DEF RowTables, MergeTables
        <3>6. /\ enabled \subseteq Sources /\ present \subseteq Plugins /\ active \subseteq Sources
              /\ server \in [Sources -> Versions] /\ disk \in [Sources -> 0..Hollow]
              /\ stamp \in [Sources -> {"none", "stale", "fresh"}] /\ sha \in [Sources -> 0..MaxVersion]
              /\ loading \subseteq Sources /\ preview \in BOOLEAN
            BY <1>1, StateFacts DEF Stamps, Shas, Disks
        <3>7. removing \in Plugins \cup {None} /\ clicks \in 0..MaxClicks /\ ticks \in 0..MaxTicks
            BY <1>1 DEF CatalogInv
        <3> QED BY <3>3, <3>4, <3>5, <3>6, <3>7 DEF TypeOK
    <2>2. ASSUME merge = NoRows, NEW s \in active, Has(State, s), rows[s] # None
          PROVE  s \in DOMAIN merged /\ merged[s] = rows[s]
        <3>1. Shown(State)
            BY <1>1, StateFacts DEF Goods
        <3>2. State.merge = merge /\ State.merged = merged /\ State.active = active /\ State.rows = rows
            BY DEF State
        <3> QED BY <2>2, <3>1, <3>2 DEF Shown
    <2> QED BY <2>1, <2>2 DEF ShownIsStored
<1> QED BY <1>1, CatalogCorrect, PTL

----------------------------------------------------------------------------
(* Nothing is forgotten *)
Waits(st, s) == s \in ToSet(st.queue)

\* A source has its rows, or something will bring them.
Cared(st, s) == Has(st, s) \/ Loads(st, s) \/ Waits(st, s)

\* No payload without rows is about.
Solid(st) ==
    /\ \A s \in Sources : st.disk[s] # Hollow
    /\ \A t \in DOMAIN st.tasks : t.got # Hollow

\* What has no rows has no time stamp; what is marked as loading, but for X, has no rows
\* and is loaded, or waits when it is no plugin.
Sound(st, X) ==
    /\ Solid(st)
    /\ \A s \in Sources : ~Has(st, s) => st.stamp[s] = "none"
    /\ \A s \in st.loading :
          ~Has(st, s) /\ (s \in X \/ Loads(st, s) \/ (s \notin Plugins /\ Waits(st, s)))

Listing(st) == st.present \cup (Sources \ Plugins)
Marked(st) == st.active \subseteq Listing(st) /\ Sound(st, {})
Kept(st) == \A s \in st.active : Cared(st, s)

\* The invariant of NothingForgotten: while a plugin is removed, only the marks are right.
LoadInv == Marked(State) /\ (removing = None => Kept(State))

\* A call that leaves the record sound and no source without care.
Same(st, z) == z \in States /\ z.active = st.active /\ z.present = st.present
Carries(st, z) == Same(st, z) /\ Sound(z, {}) /\ \A u \in st.active : Cared(st, u) => Cared(z, u)

\* Nothing that is on its way is lost.
Grows(st, z) == Same(st, z) /\ \A u \in Sources : Cared(st, u) => Cared(z, u)

LEMMA CarriesTwice ==
    ASSUME NEW a, NEW b, NEW c, Carries(a, b), Carries(b, c)
    PROVE  Carries(a, c)
BY DEF Carries, Same

LEMMA CarriesMarked ==
    ASSUME NEW st, NEW z, Marked(st), Carries(st, z)
    PROVE  Marked(z) /\ (Kept(st) => Kept(z))
BY DEF Carries, Same, Marked, Kept, Listing

LEMMA CarriesItself ==
    ASSUME NEW st \in States, Marked(st)
    PROVE  Carries(st, st)
BY DEF Carries, Same, Marked

\* Which workers there are when one is added or taken away.
LEMMA BagDomains ==
    ASSUME NEW b \in TaskBags, NEW t
    PROVE  /\ DOMAIN (b (+) One(t)) = DOMAIN b \cup {t}
           /\ DOMAIN (b (-) One(t)) \subseteq DOMAIN b /\ DOMAIN b \ {t} \subseteq DOMAIN (b (-) One(t))
<1>1. PICK D \in SUBSET GoodTasks : b \in [D -> Nat \ {0}]
    BY DEF TaskBags
<1>2. DOMAIN b = D
    BY <1>1
<1>3. DOMAIN One(t) = {t} /\ One(t)[t] = 1
    BY DEF One, SetToBag
<1>4. DOMAIN (b (+) One(t)) = D \cup {t}
    BY <1>2, <1>3 DEF (+)
<1>5. DOMAIN (b (-) One(t)) \subseteq D /\ D \ {t} \subseteq DOMAIN (b (-) One(t))
    <2> DEFINE B == [e \in D |-> IF e \in {t} THEN b[e] - One(t)[e] ELSE b[e]]
               E == {d \in D : B[d] > 0}
    <2>1. PICK c : c = b (-) One(t)
        OBVIOUS
    <2>2. c = [e \in {d \in DOMAIN B : B[d] > 0} |-> B[e]]
        BY <1>2, <1>3, <2>1 DEF (-)
    <2>3. DOMAIN B = D /\ \A d \in D \ {t} : B[d] > 0
        BY <1>1
    <2>4. c = [e \in E |-> B[e]]
        BY <2>2
    <2> HIDE DEF B
    <2>5. DOMAIN c = E /\ E \subseteq D /\ D \ {t} \subseteq E
        BY <2>3, <2>4
    <2> QED BY <2>1, <2>5
<1> QED BY <1>2, <1>4, <1>5

LEMMA ForgetSound ==
    ASSUME NEW st \in States, NEW s \in Sources, NEW X, Sound(st, X)
    PROVE  /\ Same(st, Forget(st, s)) /\ Sound(Forget(st, s), X) /\ ~Has(Forget(st, s), s)
           /\ \A u : u # s => (Has(Forget(st, s), u) <=> Has(st, u))
           /\ \A u : Loads(Forget(st, s), u) <=> Loads(st, u)
           /\ Forget(st, s).queue = st.queue /\ Forget(st, s).loading = st.loading
           /\ Forget(st, s).http = st.http
<1>1. PICK z : z = Forget(st, s)
    OBVIOUS
<1>2. z \in States /\ z.active = st.active
    BY <1>1, ForgetSheds DEF Sheds
<1>3. /\ z.present = st.present /\ z.disk = st.disk /\ z.loading = st.loading /\ z.queue = st.queue
      /\ z.http = st.http /\ z.feed = st.feed /\ z.tasks = st.tasks
      /\ z.rows = Restrict(st.rows, DOMAIN st.rows \ {s}) /\ z.stamp = [st.stamp EXCEPT ![s] = "none"]
    BY <1>1 DEF Forget, States
<1>4. DOMAIN z.rows = DOMAIN st.rows \ {s}
    BY <1>3 DEF Restrict
<1>5. \A u \in Sources : z.stamp[u] = IF u = s THEN "none" ELSE st.stamp[u]
    <2>1. st.stamp \in Stamps
        BY DEF States
    <2> QED BY <1>3, <2>1 DEF Stamps
<1>6. ~Has(z, s) /\ (\A u : u # s => (Has(z, u) <=> Has(st, u))) /\ \A u : Has(z, u) => Has(st, u)
    BY <1>4 DEF Has
<1>7. (\A u : Loads(z, u) <=> Loads(st, u)) /\ \A u : Waits(z, u) <=> Waits(st, u)
    BY <1>3 DEF Loads, Waits
<1>8. Sound(z, X)
    <2>1. Solid(z)
        BY <1>3 DEF Sound, Solid
    <2> QED BY <1>3, <1>5, <1>6, <1>7, <2>1 DEF Sound
<1> QED BY <1>1, <1>2, <1>3, <1>6, <1>7, <1>8 DEF Same

\* A worker that brings rows is under way.
LEMMA WatchSound ==
    ASSUME NEW st \in States, NEW s \in Sources, Sound(st, {s}), NEW kind \in {"disk", "plugin", "prepare"},
           NEW got \in Finds(kind), got \in NotYet..Hollow, got # Hollow, NEW first \in BOOLEAN
    PROVE  LET z == Watch(st, kind, s, got, first)
           IN  Grows(st, z) /\ Sound(z, {}) /\ Loads(z, s)
<1>1. PICK z : z = Watch(st, kind, s, got, first)
    OBVIOUS
<1>2. PICK t : t = [kind |-> kind, source |-> s, known |-> st.sha[s], got |-> got, first |-> first]
    OBVIOUS
<1>3. z \in States
    BY <1>1, WatchSheds DEF Sheds
<1>4. PICK b : b = st.tasks (+) One(t)
    OBVIOUS
<1>5. st.tasks \in TaskBags
    BY DEF States
<1>6. DOMAIN b = DOMAIN st.tasks \cup {t}
    BY <1>4, <1>5, BagDomains
<1>7. z = [st EXCEPT !.tasks = b]
    BY <1>1, <1>2, <1>4 DEF Watch
<1>8. /\ z.present = st.present /\ z.active = st.active /\ z.disk = st.disk /\ z.loading = st.loading
      /\ z.queue = st.queue /\ z.http = st.http /\ z.feed = st.feed /\ z.rows = st.rows
      /\ z.stamp = st.stamp /\ z.tasks = b
    BY <1>7 DEF States
<1>9. t.source = s /\ t.kind # "check" /\ t.got # Hollow
    BY <1>2
<1>10. Loads(z, s) /\ \A u : Loads(st, u) => Loads(z, u)
    BY <1>6, <1>8, <1>9 DEF Loads
<1>11. \A u : (Has(z, u) <=> Has(st, u)) /\ (Waits(z, u) <=> Waits(st, u))
    BY <1>8 DEF Has, Waits
<1>12. Sound(z, {})
    <2>1. Solid(z)
        BY <1>6, <1>8, <1>9 DEF Sound, Solid
    <2> QED BY <1>8, <1>10, <1>11, <2>1 DEF Sound
<1>13. Grows(st, z)
    BY <1>3, <1>8, <1>10, <1>11 DEF Grows, Same, Cared
<1> QED BY <1>1, <1>10, <1>12, <1>13


\* The request before the next one, when it is one for rows that count, is for rows that are there.
Free(st, s) == st.http /\ st.feed.source \notin {None, s} => Has(st, st.feed.source)

LEMMA FetchSound ==
    ASSUME NEW st \in States, NEW s \in Sources, NEW f \in Feeds, f.source = s, Sound(st, {s}), Free(st, s),
           NEW z, z = [st EXCEPT !.http = TRUE, !.feed = f]
    PROVE  Grows(st, z) /\ Sound(z, {}) /\ Loads(z, s)
<1>2. f \in FeedStates
    BY DEF FeedStates
<1>4. z \in States
    BY <1>2 DEF States
<1>5. /\ z.present = st.present /\ z.active = st.active /\ z.disk = st.disk /\ z.loading = st.loading
      /\ z.queue = st.queue /\ z.http = TRUE /\ z.feed = f /\ z.rows = st.rows
      /\ z.stamp = st.stamp /\ z.tasks = st.tasks
    OBVIOUS
<1>6. \A u : (Has(z, u) <=> Has(st, u)) /\ (Waits(z, u) <=> Waits(st, u))
    BY <1>5 DEF Has, Waits
<1>7. Loads(z, s)
    BY <1>5 DEF Loads
<1>8. ASSUME NEW u \in Sources, Loads(st, u) PROVE Loads(z, u) \/ Has(st, u)
    <2>1. u # None
        BY VersionFacts DEF Sources, None
    <2> QED BY <1>5, <1>8, <2>1 DEF Loads, Free
<1>9. Sound(z, {})
    <2>1. Solid(z)
        BY <1>5 DEF Sound, Solid
    <2>2. \A u \in st.loading : u \in Sources
        BY DEF States
    <2> QED BY <1>5, <1>6, <1>7, <1>8, <2>1, <2>2 DEF Sound
<1>10. Grows(st, z)
    BY <1>4, <1>5, <1>6, <1>8 DEF Grows, Same, Cared
<1> QED BY <1>7, <1>9, <1>10

LEMMA HttpLoadSound ==
    ASSUME NEW st \in States, NEW s \in Sources, Sound(st, {s}), Free(st, s)
    PROVE  Grows(st, HttpLoad(st, s)) /\ Sound(HttpLoad(st, s), {}) /\ Loads(HttpLoad(st, s), s)
<1>1. PICK etag : etag = Etag(st, s)
    OBVIOUS
<1>2. etag \in 0..MaxVersion
    BY <1>1, EtagFacts
<1>3. PICK y, f : y = [st EXCEPT !.http = TRUE] /\ f = [source |-> s, etag |-> etag]
    OBVIOUS
<1>4. f \in Feeds /\ f.source = s
    BY <1>2, <1>3 DEF Feeds
<1>5. PICK z : z = [st EXCEPT !.http = TRUE, !.feed = f]
    OBVIOUS
<1>6. HttpLoad(st, s) = z
    <2>1. HttpLoad(st, s) = [y EXCEPT !.feed = f]
        BY <1>1, <1>3 DEF HttpLoad, LoadFeed
    <2> QED BY <1>3, <1>5, <2>1 DEF States
<1> QED BY <1>4, <1>5, <1>6, FetchSound

\* What is not marked as loading need not be accounted for.
LEMMA UnmarkedSound ==
    ASSUME NEW st \in States, NEW s, Sound(st, {s})
    PROVE  /\ Grows(st, [st EXCEPT !.loading = @ \ {s}]) /\ Sound([st EXCEPT !.loading = @ \ {s}], {})
           /\ Has([st EXCEPT !.loading = @ \ {s}], s) <=> Has(st, s)
<1>1. PICK z : z = [st EXCEPT !.loading = @ \ {s}]
    OBVIOUS
<1>2. z \in States
    BY <1>1 DEF States
<1>3. /\ z.present = st.present /\ z.active = st.active /\ z.disk = st.disk /\ z.loading = st.loading \ {s}
      /\ z.queue = st.queue /\ z.http = st.http /\ z.feed = st.feed /\ z.rows = st.rows
      /\ z.stamp = st.stamp /\ z.tasks = st.tasks
    BY <1>1 DEF States
<1>4. \A u : (Has(z, u) <=> Has(st, u)) /\ (Waits(z, u) <=> Waits(st, u)) /\ (Loads(z, u) <=> Loads(st, u))
    BY <1>3 DEF Has, Waits, Loads
<1>5. Sound(z, {})
    <2>1. Solid(z)
        BY <1>3 DEF Sound, Solid
    <2> QED BY <1>3, <1>4, <2>1 DEF Sound
<1>6. Grows(st, z)
    BY <1>2, <1>3, <1>4 DEF Grows, Same, Cared
<1> QED BY <1>1, <1>4, <1>5, <1>6

\* A load from the source: of one that is listed, it is under way.
LEMMA FromNetworkSound ==
    ASSUME NEW st \in States, NEW s \in Sources, Sound(st, {s}), s \notin st.present => Free(st, s)
    PROVE  /\ Grows(st, FromNetwork(st, s)) /\ Sound(FromNetwork(st, s), {})
           /\ s \in Listing(st) => Loads(FromNetwork(st, s), s)
<1>1. CASE s \in st.present
    <2>1. PICK first \in BOOLEAN : first = (~Has(st, s) /\ st.merged = NoRows)
        OBVIOUS
    <2>2. FromNetwork(st, s) = Watch(st, "plugin", s, NotYet, first)
        BY <1>1, <2>1, Zenon DEF FromNetwork
    <2>3. NotYet \in Finds("plugin") /\ NotYet \in NotYet..Hollow /\ NotYet # Hollow
        BY NotYetFacts, VersionFacts
    <2> QED BY <2>2, <2>3, WatchSound
<1>2. CASE s \notin st.present /\ s \in Linked
    BY <1>2, HttpLoadSound DEF FromNetwork
<1>3. CASE s \notin st.present /\ s \notin Linked
    <2>1. FromNetwork(st, s) = [st EXCEPT !.loading = @ \ {s}]
        BY <1>3 DEF FromNetwork
    <2>2. s \notin Listing(st)
        BY <1>3, SourceAssumption DEF Listing
    <2> QED BY <2>1, <2>2, UnmarkedSound
<1> QED BY <1>1, <1>2, <1>3

LEMMA LoadNowSound ==
    ASSUME NEW st \in States, NEW s \in Sources, Sound(st, {s}), s \notin st.present => Free(st, s)
    PROVE  /\ Grows(st, LoadNow(st, s)) /\ Sound(LoadNow(st, s), {})
           /\ s \in Listing(st) => Loads(LoadNow(st, s), s)
<1>1. PICK z : z = Watch(st, "disk", s, NotYet, FALSE)
    OBVIOUS
<1>2. Grows(st, z) /\ Sound(z, {}) /\ Loads(z, s)
    <2>1. NotYet \in Finds("disk") /\ NotYet \in NotYet..Hollow /\ NotYet # Hollow /\ FALSE \in BOOLEAN
        BY NotYetFacts, VersionFacts
    <2> QED BY <1>1, <2>1, WatchSound
<1>3. LoadNow(st, s) \in {z, FromNetwork(st, s)}
    BY <1>1, Zenon DEF LoadNow
<1> QED BY <1>2, <1>3, FromNetworkSound

\* A source that waits is cared for; its mark counts unless it is a plugin that is not loaded.
LEMMA QueuedSound ==
    ASSUME NEW st \in States, NEW s \in Sources, Sound(st, {s}),
           s \in st.loading \cap Plugins => Loads(st, s)
    PROVE  /\ Grows(st, Queued(st, s)) /\ Sound(Queued(st, s), {}) /\ Waits(Queued(st, s), s)
           /\ Queued(st, s).http = st.http
<1>1. st.queue \in Seq(Sources)
    BY DEF States, Queues
<1>2. PICK q : q = IF Contains(st.queue, s) THEN st.queue ELSE Append(st.queue, s)
    OBVIOUS
<1>3. Contains(st.queue, s) <=> s \in ToSet(st.queue)
    <2>1. DOMAIN st.queue = 1..Len(st.queue)
        BY <1>1
    <2> QED BY <2>1 DEF Contains, ToSet
<1>4. ToSet(q) = ToSet(st.queue) \cup {s}
    BY <1>1, <1>2, <1>3, AppendFacts
<1>5. PICK z : z = [st EXCEPT !.queue = q]
    OBVIOUS
<1>6. z = Queued(st, s)
    BY <1>2, <1>5 DEF Queued
<1>7. z \in States
    BY <1>6, QueuedSheds DEF Sheds
<1>8. /\ z.present = st.present /\ z.active = st.active /\ z.disk = st.disk /\ z.loading = st.loading
      /\ z.queue = q /\ z.http = st.http /\ z.feed = st.feed /\ z.rows = st.rows
      /\ z.stamp = st.stamp /\ z.tasks = st.tasks
    BY <1>5 DEF States
<1>9. /\ \A u : (Has(z, u) <=> Has(st, u)) /\ (Loads(z, u) <=> Loads(st, u)) /\ (Waits(st, u) => Waits(z, u))
      /\ Waits(z, s)
    BY <1>4, <1>8 DEF Has, Waits, Loads
<1>10. Sound(z, {})
    <2>1. Solid(z)
        BY <1>8 DEF Sound, Solid
    <2> QED BY <1>8, <1>9, <2>1 DEF Sound
<1>11. Grows(st, z)
    BY <1>7, <1>8, <1>9 DEF Grows, Same, Cared
<1> QED BY <1>6, <1>8, <1>9, <1>10, <1>11


\* What is before the first source that is not fresh is fresh.
LEMMA FirstStale ==
    ASSUME NEW st \in States, NEW i, i = SelectInSeq(st.queue, LAMBDA u : ~Fresh(st, u))
    PROVE  /\ i = 0 => \A u \in ToSet(st.queue) : Has(st, u)
           /\ i # 0 => i \in 1..Len(st.queue) /\ \A k \in 1..(i - 1) : Has(st, st.queue[k])
<1> DEFINE I == {k \in 1..Len(st.queue) : ~Fresh(st, st.queue[k])}
<1>1. st.queue \in Seq(Sources) /\ Len(st.queue) \in Nat /\ DOMAIN st.queue = 1..Len(st.queue)
    BY DEF States, Queues
<1>2. i = IF I # {} THEN CHOOSE x \in I : \A y \in I : x <= y ELSE 0
    BY Zenon DEF SelectInSeq, Min
<1>3. I \in SUBSET Nat /\ I \subseteq 1..Len(st.queue)
    BY <1>1
<1>4. CASE I = {}
    <2>1. \A k \in 1..Len(st.queue) : Has(st, st.queue[k])
        BY <1>4 DEF Fresh
    <2> QED BY <1>1, <1>2, <1>4, <2>1 DEF ToSet
<1>5. CASE I # {}
    <2>1. \E x \in I : \A y \in I : x <= y
        <3> HIDE DEF I
        <3> QED BY <1>3, <1>5, LeastNumber
    <2>2. i \in I /\ \A y \in I : i <= y
        <3> HIDE DEF I
        <3> QED BY <1>2, <1>5, <2>1
    <2>3. i \in 1..Len(st.queue) /\ i # 0
        BY <1>1, <1>3, <2>2
    <2>4. \A k \in 1..(i - 1) : Has(st, st.queue[k])
        <3>1. ASSUME NEW k \in 1..(i - 1) PROVE k \in 1..Len(st.queue) /\ ~(i <= k)
            BY <1>1, <2>3
        <3>2. ASSUME NEW k \in 1..(i - 1) PROVE k \notin I
            <4> HIDE DEF I
            <4> QED BY <2>2, <3>1
        <3> QED BY <3>1, <3>2 DEF Fresh
    <2> QED BY <2>3, <2>4
<1> QED BY <1>4, <1>5

\* A source of the queue is at its place, before it or behind it.
LEMMA RestWaits ==
    ASSUME NEW q \in Seq(Sources), NEW i \in 1..Len(q), NEW u \in ToSet(q)
    PROVE  u = q[i] \/ (\E k \in 1..(i - 1) : u = q[k]) \/ u \in ToSet(SubSeq(q, i + 1, Len(q)))
<1> DEFINE r == SubSeq(q, i + 1, Len(q))
           n == Len(q)
<1>1. n \in Nat /\ i \in Nat /\ i <= n /\ DOMAIN q = 1..n
      /\ DOMAIN r = 1..(n - i) /\ \A k \in 1..(n - i) : r[k] = q[i + k]
    OBVIOUS
<1> HIDE DEF r, n
<1>2. PICK k \in 1..n : u = q[k]
    BY <1>1 DEF ToSet
<1>3. CASE k < i
    BY <1>1, <1>2, <1>3
<1>4. CASE k > i
    <2>1. k - i \in 1..(n - i) /\ i + (k - i) = k
        BY <1>1, <1>4
    <2>2. r[k - i] = u
        BY <1>1, <1>2, <2>1
    <2>3. u \in ToSet(r)
        BY <1>1, <2>1, <2>2 DEF ToSet
    <2> QED BY <2>3 DEF r, n
<1> QED BY <1>1, <1>2, <1>3, <1>4

LEMMA ProcessQueueCarries ==
    ASSUME NEW st \in States, Marked(st)
    PROVE  Carries(st, ProcessQueue(st))
<1> DEFINE i == SelectInSeq(st.queue, LAMBDA u : ~Fresh(st, u))
           s == st.queue[i]
           taken == [Forget(st, s) EXCEPT !.queue = SubSeq(@, i + 1, Len(@))]
<1>1. st.queue \in Queues /\ st.queue \in Seq(Sources) /\ Sound(st, {}) /\ st.active \subseteq Listing(st)
    BY DEF States, Queues, Marked
<1>2. /\ i = 0 => \A u \in ToSet(st.queue) : Has(st, u)
      /\ i # 0 => i \in 1..Len(st.queue) /\ \A k \in 1..(i - 1) : Has(st, st.queue[k])
    <2>1. PICK j : j = i
        OBVIOUS
    <2> QED BY <2>1, FirstStale
<1> HIDE DEF i
<1>3. CASE st.http
    <2>1. ProcessQueue(st) = st
        BY <1>3 DEF ProcessQueue
    <2> QED BY <2>1, CarriesItself
<1>4. CASE ~st.http /\ i = 0
    <2>1. PICK z : z = [st EXCEPT !.queue = << >>]
        OBVIOUS
    <2>2. z = ProcessQueue(st)
        BY <1>4, <2>1 DEF ProcessQueue, i
    <2>3. z \in States
        BY <2>2, ProcessQueueSheds DEF Sheds
    <2>4. /\ z.present = st.present /\ z.active = st.active /\ z.disk = st.disk /\ z.loading = st.loading
          /\ z.http = st.http /\ z.feed = st.feed /\ z.rows = st.rows
          /\ z.stamp = st.stamp /\ z.tasks = st.tasks
        BY <2>1 DEF States
    <2>5. \A u : (Has(z, u) <=> Has(st, u)) /\ (Loads(z, u) <=> Loads(st, u)) /\ (Waits(st, u) => Has(st, u))
        BY <1>2, <1>4, <2>4 DEF Has, Loads, Waits
    <2>6. Sound(z, {})
        <3>1. Solid(z)
            BY <1>1, <2>4 DEF Sound, Solid
        <3> QED BY <1>1, <2>4, <2>5, <3>1 DEF Sound
    <2>7. Carries(st, z)
        BY <2>3, <2>4, <2>5, <2>6 DEF Carries, Same, Cared
    <2> QED BY <2>2, <2>7
<1>5. CASE ~st.http /\ i # 0
    <2>1. s \in Sources
        BY <1>1, <1>2, <1>5, RestFacts
    <2>2. PICK f : f = Forget(st, s)
        OBVIOUS
    <2>3. /\ f \in States /\ Same(st, f) /\ Sound(f, {}) /\ ~Has(f, s)
          /\ \A u : u # s => (Has(f, u) <=> Has(st, u))
          /\ \A u : Loads(f, u) <=> Loads(st, u)
          /\ f.queue = st.queue /\ f.loading = st.loading /\ f.http = st.http
        BY <1>1, <2>1, <2>2, ForgetSound DEF Same
    <2>4. PICK q : q = SubSeq(st.queue, i + 1, Len(st.queue))
        OBVIOUS
    <2>5. q \in Queues
        BY <1>1, <1>2, <1>5, <2>4, RestFacts
    <2>6. PICK z : z = [f EXCEPT !.queue = q]
        OBVIOUS
    <2>7. z = taken
        <3>1. taken = [f EXCEPT !.queue = SubSeq(f.queue, i + 1, Len(f.queue))]
            BY <2>2, Zenon
        <3> QED BY <2>3, <2>4, <2>6, <3>1
    <2>8. /\ z \in States /\ z.present = st.present /\ z.active = st.active /\ z.disk = f.disk
          /\ z.loading = st.loading /\ z.http = st.http /\ z.feed = f.feed /\ z.rows = f.rows
          /\ z.stamp = f.stamp /\ z.tasks = f.tasks /\ z.queue = q
        BY <2>3, <2>5, <2>6 DEF States, Same
    <2>9. \A u : (Has(z, u) <=> Has(f, u)) /\ (Loads(z, u) <=> Loads(f, u))
        BY <2>3, <2>6, <2>8 DEF Has, Loads
    <2>10. \A u : Waits(st, u) => u = s \/ Has(st, u) \/ Waits(z, u)
        <3>1. ASSUME NEW u \in ToSet(st.queue), u # s, u \notin ToSet(q) PROVE Has(st, u)
            <4>1. i \in 1..Len(st.queue)
                BY <1>2, <1>5
            <4>2. PICK k \in 1..(i - 1) : u = st.queue[k]
                BY <1>1, <2>4, <3>1, <4>1, RestWaits
            <4> QED BY <1>2, <1>5, <4>2
        <3> QED BY <2>8, <3>1 DEF Waits
    <2>11. Sound(z, {s})
        <3>1. Solid(z)
            BY <2>3, <2>8 DEF Sound, Solid
        <3>2. \A u \in Sources : ~Has(z, u) => z.stamp[u] = "none"
            BY <2>3, <2>8, <2>9 DEF Sound
        <3>3. ASSUME NEW u \in z.loading, u # s PROVE ~Has(z, u) /\ (Loads(z, u) \/ (u \notin Plugins /\ Waits(z, u)))
            <4>1. ~Has(st, u) /\ (Loads(st, u) \/ (u \notin Plugins /\ Waits(st, u)))
                BY <1>1, <2>8, <3>3 DEF Sound
            <4> QED BY <2>3, <2>9, <2>10, <3>3, <4>1
        <3>4. ~Has(z, s)
            BY <2>3, <2>9
        <3> QED BY <3>1, <3>2, <3>3, <3>4 DEF Sound
    <2>12. \A u : u # s /\ Cared(st, u) => Cared(z, u)
        BY <2>3, <2>9, <2>10 DEF Cared
    <2>13. ProcessQueue(st) = IF s \in st.loading \cap st.present THEN z ELSE LoadNow(z, s)
        <3>1. ProcessQueue(st) = CASE st.http -> st
                 [] ~st.http /\ i = 0 -> [st EXCEPT !.queue = << >>]
                 [] OTHER -> IF s \in st.loading \cap st.present THEN taken ELSE LoadNow(taken, s)
            BY Zenon DEF ProcessQueue, i, s, taken
        <3> HIDE DEF taken, s
        <3> QED BY <1>5, <2>7, <3>1
    <2> HIDE DEF taken, s
    <2>14. CASE s \in st.loading \cap st.present
        <3>1. Loads(z, s)
            <4>1. s \in Plugins /\ s \in st.loading
                BY <2>14 DEF States
            <4>2. Loads(st, s)
                BY <1>1, <4>1 DEF Sound
            <4> QED BY <2>3, <2>9, <4>2
        <3>2. Sound(z, {})
            BY <2>11, <3>1 DEF Sound
        <3>3. Carries(st, z)
            BY <2>8, <2>12, <3>1, <3>2 DEF Carries, Same, Cared
        <3> QED BY <2>13, <2>14, <3>3
    <2>15. CASE s \notin st.loading \cap st.present
        <3>1. PICK y : y = LoadNow(z, s)
            OBVIOUS
        <3>2. Free(z, s)
            BY <1>5, <2>8 DEF Free
        <3>3. Grows(z, y) /\ Sound(y, {}) /\ (s \in Listing(z) => Loads(y, s))
            BY <2>1, <2>8, <2>11, <3>1, <3>2, LoadNowSound
        <3>4. \A u \in st.active : Cared(st, u) => Cared(y, u)
            <4>1. Listing(z) = Listing(st) /\ st.active \subseteq Sources
                BY <2>8 DEF Listing, States
            <4> QED BY <1>1, <2>12, <3>3, <4>1 DEF Grows, Cared
        <3>5. Carries(st, y)
            BY <2>8, <3>3, <3>4 DEF Carries, Grows, Same
        <3> QED BY <2>13, <2>15, <3>1, <3>5
    <2> QED BY <2>14, <2>15
<1> QED BY <1>3, <1>4, <1>5


\* A source that is shown and asked for is cared for.
LEMMA RequestCarries ==
    ASSUME NEW st \in States, Marked(st), NEW s \in Sources, s \in Listing(st)
    PROVE  Carries(st, Request(st, s)) /\ (s \in st.active => Cared(Request(st, s), s))
<1>1. Sound(st, {}) /\ Sound(st, {s}) /\ st.active \subseteq Listing(st) /\ st.active \subseteq Sources
    BY DEF Marked, Sound, States
<1>2. CASE Fresh(st, s)
    <2>1. Request(st, s) = st
        BY <1>2 DEF Request
    <2> QED BY <1>2, <2>1, CarriesItself DEF Fresh, Cared
<1>3. CASE ~Fresh(st, s) /\ s \in st.loading
    <2>1. ~Has(st, s) /\ (s \in st.loading \cap Plugins => Loads(st, s))
        BY <1>1, <1>3 DEF Sound
    <2>2. Request(st, s) = Queued(st, s)
        <3>1. Request(st, s) = Queued(IF Has(st, s) THEN Forget(st, s) ELSE st, s)
            BY <1>3 DEF Request
        <3> QED BY <2>1, <3>1
    <2>3. Grows(st, Queued(st, s)) /\ Sound(Queued(st, s), {}) /\ Waits(Queued(st, s), s)
        BY <1>1, <2>1, QueuedSound
    <2> QED BY <1>1, <2>2, <2>3 DEF Carries, Grows, Cared
<1>4. CASE ~Fresh(st, s) /\ s \notin st.loading
    <2>1. PICK d : d = IF Has(st, s) THEN Forget(st, s) ELSE st
        OBVIOUS
    <2>2. /\ d \in States /\ Same(st, d) /\ Sound(d, {}) /\ ~Has(d, s) /\ d.loading = st.loading
          /\ d.queue = st.queue
          /\ \A u : u # s => (Has(d, u) <=> Has(st, u))
          /\ \A u : Loads(d, u) <=> Loads(st, u)
        <3>1. CASE Has(st, s)
            <4>1. d = Forget(st, s)
                BY <2>1, <3>1
            <4> QED BY <1>1, <4>1, ForgetSound DEF Same
        <3>2. CASE ~Has(st, s)
            <4>1. d = st
                BY <2>1, <3>2
            <4> QED BY <1>1, <3>2, <4>1 DEF Same
        <3> QED BY <3>1, <3>2
    <2>3. PICK z : z = [d EXCEPT !.loading = @ \cup {s}]
        OBVIOUS
    <2>4. /\ z \in States /\ z.present = st.present /\ z.active = st.active /\ z.disk = d.disk
          /\ z.loading = st.loading \cup {s} /\ z.http = d.http /\ z.feed = d.feed /\ z.rows = d.rows
          /\ z.stamp = d.stamp /\ z.tasks = d.tasks /\ z.queue = st.queue
        BY <2>2, <2>3 DEF States, Same
    <2>5. \A u : (Has(z, u) <=> Has(d, u)) /\ (Loads(z, u) <=> Loads(d, u)) /\ (Waits(z, u) <=> Waits(d, u))
        BY <2>2, <2>4 DEF Has, Loads, Waits
    <2>6. Sound(z, {s})
        <3>1. Solid(z)
            BY <2>2, <2>4 DEF Sound, Solid
        <3>2. \A u \in Sources : ~Has(z, u) => z.stamp[u] = "none"
            BY <2>2, <2>4, <2>5 DEF Sound
        <3>3. ASSUME NEW u \in z.loading
              PROVE  ~Has(z, u) /\ (u = s \/ Loads(z, u) \/ (u \notin Plugins /\ Waits(z, u)))
            BY <2>2, <2>4, <2>5, <3>3 DEF Sound
        <3> QED BY <3>1, <3>2, <3>3 DEF Sound
    <2>7. \A u \in st.active : u # s /\ Cared(st, u) => Cared(z, u)
        BY <2>2, <2>5 DEF Cared, Waits
    <2>8. Request(st, s) = IF s \in st.present THEN LoadNow(z, s) ELSE ProcessQueue(Queued(z, s))
        <3>1. Request(st, s) =
                LET dropped == IF Has(st, s) THEN Forget(st, s) ELSE st
                    started == [dropped EXCEPT !.loading = @ \cup {s}]
                IN  CASE Fresh(st, s) -> st
                      [] ~Fresh(st, s) /\ s \in st.loading -> Queued(dropped, s)
                      [] OTHER -> IF s \in st.present THEN LoadNow(started, s) ELSE ProcessQueue(Queued(started, s))
            BY Zenon DEF Request
        <3>2. Request(st, s) =
                CASE Fresh(st, s) -> st
                  [] ~Fresh(st, s) /\ s \in st.loading -> Queued(d, s)
                  [] OTHER -> IF s \in st.present THEN LoadNow(z, s) ELSE ProcessQueue(Queued(z, s))
            BY <2>1, <2>3, <3>1, Zenon
        <3> QED BY <1>4, <3>2
    <2>9. CASE s \in st.present
        <3>1. PICK y : y = LoadNow(z, s)
            OBVIOUS
        <3>2. Grows(z, y) /\ Sound(y, {}) /\ Loads(y, s)
            <4>1. s \in z.present /\ s \in Listing(z)
                BY <2>4, <2>9 DEF Listing
            <4> QED BY <2>4, <2>6, <3>1, <4>1, LoadNowSound
        <3>3. Carries(st, y)
            BY <1>1, <2>4, <2>7, <3>2 DEF Carries, Grows, Same, Cared
        <3> QED BY <2>8, <2>9, <3>1, <3>2, <3>3 DEF Cared
    <2>10. CASE s \notin st.present
        <3>1. s \notin Plugins
            BY <2>10 DEF Listing
        <3>2. PICK y : y = Queued(z, s)
            OBVIOUS
        <3>3. Grows(z, y) /\ Sound(y, {}) /\ Waits(y, s)
            BY <2>4, <2>6, <3>1, <3>2, QueuedSound
        <3>4. Same(st, y) /\ \A u \in st.active : Cared(st, u) => Cared(y, u)
            BY <1>1, <2>4, <2>7, <3>3 DEF Grows, Same, Cared
        <3>5. Marked(y) /\ Carries(st, y)
            BY <1>1, <3>3, <3>4 DEF Carries, Same, Marked, Listing
        <3>6. PICK x : x = ProcessQueue(y)
            OBVIOUS
        <3>7. Carries(y, x) /\ Carries(st, x)
            BY <3>4, <3>5, <3>6, ProcessQueueCarries, CarriesTwice DEF Same
        <3>8. s \in st.active => Cared(x, s)
            BY <3>3, <3>4, <3>7 DEF Carries, Same, Cared
        <3> QED BY <2>8, <2>10, <3>2, <3>6, <3>7, <3>8
    <2> QED BY <2>9, <2>10
<1> QED BY <1>2, <1>3, <1>4

LEMMA MissingCarries ==
    ASSUME NEW st \in States, Marked(st), NEW s \in st.active
    PROVE  Carries(st, Missing(st, s)) /\ Cared(Missing(st, s), s)
<1>1. Sound(st, {}) /\ s \in Listing(st) /\ s \in Sources /\ st.active \subseteq Listing(st)
    BY DEF Marked, States
<1>2. PICK evacuated \in BOOLEAN : evacuated <=> Has(st, s) /\ st.rows[s] = None /\ Cardinality(st.active) > 1
    OBVIOUS
<1>3. PICK kept : kept = IF evacuated THEN Forget(st, s) ELSE st
    OBVIOUS
<1>4. Missing(st, s) = IF (~Has(st, s) \/ evacuated) /\ s \notin st.loading THEN Request(kept, s) ELSE kept
    <2>1. Missing(st, s) =
            LET gone == Has(st, s) /\ st.rows[s] = None /\ Cardinality(st.active) > 1
                rest == IF gone THEN Forget(st, s) ELSE st
            IN  IF (~Has(st, s) \/ gone) /\ s \notin st.loading THEN Request(rest, s) ELSE rest
        BY Zenon DEF Missing
    <2>2. kept = IF Has(st, s) /\ st.rows[s] = None /\ Cardinality(st.active) > 1 THEN Forget(st, s) ELSE st
        BY <1>2, <1>3
    <2> QED BY <1>2, <2>1, <2>2
<1>5. /\ kept \in States /\ Same(st, kept) /\ Sound(kept, {})
      /\ \A u : u # s => (Cared(st, u) => Cared(kept, u))
    <2>1. CASE evacuated
        <3>1. kept = Forget(st, s)
            BY <1>3, <2>1
        <3> QED BY <1>1, <3>1, ForgetSound DEF Same, Cared, Waits
    <2>2. CASE ~evacuated
        <3>1. kept = st
            BY <1>3, <2>2
        <3> QED BY <1>1, <3>1 DEF Same
    <2> QED BY <2>1, <2>2
<1>6. CASE (~Has(st, s) \/ evacuated) /\ s \notin st.loading
    <2>1. PICK z : z = Request(kept, s)
        OBVIOUS
    <2>2. Marked(kept) /\ s \in Listing(kept) /\ s \in kept.active
        BY <1>1, <1>5 DEF Marked, Same, Listing
    <2>3. Carries(kept, z) /\ Cared(z, s)
        BY <1>1, <1>5, <2>1, <2>2, RequestCarries
    <2>4. Carries(st, z)
        BY <1>5, <2>3 DEF Carries, Same
    <2> QED BY <1>4, <1>6, <2>1, <2>3, <2>4
<1>7. CASE ~((~Has(st, s) \/ evacuated) /\ s \notin st.loading)
    <2>1. ~evacuated
        BY <1>1, <1>2, <1>7 DEF Sound
    <2>2. kept = st /\ Missing(st, s) = st
        BY <1>3, <1>4, <1>7, <2>1
    <2>3. Cared(st, s)
        BY <1>1, <1>7, <2>1 DEF Sound, Cared
    <2> QED BY <2>2, <2>3, CarriesItself
<1> QED BY <1>6, <1>7

\* What is missing is asked for, source by source: then every source that is shown is cared for.
LEMMA MissingKeeps ==
    ASSUME NEW st \in States, Marked(st)
    PROVE  Carries(st, Each(st.active, st, Missing)) /\ Kept(Each(st.active, st, Missing))
<1> DEFINE n == SourceCount
<1>1. PICK f : MissingRun(f, st.active, st)
    BY MissingSteps
<1>2. /\ f[0] = st /\ Each(st.active, st, Missing) = f[n]
      /\ \A k \in 0..n : f[k] \in States
      /\ \A k \in 1..n : f[k] = IF k \in st.active THEN Missing(f[k - 1], k) ELSE f[k - 1]
    BY <1>1 DEF MissingRun, Sheds
<1>3. n \in Nat /\ st.active \subseteq 1..n /\ n \in 0..n
    BY VersionFacts DEF States, Sources
<1> DEFINE A == {k \in 0..n : Carries(st, f[k]) /\ \A s \in st.active : s <= k => Cared(f[k], s)}
<1>4. 0 \in A
    <2>1. \A s \in st.active : ~(s <= 0)
        BY <1>3
    <2>2. Carries(st, f[0])
        BY <1>2, CarriesItself
    <2> QED BY <1>3, <2>1, <2>2
<1>5. ASSUME NEW k \in 0..(n - 1), k \in A PROVE k + 1 \in A
    <2>1. k + 1 \in 1..n /\ (k + 1) - 1 = k /\ k + 1 \in 0..n /\ k \in 0..n
        BY <1>3
    <2>2. Carries(st, f[k]) /\ \A s \in st.active : s <= k => Cared(f[k], s)
        BY <1>5
    <2>3. f[k + 1] = IF k + 1 \in st.active THEN Missing(f[k], k + 1) ELSE f[k]
        BY <1>2, <2>1
    <2>4. PICK y, z : y = f[k] /\ z = f[k + 1]
        OBVIOUS
    <2>5. \A s \in st.active : s <= k + 1 => s <= k \/ s = k + 1
        BY <1>3, <2>1
    <2>6. CASE k + 1 \in st.active
        <3>1. z = Missing(y, k + 1)
            BY <2>3, <2>4, <2>6
        <3>2. y \in States /\ Marked(y) /\ y.active = st.active
            BY <2>2, <2>4, CarriesMarked DEF Carries, Same
        <3>3. Carries(y, z) /\ Cared(z, k + 1)
            BY <2>6, <3>1, <3>2, MissingCarries
        <3>4. Carries(st, z)
            BY <2>2, <2>4, <3>3, CarriesTwice
        <3>5. \A s \in st.active : s <= k => Cared(z, s)
            BY <2>2, <2>4, <3>2, <3>3 DEF Carries
        <3>6. \A s \in st.active : s <= k + 1 => Cared(z, s)
            BY <2>5, <3>3, <3>5
        <3> QED BY <2>1, <2>4, <3>4, <3>6
    <2>7. CASE k + 1 \notin st.active
        <3>1. z = y
            BY <2>3, <2>4, <2>7
        <3>2. \A s \in st.active : s <= k + 1 => Cared(z, s)
            BY <2>2, <2>4, <2>5, <2>7, <3>1
        <3> QED BY <2>1, <2>2, <2>4, <3>1, <3>2
    <2> QED BY <2>6, <2>7
<1>6. n \in A
    <2> HIDE DEF A, n
    <2>1. \A k \in 0..n : k \in A
        BY <1>3, <1>4, <1>5, Upward
    <2> QED BY <1>3, <2>1
<1>7. PICK z : z = f[n]
    OBVIOUS
<1>8. Carries(st, z) /\ \A s \in st.active : Cared(z, s)
    BY <1>3, <1>6, <1>7
<1>9. Kept(z)
    BY <1>8 DEF Kept, Carries, Same
<1> QED BY <1>2, <1>7, <1>8, <1>9

\* The list plays no part.
LEMMA ListSound ==
    ASSUME NEW st \in States, NEW z \in States, z.present = st.present, z.active = st.active, z.disk = st.disk,
           z.loading = st.loading, z.http = st.http, z.feed = st.feed, z.rows = st.rows,
           z.stamp = st.stamp, z.tasks = st.tasks, z.queue = st.queue
    PROVE  /\ \A u : Cared(z, u) <=> Cared(st, u)
           /\ \A X : Sound(st, X) => Sound(z, X)
           /\ Same(st, z)
<1>1. \A u : (Has(z, u) <=> Has(st, u)) /\ (Loads(z, u) <=> Loads(st, u)) /\ (Waits(z, u) <=> Waits(st, u))
    BY DEF Has, Loads, Waits
<1>2. Solid(st) => Solid(z)
    BY DEF Solid
<1>3. ASSUME NEW X, Sound(st, X) PROVE Sound(z, X)
    BY <1>1, <1>2, <1>3 DEF Sound
<1> QED BY <1>1, <1>3 DEF Cared, Same

\* When the list is built again, everything that is shown is cared for, whatever it was before.
LEMMA RebuildKeeps ==
    ASSUME NEW st \in States, Marked(st)
    PROVE  Carries(st, Rebuild(st)) /\ Kept(Rebuild(st))
<1>1. PICK a : a = Each(st.active, st, Missing)
    OBVIOUS
<1>2. Carries(st, a) /\ Kept(a) /\ a \in States
    BY <1>1, MissingKeeps DEF Carries, Same
<1>3. PICK z : z = Rebuild(st)
    OBVIOUS
<1>4. z \in States
    BY <1>3, RebuildGood DEF Goods
<1>5. CASE st.active = {}
    <2>1. z = [st EXCEPT !.merge = NoRows, !.merged = NoRows]
        BY <1>3, <1>5 DEF Rebuild
    <2>2. (\A u : Cared(z, u) <=> Cared(st, u)) /\ Sound(z, {}) /\ Same(st, z)
        <3>1. /\ z.present = st.present /\ z.active = st.active /\ z.disk = st.disk
              /\ z.loading = st.loading /\ z.http = st.http /\ z.feed = st.feed /\ z.rows = st.rows
              /\ z.stamp = st.stamp /\ z.tasks = st.tasks /\ z.queue = st.queue
            BY <2>1 DEF States
        <3> QED BY <1>4, <3>1, ListSound DEF Marked
    <2>3. Kept(z)
        BY <1>5, <2>2 DEF Kept, Same
    <2> QED BY <1>3, <2>2, <2>3 DEF Carries
<1>6. CASE st.active # {} /\ Mergeable(a) = {}
    <2>1. z = a
        BY <1>1, <1>3, <1>6 DEF Rebuild
    <2> QED BY <1>2, <1>3, <2>1
<1>7. CASE st.active # {} /\ Mergeable(a) # {}
    <2>1. PICK m : m = Restrict(a.rows, Mergeable(a))
        OBVIOUS
    <2>2. z = [a EXCEPT !.merge = m]
        BY <1>1, <1>3, <1>7, <2>1 DEF Rebuild
    <2>3. (\A u : Cared(z, u) <=> Cared(a, u)) /\ Sound(z, {}) /\ Same(a, z)
        <3>1. /\ z.present = a.present /\ z.active = a.active /\ z.disk = a.disk
              /\ z.loading = a.loading /\ z.http = a.http /\ z.feed = a.feed /\ z.rows = a.rows
              /\ z.stamp = a.stamp /\ z.tasks = a.tasks /\ z.queue = a.queue
            BY <1>2, <2>2 DEF States
        <3> QED BY <1>2, <1>4, <3>1, ListSound DEF Carries
    <2>4. Carries(a, z) /\ Kept(z)
        BY <1>2, <2>3 DEF Carries, Kept, Same
    <2> QED BY <1>2, <1>3, <2>4, CarriesTwice
<1> QED BY <1>5, <1>6, <1>7


\* What s was loaded by has ended; nothing else is lost.
Frees(st, z, s) ==
    Same(st, z) /\ Sound(z, {s}) /\ \A u \in Sources : u # s /\ Cared(st, u) => Cared(z, u)

\* Its rows are there, or something brings them; nothing else is lost.
Brings(st, z, s) ==
    Same(st, z) /\ Sound(z, {}) /\ \A u \in st.active : u = s \/ Cared(st, u) => Cared(z, u)

LEMMA FreesBrings ==
    ASSUME NEW a \in States, NEW b, NEW c, NEW s, Frees(a, b, s), Brings(b, c, s)
    PROVE  Carries(a, c)
BY DEF Frees, Brings, Carries, Same, States

LEMMA FreesMarked ==
    ASSUME NEW a, NEW b, NEW s, Marked(a), Frees(a, b, s)
    PROVE  b \in States /\ b.active \subseteq Listing(b) /\ Sound(b, {s})
BY DEF Frees, Marked, Same, Listing

LEMMA BringsCarries ==
    ASSUME NEW a, NEW b, NEW c, NEW s, Brings(a, b, s), Carries(b, c)
    PROVE  Brings(a, c, s)
BY DEF Brings, Carries, Same

\* The load of a source that has its rows ended without new ones.
LEMMA TouchBrings ==
    ASSUME NEW st \in States, NEW s \in Sources, Sound(st, {s}), Has(st, s)
    PROVE  Brings(st, Touch(st, s), s)
<1>1. PICK z : z = Touch(st, s)
    OBVIOUS
<1>2. z \in States
    BY <1>1, TouchSheds DEF Sheds
<1>3. /\ z.present = st.present /\ z.active = st.active /\ z.disk = st.disk /\ z.loading = st.loading \ {s}
      /\ z.queue = st.queue /\ z.http = st.http /\ z.feed = st.feed /\ z.rows = st.rows
      /\ z.stamp = [st.stamp EXCEPT ![s] = "fresh"] /\ z.tasks = st.tasks
    BY <1>1 DEF Touch, States
<1>4. \A u : (Has(z, u) <=> Has(st, u)) /\ (Waits(z, u) <=> Waits(st, u)) /\ (Loads(z, u) <=> Loads(st, u))
    BY <1>3 DEF Has, Waits, Loads
<1>5. \A u \in Sources : u # s => z.stamp[u] = st.stamp[u]
    BY <1>3 DEF States, Stamps
<1>6. Sound(z, {})
    <2>1. Solid(z)
        BY <1>3 DEF Sound, Solid
    <2> QED BY <1>3, <1>4, <1>5, <2>1 DEF Sound
<1>7. Brings(st, z, s)
    BY <1>2, <1>3, <1>4, <1>6 DEF Brings, Same, Cared
<1> QED BY <1>1, <1>7

LEMMA StoreBrings ==
    ASSUME NEW st \in States, NEW s \in Sources, NEW v \in 0..MaxVersion, Sound(st, {s}),
           st.active \subseteq Listing(st)
    PROVE  Brings(st, Store(st, s, v), s)
<1>1. PICK t : t = Touch(st, s)
    OBVIOUS
<1>2. t \in States
    BY <1>1, TouchSheds DEF Sheds
<1>3. PICK r : r = Put(t.rows, s, v)
    OBVIOUS
<1>4. PICK z : z = [t EXCEPT !.rows = r]
    OBVIOUS
<1>5. /\ t.present = st.present /\ t.active = st.active /\ t.disk = st.disk /\ t.loading = st.loading \ {s}
      /\ t.queue = st.queue /\ t.http = st.http /\ t.feed = st.feed /\ t.rows = st.rows
      /\ t.stamp = [st.stamp EXCEPT ![s] = "fresh"] /\ t.tasks = st.tasks
    BY <1>1 DEF Touch, States
<1>6. r \in RowTables /\ DOMAIN r = DOMAIN st.rows \cup {s}
    <2>1. t.rows \in RowTables
        BY <1>2 DEF States
    <2>2. r \in RowTables
        BY <1>3, <2>1, TableFacts DEF RowTables
    <2> QED BY <1>3, <1>5, <2>2 DEF Put
<1>7. /\ z \in States /\ z.present = st.present /\ z.active = st.active /\ z.disk = st.disk
      /\ z.loading = st.loading \ {s} /\ z.queue = st.queue /\ z.http = st.http /\ z.feed = st.feed
      /\ z.rows = r /\ z.stamp = t.stamp /\ z.tasks = st.tasks
    BY <1>2, <1>4, <1>5, <1>6 DEF States
<1>8. /\ \A u : (Has(z, u) <=> Has(st, u) \/ u = s)
      /\ \A u : (Waits(z, u) <=> Waits(st, u)) /\ (Loads(z, u) <=> Loads(st, u))
    BY <1>6, <1>7 DEF Has, Waits, Loads
<1>9. \A u \in Sources : u # s => z.stamp[u] = st.stamp[u]
    BY <1>5, <1>7 DEF States, Stamps
<1>10. Sound(z, {})
    <2>1. Solid(z)
        BY <1>7 DEF Sound, Solid
    <2> QED BY <1>7, <1>8, <1>9, <2>1 DEF Sound
<1>11. Brings(st, z, s)
    BY <1>7, <1>8, <1>10 DEF Brings, Same, Cared
<1>12. Store(st, s, v) = IF s \in st.active THEN Rebuild(z) ELSE z
    BY <1>1, <1>3, <1>4 DEF Store
<1>13. Carries(z, Rebuild(z))
    <2>1. Marked(z)
        BY <1>7, <1>10 DEF Marked, Listing
    <2> QED BY <1>7, <2>1, RebuildKeeps
<1> QED BY <1>11, <1>12, <1>13, BringsCarries

\* Fingerprints play no part.
LEMMA ShaSound ==
    ASSUME NEW st \in States, NEW s \in Sources, NEW v \in 0..MaxVersion, NEW z, z = [st EXCEPT !.sha[s] = v]
    PROVE  /\ \A u : Cared(z, u) <=> Cared(st, u)
           /\ \A X : Sound(st, X) => Sound(z, X)
           /\ Same(st, z)
<1>1. z \in States
    BY OneField DEF Sheds
<1>2. /\ z.present = st.present /\ z.active = st.active /\ z.disk = st.disk
      /\ z.loading = st.loading /\ z.http = st.http /\ z.feed = st.feed /\ z.rows = st.rows
      /\ z.stamp = st.stamp /\ z.tasks = st.tasks /\ z.queue = st.queue
    BY DEF States
<1> QED BY <1>1, <1>2, ListSound

LEMMA FoundBrings ==
    ASSUME NEW st \in States, NEW s \in Sources, NEW v \in 0..MaxVersion, Sound(st, {s}),
           st.active \subseteq Listing(st)
    PROVE  Brings(st, Store([st EXCEPT !.sha[s] = v], s, v), s)
<1>1. PICK w : w = [st EXCEPT !.sha[s] = v]
    OBVIOUS
<1>2. (\A u : Cared(w, u) <=> Cared(st, u)) /\ Sound(w, {s}) /\ Same(st, w)
    BY <1>1, ShaSound
<1>3. w \in States /\ w.active \subseteq Listing(w)
    BY <1>2 DEF Same, Listing
<1>4. PICK z : z = Store(w, s, v)
    OBVIOUS
<1>5. Brings(w, z, s)
    BY <1>2, <1>3, <1>4, StoreBrings
<1>6. Brings(st, z, s)
    BY <1>2, <1>5 DEF Brings, Same
<1> QED BY <1>1, <1>4, <1>6

LEMMA DropPreviewSound ==
    ASSUME NEW st \in States
    PROVE  /\ \A u : Cared(DropPreview(st), u) <=> Cared(st, u)
           /\ \A X : Sound(st, X) => Sound(DropPreview(st), X)
           /\ Same(st, DropPreview(st))
<1>1. PICK z : z = [st EXCEPT !.preview = FALSE, !.merge = NoRows, !.merged = NoRows]
    OBVIOUS
<1>2. /\ z.present = st.present /\ z.active = st.active /\ z.disk = st.disk
      /\ z.loading = st.loading /\ z.http = st.http /\ z.feed = st.feed /\ z.rows = st.rows
      /\ z.stamp = st.stamp /\ z.tasks = st.tasks /\ z.queue = st.queue
    BY <1>1 DEF States
<1>3. z \in States
    <2>1. NoRows \in RowTables /\ NoRows \in MergeTables
        BY NoRowsFacts DEF RowTables, MergeTables
    <2> QED BY <1>1, <2>1 DEF States
<1>4. CASE st.preview
    <2>1. DropPreview(st) = z
        BY <1>1, <1>4 DEF DropPreview
    <2> QED BY <1>2, <1>3, <2>1, ListSound
<1>5. CASE ~st.preview
    <2>1. DropPreview(st) = st
        BY <1>5 DEF DropPreview
    <2> QED BY <2>1 DEF Same
<1> QED BY <1>4, <1>5

\* A load ended without rows: what is shown is asked for again.
LEMMA GivenUpKeeps ==
    ASSUME NEW st \in States, NEW s \in Sources, Sound(st, {s}), st.active \subseteq Listing(st),
           NEW d, d = DropPreview([st EXCEPT !.loading = @ \ {s}])
    PROVE  /\ d \in States /\ Marked(d) /\ Same(st, d)
           /\ \A u : u # s /\ Cared(st, u) => Cared(d, u)
           /\ Carries(d, Rebuild(d)) /\ Kept(Rebuild(d))
<1>1. PICK z : z = [st EXCEPT !.loading = @ \ {s}]
    OBVIOUS
<1>2. Grows(st, z) /\ Sound(z, {}) /\ z \in States /\ Same(st, z)
    BY <1>1, UnmarkedSound DEF Grows, Same
<1>3. (\A u : Cared(d, u) <=> Cared(z, u)) /\ Sound(d, {}) /\ Same(z, d)
    BY <1>1, <1>2, DropPreviewSound
<1>4. \A u : Cared(st, u) <=> Cared(z, u)
    <2>1. z.rows = st.rows /\ z.tasks = st.tasks /\ z.feed = st.feed /\ z.http = st.http /\ z.queue = st.queue
        BY <1>1 DEF States
    <2> QED BY <2>1 DEF Cared, Has, Loads, Waits
<1>5. d \in States /\ Marked(d) /\ Same(st, d)
    BY <1>2, <1>3 DEF Same, Marked, Listing
<1> QED BY <1>3, <1>4, <1>5, RebuildKeeps


\* A check brings nothing, and loses nothing.
LEMMA CheckSound ==
    ASSUME NEW st \in States, NEW s \in Sources
    PROVE  LET z == Watch(st, "check", s, NotYet, FALSE) IN
           /\ Grows(st, z) /\ (Solid(st) => Solid(z)) /\ (Sound(st, {}) => Sound(z, {}))
           /\ z.rows = st.rows /\ z.loading = st.loading /\ z.http = st.http /\ z.feed = st.feed
           /\ z.queue = st.queue /\ z.stamp = st.stamp
           /\ DOMAIN st.tasks \subseteq DOMAIN z.tasks
<1>0. PICK z : z = Watch(st, "check", s, NotYet, FALSE)
    OBVIOUS
<1>1. PICK t : t = [kind |-> "check", source |-> s, known |-> st.sha[s], got |-> NotYet, first |-> FALSE]
    OBVIOUS
<1>2. z \in States
    <2>1. NotYet \in Finds("check") /\ NotYet \in NotYet..Hollow /\ FALSE \in BOOLEAN
          /\ "check" \in {"disk", "plugin", "check", "prepare"}
        BY NotYetFacts
    <2> QED BY <1>0, <2>1, WatchSheds DEF Sheds
<1>3. PICK b : b = st.tasks (+) One(t)
    OBVIOUS
<1>4. DOMAIN b = DOMAIN st.tasks \cup {t}
    <2>1. st.tasks \in TaskBags
        BY DEF States
    <2> QED BY <1>3, <2>1, BagDomains
<1>5. z = [st EXCEPT !.tasks = b]
    BY <1>0, <1>1, <1>3 DEF Watch
<1>6. /\ z.present = st.present /\ z.active = st.active /\ z.disk = st.disk /\ z.loading = st.loading
      /\ z.queue = st.queue /\ z.http = st.http /\ z.feed = st.feed /\ z.rows = st.rows
      /\ z.stamp = st.stamp /\ z.tasks = b
    BY <1>5 DEF States
<1>7. t.got # Hollow
    BY <1>1, VersionFacts DEF NotYet
<1>8. \A u : (Has(z, u) <=> Has(st, u)) /\ (Waits(z, u) <=> Waits(st, u)) /\ (Loads(st, u) => Loads(z, u))
    BY <1>4, <1>6 DEF Has, Waits, Loads
<1>9. Solid(st) => Solid(z)
    BY <1>4, <1>6, <1>7 DEF Solid
<1>10. Sound(st, {}) => Sound(z, {})
    BY <1>6, <1>8, <1>9 DEF Sound
<1>11. Grows(st, z)
    BY <1>2, <1>6, <1>8 DEF Grows, Same, Cared
<1> QED BY <1>0, <1>4, <1>6, <1>9, <1>10, <1>11

\* Without http, the request for a source that has its rows is no load.
LEMMA RequestedSound ==
    ASSUME NEW st \in States, NEW s \in Sources, NEW etag \in 0..MaxVersion, Sound(st, {}), Free(st, s),
           NEW z, z = LoadFeed(st, s, etag)
    PROVE  Grows(st, z) /\ Sound(z, {})
<1>1. z \in States
    BY LoadFeedSheds DEF Sheds
<1>2. /\ z.present = st.present /\ z.active = st.active /\ z.disk = st.disk /\ z.loading = st.loading
      /\ z.queue = st.queue /\ z.http = st.http /\ z.feed.source = s /\ z.rows = st.rows
      /\ z.stamp = st.stamp /\ z.tasks = st.tasks
    BY DEF LoadFeed, States
<1>3. \A u : (Has(z, u) <=> Has(st, u)) /\ (Waits(z, u) <=> Waits(st, u))
    BY <1>2 DEF Has, Waits
<1>4. ASSUME NEW u \in Sources, Loads(st, u) PROVE Loads(z, u) \/ Has(st, u)
    <2>1. u # None
        BY VersionFacts DEF Sources, None
    <2> QED BY <1>2, <1>4, <2>1 DEF Loads, Free
<1>5. Sound(z, {})
    <2>1. Solid(z)
        BY <1>2 DEF Sound, Solid
    <2>2. \A u \in st.loading : u \in Sources
        BY DEF States
    <2> QED BY <1>2, <1>3, <1>4, <2>1, <2>2 DEF Sound
<1>6. Grows(st, z)
    BY <1>1, <1>2, <1>3, <1>4 DEF Grows, Same, Cared
<1> QED BY <1>5, <1>6

LEMMA RevalidateCarries ==
    ASSUME NEW st \in States, Marked(st), NEW s \in Sources, NEW etag \in 0..MaxVersion,
           s \notin st.present /\ s \in Linked => Free(st, s)
    PROVE  Carries(st, Revalidate(st, s, etag))
<1>1. Sound(st, {}) /\ st.active \subseteq Sources
    BY DEF Marked, States
<1>2. CASE s \in st.present
    <2>1. PICK z : z = Watch(st, "check", s, NotYet, FALSE)
        OBVIOUS
    <2>2. Revalidate(st, s, etag) = z
        BY <1>2, <2>1 DEF Revalidate
    <2>3. Grows(st, z) /\ Sound(z, {})
        BY <1>1, <2>1, CheckSound
    <2> QED BY <1>1, <2>2, <2>3 DEF Carries, Grows
<1>3. CASE s \notin st.present /\ s \in Linked /\ Has(st, s)
    <2>1. PICK z : z = LoadFeed(st, s, etag)
        OBVIOUS
    <2>2. Revalidate(st, s, etag) = z
        BY <1>3, <2>1 DEF Revalidate
    <2>3. Grows(st, z) /\ Sound(z, {})
        BY <1>1, <1>3, <2>1, RequestedSound
    <2> QED BY <1>1, <2>2, <2>3 DEF Carries, Grows
<1>4. CASE s \notin st.present /\ s \in Linked /\ ~Has(st, s)
    <2>1. PICK m : m = [st EXCEPT !.loading = @ \cup {s}]
        OBVIOUS
    <2>2. /\ m \in States /\ m.present = st.present /\ m.active = st.active /\ m.disk = st.disk
          /\ m.loading = st.loading \cup {s} /\ m.http = st.http /\ m.feed = st.feed /\ m.rows = st.rows
          /\ m.stamp = st.stamp /\ m.tasks = st.tasks /\ m.queue = st.queue
        BY <2>1 DEF States
    <2>3. \A u : (Has(m, u) <=> Has(st, u)) /\ (Loads(m, u) <=> Loads(st, u)) /\ (Waits(m, u) <=> Waits(st, u))
        BY <2>2 DEF Has, Loads, Waits
    <2>4. Sound(m, {s}) /\ Free(m, s)
        <3>1. Solid(m)
            BY <1>1, <2>2 DEF Sound, Solid
        <3>2. Free(m, s)
            BY <1>4, <2>2, <2>3 DEF Free
        <3> QED BY <1>1, <1>4, <2>2, <2>3, <3>1, <3>2 DEF Sound
    <2>5. PICK f : f = [source |-> s, etag |-> etag]
        OBVIOUS
    <2>6. f \in Feeds /\ f.source = s
        BY <2>5 DEF Feeds
    <2>7. PICK z : z = [m EXCEPT !.http = TRUE, !.feed = f]
        OBVIOUS
    <2>8. Grows(m, z) /\ Sound(z, {})
        BY <2>2, <2>4, <2>6, <2>7, FetchSound
    <2>9. Revalidate(st, s, etag) = z
        <3>1. PICK cold : cold = [st EXCEPT !.http = TRUE, !.loading = @ \cup {s}]
            OBVIOUS
        <3>2. Revalidate(st, s, etag) = LoadFeed(cold, s, etag)
            BY <1>4, <3>1 DEF Revalidate
        <3>3. Revalidate(st, s, etag) = [cold EXCEPT !.feed = f]
            BY <2>5, <3>2 DEF LoadFeed
        <3> QED BY <2>1, <2>7, <3>1, <3>3 DEF States
    <2>10. Carries(st, z)
        BY <1>1, <2>2, <2>3, <2>8 DEF Carries, Grows, Same, Cared
    <2> QED BY <2>9, <2>10
<1>5. CASE s \notin st.present /\ s \notin Linked
    <2>1. Revalidate(st, s, etag) = st
        BY <1>5 DEF Revalidate
    <2> QED BY <2>1, CarriesItself
<1> QED BY <1>2, <1>3, <1>4, <1>5

\* A source that is loaded anew is asked for when it is shown.
LEMMA RefreshCarries ==
    ASSUME NEW st \in States, Marked(st), NEW s \in Sources
    PROVE  Carries(st, RefreshSource(st, s))
<1>1. PICK f : f = Forget(st, s)
    OBVIOUS
<1>2. /\ f \in States /\ Same(st, f) /\ Sound(f, {}) /\ ~Has(f, s)
      /\ \A u : u # s => (Has(f, u) <=> Has(st, u))
      /\ \A u : Loads(f, u) <=> Loads(st, u)
      /\ f.queue = st.queue
    BY <1>1, ForgetSound DEF Marked, Same
<1>3. PICK h, d, q : h = [f.sha EXCEPT ![s] = None] /\ d = [f.disk EXCEPT ![s] = None]
                     /\ q = Only(f.queue, Sources \ {s})
    OBVIOUS
<1>4. h \in Shas /\ d \in Disks
    BY <1>2, <1>3, VersionFacts DEF States, Shas, Disks
<1>5. q \in Queues /\ ToSet(q) = ToSet(st.queue) \ {s}
    <2>1. f.queue \in Seq(Sources) /\ IsInjective(f.queue)
        BY <1>2 DEF States, Queues
    <2>2. q \in Queues /\ ToSet(q) = ToSet(f.queue) \cap (Sources \ {s})
        BY <1>3, <2>1, OnlyFacts DEF Queues
    <2>3. ToSet(f.queue) \subseteq Sources
        BY <2>1 DEF ToSet
    <2> QED BY <1>2, <2>2, <2>3
<1>6. PICK z : z = [f EXCEPT !.sha = h, !.disk = d, !.loading = @ \ {s}, !.queue = q]
    OBVIOUS
<1>7. /\ z \in States /\ z.present = f.present /\ z.active = f.active /\ z.disk = d
      /\ z.loading = f.loading \ {s} /\ z.http = f.http /\ z.feed = f.feed /\ z.rows = f.rows
      /\ z.stamp = f.stamp /\ z.tasks = f.tasks /\ z.queue = q
    BY <1>2, <1>4, <1>5, <1>6 DEF States
<1>8. RefreshSource(st, s) = IF s \in st.active THEN Request(z, s) ELSE z
    <2>1. z = [f EXCEPT !.sha[s] = None, !.disk[s] = None, !.loading = @ \ {s}, !.queue = Only(@, Sources \ {s})]
        BY <1>2, <1>3, <1>6 DEF States
    <2> QED BY <1>1, <2>1 DEF RefreshSource
<1>9. \A u : (Has(z, u) <=> Has(f, u)) /\ (Loads(z, u) <=> Loads(f, u)) /\ (u # s => (Waits(z, u) <=> Waits(f, u)))
    BY <1>2, <1>5, <1>7 DEF Has, Loads, Waits
<1>10. Sound(z, {})
    <2>1. \A u \in Sources : d[u] # Hollow
        <3>1. \A u \in Sources : f.disk[u] # Hollow
            BY <1>2 DEF Sound, Solid
        <3> QED BY <1>2, <1>3, <3>1, VersionFacts DEF States, Disks
    <2>2. Solid(z)
        BY <1>2, <1>7, <2>1 DEF Sound, Solid
    <2>3. ASSUME NEW u \in z.loading PROVE ~Has(z, u) /\ (Loads(z, u) \/ (u \notin Plugins /\ Waits(z, u)))
        <3>1. u \in f.loading /\ u # s
            BY <1>7, <2>3
        <3> QED BY <1>2, <1>9, <3>1 DEF Sound
    <2> QED BY <1>2, <1>7, <1>9, <2>2, <2>3 DEF Sound
<1>11. Same(st, z) /\ \A u \in Sources : u # s /\ Cared(st, u) => Cared(z, u)
    BY <1>2, <1>7, <1>9 DEF Same, Cared, Waits
<1>12. Marked(z) /\ st.active \subseteq Sources
    BY <1>10, <1>11 DEF Marked, Same, Listing, States
<1>13. CASE s \in st.active
    <2>1. PICK y : y = Request(z, s)
        OBVIOUS
    <2>2. s \in Listing(z) /\ s \in z.active
        BY <1>11, <1>12, <1>13 DEF Marked, Same
    <2>3. Carries(z, y) /\ Cared(y, s)
        BY <1>7, <1>12, <2>1, <2>2, RequestCarries
    <2>4. Carries(st, y)
        BY <1>11, <1>12, <2>3 DEF Carries, Same
    <2> QED BY <1>8, <1>13, <2>1, <2>4
<1>14. CASE s \notin st.active
    <2>1. Carries(st, z)
        BY <1>10, <1>11, <1>12, <1>14 DEF Carries
    <2> QED BY <1>8, <1>14, <2>1
<1> QED BY <1>13, <1>14

LEMMA RefreshedCarries ==
    ASSUME NEW st \in States, Marked(st), NEW S
    PROVE  Carries(st, Each(S, st, RefreshSource))
<1> DEFINE n == SourceCount
<1>1. PICK f : RefreshedRun(f, S, st)
    BY RefreshedSteps
<1>2. /\ f[0] = st /\ Each(S, st, RefreshSource) = f[n]
      /\ \A k \in 0..n : f[k] \in States
      /\ \A k \in 1..n : f[k] = IF k \in S THEN RefreshSource(f[k - 1], k) ELSE f[k - 1]
    BY <1>1 DEF RefreshedRun, Sheds
<1>3. n \in Nat /\ Sources = 1..n /\ n \in 0..n
    BY VersionFacts DEF Sources
<1> DEFINE A == {k \in 0..n : Carries(st, f[k])}
<1>4. 0 \in A
    BY <1>2, <1>3, CarriesItself
<1>5. ASSUME NEW k \in 0..(n - 1), k \in A PROVE k + 1 \in A
    <2>1. k + 1 \in Sources /\ k + 1 \in 1..n /\ (k + 1) - 1 = k /\ k + 1 \in 0..n
        BY <1>3
    <2>2. PICK y, z : y = f[k] /\ z = f[k + 1]
        OBVIOUS
    <2>3. Carries(st, y)
        BY <1>5, <2>2
    <2>4. z = IF k + 1 \in S THEN RefreshSource(y, k + 1) ELSE y
        BY <1>2, <2>1, <2>2
    <2>5. y \in States /\ Marked(y)
        BY <2>3, CarriesMarked DEF Carries, Same
    <2>6. Carries(y, RefreshSource(y, k + 1))
        BY <2>1, <2>5, RefreshCarries
    <2>7. Carries(st, z)
        BY <2>3, <2>4, <2>6, CarriesTwice
    <2> QED BY <2>1, <2>2, <2>7
<1>6. n \in A
    <2> HIDE DEF A, n
    <2>1. \A k \in 0..n : k \in A
        BY <1>3, <1>4, <1>5, Upward
    <2> QED BY <1>3, <2>1
<1> QED BY <1>2, <1>6


\* The stale sources, which have rows, are checked: only requests and workers are new.
Checks(st, S, z) ==
    /\ z \in States /\ z.active = st.active /\ z.present = st.present /\ z.rows = st.rows /\ z.loading = st.loading
    /\ z.http = st.http /\ z.queue = st.queue /\ z.stamp = st.stamp
    /\ z.feed.source \in {st.feed.source} \cup S
    /\ DOMAIN st.tasks \subseteq DOMAIN z.tasks
    /\ Solid(z)

LEMMA RevalidateChecks ==
    ASSUME NEW st, NEW S \in SUBSET Sources, \A u \in S : Has(st, u), NEW y, Checks(st, S, y), NEW s \in S
    PROVE  Checks(st, S, Revalidate(y, s, None))
<1>1. y \in States /\ Has(y, s) /\ s \in Sources
    BY DEF Checks, Has
<1>2. CASE s \in y.present
    <2>1. PICK z : z = Watch(y, "check", s, NotYet, FALSE)
        OBVIOUS
    <2>2. Revalidate(y, s, None) = z
        BY <1>2, <2>1 DEF Revalidate
    <2>3. /\ Grows(y, z) /\ (Solid(y) => Solid(z))
          /\ z.rows = y.rows /\ z.loading = y.loading /\ z.http = y.http /\ z.feed = y.feed
          /\ z.queue = y.queue /\ z.stamp = y.stamp
          /\ DOMAIN y.tasks \subseteq DOMAIN z.tasks
        BY <1>1, <2>1, CheckSound
    <2>4. Checks(st, S, z)
        BY <2>3 DEF Checks, Grows, Same
    <2> QED BY <2>2, <2>4
<1>3. CASE s \notin y.present /\ s \in Linked
    <2>1. PICK z : z = LoadFeed(y, s, None)
        OBVIOUS
    <2>2. Revalidate(y, s, None) = z
        BY <1>1, <1>3, <2>1 DEF Revalidate
    <2>3. z \in States
        BY <1>1, <2>1, LoadFeedSheds, VersionFacts DEF Sheds
    <2>4. /\ z.present = y.present /\ z.active = y.active /\ z.disk = y.disk /\ z.loading = y.loading
          /\ z.queue = y.queue /\ z.http = y.http /\ z.feed.source = s /\ z.rows = y.rows
          /\ z.stamp = y.stamp /\ z.tasks = y.tasks
        BY <1>1, <2>1 DEF LoadFeed, States
    <2>5. Checks(st, S, z)
        BY <2>3, <2>4 DEF Checks, Solid
    <2> QED BY <2>2, <2>5
<1>4. CASE s \notin y.present /\ s \notin Linked
    BY <1>4 DEF Revalidate
<1> QED BY <1>2, <1>3, <1>4

LEMMA StaleChecks ==
    ASSUME NEW st \in States, Marked(st), NEW S \in SUBSET Sources, \A u \in S : Has(st, u)
    PROVE  Checks(st, S, Each(S, st, LAMBDA y, s : Revalidate(y, s, None)))
<1> DEFINE n == SourceCount
<1>1. PICK f : StaleRun(f, S, st)
    BY StaleSteps
<1>2. /\ f[0] = st /\ Each(S, st, LAMBDA y, s : Revalidate(y, s, None)) = f[n]
      /\ \A k \in 1..n : f[k] = IF k \in S THEN Revalidate(f[k - 1], k, None) ELSE f[k - 1]
    BY <1>1 DEF StaleRun
<1>3. n \in Nat /\ Sources = 1..n /\ n \in 0..n
    BY VersionFacts DEF Sources
<1> DEFINE A == {k \in 0..n : Checks(st, S, f[k])}
<1>4. 0 \in A
    <2>1. st.feed.source \in {st.feed.source} \cup S /\ Solid(st)
        BY DEF Marked, Sound
    <2>2. Checks(st, S, st)
        BY <2>1 DEF Checks
    <2>3. Checks(st, S, f[0])
        BY <1>2, <2>2, Zenon
    <2> QED BY <1>3, <2>3
<1>5. ASSUME NEW k \in 0..(n - 1), k \in A PROVE k + 1 \in A
    <2>1. k + 1 \in 1..n /\ (k + 1) - 1 = k /\ k + 1 \in 0..n
        BY <1>3
    <2>2. PICK y, z : y = f[k] /\ z = f[k + 1]
        OBVIOUS
    <2>3. Checks(st, S, y)
        BY <1>5, <2>2
    <2>4. z = IF k + 1 \in S THEN Revalidate(y, k + 1, None) ELSE y
        BY <1>2, <2>1, <2>2
    <2>5. k + 1 \in S => Checks(st, S, Revalidate(y, k + 1, None))
        BY <2>3, RevalidateChecks
    <2>6. Checks(st, S, z)
        BY <2>3, <2>4, <2>5
    <2> QED BY <2>1, <2>2, <2>6
<1>6. n \in A
    <2> HIDE DEF A, n
    <2>1. \A k \in 0..n : k \in A
        BY <1>3, <1>4, <1>5, Upward
    <2> QED BY <1>3, <2>1
<1>7. PICK z : z = f[n]
    OBVIOUS
<1>8. Checks(st, S, z)
    BY <1>6, <1>7
<1> QED BY <1>2, <1>7, <1>8

\* The selection follows the settings: what is new in it is asked for.
LEMMA SelectAllKeeps ==
    ASSUME NEW st \in States, Sound(st, {})
    PROVE  /\ SelectAll(st) \in States /\ Marked(SelectAll(st)) /\ SelectAll(st).present = st.present
           /\ Kept(st) => Kept(SelectAll(st))
<1>1. PICK selected : selected = enabled' \cap (st.present \cup (Sources \ Plugins))
    OBVIOUS
<1>2. selected \in SUBSET Sources /\ selected \subseteq Listing(st)
    BY <1>1, SourceAssumption DEF States, Listing
<1>3. PICK z : z = [st EXCEPT !.active = selected]
    OBVIOUS
<1>4. SelectAll(st) = IF selected = st.active THEN st ELSE Rebuild(z)
    BY <1>1, <1>3 DEF SelectAll
<1>5. CASE selected = st.active
    <2>1. Marked(st)
        BY <1>2, <1>5 DEF Marked
    <2> QED BY <1>4, <1>5, <2>1
<1>6. CASE selected # st.active
    <2>1. /\ z \in States /\ z.present = st.present /\ z.active = selected /\ z.disk = st.disk
          /\ z.loading = st.loading /\ z.http = st.http /\ z.feed = st.feed /\ z.rows = st.rows
          /\ z.stamp = st.stamp /\ z.tasks = st.tasks /\ z.queue = st.queue
        BY <1>2, <1>3 DEF States
    <2>2. Sound(z, {})
        <3>1. \A u : (Has(z, u) <=> Has(st, u)) /\ (Loads(z, u) <=> Loads(st, u)) /\ (Waits(z, u) <=> Waits(st, u))
            BY <2>1 DEF Has, Loads, Waits
        <3>2. Solid(z)
            BY <2>1 DEF Sound, Solid
        <3> QED BY <2>1, <3>1, <3>2 DEF Sound
    <2>3. Marked(z)
        BY <1>2, <2>1, <2>2 DEF Marked, Listing
    <2>4. PICK y : y = Rebuild(z)
        OBVIOUS
    <2>5. Carries(z, y) /\ Kept(y) /\ Marked(y)
        BY <2>1, <2>3, <2>4, RebuildKeeps, CarriesMarked
    <2> QED BY <1>4, <1>6, <2>1, <2>4, <2>5 DEF Carries, Same
<1> QED BY <1>5, <1>6

\* What has no rows has no time stamp, and is noticed.
LEMMA EnsureActiveKeeps ==
    ASSUME NEW st \in States, Marked(st)
    PROVE  /\ EnsureActive(st) \in States /\ Marked(EnsureActive(st)) /\ Kept(EnsureActive(st))
<1>1. PICK many \in BOOLEAN : many <=> Cardinality(st.active) > 1
    OBVIOUS
<1>2. PICK z : z = EnsureActive(st)
    OBVIOUS
<1>3. PICK y : y = Rebuild(st)
    OBVIOUS
<1>4. y \in States /\ Marked(y) /\ Kept(y)
    BY <1>3, RebuildKeeps, CarriesMarked DEF Carries, Same
<1>5. z \in {st, y}
    BY <1>2, <1>3, Zenon DEF EnsureActive
<1>6. ASSUME z = st, z # y PROVE Kept(st)
    <2>1. CASE st.active = {}
        BY <2>1 DEF Kept
    <2>2. CASE st.active # {}
        <3>1. ~ \E s \in st.active :
                  \/ ~Has(st, s) /\ (many \/ st.merged = NoRows \/ st.stamp[s] = "none")
                  \/ Has(st, s) /\ many /\ st.rows[s] = None
            <4> DEFINE Lacks(s) ==
                          \/ ~Has(st, s) /\ (many \/ st.merged = NoRows \/ st.stamp[s] = "none")
                          \/ Has(st, s) /\ many /\ st.rows[s] = None
            <4>1. z = IF \E s \in st.active : Lacks(s) THEN y ELSE st
                BY <1>1, <1>2, <1>3, <2>2 DEF EnsureActive
            <4> QED BY <1>6, <4>1
        <3>2. \A s \in st.active : s \in Sources /\ (~Has(st, s) => st.stamp[s] = "none")
            BY DEF Marked, Sound, States
        <3> QED BY <3>1, <3>2 DEF Kept, Cared
    <2> QED BY <2>1, <2>2
<1> QED BY <1>2, <1>4, <1>5, <1>6

\* Nothing is marked as loading when the results are lost.
LEMMA DetachSound ==
    ASSUME NEW st \in States, Sound(st, {})
    PROVE  Sound(Detach(st), {}) /\ Same(st, Detach(st))
<1>1. PICK h \in BOOLEAN : h = (st.http /\ st.loading = {})
    OBVIOUS
<1>2. PICK z : z = [st EXCEPT !.tasks = EmptyBag, !.loading = {}, !.http = h]
    OBVIOUS
<1>3. z = Detach(st)
    BY <1>1, <1>2, Zenon DEF Detach
<1>4. z \in States
    BY <1>3, DetachSheds DEF Sheds
<1>5. /\ z.present = st.present /\ z.active = st.active /\ z.disk = st.disk /\ z.loading = {}
      /\ z.rows = st.rows /\ z.stamp = st.stamp /\ z.tasks = EmptyBag
    BY <1>2 DEF States
<1>6. DOMAIN z.tasks = {}
    BY <1>5 DEF EmptyBag, SetToBag
<1>7. Sound(z, {})
    BY <1>5, <1>6 DEF Sound, Solid, Has
<1> QED BY <1>3, <1>4, <1>5, <1>7 DEF Same

\* The plugins that are loaded are others, and the selection follows them.
LEMMA PluginsKept ==
    ASSUME NEW st \in States, Sound(st, {}), NEW left \in SUBSET Plugins
    PROVE  LET z == EnsureActive(SelectAll([st EXCEPT !.present = left]))
           IN  z \in States /\ Marked(z) /\ Kept(z)
<1>1. PICK y : y = [st EXCEPT !.present = left]
    OBVIOUS
<1>2. /\ y \in States /\ y.disk = st.disk /\ y.active = st.active
      /\ y.loading = st.loading /\ y.http = st.http /\ y.feed = st.feed /\ y.rows = st.rows
      /\ y.stamp = st.stamp /\ y.tasks = st.tasks /\ y.queue = st.queue
    BY <1>1 DEF States
<1>3. Sound(y, {})
    <2>1. \A u : (Has(y, u) <=> Has(st, u)) /\ (Loads(y, u) <=> Loads(st, u)) /\ (Waits(y, u) <=> Waits(st, u))
        BY <1>2 DEF Has, Loads, Waits
    <2>2. Solid(y)
        BY <1>2 DEF Sound, Solid
    <2> QED BY <1>2, <2>1, <2>2 DEF Sound
<1>4. SelectAll(y) \in States /\ Marked(SelectAll(y))
    BY <1>2, <1>3, SelectAllKeeps
<1> QED BY <1>1, <1>4, EnsureActiveKeeps


----------------------------------------------------------------------------
(* The steps lose no load *)
LEMMA BecomesKept ==
    ASSUME NEW z \in States, Become(z), Marked(z), removing' = None => Kept(z)
    PROVE  LoadInv'
<1>1. z = State'
    BY DEF States, State, Become
<1>2. Marked(State') /\ (removing' = None => Kept(State'))
    BY <1>1
<1> QED BY <1>2 DEF LoadInv

LEMMA InvFacts ==
    ASSUME CatalogInv, LoadInv
    PROVE  /\ State \in States /\ Marked(State) /\ Sound(State, {}) /\ (removing = None => Kept(State))
           /\ active \subseteq Listing(State) /\ active \subseteq Sources
<1>1. State \in States /\ active \in SUBSET Sources
    BY StateFacts
<1>2. State.active = active
    BY DEF State
<1> QED BY <1>1, <1>2 DEF LoadInv, Marked

\* A handler that carries what is on its way.
LEMMA CarriedOn ==
    ASSUME CatalogInv, LoadInv, NEW z, Become(z), Carries(State, z), removing' = removing
    PROVE  LoadInv'
<1>1. Marked(z) /\ (removing = None => Kept(z)) /\ z \in States
    BY InvFacts, CarriesMarked DEF Carries, Same
<1> QED BY <1>1, BecomesKept

LEMMA StartLoads ==
    ASSUME CatalogInv, LoadInv, Start
    PROVE  LoadInv'
<1>1. PICK z : z = EnsureActive(SelectAll(State))
    OBVIOUS
<1>2. Become(z) /\ z \in States /\ Marked(z) /\ Kept(z)
    BY <1>1, InvFacts, SelectAllKeeps, EnsureActiveKeeps DEF Start
<1> QED BY <1>2, BecomesKept

LEMMA ToggleLoads ==
    ASSUME CatalogInv, LoadInv, NEW s \in Sources, Toggle(s)
    PROVE  LoadInv'
<1>1. PICK z : z = SelectAll(State)
    OBVIOUS
<1>2. Become(z) /\ z \in States /\ Marked(z) /\ (removing = None => Kept(z)) /\ removing' = removing
    BY <1>1, InvFacts, SelectAllKeeps DEF Toggle
<1> QED BY <1>2, BecomesKept

LEMMA RefreshLoads ==
    ASSUME CatalogInv, LoadInv, Refresh
    PROVE  LoadInv'
<1>1. removing' = removing
    BY DEF Refresh
<1>2. CASE Become(Each(active, State, RefreshSource))
    <2>1. PICK z : z = Each(active, State, RefreshSource)
        OBVIOUS
    <2>2. Carries(State, z)
        BY <2>1, InvFacts, RefreshedCarries
    <2> QED BY <1>1, <1>2, <2>1, <2>2, CarriedOn
<1>3. CASE \E s \in enabled \cap Listed : Become(RefreshSource(State, s))
    <2>1. PICK s \in enabled \cap Listed : Become(RefreshSource(State, s))
        BY <1>3
    <2>2. s \in Sources
        BY StateFacts
    <2>3. PICK z : z = RefreshSource(State, s)
        OBVIOUS
    <2>4. Carries(State, z)
        BY <2>2, <2>3, InvFacts, RefreshCarries
    <2> QED BY <1>1, <2>1, <2>3, <2>4, CarriedOn
<1> QED BY <1>2, <1>3 DEF Refresh

LEMMA EditLoads ==
    ASSUME CatalogInv, LoadInv, NEW s \in Sources, Edit(s)
    PROVE  LoadInv'
<1>1. PICK f : f = Forget(State, s)
    OBVIOUS
<1>2. /\ f \in States /\ Same(State, f) /\ Sound(f, {})
      /\ \A u : u # s /\ Cared(State, u) => Cared(f, u)
    BY <1>1, InvFacts, ForgetSound DEF Same, Cared, Waits
<1>3. PICK w : w = [f EXCEPT !.sha[s] = None]
    OBVIOUS
<1>4. (\A u : Cared(w, u) <=> Cared(f, u)) /\ Sound(w, {}) /\ Same(f, w)
    BY <1>2, <1>3, ShaSound, VersionFacts
<1>5. w \in States /\ Marked(w) /\ w.active = active /\ \A u : u # s /\ Cared(State, u) => Cared(w, u)
    <2>1. State.active = active
        BY DEF State
    <2> QED BY <1>2, <1>4, <2>1, InvFacts DEF Same, Marked, Listing
<1>6. Become(IF s \in active THEN Rebuild(w) ELSE w) /\ removing' = removing
    BY <1>1, <1>3 DEF Edit
<1>7. CASE s \in active
    <2>1. PICK z : z = Rebuild(w)
        OBVIOUS
    <2>2. z \in States /\ Marked(z) /\ Kept(z)
        BY <1>5, <2>1, RebuildKeeps, CarriesMarked DEF Carries, Same
    <2> QED BY <1>6, <1>7, <2>1, <2>2, BecomesKept
<1>8. CASE s \notin active
    <2>1. removing = None => Kept(w)
        <3>1. State.active = active
            BY DEF State
        <3> QED BY <1>5, <1>8, <3>1, InvFacts DEF Kept
    <2> QED BY <1>5, <1>6, <1>8, <2>1, BecomesKept
<1> QED BY <1>7, <1>8

LEMMA RequestLoadLoads ==
    ASSUME CatalogInv, LoadInv, NEW s \in Sources, RequestLoad(s)
    PROVE  LoadInv'
<1>1. PICK z : z = Request(State, s)
    OBVIOUS
<1>2. s \in Listing(State)
    BY DEF RequestLoad, Listed, Listing, State
<1>3. Carries(State, z)
    BY <1>1, <1>2, InvFacts, RequestCarries
<1>4. Become(z) /\ removing' = removing
    BY <1>1 DEF RequestLoad
<1> QED BY <1>3, <1>4, CarriedOn

LEMMA RemovalBeginsLoads ==
    ASSUME CatalogInv, LoadInv, NEW p \in Plugins, RemovalBegins(p)
    PROVE  LoadInv'
<1>1. PICK z : z = Detach(State)
    OBVIOUS
<1>2. z \in States /\ Marked(z)
    BY <1>1, InvFacts, DetachSound DEF Same, Marked, Listing
<1>3. Become(z) /\ removing' # None
    <2>1. p # None
        BY SourceAssumption DEF Sources, None
    <2> QED BY <1>1, <2>1 DEF RemovalBegins
<1> QED BY <1>2, <1>3, BecomesKept

LEMMA RemovalEndsLoads ==
    ASSUME CatalogInv, LoadInv, Faults = {}, RemovalEnds
    PROVE  LoadInv'
<1>1. PICK refused \in {FALSE} \cup {"removal refused" \in Faults}, left \in {present, present \ {removing}} :
          Become(IF refused THEN State
                 ELSE EnsureActive(SelectAll([Detach(State) EXCEPT !.present = left])))
    BY DEF RemovalEnds
<1>2. ~refused
    OBVIOUS
<1>3. PICK d : d = Detach(State)
    OBVIOUS
<1>4. d \in States /\ Sound(d, {})
    BY <1>3, InvFacts, DetachSound DEF Same
<1>5. left \in SUBSET Plugins
    BY StateFacts
<1>6. PICK z : z = EnsureActive(SelectAll([d EXCEPT !.present = left]))
    OBVIOUS
<1>7. z \in States /\ Marked(z) /\ Kept(z)
    BY <1>4, <1>5, <1>6, PluginsKept
<1>8. Become(z)
    BY <1>1, <1>2, <1>3, <1>6
<1> QED BY <1>7, <1>8, BecomesKept

LEMMA PluginInstalledLoads ==
    ASSUME CatalogInv, LoadInv, NEW p \in Plugins, PluginInstalled(p)
    PROVE  LoadInv'
<1>1. PICK u : u = IF p \in present THEN Detach(State) ELSE State
    OBVIOUS
<1>2. u \in States /\ Sound(u, {})
    BY <1>1, InvFacts, DetachSound DEF Same
<1>3. PICK left : left = u.present \cup {p}
    OBVIOUS
<1>4. left \in SUBSET Plugins
    BY <1>2, <1>3 DEF States
<1>5. PICK z : z = EnsureActive(SelectAll([u EXCEPT !.present = left]))
    OBVIOUS
<1>6. z \in States /\ Marked(z) /\ Kept(z)
    BY <1>2, <1>4, <1>5, PluginsKept
<1>7. Become(z)
    BY <1>1, <1>3, <1>5 DEF PluginInstalled
<1> QED BY <1>6, <1>7, BecomesKept

LEMMA PublishLoads ==
    ASSUME CatalogInv, LoadInv, NEW s \in Sources, Publish(s)
    PROVE  LoadInv'
<1>1. Carries(State, State)
    BY InvFacts, CarriesItself
<1> QED BY <1>1, CarriedOn DEF Publish

LEMMA ExpireLoads ==
    ASSUME CatalogInv, LoadInv, NEW s \in Sources, Expire(s)
    PROVE  LoadInv'
<1>1. PICK x : x = [stamp EXCEPT ![s] = "stale"]
    OBVIOUS
<1>2. x \in Stamps /\ \A u \in Sources : x[u] = IF u = s THEN "stale" ELSE stamp[u]
    BY <1>1, StateFacts DEF Stamps
<1>3. PICK z : z = [State EXCEPT !.stamp = x]
    OBVIOUS
<1>4. /\ z \in States /\ z.present = State.present /\ z.disk = State.disk /\ z.active = State.active
      /\ z.loading = State.loading /\ z.http = State.http /\ z.feed = State.feed /\ z.rows = State.rows
      /\ z.stamp = x /\ z.tasks = State.tasks /\ z.queue = State.queue
    BY <1>2, <1>3, StateFacts DEF States
<1>5. \A u : (Has(z, u) <=> Has(State, u)) /\ (Loads(z, u) <=> Loads(State, u)) /\ (Waits(z, u) <=> Waits(State, u))
    BY <1>4 DEF Has, Loads, Waits
<1>6. Has(State, s)
    <2>1. stamp[s] = "fresh" /\ State.stamp = stamp
        BY DEF Expire, State
    <2> QED BY <2>1, InvFacts DEF Sound
<1>7. Sound(z, {})
    <2>1. Solid(z)
        BY <1>4, InvFacts DEF Sound, Solid
    <2>2. State.stamp = stamp
        BY DEF State
    <2> QED BY <1>2, <1>4, <1>5, <1>6, <2>1, <2>2, InvFacts DEF Sound
<1>8. Carries(State, z)
    BY <1>4, <1>5, <1>7 DEF Carries, Same, Cared
<1>9. Become(z) /\ removing' = removing
    <2>1. State' = z
        BY <1>1, <1>3 DEF Expire, State
    <2> QED BY <2>1 DEF Become, State, Expire
<1> QED BY <1>8, <1>9, CarriedOn

LEMMA RefreshStaleLoads ==
    ASSUME CatalogInv, LoadInv, Faults = {}, RefreshStale
    PROVE  LoadInv'
<1>1. PICK z : z = Each(Stale, State, LAMBDA y, s : Revalidate(y, s, None))
    OBVIOUS
<1>2. Stale \in SUBSET Sources /\ \A u \in Stale : Has(State, u)
    BY StateFacts DEF Stale
<1>3. Checks(State, Stale, z)
    BY <1>1, <1>2, InvFacts, StaleChecks
<1>4. Become(z) /\ removing' = removing /\ ~CutOff(feed)
    BY <1>1 DEF RefreshStale, Outside, Whole
<1>5. z.feed.source \in {feed.source} \cup Stale /\ State.feed = feed
    BY <1>3 DEF Checks, State
<1>6. feed.source \in {None, z.feed.source} \/ feed.source \in DOMAIN z.rows
    <2>1. feed' = z.feed /\ rows' = z.rows
        BY <1>4 DEF Become
    <2>2. None \notin Sources
        BY VersionFacts DEF Sources, None
    <2> QED BY <1>2, <1>4, <1>5, <2>1, <2>2 DEF CutOff
<1>7. \A u : (Has(z, u) <=> Has(State, u)) /\ (Waits(z, u) <=> Waits(State, u))
    BY <1>3 DEF Has, Waits, Checks
<1>8. ASSUME NEW u \in Sources, Loads(State, u) PROVE Loads(z, u) \/ Has(z, u)
    <2>1. u # None
        BY VersionFacts DEF Sources, None
    <2> QED BY <1>3, <1>5, <1>6, <1>8, <2>1 DEF Loads, Has, Checks
<1>9. Sound(z, {})
    <2>1. \A u \in State.loading : u \in Sources
        BY StateFacts DEF State
    <2> QED BY <1>3, <1>7, <1>8, <2>1, InvFacts DEF Sound, Checks
<1>10. Carries(State, z)
    <2>1. State.active \subseteq Sources
        BY InvFacts DEF State
    <2> QED BY <1>3, <1>7, <1>8, <1>9, <2>1 DEF Carries, Same, Cared, Checks
<1> QED BY <1>4, <1>10, CarriedOn


\* The request for a source has ended.
LEMMA FeedEndsFrees ==
    ASSUME CatalogInv, LoadInv, NEW s \in Sources, feed.source = s
    PROVE  Frees(State, FeedEnds(State), s)
<1>1. PICK z : z = FeedEnds(State)
    OBVIOUS
<1>2. z \in States
    BY <1>1, StateFacts, FeedEndsSheds DEF Sheds
<1>3. /\ z.present = State.present /\ z.disk = State.disk /\ z.active = State.active
      /\ z.loading = State.loading /\ z.rows = State.rows
      /\ z.stamp = State.stamp /\ z.tasks = State.tasks /\ z.queue = State.queue
    BY <1>1, StateFacts DEF FeedEnds, States
<1>4. \A u : /\ (Has(z, u) <=> Has(State, u)) /\ (Waits(z, u) <=> Waits(State, u))
             /\ u # s /\ Loads(State, u) => Loads(z, u)
    <2>1. State.feed = feed
        BY DEF State
    <2> QED BY <1>3, <2>1 DEF Has, Waits, Loads
<1>5. Sound(z, {s})
    <2>1. Solid(z)
        BY <1>3, InvFacts DEF Sound, Solid
    <2> QED BY <1>3, <1>4, <2>1, InvFacts DEF Sound
<1> QED BY <1>1, <1>2, <1>3, <1>4, <1>5 DEF Frees, Same, Cared

\* A payload with rows is on disk.
LEMMA SavedSound ==
    ASSUME NEW st \in States, NEW s \in Sources, NEW v \in 0..MaxVersion, NEW z, z = [st EXCEPT !.disk[s] = v]
    PROVE  /\ \A u : Cared(z, u) <=> Cared(st, u)
           /\ \A X : Sound(st, X) => Sound(z, X)
           /\ Same(st, z) /\ z.rows = st.rows /\ z.active = st.active
<1>1. z \in States
    BY OneField, VersionFacts DEF Sheds
<1>2. /\ z.present = st.present /\ z.active = st.active
      /\ z.loading = st.loading /\ z.http = st.http /\ z.feed = st.feed /\ z.rows = st.rows
      /\ z.stamp = st.stamp /\ z.tasks = st.tasks /\ z.queue = st.queue
    BY DEF States
<1>3. \A u : (Has(z, u) <=> Has(st, u)) /\ (Loads(z, u) <=> Loads(st, u)) /\ (Waits(z, u) <=> Waits(st, u))
    BY <1>2 DEF Has, Loads, Waits
<1>4. Solid(st) => Solid(z)
    <2>1. \A u \in Sources : z.disk[u] = IF u = s THEN v ELSE st.disk[u]
        BY DEF States, Disks
    <2>2. v # Hollow
        BY VersionFacts
    <2> QED BY <1>2, <2>1, <2>2 DEF Solid
<1>5. ASSUME NEW X, Sound(st, X) PROVE Sound(z, X)
    BY <1>2, <1>3, <1>4, <1>5 DEF Sound
<1> QED BY <1>1, <1>2, <1>3, <1>5 DEF Same, Cared

\* The load of a source that has its rows ended without new ones, and the queue goes on.
LEMMA TouchedCarries ==
    ASSUME NEW a \in States, Marked(a), NEW st, NEW s \in Sources, Frees(a, st, s), Has(st, s)
    PROVE  Carries(a, ProcessQueue(Touch(st, s)))
<1>1. PICK t : t = Touch(st, s)
    OBVIOUS
<1>2. Brings(st, t, s)
    BY <1>1, FreesMarked, TouchBrings
<1>3. Carries(a, t) /\ Marked(t) /\ t \in States
    BY <1>2, FreesBrings, CarriesMarked DEF Carries, Same
<1> QED BY <1>1, <1>3, ProcessQueueCarries, CarriesTwice

LEMMA FeedAnswersLoads ==
    ASSUME CatalogInv, LoadInv, Faults = {}, NEW s \in Sources, FeedAnswers(s)
    PROVE  LoadInv'
<1>1. PICK v : v = server[s]
    OBVIOUS
<1>2. v \in Versions /\ v \in 0..MaxVersion /\ v # Hollow /\ v \in NotYet..Hollow
    <2>1. server[s] \in Versions
        BY StateFacts
    <2> QED BY <1>1, <2>1, VersionFacts
<1>3. PICK f : f = FeedEnds(State)
    OBVIOUS
<1>4. Frees(State, f, s) /\ f \in States
    BY <1>3, FeedEndsFrees DEF FeedAnswers, Frees, Same
<1>5. PICK d : d = [f EXCEPT !.disk[s] = v]
    OBVIOUS
<1>6. Frees(State, d, s) /\ d \in States /\ d.rows = f.rows
    <2>1. /\ \A u : Cared(d, u) <=> Cared(f, u)
          /\ Sound(f, {s}) => Sound(d, {s})
          /\ Same(f, d) /\ d.rows = f.rows
        BY <1>2, <1>4, <1>5, SavedSound
    <2> QED BY <1>4, <2>1 DEF Frees, Same
<1>7. PICK w : w = [d EXCEPT !.sha[s] = v]
    OBVIOUS
<1>8. Frees(State, w, s) /\ w \in States
    <2>1. (\A u : Cared(w, u) <=> Cared(d, u)) /\ (Sound(d, {s}) => Sound(w, {s})) /\ Same(d, w)
        BY <1>2, <1>6, <1>7, ShaSound
    <2> QED BY <1>6, <2>1 DEF Frees, Same
<1>9. PICK p : p = Watch(w, "prepare", s, v, FALSE)
    OBVIOUS
<1>10. Carries(State, p)
    <2>1. Sound(w, {s})
        BY <1>8 DEF Frees
    <2>2. v \in Finds("prepare") /\ "prepare" \in {"disk", "plugin", "prepare"} /\ FALSE \in BOOLEAN
        BY <1>2 DEF Finds
    <2>3. Grows(w, p) /\ Sound(p, {}) /\ Loads(p, s)
        BY <1>2, <1>8, <1>9, <2>1, <2>2, WatchSound
    <2>4. State.active \subseteq Sources
        BY InvFacts DEF State
    <2> QED BY <1>8, <2>3, <2>4 DEF Frees, Grows, Carries, Same, Cared
<1>11. f.rows = State.rows
    BY <1>3, StateFacts DEF FeedEnds, States
<1>12. Become(IF feed.etag = v THEN ProcessQueue(Touch(f, s))
              ELSE IF sha[s] = v /\ Has(State, s) THEN ProcessQueue(Touch(d, s)) ELSE p)
       /\ removing' = removing /\ (feed.etag = v => Has(State, s))
    BY <1>1, <1>3, <1>5, <1>7, <1>9 DEF FeedAnswers, Outside
<1>13. CASE feed.etag = v
    <2>1. PICK z : z = ProcessQueue(Touch(f, s))
        OBVIOUS
    <2>2. Has(f, s)
        BY <1>11, <1>12, <1>13 DEF Has
    <2>3. Carries(State, z)
        BY <1>4, <2>1, <2>2, InvFacts, TouchedCarries
    <2> QED BY <1>12, <1>13, <2>1, <2>3, CarriedOn
<1>14. CASE feed.etag # v /\ sha[s] = v /\ Has(State, s)
    <2>1. PICK z : z = ProcessQueue(Touch(d, s))
        OBVIOUS
    <2>2. Has(d, s)
        BY <1>6, <1>11, <1>14 DEF Has
    <2>3. Carries(State, z)
        BY <1>6, <2>1, <2>2, InvFacts, TouchedCarries
    <2> QED BY <1>12, <1>14, <2>1, <2>3, CarriedOn
<1>15. CASE feed.etag # v /\ ~(sha[s] = v /\ Has(State, s))
    BY <1>10, <1>12, <1>15, CarriedOn
<1> QED BY <1>13, <1>14, <1>15

LEMMA FeedFailsLoads ==
    ASSUME CatalogInv, LoadInv, Faults = {}, NEW s \in Sources, FeedFails(s)
    PROVE  LoadInv'
<1>1. PICK f : f = FeedEnds(State)
    OBVIOUS
<1>2. Frees(State, f, s) /\ f \in States
    BY <1>1, FeedEndsFrees DEF FeedFails, Frees, Same
<1>3. f.active \subseteq Listing(f) /\ Sound(f, {s})
    BY <1>2, InvFacts, FreesMarked
<1>4. PICK d : d = DropPreview([f EXCEPT !.loading = @ \ {s}])
    OBVIOUS
<1>5. /\ d \in States /\ Marked(d) /\ Same(f, d)
      /\ \A u : u # s /\ Cared(f, u) => Cared(d, u)
      /\ Carries(d, Rebuild(d)) /\ Kept(Rebuild(d))
    BY <1>2, <1>3, <1>4, GivenUpKeeps
<1>6. PICK r : r = Failed(f, s)
    OBVIOUS
<1>7. r = IF s \in f.active THEN Rebuild(d) ELSE d
    BY <1>4, <1>6 DEF Failed
<1>8. State.active \subseteq Sources
    BY InvFacts DEF State
<1>9. Carries(State, r)
    <2>1. CASE s \in f.active
        <3>1. PICK y : y = Rebuild(d)
            OBVIOUS
        <3>2. Carries(d, y) /\ Kept(y) /\ r = y
            BY <1>5, <1>7, <2>1, <3>1
        <3> QED BY <1>2, <1>5, <3>2 DEF Carries, Kept, Same, Frees
    <2>2. CASE s \notin f.active
        <3>1. r = d
            BY <1>7, <2>2
        <3> QED BY <1>2, <1>5, <1>8, <2>2, <3>1 DEF Carries, Same, Frees, Marked
    <2> QED BY <2>1, <2>2
<1>10. PICK z : z = ProcessQueue(r)
    OBVIOUS
<1>11. Carries(State, z)
    <2>1. r \in States /\ Marked(r)
        BY <1>9, InvFacts, CarriesMarked DEF Carries, Same
    <2> QED BY <1>9, <1>10, <2>1, ProcessQueueCarries, CarriesTwice
<1>12. Become(z) /\ removing' = removing
    <2>1. PICK limit \in {FALSE} \cup {"timeout" \in Faults} :
              Become(IF limit THEN [State EXCEPT !.feed = NoFeed] ELSE ProcessQueue(Failed(FeedEnds(State), s)))
        BY DEF FeedFails
    <2>2. ~limit
        OBVIOUS
    <2> QED BY <1>1, <1>6, <1>10, <2>1, <2>2 DEF FeedFails, Outside
<1> QED BY <1>11, <1>12, CarriedOn


\* A worker is gone.
LEMMA WithoutFrees ==
    ASSUME CatalogInv, LoadInv, NEW t \in DOMAIN tasks
    PROVE  /\ Frees(State, Without(t), t.source) /\ Without(t).rows = rows
           /\ Without(t).http = http /\ Without(t).feed = feed
           /\ t.kind = "check" => Carries(State, Without(t))
<1>1. PICK b : b = tasks (-) One(t)
    OBVIOUS
<1>2. DOMAIN b \subseteq DOMAIN tasks /\ DOMAIN tasks \ {t} \subseteq DOMAIN b
    BY <1>1, StateFacts, BagDomains
<1>3. PICK z : z = [State EXCEPT !.tasks = b]
    OBVIOUS
<1>4. z = Without(t) /\ z \in States
    <2>1. z = Without(t)
        BY <1>1, <1>3 DEF Without, State
    <2> QED BY <2>1, TaskFacts
<1>5. /\ z.present = State.present /\ z.disk = State.disk /\ z.active = State.active
      /\ z.loading = State.loading /\ z.http = State.http /\ z.feed = State.feed /\ z.rows = State.rows
      /\ z.stamp = State.stamp /\ z.tasks = b /\ z.queue = State.queue
    BY <1>3, StateFacts DEF States
<1>6. State.tasks = tasks /\ State.rows = rows /\ State.http = http /\ State.feed = feed
    BY DEF State
<1>7. \A u : /\ (Has(z, u) <=> Has(State, u)) /\ (Waits(z, u) <=> Waits(State, u))
             /\ Loads(State, u) => Loads(z, u) \/ (u = t.source /\ t.kind # "check")
    BY <1>2, <1>5, <1>6 DEF Has, Waits, Loads
<1>8. Sound(z, {t.source}) /\ (t.kind = "check" => Sound(z, {}))
    <2>1. Solid(z)
        BY <1>2, <1>5, <1>6, InvFacts DEF Sound, Solid
    <2> QED BY <1>5, <1>7, <2>1, InvFacts DEF Sound
<1>9. Frees(State, z, t.source)
    BY <1>4, <1>5, <1>7, <1>8 DEF Frees, Same, Cared
<1>10. t.kind = "check" => Carries(State, z)
    BY <1>4, <1>5, <1>7, <1>8 DEF Carries, Same, Cared
<1> QED BY <1>4, <1>5, <1>6, <1>9, <1>10

\* One task takes the place of another for the same source.
LEMMA TaskSwapped ==
    ASSUME CatalogInv, LoadInv, NEW t \in DOMAIN tasks, NEW u \in GoodTasks, u.source = t.source,
           u.kind = t.kind, u.got # Hollow
    PROVE  Carries(State, [State EXCEPT !.tasks = (@ (-) One(t)) (+) One(u)])
<1>1. PICK b, c : b = tasks (-) One(t) /\ c = b (+) One(u)
    OBVIOUS
<1>2. b \in TaskBags
    BY <1>1, StateFacts, BagFacts
<1>3. DOMAIN c \subseteq DOMAIN tasks \cup {u} /\ (DOMAIN tasks \ {t}) \cup {u} \subseteq DOMAIN c
    <2>1. DOMAIN b \subseteq DOMAIN tasks /\ DOMAIN tasks \ {t} \subseteq DOMAIN b
        BY <1>1, StateFacts, BagDomains
    <2>2. DOMAIN c = DOMAIN b \cup {u}
        BY <1>1, <1>2, BagDomains
    <2> QED BY <2>1, <2>2
<1>4. PICK z : z = [State EXCEPT !.tasks = c]
    OBVIOUS
<1>5. z = [State EXCEPT !.tasks = (@ (-) One(t)) (+) One(u)]
    BY <1>1, <1>4 DEF State
<1>6. z \in States
    BY <1>5, TaskChanged DEF Sheds
<1>7. /\ z.present = State.present /\ z.disk = State.disk /\ z.active = State.active
      /\ z.loading = State.loading /\ z.http = State.http /\ z.feed = State.feed /\ z.rows = State.rows
      /\ z.stamp = State.stamp /\ z.tasks = c /\ z.queue = State.queue
    BY <1>4, StateFacts DEF States
<1>8. State.tasks = tasks
    BY DEF State
<1>9. \A s : /\ (Has(z, s) <=> Has(State, s)) /\ (Waits(z, s) <=> Waits(State, s))
             /\ Loads(State, s) => Loads(z, s)
    BY <1>3, <1>7, <1>8 DEF Has, Waits, Loads
<1>10. Sound(z, {})
    <2>1. Solid(z)
        BY <1>3, <1>7, <1>8, InvFacts DEF Sound, Solid
    <2> QED BY <1>7, <1>9, <2>1, InvFacts DEF Sound
<1>11. Carries(State, z)
    BY <1>6, <1>7, <1>9, <1>10 DEF Carries, Same, Cared
<1> QED BY <1>5, <1>11

LEMMA ResultCarries ==
    ASSUME CatalogInv, LoadInv, NEW t \in DOMAIN tasks, NEW v \in Finds(t.kind), v \in NotYet..Hollow, v # Hollow
    PROVE  Carries(State, Result(t, v))
<1>1. PICK u : u = [t EXCEPT !.got = v]
    OBVIOUS
<1>2. t \in Tasks
    BY TaskFacts
<1>3. u \in Tasks /\ u.kind = t.kind /\ u.got = v /\ u.source = t.source
    BY <1>1, <1>2 DEF Tasks
<1>4. u \in GoodTasks
    BY <1>3 DEF GoodTasks
<1> QED BY <1>1, <1>3, <1>4, TaskSwapped DEF Result

LEMMA DiskReadLoads ==
    ASSUME CatalogInv, LoadInv, NEW s \in Sources, DiskRead(s)
    PROVE  LoadInv'
<1>1. PICK t \in Running(s) : t.kind = "disk" /\ Become(Result(t, disk[s]))
    BY DEF DiskRead
<1>2. disk[s] \in 0..Hollow /\ disk[s] # Hollow
    <2>1. State.disk = disk
        BY DEF State
    <2> QED BY <2>1, StateFacts, InvFacts DEF Disks, Sound, Solid
<1>3. t \in DOMAIN tasks /\ disk[s] \in Finds(t.kind) /\ disk[s] \in NotYet..Hollow
    BY <1>1, <1>2, RunningFacts
<1>4. PICK z : z = Result(t, disk[s])
    OBVIOUS
<1>5. Carries(State, z)
    BY <1>2, <1>3, <1>4, ResultCarries
<1>6. Become(z) /\ removing' = removing
    BY <1>1, <1>4 DEF DiskRead, Outside
<1> QED BY <1>5, <1>6, CarriedOn

LEMMA PluginLoadsLoads ==
    ASSUME CatalogInv, LoadInv, NEW s \in Sources, PluginLoads(s)
    PROVE  LoadInv'
<1>1. PICK t \in Running(s) : t.kind # "disk" /\ Become([Result(t, server[s]) EXCEPT !.disk[s] = server[s]])
    BY DEF PluginLoads
<1>2. server[s] \in 0..MaxVersion /\ server[s] # Hollow
    BY StateFacts, VersionFacts
<1>3. t \in DOMAIN tasks /\ server[s] \in Finds(t.kind) /\ server[s] \in NotYet..Hollow
    BY <1>1, <1>2, RunningFacts
<1>4. PICK r : r = Result(t, server[s])
    OBVIOUS
<1>5. Carries(State, r) /\ r \in States
    BY <1>2, <1>3, <1>4, ResultCarries DEF Carries, Same
<1>6. PICK z : z = [r EXCEPT !.disk[s] = server[s]]
    OBVIOUS
<1>7. (\A u : Cared(z, u) <=> Cared(r, u)) /\ (Sound(r, {}) => Sound(z, {})) /\ Same(r, z)
    BY <1>2, <1>5, <1>6, SavedSound
<1>8. Carries(State, z)
    BY <1>5, <1>7 DEF Carries, Same
<1>9. Become(z) /\ removing' = removing
    BY <1>1, <1>4, <1>6 DEF PluginLoads, Outside
<1> QED BY <1>8, <1>9, CarriedOn

LEMMA PluginFailsLoads ==
    ASSUME CatalogInv, LoadInv, Faults = {}, NEW s \in Sources, PluginFails(s)
    PROVE  LoadInv'
<1>1. PICK t \in Running(s) : t.kind # "disk" /\ Become(Result(t, Etag(State, s)))
    BY DEF PluginFails
<1>2. PICK v : v = Etag(State, s)
    OBVIOUS
<1>3. v \in 0..MaxVersion /\ v # Hollow
    BY <1>2, StateFacts, EtagFacts, VersionFacts
<1>4. t \in DOMAIN tasks /\ v \in Finds(t.kind) /\ v \in NotYet..Hollow
    BY <1>1, <1>3, RunningFacts
<1>5. PICK z : z = Result(t, v)
    OBVIOUS
<1>6. Carries(State, z)
    BY <1>3, <1>4, <1>5, ResultCarries
<1>7. Become(z) /\ removing' = removing
    BY <1>1, <1>2, <1>5 DEF PluginFails, Outside
<1> QED BY <1>6, <1>7, CarriedOn

\* The request that is cut off, if any, is one for rows that are there.
LEMMA WholeFree ==
    ASSUME NEW st, NEW z, NEW s \in Sources, ~CutOff(st.feed), feed' = z.feed, rows' = z.rows,
           z.rows = st.rows, z.feed.source = s
    PROVE  Free(st, s)
<1>1. s # None
    BY VersionFacts DEF Sources, None
<1> QED BY <1>1 DEF CutOff, Free, Has

LEMMA HttpLoadFields ==
    ASSUME NEW st \in States, NEW s
    PROVE  HttpLoad(st, s).rows = st.rows /\ HttpLoad(st, s).feed.source = s
<1>1. PICK y, f : y = [st EXCEPT !.http = TRUE] /\ f = [source |-> s, etag |-> Etag(st, s)]
    OBVIOUS
<1>2. PICK z : z = [y EXCEPT !.feed = f]
    OBVIOUS
<1>3. HttpLoad(st, s) = z
    BY <1>1, <1>2 DEF HttpLoad, LoadFeed
<1>4. z.rows = st.rows /\ z.feed = f /\ f.source = s
    BY <1>1, <1>2 DEF States
<1> QED BY <1>3, <1>4

LEMMA DiskLoadedLoads ==
    ASSUME CatalogInv, LoadInv, Faults = {}, NEW s \in Sources, DiskLoaded(s)
    PROVE  LoadInv'
<1>1. PICK t \in Ended(s, "disk") :
          LET stored == Store([Without(t) EXCEPT !.sha[s] = t.got], s, t.got)
          IN  CASE t.got = None -> Become(FromNetwork(Without(t), s))
                [] t.got = Hollow -> Become(Without(t))
                [] OTHER -> \/ Become(stored)
                            \/ /\ s \notin stored.loading
                               /\ Become(Revalidate(stored, s, t.got))
                               /\ CutOff(stored.feed) => "request cut off" \in Faults
    BY DEF DiskLoaded
<1>2. t \in DOMAIN tasks /\ t.kind = "disk" /\ t.got # NotYet /\ t.source = s
    BY DEF Ended
<1>3. PICK st : st = Without(t)
    OBVIOUS
<1>4. t.got \in 0..Hollow /\ st \in States
    BY <1>2, <1>3, TaskFacts
<1>5. t.got # Hollow
    <2>1. State.tasks = tasks
        BY DEF State
    <2> QED BY <1>2, <2>1, InvFacts DEF Sound, Solid
<1>6. /\ Frees(State, st, s) /\ Sound(st, {s}) /\ st.active \subseteq Listing(st)
      /\ st.rows = rows /\ st.http = http /\ st.feed = feed
    <2>1. Frees(State, st, s) /\ st.rows = rows /\ st.http = http /\ st.feed = feed
        BY <1>2, <1>3, WithoutFrees
    <2> QED BY <2>1, InvFacts, FreesMarked
<1>7. removing' = removing /\ ~CutOff(feed)
    BY DEF DiskLoaded, Outside, Whole
<1>8. CASE t.got = None
    <2>1. PICK z : z = FromNetwork(st, s)
        OBVIOUS
    <2>2. Become(z)
        BY <1>1, <1>3, <1>8, <2>1, VersionFacts
    <2>3. ASSUME s \notin st.present, s \in Linked PROVE Free(st, s)
        <3>1. z = HttpLoad(st, s)
            BY <2>1, <2>3 DEF FromNetwork
        <3>2. z.rows = st.rows /\ z.feed.source = s
            BY <1>4, <3>1, HttpLoadFields
        <3>3. feed' = z.feed /\ rows' = z.rows
            BY <2>2 DEF Become
        <3> QED BY <1>6, <1>7, <3>2, <3>3, WholeFree
    <2>4. Carries(State, z)
        <3>1. CASE s \notin st.present /\ s \notin Linked
            <4>1. z = [st EXCEPT !.loading = @ \ {s}]
                BY <2>1, <3>1 DEF FromNetwork
            <4>2. Grows(st, z) /\ Sound(z, {})
                BY <1>4, <1>6, <4>1, UnmarkedSound
            <4>3. s \notin Listing(st)
                BY <3>1, SourceAssumption DEF Listing
            <4>4. State.active \subseteq Sources /\ s \notin State.active
                BY <1>6, <4>3, InvFacts DEF State, Frees, Same
            <4> QED BY <1>6, <4>2, <4>4 DEF Frees, Grows, Carries, Same
        <3>2. CASE s \in st.present \/ s \in Linked
            <4>1. Grows(st, z) /\ Sound(z, {}) /\ (s \in Listing(st) => Loads(z, s))
                BY <1>4, <1>6, <2>1, <2>3, <3>2, FromNetworkSound
            <4>2. State.active \subseteq Sources /\ State.active \subseteq Listing(st)
                BY <1>6, InvFacts DEF State, Frees, Same
            <4> QED BY <1>6, <4>1, <4>2 DEF Frees, Grows, Carries, Same, Cared
        <3> QED BY <3>1, <3>2
    <2> QED BY <1>7, <2>2, <2>4, CarriedOn
<1>9. CASE t.got # None
    <2>1. t.got \in 0..MaxVersion
        BY <1>4, <1>5, VersionFacts
    <2>2. PICK y : y = Store([st EXCEPT !.sha[s] = t.got], s, t.got)
        OBVIOUS
    <2>3. Brings(st, y, s)
        BY <1>4, <1>6, <2>1, <2>2, FoundBrings
    <2>4. Carries(State, y) /\ y \in States /\ Marked(y)
        <3>1. Carries(State, y)
            BY <1>6, <2>3, InvFacts, FreesBrings
        <3> QED BY <3>1, InvFacts, CarriesMarked DEF Carries, Same
    <2>5. CASE Become(y)
        BY <1>7, <2>4, <2>5, CarriedOn
    <2>6. CASE Become(Revalidate(y, s, t.got)) /\ ~CutOff(y.feed)
        <3>1. PICK z : z = Revalidate(y, s, t.got)
            OBVIOUS
        <3>2. ASSUME s \notin y.present, s \in Linked PROVE Free(y, s)
            <4>1. z.rows = y.rows /\ z.feed.source = s
                <5>1. PICK cold : cold = [y EXCEPT !.http = TRUE, !.loading = @ \cup {s}]
                    OBVIOUS
                <5>2. PICK f : f = [source |-> s, etag |-> t.got]
                    OBVIOUS
                <5>3. z = [y EXCEPT !.feed = f] \/ z = [cold EXCEPT !.feed = f]
                    BY <3>1, <3>2, <5>1, <5>2 DEF Revalidate, LoadFeed
                <5>4. f.source = s
                    BY <5>2
                <5> QED BY <2>4, <5>1, <5>3, <5>4 DEF States
            <4>2. feed' = z.feed /\ rows' = z.rows
                BY <2>6, <3>1 DEF Become
            <4> QED BY <2>6, <4>1, <4>2, WholeFree
        <3>3. Carries(y, z)
            BY <2>1, <2>4, <3>1, <3>2, RevalidateCarries
        <3>4. Carries(State, z)
            BY <2>4, <3>3, CarriesTwice
        <3> QED BY <1>7, <2>6, <3>1, <3>4, CarriedOn
    <2>7. Become(y) \/ (Become(Revalidate(y, s, t.got)) /\ ~CutOff(y.feed))
        BY <1>1, <1>3, <1>5, <1>9, <2>2
    <2> QED BY <2>5, <2>6, <2>7
<1> QED BY <1>8, <1>9


LEMMA PluginLoadedLoads ==
    ASSUME CatalogInv, LoadInv, Faults = {}, NEW s \in Sources, PluginLoaded(s)
    PROVE  LoadInv'
<1>1. PICK t \in Ended(s, "plugin") :
          LET st == Without(t)
          IN  /\ Unchanged(t) /\ ~Has(st, s) => "unchanged without rows" \in Faults
              /\ Become(
                IF Unchanged(t) \/ (GotRows(t) /\ sha[s] = t.got /\ Has(st, s))
                THEN ProcessQueue(Touch(st, s))
                ELSE IF GotRows(t) THEN Store([st EXCEPT !.sha[s] = t.got], s, t.got)
                ELSE IF s \in Linked THEN HttpLoad(st, s)
                ELSE Rebuild(DropPreview([st EXCEPT !.loading = @ \ {s}])))
    BY DEF PluginLoaded
<1>2. t \in DOMAIN tasks /\ t.kind = "plugin" /\ t.got # NotYet /\ t.source = s
    BY DEF Ended
<1>3. PICK st : st = Without(t)
    OBVIOUS
<1>4. t.got \in 0..MaxVersion /\ st \in States
    BY <1>2, <1>3, TaskFacts
<1>5. /\ Frees(State, st, s) /\ Sound(st, {s}) /\ st.active \subseteq Listing(st)
      /\ st.rows = rows /\ st.http = http /\ st.feed = feed
    <2>1. Frees(State, st, s) /\ st.rows = rows /\ st.http = http /\ st.feed = feed
        BY <1>2, <1>3, WithoutFrees
    <2> QED BY <2>1, InvFacts, FreesMarked
<1>6. removing' = removing /\ ~CutOff(feed)
    BY DEF PluginLoaded, Outside, Whole
<1>7. PICK same \in BOOLEAN : same <=> Unchanged(t) \/ (GotRows(t) /\ sha[s] = t.got /\ Has(st, s))
    OBVIOUS
<1>8. same => Has(st, s)
    BY <1>1, <1>3, <1>7
<1>9. PICK a, b, c : a = ProcessQueue(Touch(st, s)) /\ b = Store([st EXCEPT !.sha[s] = t.got], s, t.got)
                     /\ c = HttpLoad(st, s)
    OBVIOUS
<1>10. PICK d : d = DropPreview([st EXCEPT !.loading = @ \ {s}])
    OBVIOUS
<1>11. Become(IF same THEN a ELSE IF GotRows(t) THEN b ELSE IF s \in Linked THEN c ELSE Rebuild(d))
    BY <1>1, <1>3, <1>7, <1>9, <1>10
<1>12. CASE same
    <2>1. Carries(State, a)
        BY <1>5, <1>8, <1>9, <1>12, InvFacts, TouchedCarries
    <2> QED BY <1>6, <1>11, <1>12, <2>1, CarriedOn
<1>13. CASE ~same /\ GotRows(t)
    <2>1. Brings(st, b, s)
        BY <1>4, <1>5, <1>9, FoundBrings
    <2>2. Carries(State, b)
        BY <1>5, <2>1, InvFacts, FreesBrings
    <2> QED BY <1>6, <1>11, <1>13, <2>2, CarriedOn
<1>14. CASE ~same /\ ~GotRows(t) /\ s \in Linked
    <2>1. c.rows = st.rows /\ c.feed.source = s
        BY <1>4, <1>9, HttpLoadFields
    <2>2. Become(c)
        BY <1>11, <1>14
    <2>3. Free(st, s)
        <3>1. feed' = c.feed /\ rows' = c.rows
            BY <2>2 DEF Become
        <3> QED BY <1>5, <1>6, <2>1, <3>1, WholeFree
    <2>4. Grows(st, c) /\ Sound(c, {}) /\ Loads(c, s)
        BY <1>4, <1>5, <1>9, <2>3, HttpLoadSound
    <2>5. Carries(State, c)
        <3>1. State.active \subseteq Sources
            BY InvFacts DEF State
        <3> QED BY <1>5, <2>4, <3>1 DEF Frees, Grows, Carries, Same, Cared
    <2> QED BY <1>6, <2>2, <2>5, CarriedOn
<1>15. CASE ~same /\ ~GotRows(t) /\ s \notin Linked
    <2>1. PICK z : z = Rebuild(d)
        OBVIOUS
    <2>2. d \in States /\ Marked(d) /\ Carries(d, z) /\ Kept(z)
        BY <1>4, <1>5, <1>10, <2>1, GivenUpKeeps
    <2>3. z \in States /\ Marked(z)
        BY <2>2, CarriesMarked DEF Carries, Same
    <2>4. Become(z)
        BY <1>11, <1>15, <2>1
    <2> QED BY <2>2, <2>3, <2>4, BecomesKept
<1> QED BY <1>12, <1>13, <1>14, <1>15

LEMMA PluginCheckedLoads ==
    ASSUME CatalogInv, LoadInv, Faults = {}, NEW s \in Sources, PluginChecked(s)
    PROVE  LoadInv'
<1>1. PICK t \in Ended(s, "check") :
          LET st == Without(t)
          IN  /\ (Unchanged(t) \/ (GotRows(t) /\ sha[s] = t.got)) /\ ~Has(st, s)
                    => "unchanged without rows" \in Faults
              /\ Become(
                IF Unchanged(t) \/ (GotRows(t) /\ sha[s] = t.got)
                THEN [st EXCEPT !.stamp[s] = "fresh"]
                ELSE IF GotRows(t) THEN Store([st EXCEPT !.sha[s] = t.got], s, t.got)
                ELSE st)
    BY DEF PluginChecked
<1>2. t \in DOMAIN tasks /\ t.kind = "check" /\ t.got # NotYet /\ t.source = s
    BY DEF Ended
<1>3. PICK st : st = Without(t)
    OBVIOUS
<1>4. t.got \in 0..MaxVersion /\ st \in States
    BY <1>2, <1>3, TaskFacts
<1>5. Carries(State, st) /\ Marked(st) /\ st.active \subseteq Listing(st) /\ Sound(st, {s})
    <2>1. Carries(State, st)
        BY <1>2, <1>3, WithoutFrees
    <2> QED BY <2>1, InvFacts, CarriesMarked DEF Marked, Sound
<1>6. removing' = removing
    BY DEF PluginChecked, Outside
<1>7. PICK same \in BOOLEAN : same <=> Unchanged(t) \/ (GotRows(t) /\ sha[s] = t.got)
    OBVIOUS
<1>8. same => Has(st, s)
    BY <1>1, <1>3, <1>7
<1>9. PICK a, b : a = [st EXCEPT !.stamp[s] = "fresh"] /\ b = Store([st EXCEPT !.sha[s] = t.got], s, t.got)
    OBVIOUS
<1>10. Become(IF same THEN a ELSE IF GotRows(t) THEN b ELSE st)
    BY <1>1, <1>3, <1>7, <1>9
<1>11. CASE same
    <2>1. a \in States
        BY <1>4, <1>9, OneField DEF Sheds
    <2>2. /\ a.present = st.present /\ a.disk = st.disk /\ a.active = st.active
          /\ a.loading = st.loading /\ a.http = st.http /\ a.feed = st.feed /\ a.rows = st.rows
          /\ a.stamp = [st.stamp EXCEPT ![s] = "fresh"] /\ a.tasks = st.tasks /\ a.queue = st.queue
        BY <1>4, <1>9 DEF States
    <2>3. \A u : (Has(a, u) <=> Has(st, u)) /\ (Loads(a, u) <=> Loads(st, u)) /\ (Waits(a, u) <=> Waits(st, u))
        BY <2>2 DEF Has, Loads, Waits
    <2>4. \A u \in Sources : u # s => a.stamp[u] = st.stamp[u]
        BY <1>4, <2>2 DEF States, Stamps
    <2>5. Sound(a, {})
        <3>1. Solid(a)
            BY <1>5, <2>2 DEF Sound, Solid
        <3> QED BY <1>5, <1>8, <1>11, <2>2, <2>3, <2>4, <3>1 DEF Sound, Marked
    <2>6. Carries(State, a)
        BY <1>5, <2>1, <2>2, <2>3, <2>5 DEF Carries, Same, Cared
    <2> QED BY <1>6, <1>10, <1>11, <2>6, CarriedOn
<1>12. CASE ~same /\ GotRows(t)
    <2>1. Brings(st, b, s)
        BY <1>4, <1>5, <1>9, FoundBrings
    <2>2. Frees(State, st, s)
        <3>1. Frees(State, st, s)
            BY <1>2, <1>3, WithoutFrees
        <3> QED BY <3>1
    <2>3. Carries(State, b)
        BY <2>1, <2>2, InvFacts, FreesBrings
    <2> QED BY <1>6, <1>10, <1>12, <2>3, CarriedOn
<1>13. CASE ~same /\ ~GotRows(t)
    BY <1>5, <1>6, <1>10, <1>13, CarriedOn
<1> QED BY <1>11, <1>12, <1>13

LEMMA PreparedLoads ==
    ASSUME CatalogInv, LoadInv, NEW s \in Sources, Prepared(s)
    PROVE  LoadInv'
<1>1. PICK t \in Ended(s, "prepare") : Become(ProcessQueue(Store(Without(t), s, t.got)))
    BY DEF Prepared
<1>2. t \in DOMAIN tasks /\ t.kind = "prepare" /\ t.source = s
    BY DEF Ended
<1>3. PICK st : st = Without(t)
    OBVIOUS
<1>4. t.got \in 0..MaxVersion /\ st \in States
    BY <1>2, <1>3, TaskFacts, VersionFacts
<1>5. Frees(State, st, s) /\ Sound(st, {s}) /\ st.active \subseteq Listing(st)
    <2>1. Frees(State, st, s)
        BY <1>2, <1>3, WithoutFrees
    <2> QED BY <2>1, InvFacts, FreesMarked
<1>6. PICK y : y = Store(st, s, t.got)
    OBVIOUS
<1>7. Carries(State, y)
    <2>1. Brings(st, y, s)
        BY <1>4, <1>5, <1>6, StoreBrings
    <2> QED BY <1>5, <2>1, InvFacts, FreesBrings
<1>8. PICK z : z = ProcessQueue(y)
    OBVIOUS
<1>9. Carries(State, z)
    <2>1. y \in States /\ Marked(y)
        BY <1>7, InvFacts, CarriesMarked DEF Carries, Same
    <2> QED BY <1>7, <1>8, <2>1, ProcessQueueCarries, CarriesTwice
<1>10. Become(z) /\ removing' = removing
    BY <1>1, <1>3, <1>6, <1>8 DEF Prepared, Outside
<1> QED BY <1>9, <1>10, CarriedOn

LEMMA PreviewArrivesLoads ==
    ASSUME CatalogInv, LoadInv, NEW s \in Sources, PreviewArrives(s)
    PROVE  LoadInv'
<1> DEFINE Early(t) == [State EXCEPT !.tasks = (@ (-) One(t)) (+) One([t EXCEPT !.first = FALSE])]
<1>1. PICK t \in DOMAIN tasks :
          Become(IF s \in loading /\ ~Has(Early(t), s) /\ merged = NoRows /\ active = {s}
                 THEN [Early(t) EXCEPT !.preview = TRUE, !.merge = NoRows, !.merged = Put(NoRows, s, None)]
                 ELSE Early(t))
    BY DEF PreviewArrives
<1>2. PICK u : u = [t EXCEPT !.first = FALSE]
    OBVIOUS
<1>3. u \in GoodTasks /\ u.source = t.source /\ u.kind = t.kind /\ u.got # Hollow
    <2>1. t \in Tasks /\ t.got \in Finds(t.kind)
        BY TaskFacts
    <2>2. u \in Tasks /\ u.kind = t.kind /\ u.got = t.got /\ u.source = t.source
        BY <1>2, <2>1 DEF Tasks
    <2>3. t.got # Hollow
        <3>1. State.tasks = tasks
            BY DEF State
        <3> QED BY <3>1, InvFacts DEF Sound, Solid
    <2> QED BY <2>1, <2>2, <2>3 DEF GoodTasks
<1>4. PICK st : st = Early(t)
    OBVIOUS
<1>5. Carries(State, st) /\ st \in States
    BY <1>2, <1>3, <1>4, TaskSwapped DEF Carries, Same
<1>6. PICK y : y = [st EXCEPT !.preview = TRUE, !.merge = NoRows, !.merged = Put(NoRows, s, None)]
    OBVIOUS
<1>7. y \in States
    <2>1. PICK m : m = Put(NoRows, s, None)
        OBVIOUS
    <2>2. NoRows \in RowTables /\ NoRows \in MergeTables
        BY NoRowsFacts DEF RowTables, MergeTables
    <2>3. m \in RowTables
        BY <2>1, <2>2, VersionFacts, TableFacts DEF RowTables
    <2>4. y = [st EXCEPT !.preview = TRUE, !.merge = NoRows, !.merged = m]
        BY <1>6, <2>1
    <2> QED BY <1>5, <2>2, <2>3, <2>4 DEF States
<1>8. Carries(State, y)
    <2>1. /\ y.present = st.present /\ y.active = st.active /\ y.disk = st.disk
          /\ y.loading = st.loading /\ y.http = st.http /\ y.feed = st.feed /\ y.rows = st.rows
          /\ y.stamp = st.stamp /\ y.tasks = st.tasks /\ y.queue = st.queue
        BY <1>5, <1>6 DEF States
    <2>2. (\A v : Cared(y, v) <=> Cared(st, v)) /\ Sound(y, {}) /\ Same(st, y)
        BY <1>5, <1>7, <2>1, ListSound DEF Carries
    <2> QED BY <1>5, <2>2 DEF Carries, Same
<1>9. Become(y) \/ Become(st)
    <2> HIDE DEF Early
    <2> QED BY <1>1, <1>4, <1>6
<1>10. removing' = removing
    BY DEF PreviewArrives, Outside
<1> QED BY <1>5, <1>8, <1>9, <1>10, CarriedOn

LEMMA MergeEndsLoads ==
    ASSUME CatalogInv, LoadInv, MergeEnds
    PROVE  LoadInv'
<1>1. PICK y : y = [State EXCEPT !.merged = merge, !.merge = NoRows, !.preview = FALSE]
    OBVIOUS
<1>2. /\ y.present = State.present /\ y.active = State.active /\ y.disk = State.disk
      /\ y.loading = State.loading /\ y.http = State.http /\ y.feed = State.feed /\ y.rows = State.rows
      /\ y.stamp = State.stamp /\ y.tasks = State.tasks /\ y.queue = State.queue
    BY <1>1, StateFacts DEF States
<1>3. PICK r : r = [s \in DOMAIN y.rows |-> IF s \in y.active THEN None ELSE y.rows[s]]
    OBVIOUS
<1>4. PICK x : x = [y EXCEPT !.rows = r]
    OBVIOUS
<1>5. y \in States
    <2>1. merge \in MergeTables /\ NoRows \in MergeTables
        BY StateFacts, NoRowsFacts DEF MergeTables
    <2>2. PICK D \in SUBSET Sources : merge \in [D -> Versions]
        BY <2>1 DEF MergeTables, Tables
    <2>3. merge \in [D -> 0..MaxVersion]
        BY <2>2, VersionFacts
    <2>4. merge \in RowTables
        BY <2>3 DEF RowTables, Tables
    <2> QED BY <1>1, <2>1, <2>4, StateFacts DEF States
<1>6. Carries(State, y)
    <2>1. (\A u : Cared(y, u) <=> Cared(State, u)) /\ Sound(y, {}) /\ Same(State, y)
        BY <1>2, <1>5, InvFacts, ListSound
    <2> QED BY <2>1 DEF Carries
<1>7. x \in States /\ DOMAIN r = DOMAIN y.rows
    <2>1. y.rows \in RowTables
        BY <1>5 DEF States
    <2>2. PICK D \in SUBSET Sources : y.rows \in [D -> 0..MaxVersion]
        BY <2>1 DEF RowTables, Tables
    <2>3. r \in [D -> 0..MaxVersion]
        BY <1>3, <2>2, VersionFacts
    <2>4. r \in RowTables
        BY <2>3 DEF RowTables, Tables
    <2>5. x \in States
        BY <1>4, <1>5, <2>4 DEF States
    <2> QED BY <1>3, <2>5
<1>8. Carries(State, x)
    <2>1. /\ x.present = y.present /\ x.active = y.active /\ x.disk = y.disk
          /\ x.loading = y.loading /\ x.http = y.http /\ x.feed = y.feed /\ x.rows = r
          /\ x.stamp = y.stamp /\ x.tasks = y.tasks /\ x.queue = y.queue
        BY <1>4, <1>5 DEF States
    <2>2. \A u : (Has(x, u) <=> Has(y, u)) /\ (Loads(x, u) <=> Loads(y, u)) /\ (Waits(x, u) <=> Waits(y, u))
        BY <1>7, <2>1 DEF Has, Loads, Waits
    <2>3. Sound(x, {})
        <3>1. Solid(x)
            BY <1>6, <2>1 DEF Carries, Sound, Solid
        <3> QED BY <1>6, <2>1, <2>2, <3>1 DEF Carries, Sound
    <2> QED BY <1>6, <1>7, <2>1, <2>2, <2>3 DEF Carries, Same, Cared
<1>9. Evacuated(y) \in {x, y}
    BY <1>3, <1>4 DEF Evacuated
<1>10. Become(y) \/ Become(Evacuated(y))
    BY <1>1 DEF MergeEnds
<1>11. removing' = removing
    BY DEF MergeEnds, Outside
<1> QED BY <1>6, <1>8, <1>9, <1>10, <1>11, CarriedOn

LEMMA LoadInit == Faults = {} /\ Init => LoadInv
<1> SUFFICES ASSUME Faults = {}, Init PROVE LoadInv
    OBVIOUS
<1>1. \A s \in Sources : disk[s] # Hollow
    <2>1. disk \in [Sources -> {None, 1}]
        BY DEF Init
    <2> QED BY <2>1, VersionFacts
<1>2. Sound(State, {})
    <2>1. DOMAIN tasks = {}
        BY DEF Init, EmptyBag, SetToBag
    <2> QED BY <1>1, <2>1 DEF Init, State, Sound, Solid
<1>3. Marked(State) /\ Kept(State)
    BY <1>2 DEF Init, State, Marked, Kept
<1> QED BY <1>3 DEF LoadInv

LEMMA LoadNext ==
    ASSUME Faults = {}, CatalogInv, LoadInv, [Next]_vars
    PROVE  LoadInv'
<1>1. CASE Start
    BY <1>1, StartLoads
<1>2. CASE UserStep
    BY <1>2, RefreshLoads, ToggleLoads, EditLoads, RequestLoadLoads, RemovalBeginsLoads, PluginInstalledLoads
       DEF UserStep
<1>3. CASE \E s \in Sources : Publish(s) \/ Expire(s)
    BY <1>3, PublishLoads, ExpireLoads
<1>4. CASE \E s \in Sources : LoadStep(s)
    BY <1>4, FeedAnswersLoads, FeedFailsLoads, DiskReadLoads, PluginLoadsLoads, PluginFailsLoads, DiskLoadedLoads,
       PluginLoadedLoads, PluginCheckedLoads, PreparedLoads, PreviewArrivesLoads DEF LoadStep
<1>5. CASE RemovalEnds \/ RefreshStale \/ MergeEnds
    BY <1>5, RemovalEndsLoads, RefreshStaleLoads, MergeEndsLoads
<1>6. CASE UNCHANGED vars
    <2>1. State' = State /\ removing' = removing
        BY <1>6 DEF State, vars
    <2>2. Marked(State') /\ (removing' = None => Kept(State'))
        BY <2>1 DEF LoadInv
    <2> QED BY <2>2 DEF LoadInv
<1> QED BY <1>1, <1>2, <1>3, <1>4, <1>5, <1>6 DEF Next

\* As long as none of the incidents in Faults occurs, every source that is shown
\* has its rows, is being loaded or waits in the queue, whatever the user clicks
\* while loads begin, end, fail or are lost.
THEOREM NothingForgottenHolds == ASSUME Faults = {} PROVE Spec => []NothingForgotten
<1>1. ASSUME CatalogInv, LoadInv PROVE NothingForgotten
    <2>1. queue \in Seq(Sources) /\ DOMAIN queue = 1..Len(queue)
        <3>1. State.queue \in Queues
            BY <1>1, StateFacts DEF States
        <3> QED BY <3>1 DEF State, Queues
    <2>2. \A s : Waits(State, s) => Contains(queue, s)
        BY <2>1 DEF Waits, State, ToSet, Contains
    <2>3. State.active = active
        BY DEF State
    <2> QED BY <1>1, <2>2, <2>3, InvFacts DEF Kept, Cared, NothingForgotten
<1>2. Init => CatalogInv /\ LoadInv
    BY InvInit, LoadInit
<1>3. CatalogInv /\ LoadInv /\ [Next]_vars => CatalogInv' /\ LoadInv'
    BY InvNext, LoadNext
<1> QED BY <1>1, <1>2, <1>3, PTL DEF Spec

================================================================================
