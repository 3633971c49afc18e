----------------------------- MODULE UpkeepProofs ------------------------------
(***************************************************************************)
(* Theorems of the machines the run Upkeep checks, for every value of      *)
(* their constants: an update of the program is sound and none goes back,  *)
(* a game that is let through has its redistributables, every game gets a  *)
(* Proton that runs, no move or scan loses the files of a game, its row    *)
(* leads to them, and no link gets the kind of another one.  Each is a     *)
(* theorem of its own machine; in the run the others stand still beside    *)
(* it.                                                                     *)
(*                                                                         *)
(* The lemmas about lists come first: they are proved without induction    *)
(* over data, from the least counterexample.                               *)
(***************************************************************************)
EXTENDS RuntimeSetup, ProtonVersions, AppUpdater, LibraryDrives, KindProbe, FiniteSetTheorems,
        SequenceTheorems, WellFoundedInduction, TLAPS


----------------------------------------------------------------------------
(* Lists *)
\* A set of numbers that has a member has a least one.
LEMMA LeastNumber ==
    ASSUME NEW A \in SUBSET Nat, A # {}
    PROVE  \E n \in A : \A m \in A : n <= m
<1>1. PICK b \in A : TRUE
    OBVIOUS
<1> DEFINE Below(n) == {k \in Nat : k < n}
           T == {Below(n) : n \in A}
           R == StrictSubsetOrdering(Nat)
<1>2. T \subseteq FiniteSubsetsOf(Nat)
    <2> SUFFICES ASSUME NEW n \in A PROVE IsFiniteSet(Below(n))
        BY DEF FiniteSubsetsOf
    <2>1. Below(n) \in SUBSET Nat /\ \A s \in Below(n) : s <= n
        OBVIOUS
    <2> HIDE DEF Below
    <2> QED BY <2>1, FS_BoundedSetOfNaturals
<1>3. T # {}
    BY <1>1
<1>4. \E x \in T : \A y \in T : ~(<<y, x>> \in R)
    <2> HIDE DEF T
    <2> QED BY <1>2, <1>3, FS_StrictSubsetOrderingWellFounded, WFMin
<1>5. PICK n \in A : \A m \in A : <<Below(m), Below(n)>> \notin R
    BY <1>4
<1>6. ASSUME NEW m \in A, m < n PROVE FALSE
    <2>1. Below(m) \subseteq Below(n) /\ m \in Below(n) /\ m \notin Below(m)
        BY <1>6
    <2> QED BY <2>1, <1>5 DEF StrictSubsetOrdering
<1> QED BY <1>6

\* What holds of 0 and, when of a number, of the next, holds of every number up to n.
LEMMA Upward ==
    ASSUME NEW n \in Nat, NEW A, 0 \in A, \A k \in 0..(n - 1) : k \in A => k + 1 \in A
    PROVE  \A k \in 0..n : k \in A
<1> DEFINE B == {k \in 0..n : k \notin A}
<1> SUFFICES ASSUME B # {} PROVE FALSE
    OBVIOUS
<1>1. B \in SUBSET Nat
    OBVIOUS
<1>2. PICK k \in B : \A m \in B : k <= m
    <2> HIDE DEF B
    <2> QED BY <1>1, LeastNumber
<1>3. k \in 0..n /\ k \notin A /\ k # 0 /\ k - 1 \in 0..(n - 1) /\ (k - 1) + 1 = k
    BY <1>2
<1>4. k - 1 \notin B
    BY <1>2, <1>3
<1> QED BY <1>3, <1>4

\* A list of results, each made from the one before it.
Turns(n, X) == (1..n) \X X
Made(f, n, X, x, step) == f \in [0..n -> X] /\ f[0] = x /\ \A k \in 1..n : f[k] = step[<<k, f[k - 1]>>]
\* A list of results, each made from the one before it, exists.
LEMMA Stepwise ==
    ASSUME NEW n \in Nat, NEW X, NEW x \in X, NEW step \in [Turns(n, X) -> X]
    PROVE  \E f : Made(f, n, X, x, step)
<1> DEFINE Upto(k, f) == f \in [0..k -> X] /\ f[0] = x /\ \A j \in 1..k : f[j] = step[<<j, f[j - 1]>>]
           A == {k \in 0..n : \E f : Upto(k, f)}
<1>1. 0 \in A
    <2> DEFINE c == [k \in 0..0 |-> x]
    <2>1. c \in [0..0 -> X] /\ c[0] = x /\ 1..0 = {}
        OBVIOUS
    <2>2. Upto(0, c)
        BY <2>1
    <2> HIDE DEF Upto, c
    <2> QED BY <2>2
<1>2. ASSUME NEW k \in 0..(n - 1), k \in A PROVE k + 1 \in A
    <2>1. PICK f : Upto(k, f)
        BY <1>2
    <2> DEFINE g == [j \in 0..(k + 1) |-> IF j = k + 1 THEN step[<<k + 1, f[k]>>] ELSE f[j]]
    <2>2. k + 1 \in 1..n /\ f[k] \in X /\ step[<<k + 1, f[k]>>] \in X
        BY <2>1 DEF Turns
    <2>3. g \in [0..(k + 1) -> X] /\ g[0] = x
        BY <2>1, <2>2
    <2>4. ASSUME NEW j \in 1..(k + 1) PROVE g[j] = step[<<j, g[j - 1]>>]
        <3>1. CASE j = k + 1
            <4>1. j - 1 = k /\ k \in 0..(k + 1) /\ k # k + 1 /\ j \in 0..(k + 1)
                BY <3>1
            <4>2. g[j - 1] = f[k] /\ g[j] = step[<<k + 1, f[k]>>]
                BY <3>1, <4>1
            <4> QED BY <3>1, <4>1, <4>2
        <3>2. CASE j # k + 1
            <4>1. j \in 1..k /\ j - 1 \in 0..(k + 1) /\ j - 1 # k + 1 /\ j \in 0..(k + 1)
                BY <3>2
            <4>2. g[j - 1] = f[j - 1] /\ g[j] = f[j]
                BY <3>2, <4>1
            <4>3. f[j] = step[<<j, f[j - 1]>>]
                BY <2>1, <4>1
            <4> QED BY <4>2, <4>3
        <3> QED BY <3>1, <3>2
    <2>5. Upto(k + 1, g)
        BY <2>3, <2>4
    <2> HIDE DEF Upto, g
    <2> QED BY <2>2, <2>5
<1>3. n \in A
    <2> HIDE DEF A
    <2> QED BY <1>1, <1>2, Upward
<1> QED BY <1>3 DEF Made

\* What is kept of a list, entry by entry.
KeptOf(f, S, s, keep) ==
    /\ f \in [0..Len(s) -> Seq(S)] /\ Only(s, keep) = f[Len(s)] /\ f[0] = <<>>
    /\ \A k \in 1..Len(s) : f[k] = IF s[k] \in keep THEN Append(f[k - 1], s[k]) ELSE f[k - 1]
LEMMA OnlySteps ==
    ASSUME NEW S, NEW s \in Seq(S), NEW keep
    PROVE  \E f : KeptOf(f, S, s, keep)
<1> DEFINE n == Len(s)
           Is(f) == f = [k \in 0..n |-> IF k = 0 THEN <<>> ELSE
                            IF s[k] \in keep THEN Append(f[k - 1], s[k]) ELSE f[k - 1]]
           step == [kx \in (1..n) \X Seq(S) |-> IF s[kx[1]] \in keep THEN Append(kx[2], s[kx[1]]) ELSE kx[2]]
<1>1. n \in Nat /\ <<>> \in Seq(S) /\ step \in [Turns(n, Seq(S)) -> Seq(S)]
    BY DEF Turns
<1>2. PICK g \in [0..n -> Seq(S)] : g[0] = <<>> /\ \A k \in 1..n : g[k] = step[<<k, g[k - 1]>>]
    <2> HIDE DEF step, n
    <2>1. PICK g : Made(g, n, Seq(S), <<>>, step)
        BY <1>1, Stepwise
    <2> QED BY <2>1 DEF Made
<1>3. ASSUME NEW k \in 1..n
      PROVE  k - 1 \in 0..n /\ g[k] = IF s[k] \in keep THEN Append(g[k - 1], s[k]) ELSE g[k - 1]
    <2>1. k - 1 \in 0..n /\ g[k - 1] \in Seq(S) /\ g[k] = step[<<k, g[k - 1]>>]
        <3> HIDE DEF step, n
        <3> QED BY <1>1, <1>2
    <2>2. step[<<k, g[k - 1]>>] = IF s[k] \in keep THEN Append(g[k - 1], s[k]) ELSE g[k - 1]
        BY <2>1
    <2> QED BY <2>1, <2>2
<1>4. Is(g)
    <2> DEFINE h == [k \in 0..n |-> IF k = 0 THEN <<>> ELSE
                            IF s[k] \in keep THEN Append(g[k - 1], s[k]) ELSE g[k - 1]]
    <2>1. DOMAIN g = 0..n /\ DOMAIN h = 0..n
        BY <1>2
    <2>2. ASSUME NEW k \in 0..n PROVE g[k] = h[k]
        <3>1. CASE k = 0
            BY <1>2, <3>1
        <3>2. CASE k # 0
            <4>1. k \in 1..n
                BY <1>1, <3>2
            <4> HIDE DEF step, n
            <4> QED BY <1>3, <3>2, <4>1
        <3> QED BY <3>1, <3>2
    <2>3. g = [k \in 0..n |-> g[k]] /\ h = [k \in 0..n |-> h[k]]
        BY <1>2
    <2> HIDE DEF h
    <2>4. g = h
        BY <2>2, <2>3
    <2> QED BY <2>4 DEF h
<1>5. PICK f : f = CHOOSE h : Is(h)
    OBVIOUS
<1>6. Is(f)
    BY <1>4, <1>5, Zenon
<1>7. Only(s, keep) = f[n]
    BY <1>5, Zenon DEF Only
<1>8. \A k \in 0..n : f[k] = g[k]
    <2> DEFINE A == {k \in 0..n : f[k] = g[k]}
    <2>1. 0 \in A
        BY <1>1, <1>2, <1>6
    <2>2. ASSUME NEW k \in 0..(n - 1), k \in A PROVE k + 1 \in A
        <3>1. k + 1 \in 1..n /\ (k + 1) - 1 = k /\ f[k] = g[k] /\ k + 1 \in 0..n /\ k + 1 # 0
            BY <1>1, <2>2
        <3>2. f[k + 1] = IF s[k + 1] \in keep THEN Append(f[k], s[k + 1]) ELSE f[k]
            BY <1>6, <3>1
        <3>3. g[k + 1] = IF s[k + 1] \in keep THEN Append(g[k], s[k + 1]) ELSE g[k]
            BY <1>3, <3>1
        <3> QED BY <3>1, <3>2, <3>3
    <2> HIDE DEF A
    <2>3. \A k \in 0..n : k \in A
        BY <1>1, <2>1, <2>2, Upward
    <2> QED BY <2>3 DEF A
<1>9. Only(s, keep) = g[n]
    BY <1>1, <1>7, <1>8
<1> QED BY <1>2, <1>3, <1>9 DEF KeptOf

\* One more entry.
LEMMA AppendFacts ==
    ASSUME NEW S, NEW t \in Seq(S), NEW e \in S
    PROVE  /\ Append(t, e) \in Seq(S) /\ ToSet(Append(t, e)) = ToSet(t) \cup {e}
           /\ IsInjective(t) /\ e \notin ToSet(t) => IsInjective(Append(t, e))
<1>1. /\ Append(t, e) \in Seq(S) /\ Len(Append(t, e)) = Len(t) + 1 /\ Len(t) \in Nat
      /\ DOMAIN t = 1..Len(t) /\ DOMAIN Append(t, e) = 1..(Len(t) + 1)
      /\ \A k \in 1..Len(t) : Append(t, e)[k] = t[k]
      /\ Append(t, e)[Len(t) + 1] = e
    OBVIOUS
<1>2. ToSet(t) = {t[k] : k \in 1..Len(t)} /\ ToSet(Append(t, e)) = {Append(t, e)[k] : k \in 1..(Len(t) + 1)}
    BY <1>1 DEF ToSet
<1>3. ToSet(Append(t, e)) = ToSet(t) \cup {e}
    <2> DEFINE u == Append(t, e)
    <2>1. \A k \in 1..(Len(t) + 1) : k \in 1..Len(t) \/ k = Len(t) + 1
        BY <1>1
    <2> HIDE DEF u
    <2>2. \A k \in 1..Len(t) : k \in 1..(Len(t) + 1)
        BY <1>1
    <2>3. Len(t) + 1 \in 1..(Len(t) + 1)
        BY <1>1
    <2>4. /\ ToSet(t) = {t[k] : k \in 1..Len(t)} /\ ToSet(u) = {u[k] : k \in 1..(Len(t) + 1)}
          /\ \A k \in 1..Len(t) : u[k] = t[k]
          /\ u[Len(t) + 1] = e
        BY <1>1, <1>2 DEF u
    <2>5. ToSet(u) = ToSet(t) \cup {e}
        BY <2>1, <2>2, <2>3, <2>4
    <2> QED BY <2>5 DEF u
<1>4. ASSUME IsInjective(t), e \notin ToSet(t) PROVE IsInjective(Append(t, e))
    <2>1. \A j, k \in 1..Len(t) : t[j] = t[k] => j = k
        BY <1>1, <1>4 DEF IsInjective
    <2>2. \A k \in 1..Len(t) : t[k] # e
        BY <1>2, <1>4
    <2>3. ASSUME NEW j \in 1..(Len(t) + 1), NEW k \in 1..(Len(t) + 1), Append(t, e)[j] = Append(t, e)[k]
          PROVE  j = k
        <3>1. (j \in 1..Len(t) \/ j = Len(t) + 1) /\ (k \in 1..Len(t) \/ k = Len(t) + 1)
            BY <1>1
        <3> QED BY ONLY <1>1, <2>1, <2>2, <2>3, <3>1
    <2> QED BY <1>1, <2>3 DEF IsInjective
<1> QED BY <1>1, <1>3, <1>4

\* Only keeps the entries that are in the set, and brings none twice.
LEMMA OnlyFacts ==
    ASSUME NEW S, NEW s \in Seq(S), NEW keep
    PROVE  /\ Only(s, keep) \in Seq(S) /\ ToSet(Only(s, keep)) = ToSet(s) \cap keep
           /\ IsInjective(s) => IsInjective(Only(s, keep))
<1>1. PICK f \in [0..Len(s) -> Seq(S)] :
        /\ Only(s, keep) = f[Len(s)] /\ f[0] = <<>>
        /\ \A k \in 1..Len(s) : f[k] = IF s[k] \in keep THEN Append(f[k - 1], s[k]) ELSE f[k - 1]
    <2>1. PICK f : KeptOf(f, S, s, keep)
        BY OnlySteps
    <2> QED BY <2>1 DEF KeptOf
<1> DEFINE upto(k) == {s[j] : j \in 1..k}
           A == {k \in 0..Len(s) : /\ ToSet(f[k]) = upto(k) \cap keep
                                   /\ IsInjective(s) => IsInjective(f[k])}
<1>2. Len(s) \in Nat /\ ToSet(s) = upto(Len(s)) /\ DOMAIN s = 1..Len(s) /\ \A k \in 1..Len(s) : s[k] \in S
    BY DEF ToSet
<1>3. 0 \in A
    <2>1. 1..0 = {} /\ ToSet(<<>>) = {} /\ IsInjective(<<>>)
        BY DEF ToSet, IsInjective
    <2> QED BY <1>1, <1>2, <2>1
<1>4. ASSUME NEW k \in 0..(Len(s) - 1), k \in A PROVE k + 1 \in A
    <2>1. k + 1 \in 1..Len(s) /\ (k + 1) - 1 = k /\ k + 1 \in 0..Len(s) /\ k \in 0..Len(s)
        BY <1>2
    <2>2. f[k + 1] = IF s[k + 1] \in keep THEN Append(f[k], s[k + 1]) ELSE f[k]
        BY <1>1, <2>1
    <2>3. upto(k + 1) = upto(k) \cup {s[k + 1]}
        <3>1. \A j : j \in 1..(k + 1) <=> j \in 1..k \/ j = k + 1
            BY <2>1
        <3> QED BY ONLY <3>1
    <2>4. ToSet(f[k]) = upto(k) \cap keep /\ (IsInjective(s) => IsInjective(f[k]))
        BY <1>4
    <2>5. f[k] \in Seq(S) /\ s[k + 1] \in S
        BY <1>1, <1>2, <2>1
    <2>6. IsInjective(s) => s[k + 1] \notin upto(k)
        BY <1>2, <2>1 DEF IsInjective
    <2> HIDE DEF upto
    <2>7. CASE s[k + 1] \in keep
        <3>1. f[k + 1] = Append(f[k], s[k + 1])
            BY <2>2, <2>7
        <3>2. ToSet(f[k + 1]) = ToSet(f[k]) \cup {s[k + 1]}
            BY <2>5, <3>1, AppendFacts
        <3>3. ToSet(f[k + 1]) = upto(k + 1) \cap keep
            BY <2>3, <2>4, <2>7, <3>2
        <3>4. ASSUME IsInjective(s) PROVE IsInjective(f[k + 1])
            <4>1. s[k + 1] \notin ToSet(f[k]) /\ IsInjective(f[k])
                BY <2>4, <2>6, <3>4
            <4> QED BY <2>5, <3>1, <4>1, AppendFacts
        <3> QED BY <2>1, <3>3, <3>4
    <2>8. CASE s[k + 1] \notin keep
        <3>1. f[k + 1] = f[k] /\ upto(k + 1) \cap keep = upto(k) \cap keep
            BY <2>2, <2>3, <2>8
        <3> QED BY <2>1, <2>4, <3>1
    <2> QED BY <2>7, <2>8
<1>5. Len(s) \in A
    <2> HIDE DEF A
    <2>1. \A k \in 0..Len(s) : k \in A
        BY <1>2, <1>3, <1>4, Upward
    <2> QED BY <1>2, <2>1
<1> QED BY <1>1, <1>2, <1>5

\* Two lists, one after the other.
LEMMA ConcatFacts ==
    ASSUME NEW S, NEW a \in Seq(S), NEW b \in Seq(S)
    PROVE  /\ a \o b \in Seq(S) /\ ToSet(a \o b) = ToSet(a) \cup ToSet(b)
           /\ IsInjective(a) /\ IsInjective(b) /\ ToSet(a) \cap ToSet(b) = {} => IsInjective(a \o b)
<1> DEFINE c == a \o b
           m == Len(a)
           n == Len(b)
<1>1. /\ c \in Seq(S) /\ m \in Nat /\ n \in Nat /\ DOMAIN c = 1..(m + n)
      /\ DOMAIN a = 1..m /\ DOMAIN b = 1..n
      /\ \A k \in 1..m : c[k] = a[k]
      /\ \A k \in 1..n : c[m + k] = b[k]
    OBVIOUS
<1>2. \A k \in 1..(m + n) : k \in 1..m \/ (k - m \in 1..n /\ m + (k - m) = k)
    BY <1>1
<1>3. (\A k \in 1..m : k \in 1..(m + n)) /\ \A k \in 1..n : m + k \in 1..(m + n)
    BY <1>1
<1>4. \A k \in 1..(m + n) : (k \in 1..m /\ c[k] = a[k]) \/ (k - m \in 1..n /\ c[k] = b[k - m])
    <2> HIDE DEF c, m, n
    <2> QED BY <1>1, <1>2
<1> HIDE DEF c, m, n
<1>5. ToSet(c) = ToSet(a) \cup ToSet(b)
    <2>1. ASSUME NEW e \in ToSet(c) PROVE e \in ToSet(a) \cup ToSet(b)
        <3>1. PICK k \in 1..(m + n) : e = c[k]
            BY <1>1, <2>1 DEF ToSet
        <3> QED BY <1>1, <1>4, <3>1 DEF ToSet
    <2>2. ASSUME NEW e \in ToSet(a) PROVE e \in ToSet(c)
        <3>1. PICK k \in 1..m : e = a[k]
            BY <1>1, <2>2 DEF ToSet
        <3> QED BY <1>1, <1>3, <3>1 DEF ToSet
    <2>3. ASSUME NEW e \in ToSet(b) PROVE e \in ToSet(c)
        <3>1. PICK k \in 1..n : e = b[k]
            BY <1>1, <2>3 DEF ToSet
        <3>2. m + k \in DOMAIN c /\ c[m + k] = e
            BY <1>1, <1>3, <3>1
        <3> QED BY <3>2 DEF ToSet
    <2> QED BY <2>1, <2>2, <2>3
<1>6. ASSUME IsInjective(a), IsInjective(b), ToSet(a) \cap ToSet(b) = {} PROVE IsInjective(c)
    <2>1. (\A j, k \in 1..m : a[j] = a[k] => j = k) /\ \A j, k \in 1..n : b[j] = b[k] => j = k
        BY <1>1, <1>6 DEF IsInjective
    <2>2. \A j \in 1..m, k \in 1..n : a[j] # b[k]
        <3> SUFFICES ASSUME NEW j \in 1..m, NEW k \in 1..n, a[j] = b[k] PROVE FALSE
            OBVIOUS
        <3>1. a[j] \in ToSet(a) /\ b[k] \in ToSet(b)
            BY <1>1 DEF ToSet
        <3> QED BY <3>1, <1>6
    <2>3. ASSUME NEW j \in 1..(m + n), NEW k \in 1..(m + n), c[j] = c[k] PROVE j = k
        <3>1. CASE j \in 1..m /\ c[j] = a[j] /\ k \in 1..m /\ c[k] = a[k]
            BY <2>1, <2>3, <3>1
        <3>2. CASE j \in 1..m /\ c[j] = a[j] /\ k - m \in 1..n /\ c[k] = b[k - m]
            BY <2>2, <2>3, <3>2
        <3>3. CASE j - m \in 1..n /\ c[j] = b[j - m] /\ k \in 1..m /\ c[k] = a[k]
            BY <2>2, <2>3, <3>3
        <3>4. CASE j - m \in 1..n /\ c[j] = b[j - m] /\ k - m \in 1..n /\ c[k] = b[k - m]
            <4>1. j - m = k - m
                BY <2>1, <2>3, <3>4
            <4> QED BY <1>1, <4>1
        <3> QED BY <1>4, <3>1, <3>2, <3>3, <3>4
    <2> QED BY <1>1, <2>3 DEF IsInjective
<1> QED BY <1>1, <1>5, <1>6 DEF c

\* A list of one.
LEMMA OneFacts ==
    ASSUME NEW S, NEW e \in S
    PROVE  <<e>> \in Seq(S) /\ ToSet(<<e>>) = {e} /\ IsInjective(<<e>>)
<1>1. <<e>> \in Seq(S) /\ DOMAIN <<e>> = {1} /\ <<e>>[1] = e
    OBVIOUS
<1> QED BY <1>1 DEF ToSet, IsInjective

\* The first entry of a list that passes a test.
LEMMA FirstFacts ==
    ASSUME NEW S, NEW s \in Seq(S), NEW T
    PROVE  LET k == SelectInSeq(s, LAMBDA e : e \in T) IN
           IF ToSet(s) \cap T = {} THEN k = 0 ELSE k \in 1..Len(s) /\ s[k] \in T
<1> DEFINE I == {i \in 1..Len(s) : s[i] \in T}
<1>1. Len(s) \in Nat /\ DOMAIN s = 1..Len(s) /\ I \in SUBSET Nat
    OBVIOUS
<1>2. SelectInSeq(s, LAMBDA e : e \in T) = IF I # {} THEN CHOOSE x \in I : \A y \in I : x <= y ELSE 0
    BY Zenon DEF SelectInSeq, Min
<1>3. I = {} <=> ToSet(s) \cap T = {}
    BY <1>1 DEF ToSet
<1>4. ASSUME I # {} PROVE (CHOOSE x \in I : \A y \in I : x <= y) \in I
    <2>1. \E x \in I : \A y \in I : x <= y
        <3> HIDE DEF I
        <3> QED BY <1>1, <1>4, LeastNumber
    <2> HIDE DEF I
    <2> QED BY <2>1
<1> QED BY <1>1, <1>2, <1>3, <1>4

\* The first entry and the rest.
LEMMA TailFacts ==
    ASSUME NEW S, NEW s \in Seq(S), s # <<>>
    PROVE  Head(s) \in S /\ Tail(s) \in Seq(S) /\ ToSet(s) = {Head(s)} \cup ToSet(Tail(s))
<1> DEFINE n == Len(s)
<1>1. /\ n \in Nat \ {0} /\ DOMAIN s = 1..n /\ Head(s) = s[1] /\ Head(s) \in S /\ Tail(s) \in Seq(S)
      /\ DOMAIN Tail(s) = 1..(n - 1) /\ \A k \in 1..(n - 1) : Tail(s)[k] = s[k + 1]
    OBVIOUS
<1> HIDE DEF n
<1>2. \A k \in 1..n : k = 1 \/ (k - 1 \in 1..(n - 1) /\ s[k] = Tail(s)[k - 1])
    BY <1>1
<1>3. ASSUME NEW e \in ToSet(s) PROVE e \in {Head(s)} \cup ToSet(Tail(s))
    <2>1. PICK k \in 1..n : e = s[k]
        BY <1>1 DEF ToSet
    <2> QED BY <1>1, <1>2, <2>1 DEF ToSet
<1>4. ASSUME NEW e \in ToSet(Tail(s)) PROVE e \in ToSet(s)
    <2>1. PICK k \in 1..(n - 1) : e = Tail(s)[k]
        BY <1>1 DEF ToSet
    <2>2. k + 1 \in DOMAIN s /\ e = s[k + 1]
        BY <1>1, <2>1
    <2> QED BY <2>2 DEF ToSet
<1>5. Head(s) \in ToSet(s)
    BY <1>1 DEF ToSet
<1> QED BY <1>1, <1>3, <1>4, <1>5

\* The first entry is one of the entries.
LEMMA HeadFacts ==
    ASSUME NEW S, NEW s \in Seq(S), s # <<>>
    PROVE  Head(s) \in ToSet(s) /\ Head(s) \in S
<1>1. 1 \in DOMAIN s /\ Head(s) = s[1] /\ s[1] \in S
    OBVIOUS
<1> QED BY <1>1 DEF ToSet

----------------------------------------------------------------------------
(* AppUpdater *)
UpdaterSpec == UpdaterInit /\ [][UpdaterNext]_updaterVars

----------------------------------------------------------------------------
\* The largest member of a bounded set of numbers is one of its members: what
\* the choice of a release among those published rests on.
LEMMA MaxIsMember ==
    ASSUME NEW n \in Nat, NEW S \in SUBSET (0..n), S # {}
    PROVE  Max(S) \in S
<1> DEFINE tails == {x..n : x \in S}
<1>1. tails \subseteq FiniteSubsetsOf(0..n)
    <2> SUFFICES ASSUME NEW x \in S PROVE x..n \in FiniteSubsetsOf(0..n)
        OBVIOUS
    <2>1. x..n \subseteq 0..n /\ x \in Int
        OBVIOUS
    <2> QED BY <2>1, FS_Interval DEF FiniteSubsetsOf
<1>2. tails # {}
    OBVIOUS
<1>3. \E U \in tails : \A V \in tails : ~(<<V, U>> \in StrictSubsetOrdering(0..n))
    <2> HIDE DEF tails
    <2> QED BY <1>1, <1>2, FS_StrictSubsetOrderingWellFounded, WFMin
<1>4. PICK x \in S : \A y \in S : ~(<<y..n, x..n>> \in StrictSubsetOrdering(0..n))
    BY <1>3
<1>5. \A y \in S : x >= y
    <2> SUFFICES ASSUME NEW y \in S, x < y PROVE FALSE
        OBVIOUS
    <2>1. y..n \subseteq x..n /\ x..n \subseteq 0..n
        OBVIOUS
    <2>2. x \in x..n /\ x \notin y..n
        OBVIOUS
    <2>3. <<y..n, x..n>> \in StrictSubsetOrdering(0..n)
        BY <2>1, <2>2 DEF StrictSubsetOrdering
    <2> QED BY <2>3, <1>4
<1> QED BY <1>5 DEF Max

----------------------------------------------------------------------------
(* The updater.  Beside what UpdateSound says, a download is only under way *)
(* for an offer that stands, of a package that can be replaced, and a       *)
(* program that ends has no request left.                                   *)
UpdaterInv ==
    /\ UpdateSound
    /\ reply \in {"file", "sums"} => available /\ package # "other"
    /\ quitting => reply = "none"

\* Both addresses name a release that is published, if they name any.
LEMMA FoundIsPublished ==
    ASSUME UpdaterTypeOK
    PROVE  Best \in Numbers /\ Latest \in Numbers /\ (Best # 0 => Fits(Best))
<1> USE UpdaterAssumption
<1>1. Len(Versions) \in Nat /\ out \in 1..Len(Versions)
    BY DEF UpdaterTypeOK
<1>2. Best \in Numbers /\ (Best # 0 => Fits(Best))
    <2> DEFINE S == {0} \cup {r \in 1..out : Fits(r)}
    <2>1. S \in SUBSET (0..Len(Versions)) /\ S # {}
        BY <1>1
    <2>2. Max(S) \in S
        <3> HIDE DEF S
        <3> QED BY <2>1, <1>1, MaxIsMember
    <2> QED BY <2>1, <2>2 DEF Best, Numbers
<1>3. Latest \in Numbers
    <2> DEFINE S == {r \in 1..out : ~Versions[r].pre}
    <2>1. S \in SUBSET (0..Len(Versions)) /\ 1 \in S
        BY <1>1
    <2>2. Max(S) \in S
        <3> HIDE DEF S
        <3> QED BY <2>1, <1>1, MaxIsMember
    <2> QED BY <2>1, <2>2 DEF Latest, Numbers
<1> QED BY <1>2, <1>3

\* The updater starts without an offer, a request or a download.
LEMMA UpdaterInvInit == UpdaterInit => UpdaterInv
<1> SUFFICES ASSUME UpdaterInit PROVE UpdaterInv
    OBVIOUS
<1> USE UpdaterAssumption
<1>1. Len(Versions) \in Nat /\ DOMAIN Versions = 1..Len(Versions)
    OBVIOUS
<1>2. onDisk \in [release : DOMAIN Versions, whole : BOOLEAN]
    BY DEF UpdaterInit
<1>3. offer \in Numbers /\ reply = "none" /\ fetched = "none"
    BY <1>1 DEF UpdaterInit, Numbers
<1>4. UpdaterTypeOK
    BY <1>2, <1>3 DEF UpdaterInit, UpdaterTypeOK
<1> QED BY <1>4 DEF UpdaterInit, UpdaterInv, UpdateSound

\* A file that is put in place is the one the offer names; what a check without
\* sums let through is of a release that has none.
LEMMA InstalledKeeps ==
    ASSUME UpdaterInv, available, offer # 0,
           NEW content, NEW relaunched \in BOOLEAN, Installed(content, relaunched),
           package = "AppImage" => (content = "whole" \/ ~Versions[offer].sums),
           UNCHANGED <<package, running, pre, checking, offer, channel, out, moves>>, ~checking
    PROVE  UpdaterInv'
<1>1. UpdaterTypeOK /\ Newer(offer, running, channel) /\ Fits(offer)
    BY DEF UpdaterInv, UpdateSound
<1>2. offer \in DOMAIN Versions
    BY <1>1, UpdaterAssumption DEF UpdaterTypeOK, Numbers
<1>3. onDisk' = [release |-> offer, whole |-> content = "whole"] /\ reply' = "none" /\ fetched' = "none"
    BY DEF Installed
<1>4. onDisk' \in [release : DOMAIN Versions, whole : BOOLEAN]
    <2> DEFINE w == content = "whole"
    <2>1. w \in BOOLEAN
        OBVIOUS
    <2> HIDE DEF w
    <2>2. onDisk' = [release |-> offer, whole |-> w]
        BY <1>3 DEF w
    <2> QED BY <2>1, <2>2, <1>2
<1>5. UpdaterTypeOK'
    BY <1>1, <1>3, <1>4 DEF UpdaterTypeOK, Numbers, Installed
<1>6. (package' = "AppImage" /\ ~onDisk'.whole) => ~Versions[onDisk'.release].sums
    BY <1>3
<1>7. available' => (offer' # 0 /\ Fits(offer)' /\ Newer(offer, running, channel)')
    BY <1>1 DEF Fits, Newer
<1>8. (checking <=> reply \in {"releases", "latest"})' /\ (downloading <=> (reply \in {"file", "sums"} \/ quitting))'
    BY <1>3 DEF Installed
<1> QED BY <1>3, <1>5, <1>6, <1>7, <1>8 DEF UpdaterInv, UpdateSound

\* Every step of the updater keeps the invariant.
LEMMA UpdaterInvNext == UpdaterInv /\ [UpdaterNext]_updaterVars => UpdaterInv'
<1> SUFFICES ASSUME UpdaterInv, [UpdaterNext]_updaterVars PROVE UpdaterInv'
    OBVIOUS
<1>0. UpdaterTypeOK
    BY DEF UpdaterInv, UpdateSound
<1> USE DEF UpdaterInv, UpdateSound, UpdaterTypeOK, Fits, Newer
<1>1. CASE CheckForUpdates
    BY <1>1 DEF CheckForUpdates, Asks, Do
<1>2. CASE SetIncludePreReleases
    BY <1>2 DEF SetIncludePreReleases, Asks, Do
<1>3. CASE CheckFails
    BY <1>3 DEF CheckFails
<1>4. CASE CheckAnswers
    <2>1. PICK k \in Numbers : /\ k # 0 /\ offer' = k /\ channel' = pre
                              /\ available' = (Newer(k, running, pre) /\ Fits(k))
        BY <1>4, <1>0, FoundIsPublished DEF CheckAnswers
    <2> QED BY <1>4, <2>1 DEF CheckAnswers
<1>5. CASE DownloadAndInstall
    <2>1. CASE ~available
        BY <1>5, <2>1 DEF DownloadAndInstall, Asks, Do
    <2>2. CASE available /\ package = "other"
        BY <1>5, <2>2 DEF DownloadAndInstall, Do
    <2>3. CASE available /\ package # "other"
        BY <1>5, <2>3 DEF DownloadAndInstall, Do
    <2> QED BY <2>1, <2>2, <2>3
<1>6. CASE DownloadFails
    BY <1>6 DEF DownloadFails
<1>7. CASE StartAgain
    <2>1. 0 \in Numbers
        BY UpdaterAssumption DEF Numbers
    <2>2. onDisk.release \in DOMAIN Versions
        BY <1>0
    <2> QED BY <1>7, <2>1, <2>2 DEF StartAgain
<1>8. CASE PublishVersion
    BY <1>8, UpdaterAssumption DEF PublishVersion
<1>9. ASSUME NEW content \in {"whole", "damaged"}, NEW started \in BOOLEAN, SetupArrives(content, started)
      PROVE  UpdaterInv'
    BY <1>9, InstalledKeeps DEF SetupArrives
<1>10. ASSUME NEW content \in {"whole", "damaged"}, NEW started \in BOOLEAN, AppImageArrives(content, started)
       PROVE  UpdaterInv'
    BY <1>10, InstalledKeeps DEF AppImageArrives
<1>11. ASSUME NEW started \in BOOLEAN, SumsArrive(started) PROVE UpdaterInv'
    BY <1>11, InstalledKeeps DEF SumsArrive, Matches
<1>12. CASE UNCHANGED updaterVars
    BY <1>12 DEF updaterVars
<1> QED BY <1>1, <1>2, <1>3, <1>4, <1>5, <1>6, <1>7, <1>8, <1>9, <1>10, <1>11, <1>12 DEF UpdaterNext

\* The flags that keep a check and a download apart are right, and a working
\* AppImage is only replaced by the file its release was published with.
THEOREM UpdateSoundHolds == UpdaterSpec => []UpdateSound
<1>1. UpdaterInv => UpdateSound
    BY DEF UpdaterInv
<1> QED BY <1>1, UpdaterInvInit, UpdaterInvNext, PTL DEF UpdaterSpec

\* An update never goes back, whatever channel is chosen while it is fetched.
THEOREM NeverBackHolds == UpdaterSpec => NeverBack
<1>1. UpdaterInv /\ [UpdaterNext]_updaterVars
          => [onDisk' # onDisk => Newer(onDisk'.release, running, channel)]_updaterVars
    <2> SUFFICES ASSUME UpdaterInv, UpdaterNext, onDisk' # onDisk
                 PROVE  Newer(onDisk'.release, running, channel)
        OBVIOUS
    <2>1. \/ \E content \in {"whole", "damaged"}, started \in BOOLEAN :
                  SetupArrives(content, started) \/ AppImageArrives(content, started)
          \/ \E started \in BOOLEAN : SumsArrive(started)
        BY DEF UpdaterNext, CheckForUpdates, SetIncludePreReleases, CheckFails, CheckAnswers,
               DownloadAndInstall, DownloadFails, StartAgain, PublishVersion
    <2>2. reply \in {"file", "sums"}
        BY <2>1 DEF SetupArrives, AppImageArrives, SumsArrive
    <2>3. \E content, relaunched : Installed(content, relaunched)
        BY <2>1 DEF SetupArrives, AppImageArrives, SumsArrive
    <2>4. onDisk'.release = offer
        BY <2>3 DEF Installed
    <2> QED BY <2>2, <2>4 DEF UpdaterInv, UpdateSound
<1> QED BY <1>1, UpdaterInvInit, UpdaterInvNext, PTL DEF UpdaterSpec, NeverBack

----------------------------------------------------------------------------
(* RuntimeSetup *)
SetupSpec == SetupInit /\ [][SetupNext]_setupVars

Frames == [game : Games, at : {"resolve", "depot", "fetch"}, deps : Seq(Depots), todo : Seq(Depots),
           again : BOOLEAN, fetch : Seq(Arches)]

\* What LaunchReady asks of a depot that has been dealt with.
Good(d, g) ==
    /\ IsVc(d) => Present(d, g) \/ (HasSteps(d) /\ HasRunKey(d, prefix[g]))
    /\ d \in marks[g] => Present(d, g)

\* A call under way: the depots behind it are good, and the one it installs is a
\* CRT, or has an install script, and is not marked before it is there.
FrameTrue(f) ==
    /\ \A d \in ToSet(f.deps) \ ToSet(f.todo) : Good(d, f.game)
    /\ f.at = "fetch" =>
         /\ f.todo # <<>>
         /\ LET d == Head(f.todo) IN
            /\ IsVc(d) \/ (Kind[d] = "optional" /\ f.fetch = <<>>)
            /\ d \in marks[f.game] => Present(d, f.game)

\* No depot for another system and no .NET is ever marked.
MarksTrue == \A g \in Games : \A d \in marks[g] : IsVc(d) \/ Kind[d] = "optional"

\* What LaunchReady says of a call that returns.
VerdictTrue(v) == IF v.ok THEN \A d \in v.deps : Good(d, v.game) ELSE IsVc(v.depot) \/ ~proton

Installers == [Games \X Depots \X Arches -> {"none", "whole", "torn"}]
SetupInv ==
    /\ prefix \in [Games -> SUBSET Parts] /\ marks \in [Games -> SUBSET Depots]
    /\ redist \in Installers
    /\ proton \in BOOLEAN /\ overlay \in Games \cup {NoGame} /\ launches \in 0..MaxLaunches
    /\ setups \in Seq(Frames) /\ MarksTrue
    /\ \A f \in ToSet(setups) : FrameTrue(f)
    /\ \A v \in verdict : VerdictTrue(v)
    /\ setups = <<>> => overlay = NoGame

\* The innermost call is replaced, or returns.
LEMMA StackFacts ==
    ASSUME NEW S, NEW s \in Seq(S), s # <<>>
    PROVE  /\ Last(s) \in S /\ Last(s) \in ToSet(s)
           /\ Front(s) \in Seq(S) /\ ToSet(Front(s)) \subseteq ToSet(s)
<1> DEFINE n == Len(s)
<1>1. n \in Nat \ {0} /\ DOMAIN s = 1..n /\ \A k \in 1..n : s[k] \in S
    OBVIOUS
<1>2. Last(s) = s[n] /\ n \in DOMAIN s
    BY <1>1 DEF Last
<1>3. Front(s) = SubSeq(s, 1, n - 1)
    BY DEF Front
<1>4. Front(s) \in Seq(S) /\ DOMAIN Front(s) = 1..(n - 1) /\ \A k \in 1..(n - 1) : Front(s)[k] = s[k]
    BY <1>1, <1>3
<1> HIDE DEF n
<1>5. ToSet(Front(s)) \subseteq ToSet(s)
    <2> SUFFICES ASSUME NEW k \in 1..(n - 1) PROVE s[k] \in ToSet(s)
        BY <1>4 DEF ToSet
    <2>1. k \in DOMAIN s
        BY <1>1
    <2> QED BY <2>1 DEF ToSet
<1> QED BY <1>1, <1>2, <1>4, <1>5 DEF ToSet

\* The innermost call is replaced by another state of it.
LEMMA WithFacts ==
    ASSUME NEW S, NEW s \in Seq(S), s # <<>>, NEW f \in S
    PROVE  /\ Append(Front(s), f) \in Seq(S) /\ Append(Front(s), f) # <<>>
           /\ ToSet(Append(Front(s), f)) \subseteq ToSet(s) \cup {f}
<1>1. Front(s) \in Seq(S) /\ ToSet(Front(s)) \subseteq ToSet(s)
    BY StackFacts
<1>2. Append(Front(s), f) \in Seq(S) /\ ToSet(Append(Front(s), f)) = ToSet(Front(s)) \cup {f}
    BY <1>1, AppendFacts
<1>3. Append(Front(s), f) # <<>>
    BY <1>1
<1> QED BY <1>1, <1>2, <1>3

\* The depots a game needs are depots.
LEMMA NeedsTyped ==
    ASSUME NEW g \in Games, NEW answered \in BOOLEAN
    PROVE  Needs(g, answered) \in Seq(Depots)
<1>1. /\ SteamDeps[g] \in Seq(Depots) /\ ManifestDeps[g] \in Seq(Depots) /\ Unified \in Depots
    BY SetupAssumption
<1>2. /\ FromSteamCmd(g, answered) \in Seq(Depots) /\ FromManifest(g) \in Seq(Depots)
      /\ <<Unified>> \in Seq(Depots)
    BY <1>1 DEF FromSteamCmd, FromManifest
<1>3. ASSUME NEW a \in Seq(Depots), NEW b \in Seq(Depots) PROVE Merge(a, b) \in Seq(Depots)
    <2>1. Only(b, Depots \ ToSet(a)) \in Seq(Depots)
        BY OnlyFacts
    <2> QED BY <2>1, ConcatFacts DEF Merge
<1> HIDE DEF FromSteamCmd, FromManifest
<1> QED BY <1>2, <1>3 DEF Needs

\* The packages that have to be fetched are packages.
LEMMA UnfetchedTyped ==
    ASSUME NEW d \in Depots, NEW g \in Games
    PROVE  Unfetched(d, g) \in Seq(Arches)
<1>1. Packages(d) \in Seq(Arches)
    <2>1. "x64" \in Arches /\ "x86" \in Arches
        BY DEF Arches
    <2>2. <<"x64", "x86">> \in Seq(Arches) /\ ArchOf(d) \in Arches
        BY <2>1 DEF ArchOf
    <2>3. <<ArchOf(d)>> \in Seq(Arches)
        BY <2>2, OneFacts
    <2> QED BY <2>2, <2>3 DEF Packages
<1> QED BY <1>1, OnlyFacts DEF Unfetched

\* A call stays true as long as its prefix loses nothing and a mark is only
\* made for what is there.
LEMMA FrameKept ==
    ASSUME NEW f \in Frames, FrameTrue(f), prefix[f.game] \subseteq prefix'[f.game],
           \A d \in marks'[f.game] : d \in marks[f.game] \/ Present(d, f.game)'
    PROVE  FrameTrue(f)'
<1>1. \A d : Present(d, f.game) => Present(d, f.game)'
    BY DEF Present
<1>2. \A d : Good(d, f.game) => Good(d, f.game)'
    BY <1>1 DEF Good, HasRunKey
<1> QED BY <1>1, <1>2 DEF FrameTrue

\* No call is under way and nothing is marked.
LEMMA SetupInvInit == SetupInit => SetupInv
<1> SUFFICES ASSUME SetupInit PROVE SetupInv
    OBVIOUS
<1>1. setups \in Seq(Frames) /\ ToSet(setups) = {} /\ verdict = {}
    BY DEF SetupInit, NoVerdict, ToSet
<1>2. prefix \in [Games -> SUBSET Parts] /\ marks \in [Games -> SUBSET Depots] /\ MarksTrue /\ redist \in Installers
    BY DEF SetupInit, MarksTrue, Installers
<1>3. launches \in 0..MaxLaunches
    BY SetupAssumption DEF SetupInit
<1> QED BY <1>1, <1>2, <1>3 DEF SetupInit, SetupInv

\* The innermost call.
LEMMA TopFacts ==
    ASSUME SetupInv, setups # <<>>
    PROVE  /\ Top \in Frames /\ FrameTrue(Top) /\ Top.game \in Games
           /\ prefix[Top.game] \subseteq Parts /\ marks[Top.game] \subseteq Depots
           /\ Top.todo # <<>> => /\ Depot \in Depots /\ Tail(Top.todo) \in Seq(Depots)
                                 /\ ToSet(Top.todo) = {Depot} \cup ToSet(Tail(Top.todo))
<1>1. setups \in Seq(Frames)
    BY DEF SetupInv
<1>2. Top \in Frames /\ Top \in ToSet(setups)
    <2> HIDE DEF Frames
    <2> QED BY <1>1, StackFacts DEF Top
<1>3. Top.game \in Games /\ Top.todo \in Seq(Depots)
    BY <1>2 DEF Frames
<1>4. Top.todo # <<>> => /\ Depot \in Depots /\ Tail(Top.todo) \in Seq(Depots)
                         /\ ToSet(Top.todo) = {Depot} \cup ToSet(Tail(Top.todo))
    BY <1>3, TailFacts DEF Depot
<1> QED BY <1>2, <1>3, <1>4 DEF SetupInv

\* The calls stay true when the prefixes of their games lose nothing and marks
\* are only made for what is there.
LEMMA FramesKept ==
    ASSUME SetupInv,
           \A f \in ToSet(setups) : prefix[f.game] \subseteq prefix'[f.game],
           \A g \in Games : \A d \in marks'[g] : d \in marks[g] \/ Present(d, g)'
    PROVE  \A f \in ToSet(setups) : FrameTrue(f)'
<1> SUFFICES ASSUME NEW f \in ToSet(setups) PROVE FrameTrue(f)'
    OBVIOUS
<1>1. f \in Frames /\ FrameTrue(f)
    BY DEF SetupInv, ToSet
<1>2. f.game \in Games
    BY <1>1 DEF Frames
<1> QED BY <1>1, <1>2, FrameKept

\* The innermost call goes on as f.
LEMMA GoesOn ==
    ASSUME SetupInv, setups # <<>>, NEW f \in Frames, With(f), FrameTrue(f)',
           \A e \in ToSet(setups) : FrameTrue(e)'
    PROVE  setups' \in Seq(Frames) /\ setups' # <<>> /\ \A e \in ToSet(setups') : FrameTrue(e)'
<1>1. setups \in Seq(Frames) /\ setups' = Append(Front(setups), f)
    BY DEF SetupInv, With
<1>2. /\ setups' \in Seq(Frames) /\ setups' # <<>>
      /\ ToSet(setups') \subseteq ToSet(setups) \cup {f}
    <2> HIDE DEF Frames
    <2> QED BY <1>1, WithFacts
<1> QED BY <1>2

\* The innermost call returns.
LEMMA Returns ==
    ASSUME SetupInv, setups # <<>>, NEW ok, NEW depot, Return(ok, depot),
           \A e \in ToSet(setups) : FrameTrue(e)'
    PROVE  /\ setups' \in Seq(Frames) /\ overlay' = NoGame /\ launches' = launches
           /\ \A e \in ToSet(setups') : FrameTrue(e)'
           /\ verdict' = {[game |-> Top.game, ok |-> ok, deps |-> ToSet(Top.deps), depot |-> depot]}
<1>1. setups \in Seq(Frames) /\ setups' = Front(setups)
    BY DEF SetupInv, Return
<1>2. setups' \in Seq(Frames) /\ ToSet(setups') \subseteq ToSet(setups)
    <2> HIDE DEF Frames
    <2> QED BY <1>1, StackFacts
<1> QED BY <1>2 DEF Return

\* A depot that is dealt with is left behind.
LEMMA FollowingTrue ==
    ASSUME NEW f \in Frames, f.todo # <<>>, FrameTrue(f)', Good(Head(f.todo), f.game)'
    PROVE  Following(f) \in Frames /\ FrameTrue(Following(f))'
<1>1. PICK h : h = Following(f)
    OBVIOUS
<1>2. f.todo \in Seq(Depots)
    BY DEF Frames
<1>3. Tail(f.todo) \in Seq(Depots) /\ ToSet(f.todo) = {Head(f.todo)} \cup ToSet(Tail(f.todo))
    BY <1>2, TailFacts
<1>4. /\ h \in Frames /\ h.game = f.game /\ h.deps = f.deps /\ h.todo = Tail(f.todo) /\ h.at = "depot"
    BY <1>1, <1>3 DEF Following, Frames
<1>5. \A d \in ToSet(f.deps) \ ToSet(f.todo) : Good(d, f.game)'
    BY DEF FrameTrue
<1>6. FrameTrue(h)'
    BY <1>3, <1>4, <1>5 DEF FrameTrue
<1> QED BY <1>1, <1>4, <1>6

\* A new call has dealt with nothing, so it owes nothing.
LEMMA LaunchTrue == ASSUME SetupInv, NEW g \in Games, Launch(g) PROVE SetupInv'
<1>1. PICK f : f = [game |-> g, at |-> "resolve", deps |-> <<>>, todo |-> <<>>, again |-> FALSE, fetch |-> <<>>]
    OBVIOUS
<1>2. f \in Frames /\ f.deps = <<>> /\ f.at = "resolve"
    BY <1>1 DEF Frames
<1>3. setups' = Append(setups, f) /\ verdict' = {} /\ UNCHANGED <<prefix, marks, redist, proton>> /\ overlay' = g
    BY <1>1 DEF Launch, NoVerdict
<1>4. setups \in Seq(Frames)
    BY DEF SetupInv
<1>5. setups' \in Seq(Frames) /\ ToSet(setups') = ToSet(setups) \cup {f}
    <2> HIDE DEF Frames
    <2> QED BY <1>2, <1>3, <1>4, AppendFacts
<1>6. \A e \in ToSet(setups) : FrameTrue(e)'
    BY <1>3, FramesKept
<1>7. FrameTrue(f)'
    BY <1>2 DEF FrameTrue, ToSet
<1>8. setups' # <<>>
    BY <1>3, <1>4
<1>9. launches' \in 0..MaxLaunches
    BY SetupAssumption DEF SetupInv, Launch
<1> QED BY <1>3, <1>5, <1>6, <1>7, <1>8, <1>9 DEF SetupInv, MarksTrue

\* When the depots are known, all of them are still to do.
LEMMA ResolveDepsTrue == ASSUME SetupInv, NEW answered \in BOOLEAN, ResolveDeps(answered) PROVE SetupInv'
<1>1. setups # <<>>
    BY DEF ResolveDeps, Working
<1>2. PICK t, deps : t = Top /\ deps = Needs(Top.game, answered)
    OBVIOUS
<1>3. t \in Frames /\ FrameTrue(t) /\ t.game \in Games
    BY <1>1, <1>2, TopFacts
<1>4. deps \in Seq(Depots)
    BY <1>2, <1>3, NeedsTyped
<1>5. PICK f : f = [t EXCEPT !.at = "depot", !.deps = deps, !.todo = deps]
    OBVIOUS
<1>6. f \in Frames /\ f.at = "depot" /\ f.deps = deps /\ f.todo = deps
    BY <1>3, <1>4, <1>5 DEF Frames
<1>7. With(f) /\ verdict' = {} /\ UNCHANGED <<prefix, marks, redist, proton, overlay, launches>>
    BY <1>2, <1>5 DEF ResolveDeps, NoVerdict
<1>8. \A e \in ToSet(setups) : FrameTrue(e)'
    BY <1>7, FramesKept
<1>9. FrameTrue(f)'
    BY <1>6 DEF FrameTrue
<1>10. setups' \in Seq(Frames) /\ setups' # <<>> /\ \A e \in ToSet(setups') : FrameTrue(e)'
    BY <1>1, <1>6, <1>7, <1>8, <1>9, GoesOn
<1> QED BY <1>7, <1>10 DEF SetupInv, MarksTrue

\* The call that has nothing left to do tells the truth about all its depots.
LEMMA ReadyTrue == ASSUME SetupInv, Ready PROVE SetupInv'
<1>1. /\ setups # <<>> /\ Top.todo = <<>> /\ Return(TRUE, Unified)
      /\ UNCHANGED <<prefix, marks, redist, proton>>
    BY DEF Ready, Working
<1>2. \A e \in ToSet(setups) : FrameTrue(e)'
    BY <1>1, FramesKept
<1>3. PICK t : t = Top
    OBVIOUS
<1>4. /\ setups' \in Seq(Frames) /\ overlay' = NoGame /\ launches' = launches
      /\ \A e \in ToSet(setups') : FrameTrue(e)'
      /\ verdict' = {[game |-> t.game, ok |-> TRUE, deps |-> ToSet(t.deps), depot |-> Unified]}
    BY <1>1, <1>2, <1>3, Returns
<1>5. \A d \in ToSet(t.deps) : Good(d, t.game)
    <2>1. FrameTrue(t) /\ ToSet(t.todo) = {}
        BY <1>1, <1>3, TopFacts DEF ToSet
    <2> QED BY <2>1 DEF FrameTrue
<1>6. \A d \in ToSet(t.deps) : Good(d, t.game)'
    BY <1>1, <1>5 DEF Good, Present, HasRunKey
<1>7. \A v \in verdict' : VerdictTrue(v)'
    BY <1>4, <1>6 DEF VerdictTrue
<1> QED BY <1>1, <1>4, <1>7 DEF SetupInv, MarksTrue

\* A depot that is passed over is there, is forgotten, or needs neither.
LEMMA SkipDepotTrue == ASSUME SetupInv, SkipDepot PROVE SetupInv'
<1>1. setups # <<>> /\ Top.todo # <<>>
    BY DEF SkipDepot, Working
<1>2. PICK t, d, g : t = Top /\ d = Depot /\ g = Top.game
    OBVIOUS
<1>3. t \in Frames /\ d \in Depots /\ g \in Games /\ t.game = g /\ d = Head(t.todo) /\ t.todo # <<>>
    BY <1>1, <1>2, TopFacts DEF Depot
<1>4. /\ \/ (Kind[d] = "native" \/ Present(d, g)) /\ marks' = marks
         \/ /\ ~Present(d, g) /\ (Kind[d] = "dotnet" \/ (Kind[d] = "optional" /\ ~HasSteps(d)))
            /\ marks' = Unmarked(d, g)
      /\ With(Following(t)) /\ verdict' = {} /\ UNCHANGED <<prefix, redist, proton, overlay, launches>>
    BY <1>2 DEF SkipDepot, NoVerdict
<1>5. /\ marks' \in [Games -> SUBSET Depots] /\ \A e \in Games : marks'[e] \subseteq marks[e]
      /\ Kind[d] \notin {"native"} /\ ~Present(d, g) => d \notin marks'[g]
    <2>1. marks \in [Games -> SUBSET Depots]
        BY DEF SetupInv
    <2> QED BY <1>3, <1>4, <2>1 DEF Unmarked
<1>6. \A e \in ToSet(setups) : FrameTrue(e)'
    BY <1>4, <1>5, FramesKept
<1>7. Good(d, g)'
    <2>1. CASE Present(d, g)
        BY <1>4, <2>1 DEF Good, Present
    <2>2. CASE Kind[d] = "native"
        <3>1. ~IsVc(d) /\ d \notin marks[g]
            BY <1>3, <2>2 DEF SetupInv, MarksTrue, IsVc
        <3> QED BY <1>3, <1>5, <3>1 DEF Good
    <2>3. CASE ~Present(d, g) /\ (Kind[d] = "dotnet" \/ Kind[d] = "optional")
        <3>1. ~IsVc(d) /\ d \notin marks'[g]
            BY <1>5, <2>3 DEF IsVc
        <3> QED BY <3>1 DEF Good
    <2> QED BY <1>4, <2>1, <2>2, <2>3
<1>8. FrameTrue(t)'
    BY <1>1, <1>2, <1>6, TopFacts, StackFacts DEF Top, SetupInv
<1>9. Following(t) \in Frames /\ FrameTrue(Following(t))'
    BY <1>3, <1>7, <1>8, FollowingTrue
<1>10. PICK f : f = Following(t)
    OBVIOUS
<1>11. setups' \in Seq(Frames) /\ setups' # <<>> /\ \A e \in ToSet(setups') : FrameTrue(e)'
    BY <1>1, <1>4, <1>6, <1>9, <1>10, GoesOn
<1>12. MarksTrue'
    BY <1>5 DEF SetupInv, MarksTrue
<1> QED BY <1>4, <1>5, <1>11, <1>12 DEF SetupInv

\* The mark of a depot is gone before its installers are fetched.
LEMMA BeginDepotTrue == ASSUME SetupInv, BeginDepot PROVE SetupInv'
<1>1. setups # <<>> /\ Top.todo # <<>>
    BY DEF BeginDepot, Working
<1>2. PICK t, d, g : t = Top /\ d = Depot /\ g = Top.game
    OBVIOUS
<1>3. /\ t \in Frames /\ d \in Depots /\ g \in Games /\ t.game = g /\ d = Head(t.todo) /\ t.todo # <<>>
      /\ t \in ToSet(setups)
    BY <1>1, <1>2, TopFacts, StackFacts DEF Depot, Top, SetupInv
<1>4. PICK f, wanted : /\ f = [t EXCEPT !.at = "fetch", !.fetch = wanted]
                       /\ wanted = IF HasSteps(d) THEN <<>> ELSE Unfetched(d, g)
    OBVIOUS
<1>5. /\ ~Present(d, g) /\ (IsVc(d) \/ (Kind[d] = "optional" /\ HasSteps(d)))
      /\ marks' = Unmarked(d, g) /\ verdict' = {} /\ With(f)
      /\ UNCHANGED <<prefix, redist, proton, overlay, launches>>
    BY <1>2, <1>4 DEF BeginDepot, NoVerdict
<1>6. /\ marks' \in [Games -> SUBSET Depots] /\ \A e \in Games : marks'[e] \subseteq marks[e]
      /\ d \notin marks'[g]
    <2>1. marks \in [Games -> SUBSET Depots]
        BY DEF SetupInv
    <2> QED BY <1>3, <1>5, <2>1 DEF Unmarked
<1>7. \A e \in ToSet(setups) : FrameTrue(e)'
    BY <1>5, <1>6, FramesKept
<1>8. /\ f \in Frames /\ f.at = "fetch" /\ f.todo = t.todo /\ f.deps = t.deps /\ f.game = g
      /\ f.fetch = IF HasSteps(d) THEN <<>> ELSE Unfetched(d, g)
    <2>1. wanted \in Seq(Arches)
        BY <1>3, <1>4, UnfetchedTyped
    <2> QED BY <1>3, <1>4, <2>1 DEF Frames
<1>9. FrameTrue(f)'
    <2>1. \A e \in ToSet(f.deps) \ ToSet(f.todo) : Good(e, f.game)'
        BY <1>3, <1>7, <1>8 DEF FrameTrue
    <2>2. IsVc(d) \/ (Kind[d] = "optional" /\ f.fetch = <<>>)
        BY <1>5, <1>8
    <2> QED BY <1>3, <1>6, <1>8, <2>1, <2>2 DEF FrameTrue
<1>10. setups' \in Seq(Frames) /\ setups' # <<>> /\ \A e \in ToSet(setups') : FrameTrue(e)'
    BY <1>1, <1>5, <1>7, <1>8, <1>9, GoesOn
<1>11. MarksTrue'
    BY <1>6 DEF SetupInv, MarksTrue
<1> QED BY <1>5, <1>6, <1>10, <1>11 DEF SetupInv

\* A download that fails ends a call for a CRT; one that ends is kept.
LEMMA FetchTrue ==
    ASSUME SetupInv, NEW outcome \in {"failed", "whole", "torn"}, Fetch(outcome)
    PROVE  SetupInv'
<1>1. setups # <<>> /\ Top.fetch # <<>> /\ Top.at = "fetch" /\ UNCHANGED <<prefix, marks, proton>>
    BY DEF Fetch, Working
<1>2. PICK t, d, g : t = Top /\ d = Depot /\ g = Top.game
    OBVIOUS
<1>3. t \in Frames /\ FrameTrue(t) /\ t \in ToSet(setups)
    BY <1>1, <1>2, TopFacts, StackFacts DEF Top, SetupInv
<1>4. t.todo # <<>> /\ IsVc(d) /\ d = Head(t.todo)
    BY <1>1, <1>2, <1>3 DEF FrameTrue, Depot
<1>5. d \in Depots /\ g \in Games /\ t.game = g
    BY <1>1, <1>2, <1>4, TopFacts
<1>6. \A e \in ToSet(setups) : FrameTrue(e)'
    BY <1>1, FramesKept
<1>7. CASE outcome = "failed"
    <2>1. Return(FALSE, d) /\ redist' = redist
        BY <1>2, <1>7 DEF Fetch
    <2>2. /\ setups' \in Seq(Frames) /\ overlay' = NoGame /\ launches' = launches
          /\ \A e \in ToSet(setups') : FrameTrue(e)'
          /\ verdict' = {[game |-> t.game, ok |-> FALSE, deps |-> ToSet(t.deps), depot |-> d]}
        BY <1>1, <1>2, <1>6, <2>1, Returns
    <2>3. \A v \in verdict' : VerdictTrue(v)'
        BY <1>4, <2>2 DEF VerdictTrue
    <2> QED BY <1>1, <2>1, <2>2, <2>3 DEF SetupInv, MarksTrue
<1>8. CASE outcome # "failed"
    <2>1. PICK f : f = [t EXCEPT !.fetch = Tail(@)]
        OBVIOUS
    <2>2. /\ redist' = [redist EXCEPT ![<<Top.game, Depot, Head(Top.fetch)>>] = outcome] /\ With(f) /\ verdict' = {}
          /\ UNCHANGED <<overlay, launches>>
        BY <1>2, <1>8, <2>1 DEF Fetch, NoVerdict
    <2>3. t.fetch \in Seq(Arches) /\ t.fetch # <<>>
        BY <1>1, <1>2, <1>3 DEF Frames
    <2>4. Tail(t.fetch) \in Seq(Arches) /\ Head(t.fetch) \in Arches
        BY <2>3, TailFacts
    <2>5. redist' \in Installers
        <3>1. redist \in Installers
            BY DEF SetupInv
        <3> QED BY <1>8, <2>2, <3>1 DEF Installers
    <2>6. f \in Frames /\ f.at = t.at /\ f.todo = t.todo /\ f.deps = t.deps /\ f.game = t.game
        BY <1>3, <2>1, <2>4 DEF Frames
    <2>7. FrameTrue(f)'
        <3>1. FrameTrue(t)'
            BY <1>3, <1>6
        <3> QED BY <1>4, <2>6, <3>1 DEF FrameTrue
    <2>8. setups' \in Seq(Frames) /\ setups' # <<>> /\ \A e \in ToSet(setups') : FrameTrue(e)'
        BY <1>1, <1>6, <2>2, <2>6, <2>7, GoesOn
    <2> QED BY <1>1, <2>2, <2>5, <2>8 DEF SetupInv, MarksTrue
<1> QED BY <1>7, <1>8

\* What an installer brings is a part of the prefix.
LEMMA GainsTyped ==
    ASSUME NEW d \in Depots, NEW g \in Games, NEW script \in BOOLEAN, NEW gained \in Gains(d, g, script)
    PROVE  gained \subseteq Parts
<1>1. Probed(d) \in Parts
    BY DEF Probed, ArchOf, Parts, Arches
<1> QED BY <1>1 DEF Gains, FromScript, FromCdn, Parts

\* Installers only add to the prefix, and only what the probe finds is marked.
LEMMA RunInstallersTrue == ASSUME SetupInv, RunInstallers PROVE SetupInv'
<1>1. setups # <<>> /\ Top.fetch = <<>> /\ Top.at = "fetch" /\ UNCHANGED <<redist, proton>>
    BY DEF RunInstallers, Working
<1>2. PICK t, d, g, script : t = Top /\ d = Depot /\ g = Top.game /\ script = (HasSteps(d) /\ ~Top.again)
    OBVIOUS
<1>3. t \in Frames /\ FrameTrue(t) /\ t \in ToSet(setups)
    BY <1>1, <1>2, TopFacts, StackFacts DEF Top, SetupInv
<1>4. /\ t.todo # <<>> /\ (IsVc(d) \/ Kind[d] = "optional") /\ d = Head(t.todo)
      /\ d \in marks[g] => Present(d, g)
    BY <1>1, <1>2, <1>3 DEF FrameTrue, Depot
<1>5. d \in Depots /\ g \in Games /\ t.game = g /\ script \in BOOLEAN
    BY <1>1, <1>2, <1>4, TopFacts DEF HasSteps
<1>6. CASE ~proton
    <2>1. Return(FALSE, d) /\ UNCHANGED <<prefix, marks>>
        BY <1>2, <1>6 DEF RunInstallers
    <2>2. \A e \in ToSet(setups) : FrameTrue(e)'
        BY <2>1, FramesKept
    <2>3. /\ setups' \in Seq(Frames) /\ overlay' = NoGame /\ launches' = launches
          /\ \A e \in ToSet(setups') : FrameTrue(e)'
          /\ verdict' = {[game |-> t.game, ok |-> FALSE, deps |-> ToSet(t.deps), depot |-> d]}
        BY <1>1, <1>2, <2>1, <2>2, Returns
    <2>4. \A v \in verdict' : VerdictTrue(v)'
        BY <1>1, <1>6, <2>3 DEF VerdictTrue
    <2> QED BY <1>1, <2>1, <2>3, <2>4 DEF SetupInv, MarksTrue
<1>7. CASE proton
    <2>1. PICK gained \in Gains(d, g, script) :
            LET ok == Registered(d, prefix[g] \cup gained, HasSteps(d)) IN
            /\ prefix' = [prefix EXCEPT ![g] = @ \cup gained]
            /\ marks' = IF ok /\ Probed(d) \in prefix'[g] THEN Marked(d, g) ELSE marks
            /\ IF ok \/ Kind[d] = "optional"
               THEN With(Following(t)) /\ verdict' = NoVerdict /\ UNCHANGED <<overlay, launches>>
               ELSE IF Kind[d] \in {"vc64", "vc32"} /\ ~t.again
               THEN /\ With([t EXCEPT !.again = TRUE, !.fetch = Unfetched(d, g)])
                    /\ verdict' = NoVerdict /\ UNCHANGED <<overlay, launches>>
               ELSE Return(FALSE, d)
        BY <1>2, <1>7 DEF RunInstallers
    <2>2. PICK ok : ok = Registered(d, prefix[g] \cup gained, HasSteps(d))
        OBVIOUS
    <2>3. prefix \in [Games -> SUBSET Parts] /\ marks \in [Games -> SUBSET Depots] /\ gained \subseteq Parts
        BY <1>5, GainsTyped DEF SetupInv
    <2>4. /\ prefix' \in [Games -> SUBSET Parts] /\ prefix'[g] = prefix[g] \cup gained
          /\ \A e \in Games : prefix[e] \subseteq prefix'[e]
        BY <1>5, <2>1, <2>3
    <2>5. /\ marks' \in [Games -> SUBSET Depots]
          /\ \A e \in Games : \A c \in marks'[e] :
                c \in marks[e] \/ (c = d /\ e = g /\ Probed(d) \in prefix'[g])
        BY <1>5, <2>1, <2>3 DEF Marked
    <2>6. \A e \in Games : \A c \in marks'[e] : c \in marks[e] \/ Present(c, e)'
        BY <2>5 DEF Present
    <2>7. \A e \in ToSet(setups) : prefix[e.game] \subseteq prefix'[e.game]
        <3> SUFFICES ASSUME NEW e \in ToSet(setups) PROVE e.game \in Games
            BY <2>4
        <3>1. e \in Frames
            BY DEF SetupInv, ToSet
        <3> QED BY <3>1 DEF Frames
    <2>8. \A e \in ToSet(setups) : FrameTrue(e)'
        BY <2>6, <2>7, FramesKept
    <2>9. MarksTrue'
        BY <1>4, <2>5 DEF SetupInv, MarksTrue
    <2>10. d \in marks'[g] => Present(d, g)'
        <3>1. Present(d, g) => Present(d, g)'
            BY <1>5, <2>4 DEF Present
        <3> QED BY <1>4, <1>5, <2>6, <3>1
    <2>11. FrameTrue(t)'
        BY <1>3, <2>8
    <2>12. CASE ok \/ Kind[d] = "optional"
        <3>1. With(Following(t)) /\ verdict' = {} /\ UNCHANGED <<overlay, launches>>
            BY <2>1, <2>2, <2>12 DEF NoVerdict
        <3>2. Good(d, g)'
            <4>1. CASE ok
                <5>1. Probed(d) \in prefix'[g] \/ (HasSteps(d) /\ d \in prefix'[g])
                    BY <2>2, <2>4, <4>1 DEF Registered, HasRunKey
                <5> QED BY <2>10, <5>1 DEF Good, Present, HasRunKey
            <4>2. CASE Kind[d] = "optional"
                BY <2>10, <4>2 DEF Good, IsVc
            <4> QED BY <2>12, <4>1, <4>2
        <3>3. Following(t) \in Frames /\ FrameTrue(Following(t))'
            BY <1>3, <1>4, <1>5, <2>11, <3>2, FollowingTrue
        <3>4. PICK f : f = Following(t)
            OBVIOUS
        <3>5. setups' \in Seq(Frames) /\ setups' # <<>> /\ \A e \in ToSet(setups') : FrameTrue(e)'
            BY <1>1, <2>8, <3>1, <3>3, <3>4, GoesOn
        <3> QED BY <1>1, <2>4, <2>5, <2>9, <3>1, <3>5 DEF SetupInv
    <2>13. CASE ~ok /\ Kind[d] # "optional" /\ Kind[d] \in {"vc64", "vc32"} /\ ~t.again
        <3>1. PICK f : f = [t EXCEPT !.again = TRUE, !.fetch = Unfetched(d, g)]
            OBVIOUS
        <3>2. With(f) /\ verdict' = {} /\ UNCHANGED <<overlay, launches>>
            BY <2>1, <2>2, <2>13, <3>1 DEF NoVerdict
        <3>3. f \in Frames /\ f.at = t.at /\ f.todo = t.todo /\ f.deps = t.deps /\ f.game = t.game
            BY <1>3, <1>5, <3>1, UnfetchedTyped DEF Frames
        <3>4. IsVc(d)
            BY <2>13 DEF IsVc
        <3>5. FrameTrue(f)'
            BY <1>4, <2>11, <3>3, <3>4 DEF FrameTrue
        <3>6. setups' \in Seq(Frames) /\ setups' # <<>> /\ \A e \in ToSet(setups') : FrameTrue(e)'
            BY <1>1, <2>8, <3>2, <3>3, <3>5, GoesOn
        <3> QED BY <1>1, <2>4, <2>5, <2>9, <3>2, <3>6 DEF SetupInv
    <2>14. CASE ~ok /\ Kind[d] # "optional" /\ ~(Kind[d] \in {"vc64", "vc32"} /\ ~t.again)
        <3>1. Return(FALSE, d)
            BY <2>1, <2>2, <2>14
        <3>2. /\ setups' \in Seq(Frames) /\ overlay' = NoGame /\ launches' = launches
              /\ \A e \in ToSet(setups') : FrameTrue(e)'
              /\ verdict' = {[game |-> t.game, ok |-> FALSE, deps |-> ToSet(t.deps), depot |-> d]}
            BY <1>1, <1>2, <2>8, <3>1, Returns
        <3>3. \A v \in verdict' : VerdictTrue(v)'
            BY <1>4, <2>14, <3>2 DEF VerdictTrue
        <3> QED BY <1>1, <2>4, <2>5, <2>9, <3>2, <3>3 DEF SetupInv
    <2> QED BY <2>12, <2>13, <2>14
<1>8. proton \in BOOLEAN
    BY DEF SetupInv
<1> QED BY <1>6, <1>7, <1>8

\* The page of a game only takes marks away.
LEMMA InfoTrue == ASSUME SetupInv, NEW g \in Games, Info(g) PROVE SetupInv'
<1>1. /\ verdict' = {} /\ UNCHANGED <<prefix, redist, proton, setups, overlay, launches>>
      /\ marks' = [marks EXCEPT ![g] = {d \in @ : d \in marks[g] \cup ToSet(ManifestDeps[g]) => Present(d, g)}]
    BY DEF Info, NoVerdict
<1>2. marks' \in [Games -> SUBSET Depots] /\ \A e \in Games : marks'[e] \subseteq marks[e]
    <2>1. marks \in [Games -> SUBSET Depots]
        BY DEF SetupInv
    <2> QED BY <1>1, <2>1
<1>3. \A e \in ToSet(setups) : FrameTrue(e)'
    BY <1>1, <1>2, FramesKept
<1> QED BY <1>1, <1>2, <1>3 DEF SetupInv, MarksTrue

\* Proton comes and goes without touching a prefix.
LEMMA ProtonChangesTrue == ASSUME SetupInv, ProtonChanges PROVE SetupInv'
<1>1. proton' \in BOOLEAN /\ verdict' = {} /\ UNCHANGED <<prefix, marks, redist, setups, overlay, launches>>
    BY DEF ProtonChanges, NoVerdict
<1>2. \A e \in ToSet(setups) : FrameTrue(e)'
    BY <1>1, FramesKept
<1> QED BY <1>1, <1>2 DEF SetupInv, MarksTrue

\* A prefix is only replaced when no call of its game is under way.
LEMMA PrefixReplacedTrue == ASSUME SetupInv, NEW g \in Games, PrefixReplaced(g) PROVE SetupInv'
<1>1. /\ \A k \in DOMAIN setups : setups[k].game # g
      /\ prefix' = [prefix EXCEPT ![g] = {}] /\ verdict' = {}
      /\ UNCHANGED <<marks, redist, proton, setups, overlay, launches>>
    BY DEF PrefixReplaced, NoVerdict
<1>2. prefix \in [Games -> SUBSET Parts] /\ setups \in Seq(Frames)
    BY DEF SetupInv
<1>3. prefix' \in [Games -> SUBSET Parts]
    BY <1>1, <1>2
<1>4. \A e \in ToSet(setups) : FrameTrue(e)'
    <2> SUFFICES ASSUME NEW e \in ToSet(setups) PROVE FrameTrue(e)'
        OBVIOUS
    <2>1. e \in Frames /\ FrameTrue(e) /\ e.game # g
        BY <1>1, <1>2 DEF SetupInv, ToSet
    <2>2. e.game \in Games
        BY <2>1 DEF Frames
    <2>3. prefix'[e.game] = prefix[e.game] /\ marks' = marks
        BY <1>1, <1>2, <2>1, <2>2
    <2> QED BY <2>1, <2>3, FrameKept
<1> QED BY <1>1, <1>3, <1>4 DEF SetupInv, MarksTrue

\* Every step keeps the calls, the marks and the verdict true.
LEMMA SetupInvNext == SetupInv /\ [SetupNext]_setupVars => SetupInv'
<1> SUFFICES ASSUME SetupInv, [SetupNext]_setupVars PROVE SetupInv'
    OBVIOUS
<1>1. CASE UNCHANGED setupVars
    <2>1. UNCHANGED <<prefix, marks, redist, proton, setups, overlay, verdict, launches>>
        BY <1>1 DEF setupVars
    <2>2. \A e \in ToSet(setups) : FrameTrue(e)'
        BY <2>1, FramesKept
    <2>3. \A v \in verdict' : VerdictTrue(v)'
        BY <2>1 DEF SetupInv, VerdictTrue, Good, Present, HasRunKey
    <2> QED BY <2>1, <2>2, <2>3 DEF SetupInv, MarksTrue
<1>2. CASE SetupNext
    BY <1>2, LaunchTrue, InfoTrue, PrefixReplacedTrue, ResolveDepsTrue, FetchTrue, ReadyTrue, SkipDepotTrue,
       BeginDepotTrue, RunInstallersTrue, ProtonChangesTrue
    DEF SetupNext
<1> QED BY <1>1, <1>2

\* A game that is let through has what it needs, whatever other launches and
\* the pages of the games did in between, for any games and depots.
THEOREM LaunchReadyHolds == SetupSpec => []LaunchReady
<1>1. SetupInv => LaunchReady
    <2> SUFFICES ASSUME SetupInv PROVE LaunchReady
        OBVIOUS
    <2>1. SetupTypeOK
        <3>1. \A k \in DOMAIN setups : setups[k] \in Frames
            BY DEF SetupInv
        <3>2. \A k \in DOMAIN setups : /\ setups[k].game \in Games /\ setups[k].todo \in Seq(Depots)
                                       /\ setups[k].at \in {"resolve", "depot", "fetch"}
            BY <3>1 DEF Frames
        <3> QED BY <3>2 DEF SetupInv, SetupTypeOK, Installers
    <2> QED BY <2>1 DEF SetupInv, LaunchReady, VerdictTrue, Good
<1> QED BY <1>1, SetupInvInit, SetupInvNext, PTL DEF SetupSpec

----------------------------------------------------------------------------
(* ProtonVersions *)
ProtonSpec == ProtonInit /\ [][ProtonNext]_protonVars

\* Every entry and the default have one place in the order.
Ordered(es, p, d) ==
    /\ es \in Seq(Dirs) /\ p \in Seq(Dirs) /\ d \in Dirs \cup {None}
    /\ IsInjective(p) /\ ToSet(es) \subseteq ToSet(p)
    /\ d = None => es = <<>>
    /\ d # None => d \in ToSet(p)
ProtonInv == ProtonTypeOK /\ published \in 1..Len(GeReleases) /\ Ordered(entries, priority, default)

\* What the scan finds, what is put first, and what is listed last.
LEMMA ScanFacts == ASSUME NEW fs PROVE Scan(fs) \in Seq(Dirs) /\ IsInjective(Scan(fs))
<1>1. ScanOrder \in Seq(Dirs) /\ IsInjective(ScanOrder)
    BY ProtonAssumption
<1> QED BY <1>1, OnlyFacts DEF Scan

\* A Proton that is put first leaves no second place behind.
LEMMA PromotedFacts ==
    ASSUME NEW d \in Dirs, NEW ids \in Seq(Dirs), IsInjective(ids)
    PROVE  /\ Promoted(d, ids) \in Seq(Dirs) /\ IsInjective(Promoted(d, ids))
           /\ ToSet(Promoted(d, ids)) = {d} \cup ToSet(ids)
<1> DEFINE rest == Only(ids, Dirs \ {d})
<1>1. /\ rest \in Seq(Dirs) /\ IsInjective(rest) /\ ToSet(rest) = ToSet(ids) \cap (Dirs \ {d})
      /\ <<d>> \in Seq(Dirs) /\ ToSet(<<d>>) = {d} /\ IsInjective(<<d>>)
    BY OnlyFacts, OneFacts
<1>2. ToSet(ids) \subseteq Dirs
    BY DEF ToSet
<1>3. Promoted(d, ids) = <<d>> \o rest
    BY DEF Promoted
<1> HIDE DEF rest
<1>4. ToSet(<<d>>) \cap ToSet(rest) = {}
    BY <1>1
<1>5. /\ <<d>> \o rest \in Seq(Dirs) /\ IsInjective(<<d>> \o rest)
      /\ ToSet(<<d>> \o rest) = ToSet(<<d>>) \cup ToSet(rest)
    BY <1>1, <1>4, ConcatFacts
<1> QED BY <1>1, <1>2, <1>3, <1>5

\* What is new comes last, and nothing comes twice.
LEMMA ListedFacts ==
    ASSUME NEW ids \in Seq(Dirs), IsInjective(ids), NEW fs \in Seq(Dirs), IsInjective(fs)
    PROVE  /\ Listed(ids, fs) \in Seq(Dirs) /\ IsInjective(Listed(ids, fs))
           /\ ToSet(Listed(ids, fs)) = ToSet(ids) \cup ToSet(fs)
<1> DEFINE new == Only(fs, Dirs \ ToSet(ids))
<1>1. new \in Seq(Dirs) /\ IsInjective(new) /\ ToSet(new) = ToSet(fs) \cap (Dirs \ ToSet(ids))
    BY OnlyFacts
<1>2. ToSet(fs) \subseteq Dirs
    BY DEF ToSet
<1>3. Listed(ids, fs) = ids \o new
    BY DEF Listed
<1> HIDE DEF new
<1>4. ToSet(ids) \cap ToSet(new) = {}
    BY <1>1
<1>5. /\ ids \o new \in Seq(Dirs) /\ IsInjective(ids \o new)
      /\ ToSet(ids \o new) = ToSet(ids) \cup ToSet(new)
    BY <1>1, <1>4, ConcatFacts
<1> QED BY <1>1, <1>2, <1>3, <1>5

\* After a synchronisation every entry and the default have one place.
LEMMA SyncKeeps ==
    ASSUME NEW fs, Ordered(entries, priority, default), Sync(fs)
    PROVE  Ordered(entries, priority, default)'
<1> DEFINE fnd == Scan(fs)
           lst == Listed(priority, fnd)
           chosen == IF default = None /\ fnd # <<>> THEN Head(fnd) ELSE default
<1>1. fnd \in Seq(Dirs) /\ IsInjective(fnd)
    BY ScanFacts
<1>2. priority \in Seq(Dirs) /\ IsInjective(priority) /\ default \in Dirs \cup {None}
    BY DEF Ordered
<1>3. lst \in Seq(Dirs) /\ IsInjective(lst) /\ ToSet(lst) = ToSet(priority) \cup ToSet(fnd)
    BY <1>1, <1>2, ListedFacts
<1>4. entries' = fnd /\ default' = chosen /\ priority' = IF chosen = default THEN lst ELSE Promoted(chosen, lst)
    BY DEF Sync
<1>5. fnd # <<>> => Head(fnd) \in ToSet(fnd) /\ Head(fnd) \in Dirs
    BY <1>1, HeadFacts
<1>6. None \notin Dirs
    BY ProtonAssumption
<1> HIDE DEF fnd, lst
<1>7. CASE chosen = default
    <2>1. default' = default /\ priority' = lst
        BY <1>4, <1>7
    <2>2. default = None => fnd = <<>>
        BY <1>5, <1>6, <1>7
    <2> QED BY <1>1, <1>2, <1>3, <1>4, <2>1, <2>2 DEF Ordered
<1>8. CASE chosen # default
    <2>1. chosen \in Dirs /\ priority' = Promoted(chosen, lst) /\ default' = chosen
        BY <1>4, <1>5, <1>8
    <2> HIDE DEF chosen
    <2>2. /\ priority' \in Seq(Dirs) /\ IsInjective(priority')
          /\ ToSet(priority') = {chosen} \cup ToSet(lst)
        BY <1>3, <2>1, PromotedFacts
    <2> QED BY <1>1, <1>3, <1>4, <1>6, <2>1, <2>2 DEF Ordered
<1> QED BY <1>7, <1>8

\* The first synchronisation lists every entry and the default.
LEMMA ProtonInvInit == ProtonInit => ProtonInv
<1> SUFFICES ASSUME ProtonInit PROVE ProtonInv
    OBVIOUS
<1>1. /\ GeReleases \in Seq(Dirs) /\ GeReleases # <<>> /\ Len(GeReleases) \in Nat
      /\ ScanOrder \in Seq(Dirs) /\ None \notin Dirs
    BY ProtonAssumption
<1>2. 1 \in 1..Len(GeReleases) /\ GeReleases[1] \in Dirs
    BY <1>1
<1>3. ScanOrder # <<>>
    BY <1>2 DEF Dirs, ToSet
<1>4. Head(ScanOrder) \in Dirs
    BY <1>1, <1>3, HeadFacts
<1> DEFINE fnd == Scan(dirs)
<1>5. PICK old \in {None, Head(ScanOrder)}, path \in {None} \cup Dirs :
         LET ordered == IF old = None THEN <<>> ELSE <<old>>
             chosen == CASE old # None -> old
                         [] old = None /\ path \in ToSet(fnd) -> path
                         [] OTHER -> IF fnd = <<>> THEN None ELSE Head(fnd)
         IN  /\ entries = fnd /\ default = chosen
             /\ priority = IF chosen = None THEN <<>> ELSE Promoted(chosen, Listed(ordered, fnd))
    BY DEF ProtonInit
<1>6. fnd \in Seq(Dirs) /\ IsInjective(fnd) /\ ToSet(fnd) \subseteq Dirs
    BY ScanFacts DEF ToSet
<1> DEFINE ordered == IF old = None THEN <<>> ELSE <<old>>
           chosen == CASE old # None -> old
                       [] old = None /\ path \in ToSet(fnd) -> path
                       [] OTHER -> IF fnd = <<>> THEN None ELSE Head(fnd)
<1>7. ordered \in Seq(Dirs) /\ IsInjective(ordered)
    <2>1. <<>> \in Seq(Dirs) /\ IsInjective(<<>>)
        BY DEF IsInjective
    <2> QED BY <1>4, <1>5, <2>1, OneFacts
<1>8. chosen \in Dirs \cup {None} /\ (chosen = None => fnd = <<>>)
    <2>1. fnd # <<>> => Head(fnd) \in Dirs
        BY <1>6, HeadFacts
    <2> HIDE DEF fnd
    <2> QED BY <1>1, <1>4, <1>5, <1>6, <2>1
<1>9. entries = fnd /\ default = chosen /\ priority = IF chosen = None THEN <<>> ELSE Promoted(chosen, Listed(ordered, fnd))
    BY <1>5
<1> HIDE DEF ordered, chosen, fnd
<1>10. Ordered(entries, priority, default)
    <2>1. CASE chosen = None
        <3>1. <<>> \in Seq(Dirs) /\ IsInjective(<<>>) /\ ToSet(<<>>) = {}
            BY DEF IsInjective, ToSet
        <3> QED BY <1>8, <1>9, <2>1, <3>1 DEF Ordered
    <2>2. CASE chosen # None
        <3> DEFINE lst == Listed(ordered, fnd)
        <3>1. lst \in Seq(Dirs) /\ IsInjective(lst) /\ ToSet(lst) = ToSet(ordered) \cup ToSet(fnd)
            BY <1>6, <1>7, ListedFacts
        <3>2. priority = Promoted(chosen, lst) /\ chosen \in Dirs
            BY <1>8, <1>9, <2>2
        <3> HIDE DEF lst
        <3>3. /\ priority \in Seq(Dirs) /\ IsInjective(priority)
              /\ ToSet(priority) = {chosen} \cup ToSet(lst)
            BY <3>1, <3>2, PromotedFacts
        <3> QED BY <1>6, <1>9, <2>2, <3>1, <3>2, <3>3 DEF Ordered
    <2> QED BY <2>1, <2>2
<1>11. ProtonTypeOK
    <2>1. dirs \in [Dirs -> {"none", "stub", "torn", "whole"}]
        BY DEF ProtonInit
    <2>2. entries \in Seq(Dirs) /\ priority \in Seq(Dirs) /\ default \in Dirs \cup {None}
        BY <1>10 DEF Ordered
    <2> QED BY <2>1, <2>2 DEF ProtonInit, ProtonTypeOK
<1> QED BY <1>2, <1>10, <1>11 DEF ProtonInit, ProtonInv

\* Two neighbours in the order change places.
LEMMA SwapFacts ==
    ASSUME NEW S, NEW s \in Seq(S), IsInjective(s), NEW k \in 1..(Len(s) - 1)
    PROVE  LET t == [s EXCEPT ![k] = s[k + 1], ![k + 1] = s[k]] IN
           t \in Seq(S) /\ IsInjective(t) /\ ToSet(t) = ToSet(s)
<1> DEFINE n == Len(s)
           t == [s EXCEPT ![k] = s[k + 1], ![k + 1] = s[k]]
           other(j) == IF j = k THEN k + 1 ELSE IF j = k + 1 THEN k ELSE j
<1>1. n \in Nat /\ DOMAIN s = 1..n /\ k \in 1..n /\ k + 1 \in 1..n /\ k # k + 1 /\ \A j \in 1..n : s[j] \in S
    OBVIOUS
<1>2. DOMAIN t = 1..n /\ \A j \in 1..n : t[j] = s[other(j)]
    BY <1>1
<1>3. /\ \A j \in 1..n : other(j) \in 1..n /\ other(other(j)) = j
      /\ \A i, j \in 1..n : other(i) = other(j) => i = j
    BY <1>1
<1>4. t \in Seq(S)
    <2>1. t \in [1..n -> S]
        BY <1>1
    <2> HIDE DEF t, n
    <2> QED BY <1>1, <2>1
<1> HIDE DEF t, n, other
<1>5. IsInjective(t)
    <2>1. \A i, j \in 1..n : s[i] = s[j] => i = j
        BY <1>1 DEF IsInjective
    <2>2. ASSUME NEW i \in 1..n, NEW j \in 1..n, t[i] = t[j] PROVE i = j
        <3>1. s[other(i)] = s[other(j)] /\ other(i) \in 1..n /\ other(j) \in 1..n
            BY <1>2, <1>3, <2>2
        <3>2. other(i) = other(j)
            BY <2>1, <3>1
        <3> QED BY <1>3, <3>2
    <2> QED BY <1>2, <2>2 DEF IsInjective
<1>6. ToSet(t) = ToSet(s)
    <2>1. ASSUME NEW e \in ToSet(t) PROVE e \in ToSet(s)
        <3>1. PICK j \in 1..n : e = t[j]
            BY <1>2, <2>1 DEF ToSet
        <3>2. other(j) \in 1..n /\ e = s[other(j)]
            BY <1>2, <1>3, <3>1
        <3> QED BY <1>1, <3>2 DEF ToSet
    <2>2. ASSUME NEW e \in ToSet(s) PROVE e \in ToSet(t)
        <3>1. PICK j \in 1..n : e = s[j]
            BY <1>1, <2>2 DEF ToSet
        <3>2. other(j) \in 1..n /\ e = t[other(j)]
            BY <1>2, <1>3, <3>1
        <3> QED BY <1>2, <3>2 DEF ToSet
    <2> QED BY <2>1, <2>2
<1> QED BY <1>4, <1>5, <1>6 DEF t

\* Every act of the user, the network and the world outside keeps the order.
LEMMA ProtonInvNext == ProtonInv /\ [ProtonNext]_protonVars => ProtonInv'
<1> SUFFICES ASSUME ProtonInv, [ProtonNext]_protonVars PROVE ProtonInv'
    OBVIOUS
<1> DEFINE Contents == [Dirs -> {"none", "stub", "torn", "whole"}]
           Places == /\ stage \in {"idle", "api", "page", "archive"} /\ release \in Dirs \cup {None}
                     /\ latest \in ToSet(GeReleases) \cup {None} /\ lookups \subseteq {"api", "page"}
                     /\ stage = "archive" => release # None
           O == Ordered(entries, priority, default)
           P == published \in 1..Len(GeReleases)
<1>1. /\ GeReleases \in Seq(Dirs) /\ Len(GeReleases) \in Nat
      /\ ScanOrder \in Seq(Dirs) /\ None \notin Dirs
    BY ProtonAssumption
<1>2. dirs \in Contents /\ Places /\ O /\ P
    BY DEF ProtonInv, ProtonTypeOK
<1>3. Newest \in Dirs /\ Newest \in ToSet(GeReleases)
    <2>1. published \in DOMAIN GeReleases /\ GeReleases[published] \in Dirs
        BY <1>1, <1>2
    <2> QED BY <2>1 DEF Newest, ToSet
<1>4. dirs' \in Contents /\ Places' /\ O' /\ P' => ProtonInv'
    BY DEF ProtonInv, ProtonTypeOK, Ordered
<1>5. UNCHANGED dirs => dirs' \in Contents
    BY <1>2
<1>6. UNCHANGED <<entries, priority, default>> => O'
    BY <1>2 DEF Ordered
<1>7. UNCHANGED published => P'
    BY <1>2
<1>8. UNCHANGED <<stage, release, latest, lookups>> => Places'
    BY <1>2
<1>9. \A fs : Sync(fs) => O'
    BY <1>2, SyncKeeps
<1> HIDE DEF Contents, O, P
<1> USE <1>1, <1>2, <1>3, <1>4, <1>5, <1>6, <1>7, <1>8, <1>9
<1>a. CASE DownloadLatestGe
    BY <1>a DEF DownloadLatestGe
<1>b. CASE RefreshLatest
    BY <1>b DEF RefreshLatest
<1>c. CASE RefreshAvailable
    BY <1>c DEF RefreshAvailable
<1>d. CASE PublishGe
    <2>1. P'
        BY <1>d DEF PublishGe, P
    <2> QED BY <1>d, <2>1 DEF PublishGe
<1>e. CASE RestartProton
    BY <1>e DEF RestartProton
<1>f. ASSUME NEW outcome \in Lookup, ApiAnswers(outcome) PROVE ProtonInv'
    BY <1>f DEF ApiAnswers, Lookup
<1>g. ASSUME NEW outcome \in Lookup, PageAnswers(outcome) PROVE ProtonInv'
    BY <1>g DEF PageAnswers, Lookup
<1>h. ASSUME NEW at \in {"api", "page"}, NEW outcome \in Lookup, LookupAnswers(at, outcome) PROVE ProtonInv'
    BY <1>h DEF LookupAnswers, Lookup
<1>i. ASSUME NEW outcome \in {"extracted", "not written", "empty", "cut off"}, ArchiveArrives(outcome) PROVE ProtonInv'
    <2>1. dirs' \in Contents
        BY <1>i DEF ArchiveArrives, Contents
    <2>2. O'
        BY <1>i DEF ArchiveArrives
    <2>3. Places' /\ P'
        BY <1>i DEF ArchiveArrives
    <2> QED BY <2>1, <2>2, <2>3
<1>j. ASSUME NEW d \in Dirs, SetDefault(d) PROVE ProtonInv'
    <2>1. /\ d \in ToSet(entries) /\ default' = d /\ priority' = WithDefault(d, priority)
          /\ UNCHANGED <<dirs, entries, stage, release, latest, lookups, published>>
        BY <1>j DEF SetDefault
    <2>2. priority \in Seq(Dirs) /\ IsInjective(priority)
        BY DEF O, Ordered
    <2>3. /\ priority' \in Seq(Dirs) /\ IsInjective(priority')
          /\ ToSet(priority) \subseteq ToSet(priority') /\ d \in ToSet(priority')
        <3>1. CASE d = default
            BY <2>1, <2>2, <3>1 DEF WithDefault, O, Ordered
        <3>2. CASE d # default
            <4>1. priority' = Promoted(d, priority)
                BY <2>1, <3>2 DEF WithDefault
            <4> QED BY <2>2, <4>1, PromotedFacts
        <3> QED BY <3>1, <3>2
    <2>4. O'
        BY <2>1, <2>3 DEF O, Ordered
    <2> QED BY <2>1, <2>4
<1>k. ASSUME NEW d \in Dirs, NEW content \in {"none", "whole"}, FolderChanges(d, content) PROVE ProtonInv'
    <2>1. dirs' \in Contents
        BY <1>k DEF FolderChanges, Contents
    <2> QED BY <1>k, <2>1 DEF FolderChanges
<1>l. ASSUME NEW k \in 1..(Len(priority) - 1), MoveInPriority(k) PROVE ProtonInv'
    <2>1. priority' = [priority EXCEPT ![k] = priority[k + 1], ![k + 1] = priority[k]]
        BY <1>l DEF MoveInPriority
    <2>2. priority \in Seq(Dirs) /\ IsInjective(priority)
        BY DEF O, Ordered
    <2>3. priority' \in Seq(Dirs) /\ IsInjective(priority') /\ ToSet(priority') = ToSet(priority)
        BY <2>1, <2>2, SwapFacts
    <2>4. O'
        BY <1>l, <2>3 DEF MoveInPriority, O, Ordered
    <2> QED BY <1>l, <2>4 DEF MoveInPriority
<1>m. CASE UNCHANGED protonVars
    BY <1>m DEF protonVars
<1> QED BY <1>a, <1>b, <1>c, <1>d, <1>e, <1>f, <1>g, <1>h, <1>i, <1>j, <1>k, <1>l, <1>m DEF ProtonNext

\* A Proton of the last scan that still runs is found for every game.
LEMMA ResolveFinds ==
    ASSUME ProtonInv, NEW d \in ToSet(entries), Runs(d), NEW game \in Dirs \cup {None}
    PROVE  Runs(Resolve(game))
<1> DEFINE tried == <<game, default>> \o priority
           T == {e \in Dirs \cup {None} : Runs(e)}
           S == Dirs \cup {None}
           first == SelectInSeq(tried, Runs)
<1>1. default \in S /\ priority \in Seq(Dirs) /\ d \in ToSet(priority)
    BY DEF ProtonInv, Ordered
<1>2. <<game, default>> \in Seq(S) /\ priority \in Seq(S)
    BY <1>1
<1>3. tried \in Seq(S) /\ ToSet(priority) \subseteq ToSet(tried)
    <2> DEFINE pair == <<game, default>>
    <2>1. pair \in Seq(S) /\ priority \in Seq(S) /\ tried = pair \o priority
        BY <1>2
    <2> HIDE DEF S, pair, tried
    <2>2. pair \o priority \in Seq(S) /\ ToSet(pair \o priority) = ToSet(pair) \cup ToSet(priority)
        BY <2>1, ConcatFacts
    <2> QED BY <2>1, <2>2
<1>4. d \in S
    BY <1>1 DEF ToSet
<1>5. d \in ToSet(tried) \cap T
    BY <1>1, <1>3, <1>4
<1> HIDE DEF tried
<1>6. \A k \in 1..Len(tried) : tried[k] \in S
    BY <1>3
<1>7. first = SelectInSeq(tried, LAMBDA e : e \in T)
    <2>1. \A k \in 1..Len(tried) : Runs(tried[k]) <=> tried[k] \in T
        BY <1>6
    <2>2. {k \in 1..Len(tried) : Runs(tried[k])} = {k \in 1..Len(tried) : tried[k] \in T}
        <3> HIDE DEF T
        <3> QED BY <2>1
    <2> HIDE DEF T
    <2> QED BY <2>2, Zenon DEF SelectInSeq
<1>8. first # 0 /\ Runs(tried[first])
    <2> HIDE DEF first
    <2>1. LET k == SelectInSeq(tried, LAMBDA e : e \in T) IN
           IF ToSet(tried) \cap T = {} THEN k = 0 ELSE k \in 1..Len(tried) /\ tried[k] \in T
        <3> HIDE DEF T, S
        <3> QED BY <1>3, FirstFacts
    <2>2. first \in 1..Len(tried) /\ tried[first] \in T
        BY <1>5, <1>7, <2>1
    <2> QED BY <1>3, <2>2
<1> HIDE DEF first
<1>9. Resolve(game) = tried[first]
    BY <1>8 DEF Resolve, tried, first
<1> QED BY <1>8, <1>9

\* If one Proton of the last scan still runs, every game gets one that runs,
\* for every list of folders and releases and any number of acts.
THEOREM ResolveRunsHolds == ProtonSpec => []ResolveRuns
<1>1. ProtonInv => ResolveRuns
    <2> SUFFICES ASSUME ProtonInv PROVE ResolveRuns
        OBVIOUS
    <2>1. (\E d \in ToSet(entries) : Runs(d)) => \A game \in Dirs \cup {None} : Runs(Resolve(game))
        BY ResolveFinds
    <2> QED BY <2>1 DEF ProtonInv, Ordered, ResolveRuns
<1> QED BY <1>1, ProtonInvInit, ProtonInvNext, PTL DEF ProtonSpec

----------------------------------------------------------------------------
(* LibraryDrives *)
LibrarySpec == LibraryInit /\ [][LibraryNext]_libraryVars

----------------------------------------------------------------------------
Data == {"none", "part", "whole"}
Steps == {"queued", "copying", "copied", "done", "failed"}
Folder == [data : Data, marked : BOOLEAN]
Tree == [Paths -> [Titles -> Folder]]
Row(libs) == [lib : libs, at : Paths \cup {Nowhere}, exe : Paths \cup {Nowhere}]
Moves(libs) == [title : Titles, lib : libs, from : mounted, to : mounted,
                step : Steps, over : Data, job : BOOLEAN]

\* The drives have different ids, all given before, and one is the default.
DrivesOK ==
    /\ given \in Nat /\ drives \in Seq([id : 1..given, path : Paths])
    /\ \A j, k \in DOMAIN drives : drives[j].id = drives[k].id => j = k
    /\ standard \in LibraryIds

\* What is in the rows, in library.json and on the disks; a row, a move and a
\* candidate of the scan are on a drive that is listed.
LibraryTypes ==
    /\ DOMAIN rows \subseteq Titles /\ rows \in [DOMAIN rows -> Row({0} \cup LibraryIds)]
    /\ DOMAIN saved \subseteq Titles /\ saved \in [DOMAIN saved -> Row(Nat)]
    /\ folders \in Tree
    /\ mounted \subseteq Paths
    /\ moving \in Seq(Moves(LibraryIds))
    /\ wiping \in [Titles -> SUBSET Paths]
    /\ owned \subseteq Titles
    /\ found.at = "candidates" => /\ found.over \subseteq mounted
                                 /\ found.titles \subseteq [title : Titles, lib : LibraryIds, at : mounted]
    /\ found.at = "done" => found.over \subseteq mounted

Whole(p, t) == p \in mounted /\ folders[p][t].data = "whole"
WholeMarked == [data |-> "whole", marked |-> TRUE]

\* A move of a game: where its files are at each of its steps.
Carried(t, m) ==
    LET at == rows[t].at IN
    /\ m.step = "done" => /\ Whole(IF at = m.from THEN m.to ELSE at, t)
                          /\ at = m.from => folders[at][t].data # "part"
    /\ m.step # "done" => Whole(at, t)
    /\ m.step \in {"queued", "copying", "copied"} => Exists(m.from, t)
    /\ m.step \in {"copying", "copied"} => m.from # m.to
    /\ m.step = "copying" /\ m.over = "whole" => folders[m.to][t].data = "whole"
    /\ m.step = "copying" /\ m.to = at => m.over = "whole"
    /\ m.step = "copied" /\ m.from = at => folders[m.to][t].data = "whole"

\* The executable is where the row is, only an installed game has one, and
\* what is wiped has no row and is nobody's game.
RowTrue(t) ==
    /\ t \in DOMAIN rows => rows[t].exe = Nowhere \/ (rows[t].exe = rows[t].at /\ t \in owned)
    /\ t \in DOMAIN saved => saved[t].exe \in {Nowhere, saved[t].at}
    /\ wiping[t] # {} => t \notin DOMAIN rows \cup owned

\* A title has one move, the move has its job as long as the title its row, and
\* an installed game is being carried; without a move it is at home.
MovesOf(t) == {moving[k] : k \in {j \in DOMAIN moving : moving[j].title = t}}
OneMove(t) == \A j, k \in DOMAIN moving : moving[j].title = t /\ moving[k].title = t => j = k
MovesTrue(t) ==
    /\ OneMove(t)
    /\ \A m \in MovesOf(t) :
          /\ m.job <=> t \in DOMAIN rows
          /\ t \in owned => t \in DOMAIN rows /\ Carried(t, m)
HomeTrue(t) ==
    /\ t \in owned \cap DOMAIN rows =>
          Whole(rows[t].at, t) \/ MovesOf(t) # {}
    /\ t \in owned \ DOMAIN rows => \E p \in Paths : folders[p][t].data = "whole"

\* The scan: a candidate without a row is whole and neither wiped nor moved, and
\* no lost game is missed.
ScanTrue(t) ==
    /\ found.at = "candidates" =>
          /\ \A c \in found.titles : c.title = t =>
                /\ wiping[t] = {}
                /\ \A m \in MovesOf(t) : m.job
                /\ t \notin DOMAIN rows => folders[c.at][t].data = "whole"
          /\ t \in owned \ DOMAIN rows => \A p \in found.over :
                folders[p][t] = WholeMarked => \E c \in found.titles : c.title = t
    /\ found.at = "done" =>
          (t \in owned \ DOMAIN rows => \A p \in found.over : folders[p][t] # WholeMarked)

TitleTrue(t) == RowTrue(t) /\ MovesTrue(t) /\ HomeTrue(t) /\ ScanTrue(t)
LibraryInv == DrivesOK /\ LibraryTypes /\ \A t \in Titles : TitleTrue(t)

----------------------------------------------------------------------------
\* The list of drives as a function of its places.
LEMMA DriveList ==
    ASSUME DrivesOK
    PROVE  /\ DOMAIN drives = 1..Len(drives) /\ Len(drives) \in Nat
           /\ \A k \in DOMAIN drives : /\ drives[k].id \in 1..given /\ drives[k].path \in Paths
                                       /\ drives[k] \in [id : 1..given, path : Paths]
           /\ ToSet(drives) = {drives[k] : k \in DOMAIN drives}
           /\ LibraryIds = {drives[k].id : k \in DOMAIN drives}
<1> DEFINE D == [id : 1..given, path : Paths]
<1>1. drives \in Seq(D)
    BY DEF DrivesOK
<1>2. DOMAIN drives = 1..Len(drives) /\ Len(drives) \in Nat /\ \A k \in DOMAIN drives : drives[k] \in D
    <2> HIDE DEF D
    <2> QED BY <1>1
<1>3. ToSet(drives) = {drives[k] : k \in DOMAIN drives}
    BY DEF ToSet
<1>4. LibraryIds = {drives[k].id : k \in DOMAIN drives}
    BY <1>3 DEF LibraryIds
<1> QED BY <1>2, <1>3, <1>4

\* What a drive is: it has one of the ids, and a path.
LEMMA DriveFacts ==
    ASSUME DrivesOK
    PROVE  /\ LibraryIds \subseteq 1..given /\ LibraryIds \subseteq Nat
           /\ 0 \notin LibraryIds
           /\ \A lib \in LibraryIds : PathOf(lib) \in Paths
<1>1. LibraryIds \subseteq 1..given /\ given \in Nat
    BY DriveList DEF DrivesOK
<1>2. ASSUME NEW lib \in LibraryIds PROVE PathOf(lib) \in Paths
    <2>1. PICK d \in ToSet(drives) : d.id = lib
        BY DEF LibraryIds
    <2>2. (CHOOSE e \in ToSet(drives) : e.id = lib) \in ToSet(drives)
        BY <2>1
    <2>3. \A e \in ToSet(drives) : e.path \in Paths
        BY DriveList
    <2> QED BY <2>2, <2>3 DEF PathOf
<1> QED BY <1>1, <1>2

\* A drive that is added comes beside the others.
LEMMA DriveAdded ==
    ASSUME DrivesOK, NEW p \in Paths, given' = given + 1, UNCHANGED standard,
           drives' = Append(drives, [id |-> given + 1, path |-> p])
    PROVE  DrivesOK' /\ LibraryIds \subseteq LibraryIds'
<1> DEFINE D == [id : 1..given, path : Paths]
           E == [id : 1..(given + 1), path : Paths]
           new == [id |-> given + 1, path |-> p]
           n == Len(drives)
<1>0. given \in Nat
    BY DEF DrivesOK
<1>1. drives \in Seq(E)
    <2>1. D \subseteq E
        BY <1>0
    <2>2. drives \in Seq(D)
        BY DEF DrivesOK
    <2> HIDE DEF D, E
    <2> QED BY <2>1, <2>2
<1>2. new \in E /\ new.id = given + 1
    BY <1>0
<1>3. /\ drives' \in Seq(E) /\ DOMAIN drives' = (1..n) \cup {n + 1} /\ n + 1 \notin 1..n
      /\ drives'[n + 1] = new /\ \A k \in 1..n : drives'[k] = drives[k]
    <2> HIDE DEF E, new
    <2>1. drives' = Append(drives, new)
        BY DEF new
    <2> QED BY <2>1, <1>1, <1>2
<1>4. \A k \in 1..n : drives'[k].id \in 1..given
    BY <1>3, DriveList
<1>5. \A j, k \in DOMAIN drives' : drives'[j].id = drives'[k].id => j = k
    <2>1. \A j, k \in 1..n : drives[j].id = drives[k].id => j = k
        BY DriveList DEF DrivesOK
    <2>2. given + 1 \notin 1..given
        BY <1>0
    <2> HIDE DEF new
    <2> QED BY <2>1, <2>2, <1>2, <1>3, <1>4
<1>6. LibraryIds \subseteq LibraryIds'
    <2>1. LibraryIds' = {drives'[k].id : k \in DOMAIN drives'}
        BY DEF LibraryIds, ToSet
    <2> QED BY <2>1, <1>3, DriveList
<1>7. standard' \in LibraryIds'
    BY <1>6 DEF DrivesOK
<1> QED BY <1>0, <1>3, <1>5, <1>6, <1>7 DEF DrivesOK

\* What is left of a list when the entry of one place is removed.
LEMMA PlaceRemoved ==
    ASSUME NEW S, NEW s \in Seq(S), NEW k \in 1..Len(s)
    PROVE  /\ RemoveAt(s, k) \in Seq(S) /\ Len(RemoveAt(s, k)) = Len(s) - 1
           /\ \A j \in 1..(Len(s) - 1) : RemoveAt(s, k)[j] = s[IF j < k THEN j ELSE j + 1]
<1> DEFINE A == SubSeq(s, 1, k - 1)
           B == SubSeq(s, k + 1, Len(s))
           n == Len(s)
<1>1. A \in Seq(S) /\ Len(A) = k - 1 /\ \A j \in 1..(k - 1) : A[j] = s[j]
    OBVIOUS
<1>2. B \in Seq(S) /\ Len(B) = n - k /\ \A j \in 1..(n - k) : B[j] = s[k + j]
    OBVIOUS
<1>3. RemoveAt(s, k) = A \o B
    BY DEF RemoveAt
<1> HIDE DEF A, B
<1>4. A \o B \in Seq(S) /\ Len(A \o B) = (k - 1) + (n - k) /\ (k - 1) + (n - k) = n - 1
    <2>1. A \in Seq(S) /\ B \in Seq(S)
        BY <1>1, <1>2
    <2>2. A \o B \in Seq(S) /\ Len(A \o B) = Len(A) + Len(B)
        BY ONLY <2>1, ConcatProperties
    <2> QED BY <2>2, <1>1, <1>2
<1>5. \A j \in 1..(k - 1) : (A \o B)[j] = s[j]
    BY <1>1, <1>2
<1>6. \A j \in k..(n - 1) : (A \o B)[j] = B[j - (k - 1)]
    BY <1>1, <1>2
<1>7. \A j \in k..(n - 1) : j - (k - 1) \in 1..(n - k) /\ k + (j - (k - 1)) = j + 1
    OBVIOUS
<1>8. \A j \in k..(n - 1) : (A \o B)[j] = s[j + 1]
    BY <1>2, <1>6, <1>7
<1>9. ASSUME NEW j \in 1..(n - 1) PROVE (A \o B)[j] = s[IF j < k THEN j ELSE j + 1]
    <2>1. CASE j < k
        <3>1. j \in 1..(k - 1)
            BY <2>1
        <3> QED BY <1>5, <2>1, <3>1
    <2>2. CASE ~(j < k)
        <3>1. j \in k..(n - 1)
            BY <2>2
        <3> QED BY <1>8, <2>2, <3>1
    <2> QED BY <2>1, <2>2
<1>10. (A \o B) \in Seq(S) /\ Len(A \o B) = n - 1
    BY <1>4
<1> QED BY ONLY <1>3, <1>9, <1>10

\* A drive that is removed takes one place, and leaves the others.
LEMMA DriveRemoved ==
    ASSUME DrivesOK, NEW lib \in LibraryIds, Len(drives) > 1, UNCHANGED given,
           drives' = Without(lib),
           standard' = IF standard = lib THEN Head(drives').id ELSE standard
    PROVE  /\ DrivesOK' /\ LibraryIds' = LibraryIds \ {lib}
           /\ FallbackId(lib) \in LibraryIds'
<1> DEFINE D == [id : 1..given, path : Paths]
           n == Len(drives)
           k == CHOOSE i \in DOMAIN drives : drives[i].id = lib
           From(j) == IF j < k THEN j ELSE j + 1
<1>0. drives \in Seq(D) /\ n \in Nat /\ n > 1 /\ DOMAIN drives = 1..n
    BY DriveList DEF DrivesOK
<1>1. k \in 1..n /\ drives[k].id = lib
    <2>1. \E j \in DOMAIN drives : drives[j].id = lib
        BY DriveList
    <2> QED BY <2>1, <1>0
<1>2. drives' = RemoveAt(drives, k)
    BY DEF Without
<1> HIDE DEF k, D
<1>3. drives' \in Seq(D) /\ Len(drives') = n - 1 /\ DOMAIN drives' = 1..(n - 1)
    <2>1. drives' \in Seq(D) /\ Len(drives') = n - 1
        BY <1>0, <1>1, <1>2, PlaceRemoved
    <2> QED BY <2>1, <1>0
<1>4. \A j \in 1..(n - 1) : drives'[j] = drives[From(j)] /\ From(j) \in (1..n) \ {k}
    <2>1. \A j \in 1..(n - 1) : RemoveAt(drives, k)[j] = drives[IF j < k THEN j ELSE j + 1]
        BY <1>0, <1>1, PlaceRemoved
    <2>2. \A j \in 1..(n - 1) : drives'[j] = drives[From(j)]
        BY <2>1, <1>2, Zenon
    <2> QED BY <2>2, <1>0, <1>1
<1>5. \A i \in (1..n) \ {k} : \E j \in 1..(n - 1) : From(j) = i
    <2> SUFFICES ASSUME NEW i \in (1..n) \ {k} PROVE \E j \in 1..(n - 1) : From(j) = i
        OBVIOUS
    <2>1. CASE i < k
        BY <2>1, <1>0, <1>1
    <2>2. CASE i > k
        <3>1. i - 1 \in 1..(n - 1) /\ From(i - 1) = i
            BY <2>2, <1>0, <1>1
        <3> QED BY <3>1
    <2> QED BY <2>1, <2>2, <1>0, <1>1
<1>7. \A i, j \in DOMAIN drives' : drives'[i].id = drives'[j].id => i = j
    <2> SUFFICES ASSUME NEW i \in 1..(n - 1), NEW j \in 1..(n - 1), drives'[i].id = drives'[j].id PROVE i = j
        BY <1>3
    <2>1. \A a, b \in 1..n : drives[a].id = drives[b].id => a = b
        BY <1>0 DEF DrivesOK
    <2>2. From(i) \in 1..n /\ From(j) \in 1..n /\ drives[From(i)].id = drives[From(j)].id
        BY <1>4
    <2>3. From(i) = From(j)
        <3> HIDE DEF From
        <3> QED BY <2>1, <2>2
    <2> QED BY <2>3, <1>0, <1>1
<1>8. LibraryIds' = LibraryIds \ {lib}
    <2>1. LibraryIds = {drives[i].id : i \in 1..n}
        BY <1>0, DriveList
    <2>2. LibraryIds' = {drives'[i].id : i \in 1..(n - 1)}
        BY <1>3 DEF LibraryIds, ToSet
    <2> HIDE DEF From
    <2>3. ASSUME NEW x \in LibraryIds' PROVE x \in LibraryIds \ {lib}
        <3>1. PICK j \in 1..(n - 1) : x = drives'[j].id
            BY <2>2
        <3>2. x = drives[From(j)].id /\ From(j) \in 1..n /\ From(j) # k
            BY <3>1, <1>4
        <3>3. x # lib
            BY <3>2, <1>0, <1>1 DEF DrivesOK
        <3> QED BY <3>2, <3>3, <2>1
    <2>4. ASSUME NEW x \in LibraryIds \ {lib} PROVE x \in LibraryIds'
        <3>1. PICK i \in 1..n : x = drives[i].id
            BY <2>1
        <3>2. PICK j \in 1..(n - 1) : From(j) = i
            BY <3>1, <1>1, <1>5
        <3> QED BY <3>1, <3>2, <1>4, <2>2
    <2> QED BY <2>3, <2>4
<1>10. Head(drives').id \in LibraryIds' /\ Last(drives').id \in LibraryIds'
    <2>1. Head(drives') = drives'[1] /\ Last(drives') = drives'[n - 1] /\ 1 \in DOMAIN drives' /\ n - 1 \in DOMAIN drives'
        BY <1>0, <1>3 DEF Last
    <2> QED BY <2>1 DEF ToSet, LibraryIds
<1>11. standard' \in LibraryIds'
    BY <1>8, <1>10 DEF DrivesOK
<1>12. FallbackId(lib) \in LibraryIds'
    BY <1>8, <1>10 DEF FallbackId, DrivesOK
<1> QED BY <1>3, <1>7, <1>8, <1>11, <1>12 DEF DrivesOK, D

----------------------------------------------------------------------------
\* One row is written.
LEMMA PutFacts ==
    ASSUME NEW libs, DOMAIN rows \subseteq Titles, rows \in [DOMAIN rows -> Row(libs)],
           NEW t \in Titles, NEW row \in Row(libs), Put(t, row)
    PROVE  /\ DOMAIN rows' = DOMAIN rows \cup {t} /\ DOMAIN rows' \subseteq Titles
           /\ rows' \in [DOMAIN rows' -> Row(libs)]
           /\ rows'[t] = row /\ \A u \in DOMAIN rows \ {t} : rows'[u] = rows[u]
<1> HIDE DEF Row
<1>1. rows' = [u \in DOMAIN rows \cup {t} |-> IF u = t THEN row ELSE rows[u]]
    BY DEF Put
<1> QED BY <1>1

\* The row of a game that was moved: its paths follow the folder.
MovedRow(row, lib, from, to, arrived) ==
    [lib |-> lib, at |-> IF arrived THEN Relocated(row.at, from, to) ELSE to,
     exe |-> Relocated(row.exe, from, to)]
\* The end of a move writes the row of its title, and no other.
LEMMA FinalizeFacts ==
    ASSUME NEW libs, DOMAIN rows \subseteq Titles, rows \in [DOMAIN rows -> Row(libs)],
           NEW t \in Titles, NEW lib \in libs, NEW from \in Paths, NEW to \in Paths,
           FinalizeMovedGame(t, lib, from, to)
    PROVE  /\ DOMAIN rows' = DOMAIN rows /\ rows' \in [DOMAIN rows -> Row(libs)]
           /\ \A u \in DOMAIN rows \ {t} : rows'[u] = rows[u]
           /\ t \in DOMAIN rows => /\ rows'[t] = MovedRow(rows[t], lib, from, to, Exists(Relocated(rows[t].at, from, to), t))
                                   /\ rows'[t] \in Row(libs)
<1>1. CASE t \notin DOMAIN rows
    BY <1>1 DEF FinalizeMovedGame
<1>2. CASE t \in DOMAIN rows
    <2> DEFINE arrived == Exists(Relocated(rows[t].at, from, to), t)
               row == MovedRow(rows[t], lib, from, to, arrived)
    <2>1. rows[t] \in Row(libs)
        BY <1>2
    <2>2. \A p \in Paths \cup {Nowhere} : Relocated(p, from, to) \in Paths \cup {Nowhere}
        BY DEF Relocated
    <2>3. rows[t].at \in Paths \cup {Nowhere} /\ rows[t].exe \in Paths \cup {Nowhere}
        BY <2>1 DEF Row
    <2>4. row \in Row(libs)
        BY <2>2, <2>3 DEF Row, MovedRow
    <2>5. Put(t, row)
        BY <1>2 DEF FinalizeMovedGame, MovedRow
    <2> HIDE DEF row
    <2>6. DOMAIN rows \cup {t} = DOMAIN rows
        BY <1>2
    <2>7. /\ DOMAIN rows' = DOMAIN rows /\ rows' \in [DOMAIN rows' -> Row(libs)]
          /\ rows'[t] = row /\ \A u \in DOMAIN rows \ {t} : rows'[u] = rows[u]
        BY <2>4, <2>5, <2>6, PutFacts
    <2> QED BY <2>4, <2>7 DEF row
<1> QED BY <1>1, <1>2

\* A list of moves stays one when a move is added, its first is dropped, or one
\* of them gets a step or what it found in its way.
LEMMA MovesFacts ==
    ASSUME NEW libs, moving \in Seq(Moves(libs))
    PROVE  /\ DOMAIN moving = 1..Len(moving) /\ Len(moving) \in Nat
           /\ \A k \in DOMAIN moving : /\ moving[k] \in Moves(libs)
                 /\ moving[k].title \in Titles /\ moving[k].lib \in libs /\ moving[k].from \in mounted
                 /\ moving[k].to \in mounted /\ moving[k].step \in Steps /\ moving[k].over \in Data
                 /\ moving[k].job \in BOOLEAN
           /\ \A m \in Moves(libs) : Append(moving, m) \in Seq(Moves(libs))
           /\ moving # <<>> => Tail(moving) \in Seq(Moves(libs))
           /\ \A k \in DOMAIN moving, step \in Steps : [moving EXCEPT ![k].step = step] \in Seq(Moves(libs))
           /\ \A k \in DOMAIN moving, step \in Steps, over \in Data :
                 [moving EXCEPT ![k].step = step, ![k].over = over] \in Seq(Moves(libs))
<1> DEFINE M == Moves(libs)
<1>1. \A m \in M : /\ m.title \in Titles /\ m.lib \in libs /\ m.from \in mounted /\ m.to \in mounted
                   /\ m.step \in Steps /\ m.over \in Data /\ m.job \in BOOLEAN
    BY DEF Moves
<1>2. \A m \in M, step \in Steps : [m EXCEPT !.step = step] \in M
    BY DEF Moves
<1>3. \A m \in M, step \in Steps, over \in Data : [m EXCEPT !.step = step, !.over = over] \in M
    BY DEF Moves
<1> HIDE DEF M
<1>4. moving \in Seq(M)
    BY DEF M
<1>5. DOMAIN moving = 1..Len(moving) /\ Len(moving) \in Nat /\ \A k \in DOMAIN moving : moving[k] \in M
    BY <1>4
<1>6. ASSUME NEW k \in DOMAIN moving, NEW m \in M PROVE [moving EXCEPT ![k] = m] \in Seq(M)
    BY <1>4, <1>6
<1>7. ASSUME NEW k \in DOMAIN moving, NEW step \in Steps PROVE [moving EXCEPT ![k].step = step] \in Seq(M)
    <2>1. [moving EXCEPT ![k].step = step] = [moving EXCEPT ![k] = [moving[k] EXCEPT !.step = step]]
        BY <1>5
    <2> QED BY <2>1, <1>2, <1>5, <1>6
<1>8. ASSUME NEW k \in DOMAIN moving, NEW step \in Steps, NEW over \in Data
      PROVE  [moving EXCEPT ![k].step = step, ![k].over = over] \in Seq(M)
    <2>1. [moving EXCEPT ![k].step = step, ![k].over = over]
              = [moving EXCEPT ![k] = [moving[k] EXCEPT !.step = step, !.over = over]]
        BY <1>5
    <2> QED BY <2>1, <1>3, <1>5, <1>6
<1>9. \A m \in M : Append(moving, m) \in Seq(M)
    BY <1>4
<1>10. moving # <<>> => Tail(moving) \in Seq(M)
    BY <1>4
<1> QED BY <1>1, <1>4, <1>5, <1>7, <1>8, <1>9, <1>10 DEF M

----------------------------------------------------------------------------
\* One of the candidates of a title is the first.
LEMMA FirstIsCandidate ==
    ASSUME NEW cs, \A c \in cs : c.lib \in Nat, cs # {}
    PROVE  FirstOf(cs) \in cs
<1> DEFINE A == {c.lib : c \in cs}
<1>1. A \in SUBSET Nat /\ A # {}
    OBVIOUS
<1>2. PICK n \in A : \A m \in A : n <= m
    <2> HIDE DEF A
    <2> QED BY <1>1, LeastNumber
<1>3. PICK c \in cs : c.lib = n
    BY <1>2
<1>4. \A d \in cs : c.lib <= d.lib
    BY <1>2, <1>3
<1> QED BY <1>4 DEF FirstOf

\* A folder is written, or what is in it changes.
LEMMA TreeFacts ==
    ASSUME NEW f \in Tree, NEW p \in Paths, NEW t \in Titles
    PROVE  /\ \A x \in Folder : /\ [f EXCEPT ![p][t] = x] \in Tree
                                /\ \A q \in Paths, u \in Titles :
                                      [f EXCEPT ![p][t] = x][q][u] = IF q = p /\ u = t THEN x ELSE f[q][u]
           /\ \A d \in Data : /\ [f EXCEPT ![p][t].data = d] \in Tree
                              /\ \A q \in Paths, u \in Titles :
                                    /\ q # p \/ u # t => [f EXCEPT ![p][t].data = d][q][u] = f[q][u]
                                    /\ [f EXCEPT ![p][t].data = d][q][u].data
                                           = IF q = p /\ u = t THEN d ELSE f[q][u].data
<1>1. ASSUME NEW x \in Folder
      PROVE  /\ [f EXCEPT ![p][t] = x] \in Tree
             /\ \A q \in Paths, u \in Titles :
                  [f EXCEPT ![p][t] = x][q][u] = IF q = p /\ u = t THEN x ELSE f[q][u]
    <2> HIDE DEF Folder
    <2> QED BY <1>1 DEF Tree
<1>2. ASSUME NEW d \in Data
      PROVE  /\ [f EXCEPT ![p][t].data = d] \in Tree
             /\ \A q \in Paths, u \in Titles :
                  /\ q # p \/ u # t => [f EXCEPT ![p][t].data = d][q][u] = f[q][u]
                  /\ [f EXCEPT ![p][t].data = d][q][u].data = IF q = p /\ u = t THEN d ELSE f[q][u].data
    <2> DEFINE x == [f[p][t] EXCEPT !.data = d]
    <2>1. f[p][t] \in Folder
        BY DEF Tree
    <2>2. x \in Folder /\ x.data = d
        BY <2>1 DEF Folder
    <2>3. [f EXCEPT ![p][t].data = d] = [f EXCEPT ![p][t] = x]
        BY DEF Tree
    <2> HIDE DEF x
    <2> QED BY <2>2, <2>3, <1>1
<1> QED BY <1>1, <1>2

\* What the end of a scan writes.
ScanEnd(cs) ==
    /\ DOMAIN rows' = DOMAIN rows \cup {c.title : c \in cs}
    /\ \A u \in DOMAIN rows : rows'[u] = rows[u]
    /\ \A u \in DOMAIN rows' \ DOMAIN rows :
          \E c \in cs : c.title = u /\ rows'[u] = [lib |-> c.lib, at |-> c.at, exe |-> c.at]
    /\ folders' \in Tree
    /\ \A p \in Paths, u \in Titles : /\ folders'[p][u].data = folders[p][u].data
                                      /\ u \notin DOMAIN rows => folders'[p][u] = folders[p][u]
    /\ owned' = owned \cup {u \in DOMAIN rows' \ DOMAIN rows : folders[rows'[u].at][u].data = "whole"}
    /\ saved' = saved
\* What the commit of a scan writes: rows for titles that have none, on drives that are listed.
LEMMA CommitScanFacts ==
    ASSUME DrivesOK, LibraryTypes,
           NEW cs, cs \subseteq [title : Titles, lib : LibraryIds, at : mounted], CommitScanCandidates(cs)
    PROVE  ScanEnd(cs)
<1> DEFINE new == {c.title : c \in cs} \ DOMAIN rows
           First(t) == FirstOf({e \in cs : e.title = t})
           Of(t) == [lib |-> First(t).lib, at |-> First(t).at, exe |-> First(t).at]
<1>1. \A t \in new : First(t) \in cs /\ First(t).title = t
    <2> SUFFICES ASSUME NEW t \in new PROVE First(t) \in cs /\ First(t).title = t
        OBVIOUS
    <2> DEFINE mine == {e \in cs : e.title = t}
    <2>1. mine # {} /\ \A e \in mine : e.lib \in Nat
        BY DriveFacts
    <2>2. FirstOf(mine) \in mine
        <3> HIDE DEF mine
        <3> QED BY <2>1, FirstIsCandidate
    <2> QED BY <2>2
<1>2. /\ rows' = [t \in DOMAIN rows \cup new |-> IF t \in new THEN Of(t) ELSE rows[t]]
      /\ folders' = [p \in Paths |-> [t \in Titles |->
              IF t \in DOMAIN rows /\ rows[t].at = p /\ Exists(p, t)
              THEN [folders[p][t] EXCEPT !.marked = TRUE] ELSE folders[p][t]]]
      /\ owned' = owned \cup {t \in new : folders[Of(t).at][t].data = "whole"}
      /\ saved' = saved
    BY Zenon DEF CommitScanCandidates
<1>3. \A p \in Paths, t \in Titles : folders[p][t] \in Folder
    BY DEF LibraryTypes, Tree
<1>4. \A x \in Folder : [x EXCEPT !.marked = TRUE] \in Folder /\ [x EXCEPT !.marked = TRUE].data = x.data
    BY DEF Folder
<1>5. folders' \in Tree /\ \A p \in Paths, u \in Titles :
            /\ folders'[p][u].data = folders[p][u].data
            /\ u \notin DOMAIN rows => folders'[p][u] = folders[p][u]
    <2> HIDE DEF Folder
    <2> QED BY <1>2, <1>3, <1>4 DEF Tree
<1> HIDE DEF First
<1>6. /\ DOMAIN rows' = DOMAIN rows \cup new /\ \A u \in DOMAIN rows : rows'[u] = rows[u]
      /\ \A u \in new : rows'[u] = Of(u)
    BY <1>2
<1>7. DOMAIN rows' = DOMAIN rows \cup {c.title : c \in cs} /\ DOMAIN rows' \ DOMAIN rows = new
    BY <1>6
<1>8. \A u \in new : \E c \in cs : c.title = u /\ rows'[u] = [lib |-> c.lib, at |-> c.at, exe |-> c.at]
    BY <1>1, <1>6
<1>9. owned' = owned \cup {u \in new : folders[rows'[u].at][u].data = "whole"}
    <2> HIDE DEF new, Of
    <2> QED BY <1>2, <1>6
<1> QED BY <1>2, <1>5, <1>6, <1>7, <1>8, <1>9 DEF ScanEnd

----------------------------------------------------------------------------
\* Drives that stay as they are.
LEMMA SameDrives ==
    ASSUME UNCHANGED <<drives, standard, given>>
    PROVE  LibraryIds' = LibraryIds /\ (DrivesOK => DrivesOK')
BY DEF LibraryIds, DrivesOK

\* A row leads to a drive that is listed.
LEMMA RowTyped ==
    ASSUME DrivesOK, LibraryTypes, NEW t \in DOMAIN rows
    PROVE  /\ t \in Titles /\ rows[t] \in Row({0} \cup LibraryIds)
           /\ rows[t].at \in Paths \cup {Nowhere} /\ rows[t].exe \in Paths \cup {Nowhere}
           /\ DriveOf(rows[t]) \in LibraryIds /\ PathOf(DriveOf(rows[t])) \in Paths
<1>1. t \in Titles /\ rows[t] \in Row({0} \cup LibraryIds)
    BY DEF LibraryTypes
<1>2. rows[t].lib \in {0} \cup LibraryIds
    BY <1>1 DEF Row
<1>3. DriveOf(rows[t]) \in LibraryIds
    BY <1>2 DEF DriveOf, DrivesOK
<1> QED BY <1>1, <1>3, DriveFacts DEF Row

\* Where a move starts: a folder of the game that exists.
From(t) ==
    LET source == PathOf(DriveOf(rows[t])) IN
    IF source = Nowhere \/ Exists(source, t) THEN source
    ELSE IF Exists(rows[t].at, t) THEN rows[t].at ELSE Nowhere
NewMove(t, lib) == [title |-> t, lib |-> lib, from |-> From(t), to |-> PathOf(lib),
                    step |-> "queued", over |-> "none", job |-> TRUE]
MoveCase(t, lib) ==
    /\ t \in DOMAIN rows /\ lib \in LibraryIds /\ PathOf(lib) \in mounted /\ ~HasMoveJob(t)
    /\ \/ /\ From(t) = Nowhere /\ ~Exists(rows[t].at, t) /\ UNCHANGED moving
          /\ FinalizeMovedGame(t, lib, PathOf(DriveOf(rows[t])), PathOf(lib))
       \/ /\ From(t) \in mounted /\ Exists(From(t), t) /\ UNCHANGED rows
          /\ moving' = Append(moving, NewMove(t, lib)) /\ NewMove(t, lib) \in Moves(LibraryIds)
    /\ UNCHANGED <<drives, standard, given, saved, folders, mounted, wiping, found, owned>>
\* What a click on "move" does: nothing, a new row, or a job.
LEMMA MoveFacts ==
    ASSUME DrivesOK, LibraryTypes, NEW t \in Titles, NEW lib \in LibraryIds, MoveGame(t, lib)
    PROVE  MoveCase(t, lib)
<1> USE DrivesAssumption
<1>1. t \in DOMAIN rows /\ PathOf(DriveOf(rows[t])) \in Paths
    BY RowTyped DEF MoveGame
<1>2. Nowhere \notin mounted /\ mounted \subseteq Paths
    BY DEF LibraryTypes
<1>3. PathOf(lib) \in mounted /\ ~HasMoveJob(t)
    BY DEF MoveGame
<1>4. UNCHANGED <<drives, standard, given, saved, folders, mounted, wiping, found, owned>>
    BY DEF MoveGame
<1>5. IF From(t) = Nowhere
      THEN FinalizeMovedGame(t, lib, PathOf(DriveOf(rows[t])), PathOf(lib)) /\ UNCHANGED moving
      ELSE moving' = Append(moving, NewMove(t, lib)) /\ UNCHANGED rows
    BY Zenon DEF MoveGame, From, NewMove
<1>6. CASE From(t) = Nowhere
    <2>1. ~Exists(rows[t].at, t)
        BY <1>1, <1>2, <1>6 DEF From, Exists
    <2> QED BY <1>1, <1>3, <1>4, <1>5, <1>6, <2>1 DEF MoveCase
<1>7. CASE From(t) # Nowhere
    <2>1. Exists(From(t), t)
        BY <1>1, <1>7 DEF From
    <2>2. From(t) \in mounted
        BY <2>1 DEF Exists
    <2>3. NewMove(t, lib) \in Moves(LibraryIds)
        BY <1>3, <2>2 DEF NewMove, Moves, Steps, Data
    <2> QED BY <1>1, <1>3, <1>4, <1>5, <1>7, <2>1, <2>2, <2>3 DEF MoveCase
<1> QED BY <1>6, <1>7

\* A list whose entries are all of a set is a list over it.
LEMMA ListOver ==
    ASSUME NEW A, NEW B, NEW s \in Seq(A), \A k \in DOMAIN s : s[k] \in B
    PROVE  s \in Seq(B) /\ (s # <<>> => 1 \in DOMAIN s /\ Head(s) = s[1])
<1>1. s \in [1..Len(s) -> B] /\ Len(s) \in Nat
    OBVIOUS
<1>2. s # <<>> => 1 \in DOMAIN s /\ Head(s) = s[1]
    OBVIOUS
<1> QED BY <1>1, <1>2

\* Every step keeps the types; the drives and who is on them are kept together.
LEMMA LibraryTypesNext ==
    ASSUME Slips = {}, DrivesOK, LibraryTypes, [LibraryNext]_libraryVars
    PROVE  DrivesOK' /\ LibraryTypes'
<1> USE DrivesAssumption
<1> DEFINE Libs == {0} \cup LibraryIds
           Stays == UNCHANGED <<drives, standard, given>>
           World == UNCHANGED <<drives, standard, given, saved, mounted, found>>
<1>0. /\ moving \in Seq(Moves(LibraryIds)) /\ LibraryIds \subseteq Nat /\ folders \in Tree
      /\ DOMAIN rows \subseteq Titles /\ rows \in [DOMAIN rows -> Row(Libs)] /\ Row(Libs) \subseteq Row(Nat)
    BY DriveFacts DEF LibraryTypes, Row
<1>1. ASSUME NEW p \in Paths, AddLibrary(p) PROVE DrivesOK' /\ LibraryTypes'
    <2>1. DrivesOK' /\ LibraryIds \subseteq LibraryIds'
        BY <1>1, DriveAdded DEF AddLibrary
    <2>2. UNCHANGED <<rows, saved, folders, mounted, moving, wiping, found, owned>>
        BY <1>1 DEF AddLibrary
    <2>3. Row(Libs) \subseteq Row({0} \cup LibraryIds') /\ Moves(LibraryIds) \subseteq Moves(LibraryIds')
        BY <2>1 DEF Row, Moves
    <2>4. rows \in [DOMAIN rows -> Row({0} \cup LibraryIds')] /\ moving \in Seq(Moves(LibraryIds'))
        <3>1. \A u \in DOMAIN rows : rows[u] \in Row({0} \cup LibraryIds')
            BY <1>0, <2>3
        <3>2. \A k \in DOMAIN moving : moving[k] \in Moves(LibraryIds')
            BY <1>0, <2>3, MovesFacts
        <3>3. rows = [u \in DOMAIN rows |-> rows[u]]
            BY <1>0
        <3>4. moving \in Seq(Moves(LibraryIds'))
            BY ONLY <1>0, <3>2, ListOver
        <3>5. rows \in [DOMAIN rows -> Row({0} \cup LibraryIds')]
            BY <3>1, <3>3, Zenon
        <3> QED BY <3>4, <3>5
    <2>5. Moves(LibraryIds)' = Moves(LibraryIds')
        BY <2>2 DEF Moves
    <2> QED BY <2>1, <2>2, <2>4, <2>5 DEF LibraryTypes, Row
<1>2. ASSUME NEW lib \in LibraryIds, SetDefaultLibrary(lib) PROVE DrivesOK' /\ LibraryTypes'
    <2>1. LibraryIds' = LibraryIds
        BY <1>2 DEF SetDefaultLibrary, LibraryIds
    <2>2. DrivesOK'
        BY <1>2, <2>1 DEF SetDefaultLibrary, DrivesOK
    <2>3. UNCHANGED <<rows, saved, folders, mounted, moving, wiping, found, owned>>
        BY <1>2 DEF SetDefaultLibrary
    <2> QED BY <2>1, <2>2, <2>3 DEF LibraryTypes, Row, Moves
<1>3. ASSUME NEW lib \in LibraryIds, RemoveStorageLibrary(lib) PROVE DrivesOK' /\ LibraryTypes'
    <2>1. DrivesOK' /\ LibraryIds' = LibraryIds \ {lib} /\ FallbackId(lib) \in LibraryIds'
        BY <1>3, DriveRemoved DEF RemoveStorageLibrary
    <2>2. UNCHANGED <<saved, folders, mounted, moving, wiping, found, owned>>
        BY <1>3 DEF RemoveStorageLibrary
    <2>3. \A k \in DOMAIN moving : moving[k].lib # lib
        BY <1>3 DEF RemoveStorageLibrary, Slip
    <2>4. found.at = "candidates" => \A c \in found.titles : c.lib # lib
        BY <1>3 DEF RemoveStorageLibrary, Slip
    <2>5. moving \in Seq(Moves(LibraryIds'))
        <3>1. \A k \in DOMAIN moving : moving[k] \in Moves(LibraryIds')
            BY <1>0, <2>1, <2>3, MovesFacts DEF Moves
        <3> QED BY ONLY <3>1, <1>0, ListOver
    <2>6. /\ DOMAIN rows' = DOMAIN rows
          /\ \A t \in DOMAIN rows : rows'[t] = IF t \in GamesOnLibrary(lib)
                                               THEN [rows[t] EXCEPT !.lib = FallbackId(lib)] ELSE rows[t]
          /\ rows' = [t \in DOMAIN rows |-> rows'[t]]
        BY <1>3 DEF RemoveStorageLibrary, DetachedTo
    <2>7. \A t \in DOMAIN rows : rows'[t] \in Row({0} \cup LibraryIds')
        <3> SUFFICES ASSUME NEW t \in DOMAIN rows PROVE rows'[t] \in Row({0} \cup LibraryIds')
            OBVIOUS
        <3>1. rows[t] \in Row(Libs)
            BY <1>0
        <3>2. CASE t \in GamesOnLibrary(lib)
            BY <2>1, <2>6, <3>1, <3>2 DEF Row
        <3>3. CASE t \notin GamesOnLibrary(lib)
            <4>1. rows[t].lib # lib
                BY <3>3, DriveFacts DEF GamesOnLibrary, DriveOf
            <4> QED BY <2>1, <2>6, <3>1, <3>3, <4>1 DEF Row
        <3> QED BY <3>2, <3>3
    <2>8. rows' \in [DOMAIN rows' -> Row({0} \cup LibraryIds')]
        BY <2>6, <2>7
    <2>9. Moves(LibraryIds)' = Moves(LibraryIds')
        BY <2>2 DEF Moves
    <2>10. found.at = "candidates" =>
               /\ found.over \subseteq mounted
               /\ found.titles \subseteq [title : Titles, lib : LibraryIds', at : mounted]
        <3> SUFFICES ASSUME found.at = "candidates", NEW c \in found.titles
                     PROVE  c \in [title : Titles, lib : LibraryIds', at : mounted]
            BY DEF LibraryTypes
        <3>1. c \in [title : Titles, lib : LibraryIds, at : mounted] /\ c.lib # lib
            BY <2>4 DEF LibraryTypes
        <3> QED BY <3>1, <2>1
    <2> QED BY <1>0, <2>1, <2>2, <2>5, <2>6, <2>8, <2>9, <2>10 DEF LibraryTypes, Row
<1>4. ASSUME NEW t \in Titles, NEW lib \in LibraryIds, MoveGame(t, lib) PROVE DrivesOK' /\ LibraryTypes'
    <2>1. MoveCase(t, lib)
        BY <1>4, MoveFacts
    <2>2. LibraryIds' = LibraryIds /\ DrivesOK'
        BY <2>1, SameDrives DEF MoveCase
    <2>3. Moves(LibraryIds)' = Moves(LibraryIds)
        BY <2>1, <2>2 DEF MoveCase, Moves
    <2>4. CASE UNCHANGED moving /\ FinalizeMovedGame(t, lib, PathOf(DriveOf(rows[t])), PathOf(lib))
        <3>1. PathOf(DriveOf(rows[t])) \in Paths /\ PathOf(lib) \in Paths
            BY <2>1, RowTyped, DriveFacts DEF MoveCase
        <3>2. DOMAIN rows' = DOMAIN rows /\ rows' \in [DOMAIN rows -> Row(Libs)]
            BY <1>0, <2>4, <3>1, FinalizeFacts
        <3> QED BY <2>1, <2>2, <2>3, <2>4, <3>2 DEF LibraryTypes, Row, MoveCase
    <2>5. CASE UNCHANGED rows /\ moving' = Append(moving, NewMove(t, lib)) /\ NewMove(t, lib) \in Moves(LibraryIds)
        <3>1. moving' \in Seq(Moves(LibraryIds))
            BY <1>0, <2>5, MovesFacts
        <3> QED BY <2>1, <2>2, <2>3, <2>5, <3>1 DEF LibraryTypes, Row, MoveCase
    <2> QED BY <2>1, <2>4, <2>5 DEF MoveCase
<1>5. ASSUME NEW t \in Titles, NEW row \in Row(Libs), Put(t, row), UNCHANGED <<drives, standard, given, saved, mounted, moving, wiping, found>>,
             owned' \subseteq Titles, folders' \in Tree
      PROVE  DrivesOK' /\ LibraryTypes'
    <2>1. LibraryIds' = LibraryIds /\ DrivesOK'
        BY <1>5, SameDrives
    <2>2. DOMAIN rows' \subseteq Titles /\ rows' \in [DOMAIN rows' -> Row(Libs)]
        BY <1>0, <1>5, PutFacts
    <2> QED BY <1>5, <2>1, <2>2 DEF LibraryTypes, Row, Moves
<1>6. ASSUME NEW t \in Titles, NEW lib \in LibraryIds, EnsureLibraryPlaceholder(t, lib)
      PROVE  DrivesOK' /\ LibraryTypes'
    <2> DEFINE row == [lib |-> lib, at |-> Nowhere, exe |-> IF t \in DOMAIN rows THEN rows[t].exe ELSE Nowhere]
    <2>1. row \in Row(Libs)
        BY RowTyped DEF Row
    <2>2. Put(t, row) /\ owned' = owned \ {t}
        BY <1>6 DEF EnsureLibraryPlaceholder
    <2>3. UNCHANGED <<drives, standard, given, saved, folders, mounted, moving, wiping, found>>
        BY <1>6 DEF EnsureLibraryPlaceholder
    <2>4. owned' \subseteq Titles /\ folders' \in Tree
        BY <2>2, <2>3, <1>0 DEF LibraryTypes
    <2> HIDE DEF row
    <2> QED BY <1>5, <2>1, <2>2, <2>3, <2>4
<1>7. ASSUME NEW t \in Titles, NEW lib \in LibraryIds, CommitInstalledGame(t, lib)
      PROVE  DrivesOK' /\ LibraryTypes'
    <2> DEFINE p == PathOf(lib)
    <2>1. p \in Paths
        BY DriveFacts
    <2>2. PICK exe \in {Nowhere, p} : Put(t, [lib |-> lib, at |-> p, exe |-> exe])
        BY <1>7 DEF CommitInstalledGame
    <2>3. [lib |-> lib, at |-> p, exe |-> exe] \in Row(Libs)
        BY <2>1 DEF Row
    <2>4. folders' = [folders EXCEPT ![p][t] = [data |-> "whole", marked |-> TRUE]]
        BY <1>7 DEF CommitInstalledGame, At
    <2>5. folders' \in Tree
        BY <2>1, <2>4, <1>0, TreeFacts DEF Folder, Data
    <2>6. /\ UNCHANGED <<drives, standard, given, saved, mounted, moving, wiping, found>>
          /\ owned' \subseteq Titles
        BY <1>7 DEF CommitInstalledGame, LibraryTypes
    <2> HIDE DEF p
    <2> QED BY <1>5, <2>2, <2>3, <2>5, <2>6
<1>8. ASSUME WorkerStep, moving' \in Seq(Moves(LibraryIds)), folders' \in Tree PROVE DrivesOK' /\ LibraryTypes'
    BY <1>8, SameDrives DEF WorkerStep, LibraryTypes, Row, Moves
<1>9. ASSUME NEW k \in DOMAIN moving, BeginMove(k) \/ EndCopy(k) \/ FailCopy(k) \/ RemoveSource(k)
      PROVE  DrivesOK' /\ LibraryTypes'
    <2> DEFINE m == moving[k]
               t == m.title
    <2>1. m.from \in Paths /\ m.to \in Paths /\ t \in Titles /\ m.over \in Data
        BY <1>0, MovesFacts DEF LibraryTypes
    <2>2. \A p \in Paths, u \in Titles : folders[p][u] \in Folder /\ folders[p][u].data \in Data /\ folders[p][u].marked \in BOOLEAN
        BY <1>0 DEF Tree, Folder
    <2>3. WorkerStep
        BY <1>9 DEF BeginMove, EndCopy, FailCopy, RemoveSource
    <2>4. Empty \in Folder /\ \A d \in Data, b \in BOOLEAN : [data |-> d, marked |-> b] \in Folder
        BY DEF Empty, Folder, Data
    <2>5. moving' \in Seq(Moves(LibraryIds))
        <3>1. \/ \E step \in Steps : moving' = [moving EXCEPT ![k].step = step]
              \/ moving' = [moving EXCEPT ![k].step = "copying", ![k].over = folders[m.to][t].data]
            BY <1>9 DEF BeginMove, EndCopy, FailCopy, RemoveSource, Becomes, Steps
        <3>2. folders[m.to][t].data \in Data
            BY <2>1, <2>2
        <3>3. CASE \E step \in Steps : moving' = [moving EXCEPT ![k].step = step]
            <4>1. PICK step \in Steps : moving' = [moving EXCEPT ![k].step = step]
                BY <3>3
            <4>2. [moving EXCEPT ![k].step = step] \in Seq(Moves(LibraryIds))
                BY ONLY <1>0, MovesFacts, k \in DOMAIN moving, step \in Steps
            <4> QED BY ONLY <4>1, <4>2, Zenon
        <3>4. CASE moving' = [moving EXCEPT ![k].step = "copying", ![k].over = folders[m.to][t].data]
            BY <1>0, <3>2, <3>4, MovesFacts DEF Steps
        <3> QED BY <3>1, <3>3, <3>4
    <2>6. folders' \in Tree
        <3>1. CASE BeginMove(k)
            <4>1. \/ folders' = folders
                  \/ folders' = [At(m.to, t, folders[m.from][t]) EXCEPT ![m.from][t] = Empty]
                  \/ folders' = At(m.to, t, [data |-> IF folders[m.to][t].data = "whole" THEN "whole" ELSE "part",
                        marked |-> folders[m.to][t].marked \/ (folders[m.from][t].marked /\ ~HidesDots)])
                BY <3>1 DEF BeginMove
            <4>2. At(m.to, t, folders[m.from][t]) \in Tree
                BY <1>0, <2>1, <2>2, TreeFacts DEF At
            <4>3. [At(m.to, t, folders[m.from][t]) EXCEPT ![m.from][t] = Empty] \in Tree
                BY <2>1, <2>4, <4>2, TreeFacts
            <4>4. At(m.to, t, [data |-> IF folders[m.to][t].data = "whole" THEN "whole" ELSE "part",
                        marked |-> folders[m.to][t].marked \/ (folders[m.from][t].marked /\ ~HidesDots)]) \in Tree
                <5>1. [data |-> IF folders[m.to][t].data = "whole" THEN "whole" ELSE "part",
                       marked |-> folders[m.to][t].marked \/ (folders[m.from][t].marked /\ ~HidesDots)] \in Folder
                    BY <2>1, <2>2, <2>4 DEF Data
                <5> QED BY <1>0, <2>1, <5>1, TreeFacts DEF At
            <4> QED BY <1>0, <4>1, <4>3, <4>4
        <3>2. CASE EndCopy(k)
            <4>1. PICK d \in Data : folders' = [folders EXCEPT ![m.to][t].data = d]
                BY <3>2 DEF EndCopy, Data
            <4>2. [folders EXCEPT ![m.to][t].data = d] \in Tree
                BY ONLY <1>0, <2>1, TreeFacts, d \in Data
            <4> QED BY ONLY <4>1, <4>2, Zenon
        <3>3. CASE FailCopy(k)
            BY <3>3, <1>0, <2>1, <2>4, TreeFacts DEF FailCopy, At
        <3>4. CASE RemoveSource(k)
            <4>1. folders' = At(m.from, t, Empty)
                BY <3>4 DEF RemoveSource, Slip
            <4> QED BY <4>1, <1>0, <2>1, <2>4, TreeFacts DEF At
        <3> QED BY <1>9, <3>1, <3>2, <3>3, <3>4
    <2> QED BY <1>8, <2>3, <2>5, <2>6
<1>10. CASE MoveEnds
    <2> DEFINE m == Head(moving)
    <2>1. moving # <<>> /\ 1 \in DOMAIN moving /\ m = moving[1]
        <3>1. moving # <<>>
            BY <1>10 DEF MoveEnds
        <3>2. \A k \in DOMAIN moving : moving[k] \in Moves(LibraryIds)
            BY <1>0, MovesFacts
        <3>3. 1 \in DOMAIN moving /\ Head(moving) = moving[1]
            BY ONLY <1>0, <3>1, <3>2, ListOver
        <3> QED BY <3>1, <3>3
    <2>2. m.title \in Titles /\ m.lib \in LibraryIds /\ m.from \in Paths /\ m.to \in Paths
        BY <1>0, <2>1, MovesFacts DEF LibraryTypes
    <2>3. LibraryIds' = LibraryIds /\ DrivesOK'
        BY <1>10, SameDrives DEF MoveEnds
    <2>4. moving' \in Seq(Moves(LibraryIds))
        BY <1>0, <1>10, <2>1, MovesFacts DEF MoveEnds
    <2>5. DOMAIN rows' \subseteq Titles /\ rows' \in [DOMAIN rows' -> Row(Libs)]
        <3>1. CASE UNCHANGED rows
            BY <3>1, <1>0
        <3>2. CASE FinalizeMovedGame(m.title, m.lib, m.from, m.to)
            BY <3>2, <1>0, <2>2, FinalizeFacts
        <3> QED BY <1>10, <3>1, <3>2 DEF MoveEnds
    <2> QED BY <1>10, <2>3, <2>4, <2>5 DEF MoveEnds, LibraryTypes, Row, Moves
<1>11. ASSUME NEW t \in Titles, RemoveGame(t) PROVE DrivesOK' /\ LibraryTypes'
    <2>1. t \in DOMAIN rows /\ rows[t].at \in Paths \cup {Nowhere} /\ PathOf(DriveOf(rows[t])) \in Paths
        BY <1>11, RowTyped DEF RemoveGame
    <2>2. wiping' \in [Titles -> SUBSET Paths]
        BY <1>11, <2>1 DEF RemoveGame, LibraryTypes
    <2>3. DOMAIN rows' = DOMAIN rows \ {t} /\ rows' \in [DOMAIN rows' -> Row(Libs)]
        BY <1>11, <1>0 DEF RemoveGame
    <2>4. moving' \in Seq(Moves(LibraryIds))
        <3>1. \A m \in Moves(LibraryIds) : [m EXCEPT !.job = FALSE] \in Moves(LibraryIds)
            BY DEF Moves
        <3>2. moving' = [k \in DOMAIN moving |-> IF moving[k].title = t THEN [moving[k] EXCEPT !.job = FALSE] ELSE moving[k]]
            BY <1>11 DEF RemoveGame
        <3>3. \A k \in DOMAIN moving : moving'[k] \in Moves(LibraryIds)
            BY <3>1, <3>2, <1>0, MovesFacts
        <3> DEFINE M == Moves(LibraryIds)
        <3> HIDE DEF M
        <3>4. DOMAIN moving = 1..Len(moving) /\ Len(moving) \in Nat
            BY <1>0, MovesFacts
        <3>5. moving' \in [1..Len(moving) -> M]
            BY <3>2, <3>3, <3>4 DEF M
        <3> QED BY <3>4, <3>5 DEF M
    <2>5. LibraryIds' = LibraryIds /\ DrivesOK'
        BY <1>11, SameDrives DEF RemoveGame
    <2> QED BY <1>0, <1>11, <2>2, <2>3, <2>4, <2>5 DEF RemoveGame, LibraryTypes, Row, Moves
<1>12. ASSUME NEW t \in Titles, Wipe(t) PROVE DrivesOK' /\ LibraryTypes'
    <2>1. PICK p \in wiping[t] : /\ wiping' = [wiping EXCEPT ![t] = @ \ {p}]
                                /\ folders' = IF p \in mounted THEN At(p, t, Empty) ELSE folders
        BY <1>12 DEF Wipe, Slip
    <2>2. folders' \in Tree
        BY <2>1, <1>0, TreeFacts DEF At, Empty, Folder, Data, LibraryTypes
    <2>3. wiping' \in [Titles -> SUBSET Paths]
        BY <2>1 DEF LibraryTypes
    <2> QED BY <1>12, <2>2, <2>3, SameDrives DEF Wipe, LibraryTypes, Row, Moves
<1>13. DiscoverInstallCandidates \subseteq [title : Titles, lib : LibraryIds, at : mounted]
    BY DEF DiscoverInstallCandidates, Exists
<1>14. CASE StartScan
    <2>1. UNCHANGED <<drives, standard, given, rows, saved, folders, mounted, moving, wiping, owned>>
        BY <1>14 DEF StartScan
    <2>2. found'.at = "candidates" /\ found'.titles = DiscoverInstallCandidates /\ found'.over \subseteq mounted
        BY <1>14 DEF StartScan
    <2>3. LibraryIds' = LibraryIds /\ DrivesOK'
        BY <2>1, SameDrives
    <2> QED BY <1>13, <2>1, <2>2, <2>3 DEF LibraryTypes, Row, Moves
<1>15. ASSUME NEW cs, cs \subseteq [title : Titles, lib : LibraryIds, at : mounted], CommitScanCandidates(cs),
              UNCHANGED <<drives, standard, given, mounted, moving, wiping>>,
              found' = found \/ found' = [at |-> "done", over |-> found.over],
              found.at \in {"candidates", "done"} \/ found' = found
       PROVE  DrivesOK' /\ LibraryTypes'
    <2>1. ScanEnd(cs)
        BY <1>15, CommitScanFacts
    <2>2. LibraryIds' = LibraryIds /\ DrivesOK'
        BY <1>15, SameDrives
    <2>3. DOMAIN rows' \subseteq Titles
        BY <2>1, <1>0, <1>15 DEF ScanEnd
    <2>4. \A u \in DOMAIN rows' : rows'[u] \in Row(Libs)
        <3> SUFFICES ASSUME NEW u \in DOMAIN rows' PROVE rows'[u] \in Row(Libs)
            OBVIOUS
        <3>1. CASE u \in DOMAIN rows
            BY <3>1, <1>0, <2>1 DEF ScanEnd
        <3>2. CASE u \notin DOMAIN rows
            <4>1. PICK c \in cs : rows'[u] = [lib |-> c.lib, at |-> c.at, exe |-> c.at]
                BY <2>1, <3>2 DEF ScanEnd
            <4>2. c.lib \in LibraryIds /\ c.at \in Paths
                BY <1>15 DEF LibraryTypes
            <4> QED BY <4>1, <4>2 DEF Row
        <3> QED BY <3>1, <3>2
    <2>5. rows' = [u \in DOMAIN rows' |-> rows'[u]]
        BY <1>15 DEF CommitScanCandidates
    <2>6. rows' \in [DOMAIN rows' -> Row(Libs)]
        BY <2>4, <2>5
    <2>7. owned' \subseteq Titles
        BY <2>1, <2>3 DEF ScanEnd, LibraryTypes
    <2>8. found'.at = "done" => found'.over \subseteq mounted
        BY <1>15 DEF LibraryTypes
    <2>9. found'.at = "candidates" => found' = found
        BY <1>15
    <2> QED BY <1>15, <2>1, <2>2, <2>3, <2>6, <2>7, <2>8, <2>9 DEF ScanEnd, LibraryTypes, Row, Moves
<1>16. CASE EndScan
    BY <1>15, <1>16 DEF EndScan, LibraryTypes
<1>17. CASE ScanInstalledGames
    BY <1>13, <1>15, <1>17 DEF ScanInstalledGames
<1>18. CASE Flush
    <2>1. saved' \in [DOMAIN saved' -> Row(Nat)] /\ DOMAIN saved' \subseteq Titles
        BY <1>18, <1>0 DEF Flush
    <2> QED BY <1>18, <2>1, SameDrives DEF Flush, LibraryTypes, Row, Moves
<1>19. ASSUME NEW inOrder \in BOOLEAN, NEW there \in SUBSET Paths, Restart(inOrder, there)
       PROVE  DrivesOK' /\ LibraryTypes'
    <2> DEFINE rs == IF inOrder THEN rows ELSE saved
    <2>1. LibraryIds' = LibraryIds /\ DrivesOK'
        BY <1>19, SameDrives DEF Restart
    <2>2. /\ rows' = PruneBrokenLibraryEntries(rs, there) /\ saved' = rs /\ mounted' = there /\ moving' = <<>>
          /\ wiping' = [t \in Titles |-> {}] /\ found' = [at |-> "start"] /\ folders' = folders
          /\ owned' \subseteq owned \cup DOMAIN rows'
        BY <1>19 DEF Restart
    <2>3. DOMAIN rs \subseteq Titles /\ rs \in [DOMAIN rs -> Row(Nat)]
        BY <1>0 DEF LibraryTypes
    <2>4. \A t \in DOMAIN rs : rs[t] \in Row(Libs)
        <3>1. CASE inOrder
            BY <3>1, <1>0
        <3>2. CASE ~inOrder
            <4>1. \A t \in DOMAIN saved : saved[t].lib \in Libs
                BY <1>19, <3>2 DEF Restart, Slip
            <4> QED BY <4>1, <3>2 DEF LibraryTypes, Row
        <3> QED BY <3>1, <3>2
    <2> HIDE DEF rs
    <2>5. DOMAIN rows' \subseteq DOMAIN rs /\ rows' = [t \in DOMAIN rows' |-> rs[t]]
        BY <2>2 DEF PruneBrokenLibraryEntries
    <2>6. rows' \in [DOMAIN rows' -> Row(Libs)]
        BY <2>4, <2>5
    <2>7. moving' \in Seq(Moves(LibraryIds)')
        BY <2>2
    <2> QED BY <1>0, <2>1, <2>2, <2>3, <2>5, <2>6, <2>7 DEF LibraryTypes, Row
<1>20. CASE UNCHANGED libraryVars
    BY <1>20, SameDrives DEF libraryVars, LibraryTypes, Row, Moves
<1> QED BY <1>1, <1>2, <1>3, <1>4, <1>6, <1>7, <1>9, <1>10, <1>11, <1>12, <1>14, <1>16, <1>17, <1>18, <1>19, <1>20
        DEF LibraryNext

----------------------------------------------------------------------------
\* The moves of a title, after each thing that happens to the list of moves.
LEMMA MovesOfFacts ==
    ASSUME NEW libs, moving \in Seq(Moves(libs)), NEW t
    PROVE  /\ \A m \in MovesOf(t) : m.title = t /\ m \in Moves(libs)
           /\ \A k \in DOMAIN moving : moving[k].title = t =>
                 moving[k] \in MovesOf(t) /\ (OneMove(t) => MovesOf(t) = {moving[k]})
           /\ moving' = moving => MovesOf(t)' = MovesOf(t) /\ (OneMove(t) => OneMove(t)')
           /\ moving' = <<>> => MovesOf(t)' = {} /\ OneMove(t)'
<1>1. \A m \in MovesOf(t) : \E k \in DOMAIN moving : m = moving[k] /\ moving[k].title = t
    BY DEF MovesOf
<1>2. \A m \in MovesOf(t) : m.title = t /\ m \in Moves(libs)
    <2>1. \A k \in DOMAIN moving : moving[k] \in Moves(libs)
        BY MovesFacts
    <2> QED BY <1>1, <2>1
<1>3. ASSUME NEW k \in DOMAIN moving, moving[k].title = t
      PROVE  moving[k] \in MovesOf(t) /\ (OneMove(t) => MovesOf(t) = {moving[k]})
    <2>1. moving[k] \in MovesOf(t)
        BY <1>3 DEF MovesOf
    <2>2. ASSUME OneMove(t), NEW m \in MovesOf(t) PROVE m = moving[k]
        BY <1>1, <1>3, <2>2 DEF OneMove
    <2> QED BY <2>1, <2>2
<1>4. moving' = moving => MovesOf(t)' = MovesOf(t) /\ (OneMove(t) => OneMove(t)')
    BY DEF MovesOf, OneMove
<1>5. moving' = <<>> => MovesOf(t)' = {} /\ OneMove(t)'
    BY DEF MovesOf, OneMove
<1> QED BY <1>2, <1>3, <1>4, <1>5

\* A move that is queued is the one of its title.
LEMMA MoveAdded ==
    ASSUME NEW libs, moving \in Seq(Moves(libs)), NEW m \in Moves(libs), moving' = Append(moving, m),
           MovesOf(m.title) = {}, NEW t, OneMove(t)
    PROVE  OneMove(t)' /\ MovesOf(t)' = IF t = m.title THEN {m} ELSE MovesOf(t)
<1> DEFINE n == Len(moving)
           M == Moves(libs)
<1>1. /\ n \in Nat /\ DOMAIN moving = 1..n /\ DOMAIN moving' = (1..n) \cup {n + 1} /\ n + 1 \notin 1..n
      /\ moving'[n + 1] = m /\ \A k \in 1..n : moving'[k] = moving[k]
    <2>1. moving \in Seq(M) /\ m \in M
        OBVIOUS
    <2> HIDE DEF M
    <2> QED BY <2>1
<1>2. \A k \in 1..n : moving[k].title # m.title
    BY <1>1 DEF MovesOf
<1>3. OneMove(t)'
    <2> SUFFICES ASSUME NEW i \in DOMAIN moving', NEW k \in DOMAIN moving', moving'[i].title = t, moving'[k].title = t
                 PROVE  i = k
        BY DEF OneMove
    <2>1. CASE i \in 1..n /\ k \in 1..n
        BY <1>1, <2>1 DEF OneMove
    <2>2. CASE i = n + 1 \/ k = n + 1
        BY <1>1, <1>2, <2>2
    <2> QED BY <1>1, <2>1, <2>2
<1>4. MovesOf(t)' = {moving'[k] : k \in {j \in DOMAIN moving' : moving'[j].title = t}}
    BY DEF MovesOf
<1>5. CASE t = m.title
    BY <1>1, <1>2, <1>3, <1>4, <1>5
<1>6. CASE t # m.title
    <2>1. {j \in DOMAIN moving' : moving'[j].title = t} = {j \in 1..n : moving[j].title = t}
        BY <1>1, <1>6
    <2>2. \A x : x \in MovesOf(t)' <=> x \in MovesOf(t)
        BY <1>1, <1>4, <2>1 DEF MovesOf
    <2> QED BY <1>3, <1>6, <2>2
<1> QED BY <1>3, <1>5, <1>6

\* The first move leaves the queue, and its title has none.
LEMMA MoveLeaves ==
    ASSUME NEW libs, moving \in Seq(Moves(libs)), moving # <<>>, moving' = Tail(moving), NEW t, OneMove(t)
    PROVE  OneMove(t)' /\ MovesOf(t)' = IF t = Head(moving).title THEN {} ELSE MovesOf(t)
<1> DEFINE n == Len(moving)
           M == Moves(libs)
<1>1. /\ n \in Nat /\ DOMAIN moving = 1..n /\ 1 \in DOMAIN moving /\ Head(moving) = moving[1]
      /\ DOMAIN moving' = 1..(n - 1) /\ \A k \in 1..(n - 1) : moving'[k] = moving[k + 1]
    <2>1. moving \in Seq(M)
        OBVIOUS
    <2> HIDE DEF M
    <2> QED BY <2>1
<1>2. \A k \in 1..(n - 1) : k + 1 \in 1..n /\ k + 1 # 1
    BY <1>1
<1>3. \A k \in 1..n : k # 1 => k - 1 \in 1..(n - 1) /\ (k - 1) + 1 = k
    BY <1>1
<1>4. OneMove(t)'
    <2> SUFFICES ASSUME NEW j \in 1..(n - 1), NEW k \in 1..(n - 1), moving'[j].title = t, moving'[k].title = t
                 PROVE  j = k
        BY <1>1, Zenon DEF OneMove
    <2>1. moving[j + 1].title = t /\ moving[k + 1].title = t
        BY <1>1
    <2>2. j + 1 = k + 1
        BY <1>1, <1>2, <2>1 DEF OneMove
    <2> QED BY <2>2, <1>1
<1>5. \A x : x \in MovesOf(t)' <=> \E k \in 1..(n - 1) : x = moving[k + 1] /\ moving[k + 1].title = t
    <2>1. \A x : x \in MovesOf(t)' <=> \E k \in DOMAIN moving' : x = moving'[k] /\ moving'[k].title = t
        BY DEF MovesOf
    <2>2. DOMAIN moving' = 1..(n - 1) /\ \A k \in 1..(n - 1) : moving'[k] = moving[k + 1]
        BY <1>1
    <2> HIDE DEF n
    <2> QED BY ONLY <2>1, <2>2
<1>6. \A x : x \in MovesOf(t)' <=> \E k \in 1..n : k # 1 /\ x = moving[k] /\ moving[k].title = t
    <2>1. ASSUME NEW x, x \in MovesOf(t)' PROVE \E k \in 1..n : k # 1 /\ x = moving[k] /\ moving[k].title = t
        BY <1>2, <1>5, <2>1
    <2>2. ASSUME NEW x, NEW k \in 1..n, k # 1, x = moving[k], moving[k].title = t PROVE x \in MovesOf(t)'
        <3>1. k - 1 \in 1..(n - 1) /\ (k - 1) + 1 = k
            BY <1>3, <2>2
        <3> QED BY <1>5, <2>2, <3>1
    <2> QED BY <2>1, <2>2
<1>7. \A x : x \in MovesOf(t) <=> \E k \in 1..n : x = moving[k] /\ moving[k].title = t
    BY <1>1 DEF MovesOf
<1>8. CASE t = moving[1].title
    <2>1. \A k \in 1..n : moving[k].title = t => k = 1
        BY <1>1, <1>8 DEF OneMove
    <2> QED BY <1>1, <1>4, <1>6, <1>8, <2>1
<1>9. CASE t # moving[1].title
    <2>1. \A k \in 1..n : moving[k].title = t => k # 1
        BY <1>9
    <2>2. \A x : x \in MovesOf(t)' <=> x \in MovesOf(t)
        BY ONLY <1>6, <1>7, <2>1
    <2> QED BY <1>1, <1>4, <1>9, <2>2
<1> QED BY <1>1, <1>4, <1>8, <1>9

\* A move that goes on remains the one of its title.
LEMMA MoveChanges ==
    ASSUME NEW libs, moving \in Seq(Moves(libs)), NEW k \in DOMAIN moving, NEW m \in Moves(libs),
           m.title = moving[k].title, moving' = [moving EXCEPT ![k] = m], NEW t, OneMove(t)
    PROVE  OneMove(t)' /\ MovesOf(t)' = IF t = m.title THEN {m} ELSE MovesOf(t)
<1> DEFINE M == Moves(libs)
<1>1. /\ DOMAIN moving' = DOMAIN moving /\ moving'[k] = m
      /\ \A j \in DOMAIN moving : j # k => moving'[j] = moving[j]
    <2>1. moving \in Seq(M) /\ m \in M
        OBVIOUS
    <2> HIDE DEF M
    <2> QED BY <2>1
<1>2. \A j \in DOMAIN moving : moving'[j].title = moving[j].title
    BY <1>1
<1>3. OneMove(t)'
    <2> SUFFICES ASSUME NEW i \in DOMAIN moving, NEW j \in DOMAIN moving, moving'[i].title = t, moving'[j].title = t
                 PROVE  i = j
        BY <1>1, Zenon DEF OneMove
    <2>1. moving[i].title = t /\ moving[j].title = t
        BY <1>2
    <2> QED BY <2>1, Zenon DEF OneMove
<1>4. \A x : x \in MovesOf(t)' <=> \E j \in DOMAIN moving : x = moving'[j] /\ moving[j].title = t
    BY <1>1, <1>2 DEF MovesOf
<1>5. \A x : x \in MovesOf(t) <=> \E j \in DOMAIN moving : x = moving[j] /\ moving[j].title = t
    BY DEF MovesOf
<1>6. CASE t = m.title
    <2>0. moving[k].title = t
        BY <1>6
    <2>1. \A j \in DOMAIN moving : moving[j].title = t => j = k
        BY <2>0 DEF OneMove
    <2> QED BY <1>1, <1>3, <1>4, <1>6, <2>1
<1>7. CASE t # m.title
    <2>1. \A j \in DOMAIN moving : moving[j].title = t => j # k
        BY <1>7
    <2>2. \A x : x \in MovesOf(t)' <=> x \in MovesOf(t)
        BY ONLY <1>1, <1>4, <1>5, <2>1
    <2> QED BY <1>3, <1>7, <2>2
<1> QED BY <1>3, <1>6, <1>7

\* Removing a title takes the job from its moves.
LEMMA JobsGone ==
    ASSUME NEW libs, moving \in Seq(Moves(libs)), NEW t,
           moving' = [k \in DOMAIN moving |->
                         IF moving[k].title = t THEN [moving[k] EXCEPT !.job = FALSE] ELSE moving[k]]
    PROVE  /\ \A u : OneMove(u) => OneMove(u)'
           /\ \A u : u # t => MovesOf(u)' = MovesOf(u)
           /\ \A m \in MovesOf(t)' : m.job = FALSE
<1>1. \A m \in Moves(libs) : [m EXCEPT !.job = FALSE].title = m.title /\ [m EXCEPT !.job = FALSE].job = FALSE
    BY DEF Moves
<1>2. DOMAIN moving' = DOMAIN moving
    OBVIOUS
<1>3. \A k \in DOMAIN moving : /\ moving'[k].title = moving[k].title
                               /\ moving[k].title # t => moving'[k] = moving[k]
                               /\ moving[k].title = t => moving'[k].job = FALSE
    BY <1>1, MovesFacts
<1>4. ASSUME NEW u, OneMove(u) PROVE OneMove(u)'
    <2> SUFFICES ASSUME NEW i \in DOMAIN moving, NEW j \in DOMAIN moving, moving'[i].title = u, moving'[j].title = u
                 PROVE  i = j
        BY <1>2, Zenon DEF OneMove
    <2>1. moving[i].title = u /\ moving[j].title = u
        BY <1>3
    <2> QED BY <1>4, <2>1, Zenon DEF OneMove
<1>5. ASSUME NEW u, u # t PROVE MovesOf(u)' = MovesOf(u)
    <2>1. \A x : x \in MovesOf(u)' <=> \E k \in DOMAIN moving : x = moving'[k] /\ moving[k].title = u
        BY <1>2, <1>3 DEF MovesOf
    <2>2. \A x : x \in MovesOf(u) <=> \E k \in DOMAIN moving : x = moving[k] /\ moving[k].title = u
        BY DEF MovesOf
    <2>3. \A k \in DOMAIN moving : moving[k].title = u => moving'[k] = moving[k]
        BY <1>3, <1>5
    <2>4. \A x : x \in MovesOf(u)' <=> x \in MovesOf(u)
        BY ONLY <2>1, <2>2, <2>3
    <2> QED BY <2>4
<1>6. ASSUME NEW m \in MovesOf(t)' PROVE m.job = FALSE
    <2>1. PICK k \in DOMAIN moving' : m = moving'[k] /\ moving'[k].title = t
        BY DEF MovesOf
    <2>2. k \in DOMAIN moving /\ moving[k].title = t
        BY <1>2, <1>3, <2>1
    <2> QED BY <1>3, <2>1, <2>2
<1> QED BY <1>4, <1>5, <1>6

----------------------------------------------------------------------------
\* A step that leaves a title's row, files and moves alone keeps what is true of it.
Kept(u) ==
    /\ u \in DOMAIN rows' <=> u \in DOMAIN rows
    /\ u \in DOMAIN rows => rows'[u].at = rows[u].at /\ rows'[u].exe = rows[u].exe
    /\ u \in DOMAIN saved' => saved'[u].exe \in {Nowhere, saved'[u].at}
    /\ u \in owned' <=> u \in owned
    /\ wiping'[u] \subseteq wiping[u]
    /\ mounted' = mounted
    /\ \A p \in Paths : folders'[p][u] = folders[p][u]
    /\ OneMove(u)' /\ MovesOf(u)' = MovesOf(u)

\* A move is between two mounted drives that are listed.
LEMMA MoveTyped ==
    ASSUME LibraryTypes, NEW t, NEW m \in MovesOf(t)
    PROVE  /\ m.title = t /\ m.from \in mounted /\ m.to \in mounted /\ m.step \in Steps
           /\ m.from \in Paths /\ m.to \in Paths /\ m.from # Nowhere /\ m.to # Nowhere
           /\ m.over \in Data /\ m.job \in BOOLEAN /\ m.lib \in LibraryIds
<1> USE DrivesAssumption
<1>1. moving \in Seq(Moves(LibraryIds)) /\ mounted \subseteq Paths
    BY DEF LibraryTypes
<1>2. m.title = t /\ m \in Moves(LibraryIds)
    BY <1>1, MovesOfFacts
<1>3. /\ m.from \in mounted /\ m.to \in mounted /\ m.step \in Steps
      /\ m.over \in Data /\ m.job \in BOOLEAN /\ m.lib \in LibraryIds
    BY <1>2 DEF Moves
<1> QED BY <1>1, <1>2, <1>3

\* A title whose rows, folders and moves are left alone stays true.
LEMMA TitleKept ==
    ASSUME LibraryTypes, NEW u \in Titles, TitleTrue(u), Kept(u)
    PROVE  RowTrue(u)' /\ MovesTrue(u)' /\ HomeTrue(u)' /\ (found' = found => ScanTrue(u)')
<1> USE DrivesAssumption
<1>1. mounted \subseteq Paths
    BY DEF LibraryTypes
<1>2. RowTrue(u)'
    BY DEF TitleTrue, RowTrue, Kept
<1>3. \A p : (Whole(p, u)' <=> Whole(p, u)) /\ (Exists(p, u)' <=> Exists(p, u))
    BY <1>1 DEF Whole, Exists, Kept
<1>4. ASSUME NEW m \in MovesOf(u), u \in DOMAIN rows, Carried(u, m) PROVE Carried(u, m)'
    <2>1. m.from \in Paths /\ m.to \in Paths
        BY MoveTyped
    <2>2. /\ rows'[u].at = rows[u].at /\ folders'[m.from][u] = folders[m.from][u]
          /\ folders'[m.to][u] = folders[m.to][u]
        BY <1>4, <2>1 DEF Kept
    <2> QED BY <1>3, <1>4, <2>1, <2>2 DEF Carried
<1>5. MovesTrue(u)'
    BY <1>4 DEF TitleTrue, MovesTrue, Kept
<1>6. HomeTrue(u)'
    <2>1. \A p \in Paths : folders'[p][u].data = folders[p][u].data
        BY DEF Kept
    <2>2. HomeTrue(u)
        BY DEF TitleTrue
    <2> QED BY <1>3, <2>1, <2>2 DEF HomeTrue, Kept
<1>7. ASSUME found' = found PROVE ScanTrue(u)'
    <2>1. ScanTrue(u) /\ \A p \in Paths : folders'[p][u] = folders[p][u]
        BY DEF TitleTrue, Kept
    <2>2. /\ found.at = "candidates" => /\ found.over \subseteq Paths
                                       /\ \A c \in found.titles : c.at \in Paths
          /\ found.at = "done" => found.over \subseteq Paths
        BY <1>1 DEF LibraryTypes
    <2>3. /\ u \in DOMAIN rows' <=> u \in DOMAIN rows
          /\ u \in owned' <=> u \in owned
          /\ wiping'[u] \subseteq wiping[u] /\ MovesOf(u)' = MovesOf(u)
        BY DEF Kept
    <2>4. ASSUME found.at = "candidates", NEW c \in found.titles, c.title = u
          PROVE  /\ wiping'[u] = {} /\ \A m \in MovesOf(u)' : m.job
                 /\ u \notin DOMAIN rows' => folders'[c.at][u].data = "whole"
        BY <2>1, <2>2, <2>3, <2>4 DEF ScanTrue
    <2>5. ASSUME found.at = "candidates", u \in owned' \ DOMAIN rows', NEW p \in found.over,
                 folders'[p][u] = WholeMarked
          PROVE  \E c \in found.titles : c.title = u
        BY <2>1, <2>2, <2>3, <2>5 DEF ScanTrue
    <2>6. ASSUME found.at = "done", u \in owned' \ DOMAIN rows', NEW p \in found.over
          PROVE  folders'[p][u] # WholeMarked
        BY <2>1, <2>2, <2>3, <2>6 DEF ScanTrue
    <2> QED BY <1>7, <2>4, <2>5, <2>6 DEF ScanTrue, WholeMarked
<1> QED BY <1>2, <1>5, <1>6, <1>7

\* What a title's row and moves tell together.
LEMMA TitleFacts ==
    ASSUME LibraryTypes, NEW t \in Titles, TitleTrue(t)
    PROVE  /\ t \in DOMAIN rows => wiping[t] = {}
           /\ t \in DOMAIN rows /\ ~HasMoveJob(t) => MovesOf(t) = {}
           /\ (\A k \in DOMAIN moving : moving[k].title # t) => MovesOf(t) = {}
           /\ t \in owned /\ t \in DOMAIN rows /\ MovesOf(t) = {} => Whole(rows[t].at, t) /\ Exists(rows[t].at, t)
           /\ t \in owned /\ t \notin DOMAIN rows => MovesOf(t) = {}
           /\ t \in owned => \E p \in Paths : folders[p][t].data = "whole"
<1> USE DrivesAssumption
<1>1. t \in DOMAIN rows => wiping[t] = {}
    BY DEF TitleTrue, RowTrue
<1>2. t \in DOMAIN rows /\ ~HasMoveJob(t) => MovesOf(t) = {}
    BY DEF TitleTrue, MovesTrue, HasMoveJob, MovesOf
<1>3. (\A k \in DOMAIN moving : moving[k].title # t) => MovesOf(t) = {}
    BY DEF MovesOf
<1>4. t \in owned /\ t \in DOMAIN rows /\ MovesOf(t) = {} => Whole(rows[t].at, t) /\ Exists(rows[t].at, t)
    BY DEF TitleTrue, HomeTrue, Whole, Exists
<1>5. t \in owned /\ t \notin DOMAIN rows => MovesOf(t) = {}
    BY DEF TitleTrue, MovesTrue
<1>6. ASSUME t \in owned PROVE \E p \in Paths : folders[p][t].data = "whole"
    <2>1. mounted \subseteq Paths
        BY DEF LibraryTypes
    <2>2. CASE t \notin DOMAIN rows
        BY <1>6, <2>2 DEF TitleTrue, HomeTrue
    <2>3. CASE t \in DOMAIN rows /\ MovesOf(t) = {}
        BY <1>4, <1>6, <2>1, <2>3 DEF Whole
    <2>4. CASE t \in DOMAIN rows /\ MovesOf(t) # {}
        <3>1. PICK m \in MovesOf(t) : Carried(t, m)
            BY <1>6, <2>4 DEF TitleTrue, MovesTrue
        <3>2. \E p : Whole(p, t)
            BY <3>1 DEF Carried
        <3> QED BY <2>1, <3>2 DEF Whole
    <2> QED BY <2>2, <2>3, <2>4
<1> QED BY <1>1, <1>2, <1>3, <1>4, <1>5, <1>6

----------------------------------------------------------------------------
\* The first state is true.
LEMMA LibraryInvInit == LibraryInit => LibraryInv
<1> USE DrivesAssumption
<1> SUFFICES ASSUME LibraryInit PROVE LibraryInv
    OBVIOUS
<1> DEFINE n == Len(FirstDrives)
           D == [id : 1..n, path : Paths]
           a == FirstDrives[1]
<1>1. n \in Nat /\ DOMAIN FirstDrives = 1..n /\ 1 \in 1..n /\ \A k \in 1..n : FirstDrives[k] \in Paths
    OBVIOUS
<1>2. /\ drives \in [1..n -> D] /\ \A k \in 1..n : drives[k].id = k
      /\ drives = [k \in 1..n |-> [id |-> k, path |-> FirstDrives[k]]]
    BY <1>1 DEF LibraryInit
<1>3. drives \in Seq(D) /\ Len(drives) = n /\ DOMAIN drives = 1..n
    <2> HIDE DEF D
    <2> QED BY <1>1, <1>2
<1>4. LibraryIds = 1..n
    <2>1. LibraryIds = {drives[k].id : k \in 1..n}
        BY <1>3 DEF LibraryIds, ToSet
    <2> QED BY <1>2, <2>1
<1>5. DrivesOK
    <2>1. given = n /\ standard = 1
        BY <1>3 DEF LibraryInit
    <2> QED BY <1>1, <1>2, <1>3, <1>4, <2>1 DEF DrivesOK
<1>6. PICK listed \in SUBSET Titles, lib \in {0, 1}, exe \in BOOLEAN, marker \in BOOLEAN :
          /\ rows = [t \in listed |-> [lib |-> lib, at |-> a, exe |-> IF exe THEN a ELSE Nowhere]]
          /\ folders = [p \in Paths |-> [t \in Titles |->
                IF p = a /\ t \in listed THEN [data |-> "whole", marked |-> marker] ELSE Empty]]
          /\ owned = listed
    BY DEF LibraryInit
<1>7. /\ saved = rows /\ mounted = Paths /\ moving = <<>> /\ wiping = [t \in Titles |-> {}]
      /\ found = [at |-> "start"]
    BY DEF LibraryInit
<1>8. a \in Paths /\ a # Nowhere /\ lib \in {0} \cup LibraryIds /\ lib \in Nat
    BY <1>1, <1>4
<1>9. folders \in Tree
    <2>1. [data |-> "whole", marked |-> marker] \in Folder /\ Empty \in Folder
        BY DEF Folder, Data, Empty
    <2> QED BY <1>6, <2>1 DEF Tree
<1>10. rows \in [listed -> Row({0} \cup LibraryIds)] /\ rows \in [listed -> Row(Nat)] /\ DOMAIN rows = listed
    BY <1>6, <1>8 DEF Row
<1>11. LibraryTypes
    <2>1. moving \in Seq(Moves(LibraryIds))
        BY <1>7
    <2>2. found.at = "start"
        BY <1>7
    <2>3. wiping \in [Titles -> SUBSET Paths]
        BY <1>7
    <2> QED BY <1>6, <1>7, <1>9, <1>10, <2>1, <2>2, <2>3 DEF LibraryTypes
<1>12. ASSUME NEW t \in Titles PROVE TitleTrue(t)
    <2>1. MovesOf(t) = {} /\ OneMove(t)
        BY <1>7 DEF MovesOf, OneMove
    <2>2. ASSUME t \in listed PROVE /\ rows[t].at = a /\ rows[t].exe \in {Nowhere, a} /\ folders[a][t].data = "whole"
        BY <1>6, <1>8, <2>2
    <2>3. RowTrue(t)
        BY <1>6, <1>7, <1>10, <2>2 DEF RowTrue
    <2>4. MovesTrue(t)
        BY <2>1 DEF MovesTrue
    <2>5. HomeTrue(t)
        BY <1>6, <1>7, <1>8, <1>10, <2>2 DEF HomeTrue, Whole
    <2>6. ScanTrue(t)
        BY <1>7 DEF ScanTrue
    <2> QED BY <2>3, <2>4, <2>5, <2>6 DEF TitleTrue
<1> QED BY <1>5, <1>11, <1>12 DEF LibraryInv

----------------------------------------------------------------------------
\* What drives come and go, the save and a scan that starts do to the titles.
LEMMA DrivesKeepTitles ==
    ASSUME LibraryTypes, \A t \in Titles : TitleTrue(t),
           UNCHANGED <<saved, folders, mounted, moving, wiping, found, owned>>,
           DOMAIN rows' = DOMAIN rows,
           \A t \in DOMAIN rows : rows'[t].at = rows[t].at /\ rows'[t].exe = rows[t].exe
    PROVE  \A t \in Titles : TitleTrue(t)'
<1> SUFFICES ASSUME NEW t \in Titles PROVE TitleTrue(t)'
    OBVIOUS
<1>1. OneMove(t)' /\ MovesOf(t)' = MovesOf(t) /\ (t \in DOMAIN saved' => saved'[t].exe \in {Nowhere, saved'[t].at})
    BY DEF TitleTrue, MovesTrue, RowTrue, MovesOf, OneMove
<1>2. Kept(t)
    BY <1>1 DEF Kept
<1> QED BY <1>2, TitleKept DEF TitleTrue

\* The rows that are saved are those of the memory.
LEMMA FlushTrue ==
    ASSUME LibraryTypes, \A t \in Titles : TitleTrue(t), Flush
    PROVE  \A t \in Titles : TitleTrue(t)'
<1> SUFFICES ASSUME NEW t \in Titles PROVE TitleTrue(t)'
    OBVIOUS
<1>1. /\ saved' = rows
      /\ UNCHANGED <<rows, folders, mounted, moving, wiping, found, owned>>
    BY DEF Flush
<1>2. OneMove(t)' /\ MovesOf(t)' = MovesOf(t)
    BY <1>1 DEF TitleTrue, MovesTrue, MovesOf, OneMove
<1>3. t \in DOMAIN saved' => saved'[t].exe \in {Nowhere, saved'[t].at}
    BY <1>1 DEF TitleTrue, RowTrue
<1>4. Kept(t)
    BY <1>1, <1>2, <1>3 DEF Kept
<1> QED BY <1>1, <1>4, TitleKept DEF TitleTrue

\* Every folder that has a title's marker is a candidate as long as the title has no row.
LEMMA Candidates ==
    ASSUME DrivesOK, LibraryTypes
    PROVE  /\ \A c \in DiscoverInstallCandidates : c.title \in Titles \ DOMAIN rows /\ c.at \in mounted
           /\ \A t \in Titles \ DOMAIN rows, d \in ToSet(drives) :
                 d.path \in mounted /\ folders[d.path][t] = WholeMarked
                    => \E c \in DiscoverInstallCandidates : c.title = t
<1>1. \A c \in DiscoverInstallCandidates : c.title \in Titles \ DOMAIN rows /\ c.at \in mounted
    BY DEF DiscoverInstallCandidates, Exists
<1>2. ASSUME NEW t \in Titles \ DOMAIN rows, NEW d \in ToSet(drives), d.path \in mounted,
             folders[d.path][t] = WholeMarked
      PROVE  \E c \in DiscoverInstallCandidates : c.title = t
    <2> DEFINE c == [title |-> t, lib |-> d.id, at |-> d.path]
    <2>1. d.id \in LibraryIds /\ d.path \in Paths
        BY DriveList DEF LibraryIds
    <2>2. PathOf(d.id) = d.path
        <3>1. \A e \in ToSet(drives) : e.id = d.id => e = d
            BY DriveList DEF DrivesOK
        <3>2. (CHOOSE e \in ToSet(drives) : e.id = d.id) = d
            BY <3>1
        <3> QED BY <2>1, <3>2 DEF PathOf
    <2>3. Exists(d.path, t) /\ folders[d.path][t].marked
        BY <1>2 DEF WholeMarked, Exists
    <2>4. c \in DiscoverInstallCandidates
        BY <2>1, <2>2, <2>3 DEF DiscoverInstallCandidates
    <2> QED BY <2>4
<1> QED BY <1>1, <1>2

\* What a scan that is allowed finds.
LEMMA ScanFinds ==
    ASSUME Slips = {}, DrivesOK, LibraryTypes, ScanAllowed
    PROVE  \A c \in DiscoverInstallCandidates :
               /\ c.title \in Titles \ DOMAIN rows /\ wiping[c.title] = {}
               /\ \A m \in MovesOf(c.title) : m.job
               /\ folders[c.at][c.title].data = "whole"
<1>1. NothingGoes /\ NothingTorn
    BY DEF ScanAllowed, Slip
<1> QED BY <1>1, Candidates DEF NothingGoes, NothingTorn, MovesOf

\* What the scan finds is whole and at home nowhere else.
LEMMA StartScanTrue ==
    ASSUME Slips = {}, DrivesOK, LibraryTypes, \A t \in Titles : TitleTrue(t), StartScan
    PROVE  \A t \in Titles : TitleTrue(t)'
<1> SUFFICES ASSUME NEW t \in Titles PROVE TitleTrue(t)'
    OBVIOUS
<1>1. /\ UNCHANGED <<rows, saved, folders, mounted, moving, wiping, owned>>
      /\ found'.at = "candidates" /\ found'.titles = DiscoverInstallCandidates
      /\ found'.over = {d.path : d \in ToSet(drives)} \cap mounted
      /\ ScanAllowed
    BY DEF StartScan
<1>2. OneMove(t)' /\ MovesOf(t)' = MovesOf(t) /\ (t \in DOMAIN saved' => saved'[t].exe \in {Nowhere, saved'[t].at})
    BY <1>1 DEF TitleTrue, MovesTrue, RowTrue, MovesOf, OneMove
<1>3. Kept(t)
    BY <1>1, <1>2 DEF Kept
<1>4. ScanTrue(t)'
    <2>1. \A c \in found'.titles : c.title = t =>
              /\ wiping'[t] = {} /\ \A m \in MovesOf(t)' : m.job
              /\ t \notin DOMAIN rows' => folders'[c.at][t].data = "whole"
        BY <1>1, <1>2, ScanFinds
    <2>2. ASSUME t \in owned' \ DOMAIN rows', NEW p \in found'.over, folders'[p][t] = WholeMarked
          PROVE  \E c \in found'.titles : c.title = t
        <3>1. PICK d \in ToSet(drives) : p = d.path /\ d.path \in mounted
            BY <1>1
        <3> QED BY <1>1, <2>2, <3>1, Candidates
    <2> QED BY <1>1, <2>1, <2>2 DEF ScanTrue, WholeMarked
<1> QED BY <1>3, <1>4, TitleKept DEF TitleTrue

----------------------------------------------------------------------------
\* The end of a scan: each candidate that has no row gets one where it is whole.
LEMMA ScanEndTrue ==
    ASSUME LibraryTypes, NEW t \in Titles, TitleTrue(t),
           NEW cs, cs \subseteq [title : Titles, lib : LibraryIds, at : mounted], ScanEnd(cs),
           \A c \in cs : c.title = t =>
               /\ wiping[t] = {} /\ \A m \in MovesOf(t) : m.job
               /\ t \notin DOMAIN rows => folders[c.at][t].data = "whole",
           UNCHANGED <<mounted, moving, wiping>>
    PROVE  /\ RowTrue(t)' /\ MovesTrue(t)' /\ HomeTrue(t)' /\ (found' = found => ScanTrue(t)')
           /\ t \notin DOMAIN rows' => /\ t \notin DOMAIN rows /\ \A p \in Paths : folders'[p][t] = folders[p][t]
                                       /\ t \in owned' => t \in owned /\ \A c \in cs : c.title # t
<1> USE DrivesAssumption
<1>0. OneMove(t)' /\ MovesOf(t)' = MovesOf(t) /\ mounted \subseteq Paths
    BY DEF TitleTrue, MovesTrue, MovesOf, OneMove, LibraryTypes
<1>1. t \in DOMAIN saved' => saved'[t].exe \in {Nowhere, saved'[t].at}
    BY DEF ScanEnd, TitleTrue, RowTrue
<1>2. CASE t \notin DOMAIN rows /\ \A c \in cs : c.title # t
    <2>1. t \notin DOMAIN rows' /\ (t \in owned' <=> t \in owned) /\ \A p \in Paths : folders'[p][t] = folders[p][t]
        BY <1>2 DEF ScanEnd
    <2>2. Kept(t)
        BY <1>0, <1>1, <1>2, <2>1 DEF Kept
    <2> QED BY <1>2, <2>1, <2>2, TitleKept
<1>3. CASE t \in DOMAIN rows
    <2>1. /\ t \in DOMAIN rows' /\ rows'[t] = rows[t] /\ (t \in owned' <=> t \in owned)
          /\ \A p \in Paths : folders'[p][t].data = folders[p][t].data
        BY <1>3 DEF ScanEnd
    <2>2. RowTrue(t)'
        BY <1>1, <1>3, <2>1 DEF TitleTrue, RowTrue
    <2>3. \A p : (Whole(p, t)' <=> Whole(p, t)) /\ (Exists(p, t)' <=> Exists(p, t))
        BY <1>0, <2>1 DEF Whole, Exists
    <2>4. ASSUME NEW m \in MovesOf(t), Carried(t, m) PROVE Carried(t, m)'
        <3>1. m.from \in Paths /\ m.to \in Paths
            BY MoveTyped
        <3>2. folders'[m.from][t].data = folders[m.from][t].data /\ folders'[m.to][t].data = folders[m.to][t].data
            BY <2>1, <3>1
        <3> QED BY <2>1, <2>3, <2>4, <3>1, <3>2 DEF Carried
    <2>5. MovesTrue(t)'
        BY <1>0, <1>3, <2>1, <2>4 DEF TitleTrue, MovesTrue
    <2>6. HomeTrue(t)'
        BY <1>0, <1>3, <2>1, <2>3 DEF TitleTrue, HomeTrue
    <2>7. found' = found => ScanTrue(t)'
        BY <1>0, <1>3, <2>1 DEF TitleTrue, ScanTrue
    <2> QED BY <2>1, <2>2, <2>5, <2>6, <2>7
<1>4. CASE t \notin DOMAIN rows /\ \E c \in cs : c.title = t
    <2>1. t \in DOMAIN rows' \ DOMAIN rows
        BY <1>4 DEF ScanEnd
    <2>2. PICK c \in cs : c.title = t /\ rows'[t] = [lib |-> c.lib, at |-> c.at, exe |-> c.at]
        BY <2>1 DEF ScanEnd
    <2>3. c.at \in mounted /\ c.at \in Paths /\ folders[c.at][t].data = "whole" /\ wiping[t] = {}
        BY <1>0, <1>4, <2>2
    <2>4. rows'[t].at = c.at /\ rows'[t].exe = c.at
        BY <2>2
    <2>5. t \in owned'
        BY <2>1, <2>3, <2>4 DEF ScanEnd
    <2>6. MovesOf(t)' = {}
        BY <1>0, <1>4, <2>2 DEF TitleTrue, MovesTrue
    <2>7. Whole(rows[t].at, t)'
        BY <2>3, <2>4 DEF Whole, ScanEnd
    <2>8. RowTrue(t)'
        BY <1>1, <2>1, <2>3, <2>4, <2>5 DEF RowTrue
    <2>9. MovesTrue(t)' /\ HomeTrue(t)'
        BY <1>0, <2>1, <2>6, <2>7 DEF MovesTrue, HomeTrue
    <2>10. found' = found => ScanTrue(t)'
        BY <2>1, <2>3, <2>6 DEF ScanTrue
    <2> QED BY <2>1, <2>8, <2>9, <2>10
<1> QED BY <1>2, <1>3, <1>4

\* The end of the scan that ran in a worker keeps every title true.
LEMMA EndScanTrue ==
    ASSUME DrivesOK, LibraryTypes, \A t \in Titles : TitleTrue(t), EndScan
    PROVE  \A t \in Titles : TitleTrue(t)'
<1> DEFINE cs == found.titles
<1>1. found.at = "candidates" /\ cs \subseteq [title : Titles, lib : LibraryIds, at : mounted] /\ found.over \subseteq Paths
    BY DEF EndScan, LibraryTypes
<1>2. CommitScanCandidates(cs) /\ UNCHANGED <<mounted, moving, wiping>> /\ found' = [at |-> "done", over |-> found.over]
    BY DEF EndScan
<1>3. ScanEnd(cs)
    BY <1>1, <1>2, CommitScanFacts
<1> SUFFICES ASSUME NEW t \in Titles PROVE TitleTrue(t)'
    OBVIOUS
<1>4. TitleTrue(t)
    OBVIOUS
<1>5. \A c \in cs : c.title = t =>
               /\ wiping[t] = {} /\ \A m \in MovesOf(t) : m.job
               /\ t \notin DOMAIN rows => folders[c.at][t].data = "whole"
    BY <1>1, <1>4 DEF TitleTrue, ScanTrue
<1> HIDE DEF cs
<1>6. /\ RowTrue(t)' /\ MovesTrue(t)' /\ HomeTrue(t)'
      /\ t \notin DOMAIN rows' => /\ t \notin DOMAIN rows /\ \A p \in Paths : folders'[p][t] = folders[p][t]
                                  /\ t \in owned' => t \in owned /\ \A c \in cs : c.title # t
    BY <1>1, <1>2, <1>3, <1>4, <1>5, ScanEndTrue
<1>7. ScanTrue(t)'
    <2>1. found'.at = "done" /\ found'.over = found.over
        BY <1>2
    <2>2. ASSUME t \in owned' \ DOMAIN rows', NEW p \in found.over PROVE folders'[p][t] # WholeMarked
        <3>1. t \in owned \ DOMAIN rows /\ folders'[p][t] = folders[p][t] /\ \A c \in found.titles : c.title # t
            BY <1>1, <1>6, <2>2 DEF cs
        <3> QED BY <1>1, <1>4, <2>2, <3>1 DEF TitleTrue, ScanTrue
    <2> QED BY <2>1, <2>2 DEF ScanTrue, WholeMarked
<1> QED BY <1>6, <1>7 DEF TitleTrue

\* A scan on the UI thread keeps every title true.
LEMMA ScanNowTrue ==
    ASSUME Slips = {}, DrivesOK, LibraryTypes, \A t \in Titles : TitleTrue(t), ScanInstalledGames
    PROVE  \A t \in Titles : TitleTrue(t)'
<1> DEFINE cs == DiscoverInstallCandidates
<1>1. cs \subseteq [title : Titles, lib : LibraryIds, at : mounted]
    BY DEF DiscoverInstallCandidates, Exists
<1>2. CommitScanCandidates(cs) /\ UNCHANGED <<mounted, moving, wiping, found>> /\ ScanAllowed
    BY DEF ScanInstalledGames
<1>3. ScanEnd(cs)
    BY <1>1, <1>2, CommitScanFacts
<1> SUFFICES ASSUME NEW t \in Titles PROVE TitleTrue(t)'
    OBVIOUS
<1>4. \A c \in cs : c.title = t =>
               /\ wiping[t] = {} /\ \A m \in MovesOf(t) : m.job
               /\ t \notin DOMAIN rows => folders[c.at][t].data = "whole"
    BY <1>2, ScanFinds
<1> HIDE DEF cs
<1> QED BY <1>1, <1>2, <1>3, <1>4, ScanEndTrue DEF TitleTrue

----------------------------------------------------------------------------
\* What the user does with one title: the others keep what is true of them.
LEMMA EnsureTrue ==
    ASSUME Slips = {}, LibraryTypes, \A u \in Titles : TitleTrue(u),
           NEW t \in Titles, NEW lib \in LibraryIds, EnsureLibraryPlaceholder(t, lib)
    PROVE  \A u \in Titles : TitleTrue(u)'
<1> DEFINE row == [lib |-> lib, at |-> Nowhere, exe |-> IF t \in DOMAIN rows THEN rows[t].exe ELSE Nowhere]
<1>1. /\ Put(t, row) /\ owned' = owned \ {t}
      /\ UNCHANGED <<saved, folders, mounted, moving, wiping, found>>
      /\ t \in DOMAIN rows => ~Exists(rows[t].at, t)
      /\ wiping[t] = {} /\ \A k \in DOMAIN moving : moving[k].title # t
    BY DEF EnsureLibraryPlaceholder, Slip
<1>2. /\ DOMAIN rows' = DOMAIN rows \cup {t} /\ rows'[t].exe = row.exe
      /\ \A u \in DOMAIN rows \ {t} : rows'[u] = rows[u]
    BY <1>1 DEF Put
<1>3. ASSUME NEW u \in Titles
      PROVE  /\ OneMove(u)' /\ MovesOf(u)' = MovesOf(u)
             /\ u \in DOMAIN saved' => saved'[u].exe \in {Nowhere, saved'[u].at}
    BY <1>1 DEF TitleTrue, MovesTrue, RowTrue, MovesOf, OneMove
<1>4. ASSUME NEW u \in Titles, u # t PROVE TitleTrue(u)'
    <2>1. Kept(u)
        BY <1>1, <1>2, <1>3, <1>4 DEF Kept
    <2> QED BY <1>1, <2>1, TitleKept DEF TitleTrue
<1>5. TitleTrue(t)'
    <2>1. MovesOf(t)' = {} /\ (t \in DOMAIN rows => t \notin owned)
        BY <1>1, <1>3, TitleFacts
    <2>2. rows'[t].exe = Nowhere
        BY <1>2, <2>1 DEF TitleTrue, RowTrue
    <2>3. t \in DOMAIN rows' /\ t \notin owned' /\ wiping'[t] = {}
        BY <1>1, <1>2
    <2>4. RowTrue(t)' /\ MovesTrue(t)' /\ HomeTrue(t)' /\ ScanTrue(t)'
        BY <1>3, <2>1, <2>2, <2>3 DEF RowTrue, MovesTrue, HomeTrue, ScanTrue
    <2> QED BY <2>4 DEF TitleTrue
<1> QED BY <1>4, <1>5

\* An installer that has ended leaves its game at home.
LEMMA CommitTrue ==
    ASSUME Slips = {}, DrivesOK, LibraryTypes, \A u \in Titles : TitleTrue(u),
           NEW t \in Titles, NEW lib \in LibraryIds, CommitInstalledGame(t, lib)
    PROVE  \A u \in Titles : TitleTrue(u)'
<1> DEFINE p == PathOf(lib)
<1>1. PICK exe \in {Nowhere, p} :
      /\ Put(t, [lib |-> lib, at |-> p, exe |-> exe])
      /\ t \in DOMAIN rows /\ p \in mounted /\ p \in Paths
      /\ folders' = At(p, t, WholeMarked) /\ owned' = owned \cup {t}
      /\ UNCHANGED <<saved, mounted, moving, wiping, found>>
      /\ \A k \in DOMAIN moving : moving[k].title # t
    BY DriveFacts DEF CommitInstalledGame, Slip, WholeMarked
<1> HIDE DEF p
<1>2. /\ DOMAIN rows' = DOMAIN rows /\ rows'[t].exe = exe /\ rows'[t].at = p
      /\ \A u \in DOMAIN rows \ {t} : rows'[u] = rows[u]
    BY <1>1 DEF Put
<1>3. WholeMarked \in Folder /\ folders \in Tree
    BY DEF WholeMarked, Folder, Data, LibraryTypes
<1>4. \A q \in Paths, u \in Titles : folders'[q][u] = IF q = p /\ u = t THEN WholeMarked ELSE folders[q][u]
    BY <1>1, <1>3, TreeFacts DEF At
<1>5. ASSUME NEW u \in Titles
      PROVE  /\ OneMove(u)' /\ MovesOf(u)' = MovesOf(u)
             /\ u \in DOMAIN saved' => saved'[u].exe \in {Nowhere, saved'[u].at}
    BY <1>1 DEF TitleTrue, MovesTrue, RowTrue, MovesOf, OneMove
<1>6. ASSUME NEW u \in Titles, u # t PROVE TitleTrue(u)'
    <2>1. Kept(u)
        BY <1>1, <1>2, <1>4, <1>5, <1>6 DEF Kept
    <2> QED BY <1>1, <2>1, TitleKept DEF TitleTrue
<1>7. TitleTrue(t)'
    <2>1. MovesOf(t)' = {} /\ wiping'[t] = {}
        BY <1>1, <1>5, TitleFacts
    <2>2. t \in DOMAIN rows' /\ t \in owned'
        BY <1>1, <1>2
    <2>3. Whole(rows[t].at, t)'
        BY <1>1, <1>2, <1>4 DEF Whole, WholeMarked
    <2>4. RowTrue(t)' /\ MovesTrue(t)' /\ HomeTrue(t)' /\ ScanTrue(t)'
        BY <1>1, <1>2, <1>5, <2>1, <2>2, <2>3 DEF RowTrue, MovesTrue, HomeTrue, ScanTrue
    <2> QED BY <2>4 DEF TitleTrue
<1> QED BY <1>6, <1>7

\* A click on "move" touches no file.
LEMMA MoveGameTrue ==
    ASSUME DrivesOK, LibraryTypes, \A u \in Titles : TitleTrue(u),
           NEW t \in Titles, NEW lib \in LibraryIds, MoveGame(t, lib)
    PROVE  \A u \in Titles : TitleTrue(u)'
<1> USE DrivesAssumption
<1>1. MoveCase(t, lib)
    BY MoveFacts
<1>2. /\ t \in DOMAIN rows /\ UNCHANGED <<saved, folders, mounted, wiping, found, owned>>
      /\ MovesOf(t) = {} /\ moving \in Seq(Moves(LibraryIds))
    BY <1>1, TitleFacts DEF MoveCase, LibraryTypes
<1>3. \A u \in Titles : /\ OneMove(u)
                        /\ u \in DOMAIN saved' => saved'[u].exe \in {Nowhere, saved'[u].at}
    BY <1>2 DEF TitleTrue, RowTrue, MovesTrue
<1>4. CASE ~Exists(rows[t].at, t) /\ UNCHANGED moving /\ FinalizeMovedGame(t, lib, PathOf(DriveOf(rows[t])), PathOf(lib))
    <2> DEFINE from == PathOf(DriveOf(rows[t]))
               to == PathOf(lib)
               libs == {0} \cup LibraryIds
    <2>1. from \in Paths /\ to \in Paths /\ rows \in [DOMAIN rows -> Row(libs)] /\ DOMAIN rows \subseteq Titles
        BY <1>2, RowTyped, DriveFacts DEF LibraryTypes
    <2>2. lib \in libs /\ FinalizeMovedGame(t, lib, from, to)
        BY <1>4
    <2> HIDE DEF from, to, libs
    <2>3. /\ DOMAIN rows' = DOMAIN rows /\ \A u \in DOMAIN rows \ {t} : rows'[u] = rows[u]
          /\ rows'[t] = MovedRow(rows[t], lib, from, to, Exists(Relocated(rows[t].at, from, to), t))
        BY ONLY <1>2, <2>1, <2>2, FinalizeFacts, t \in Titles
    <2>4. \A u \in Titles : OneMove(u)' /\ MovesOf(u)' = MovesOf(u)
        BY <1>2, <1>3, <1>4, MovesOfFacts
    <2>5. ASSUME NEW u \in Titles, u # t PROVE TitleTrue(u)'
        <3>1. Kept(u)
            BY <1>2, <1>3, <2>3, <2>4, <2>5 DEF Kept
        <3> QED BY <1>2, <3>1, TitleKept DEF TitleTrue
    <2>6. TitleTrue(t)'
        <3>1. t \notin owned /\ wiping[t] = {}
            BY <1>2, <1>4, TitleFacts
        <3>2. rows[t].exe = Nowhere
            BY <1>2, <3>1 DEF TitleTrue, RowTrue
        <3>3. rows'[t].exe = Nowhere
            BY <2>1, <2>3, <3>2 DEF MovedRow, Relocated
        <3>4. RowTrue(t)' /\ MovesTrue(t)' /\ HomeTrue(t)' /\ ScanTrue(t)'
            BY <1>2, <1>3, <2>3, <2>4, <3>1, <3>3 DEF RowTrue, MovesTrue, HomeTrue, ScanTrue
        <3> QED BY <3>4 DEF TitleTrue
    <2> QED BY <2>5, <2>6
<1>5. CASE /\ Exists(From(t), t) /\ UNCHANGED rows
           /\ moving' = Append(moving, NewMove(t, lib)) /\ NewMove(t, lib) \in Moves(LibraryIds)
    <2>0. PICK m \in Moves(LibraryIds) : m = NewMove(t, lib)
        BY <1>5
    <2>1. m.title = t /\ m.step = "queued" /\ m.job = TRUE /\ Exists(m.from, t)
        BY <1>5, <2>0 DEF NewMove
    <2>2. \A u \in Titles : OneMove(u)' /\ MovesOf(u)' = IF u = t THEN {m} ELSE MovesOf(u)
        BY <1>2, <1>3, <1>5, <2>0, <2>1, MoveAdded
    <2>3. ASSUME NEW u \in Titles, u # t PROVE TitleTrue(u)'
        <3>1. Kept(u)
            BY <1>2, <1>3, <1>5, <2>2, <2>3 DEF Kept
        <3> QED BY <1>2, <3>1, TitleKept DEF TitleTrue
    <2>4. TitleTrue(t)'
        <3>1. t \in owned => Whole(rows[t].at, t)
            BY <1>2, TitleFacts
        <3>2. t \in owned => Carried(t, m)'
            BY <1>2, <1>5, <2>1, <3>1 DEF Carried, Whole, Exists
        <3>3. wiping[t] = {} /\ RowTrue(t)'
            BY <1>2, <1>3, <1>5, TitleFacts DEF TitleTrue, RowTrue
        <3>4. MovesTrue(t)'
            BY <1>2, <1>5, <2>1, <2>2, <3>2 DEF MovesTrue
        <3>5. HomeTrue(t)' /\ ScanTrue(t)'
            BY <1>2, <1>5, <2>1, <2>2, <3>3 DEF HomeTrue, ScanTrue
        <3> QED BY <3>3, <3>4, <3>5 DEF TitleTrue
    <2> QED BY <2>3, <2>4
<1> QED BY <1>1, <1>4, <1>5 DEF MoveCase

\* A game that is removed has no row and is nobody's before it is wiped.
LEMMA RemoveGameTrue ==
    ASSUME Slips = {}, DrivesOK, LibraryTypes, \A u \in Titles : TitleTrue(u), NEW t \in Titles, RemoveGame(t)
    PROVE  \A u \in Titles : TitleTrue(u)'
<1> DEFINE gone == {PathOf(DriveOf(rows[t])), rows[t].at} \ {Nowhere}
<1>1. /\ UNCHANGED <<saved, folders, mounted, found>>
      /\ found.at = "candidates" => \A c \in found.titles : c.title # t
      /\ wiping' = [wiping EXCEPT ![t] = @ \cup gone]
      /\ rows' = [u \in DOMAIN rows \ {t} |-> rows[u]]
      /\ owned' = owned \ {t}
    BY DEF RemoveGame, Slip
<1>2. wiping \in [Titles -> SUBSET Paths] /\ moving \in Seq(Moves(LibraryIds))
    BY DEF LibraryTypes
<1>3. /\ \A u \in Titles : OneMove(u) => OneMove(u)'
      /\ \A u \in Titles : u # t => MovesOf(u)' = MovesOf(u)
      /\ \A m \in MovesOf(t)' : m.job = FALSE
    BY <1>2, JobsGone DEF RemoveGame
<1>4. \A u \in Titles : /\ OneMove(u)'
                        /\ u \in DOMAIN saved' => saved'[u].exe \in {Nowhere, saved'[u].at}
    BY <1>1, <1>3 DEF TitleTrue, RowTrue, MovesTrue
<1> HIDE DEF gone
<1>5. ASSUME NEW u \in Titles, u # t PROVE TitleTrue(u)'
    <2>1. wiping'[u] = wiping[u] /\ (u \in owned' <=> u \in owned)
        BY <1>1, <1>2, <1>5
    <2>2. (u \in DOMAIN rows' <=> u \in DOMAIN rows) /\ (u \in DOMAIN rows => rows'[u] = rows[u])
        BY <1>1, <1>5
    <2>3. Kept(u)
        BY <1>1, <1>3, <1>4, <1>5, <2>1, <2>2 DEF Kept
    <2> QED BY <1>1, <2>3, TitleKept DEF TitleTrue
<1>6. TitleTrue(t)'
    <2>1. t \notin DOMAIN rows' /\ t \notin owned'
        BY <1>1
    <2>2. RowTrue(t)' /\ MovesTrue(t)' /\ HomeTrue(t)' /\ ScanTrue(t)'
        BY <1>1, <1>3, <1>4, <2>1 DEF RowTrue, MovesTrue, HomeTrue, ScanTrue
    <2> QED BY <2>2 DEF TitleTrue
<1> QED BY <1>5, <1>6

\* What is wiped is nobody's game.
LEMMA WipeTrue ==
    ASSUME Slips = {}, LibraryTypes, \A u \in Titles : TitleTrue(u), NEW t \in Titles, Wipe(t)
    PROVE  \A u \in Titles : TitleTrue(u)'
<1>1. PICK p \in wiping[t] :
         /\ wiping' = [wiping EXCEPT ![t] = @ \ {p}]
         /\ folders' = IF p \in mounted THEN At(p, t, Empty) ELSE folders
         /\ UNCHANGED <<rows, saved, mounted, moving, found, owned>>
    BY DEF Wipe, Slip
<1>2. wiping \in [Titles -> SUBSET Paths] /\ moving \in Seq(Moves(LibraryIds)) /\ folders \in Tree
    BY DEF LibraryTypes
<1>3. \A q \in Paths, u \in Titles : u # t => folders'[q][u] = folders[q][u]
    <2>1. Empty \in Folder /\ p \in Paths
        BY <1>1, <1>2 DEF Empty, Folder, Data
    <2>2. CASE p \in mounted
        <3>1. folders' = [folders EXCEPT ![p][t] = Empty]
            BY <1>1, <2>2 DEF At
        <3> QED BY <1>2, <2>1, <3>1, TreeFacts
    <2> QED BY <1>1, <2>2
<1>4. \A u \in Titles : /\ OneMove(u)' /\ MovesOf(u)' = MovesOf(u)
                        /\ u \in DOMAIN saved' => saved'[u].exe \in {Nowhere, saved'[u].at}
    BY <1>1, <1>2, MovesOfFacts DEF TitleTrue, RowTrue, MovesTrue
<1>5. ASSUME NEW u \in Titles, u # t PROVE TitleTrue(u)'
    <2>1. wiping'[u] = wiping[u]
        BY <1>1, <1>2, <1>5
    <2>2. Kept(u)
        BY <1>1, <1>3, <1>4, <1>5, <2>1 DEF Kept
    <2> QED BY <1>1, <2>2, TitleKept DEF TitleTrue
<1>6. TitleTrue(t)'
    <2>1. wiping[t] # {} /\ t \notin DOMAIN rows /\ t \notin owned
        BY <1>1 DEF TitleTrue, RowTrue
    <2>2. MovesTrue(t)' /\ HomeTrue(t)' /\ RowTrue(t)'
        BY <1>1, <1>4, <2>1 DEF TitleTrue, MovesTrue, HomeTrue, RowTrue
    <2>3. ScanTrue(t)'
        BY <1>1, <2>1 DEF TitleTrue, ScanTrue
    <2> QED BY <2>2, <2>3 DEF TitleTrue
<1> QED BY <1>5, <1>6

----------------------------------------------------------------------------
\* One folder is written, or what is in it changes.
Written(f, g, p, t, x) == g = [f EXCEPT ![p][t] = x]
Filled(f, g, p, t, d) == g = [f EXCEPT ![p][t].data = d]
\* One folder is written, every other one stays.
LEMMA WrittenFacts ==
    ASSUME NEW f \in Tree, NEW p \in Paths, NEW t \in Titles, NEW x \in Folder, NEW g, Written(f, g, p, t, x)
    PROVE  /\ g \in Tree /\ g[p][t] = x
           /\ \A q \in Paths, u \in Titles : q # p \/ u # t => g[q][u] = f[q][u]
BY DEF Written, Tree

\* Other data in one folder: its marker and every other folder stay.
LEMMA FilledFacts ==
    ASSUME NEW f \in Tree, NEW p \in Paths, NEW t \in Titles, NEW d \in Data, NEW g, Filled(f, g, p, t, d)
    PROVE  /\ g \in Tree /\ g[p][t].data = d
           /\ \A q \in Paths, u \in Titles : q # p \/ u # t => g[q][u] = f[q][u]
<1>1. g \in Tree /\ \A q \in Paths, u \in Titles : q # p \/ u # t => g[q][u] = f[q][u]
    <2>1. [f EXCEPT ![p][t].data = d] \in Tree
        BY ONLY f \in Tree, p \in Paths, t \in Titles, d \in Data, TreeFacts
    <2>2. g = [f EXCEPT ![p][t].data = d]
        BY DEF Filled
    <2>3. \A q \in Paths, u \in Titles : q # p \/ u # t => g[q][u] = f[q][u]
        BY DEF Filled, Tree
    <2> QED BY ONLY <2>1, <2>2, <2>3, Zenon
<1>2. g[p][t].data = d
    BY DEF Filled, Tree, Folder
<1> QED BY <1>1, <1>2

----------------------------------------------------------------------------
\* A move that gets a step, and perhaps what it found in its way, stays the same move.
SameMove(m, n) == n.title = m.title /\ n.from = m.from /\ n.to = m.to /\ n.job = m.job
\* The worker that takes a step says so in its own move, and in no other.
LEMMA StepFacts ==
    ASSUME NEW libs, moving \in Seq(Moves(libs)), NEW k \in DOMAIN moving, NEW step \in Steps,
           Becomes(k, step)
    PROVE  \E n \in Moves(libs) : /\ SameMove(moving[k], n) /\ n.step = step /\ n.over = moving[k].over
                                  /\ moving' = [moving EXCEPT ![k] = n]
<1>1. \A m \in Moves(libs) : LET n == [m EXCEPT !.step = step] IN
          n \in Moves(libs) /\ SameMove(m, n) /\ n.step = step /\ n.over = m.over
    BY DEF Moves, SameMove
<1>2. moving[k] \in Moves(libs) /\ DOMAIN moving = 1..Len(moving)
    BY MovesFacts
<1>3. moving' = [moving EXCEPT ![k] = [moving[k] EXCEPT !.step = step]]
    BY <1>2 DEF Becomes
<1> QED BY <1>1, <1>2, <1>3

Copying(k, over) == moving' = [moving EXCEPT ![k].step = "copying", ![k].over = over]
\* The worker that begins to copy says so in its own move, and in no other.
LEMMA CopyFacts ==
    ASSUME NEW libs, moving \in Seq(Moves(libs)), NEW k \in DOMAIN moving, NEW over \in Data,
           Copying(k, over)
    PROVE  \E n \in Moves(libs) : /\ SameMove(moving[k], n) /\ n.step = "copying" /\ n.over = over
                                  /\ moving' = [moving EXCEPT ![k] = n]
<1>1. \A m \in Moves(libs) : LET n == [m EXCEPT !.step = "copying", !.over = over] IN
          n \in Moves(libs) /\ SameMove(m, n) /\ n.step = "copying" /\ n.over = over
    BY DEF Moves, SameMove, Steps
<1>2. moving[k] \in Moves(libs) /\ DOMAIN moving = 1..Len(moving)
    BY MovesFacts
<1>3. moving' = [moving EXCEPT ![k] = [moving[k] EXCEPT !.step = "copying", !.over = over]]
    BY <1>2 DEF Copying
<1> QED BY <1>1, <1>2, <1>3

\* What the worker does to one move: the other titles keep what is true of
\* them, and the title of the move too when the move goes on carrying it.
LEMMA WorkerTrue ==
    ASSUME LibraryTypes, \A u \in Titles : TitleTrue(u),
           NEW k \in DOMAIN moving, NEW t \in Titles, NEW m, NEW n \in Moves(LibraryIds),
           m = moving[k], m.title = t, SameMove(m, n), moving' = [moving EXCEPT ![k] = n], WorkerStep,
           \A p \in Paths, u \in Titles : u # t => folders'[p][u] = folders[p][u],
           t \in owned /\ t \in DOMAIN rows /\ Carried(t, m) => Carried(t, n)'
    PROVE  \A u \in Titles : TitleTrue(u)'
<1>1. UNCHANGED <<rows, saved, mounted, wiping, found, owned>>
    BY DEF WorkerStep
<1>2. moving \in Seq(Moves(LibraryIds)) /\ n.title = t /\ n.job = m.job /\ n.title = moving[k].title
    BY DEF LibraryTypes, SameMove
<1>3. \A u \in Titles : OneMove(u)
    BY DEF TitleTrue, MovesTrue
<1>4. \A u \in Titles : OneMove(u)' /\ MovesOf(u)' = IF u = t THEN {n} ELSE MovesOf(u)
    <2>1. ASSUME NEW u \in Titles PROVE OneMove(u)' /\ MovesOf(u)' = IF u = n.title THEN {n} ELSE MovesOf(u)
        <3>1. OneMove(u)
            BY <1>3
        <3> QED BY <1>2, <3>1, MoveChanges
    <2> QED BY <1>2, <2>1
<1>5. MovesOf(t) = {m}
    BY <1>2, <1>3, MovesOfFacts
<1>6. \A u \in Titles : u \in DOMAIN saved' => saved'[u].exe \in {Nowhere, saved'[u].at}
    BY <1>1 DEF TitleTrue, RowTrue
<1>7. ASSUME NEW u \in Titles, u # t PROVE TitleTrue(u)'
    <2>1. Kept(u)
        BY <1>1, <1>4, <1>6, <1>7 DEF Kept
    <2> QED BY <1>1, <2>1, TitleKept DEF TitleTrue
<1>8. TitleTrue(t)'
    <2>1. (m.job <=> t \in DOMAIN rows) /\ (t \in owned => t \in DOMAIN rows /\ Carried(t, m))
        BY <1>5 DEF TitleTrue, MovesTrue
    <2>2. RowTrue(t)'
        BY <1>1, <1>6 DEF TitleTrue, RowTrue
    <2>3. MovesTrue(t)'
        BY <1>1, <1>2, <1>4, <2>1 DEF MovesTrue
    <2>4. HomeTrue(t)'
        BY <1>1, <1>4, <2>1 DEF HomeTrue
    <2>5. ScanTrue(t)'
        BY <1>1, <1>2, <1>4, <1>5, <2>1 DEF TitleTrue, ScanTrue
    <2> QED BY <2>2, <2>3, <2>4, <2>5 DEF TitleTrue
<1> QED BY <1>7, <1>8

\* A move in its parts: the title, and the places it goes from and to.
LEMMA MoveOf ==
    ASSUME LibraryTypes, NEW k \in DOMAIN moving
    PROVE  /\ moving[k].title \in Titles /\ moving[k].from \in mounted /\ moving[k].to \in mounted
           /\ moving[k].from \in Paths /\ moving[k].to \in Paths /\ moving[k].over \in Data
           /\ folders \in Tree /\ moving \in Seq(Moves(LibraryIds))
           /\ \A p \in Paths, u \in Titles : folders[p][u] \in Folder /\ folders[p][u].data \in Data
<1>1. moving \in Seq(Moves(LibraryIds)) /\ mounted \subseteq Paths /\ folders \in Tree
    BY DEF LibraryTypes
<1>2. \A p \in Paths, u \in Titles : folders[p][u] \in Folder /\ folders[p][u].data \in Data
    BY <1>1 DEF Tree, Folder
<1> QED BY <1>1, <1>2, MovesFacts

\* The copy ends, and the parts of a folder that was whole are there.
LEMMA EndCopyTrue ==
    ASSUME LibraryTypes, \A u \in Titles : TitleTrue(u), NEW k \in DOMAIN moving, EndCopy(k)
    PROVE  \A u \in Titles : TitleTrue(u)'
<1>1. PICK m, t, d : /\ m = moving[k] /\ t = m.title
                     /\ d = IF "whole" \in {folders[m.from][t].data, m.over} THEN "whole" ELSE "part"
    OBVIOUS
<1>2. /\ m.step = "copying" /\ Filled(folders, folders', m.to, t, d)
      /\ Becomes(k, "copied") /\ WorkerStep /\ mounted' = mounted /\ rows' = rows
    BY <1>1 DEF EndCopy, WorkerStep, Filled
<1>3. t \in Titles /\ m.from \in Paths /\ m.to \in Paths /\ d \in Data /\ folders \in Tree
    BY <1>1, MoveOf DEF Data
<1>4. /\ \A p \in Paths, u \in Titles : p # m.to \/ u # t => folders'[p][u] = folders[p][u]
      /\ folders'[m.to][t].data = d
    BY <1>2, <1>3, FilledFacts
<1>5. PICK n \in Moves(LibraryIds) : /\ SameMove(m, n) /\ n.step = "copied" /\ n.over = m.over
                                     /\ moving' = [moving EXCEPT ![k] = n]
    <2>1. "copied" \in Steps /\ moving \in Seq(Moves(LibraryIds))
        BY MoveOf DEF Steps
    <2> QED BY <1>1, <1>2, <2>1, StepFacts
<1>6. ASSUME t \in DOMAIN rows, Carried(t, m) PROVE Carried(t, n)'
    <2>1. /\ Whole(rows[t].at, t) /\ Exists(m.from, t) /\ m.from # m.to
          /\ m.to = rows[t].at => m.over = "whole"
        BY <1>2, <1>6 DEF Carried
    <2>2. mounted \subseteq Paths
        BY DEF LibraryTypes
    <2>3. Whole(rows[t].at, t)' /\ Exists(m.from, t)'
        BY <1>1, <1>2, <1>3, <1>4, <2>1, <2>2 DEF Whole, Exists
    <2>4. m.from = rows[t].at => folders'[m.to][t].data = "whole"
        BY <1>1, <1>4, <2>1 DEF Whole
    <2> QED BY <1>2, <1>5, <2>1, <2>3, <2>4 DEF Carried, SameMove
<1>7. \A p \in Paths, u \in Titles : u # t => folders'[p][u] = folders[p][u]
    BY <1>4
<1> QED BY <1>1, <1>2, <1>3, <1>5, <1>6, <1>7, WorkerTrue

\* The copy fails: what was in its way, which was not the game, is removed.
LEMMA FailCopyTrue ==
    ASSUME Slips = {}, LibraryTypes, \A u \in Titles : TitleTrue(u), NEW k \in DOMAIN moving, FailCopy(k)
    PROVE  \A u \in Titles : TitleTrue(u)'
<1>1. PICK m, t : m = moving[k] /\ t = m.title
    OBVIOUS
<1>2. /\ m.step = "copying" /\ Written(folders, folders', m.to, t, Empty)
      /\ m.over # "whole" \/ ~Exists(m.from, t)
      /\ Becomes(k, "failed") /\ WorkerStep /\ mounted' = mounted /\ rows' = rows
    BY <1>1 DEF FailCopy, WorkerStep, Slip, At, Written
<1>3. t \in Titles /\ m.to \in Paths /\ folders \in Tree /\ Empty \in Folder
    BY <1>1, MoveOf DEF Empty, Folder, Data
<1>4. \A p \in Paths, u \in Titles : p # m.to \/ u # t => folders'[p][u] = folders[p][u]
    BY <1>2, <1>3, WrittenFacts
<1>5. PICK n \in Moves(LibraryIds) : /\ SameMove(m, n) /\ n.step = "failed" /\ n.over = m.over
                                     /\ moving' = [moving EXCEPT ![k] = n]
    <2>1. "failed" \in Steps /\ moving \in Seq(Moves(LibraryIds))
        BY MoveOf DEF Steps
    <2> QED BY <1>1, <1>2, <2>1, StepFacts
<1>6. ASSUME t \in DOMAIN rows, Carried(t, m) PROVE Carried(t, n)'
    <2>1. Whole(rows[t].at, t) /\ m.to # rows[t].at
        BY <1>2, <1>6 DEF Carried
    <2>2. mounted \subseteq Paths
        BY DEF LibraryTypes
    <2>3. Whole(rows[t].at, t)'
        BY <1>2, <1>3, <1>4, <2>1, <2>2 DEF Whole
    <2> QED BY <1>5, <2>3 DEF Carried
<1>7. \A p \in Paths, u \in Titles : u # t => folders'[p][u] = folders[p][u]
    BY <1>4
<1> QED BY <1>1, <1>2, <1>3, <1>5, <1>6, <1>7, WorkerTrue

\* The source is removed when all of it has arrived, or the game is elsewhere.
LEMMA RemoveSourceTrue ==
    ASSUME Slips = {}, LibraryTypes, \A u \in Titles : TitleTrue(u), NEW k \in DOMAIN moving, RemoveSource(k)
    PROVE  \A u \in Titles : TitleTrue(u)'
<1>1. PICK m, t : m = moving[k] /\ t = m.title
    OBVIOUS
<1>2. /\ m.step = "copied" /\ Written(folders, folders', m.from, t, Empty)
      /\ Becomes(k, "done") /\ WorkerStep /\ mounted' = mounted /\ rows' = rows
    BY <1>1 DEF RemoveSource, WorkerStep, Slip, At, Written
<1>3. /\ t \in Titles /\ m.from \in Paths /\ m.to \in Paths /\ m.to \in mounted
      /\ folders \in Tree /\ Empty \in Folder /\ mounted \subseteq Paths
    BY <1>1, MoveOf DEF Empty, Folder, Data, LibraryTypes
<1>4. /\ \A p \in Paths, u \in Titles : p # m.from \/ u # t => folders'[p][u] = folders[p][u]
      /\ folders'[m.from][t] = Empty
    BY <1>2, <1>3, WrittenFacts
<1>5. PICK n \in Moves(LibraryIds) : /\ SameMove(m, n) /\ n.step = "done" /\ n.over = m.over
                                     /\ moving' = [moving EXCEPT ![k] = n]
    <2>1. "done" \in Steps /\ moving \in Seq(Moves(LibraryIds))
        BY MoveOf DEF Steps
    <2> QED BY <1>1, <1>2, <2>1, StepFacts
<1>6. ASSUME t \in DOMAIN rows, Carried(t, m) PROVE Carried(t, n)'
    <2>1. /\ Whole(rows[t].at, t) /\ m.from # m.to
          /\ m.from = rows[t].at => folders[m.to][t].data = "whole"
        BY <1>2, <1>6 DEF Carried
    <2>2. CASE m.from = rows[t].at
        <3>1. Whole(m.to, t)' /\ folders'[m.from][t].data = "none"
            BY <1>2, <1>3, <1>4, <2>1, <2>2 DEF Whole, Empty
        <3> QED BY <1>2, <1>5, <2>2, <3>1 DEF Carried, SameMove
    <2>3. CASE m.from # rows[t].at
        <3>1. Whole(rows[t].at, t)'
            BY <1>2, <1>3, <1>4, <2>1, <2>3 DEF Whole
        <3> QED BY <1>2, <1>5, <2>3, <3>1 DEF Carried, SameMove
    <2> QED BY <2>2, <2>3
<1>7. \A p \in Paths, u \in Titles : u # t => folders'[p][u] = folders[p][u]
    BY <1>4
<1> QED BY <1>1, <1>2, <1>3, <1>5, <1>6, <1>7, WorkerTrue

\* A move begins: nothing to do, a rename into a place where nothing is, or a copy.
LEMMA BeginMoveTrue ==
    ASSUME LibraryTypes, \A u \in Titles : TitleTrue(u), NEW k \in DOMAIN moving, BeginMove(k)
    PROVE  \A u \in Titles : TitleTrue(u)'
<1>1. PICK m, t, there, here : /\ m = moving[k] /\ t = m.title
                               /\ there = folders[m.to][t] /\ here = folders[m.from][t]
    OBVIOUS
<1>2. m.step = "queued" /\ WorkerStep /\ mounted' = mounted /\ rows' = rows
    BY <1>1 DEF BeginMove, WorkerStep
<1>3. /\ t \in Titles /\ m.from \in Paths /\ m.to \in Paths /\ m.to \in mounted
      /\ folders \in Tree /\ Empty \in Folder /\ mounted \subseteq Paths
      /\ there \in Folder /\ here \in Folder /\ there.data \in Data
      /\ moving \in Seq(Moves(LibraryIds)) /\ "done" \in Steps
    BY <1>1, MoveOf DEF Empty, Folder, Data, LibraryTypes, Steps
<1>4. CASE (~Exists(m.from, t) \/ m.from = m.to) /\ Becomes(k, "done") /\ UNCHANGED folders
    <2>1. PICK n \in Moves(LibraryIds) : /\ SameMove(m, n) /\ n.step = "done" /\ n.over = m.over
                                         /\ moving' = [moving EXCEPT ![k] = n]
        BY <1>1, <1>3, <1>4, StepFacts
    <2>2. ASSUME t \in DOMAIN rows, Carried(t, m) PROVE Carried(t, n)'
        <3>1. Whole(rows[t].at, t) /\ m.from = m.to
            BY <1>2, <1>4, <2>2 DEF Carried
        <3>2. Whole(rows[t].at, t)' /\ folders'[rows[t].at][t].data # "part"
            BY <1>2, <1>4, <3>1 DEF Whole
        <3> QED BY <1>2, <2>1, <3>1, <3>2 DEF Carried, SameMove
    <2> QED BY <1>1, <1>2, <1>3, <1>4, <2>1, <2>2, WorkerTrue
<1>5. CASE /\ m.from # m.to /\ there = Empty /\ Becomes(k, "done")
           /\ folders' = [At(m.to, t, here) EXCEPT ![m.from][t] = Empty]
    <2>1. PICK n \in Moves(LibraryIds) : /\ SameMove(m, n) /\ n.step = "done" /\ n.over = m.over
                                         /\ moving' = [moving EXCEPT ![k] = n]
        BY <1>1, <1>3, <1>5, StepFacts
    <2>2. /\ \A p \in Paths, u \in Titles : (p # m.to /\ p # m.from) \/ u # t => folders'[p][u] = folders[p][u]
          /\ folders'[m.from][t] = Empty /\ folders'[m.to][t] = here
        <3>1. PICK f : f = At(m.to, t, here)
            OBVIOUS
        <3>2. Written(folders, f, m.to, t, here) /\ Written(f, folders', m.from, t, Empty)
            BY <1>5, <3>1 DEF Written, At
        <3>3. /\ f \in Tree /\ f[m.to][t] = here
              /\ \A p \in Paths, u \in Titles : p # m.to \/ u # t => f[p][u] = folders[p][u]
            BY <1>3, <3>2, WrittenFacts
        <3>4. /\ folders'[m.from][t] = Empty
              /\ \A p \in Paths, u \in Titles : p # m.from \/ u # t => folders'[p][u] = f[p][u]
            BY <1>3, <3>2, <3>3, WrittenFacts
        <3> QED BY <1>3, <1>5, <3>3, <3>4
    <2>3. ASSUME t \in DOMAIN rows, Carried(t, m) PROVE Carried(t, n)'
        <3>1. Whole(rows[t].at, t)
            BY <1>2, <2>3 DEF Carried
        <3>2. CASE rows[t].at = m.from
            <4>1. Whole(m.to, t)' /\ folders'[m.from][t].data = "none"
                BY <1>1, <1>2, <1>3, <2>2, <3>1, <3>2 DEF Whole, Empty
            <4> QED BY <1>2, <2>1, <3>2, <4>1 DEF Carried, SameMove
        <3>3. CASE rows[t].at # m.from
            <4>0. folders[m.to][t].data = "none"
                BY <1>1, <1>5 DEF Empty
            <4>1. rows[t].at # m.to
                BY <3>1, <4>0 DEF Whole
            <4>2. Whole(rows[t].at, t)'
                BY <1>2, <1>3, <2>2, <3>1, <3>3, <4>1 DEF Whole
            <4> QED BY <1>2, <2>1, <3>3, <4>2 DEF Carried, SameMove
        <3> QED BY <3>2, <3>3
    <2>4. \A p \in Paths, u \in Titles : u # t => folders'[p][u] = folders[p][u]
        BY <2>2
    <2> QED BY <1>1, <1>2, <1>3, <2>1, <2>3, <2>4, WorkerTrue
<1>6. CASE /\ Exists(m.from, t) /\ m.from # m.to
           /\ Copying(k, there.data)
           /\ folders' = At(m.to, t, [data |-> IF there.data = "whole" THEN "whole" ELSE "part",
                                      marked |-> there.marked \/ (here.marked /\ ~HidesDots)])
    <2>1. PICK n \in Moves(LibraryIds) : /\ SameMove(m, n) /\ n.step = "copying" /\ n.over = there.data
                                         /\ moving' = [moving EXCEPT ![k] = n]
        BY <1>1, <1>3, <1>6, CopyFacts
    <2>2. PICK new : new = [data |-> IF there.data = "whole" THEN "whole" ELSE "part",
                            marked |-> there.marked \/ (here.marked /\ ~HidesDots)]
        OBVIOUS
    <2>3. new \in Folder /\ (there.data = "whole" => new.data = "whole")
        <3>1. (there.marked \/ (here.marked /\ ~HidesDots)) \in BOOLEAN
            BY <1>3 DEF Folder
        <3> QED BY <2>2, <3>1 DEF Folder, Data
    <2>4. /\ \A p \in Paths, u \in Titles : p # m.to \/ u # t => folders'[p][u] = folders[p][u]
          /\ folders'[m.to][t] = new
        <3>1. Written(folders, folders', m.to, t, new)
            BY <1>6, <2>2 DEF At, Written
        <3> QED BY <1>3, <2>3, <3>1, WrittenFacts
    <2>5. ASSUME t \in DOMAIN rows, Carried(t, m) PROVE Carried(t, n)'
        <3>1. Whole(rows[t].at, t)
            BY <1>2, <2>5 DEF Carried
        <3>2. m.to = rows[t].at => there.data = "whole"
            BY <1>1, <3>1 DEF Whole
        <3>3. there.data = "whole" => folders'[m.to][t].data = "whole"
            BY <2>3, <2>4
        <3>4. Whole(rows[t].at, t)'
            BY <1>2, <1>3, <2>4, <3>1, <3>2, <3>3 DEF Whole
        <3>5. Exists(m.from, t)'
            BY <1>2, <1>3, <1>6, <2>4 DEF Exists
        <3> QED BY <1>2, <1>6, <2>1, <3>2, <3>3, <3>4, <3>5 DEF Carried, SameMove
    <2>6. \A p \in Paths, u \in Titles : u # t => folders'[p][u] = folders[p][u]
        BY <2>4
    <2> QED BY <1>1, <1>2, <1>3, <2>1, <2>5, <2>6, WorkerTrue
<1> QED BY <1>1, <1>4, <1>5, <1>6 DEF BeginMove, Copying

----------------------------------------------------------------------------
\* The end of a move: the row follows the files that have arrived.
LEMMA MoveEndsTrue ==
    ASSUME DrivesOK, LibraryTypes, \A u \in Titles : TitleTrue(u), MoveEnds
    PROVE  \A u \in Titles : TitleTrue(u)'
<1> USE DrivesAssumption
<1>1. PICK m, t : m = Head(moving) /\ t = m.title
    OBVIOUS
<1>2. /\ moving # <<>> /\ m.step \in {"done", "failed"} /\ moving' = Tail(moving)
      /\ IF m.step = "done" THEN FinalizeMovedGame(t, m.lib, m.from, m.to) ELSE UNCHANGED rows
      /\ UNCHANGED <<saved, folders, mounted, wiping, found, owned>>
    BY <1>1 DEF MoveEnds
<1>3. moving \in Seq(Moves(LibraryIds)) /\ DOMAIN rows \subseteq Titles /\ rows \in [DOMAIN rows -> Row({0} \cup LibraryIds)]
    BY DEF LibraryTypes
<1>4. 1 \in DOMAIN moving /\ m = moving[1]
    <2>1. \A k \in DOMAIN moving : moving[k] \in Moves(LibraryIds)
        BY <1>3, MovesFacts
    <2>2. 1 \in DOMAIN moving /\ Head(moving) = moving[1]
        BY ONLY <1>2, <1>3, <2>1, ListOver
    <2> QED BY <1>1, <2>2
<1>5. t \in Titles /\ m.from \in Paths /\ m.to \in Paths /\ m.lib \in LibraryIds
    BY <1>1, <1>3, <1>4, MoveOf, MovesFacts
<1>6. \A u \in Titles : /\ OneMove(u)
                        /\ u \in DOMAIN saved' => saved'[u].exe \in {Nowhere, saved'[u].at}
    BY <1>2 DEF TitleTrue, RowTrue, MovesTrue
<1>7. \A u \in Titles : OneMove(u)' /\ MovesOf(u)' = IF u = t THEN {} ELSE MovesOf(u)
    BY <1>1, <1>2, <1>3, <1>6, MoveLeaves
<1>8. MovesOf(t) = {m}
    BY <1>1, <1>3, <1>4, <1>5, <1>6, MovesOfFacts
<1>9. /\ DOMAIN rows' = DOMAIN rows /\ \A u \in DOMAIN rows \ {t} : rows'[u] = rows[u]
      /\ m.step = "done" /\ t \in DOMAIN rows =>
            rows'[t] = MovedRow(rows[t], m.lib, m.from, m.to, Exists(Relocated(rows[t].at, m.from, m.to), t))
      /\ m.step # "done" => rows' = rows
    <2>1. CASE m.step = "done"
        <3> DEFINE libs == {0} \cup LibraryIds
        <3>1. m.lib \in libs /\ rows \in [DOMAIN rows -> Row(libs)] /\ FinalizeMovedGame(t, m.lib, m.from, m.to)
            BY <1>2, <1>3, <1>5, <2>1
        <3> HIDE DEF libs
        <3>2. /\ DOMAIN rows' = DOMAIN rows /\ \A u \in DOMAIN rows \ {t} : rows'[u] = rows[u]
              /\ t \in DOMAIN rows =>
                    rows'[t] = MovedRow(rows[t], m.lib, m.from, m.to, Exists(Relocated(rows[t].at, m.from, m.to), t))
            BY ONLY <1>3, <1>5, <3>1, FinalizeFacts
        <3> QED BY <2>1, <3>2
    <2>2. CASE m.step # "done"
        BY <1>2, <2>2
    <2> QED BY <2>1, <2>2
<1>10. ASSUME NEW u \in Titles, u # t PROVE TitleTrue(u)'
    <2>1. Kept(u)
        BY <1>2, <1>6, <1>7, <1>9, <1>10 DEF Kept
    <2> QED BY <1>2, <2>1, TitleKept DEF TitleTrue
<1>11. TitleTrue(t)'
    <2>1. /\ m.job <=> t \in DOMAIN rows
          /\ t \in owned => t \in DOMAIN rows /\ Carried(t, m)
        BY <1>5, <1>8 DEF TitleTrue, MovesTrue
    <2>2. t \in DOMAIN rows => /\ rows[t].exe = Nowhere \/ (rows[t].exe = rows[t].at /\ t \in owned)
                               /\ rows[t].at \in Paths \cup {Nowhere}
        BY <1>5, RowTyped DEF TitleTrue, RowTrue
    <2>3. wiping[t] # {} => t \notin DOMAIN rows /\ t \notin owned
        BY <1>5 DEF TitleTrue, RowTrue
    <2>4. ASSUME t \in DOMAIN rows, t \in owned
          PROVE  Whole(rows'[t].at, t) /\ (rows[t].exe = Nowhere => rows'[t].exe = Nowhere)
                 /\ (rows[t].exe = rows[t].at => rows'[t].exe = rows'[t].at)
        <3>1. CASE m.step = "done"
            <4> DEFINE at == Relocated(rows[t].at, m.from, m.to)
            <4>1. at = IF rows[t].at = m.from THEN m.to ELSE rows[t].at
                BY <1>5 DEF Relocated
            <4>2. Whole(at, t)
                BY <2>1, <2>4, <3>1, <4>1 DEF Carried
            <4>3. Exists(at, t)
                BY <4>2 DEF Whole, Exists
            <4>4. rows'[t].at = at /\ rows'[t].exe = Relocated(rows[t].exe, m.from, m.to)
                BY <1>9, <2>4, <3>1, <4>3 DEF MovedRow
            <4>5. Relocated(Nowhere, m.from, m.to) = Nowhere
                BY <1>5 DEF Relocated
            <4> HIDE DEF at
            <4> QED BY <4>2, <4>4, <4>5 DEF at
        <3>2. CASE m.step # "done"
            BY <1>9, <2>1, <2>4, <3>2 DEF Carried
        <3> QED BY <3>1, <3>2
    <2>5. ASSUME t \in DOMAIN rows, t \notin owned PROVE rows'[t].exe = Nowhere
        <3>1. rows[t].exe = Nowhere /\ Relocated(Nowhere, m.from, m.to) = Nowhere
            BY <1>5, <2>2, <2>5 DEF Relocated
        <3> QED BY <1>9, <2>5, <3>1 DEF MovedRow
    <2>6. RowTrue(t)'
        BY <1>2, <1>6, <1>5, <1>9, <2>2, <2>3, <2>4, <2>5 DEF RowTrue
    <2>7. MovesTrue(t)'
        BY <1>5, <1>7 DEF MovesTrue
    <2>8. HomeTrue(t)'
        BY <1>2, <1>9, <2>1, <2>4 DEF HomeTrue, Whole
    <2>9. ScanTrue(t)'
        <3>1. (t \in owned' <=> t \in owned) /\ (t \in DOMAIN rows' <=> t \in DOMAIN rows) /\ MovesOf(t)' = {}
            BY <1>2, <1>5, <1>7, <1>9
        <3> QED BY <1>2, <1>5, <2>1, <3>1 DEF TitleTrue, ScanTrue
    <2> QED BY <2>6, <2>7, <2>8, <2>9 DEF TitleTrue
<1> QED BY <1>10, <1>11

\* The program starts again: a row is kept when its folder is there, and it is
\* whole, since a kill that library.json is too old for is left out.
LEMMA RestartTrue ==
    ASSUME Slips = {}, LibraryTypes, \A u \in Titles : TitleTrue(u),
           NEW inOrder \in BOOLEAN, NEW there \in SUBSET Paths, Restart(inOrder, there)
    PROVE  \A u \in Titles : TitleTrue(u)'
<1> USE DrivesAssumption
<1> SUFFICES ASSUME NEW t \in Titles PROVE TitleTrue(t)'
    OBVIOUS
<1>0. TitleTrue(t) /\ mounted \subseteq Paths /\ folders \in Tree
    BY DEF LibraryTypes
<1>1. PICK rs : rs = IF inOrder THEN rows ELSE saved
    OBVIOUS
<1>2. /\ rows' = PruneBrokenLibraryEntries(rs, there) /\ saved' = rs /\ mounted' = there /\ moving' = <<>>
      /\ wiping' = [u \in Titles |-> {}] /\ found' = [at |-> "start"] /\ folders' = folders
      /\ owned' = owned \cup {u \in DOMAIN rows' : rows'[u].at # Nowhere /\ folders[rows'[u].at][u].data = "whole"}
      /\ ~inOrder => \A u \in DOMAIN saved : /\ u \in owned => saved[u].at # Nowhere
                                             /\ saved[u].at # Nowhere => folders[saved[u].at][u].data # "part"
    BY <1>1 DEF Restart, Slip
<1>3. /\ t \in DOMAIN rows' => /\ t \in DOMAIN rs /\ rows'[t] = rs[t]
                               /\ rs[t].at = Nowhere \/ (rs[t].at \in there /\ folders[rs[t].at][t].data # "none")
    BY <1>2 DEF PruneBrokenLibraryEntries
<1>4. t \in DOMAIN rs => rs[t].exe \in {Nowhere, rs[t].at}
    BY <1>0, <1>1 DEF TitleTrue, RowTrue
<1>5. MovesOf(t)' = {} /\ OneMove(t)' /\ wiping'[t] = {}
    BY <1>2 DEF MovesOf, OneMove
\* An installed game, or one that has an executable, is whole where its row is.
<1>6. ASSUME t \in DOMAIN rows', t \in owned \/ rs[t].exe # Nowhere
      PROVE  rs[t].at \in there /\ rs[t].at # Nowhere /\ folders[rs[t].at][t].data = "whole"
    <2>1. CASE inOrder
        <3>1. rs = rows /\ t \in DOMAIN rows
            BY <1>1, <1>3, <1>6, <2>1
        <3>2. t \in owned
            BY <1>0, <1>6, <3>1 DEF TitleTrue, RowTrue
        <3>3. rows[t].at \in mounted /\ folders[rows[t].at][t].data \in {"whole", "none"}
            <4>1. CASE MovesOf(t) = {}
                BY <1>0, <3>1, <3>2, <4>1, TitleFacts DEF Whole
            <4>2. CASE MovesOf(t) # {}
                <5>1. PICK m \in MovesOf(t) : Carried(t, m)
                    BY <1>0, <3>2, <4>2 DEF TitleTrue, MovesTrue
                <5>2. m.from \in mounted
                    BY <5>1, MoveTyped
                <5>3. CASE m.step = "done" /\ rows[t].at = m.from
                    <6>1. folders[rows[t].at][t].data \in Data /\ folders[rows[t].at][t].data # "part"
                        BY <1>0, <5>1, <5>2, <5>3 DEF Carried, Tree, Folder
                    <6> QED BY <5>2, <5>3, <6>1 DEF Data
                <5>4. CASE ~(m.step = "done" /\ rows[t].at = m.from)
                    BY <5>1, <5>4 DEF Carried, Whole
                <5> QED BY <5>3, <5>4
            <4> QED BY <4>1, <4>2
        <3>4. rows[t].at # Nowhere
            BY <1>0, <3>3
        <3> QED BY <1>3, <1>6, <3>1, <3>3, <3>4
    <2>2. CASE ~inOrder
        <3>1. rs = saved /\ t \in DOMAIN saved
            BY <1>1, <1>3, <1>6, <2>2
        <3>2. saved[t].at # Nowhere
            BY <1>2, <1>4, <1>6, <2>2, <3>1
        <3>3. folders[saved[t].at][t].data # "part" /\ saved[t].at \in there /\ folders[saved[t].at][t].data # "none"
            BY <1>2, <1>3, <1>6, <2>2, <3>1, <3>2
        <3>4. folders[saved[t].at][t].data \in Data
            BY <1>0, <3>3 DEF Tree, Folder
        <3> QED BY <3>1, <3>2, <3>3, <3>4 DEF Data
    <2> QED BY <2>1, <2>2
<1>7. RowTrue(t)'
    <2>1. t \in DOMAIN rows' => rows'[t].exe = Nowhere \/ (rows'[t].exe = rows'[t].at /\ t \in owned')
        BY <1>2, <1>3, <1>4, <1>6
    <2> QED BY <1>2, <1>4, <1>5, <2>1 DEF RowTrue
<1>8. MovesTrue(t)' /\ ScanTrue(t)'
    BY <1>2, <1>5 DEF MovesTrue, ScanTrue
<1>9. HomeTrue(t)'
    <2>1. t \in owned' /\ t \in DOMAIN rows' => Whole(rows[t].at, t)'
        BY <1>2, <1>3, <1>6 DEF Whole
    <2>2. t \in owned' /\ t \notin DOMAIN rows' => \E p \in Paths : folders'[p][t].data = "whole"
        BY <1>0, <1>2, TitleFacts
    <2> QED BY <2>1, <2>2 DEF HomeTrue
<1> QED BY <1>7, <1>8, <1>9 DEF TitleTrue

----------------------------------------------------------------------------
\* Every step keeps the drives, the types and every title.
LEMMA LibraryInvNext ==
    ASSUME Slips = {}, LibraryInv, [LibraryNext]_libraryVars
    PROVE  LibraryInv'
<1>1. DrivesOK /\ LibraryTypes /\ \A t \in Titles : TitleTrue(t)
    BY DEF LibraryInv
<1>2. DrivesOK' /\ LibraryTypes'
    BY <1>1, LibraryTypesNext
<1>3. ASSUME NEW p \in Paths, AddLibrary(p) PROVE \A t \in Titles : TitleTrue(t)'
    BY <1>1, <1>3, DrivesKeepTitles DEF AddLibrary
<1>4. ASSUME NEW lib \in LibraryIds, SetDefaultLibrary(lib) PROVE \A t \in Titles : TitleTrue(t)'
    BY <1>1, <1>4, DrivesKeepTitles DEF SetDefaultLibrary
<1>5. ASSUME NEW lib \in LibraryIds, RemoveStorageLibrary(lib) PROVE \A t \in Titles : TitleTrue(t)'
    <2>1. UNCHANGED <<saved, folders, mounted, moving, wiping, found, owned>>
        BY <1>5 DEF RemoveStorageLibrary
    <2>2. DOMAIN rows' = DOMAIN rows
        BY <1>5 DEF RemoveStorageLibrary
    <2>3. \A t \in DOMAIN rows : rows'[t] = IF t \in GamesOnLibrary(lib)
                                            THEN [rows[t] EXCEPT !.lib = FallbackId(lib)] ELSE rows[t]
        BY <1>5 DEF RemoveStorageLibrary, DetachedTo
    <2>4. \A t \in DOMAIN rows : rows[t] \in Row({0} \cup LibraryIds)
        BY <1>1 DEF LibraryTypes
    <2>5. \A t \in DOMAIN rows : rows'[t].at = rows[t].at /\ rows'[t].exe = rows[t].exe
        BY <2>3, <2>4 DEF Row
    <2> QED BY <1>1, <2>1, <2>2, <2>5, DrivesKeepTitles
<1>6. ASSUME UNCHANGED libraryVars PROVE \A t \in Titles : TitleTrue(t)'
    BY <1>1, <1>6, DrivesKeepTitles DEF libraryVars
<1>7. ASSUME NEW t \in Titles, NEW lib \in LibraryIds,
             MoveGame(t, lib) \/ EnsureLibraryPlaceholder(t, lib) \/ CommitInstalledGame(t, lib)
      PROVE  \A u \in Titles : TitleTrue(u)'
    BY <1>1, <1>7, MoveGameTrue, EnsureTrue, CommitTrue
<1>8. ASSUME NEW k \in DOMAIN moving, BeginMove(k) \/ EndCopy(k) \/ FailCopy(k) \/ RemoveSource(k)
      PROVE  \A u \in Titles : TitleTrue(u)'
    BY <1>1, <1>8, BeginMoveTrue, EndCopyTrue, FailCopyTrue, RemoveSourceTrue
<1>9. ASSUME NEW t \in Titles, RemoveGame(t) \/ Wipe(t) PROVE \A u \in Titles : TitleTrue(u)'
    BY <1>1, <1>9, RemoveGameTrue, WipeTrue
<1>10. ASSUME NEW inOrder \in BOOLEAN, NEW there \in SUBSET Paths, Restart(inOrder, there)
       PROVE  \A u \in Titles : TitleTrue(u)'
    BY <1>1, <1>10, RestartTrue
<1>11. ASSUME MoveEnds \/ StartScan \/ EndScan \/ ScanInstalledGames \/ Flush
       PROVE  \A u \in Titles : TitleTrue(u)'
    BY <1>1, <1>11, MoveEndsTrue, StartScanTrue, EndScanTrue, ScanNowTrue, FlushTrue
<1>12. \A t \in Titles : TitleTrue(t)'
    BY <1>3, <1>4, <1>5, <1>6, <1>7, <1>8, <1>9, <1>10, <1>11, Zenon DEF LibraryNext
<1> QED BY <1>2, <1>12 DEF LibraryInv

\* No game's files are lost before the user removes it (LibraryController's moves,
\* the workers of core_wiring_services.cpp, the scan and the start), for any
\* drives, file systems and games and any number of steps, as long as none of
\* the slips happens.
THEOREM FilesKeptHolds == ASSUME Slips = {} PROVE LibrarySpec => []FilesKept
<1>1. LibraryInv => FilesKept
    BY TitleFacts DEF LibraryInv, LibraryTypes, FilesKept
<1> QED BY <1>1, LibraryInvInit, LibraryInvNext, PTL DEF LibrarySpec

\* The library tells what the drives have (LibraryStore's rows against the
\* folders): in every state every row is on a drive that is listed, an installed
\* game is whole where its row says and starts from there, and a lost game that
\* has its marker is found by the scan, as long as none of the slips happens.
THEOREM LibraryTrueHolds == ASSUME Slips = {} PROVE LibrarySpec => []LibraryTrue
<1>1. ASSUME LibraryInv PROVE LibraryTrue
    <2>1. DrivesOK /\ LibraryTypes /\ \A t \in Titles : TitleTrue(t)
        BY <1>1 DEF LibraryInv
    <2>2. rows \in [DOMAIN rows -> [lib : {0} \cup LibraryIds, at : Paths \cup {Nowhere}, exe : Paths \cup {Nowhere}]]
        BY <2>1 DEF LibraryTypes, Row
    <2>3. standard \in LibraryIds /\ owned \subseteq Titles
        BY <2>1 DEF DrivesOK, LibraryTypes
    <2>4. ASSUME NEW t \in owned \cap DOMAIN rows
          PROVE  \/ Arrived(t)
                 \/ /\ rows[t].at \in mounted /\ folders[rows[t].at][t].data = "whole"
                    /\ rows[t].exe \in {Nowhere, rows[t].at}
        <3>1. TitleTrue(t) /\ t \in Titles
            BY <2>1, <2>3
        <3>2. rows[t].exe \in {Nowhere, rows[t].at}
            BY <3>1 DEF TitleTrue, RowTrue
        <3>3. CASE MovesOf(t) = {}
            BY <2>1, <3>1, <3>2, <3>3, TitleFacts DEF Whole
        <3>4. CASE MovesOf(t) # {}
            <4>1. PICK m \in MovesOf(t) : Carried(t, m)
                BY <3>1, <3>4 DEF TitleTrue, MovesTrue
            <4>2. m.title = t /\ m \in ToSet(moving)
                BY <2>1, <4>1, MoveTyped DEF MovesOf, ToSet
            <4>3. CASE m.step = "done" /\ rows[t].at = m.from
                BY <4>1, <4>2, <4>3 DEF Carried, Whole, Arrived
            <4>4. CASE ~(m.step = "done" /\ rows[t].at = m.from)
                BY <3>2, <4>1, <4>4 DEF Carried, Whole
            <4> QED BY <4>3, <4>4
        <3> QED BY <3>3, <3>4
    <2>5. ASSUME found.at = "done", NEW t \in owned \ DOMAIN rows, NEW p \in found.over
          PROVE  folders[p][t] # [data |-> "whole", marked |-> TRUE]
        BY <2>1, <2>3, <2>5 DEF TitleTrue, ScanTrue, WholeMarked
    <2> QED BY <2>2, <2>3, <2>4, <2>5 DEF LibraryTrue
<1> QED BY <1>1, LibraryInvInit, LibraryInvNext, PTL DEF LibrarySpec

----------------------------------------------------------------------------
(* KindProbe *)
KindSpec == KindInit /\ [][KindNext]_probeVars

AlertKinds == {"added", "refused", "metadata", "failed", "names"}
NetAlerts == [what : AlertKinds, torrent : Nat, hash : Hashes]
NetCalls == [what : {"add"}, about : Hashes] \cup [what : {"remove", "save"}, about : Nat]
NetTorrents == [hash : Hashes, stage : {"asking", "told"}]
Nets == [calls : Seq(NetCalls), alerts : Seq(NetAlerts), made : Nat,
         torrents : UNION {[D -> NetTorrents] : D \in SUBSET Nat}]
Probes == [busy : BOOLEAN, hash : Hashes \cup {Nobody}, handle : Nat, generation : Nat,
           polls : BOOLEAN, idles : BOOLEAN]
TaskLists == [queue : Seq(Hashes), queued : SUBSET Hashes, flying : SUBSET Hashes,
              current : Hashes \cup {Nobody}]
Posts == [generation : Nat, names : Hashes \cup {Nobody}]

\* The sets agree with the queue and the task, and nothing is queued twice.
TasksOK(s) ==
    /\ s \in TaskLists /\ s.queued = ToSet(s.queue) /\ IsInjective(s.queue)
    /\ s.flying = {s.current} \ {Nobody} /\ s.queued \cap s.flying = {}

\* A probe that polls is for the task; the result of one that does not is
\* posted once, and is about the task.
HasTask(p, s) ==
    /\ p \in Probes /\ (s.current # Nobody <=> p.busy)
    /\ IF p.polls THEN p.busy /\ ~p.idles /\ p.hash = s.current ELSE p.hash = Nobody /\ p.handle = 0
Posted(p, s, rs) ==
    /\ rs \in Seq(Posts)
    /\ \A r \in ToSet(rs) : /\ r.generation <= p.generation
                            /\ r.generation = p.generation =>
                                  p.busy /\ ~p.polls /\ r.names \in {Nobody, s.current}
    /\ p.busy => p.polls \/ \E r \in ToSet(rs) : r.generation = p.generation
Once(p, rs) ==
    \A j, k \in DOMAIN rs : rs[j].generation = p.generation /\ rs[k].generation = p.generation => j = k
ProbeOK(p, s, rs) == HasTask(p, s) /\ Posted(p, s, rs) /\ Once(p, rs)

\* What is told of a torrent carries its hash, and somebody will remove it.
Held(p, n, t) ==
    \/ t = p.handle
    \/ \E call \in ToSet(n.calls) : call.what = "remove" /\ call.about = t
    \/ \E alert \in ToSet(n.alerts) : alert.what = "added" /\ alert.torrent = t
NetOK(p, n) ==
    /\ n \in Nets /\ DOMAIN n.torrents \subseteq 1..n.made /\ p.handle \in 0..n.made
    /\ \A a \in ToSet(n.alerts) : a.torrent \in 0..n.made /\ (a.what = "refused" <=> a.torrent = 0)
    /\ \A a, b \in ToSet(n.alerts) : a.torrent = b.torrent /\ a.torrent # 0 => a.hash = b.hash
    /\ \A a \in ToSet(n.alerts) : a.torrent \in DOMAIN n.torrents => a.hash = n.torrents[a.torrent].hash
    /\ p.handle # 0 =>
         /\ \A a \in ToSet(n.alerts) : a.torrent = p.handle => a.hash = p.hash
         /\ p.handle \in DOMAIN n.torrents => n.torrents[p.handle].hash = p.hash
    /\ \A t \in DOMAIN n.torrents : Held(p, n, t)

\* What is told of the torrent the probe is for comes after everything told of
\* the torrents of probes before it: nobody asks for one after it.
IsNews(a) == a.what \in {"added", "refused"}
NoAdds(n) == \A c \in ToSet(n.calls) : c.what # "add"
Silent(n) == NoAdds(n) /\ \A a \in ToSet(n.alerts) : ~IsNews(a)
LineOK(p, n) ==
    p.polls =>
        /\ p.handle # 0 => Silent(n)
        /\ \A k \in DOMAIN n.alerts : IsNews(n.alerts[k]) /\ n.alerts[k].hash = p.hash =>
              NoAdds(n) /\ \A j \in DOMAIN n.alerts : j > k => ~IsNews(n.alerts[j])
        /\ \A k \in DOMAIN n.calls : n.calls[k].what = "add" /\ n.calls[k].about = p.hash =>
              \A j \in DOMAIN n.calls : j > k => n.calls[j].what # "add"

\* A hash the session still has to tell about is not queued.
Pending(n, h) ==
    \/ \E a \in ToSet(n.alerts) : IsNews(a) /\ a.hash = h
    \/ \E c \in ToSet(n.calls) : c.what = "add" /\ c.about = h
PendingOK(s, n, u, ks) ==
    /\ \A h \in Hashes : Pending(n, h) => h \notin s.queued /\ h \in s.flying \cup u \cup ks
    /\ s.queued \cap ks = {} /\ s.flying \cap ks = {}

Sound(s, p, n, rs, u, ks) ==
    TasksOK(s) /\ ProbeOK(p, s, rs) /\ NetOK(p, n) /\ LineOK(p, n) /\ PendingOK(s, n, u, ks)
KindInv ==
    /\ KindsTrue /\ probing \in BOOLEAN
    /\ Sound(tasks, probe, net, results, unknown, DOMAIN kinds)
    /\ probing /\ ~probe.busy => tasks.queue = <<>>

\* A call and an alert are put at the end of their queues.
LEMMA CalledFacts ==
    ASSUME NEW n \in Nets, NEW what, NEW about, [what |-> what, about |-> about] \in NetCalls
    PROVE  LET m == Called(n, what, about)
               c == [what |-> what, about |-> about]
           IN  /\ m \in Nets /\ m.calls = Append(n.calls, c) /\ ToSet(m.calls) = ToSet(n.calls) \cup {c}
               /\ m.alerts = n.alerts /\ m.torrents = n.torrents /\ m.made = n.made
<1> DEFINE c == [what |-> what, about |-> about]
<1>1. c \in NetCalls
    OBVIOUS
<1>2. n.calls \in Seq(NetCalls)
    BY DEF Nets
<1> HIDE DEF c
<1>3. Append(n.calls, c) \in Seq(NetCalls) /\ ToSet(Append(n.calls, c)) = ToSet(n.calls) \cup {c}
    BY <1>1, <1>2, AppendFacts
<1>4. Called(n, what, about) = [n EXCEPT !.calls = Append(@, c)]
    BY DEF Called, c
<1>5. Called(n, what, about) \in Nets
    <2> HIDE DEF NetCalls
    <2> QED BY <1>3, <1>4 DEF Nets
<1> QED BY <1>1, <1>3, <1>4, <1>5 DEF Nets, c

Alert(what, t, h) == [what |-> what, torrent |-> t, hash |-> h]
Tells(n, m, a) ==
    /\ m \in Nets /\ a \in NetAlerts /\ m.alerts = Append(n.alerts, a) /\ ToSet(m.alerts) = ToSet(n.alerts) \cup {a}
    /\ m.calls = n.calls /\ m.torrents = n.torrents /\ m.made = n.made
\* An alert is put at the end of the alerts.
LEMMA ToldFacts ==
    ASSUME NEW n \in Nets, NEW what \in AlertKinds, NEW t \in Nat, NEW h \in Hashes,
           NEW m, NEW a, m = Told(n, what, t, h), a = Alert(what, t, h)
    PROVE  Tells(n, m, a)
<1>1. a \in NetAlerts
    BY DEF NetAlerts, Alert
<1>2. n.alerts \in Seq(NetAlerts)
    BY DEF Nets
<1>3. Append(n.alerts, a) \in Seq(NetAlerts) /\ ToSet(Append(n.alerts, a)) = ToSet(n.alerts) \cup {a}
    BY <1>1, <1>2, AppendFacts
<1>4. m = [n EXCEPT !.alerts = Append(@, a)]
    BY DEF Told, Alert
<1>5. m \in Nets /\ m.alerts = Append(n.alerts, a) /\ m.calls = n.calls /\ m.torrents = n.torrents /\ m.made = n.made
    <2> HIDE DEF NetAlerts, NetCalls
    <2> QED BY <1>3, <1>4 DEF Nets
<1> QED BY <1>1, <1>3, <1>5 DEF Tells

\* Only the call in front leaves, only news of it arrive.
LEMMA LineShrinks ==
    ASSUME NEW p, NEW n \in Nets, NEW m \in Nets, LineOK(p, n),
           m.calls = n.calls \/ (n.calls # <<>> /\ m.calls = Tail(n.calls)),
           m.alerts = n.alerts \/ \E a \in NetAlerts : ~IsNews(a) /\ m.alerts = Append(n.alerts, a)
    PROVE  LineOK(p, m) /\ \A h : Pending(m, h) => Pending(n, h)
<1> DEFINE C == n.calls
           D == m.calls
           A == n.alerts
           B == m.alerts
<1>1. C \in Seq(NetCalls) /\ D \in Seq(NetCalls) /\ A \in Seq(NetAlerts) /\ B \in Seq(NetAlerts)
    BY DEF Nets
<1>2. /\ \A k \in DOMAIN D : \E i \in DOMAIN C : D[k] = C[i] /\ (D = C => i = k) /\ (D # C => i = k + 1)
      /\ ToSet(D) \subseteq ToSet(C)
    <2> HIDE DEF C, D
    <2>1. CASE D = C
        BY <2>1
    <2>2. CASE D # C
        <3>1. C # <<>> /\ D = Tail(C)
            BY <2>2 DEF C, D
        <3>2. ToSet(D) \subseteq ToSet(C)
            BY <1>1, <3>1, TailFacts
        <3>3. \A k \in DOMAIN D : k + 1 \in DOMAIN C /\ D[k] = C[k + 1]
            BY <1>1, <3>1
        <3> QED BY <2>2, <3>2, <3>3
    <2> QED BY <2>1, <2>2
<1>3. /\ \A k \in DOMAIN B : (k \in DOMAIN A /\ B[k] = A[k]) \/ ~IsNews(B[k])
      /\ \A a \in ToSet(B) : a \in ToSet(A) \/ ~IsNews(a)
    <2>1. CASE B = A
        BY <2>1
    <2>2. CASE \E a \in NetAlerts : ~IsNews(a) /\ B = Append(A, a)
        <3> HIDE DEF A, B
        <3>1. PICK a \in NetAlerts : ~IsNews(a) /\ B = Append(A, a)
            BY <2>2
        <3>2. ToSet(B) = ToSet(A) \cup {a}
            BY <1>1, <3>1, AppendFacts
        <3>3. \A k \in DOMAIN B : (k \in DOMAIN A /\ B[k] = A[k]) \/ B[k] = a
            BY <1>1, <3>1
        <3> QED BY <3>1, <3>2, <3>3
    <2> QED BY <2>1, <2>2
<1>4. NoAdds(n) => NoAdds(m)
    BY <1>2 DEF NoAdds
<1>5. Silent(n) => Silent(m)
    BY <1>3, <1>4 DEF Silent
<1>6. DOMAIN C \subseteq Nat /\ DOMAIN D \subseteq Nat
    <2> HIDE DEF C, D
    <2> QED BY <1>1
<1>7. ASSUME p.polls PROVE LineOK(p, m)
    <2>1. p.handle # 0 => Silent(m)
        BY <1>5, <1>7 DEF LineOK
    <2>2. ASSUME NEW k \in DOMAIN B, IsNews(B[k]), B[k].hash = p.hash
          PROVE  NoAdds(m) /\ \A j \in DOMAIN B : j > k => ~IsNews(B[j])
        <3>1. k \in DOMAIN A /\ B[k] = A[k]
            BY <1>3, <2>2
        <3>2. NoAdds(n) /\ \A j \in DOMAIN A : j > k => ~IsNews(A[j])
            BY <1>7, <2>2, <3>1 DEF LineOK
        <3> QED BY <1>3, <1>4, <3>2
    <2>3. ASSUME NEW k \in DOMAIN D, D[k].what = "add", D[k].about = p.hash, NEW j \in DOMAIN D, j > k
          PROVE  D[j].what # "add"
        <3>1. PICK i \in DOMAIN C : D[k] = C[i] /\ (D = C => i = k) /\ (D # C => i = k + 1)
            BY <1>2
        <3>2. PICK e \in DOMAIN C : D[j] = C[e] /\ (D = C => e = j) /\ (D # C => e = j + 1)
            BY <1>2
        <3>3. e > i
            <4> HIDE DEF C, D
            <4> QED BY <1>6, <2>3, <3>1, <3>2
        <3> QED BY <1>7, <2>3, <3>1, <3>2, <3>3 DEF LineOK
    <2> QED BY <2>1, <2>2, <2>3 DEF LineOK
<1>8. \A h : Pending(m, h) => Pending(n, h)
    BY <1>2, <1>3 DEF Pending
<1> QED BY <1>7, <1>8 DEF LineOK

\* The session answers the call for a torrent that is in front.
LEMMA NewsArrives ==
    ASSUME NEW p, NEW n \in Nets, NEW m \in Nets, LineOK(p, n), NEW h, NEW a \in NetAlerts, IsNews(a), a.hash = h,
           n.calls # <<>>, Head(n.calls).what = "add", Head(n.calls).about = h,
           m.calls = Tail(n.calls), m.alerts = Append(n.alerts, a)
    PROVE  LineOK(p, m) /\ \A g : Pending(m, g) => Pending(n, g)
<1> DEFINE C == n.calls
           D == m.calls
           A == n.alerts
           B == m.alerts
<1>1. C \in Seq(NetCalls) /\ D \in Seq(NetCalls) /\ A \in Seq(NetAlerts) /\ B \in Seq(NetAlerts)
    BY DEF Nets
<1> HIDE DEF C, D, A, B
<1>2. C # <<>> /\ D = Tail(C) /\ B = Append(A, a) /\ Head(C).what = "add" /\ Head(C).about = h
    BY DEF A, B, C, D
<1>3. /\ ToSet(C) = {Head(C)} \cup ToSet(D) /\ 1 \in DOMAIN C /\ C[1] = Head(C)
      /\ \A k \in DOMAIN D : k \in Nat /\ k + 1 \in DOMAIN C /\ k + 1 > 1 /\ D[k] = C[k + 1]
    <2>1. ToSet(C) = {Head(C)} \cup ToSet(Tail(C))
        BY <1>1, <1>2, TailFacts
    <2>2. /\ 1 \in DOMAIN C /\ C[1] = Head(C)
          /\ \A k \in DOMAIN D : k \in Nat /\ k + 1 \in DOMAIN C /\ k + 1 > 1 /\ D[k] = C[k + 1]
        BY <1>1, <1>2
    <2> QED BY <1>2, <2>1, <2>2
<1>4. /\ ToSet(B) = ToSet(A) \cup {a}
      /\ \A k \in DOMAIN B : (k \in DOMAIN A /\ B[k] = A[k]) \/ (B[k] = a /\ \A j \in DOMAIN B : ~(j > k))
    <2>1. ToSet(B) = ToSet(A) \cup {a}
        BY <1>1, <1>2, AppendFacts
    <2>2. \A k \in DOMAIN B : (k \in DOMAIN A /\ B[k] = A[k]) \/ (B[k] = a /\ k = Len(A) + 1)
        BY <1>1, <1>2
    <2>3. Len(A) \in Nat /\ DOMAIN B = 1..(Len(A) + 1)
        BY <1>1, <1>2
    <2> QED BY <2>1, <2>2, <2>3
<1>5. ~NoAdds(n)
    BY <1>2, <1>3 DEF NoAdds, C
<1>6. ASSUME p.polls PROVE LineOK(p, m)
    <2>1. p.handle = 0
        BY <1>5, <1>6 DEF LineOK, Silent
    <2>2. \A k \in DOMAIN A : ~(IsNews(A[k]) /\ A[k].hash = p.hash)
        BY <1>5, <1>6 DEF LineOK, A
    <2>3. ASSUME NEW k \in DOMAIN B, IsNews(B[k]), B[k].hash = p.hash
          PROVE  NoAdds(m) /\ \A j \in DOMAIN B : j > k => ~IsNews(B[j])
        <3>1. B[k] = a /\ \A j \in DOMAIN B : ~(j > k)
            BY <1>4, <2>2, <2>3
        <3>2. p.hash = h
            BY <2>3, <3>1
        <3>3. \A j \in DOMAIN C : j > 1 => C[j].what # "add"
            BY <1>2, <1>3, <1>6, <3>2 DEF LineOK, C
        <3>4. \A k2 \in DOMAIN D : D[k2].what # "add"
            BY <1>3, <3>3
        <3>5. NoAdds(m)
            BY <3>4 DEF NoAdds, ToSet, D
        <3> QED BY <3>1, <3>5
    <2>4. ASSUME NEW k \in DOMAIN D, D[k].what = "add", D[k].about = p.hash, NEW j \in DOMAIN D, j > k
          PROVE  D[j].what # "add"
        <3>1. k + 1 \in DOMAIN C /\ j + 1 \in DOMAIN C /\ j + 1 > k + 1 /\ D[k] = C[k + 1] /\ D[j] = C[j + 1]
            BY <1>3, <2>4
        <3>2. \A i \in DOMAIN C : i > k + 1 => C[i].what # "add"
            BY <1>6, <2>4, <3>1 DEF LineOK, C
        <3> QED BY <3>1, <3>2
    <2> QED BY <2>1, <2>3, <2>4 DEF LineOK, B, D
<1>7. ASSUME NEW g, Pending(m, g) PROVE Pending(n, g)
    <2>1. CASE \E b \in ToSet(B) : IsNews(b) /\ b.hash = g
        <3>1. PICK b \in ToSet(B) : IsNews(b) /\ b.hash = g
            BY <2>1
        <3>2. CASE b \in ToSet(A)
            BY <3>1, <3>2 DEF Pending, A
        <3>3. CASE b = a
            <4>1. Head(C) \in ToSet(C) /\ g = h
                BY <1>3, <3>1, <3>3
            <4> QED BY <1>2, <4>1 DEF Pending, C
        <3> QED BY <1>4, <3>2, <3>3
    <2>2. CASE \E c \in ToSet(D) : c.what = "add" /\ c.about = g
        BY <1>3, <2>2 DEF Pending, C
    <2> QED BY <1>7, <2>1, <2>2 DEF Pending, B, D
<1> QED BY <1>6, <1>7 DEF LineOK

\* An alert about a torrent that is there, or about none, says its hash.
LEMMA AlertArrives ==
    ASSUME NEW p, NEW n \in Nets, NEW m \in Nets, NetOK(p, n), NEW a \in NetAlerts,
           a.what = "refused" <=> a.torrent = 0,
           a.torrent # 0 => a.torrent \in DOMAIN n.torrents /\ a.hash = n.torrents[a.torrent].hash,
           ToSet(m.alerts) = ToSet(n.alerts) \cup {a}, m.made = n.made, DOMAIN m.torrents = DOMAIN n.torrents,
           \A t \in DOMAIN n.torrents : m.torrents[t].hash = n.torrents[t].hash,
           \A c \in ToSet(n.calls) : c.what = "remove" => c \in ToSet(m.calls)
    PROVE  NetOK(p, m)
<1>1. a.torrent \in 0..m.made
    BY DEF NetOK, Nets
<1>2. DOMAIN n.torrents \subseteq Nat /\ 0 \notin DOMAIN n.torrents
    BY DEF NetOK, Nets
<1>3. ASSUME NEW b \in ToSet(n.alerts), b.torrent = a.torrent, a.torrent # 0 PROVE b.hash = a.hash
    BY <1>3 DEF NetOK
<1>4. \A b, c \in ToSet(m.alerts) : b.torrent = c.torrent /\ b.torrent # 0 => b.hash = c.hash
    BY <1>3 DEF NetOK
<1>5. \A b \in ToSet(m.alerts) : b.torrent \in DOMAIN m.torrents => b.hash = m.torrents[b.torrent].hash
    BY <1>2 DEF NetOK
<1>6. ASSUME p.handle # 0
      PROVE  /\ \A b \in ToSet(m.alerts) : b.torrent = p.handle => b.hash = p.hash
             /\ p.handle \in DOMAIN m.torrents => m.torrents[p.handle].hash = p.hash
    BY <1>6 DEF NetOK
<1>7. \A t \in DOMAIN m.torrents : Held(p, m, t)
    <2> SUFFICES ASSUME NEW t \in DOMAIN n.torrents PROVE Held(p, m, t)
        OBVIOUS
    <2>1. Held(p, n, t)
        BY DEF NetOK
    <2> QED BY <2>1 DEF Held
<1>8. \A b \in ToSet(m.alerts) : b.torrent \in 0..m.made /\ (b.what = "refused" <=> b.torrent = 0)
    BY <1>1 DEF NetOK
<1>9. DOMAIN m.torrents \subseteq 1..m.made /\ p.handle \in 0..m.made
    BY DEF NetOK
<1> QED BY <1>4, <1>5, <1>6, <1>7, <1>8, <1>9 DEF NetOK

\* A torrent that is told the session for the first time.
LEMMA TorrentAdded ==
    ASSUME NEW p, NEW n \in Nets, NEW m \in Nets, NetOK(p, n), NEW a \in NetAlerts, a.what = "added",
           m.made = n.made + 1, a.torrent = n.made + 1,
           DOMAIN m.torrents = DOMAIN n.torrents \cup {n.made + 1},
           \A t \in DOMAIN m.torrents : m.torrents[t].hash = IF t > n.made THEN a.hash ELSE n.torrents[t].hash,
           ToSet(m.alerts) = ToSet(n.alerts) \cup {a},
           \A c \in ToSet(n.calls) : c.what = "remove" => c \in ToSet(m.calls)
    PROVE  NetOK(p, m)
<1>1. /\ n.made \in Nat /\ \A t \in DOMAIN n.torrents : t \in 1..n.made
      /\ \A b \in ToSet(n.alerts) : b.torrent \in 0..n.made /\ p.handle \in 0..n.made
    BY DEF NetOK, Nets
<1>2. p.handle \in 0..n.made
    BY DEF NetOK
<1>3. /\ \A b \in ToSet(n.alerts) : b.torrent # a.torrent
      /\ p.handle # a.torrent /\ a.torrent \notin DOMAIN n.torrents
      /\ \A t \in DOMAIN n.torrents : ~(t > n.made)
      /\ a.torrent > n.made /\ a.torrent # 0
    BY <1>1, <1>2
<1>4. \A t \in DOMAIN n.torrents : m.torrents[t].hash = n.torrents[t].hash
    BY <1>3
<1>5. \A b \in ToSet(m.alerts) : b.torrent \in 0..m.made /\ (b.what = "refused" <=> b.torrent = 0)
    <2>1. \A k \in 0..n.made : k \in 0..m.made
        BY <1>1
    <2>2. a.torrent \in 0..m.made
        BY <1>1
    <2> QED BY <1>3, <2>1, <2>2 DEF NetOK
<1>6. \A b, c \in ToSet(m.alerts) : b.torrent = c.torrent /\ b.torrent # 0 => b.hash = c.hash
    BY <1>3 DEF NetOK
<1>7. \A b \in ToSet(m.alerts) : b.torrent \in DOMAIN m.torrents => b.hash = m.torrents[b.torrent].hash
    <2> SUFFICES ASSUME NEW b \in ToSet(m.alerts), b.torrent \in DOMAIN m.torrents
                 PROVE  b.hash = m.torrents[b.torrent].hash
        OBVIOUS
    <2>1. CASE b = a
        BY <1>3, <2>1
    <2>2. CASE b # a
        <3>1. b \in ToSet(n.alerts) /\ b.torrent \in DOMAIN n.torrents
            BY <1>3, <2>2
        <3> QED BY <1>4, <3>1 DEF NetOK
    <2> QED BY <2>1, <2>2
<1>8. ASSUME p.handle # 0
      PROVE  /\ \A b \in ToSet(m.alerts) : b.torrent = p.handle => b.hash = p.hash
             /\ p.handle \in DOMAIN m.torrents => m.torrents[p.handle].hash = p.hash
    BY <1>3, <1>4, <1>8 DEF NetOK
<1>9. \A t \in DOMAIN m.torrents : Held(p, m, t)
    <2> SUFFICES ASSUME NEW t \in DOMAIN m.torrents PROVE Held(p, m, t)
        OBVIOUS
    <2>1. CASE t = a.torrent
        BY <2>1 DEF Held
    <2>2. CASE t \in DOMAIN n.torrents
        <3>1. Held(p, n, t)
            BY <2>2 DEF NetOK
        <3> QED BY <3>1 DEF Held
    <2> QED BY <2>1, <2>2
<1>10. DOMAIN m.torrents \subseteq 1..m.made /\ p.handle \in 0..m.made
    <2>1. \A k \in 1..n.made : k \in 1..m.made
        BY <1>1
    <2>2. n.made + 1 \in 1..m.made /\ p.handle \in 0..m.made
        BY <1>1, <1>2
    <2> QED BY <1>1, <2>1, <2>2
<1> QED BY <1>5, <1>6, <1>7, <1>8, <1>9, <1>10 DEF NetOK

\* A torrent is removed from the session.
LEMMA TorrentRemoved ==
    ASSUME NEW p, NEW n \in Nets, NEW m \in Nets, NetOK(p, n), NEW t,
           m.made = n.made, m.alerts = n.alerts, DOMAIN m.torrents = DOMAIN n.torrents \ {t},
           \A x \in DOMAIN m.torrents : m.torrents[x] = n.torrents[x],
           \A c \in ToSet(n.calls) : c.what = "remove" => c \in ToSet(m.calls) \/ c.about = t
    PROVE  NetOK(p, m)
<1>1. \A x \in DOMAIN m.torrents : Held(p, m, x)
    <2> SUFFICES ASSUME NEW x \in DOMAIN m.torrents PROVE Held(p, m, x)
        OBVIOUS
    <2>1. Held(p, n, x) /\ x # t
        BY DEF NetOK
    <2> QED BY <2>1 DEF Held
<1> QED BY <1>1 DEF NetOK

\* The session takes the call in front.
LEMMA SessionSound ==
    ASSUME NEW s, NEW p, NEW rs, NEW u, NEW ks, Sound(s, p, net, rs, u, ks), Session
    PROVE  Sound(s, p, net', rs, u, ks)
<1>1. PICK o, n, call, t : o = net /\ n = [net EXCEPT !.calls = Tail(@)] /\ call = Head(net.calls) /\ t = call.about
    OBVIOUS
<1>2. o \in Nets /\ o.calls # <<>> /\ o.calls \in Seq(NetCalls)
    BY <1>1 DEF Sound, NetOK, Session, Nets
<1>3. call \in NetCalls /\ Tail(o.calls) \in Seq(NetCalls) /\ ToSet(o.calls) = {call} \cup ToSet(Tail(o.calls))
    <2> HIDE DEF NetCalls
    <2> QED BY <1>1, <1>2, TailFacts
<1>4. /\ n \in Nets /\ n.calls = Tail(o.calls) /\ n.alerts = o.alerts /\ n.torrents = o.torrents /\ n.made = o.made
    <2> HIDE DEF NetCalls
    <2> QED BY <1>1, <1>2, <1>3 DEF Nets
<1>5. /\ call.what = "add" => net' = IF t \in Refused THEN Told(n, "refused", 0, t) ELSE Add(n, t)
      /\ call.what = "remove" => net' = [n EXCEPT !.torrents = [x \in DOMAIN @ \ {t} |-> @[x]]]
      /\ call.what = "save" => net' = IF t \in DOMAIN n.torrents THEN Told(n, "names", t, n.torrents[t].hash) ELSE n
    <2> HIDE DEF NetCalls, NetAlerts, NetTorrents, Nets, Sound
    <2> USE DEF Session
    <2> QED BY ONLY <1>1, Session
<1>6. PICK m : m = net'
    OBVIOUS
<1>7. NetOK(p, o) /\ LineOK(p, o) /\ PendingOK(s, o, u, ks)
    BY <1>1 DEF Sound
<1>8. \A c \in ToSet(o.calls) : c.what = "remove" /\ call.what # "remove" => c \in ToSet(n.calls)
    BY <1>3, <1>4
<1>9. DOMAIN o.torrents \subseteq Nat \ {0} /\ \A x \in DOMAIN o.torrents : o.torrents[x] \in NetTorrents
    BY <1>7 DEF NetOK, Nets
<1>10. m \in Nets /\ NetOK(p, m) /\ LineOK(p, m) /\ \A h : Pending(m, h) => Pending(o, h)
    <2>1. CASE call.what = "add" /\ t \in Refused
        <3>1. t \in Hashes /\ m = Told(n, "refused", 0, t)
            BY <1>5, <1>6, <2>1, KindAssumption
        <3>2. PICK a : a = Alert("refused", 0, t)
            OBVIOUS
        <3>3. /\ m \in Nets /\ a \in NetAlerts /\ m.alerts = Append(n.alerts, a)
              /\ ToSet(m.alerts) = ToSet(n.alerts) \cup {a}
              /\ m.calls = n.calls /\ m.torrents = n.torrents /\ m.made = n.made
            <4>1. 0 \in Nat /\ "refused" \in AlertKinds
                BY DEF AlertKinds
            <4>2. Tells(n, m, a)
                BY <1>4, <3>1, <3>2, <4>1, ToldFacts
            <4> QED BY <4>2 DEF Tells
        <3>4. LineOK(p, m) /\ \A h : Pending(m, h) => Pending(o, h)
            <4>1. IsNews(a) /\ a.hash = t
                BY <3>2 DEF IsNews, Alert
            <4> QED BY <1>1, <1>2, <1>4, <1>7, <2>1, <3>3, <4>1, NewsArrives
        <3>5. NetOK(p, m)
            <4>1. a.what = "refused" /\ a.torrent = 0
                BY <3>2 DEF Alert
            <4> QED BY <1>2, <1>4, <1>7, <1>8, <2>1, <3>3, <4>1, AlertArrives
        <3> QED BY <3>3, <3>4, <3>5
    <2>2. CASE call.what = "add" /\ t \notin Refused
        <3> DEFINE there == {x \in DOMAIN n.torrents : n.torrents[x].hash = t}
        <3>1. t \in Hashes /\ m = Add(n, t)
            BY <1>1, <1>3, <1>5, <1>6, <2>2 DEF NetCalls
        <3>2. CASE there # {}
            <4>1. PICK x : x = CHOOSE y \in there : TRUE
                OBVIOUS
            <4>2. x \in DOMAIN o.torrents /\ o.torrents[x].hash = t /\ m = Told(n, "added", x, t) /\ x \in Nat \ {0}
                BY <1>4, <1>9, <3>1, <3>2, <4>1 DEF Add
            <4>3. PICK a : a = Alert("added", x, t)
                OBVIOUS
            <4>4. /\ m \in Nets /\ a \in NetAlerts /\ m.alerts = Append(n.alerts, a)
                  /\ ToSet(m.alerts) = ToSet(n.alerts) \cup {a}
                  /\ m.calls = n.calls /\ m.torrents = n.torrents /\ m.made = n.made
                <5>1. x \in Nat /\ "added" \in AlertKinds
                    BY <4>2 DEF AlertKinds
                <5>2. Tells(n, m, a)
                    BY <1>4, <3>1, <4>2, <4>3, <5>1, ToldFacts
                <5> QED BY <5>2 DEF Tells
            <4>5. IsNews(a) /\ a.hash = t /\ a.torrent = x /\ a.what = "added"
                BY <4>3 DEF IsNews, Alert
            <4>6. LineOK(p, m) /\ \A h : Pending(m, h) => Pending(o, h)
                BY <1>1, <1>2, <1>4, <1>7, <2>2, <4>4, <4>5, NewsArrives
            <4>7. NetOK(p, m)
                BY <1>2, <1>4, <1>7, <1>8, <2>2, <4>2, <4>4, <4>5, AlertArrives
            <4> QED BY <4>4, <4>6, <4>7
        <3>3. CASE there = {}
            <4>1. PICK k, w : /\ k = n.made + 1
                              /\ w = [n EXCEPT !.made = @ + 1,
                                        !.torrents = [y \in DOMAIN @ \cup {n.made + 1} |->
                                            IF y > n.made THEN [hash |-> t, stage |-> "asking"] ELSE @[y]]]
                OBVIOUS
            <4>2. m = Told(w, "added", k, t)
                BY <3>1, <3>3, <4>1 DEF Add
            <4>3. n.made \in Nat /\ k \in Nat /\ k > n.made /\ \A y \in DOMAIN n.torrents : ~(y > n.made)
                BY <1>4, <1>7, <4>1 DEF NetOK, Nets
            <4>4. /\ w.calls = n.calls /\ w.alerts = n.alerts /\ w.made = n.made + 1
                  /\ w.torrents = [y \in DOMAIN n.torrents \cup {n.made + 1} |->
                                     IF y > n.made THEN [hash |-> t, stage |-> "asking"] ELSE n.torrents[y]]
                BY <1>4, <4>1 DEF Nets
            <4>5. w.torrents \in [DOMAIN n.torrents \cup {k} -> NetTorrents]
                BY <1>4, <1>9, <3>1, <4>1, <4>3, <4>4 DEF NetTorrents
            <4>6. w \in Nets
                <5>1. DOMAIN n.torrents \cup {k} \in SUBSET Nat
                    BY <1>4, <1>9, <4>3
                <5>2. w.torrents \in UNION {[D -> NetTorrents] : D \in SUBSET Nat}
                    BY <4>5, <5>1
                <5>3. w.made \in Nat
                    BY <4>3, <4>4
                <5>4. PICK y, j : y = w.torrents /\ j = w.made
                    OBVIOUS
                <5>5. w = [n EXCEPT !.made = j, !.torrents = y]
                    BY <1>4, <4>1, <4>4, <5>4 DEF Nets
                <5>6. y \in UNION {[D -> NetTorrents] : D \in SUBSET Nat} /\ j \in Nat
                    BY <5>2, <5>3, <5>4
                <5> HIDE DEF NetCalls, NetAlerts, NetTorrents
                <5> QED BY ONLY <1>4, <5>5, <5>6 DEF Nets
            <4>7. PICK a : a = Alert("added", k, t)
                OBVIOUS
            <4>8. /\ m \in Nets /\ a \in NetAlerts /\ m.alerts = Append(w.alerts, a)
                  /\ ToSet(m.alerts) = ToSet(w.alerts) \cup {a}
                  /\ m.calls = w.calls /\ m.torrents = w.torrents /\ m.made = w.made
                <5>1. "added" \in AlertKinds
                    BY DEF AlertKinds
                <5>2. Tells(w, m, a)
                    BY <3>1, <4>2, <4>3, <4>6, <4>7, <5>1, ToldFacts
                <5> QED BY <5>2 DEF Tells
            <4>9. IsNews(a) /\ a.hash = t /\ a.torrent = k /\ a.what = "added"
                BY <4>7 DEF IsNews, Alert
            <4>10. LineOK(p, m) /\ \A h : Pending(m, h) => Pending(o, h)
                BY <1>1, <1>2, <1>4, <1>7, <2>2, <4>4, <4>8, <4>9, NewsArrives
            <4>11. NetOK(p, m)
                <5>1. /\ m.made = o.made + 1 /\ a.torrent = o.made + 1
                      /\ DOMAIN m.torrents = DOMAIN o.torrents \cup {o.made + 1}
                      /\ ToSet(m.alerts) = ToSet(o.alerts) \cup {a}
                      /\ \A c \in ToSet(o.calls) : c.what = "remove" => c \in ToSet(m.calls)
                    BY <1>4, <1>8, <2>2, <4>1, <4>4, <4>8, <4>9
                <5>2. \A y \in DOMAIN m.torrents : m.torrents[y].hash = IF y > o.made THEN a.hash ELSE o.torrents[y].hash
                    BY <1>4, <4>4, <4>8, <4>9
                <5> QED BY <1>2, <1>7, <4>8, <4>9, <5>1, <5>2, TorrentAdded
            <4> QED BY <4>8, <4>10, <4>11
        <3> QED BY <3>2, <3>3
    <2>3. CASE call.what = "remove"
        <3>1. m = [n EXCEPT !.torrents = [x \in DOMAIN @ \ {t} |-> @[x]]]
            BY <1>5, <1>6, <2>3
        <3>2. PICK y : y = [x \in DOMAIN n.torrents \ {t} |-> n.torrents[x]]
            OBVIOUS
        <3>3. m = [n EXCEPT !.torrents = y]
            BY <1>4, <3>1, <3>2 DEF Nets
        <3>4. y \in UNION {[D -> NetTorrents] : D \in SUBSET Nat}
            <4>1. y \in [DOMAIN n.torrents \ {t} -> NetTorrents] /\ DOMAIN n.torrents \ {t} \in SUBSET Nat
                BY <1>4, <1>9, <3>2
            <4> QED BY <4>1
        <3>5. m \in Nets /\ m.calls = n.calls /\ m.alerts = n.alerts /\ m.made = n.made /\ m.torrents = y
            <4> HIDE DEF NetCalls, NetAlerts, NetTorrents
            <4> QED BY <1>4, <3>3, <3>4 DEF Nets
        <3>6. LineOK(p, m) /\ \A h : Pending(m, h) => Pending(o, h)
            BY <1>2, <1>4, <1>7, <3>5, LineShrinks
        <3>7. NetOK(p, m)
            <4>1. \A c \in ToSet(o.calls) : c.what = "remove" => c \in ToSet(m.calls) \/ c.about = t
                BY <1>1, <1>3, <1>4, <3>5
            <4>2. DOMAIN m.torrents = DOMAIN o.torrents \ {t} /\ \A x \in DOMAIN m.torrents : m.torrents[x] = o.torrents[x]
                BY <1>4, <3>2, <3>5
            <4>3. m.made = o.made /\ m.alerts = o.alerts
                BY <1>4, <3>5
            <4> QED BY ONLY <1>2, <1>7, <3>5, <4>1, <4>2, <4>3, TorrentRemoved
        <3> QED BY <3>5, <3>6, <3>7
    <2>4. CASE call.what = "save" /\ t \notin DOMAIN n.torrents
        <3>1. m = n
            BY <1>5, <1>6, <2>4
        <3>2. LineOK(p, m) /\ \A h : Pending(m, h) => Pending(o, h)
            BY <1>2, <1>4, <1>7, <3>1, LineShrinks
        <3>3. NetOK(p, m)
            <4>1. \A c \in ToSet(o.calls) : c.what = "remove" => c \in ToSet(m.calls) \/ c.about = t
                BY <1>8, <2>4, <3>1
            <4>2. DOMAIN m.torrents = DOMAIN o.torrents \ {t} /\ \A x \in DOMAIN m.torrents : m.torrents[x] = o.torrents[x]
                BY <1>4, <2>4, <3>1
            <4>3. m \in Nets /\ m.made = o.made /\ m.alerts = o.alerts
                BY <1>4, <3>1
            <4> QED BY <1>2, <1>7, <4>1, <4>2, <4>3, TorrentRemoved
        <3> QED BY <1>4, <3>1, <3>2, <3>3
    <2>5. CASE call.what = "save" /\ t \in DOMAIN n.torrents
        <3>1. PICK h : h = o.torrents[t].hash
            OBVIOUS
        <3>2. h \in Hashes /\ t \in Nat \ {0} /\ m = Told(n, "names", t, h)
            BY <1>4, <1>5, <1>6, <1>9, <2>5, <3>1 DEF NetTorrents
        <3>3. PICK a : a = Alert("names", t, h)
            OBVIOUS
        <3>4. /\ m \in Nets /\ a \in NetAlerts /\ m.alerts = Append(n.alerts, a)
              /\ ToSet(m.alerts) = ToSet(n.alerts) \cup {a}
              /\ m.calls = n.calls /\ m.torrents = n.torrents /\ m.made = n.made
            <4>1. t \in Nat /\ "names" \in AlertKinds
                BY <3>2 DEF AlertKinds
            <4>2. Tells(n, m, a)
                BY <1>4, <3>2, <3>3, <4>1, ToldFacts
            <4> QED BY <4>2 DEF Tells
        <3>5. ~IsNews(a) /\ a.hash = h /\ a.torrent = t /\ a.what = "names"
            BY <3>3 DEF IsNews, Alert
        <3>6. LineOK(p, m) /\ \A g : Pending(m, g) => Pending(o, g)
            BY <1>2, <1>4, <1>7, <3>4, <3>5, LineShrinks
        <3>7. NetOK(p, m)
            BY <1>2, <1>4, <1>7, <1>8, <2>5, <3>1, <3>2, <3>4, <3>5, AlertArrives
        <3> QED BY <3>4, <3>6, <3>7
    <2>6. call.what \in {"add", "remove", "save"}
        BY <1>3 DEF NetCalls
    <2> QED BY <2>1, <2>2, <2>3, <2>4, <2>5, <2>6
<1>11. PendingOK(s, m, u, ks)
    BY <1>7, <1>10 DEF PendingOK
<1> QED BY <1>6, <1>10, <1>11 DEF Sound

\* A peer tells of a torrent, or it fails.
LEMMA PeersSound ==
    ASSUME NEW s, NEW p, NEW rs, NEW u, NEW ks, Sound(s, p, net, rs, u, ks), NEW t \in DOMAIN net.torrents, Peers(t)
    PROVE  Sound(s, p, net', rs, u, ks)
<1>1. PICK o, m, n, h, what : /\ o = net /\ m = net' /\ h = net.torrents[t].hash /\ what \in {"metadata", "failed"}
                              /\ n = [net EXCEPT !.torrents[t].stage = "told"] /\ m = Told(n, what, t, h)
    BY DEF Peers
<1>2. NetOK(p, o) /\ LineOK(p, o) /\ PendingOK(s, o, u, ks) /\ o \in Nets /\ t \in DOMAIN o.torrents
    BY <1>1 DEF Sound, NetOK
<1>3. DOMAIN o.torrents \subseteq Nat \ {0} /\ o.torrents \in [DOMAIN o.torrents -> NetTorrents]
    BY <1>2 DEF NetOK, Nets
<1>4. h \in Hashes /\ t \in Nat \ {0} /\ h = o.torrents[t].hash
    BY <1>1, <1>2, <1>3 DEF NetTorrents
<1>5. PICK y : y = [o.torrents EXCEPT ![t].stage = "told"]
    OBVIOUS
<1>6. /\ y \in [DOMAIN o.torrents -> NetTorrents]
      /\ \A x \in DOMAIN o.torrents : y[x].hash = o.torrents[x].hash
    BY <1>2, <1>3, <1>5 DEF NetTorrents
<1>7. y \in UNION {[D -> NetTorrents] : D \in SUBSET Nat} /\ DOMAIN y = DOMAIN o.torrents
    BY <1>3, <1>6
<1>8. n = [o EXCEPT !.torrents = y]
    BY <1>1, <1>2, <1>5 DEF Nets
<1>9. n \in Nets /\ n.calls = o.calls /\ n.alerts = o.alerts /\ n.made = o.made /\ n.torrents = y
    <2> HIDE DEF NetCalls, NetAlerts, NetTorrents
    <2> QED BY <1>2, <1>7, <1>8 DEF Nets
<1>10. PICK a : a = Alert(what, t, h)
    OBVIOUS
<1>11. /\ m \in Nets /\ a \in NetAlerts /\ m.alerts = Append(n.alerts, a)
       /\ ToSet(m.alerts) = ToSet(n.alerts) \cup {a}
       /\ m.calls = n.calls /\ m.torrents = n.torrents /\ m.made = n.made
    <2>1. t \in Nat /\ what \in AlertKinds
        BY <1>1, <1>4 DEF AlertKinds
    <2>2. Tells(n, m, a)
        BY <1>1, <1>4, <1>9, <1>10, <2>1, ToldFacts
    <2> QED BY <2>2 DEF Tells
<1>12. ~IsNews(a) /\ a.hash = h /\ a.torrent = t /\ a.what # "refused"
    BY <1>1, <1>10 DEF IsNews, Alert
<1>13. LineOK(p, m) /\ \A g : Pending(m, g) => Pending(o, g)
    BY <1>2, <1>9, <1>11, <1>12, LineShrinks
<1>14. NetOK(p, m)
    <2>1. /\ a.what = "refused" <=> a.torrent = 0
          /\ a.torrent # 0 => a.torrent \in DOMAIN o.torrents /\ a.hash = o.torrents[a.torrent].hash
        BY <1>2, <1>4, <1>10, <1>12 DEF Alert
    <2>2. /\ ToSet(m.alerts) = ToSet(o.alerts) \cup {a} /\ m.made = o.made /\ DOMAIN m.torrents = DOMAIN o.torrents
          /\ \A x \in DOMAIN o.torrents : m.torrents[x].hash = o.torrents[x].hash
          /\ \A c \in ToSet(o.calls) : c.what = "remove" => c \in ToSet(m.calls)
        BY <1>6, <1>7, <1>9, <1>11
    <2> QED BY ONLY <1>2, <1>11, <2>1, <2>2, AlertArrives
<1>15. PendingOK(s, m, u, ks)
    BY <1>2, <1>13 DEF PendingOK
<1> QED BY <1>1, <1>13, <1>14, <1>15 DEF Sound

\* What is left of a list when its first entries are gone.
LEMMA CutFacts ==
    ASSUME NEW S, NEW q \in Seq(S), NEW g \in 0..Len(q), IsInjective(q)
    PROVE  LET left == SubSeq(q, g + 1, Len(q)) IN
           /\ left \in Seq(S) /\ IsInjective(left) /\ ToSet(left) = ToSet(q) \ ToSet(SubSeq(q, 1, g))
           /\ g = Len(q) => left = <<>>
           /\ g # 0 => q[g] \in ToSet(q) /\ q[g] \notin ToSet(left)
<1> DEFINE left == SubSeq(q, g + 1, Len(q))
           gone == SubSeq(q, 1, g)
           n == Len(q)
<1>1. /\ n \in Nat /\ g \in Nat /\ g <= n /\ DOMAIN q = 1..n /\ \A k \in 1..n : q[k] \in S
      /\ left \in Seq(S) /\ DOMAIN left = 1..(n - g) /\ \A k \in 1..(n - g) : left[k] = q[g + k]
    OBVIOUS
<1>2. DOMAIN gone = 1..g /\ \A k \in 1..g : gone[k] = q[k]
    OBVIOUS
<1>3. \A j, k \in 1..n : q[j] = q[k] => j = k
    BY <1>1 DEF IsInjective
<1>4. g = n => left = <<>>
    OBVIOUS
<1> HIDE DEF left, gone, n
<1>5. IsInjective(left)
    <2>1. ASSUME NEW j \in 1..(n - g), NEW k \in 1..(n - g), left[j] = left[k] PROVE j = k
        <3>1. g + j \in 1..n /\ g + k \in 1..n /\ q[g + j] = q[g + k]
            BY <1>1, <2>1
        <3>2. g + j = g + k
            BY <1>3, <3>1
        <3> QED BY <1>1, <3>2
    <2> QED BY <1>1, <2>1 DEF IsInjective
<1>6. ToSet(left) = ToSet(q) \ ToSet(gone)
    <2>1. ASSUME NEW e \in ToSet(left) PROVE e \in ToSet(q) /\ e \notin ToSet(gone)
        <3>1. PICK k \in 1..(n - g) : e = q[g + k]
            BY <1>1, <2>1 DEF ToSet
        <3>2. g + k \in 1..n /\ \A j \in 1..g : j # g + k /\ j \in 1..n
            BY <1>1
        <3> QED BY <1>1, <1>2, <1>3, <3>1, <3>2 DEF ToSet
    <2>2. ASSUME NEW e \in ToSet(q), e \notin ToSet(gone) PROVE e \in ToSet(left)
        <3>1. PICK j \in 1..n : e = q[j]
            BY <1>1 DEF ToSet
        <3>2. j \notin 1..g
            BY <1>2, <2>2, <3>1 DEF ToSet
        <3>3. j - g \in 1..(n - g) /\ g + (j - g) = j
            BY <1>1, <3>2
        <3> QED BY <1>1, <3>1, <3>3 DEF ToSet
    <2> QED BY <2>1, <2>2
<1>7. g # 0 => q[g] \in ToSet(q) /\ q[g] \notin ToSet(left)
    <2>1. g # 0 => g \in 1..n /\ g \in 1..g
        BY <1>1
    <2> QED BY <1>1, <1>2, <1>6, <2>1 DEF ToSet
<1> QED BY <1>1, <1>4, <1>5, <1>6, <1>7 DEF left, gone, n

\* The queue is pumped: a free probe takes the first link that can be parsed.
LEMMA PumpSound ==
    ASSUME NEW s, NEW p, NEW n, NEW rs, NEW u, NEW ks, Sound(s, p, n, rs, u, ks), PumpQueue(s, p, n), probing' \in BOOLEAN
    PROVE  Sound(tasks', probe', net', rs, u, ks) /\ (probing' /\ ~probe'.busy => tasks'.queue = <<>>)
<1> DEFINE good == SelectInSeq(s.queue, LAMBDA h : h \in Hashes \ Unparsed)
           gone == IF good = 0 THEN Len(s.queue) ELSE good
           left == [s EXCEPT !.queue = SubSeq(@, gone + 1, Len(@)), !.queued = @ \ ToSet(SubSeq(s.queue, 1, gone))]
<1>1. PICK z, q, m, on : z = tasks' /\ q = probe' /\ m = net' /\ on = probing'
    OBVIOUS
<1>2. IF ~on \/ p.busy
      THEN z = s /\ q = p /\ m = n
      ELSE IF good = 0
      THEN z = left /\ q = p /\ m = n
      ELSE /\ z = [left EXCEPT !.flying = @ \cup {s.queue[good]}, !.current = s.queue[good]]
           /\ q = Started(p, s.queue[good])
           /\ m = Called(n, "add", s.queue[good])
    BY <1>1, Zenon DEF PumpQueue
<1>3. /\ TasksOK(s) /\ ProbeOK(p, s, rs) /\ NetOK(p, n) /\ LineOK(p, n) /\ PendingOK(s, n, u, ks)
      /\ s \in TaskLists /\ p \in Probes /\ n \in Nets
    BY DEF Sound, TasksOK, ProbeOK, HasTask, Posted, Once, NetOK
<1> SUFFICES Sound(z, q, m, rs, u, ks) /\ (on /\ ~q.busy => z.queue = <<>>)
    BY <1>1
<1>4. CASE ~on \/ p.busy
    BY <1>2, <1>4
<1>5. ASSUME on, ~p.busy
      PROVE  Sound(z, q, m, rs, u, ks) /\ (on /\ ~q.busy => z.queue = <<>>)
    <2>1. s.queue \in Seq(Hashes) /\ s.queued = ToSet(s.queue) /\ IsInjective(s.queue)
        BY <1>3 DEF TasksOK, TaskLists
    <2>2. good = 0 \/ (good \in 1..Len(s.queue) /\ good # 0)
        <3> DEFINE T == Hashes \ Unparsed
                   first == SelectInSeq(s.queue, LAMBDA e : e \in T)
        <3>1. first = good
            BY Zenon DEF T
        <3>2. LET j == SelectInSeq(s.queue, LAMBDA e : e \in T) IN
              IF ToSet(s.queue) \cap T = {} THEN j = 0 ELSE j \in 1..Len(s.queue) /\ s.queue[j] \in T
            <4> HIDE DEF good, gone, left, T, first
            <4> QED BY <2>1, FirstFacts
        <3>3. first = 0 \/ first \in 1..Len(s.queue)
            <4> HIDE DEF good, T
            <4> QED BY <3>2
        <3> HIDE DEF good, first
        <3>4. Len(s.queue) \in Nat
            BY <2>1
        <3> QED BY <3>1, <3>3, <3>4
    <2> HIDE DEF good
    <2>3. gone \in 0..Len(s.queue) /\ Len(s.queue) \in Nat
        BY <2>1, <2>2
    <2>4. PICK g, r, gs : g = gone /\ r = SubSeq(s.queue, gone + 1, Len(s.queue)) /\ gs = s.queued \ ToSet(SubSeq(s.queue, 1, gone))
        OBVIOUS
    <2>5. /\ r \in Seq(Hashes) /\ IsInjective(r) /\ gs = ToSet(r) /\ gs \subseteq s.queued
          /\ g = Len(s.queue) => r = <<>>
          /\ g # 0 => s.queue[g] \in s.queued /\ s.queue[g] \notin gs
        <3> HIDE DEF gone
        <3> QED BY <2>1, <2>3, <2>4, CutFacts
    <2>6. left = [s EXCEPT !.queue = r, !.queued = gs]
        BY <1>3, <2>4 DEF TaskLists
    <2>7. PICK l : l = left
        OBVIOUS
    <2>8. /\ l \in TaskLists /\ l.queue = r /\ l.queued = gs /\ l.flying = s.flying /\ l.current = s.current
        BY <1>3, <2>1, <2>5, <2>6, <2>7 DEF TaskLists
    <2>9. s.current = Nobody /\ s.flying = {} /\ p.handle = 0 /\ ~p.polls
        BY <1>3, <1>5 DEF TasksOK, ProbeOK, HasTask, Posted, Once
    <2>10. CASE good = 0
        <3>1. z = l /\ q = p /\ m = n /\ r = <<>>
            BY <1>2, <1>5, <2>4, <2>5, <2>7, <2>10
        <3>2. TasksOK(z)
            BY <1>3, <2>5, <2>8, <3>1 DEF TasksOK
        <3>3. ProbeOK(q, z, rs)
            BY <1>3, <2>8, <3>1 DEF ProbeOK, HasTask, Posted, Once
        <3>4. PendingOK(z, m, u, ks)
            BY <1>3, <2>5, <2>8, <3>1 DEF PendingOK
        <3> QED BY <1>3, <2>8, <3>1, <3>2, <3>3, <3>4 DEF Sound
    <2>11. CASE good # 0
        <3>1. PICK h : h = s.queue[g]
            OBVIOUS
        <3>2. h \in s.queued /\ h \notin gs /\ h \in Hashes /\ h # Nobody /\ g = good
            BY <1>3, <2>1, <2>2, <2>4, <2>5, <2>11, <3>1, KindAssumption DEF TaskLists
        <3>3. z = [l EXCEPT !.flying = @ \cup {h}, !.current = h] /\ q = Started(p, h) /\ m = Called(n, "add", h)
            <4> HIDE DEF left
            <4> QED BY <1>2, <1>5, <2>7, <2>11, <3>1, <3>2
        <3>4. /\ z \in TaskLists /\ z.queue = r /\ z.queued = gs /\ z.flying = {h} /\ z.current = h
            BY <2>8, <2>9, <3>2, <3>3 DEF TaskLists
        <3>5. /\ q \in Probes /\ q.busy /\ q.hash = h /\ q.handle = 0 /\ q.generation = p.generation /\ q.polls /\ ~q.idles
            BY <1>3, <3>2, <3>3 DEF Started, Probes
        <3>6. PICK c : c = [what |-> "add", about |-> h]
            OBVIOUS
        <3>7. c \in NetCalls /\ c.what = "add" /\ c.about = h
            BY <3>2, <3>6 DEF NetCalls
        <3>8. /\ m \in Nets /\ m.calls = Append(n.calls, c) /\ ToSet(m.calls) = ToSet(n.calls) \cup {c}
              /\ m.alerts = n.alerts /\ m.torrents = n.torrents /\ m.made = n.made
            BY <1>3, <3>3, <3>6, <3>7, CalledFacts
        <3>9. TasksOK(z)
            BY <2>5, <3>2, <3>4 DEF TasksOK
        <3>10. ProbeOK(q, z, rs)
            <4>1. \A o \in ToSet(rs) : o.generation <= p.generation /\ o.generation # p.generation
                BY <1>3, <1>5 DEF ProbeOK, HasTask, Posted, Once
            <4>2. \A j \in DOMAIN rs : rs[j] \in ToSet(rs)
                BY DEF ToSet
            <4>3. rs \in Seq(Posts)
                BY <1>3 DEF ProbeOK, HasTask, Posted, Once
            <4> QED BY <3>2, <3>4, <3>5, <4>1, <4>2, <4>3 DEF ProbeOK, HasTask, Posted, Once
        <3>11. ~Pending(n, h)
            BY <1>3, <3>2 DEF PendingOK
        <3>12. NetOK(q, m)
            <4>1. \A t \in DOMAIN m.torrents : Held(q, m, t)
                <5> SUFFICES ASSUME NEW t \in DOMAIN m.torrents PROVE Held(q, m, t)
                    OBVIOUS
                <5>1. Held(p, n, t) /\ t # 0
                    BY <1>3, <3>8 DEF NetOK
                <5> QED BY <2>9, <3>8, <5>1 DEF Held
            <4>2. q.handle \in 0..m.made
                BY <1>3, <3>5, <3>8 DEF Nets
            <4> QED BY <1>3, <3>5, <3>8, <4>1, <4>2 DEF NetOK
        <3>13. LineOK(q, m)
            <4>1. \A a \in ToSet(m.alerts) : ~(IsNews(a) /\ a.hash = h)
                BY <3>8, <3>11 DEF Pending
            <4>2. \A k \in DOMAIN m.alerts : ~(IsNews(m.alerts[k]) /\ m.alerts[k].hash = q.hash)
                BY <3>5, <4>1 DEF ToSet
            <4>3. \A e \in ToSet(n.calls) : ~(e.what = "add" /\ e.about = h)
                BY <3>11 DEF Pending
            <4>4. \A k \in DOMAIN n.calls : ~(n.calls[k].what = "add" /\ n.calls[k].about = h)
                BY <4>3 DEF ToSet
            <4>5. n.calls \in Seq(NetCalls)
                BY <1>3 DEF Nets
            <4>6. /\ Len(n.calls) \in Nat /\ DOMAIN m.calls = 1..(Len(n.calls) + 1)
                  /\ \A k \in DOMAIN m.calls : (k \in DOMAIN n.calls /\ m.calls[k] = n.calls[k]) \/ k = Len(n.calls) + 1
                <5> HIDE DEF NetCalls
                <5> QED BY <3>7, <3>8, <4>5
            <4>7. ASSUME NEW k \in DOMAIN m.calls, m.calls[k].what = "add", m.calls[k].about = q.hash, NEW j \in DOMAIN m.calls, j > k
                  PROVE  FALSE
                <5>1. k = Len(n.calls) + 1
                    BY <3>5, <4>4, <4>6, <4>7
                <5> QED BY <4>6, <4>7, <5>1
            <4> QED BY <3>5, <4>2, <4>7 DEF LineOK
        <3>14. PendingOK(z, m, u, ks)
            <4>1. ASSUME NEW x \in Hashes, Pending(m, x)
                  PROVE  x \notin z.queued /\ x \in z.flying \cup u \cup ks
                <5>1. x = h \/ Pending(n, x)
                    BY <3>7, <3>8, <4>1 DEF Pending
                <5> QED BY <1>3, <2>5, <2>9, <3>2, <3>4, <5>1 DEF PendingOK
            <4>2. z.queued \cap ks = {} /\ z.flying \cap ks = {}
                BY <1>3, <2>5, <3>2, <3>4 DEF PendingOK
            <4> QED BY <4>1, <4>2 DEF PendingOK
        <3> QED BY <3>5, <3>9, <3>10, <3>12, <3>13, <3>14 DEF Sound
    <2> QED BY <2>10, <2>11
<1>6. p.busy \in BOOLEAN /\ on \in BOOLEAN
    BY <1>1, <1>3 DEF Probes
<1> QED BY <1>4, <1>5, <1>6

\* What the tasks are after hashes are enqueued.
Enqueued(z, s, hs) ==
    TasksOK(z) /\ z.flying = s.flying /\ z.current = s.current /\ z.queued \subseteq s.queued \cup (hs \ s.flying)

\* A hash is queued unless it is queued or in flight.
LEMMA EnqueueFacts ==
    ASSUME NEW s, NEW z, NEW hs \in SUBSET Hashes, Enqueued(z, s, hs), NEW h \in hs, NEW front \in BOOLEAN
    PROVE  Enqueued(EnqueueTask(z, h, front), s, hs)
<1>1. /\ z \in TaskLists /\ z.queue \in Seq(Hashes) /\ z.queued = ToSet(z.queue) /\ IsInjective(z.queue)
      /\ z.flying = {z.current} \ {Nobody} /\ z.queued \cap z.flying = {} /\ h \in Hashes
    BY DEF Enqueued, TasksOK, TaskLists
<1>2. CASE h \in z.queued \cup z.flying
    BY <1>2 DEF EnqueueTask
<1>3. CASE h \notin z.queued \cup z.flying
    <2>1. PICK q : q = IF front THEN <<h>> \o z.queue ELSE Append(z.queue, h)
        OBVIOUS
    <2>2. q \in Seq(Hashes) /\ ToSet(q) = z.queued \cup {h} /\ IsInjective(q)
        <3>1. CASE front
            <4>1. <<h>> \in Seq(Hashes) /\ ToSet(<<h>>) = {h} /\ IsInjective(<<h>>)
                BY <1>1, OneFacts
            <4>2. PICK o : o = <<h>>
                OBVIOUS
            <4>3. ToSet(o) \cap ToSet(z.queue) = {}
                BY <1>1, <1>3, <4>1, <4>2
            <4>4. q = o \o z.queue
                BY <2>1, <3>1, <4>2
            <4>5. o \in Seq(Hashes) /\ ToSet(o) = {h} /\ IsInjective(o)
                BY <4>1, <4>2
            <4>6. /\ o \o z.queue \in Seq(Hashes) /\ ToSet(o \o z.queue) = ToSet(o) \cup ToSet(z.queue)
                  /\ IsInjective(o \o z.queue)
                BY <1>1, <4>3, <4>5, ConcatFacts
            <4> QED BY <1>1, <4>4, <4>5, <4>6
        <3>2. CASE ~front
            <4>1. q = Append(z.queue, h) /\ h \notin ToSet(z.queue)
                BY <1>1, <1>3, <2>1, <3>2
            <4> QED BY <1>1, <4>1, AppendFacts
        <3> QED BY <3>1, <3>2
    <2>3. PICK y : y = EnqueueTask(z, h, front)
        OBVIOUS
    <2>4. y = [z EXCEPT !.queued = @ \cup {h}, !.queue = q]
        BY <1>3, <2>1, <2>3 DEF EnqueueTask
    <2>5. /\ y \in TaskLists /\ y.queue = q /\ y.queued = z.queued \cup {h}
          /\ y.flying = z.flying /\ y.current = z.current
        BY <1>1, <2>2, <2>4 DEF TaskLists
    <2>6. TasksOK(y)
        BY <1>1, <1>3, <2>2, <2>5 DEF TasksOK
    <2> QED BY <1>3, <2>3, <2>5, <2>6 DEF Enqueued
<1> QED BY <1>2, <1>3

\* Hashes that are asked for are not those the session still has to tell about.
LEMMA RenewedSound ==
    ASSUME NEW s, NEW p, NEW rs, NEW u, NEW ks, Sound(s, p, net, rs, u, ks), NEW hs \in SUBSET Hashes,
           hs \cap ks = {}, \A h \in hs \cap u : ~Untold(h), NEW z, Enqueued(z, s, hs)
    PROVE  Sound(z, p, net, rs, u \ hs, ks)
<1>1. TasksOK(s) /\ ProbeOK(p, s, rs) /\ NetOK(p, net) /\ LineOK(p, net) /\ PendingOK(s, net, u, ks)
    BY DEF Sound
<1>2. TasksOK(z) /\ z.flying = s.flying /\ z.current = s.current /\ z.queued \subseteq s.queued \cup (hs \ s.flying)
    BY DEF Enqueued
<1>3. ProbeOK(p, z, rs)
    BY <1>1, <1>2 DEF ProbeOK, HasTask, Posted, Once
<1>4. ASSUME NEW h \in Hashes, Pending(net, h) PROVE Untold(h)
    BY <1>4 DEF Pending, Untold
<1>5. ASSUME NEW h \in Hashes, Pending(net, h)
      PROVE  h \notin z.queued /\ h \in z.flying \cup (u \ hs) \cup ks
    <2>1. h \notin s.queued /\ h \in s.flying \cup u \cup ks
        BY <1>1, <1>5 DEF PendingOK
    <2>2. h \in hs => h \notin u
        BY <1>4, <1>5
    <2> QED BY <1>2, <2>1, <2>2
<1>6. z.queued \cap ks = {} /\ z.flying \cap ks = {}
    BY <1>1, <1>2 DEF PendingOK
<1>7. PendingOK(z, net, u \ hs, ks)
    BY <1>5, <1>6 DEF PendingOK
<1> QED BY <1>1, <1>2, <1>3, <1>7 DEF Sound

\* A call of the service that asks for hashes keeps what is promised.
Asked(hs) ==
    /\ hs \subseteq Hashes /\ hs \cap DOMAIN kinds = {} /\ Again = FALSE
    /\ \E z : Enqueued(z, tasks, hs) /\ PumpQueue(z, probe, net)
    /\ Renewed(hs) /\ Asking /\ probing' = probing
\* The queue is pumped after it.
LEMMA AskedSound ==
    ASSUME KindInv, NEW hs, Asked(hs)
    PROVE  KindInv'
<1>1. PICK z : Enqueued(z, tasks, hs) /\ PumpQueue(z, probe, net)
    BY DEF Asked
<1>2. hs \in SUBSET Hashes /\ hs \cap DOMAIN kinds = {} /\ \A h \in hs \cap unknown : ~Untold(h)
    BY DEF Asked, Renewed
<1>3. Sound(tasks, probe, net, results, unknown, DOMAIN kinds)
    BY DEF KindInv
<1>4. PICK ks, rs, u : ks = DOMAIN kinds /\ rs = results /\ u = unknown \ hs
    OBVIOUS
<1>5. Sound(z, probe, net, rs, u, ks)
    BY <1>1, <1>2, <1>3, <1>4, RenewedSound
<1>6. probing' \in BOOLEAN /\ probing' = probing
    BY DEF Asked, KindInv
<1>7. Sound(tasks', probe', net', rs, u, ks) /\ (probing' /\ ~probe'.busy => tasks'.queue = <<>>)
    BY <1>1, <1>5, <1>6, PumpSound
<1>8. u = unknown' /\ rs = results' /\ kinds' = kinds /\ kindsFile' = kindsFile
    BY <1>4 DEF Asked, Renewed, Asking
<1>9. KindsTrue'
    BY <1>8 DEF KindInv, KindsTrue
<1>10. DOMAIN kinds' = ks
    BY <1>4, <1>8
<1>11. Sound(tasks, probe, net, results, unknown, DOMAIN kinds)'
    BY <1>7, <1>8, <1>10
<1> QED BY <1>6, <1>7, <1>9, <1>11 DEF KindInv

\* A link that is looked at goes to the front.
LEMMA PrioritizeSound ==
    ASSUME Again = FALSE, KindInv, NEW h \in Hashes, PrioritizeEntry(h)
    PROVE  KindInv'
<1>1. TasksOK(tasks)
    BY DEF KindInv, Sound
<1>2. Enqueued(tasks, tasks, {h}) /\ {h} \in SUBSET Hashes
    BY <1>1 DEF Enqueued
<1>3. Enqueued(EnqueueTask(tasks, h, TRUE), tasks, {h})
    BY <1>2, EnqueueFacts
<1>4. Asked({h})
    BY <1>3 DEF Asked, PrioritizeEntry
<1> QED BY <1>4, AskedSound

\* The catalog is queued: what the search matches first, then the rest.
LEMMA CatalogSound ==
    ASSUME Again = FALSE, KindInv, NEW searching \in BOOLEAN, QueueCatalog(searching)
    PROVE  KindInv'
<1> DEFINE Uncached(hs) == Only(hs, Hashes \ DOMAIN kinds)
           hits == [k \in 1..Len(Searched) |-> Entries[Searched[k]]]
           first == IF searching THEN Uncached(hits) ELSE <<>>
           all == first \o Uncached(Entries)
           n == IF Len(all) < MaxNewTasks THEN Len(all) ELSE MaxNewTasks
           new == [k \in 1..n |-> [hash |-> all[k], front |-> k <= Len(first)]]
           Is(f) == f = [k \in 0..Len(new) |->
                            IF k = 0 THEN tasks ELSE EnqueueTask(f[k - 1], new[k].hash, new[k].front)]
           hs == {task.hash : task \in ToSet(new)}
<1>1. PICK f : f = CHOOSE g : Is(g)
    OBVIOUS
<1>2. /\ probing' = probing /\ Renewed(hs) /\ Asking
    BY DEF QueueCatalog
<1>3. PumpQueue(f[Len(new)], probe, net)
    BY <1>1, Zenon DEF QueueCatalog
<1>4. first \in Seq(Hashes) /\ ToSet(first) \subseteq Hashes \ DOMAIN kinds
    <2>1. hits \in Seq(Hashes)
        <3>1. Entries \in Seq(Hashes) /\ Searched \in Seq(DOMAIN Entries)
            BY KindAssumption
        <3>2. \A k \in 1..Len(Searched) : Entries[Searched[k]] \in Hashes
            BY <3>1
        <3> QED BY <3>1, <3>2
    <2>2. PICK o, keep : o = hits /\ keep = Hashes \ DOMAIN kinds
        OBVIOUS
    <2>3. Only(o, keep) \in Seq(Hashes) /\ ToSet(Only(o, keep)) = ToSet(o) \cap keep
        <3> HIDE DEF hits
        <3> QED BY <2>1, <2>2, OnlyFacts
    <2>4. <<>> \in Seq(Hashes) /\ ToSet(<<>>) = {}
        BY DEF ToSet
    <2>5. first = Only(o, keep) \/ first = <<>>
        <3> HIDE DEF hits
        <3> QED BY <2>2
    <2> HIDE DEF first
    <2> QED BY <2>2, <2>3, <2>4, <2>5
<1>5. PICK rest : rest = Uncached(Entries)
    OBVIOUS
<1>6. rest \in Seq(Hashes) /\ ToSet(rest) \subseteq Hashes \ DOMAIN kinds
    <2>1. PICK keep : keep = Hashes \ DOMAIN kinds
        OBVIOUS
    <2>2. Only(Entries, keep) \in Seq(Hashes) /\ ToSet(Only(Entries, keep)) = ToSet(Entries) \cap keep
        BY KindAssumption, OnlyFacts
    <2> QED BY <1>5, <2>1, <2>2
<1>7. all \in Seq(Hashes) /\ ToSet(all) \subseteq Hashes \ DOMAIN kinds
    <2>1. all = first \o rest
        BY <1>5
    <2> HIDE DEF all, first
    <2>2. first \o rest \in Seq(Hashes) /\ ToSet(first \o rest) = ToSet(first) \cup ToSet(rest)
        BY <1>4, <1>6, ConcatFacts
    <2> QED BY <1>4, <1>6, <2>1, <2>2
<1> HIDE DEF all, first
<1>8. n \in Nat /\ n <= Len(all) /\ Len(all) \in Nat /\ Len(first) \in Nat
    BY <1>4, <1>7, KindAssumption
<1>9. \A k \in 1..n : all[k] \in Hashes \ DOMAIN kinds
    <2>1. \A k \in 1..n : k \in DOMAIN all
        BY <1>7, <1>8
    <2> QED BY <1>7, <2>1 DEF ToSet
<1> HIDE DEF n
<1>10. /\ Len(new) = n /\ DOMAIN new = 1..n
       /\ \A k \in 1..n : new[k].hash = all[k] /\ new[k].front \in BOOLEAN /\ new[k] \in ToSet(new)
    <2>1. \A k \in 1..n : (k <= Len(first)) \in BOOLEAN
        BY <1>8
    <2>2. DOMAIN new = 1..n /\ \A k \in 1..n : new[k] = [hash |-> all[k], front |-> k <= Len(first)]
        OBVIOUS
    <2>3. Len(new) = n
        BY <1>8
    <2>4. ASSUME NEW k \in 1..n PROVE new[k].hash = all[k] /\ new[k].front \in BOOLEAN
        <3> HIDE DEF new
        <3>1. PICK b : b = (k <= Len(first))
            OBVIOUS
        <3>2. b \in BOOLEAN
            BY <2>1, <3>1, Zenon
        <3>3. new[k] = [hash |-> all[k], front |-> b]
            BY <2>2, <3>1, Zenon
        <3> QED BY <3>2, <3>3
    <2> HIDE DEF new
    <2> QED BY <2>2, <2>3, <2>4 DEF ToSet
<1>11. hs \in SUBSET Hashes /\ hs \cap DOMAIN kinds = {}
    BY <1>9, <1>10 DEF ToSet
<1>12. \A k \in 1..n : new[k].hash \in hs
    BY <1>10
<1>13. PICK l, H : l = Len(new) /\ H = hs
    OBVIOUS
<1> DEFINE A == {k \in 0..n : Enqueued(f[k], tasks, H)}
<1>14. f = [k \in 0..n |-> IF k = 0 THEN tasks ELSE EnqueueTask(f[k - 1], new[k].hash, new[k].front)]
    <2> DEFINE X == {z \in TaskLists : Enqueued(z, tasks, H)}
               step == [kx \in (1..n) \X X |-> EnqueueTask(kx[2], new[kx[1]].hash, new[kx[1]].front)]
    <2>1. tasks \in X
        BY DEF KindInv, Sound, TasksOK, Enqueued
    <2>2. ASSUME NEW k \in 1..n, NEW z \in X PROVE EnqueueTask(z, new[k].hash, new[k].front) \in X
        <3>1. PICK h, y, front : h = new[k].hash /\ front = new[k].front /\ y = EnqueueTask(z, h, front)
            OBVIOUS
        <3>2. h \in H /\ front \in BOOLEAN /\ H \in SUBSET Hashes
            <4> HIDE DEF new, hs
            <4> QED BY <1>10, <1>11, <1>12, <1>13, <3>1
        <3>3. Enqueued(y, tasks, H)
            BY <3>1, <3>2, EnqueueFacts
        <3>4. y \in TaskLists
            BY <3>3 DEF Enqueued, TasksOK
        <3> HIDE DEF new
        <3> QED BY <3>1, <3>3, <3>4
    <2> HIDE DEF X, new
    <2>3. step \in [Turns(n, X) -> X]
        BY <2>2 DEF Turns
    <2>4. PICK g : Made(g, n, X, tasks, step)
        <3> HIDE DEF step
        <3> QED BY <1>8, <2>1, <2>3, Stepwise
    <2>5. /\ g = [k \in 0..n |-> g[k]] /\ g[0] = tasks
          /\ \A k \in 1..n : k - 1 \in 0..n /\ g[k - 1] \in X /\ g[k] = step[<<k, g[k - 1]>>]
        <3> HIDE DEF step
        <3> QED BY <1>8, <2>4 DEF Made
    <2>6. \A k \in 1..n : g[k] = EnqueueTask(g[k - 1], new[k].hash, new[k].front)
        BY <2>5
    <2>7. g = [k \in 0..n |-> IF k = 0 THEN tasks ELSE EnqueueTask(g[k - 1], new[k].hash, new[k].front)]
        <3> HIDE DEF step
        <3>1. \A k \in 0..n : g[k] = IF k = 0 THEN tasks ELSE EnqueueTask(g[k - 1], new[k].hash, new[k].front)
            <4> SUFFICES ASSUME NEW k \in 0..n
                         PROVE  g[k] = IF k = 0 THEN tasks ELSE EnqueueTask(g[k - 1], new[k].hash, new[k].front)
                OBVIOUS
            <4>1. CASE k = 0
                BY <2>5, <4>1
            <4>2. CASE k # 0
                <5>1. k \in 1..n
                    BY <1>8, <4>2
                <5> QED BY <2>6, <4>2, <5>1
            <4> QED BY <4>1, <4>2
        <3> QED BY <2>5, <3>1
    <2>8. Is(g)
        BY <1>10, <2>7
    <2>9. Is(f)
        BY <1>1, <2>8, Zenon
    <2> QED BY <1>10, <2>9
<1>15. f[0] = tasks /\ \A k \in 1..n : f[k] = EnqueueTask(f[k - 1], new[k].hash, new[k].front)
    <2> HIDE DEF new
    <2> QED BY <1>8, <1>14
<1>16. 0 \in A
    BY <1>8, <1>15 DEF KindInv, Sound, TasksOK, Enqueued
<1>17. ASSUME NEW k \in 0..(n - 1), k \in A PROVE k + 1 \in A
    <2>1. k + 1 \in 1..n /\ (k + 1) - 1 = k /\ k + 1 \in 0..n
        BY <1>8
    <2>2. PICK j, h, front : j = k + 1 /\ h = new[j].hash /\ front = new[j].front
        OBVIOUS
    <2> HIDE DEF new, hs
    <2>3. f[j] = EnqueueTask(f[k], h, front)
        BY <1>15, <2>1, <2>2
    <2>4. h \in H /\ front \in BOOLEAN /\ H \in SUBSET Hashes
        BY <1>10, <1>11, <1>12, <1>13, <2>1, <2>2
    <2>5. Enqueued(f[k], tasks, H)
        BY <1>17
    <2>6. Enqueued(f[j], tasks, H)
        BY <2>3, <2>4, <2>5, EnqueueFacts
    <2> QED BY <2>1, <2>2, <2>6
<1>18. Enqueued(f[l], tasks, H)
    <2> HIDE DEF A, new
    <2>1. \A k \in 0..n : k \in A
        BY <1>8, <1>16, <1>17, Upward
    <2>2. l \in 0..n
        BY <1>8, <1>10, <1>13
    <2> QED BY <2>1, <2>2 DEF A
<1>19. Asked(H)
    <2> HIDE DEF new, hs
    <2>1. Renewed(H)
        BY <1>2, <1>13
    <2>2. PumpQueue(f[l], probe, net)
        BY <1>3, <1>13
    <2> QED BY <1>2, <1>11, <1>13, <1>18, <2>1, <2>2 DEF Asked
<1> QED BY <1>19, AskedSound

\* Without a session there is nothing to tell and nothing to remove.
LEMMA NoSessionFacts ==
    /\ NoSession \in Nets /\ NoSession.torrents = <<>> /\ NoSession.calls = <<>> /\ NoSession.alerts = <<>>
    /\ \A h : ~Pending(NoSession, h)
    /\ \A p : p.handle = 0 => NetOK(p, NoSession)
<1>1. <<>> \in UNION {[D -> NetTorrents] : D \in SUBSET Nat}
    <2>1. <<>> \in [{} -> NetTorrents]
        OBVIOUS
    <2> QED BY <2>1
<1>2. PICK e : e = <<>>
    OBVIOUS
<1>3. e \in UNION {[D -> NetTorrents] : D \in SUBSET Nat} /\ DOMAIN e = {} /\ ToSet(e) = {} /\ e \in Seq(NetCalls) /\ e \in Seq(NetAlerts)
    <2> HIDE DEF NetTorrents, NetCalls, NetAlerts
    <2> QED BY <1>1, <1>2 DEF ToSet
<1>4. NoSession = [calls |-> e, alerts |-> e, torrents |-> e, made |-> 0]
    BY <1>2 DEF NoSession
<1>5. NoSession \in Nets
    <2> HIDE DEF NetTorrents, NetCalls, NetAlerts
    <2> QED BY <1>3, <1>4 DEF Nets
<1>6. NoSession.torrents = e /\ NoSession.calls = e /\ NoSession.alerts = e /\ NoSession.made = 0
    BY <1>4
<1>7. \A h : ~Pending(NoSession, h)
    BY <1>3, <1>6 DEF Pending
<1>8. ASSUME NEW p, p.handle = 0 PROVE NetOK(p, NoSession)
    BY <1>3, <1>5, <1>6, <1>8 DEF NetOK
<1> QED BY <1>2, <1>5, <1>6, <1>7, <1>8

\* A probe without a session, which no result is for.
LEMMA FreshSound ==
    ASSUME NEW s, TasksOK(s), s.current = Nobody, NEW rs \in Seq(Posts), NEW g \in Nat,
           \A r \in ToSet(rs) : r.generation < g, NEW u, NEW ks, s.queued \cap ks = {}
    PROVE  Sound(s, [Idle EXCEPT !.generation = g], NoSession, rs, u, ks)
<1>1. PICK p : p = [Idle EXCEPT !.generation = g]
    OBVIOUS
<1>2. /\ p \in Probes /\ ~p.busy /\ p.hash = Nobody /\ p.handle = 0 /\ p.generation = g /\ ~p.polls
    BY <1>1 DEF Idle, Probes
<1>3. \A r \in ToSet(rs) : r.generation <= g /\ r.generation # g
    <2> SUFFICES ASSUME NEW r \in ToSet(rs) PROVE r.generation <= g /\ r.generation # g
        OBVIOUS
    <2>1. r \in Posts
        BY DEF ToSet
    <2>2. r.generation \in Nat
        BY <2>1 DEF Posts
    <2> QED BY <2>2
<1>4. \A k \in DOMAIN rs : rs[k] \in ToSet(rs)
    BY DEF ToSet
<1>5. ProbeOK(p, s, rs)
    <2>1. HasTask(p, s)
        BY <1>2 DEF HasTask
    <2>2. Posted(p, s, rs)
        BY <1>2, <1>3 DEF Posted
    <2>3. Once(p, rs)
        BY <1>2, <1>3, <1>4 DEF Once
    <2> QED BY <2>1, <2>2, <2>3 DEF ProbeOK
<1>6. s.flying = {}
    BY DEF TasksOK
<1>7. PendingOK(s, NoSession, u, ks)
    BY <1>6, NoSessionFacts DEF PendingOK
<1>8. NetOK(p, NoSession) /\ LineOK(p, NoSession)
    BY <1>2, NoSessionFacts DEF LineOK
<1> QED BY <1>1, <1>5, <1>7, <1>8 DEF Sound

\* The task is taken from the probe.
Untasked(s) == [s EXCEPT !.current = Nobody, !.flying = @ \ {s.current}]
\* No task is left, and the queue is the same.
LEMMA UntaskedFacts ==
    ASSUME NEW s, TasksOK(s)
    PROVE  /\ TasksOK(Untasked(s)) /\ Untasked(s).current = Nobody /\ Untasked(s).flying = {}
           /\ Untasked(s).queued = s.queued
<1>1. PICK z : z = Untasked(s)
    OBVIOUS
<1>2. s \in TaskLists /\ s.flying \ {s.current} = {}
    BY DEF TasksOK
<1>3. z \in TaskLists /\ z.current = Nobody /\ z.flying = {} /\ z.queued = s.queued /\ z.queue = s.queue
    BY <1>1, <1>2 DEF Untasked, TaskLists
<1> QED BY <1>1, <1>3 DEF TasksOK

\* Probing is switched off and on.
LEMMA SwitchedSound ==
    ASSUME KindInv, SetBackgroundProbesEnabled
    PROVE  KindInv'
<1>1. Sound(tasks, probe, net, results, unknown, DOMAIN kinds) /\ probing \in BOOLEAN
    BY DEF KindInv
<1>2. /\ kinds' = kinds /\ kindsFile' = kindsFile /\ results' = results /\ unknown' = unknown
      /\ probing' = ~probing /\ probing' \in BOOLEAN
    BY <1>1 DEF SetBackgroundProbesEnabled, Asking
<1>3. KindsTrue'
    BY <1>2 DEF KindInv, KindsTrue
<1>4. PICK s, p, n, rs, u, ks : s = tasks /\ p = probe /\ n = net /\ rs = results /\ u = unknown /\ ks = DOMAIN kinds
    OBVIOUS
<1>5. Sound(s, p, n, rs, u, ks)
    BY <1>1, <1>4
<1>6. CASE ~probing
    <2>1. PumpQueue(s, p, n)
        BY <1>4, <1>6 DEF SetBackgroundProbesEnabled
    <2>2. Sound(tasks', probe', net', rs, u, ks) /\ (probing' /\ ~probe'.busy => tasks'.queue = <<>>)
        BY <1>2, <1>5, <2>1, PumpSound
    <2>3. Sound(tasks, probe, net, results, unknown, DOMAIN kinds)'
        BY <1>2, <1>4, <2>2
    <2> QED BY <1>2, <1>3, <2>2, <2>3 DEF KindInv
<1>7. CASE probing
    <2>1. TasksOK(s) /\ ProbeOK(p, s, rs) /\ PendingOK(s, n, u, ks) /\ p \in Probes /\ s \in TaskLists /\ rs \in Seq(Posts)
        BY <1>5 DEF Sound, TasksOK, ProbeOK, HasTask, Posted, Once
    <2>2. PICK z, g : z = tasks' /\ g = p.generation + 1
        OBVIOUS
    <2>3. z = IF ~p.busy THEN s ELSE EnqueueTask(Untasked(s), s.current, TRUE)
        BY <1>4, <1>7, <2>2 DEF SetBackgroundProbesEnabled, Untasked
    <2>4. probe' = [Idle EXCEPT !.generation = g] /\ net' = NoSession
        BY <1>4, <1>7, <2>2 DEF SetBackgroundProbesEnabled, Cancelled
    <2>5. TasksOK(z) /\ z.current = Nobody /\ z.queued \cap ks = {}
        <3>1. CASE ~p.busy
            BY <2>1, <2>3, <3>1 DEF ProbeOK, HasTask, Posted, Once, PendingOK
        <3>2. CASE p.busy
            <4>1. s.current \in Hashes /\ s.flying = {s.current}
                BY <2>1, <3>2 DEF ProbeOK, HasTask, Posted, Once, TasksOK, TaskLists
            <4>2. PICK y, h : y = Untasked(s) /\ h = s.current
                OBVIOUS
            <4>3. TasksOK(y) /\ y.current = Nobody /\ y.flying = {} /\ y.queued = s.queued
                BY <2>1, <4>2, UntaskedFacts
            <4>4. Enqueued(y, y, {h}) /\ {h} \in SUBSET Hashes
                BY <4>1, <4>2, <4>3 DEF Enqueued
            <4>5. Enqueued(z, y, {h})
                <5>1. z = EnqueueTask(y, h, TRUE)
                    BY <2>3, <3>2, <4>2
                <5> QED BY <4>4, <5>1, EnqueueFacts
            <4>6. h \notin ks /\ s.queued \cap ks = {}
                BY <2>1, <4>1, <4>2 DEF PendingOK
            <4> QED BY <4>3, <4>5, <4>6 DEF Enqueued
        <3> QED BY <3>1, <3>2
    <2>6. g \in Nat /\ \A r \in ToSet(rs) : r.generation < g
        <3>1. p.generation \in Nat
            BY <2>1 DEF Probes
        <3>2. ASSUME NEW r \in ToSet(rs) PROVE r.generation \in Nat /\ r.generation <= p.generation
            <4>1. r \in Posts
                BY <2>1 DEF ToSet
            <4> QED BY <2>1, <4>1 DEF ProbeOK, HasTask, Posted, Once, Posts
        <3> QED BY <2>2, <3>1, <3>2
    <2>7. Sound(z, [Idle EXCEPT !.generation = g], NoSession, rs, u, ks)
        BY <2>1, <2>5, <2>6, FreshSound
    <2>8. Sound(tasks, probe, net, results, unknown, DOMAIN kinds)'
        BY <1>2, <1>4, <2>2, <2>4, <2>7
    <2> QED BY <1>2, <1>3, <1>7, <2>8 DEF KindInv
<1> QED BY <1>1, <1>6, <1>7

\* A result is delivered.
LEMMA FinishedSound ==
    ASSUME KindInv, HandleProbeFinished
    PROVE  KindInv'
<1>1. PICK s, p, n, rs, u, ks, r : /\ s = tasks /\ p = probe /\ n = net /\ rs = results /\ u = unknown
                                   /\ ks = DOMAIN kinds /\ r = Head(results)
    OBVIOUS
<1>2. Sound(s, p, n, rs, u, ks) /\ probing \in BOOLEAN /\ (probing /\ ~p.busy => s.queue = <<>>)
    BY <1>1 DEF KindInv
<1>3. /\ TasksOK(s) /\ ProbeOK(p, s, rs) /\ NetOK(p, n) /\ LineOK(p, n) /\ PendingOK(s, n, u, ks)
      /\ p \in Probes /\ s \in TaskLists /\ rs \in Seq(Posts)
    BY <1>2 DEF Sound, TasksOK, ProbeOK, HasTask, Posted, Once
<1>4. rs # <<>> /\ results' = Tail(rs) /\ probing' = probing /\ kindsFile' = kindsFile
    BY <1>1 DEF HandleProbeFinished
<1>5. PICK left : left = Tail(rs)
    OBVIOUS
<1>6. /\ r \in Posts /\ r = rs[1] /\ 1 \in DOMAIN rs /\ left \in Seq(Posts) /\ ToSet(rs) = {r} \cup ToSet(left)
      /\ \A k \in DOMAIN left : k + 1 \in DOMAIN rs /\ left[k] = rs[k + 1] /\ k \in Nat
    <2>1. r \in Posts /\ left \in Seq(Posts) /\ ToSet(rs) = {r} \cup ToSet(left)
        <3> HIDE DEF Posts
        <3> QED BY <1>1, <1>3, <1>4, <1>5, TailFacts
    <2>2. /\ r = rs[1] /\ 1 \in DOMAIN rs
          /\ \A k \in DOMAIN left : k + 1 \in DOMAIN rs /\ left[k] = rs[k + 1] /\ k \in Nat
        <3> HIDE DEF Posts
        <3> QED BY <1>1, <1>3, <1>4, <1>5
    <2> QED BY <2>1, <2>2
<1>7. \A j, k \in DOMAIN left : left[j].generation = p.generation /\ left[k].generation = p.generation => j = k
    <2> SUFFICES ASSUME NEW j \in DOMAIN left, NEW k \in DOMAIN left,
                        left[j].generation = p.generation, left[k].generation = p.generation
                 PROVE  j = k
        OBVIOUS
    <2>1. j + 1 = k + 1
        <3>1. Once(p, rs)
            BY <1>3 DEF ProbeOK
        <3>2. PICK a, b : a = j + 1 /\ b = k + 1
            OBVIOUS
        <3>3. a \in DOMAIN rs /\ b \in DOMAIN rs /\ left[j] = rs[a] /\ left[k] = rs[b]
            BY <1>6, <3>2
        <3> QED BY <3>1, <3>2, <3>3 DEF Once
    <2> QED BY <1>6, <2>1
<1>8. CASE ~Delivered(r)
    <2>1. kinds' = kinds /\ tasks' = s /\ probe' = p /\ net' = n /\ unknown' = u
        BY <1>1, <1>8 DEF HandleProbeFinished
    <2>2. r.generation # p.generation
        BY <1>1, <1>8 DEF Delivered
    <2>3. ProbeOK(p, s, left)
        BY <1>3, <1>6, <1>7, <2>2 DEF ProbeOK, HasTask, Posted, Once
    <2>4. Sound(s, p, n, left, u, ks)
        BY <1>3, <2>3 DEF Sound
    <2>5. Sound(tasks, probe, net, results, unknown, DOMAIN kinds)'
        BY <1>1, <1>4, <1>5, <2>1, <2>4
    <2>6. KindsTrue'
        BY <1>4, <2>1 DEF KindInv, KindsTrue
    <2> QED BY <1>1, <1>2, <1>4, <2>1, <2>5, <2>6 DEF KindInv
<1>9. CASE Delivered(r)
    <2>1. r.generation = p.generation /\ r \in ToSet(rs)
        BY <1>1, <1>6, <1>9 DEF Delivered
    <2>2. p.busy /\ ~p.polls /\ r.names \in {Nobody, s.current} /\ s.current # Nobody /\ s.current \in Hashes
        BY <1>3, <2>1 DEF ProbeOK, HasTask, Posted, Once, TaskLists
    <2>3. PICK told : told = (r.names \in Telling /\ s.current # Nobody)
        OBVIOUS
    <2>4. told => r.names = s.current
        BY <2>2, <2>3, KindAssumption
    <2>5. /\ kinds' = IF told THEN [h \in DOMAIN kinds \cup {s.current} |-> IF h = s.current THEN r.names ELSE kinds[h]] ELSE kinds
          /\ unknown' = IF told THEN u ELSE u \cup {s.current}
          /\ PumpQueue(Untasked(s), [p EXCEPT !.busy = FALSE], n)
        BY <1>1, <1>9, <2>3, Zenon DEF HandleProbeFinished, Untasked
    <2>6. PICK v, kt : v = unknown' /\ kt = DOMAIN kinds'
        OBVIOUS
    <2>7. u \subseteq v /\ ks \subseteq kt /\ kt \subseteq ks \cup {s.current} /\ s.current \in v \cup kt
        BY <1>1, <2>5, <2>6
    <2>8. PICK z, q : z = Untasked(s) /\ q = [p EXCEPT !.busy = FALSE]
        OBVIOUS
    <2>9. TasksOK(z) /\ z.current = Nobody /\ z.flying = {} /\ z.queued = s.queued
        BY <1>3, <2>8, UntaskedFacts
    <2>10. /\ q \in Probes /\ ~q.busy /\ q.hash = p.hash /\ q.handle = p.handle /\ q.generation = p.generation
           /\ ~q.polls
        BY <1>3, <2>2, <2>8 DEF Probes
    <2>11. \A o \in ToSet(left) : o.generation # p.generation
        <3> SUFFICES ASSUME NEW k \in DOMAIN left, left[k].generation = p.generation PROVE FALSE
            BY DEF ToSet
        <3>1. k + 1 = 1
            BY <1>3, <1>6, <2>1 DEF ProbeOK, HasTask, Posted, Once
        <3> QED BY <1>6, <3>1
    <2>12. ProbeOK(q, z, left)
        <3>1. HasTask(q, z)
            BY <1>3, <2>2, <2>9, <2>10 DEF ProbeOK, HasTask
        <3>2. Posted(q, z, left)
            BY <1>3, <1>6, <2>10, <2>11 DEF ProbeOK, Posted
        <3>3. Once(q, left)
            BY <1>7, <2>10 DEF Once
        <3> QED BY <3>1, <3>2, <3>3 DEF ProbeOK
    <2>13. NetOK(q, n)
        BY <1>3, <2>10 DEF NetOK, Held
    <2>14. PendingOK(z, n, v, kt)
        <3>1. s.flying = {s.current} /\ s.current \notin s.queued
            BY <1>3, <2>2 DEF TasksOK
        <3> QED BY <1>3, <2>7, <2>9, <3>1 DEF PendingOK
    <2>15. Sound(z, q, n, left, v, kt)
        BY <2>9, <2>10, <2>12, <2>13, <2>14 DEF Sound, LineOK
    <2>16. Sound(tasks', probe', net', left, v, kt) /\ (probing' /\ ~probe'.busy => tasks'.queue = <<>>)
        <3>1. PumpQueue(z, q, n) /\ probing' \in BOOLEAN
            BY <1>2, <1>4, <2>5, <2>8
        <3> QED BY <2>15, <3>1, PumpSound
    <2>17. KindsTrue'
        <3>1. ASSUME NEW h \in DOMAIN kinds' PROVE kinds'[h] = h
            BY <2>4, <2>5 DEF KindInv, KindsTrue
        <3>2. \A h \in DOMAIN kindsFile' : kindsFile'[h] = h
            BY <1>4 DEF KindInv, KindsTrue
        <3> QED BY <3>1, <3>2 DEF KindsTrue
    <2>18. Sound(tasks, probe, net, results, unknown, DOMAIN kinds)'
        BY <1>4, <1>5, <2>6, <2>16
    <2> QED BY <1>2, <1>4, <2>16, <2>17, <2>18 DEF KindInv
<1> QED BY <1>8, <1>9

\* An idle session is dropped.
LEMMA IdleSound ==
    ASSUME KindInv, IdleTimeout
    PROVE  KindInv'
<1>1. PICK s, p, n, rs, u, ks : s = tasks /\ p = probe /\ n = net /\ rs = results /\ u = unknown /\ ks = DOMAIN kinds
    OBVIOUS
<1>2. /\ TasksOK(s) /\ ProbeOK(p, s, rs) /\ NetOK(p, n) /\ LineOK(p, n) /\ PendingOK(s, n, u, ks) /\ p \in Probes
    BY <1>1 DEF KindInv, Sound, ProbeOK, HasTask, Posted, Once
<1>3. PICK q, m : q = probe' /\ m = net'
    OBVIOUS
<1>4. q = [p EXCEPT !.idles = FALSE] /\ m = (IF p.busy THEN n ELSE NoSession) /\ p.idles
    BY <1>1, <1>3 DEF IdleTimeout
<1>5. /\ q \in Probes /\ q.busy = p.busy /\ q.hash = p.hash /\ q.handle = p.handle /\ q.generation = p.generation
      /\ q.polls = p.polls
    BY <1>2, <1>4 DEF Probes
<1>6. ~p.polls /\ p.handle = 0
    BY <1>2, <1>4 DEF ProbeOK, HasTask, Posted, Once
<1>7. ProbeOK(q, s, rs) /\ LineOK(q, m)
    BY <1>2, <1>5, <1>6 DEF ProbeOK, HasTask, Posted, Once, LineOK
<1>8. NetOK(q, m) /\ PendingOK(s, m, u, ks)
    <2>1. CASE p.busy
        BY <1>2, <1>4, <1>5, <2>1 DEF NetOK, Held
    <2>2. CASE ~p.busy
        BY <1>2, <1>4, <1>5, <1>6, <2>2, NoSessionFacts DEF PendingOK
    <2> QED BY <2>1, <2>2
<1>9. Sound(s, q, m, rs, u, ks)
    BY <1>2, <1>7, <1>8 DEF Sound
<1>10. tasks' = s /\ results' = rs /\ unknown' = u /\ kinds' = kinds /\ kindsFile' = kindsFile /\ probing' = probing
    BY <1>1 DEF IdleTimeout
<1>11. Sound(tasks, probe, net, results, unknown, DOMAIN kinds)'
    BY <1>1, <1>3, <1>9, <1>10
<1>12. KindsTrue' /\ probing' \in BOOLEAN
    BY <1>10 DEF KindInv, KindsTrue
<1>13. probing' /\ ~probe'.busy => tasks'.queue = <<>>
    BY <1>1, <1>3, <1>5, <1>10 DEF KindInv
<1> QED BY <1>11, <1>12, <1>13 DEF KindInv

\* Nothing asked, nothing known.
LEMMA RestSound ==
    ASSUME NEW ks
    PROVE  Sound(NoTasks, Idle, NoSession, <<>>, {}, ks)
<1>1. TasksOK(NoTasks) /\ NoTasks.current = Nobody /\ NoTasks.queued = {}
    BY DEF NoTasks, TasksOK, TaskLists, ToSet, IsInjective
<1>2. ToSet(<<>>) = {} /\ <<>> \in Seq(Posts)
    BY DEF ToSet
<1>3. TasksOK(NoTasks) /\ NoTasks.queued \cap ks = {}
    BY <1>1
<1>4. PICK g, e, u : g = 0 /\ e = <<>> /\ u = {}
    OBVIOUS
<1>5. e \in Seq(Posts) /\ g \in Nat /\ \A r \in ToSet(e) : r.generation < g
    BY <1>2, <1>4
<1>6. Sound(NoTasks, [Idle EXCEPT !.generation = g], NoSession, e, u, ks)
    BY <1>1, <1>3, <1>5, FreshSound
<1>7. [Idle EXCEPT !.generation = g] = Idle
    <2>1. Idle.generation = g
        BY <1>4 DEF Idle
    <2>2. Idle \in Probes
        BY DEF Idle, Probes
    <2> QED BY <2>1, <2>2 DEF Probes
<1> QED BY <1>4, <1>6, <1>7

\* What a poll has heard of the first alerts of a session.
Hearings == [over : BOOLEAN, names : Hashes \cup {Nobody}, handle : Nat, net : Nets]
Longer(c, d) ==
    /\ ToSet(d) \subseteq ToSet(c)
    /\ \A j \in DOMAIN c : (j \in DOMAIN d /\ c[j] = d[j]) \/ c[j].what # "add"
Removes(n, t) == \E call \in ToSet(n.calls) : call.what = "remove" /\ call.about = t
AddedFor(p, a, t) == a.what = "added" /\ a.hash = p.hash /\ a.torrent = t
Later(n, k) == \A j \in DOMAIN n.alerts : j > k => ~IsNews(n.alerts[j])
Same(m, n) == m.alerts = <<>> /\ m.torrents = n.torrents /\ m.made = n.made /\ Longer(m.calls, n.calls)
Heard(p, n, k, w) ==
    /\ w \in Hearings /\ w.names \in {Nobody, p.hash} /\ Same(w.net, n)
    /\ w.handle = p.handle \/ \E i \in 1..k : AddedFor(p, n.alerts[i], w.handle)
    /\ p.handle # 0 => w.handle = p.handle
    /\ \A i \in 1..k : n.alerts[i].what = "added" =>
          n.alerts[i].torrent = w.handle \/ Removes(w.net, n.alerts[i].torrent)
    /\ w.over => Later(n, k)

OfLink(p, n, t) == t \in DOMAIN n.torrents => n.torrents[t].hash = p.hash

\* What the poll takes for its torrent is of its link, and no news come any more.
LEMMA HandleFacts ==
    ASSUME NEW p, NEW n, NEW k \in 0..Len(n.alerts), NEW w, NetOK(p, n), LineOK(p, n), p.polls, Heard(p, n, k, w),
           w.handle # 0
    PROVE  /\ NoAdds(n) /\ Later(n, k)
           /\ \A a \in ToSet(n.alerts) : a.torrent = w.handle => a.hash = p.hash
           /\ OfLink(p, n, w.handle)
           /\ w.handle \in 0..n.made
<1>1. n \in Nets /\ n.alerts \in Seq(NetAlerts) /\ \A j \in DOMAIN n.alerts : n.alerts[j] \in ToSet(n.alerts)
    BY DEF NetOK, Nets, ToSet
<1>2. CASE w.handle = p.handle
    <2>1. Silent(n)
        BY <1>2 DEF LineOK
    <2>2. Later(n, k) /\ NoAdds(n)
        BY <1>1, <2>1 DEF Silent, Later
    <2> QED BY <1>2, <2>2 DEF NetOK, OfLink
<1>3. CASE \E i \in 1..k : AddedFor(p, n.alerts[i], w.handle)
    <2>1. PICK i \in 1..k : AddedFor(p, n.alerts[i], w.handle)
        BY <1>3
    <2>2. PICK a : a = n.alerts[i]
        OBVIOUS
    <2>3. i \in DOMAIN n.alerts /\ i <= k /\ i \in Nat /\ k \in Nat
        <3> HIDE DEF NetAlerts
        <3> QED BY <1>1
    <2>4. a \in ToSet(n.alerts) /\ a.what = "added" /\ a.hash = p.hash /\ a.torrent = w.handle /\ IsNews(a)
        BY <1>1, <2>1, <2>2, <2>3 DEF AddedFor, IsNews
    <2>5. NoAdds(n) /\ \A j \in DOMAIN n.alerts : j > i => ~IsNews(n.alerts[j])
        BY <2>2, <2>3, <2>4 DEF LineOK
    <2>6. Later(n, k)
        <3>1. DOMAIN n.alerts \subseteq Nat
            <4> HIDE DEF NetAlerts
            <4> QED BY <1>1
        <3>2. \A j \in DOMAIN n.alerts : j > k => j > i
            BY <2>3, <3>1
        <3> QED BY <2>5, <3>2 DEF Later
    <2> QED BY <2>4, <2>5, <2>6 DEF NetOK, OfLink
<1> QED BY <1>2, <1>3 DEF Heard

\* A call the poll makes.
LEMMA CallHeard ==
    ASSUME NEW m \in Nets, NEW n \in Nets, Same(m, n), NEW what \in {"remove", "save"}, NEW t \in Nat
    PROVE  LET o == Called(m, what, t) IN
           /\ o \in Nets /\ Same(o, n) /\ (what = "remove" => Removes(o, t))
           /\ \A x : Removes(m, x) => Removes(o, x)
<1>1. PICK c, o : c = [what |-> what, about |-> t] /\ o = Called(m, what, t)
    OBVIOUS
<1>2. c \in NetCalls /\ c.what = what /\ c.about = t
    BY <1>1 DEF NetCalls
<1>3. /\ o \in Nets /\ o.calls = Append(m.calls, c) /\ ToSet(o.calls) = ToSet(m.calls) \cup {c}
      /\ o.alerts = m.alerts /\ o.torrents = m.torrents /\ o.made = m.made
    BY <1>1, <1>2, CalledFacts
<1>4. m.calls \in Seq(NetCalls)
    BY DEF Nets
<1>5. \A j \in DOMAIN o.calls : (j \in DOMAIN m.calls /\ o.calls[j] = m.calls[j]) \/ o.calls[j] = c
    <2> HIDE DEF NetCalls
    <2> QED BY <1>2, <1>3, <1>4
<1>6. Same(o, n)
    BY <1>2, <1>3, <1>5 DEF Same, Longer
<1>7. (what = "remove" => Removes(o, t)) /\ \A x : Removes(m, x) => Removes(o, x)
    BY <1>2, <1>3 DEF Removes
<1> QED BY <1>1, <1>3, <1>6, <1>7

\* Nothing but what is made of the alert changes: the rest of what was heard stays.
LEMMA HeardMore ==
    ASSUME NEW p, NEW n, NEW k \in Nat, NEW j \in Nat, j = k + 1, NEW w, Heard(p, n, k, w), NEW y \in Hearings,
           y.names \in {Nobody, p.hash}, Same(y.net, n), y.handle = w.handle,
           \A x : Removes(w.net, x) => Removes(y.net, x),
           n.alerts[j].what = "added" => Removes(y.net, n.alerts[j].torrent),
           y.over => Later(n, j)
    PROVE  Heard(p, n, j, y)
<1>1. \A i \in 1..j : i \in 1..k \/ i = j
    OBVIOUS
<1>2. \A i \in 1..k : i \in 1..j
    OBVIOUS
<1> QED BY <1>1, <1>2 DEF Heard

\* The poll hears one alert.
LEMMA HeardStep ==
    ASSUME NEW p, p = probe, NEW n, NEW k \in Nat, NEW j \in DOMAIN n.alerts, j = k + 1, NEW w,
           NetOK(p, n), LineOK(p, n), p.polls, p.hash \in Hashes, Heard(p, n, k, w)
    PROVE  Heard(p, n, j, Hear(w, n.alerts[j]))
<1>1. /\ n \in Nets /\ n.alerts \in Seq(NetAlerts) /\ w \in Hearings /\ w.names \in {Nobody, p.hash} /\ Same(w.net, n)
      /\ w.net \in Nets
    BY DEF NetOK, Nets, Heard, Hearings
<1>2. j \in 1..Len(n.alerts) /\ Len(n.alerts) \in Nat /\ k \in 0..Len(n.alerts) /\ j \in Nat
    <2> HIDE DEF NetAlerts
    <2> QED BY <1>1
<1>3. PICK a, y : a = n.alerts[j] /\ y = Hear(w, a)
    OBVIOUS
<1>4. a \in NetAlerts /\ a \in ToSet(n.alerts) /\ a.torrent \in Nat /\ (a.what = "refused" <=> a.torrent = 0)
    <2>1. a \in NetAlerts
        <3> HIDE DEF NetAlerts
        <3> QED BY <1>1, <1>2, <1>3
    <2>2. a \in ToSet(n.alerts)
        BY <1>3 DEF ToSet
    <2> QED BY <2>1, <2>2 DEF NetOK, NetAlerts
<1>5. Later(n, k) => Later(n, j) /\ ~IsNews(a)
    <2>1. DOMAIN n.alerts \subseteq Nat
        <3> HIDE DEF NetAlerts
        <3> QED BY <1>1
    <2>2. \A i \in DOMAIN n.alerts : i > j => i > k
        BY <2>1
    <2> QED BY <1>2, <1>3, <2>2 DEF Later
<1>6. w.handle # 0 => Later(n, k) /\ (a.torrent = w.handle => a.hash = p.hash)
    BY <1>2, <1>4, HandleFacts
<1>7. w.over \in BOOLEAN
    BY <1>1 DEF Hearings
<1> SUFFICES Heard(p, n, j, y)
    BY <1>3
<1>8. ASSUME y = w, a.what # "added", w.over => Later(n, k) PROVE Heard(p, n, j, y)
    BY <1>1, <1>2, <1>3, <1>5, <1>8, HeardMore
<1>9. CASE w.over
    <2>1. y = w /\ Later(n, k)
        BY <1>3, <1>9 DEF Hear, Heard
    <2>2. a.what # "added"
        BY <1>5, <2>1 DEF IsNews
    <2> QED BY <1>8, <2>1, <2>2
<1>10. CASE ~w.over /\ a.what = "added" /\ a.hash = p.hash
    <2>1. y = [w EXCEPT !.handle = a.torrent]
        BY <1>3, <1>10 DEF Hear
    <2>2. /\ y \in Hearings /\ y.handle = a.torrent /\ y.net = w.net /\ y.names = w.names /\ y.over = w.over
        BY <1>1, <1>4, <2>1 DEF Hearings
    <2>3. w.handle = 0 /\ p.handle = 0
        BY <1>5, <1>6, <1>10 DEF Heard, IsNews
    <2>4. AddedFor(p, n.alerts[j], y.handle)
        BY <1>3, <1>10, <2>2 DEF AddedFor
    <2>5. ASSUME NEW i \in 1..j, n.alerts[i].what = "added"
          PROVE  n.alerts[i].torrent = y.handle \/ Removes(y.net, n.alerts[i].torrent)
        <3>1. CASE i = j
            BY <1>3, <2>2, <3>1
        <3>2. CASE i # j
            <4>1. i \in 1..k /\ i \in DOMAIN n.alerts
                <5> HIDE DEF NetAlerts
                <5> QED BY <1>1, <1>2, <3>2
            <4>2. n.alerts[i].torrent = 0 \/ Removes(w.net, n.alerts[i].torrent)
                BY <2>3, <2>5, <4>1 DEF Heard
            <4>3. n.alerts[i] \in ToSet(n.alerts)
                BY <4>1 DEF ToSet
            <4>4. n.alerts[i].torrent # 0
                BY <2>5, <4>3 DEF NetOK
            <4> QED BY <2>2, <4>2, <4>4
        <3> QED BY <3>1, <3>2
    <2>6. j \in 1..j
        BY <1>2
    <2> QED BY <1>1, <1>10, <2>2, <2>3, <2>4, <2>5, <2>6 DEF Heard
<1>11. CASE ~w.over /\ a.what = "added" /\ a.hash # p.hash
    <2>1. PICK o : o = Called(w.net, "remove", a.torrent)
        OBVIOUS
    <2>2. y = [w EXCEPT !.net = o]
        BY <1>1, <1>3, <1>11, <2>1 DEF Hear, Hearings
    <2>3. o \in Nets /\ Same(o, n) /\ Removes(o, a.torrent) /\ \A x : Removes(w.net, x) => Removes(o, x)
        BY <1>1, <1>4, <2>1, CallHeard
    <2>4. y \in Hearings /\ y.handle = w.handle /\ y.net = o /\ y.names = w.names /\ y.over = w.over
        <3> HIDE DEF Nets
        <3> QED BY <1>1, <2>2, <2>3 DEF Hearings
    <2> QED BY <1>1, <1>2, <1>3, <1>11, <2>3, <2>4, HeardMore
<1>12. CASE ~w.over /\ a.what = "refused"
    <2>1. PICK b : b = (a.hash = p.hash) /\ b \in BOOLEAN
        <3>1. (a.hash = p.hash) \in BOOLEAN
            BY Zenon
        <3> QED BY <3>1
    <2>2. y = [w EXCEPT !.over = b]
        BY <1>3, <1>12, <2>1, Zenon DEF Hear
    <2>3. y \in Hearings /\ y.handle = w.handle /\ y.net = w.net /\ y.names = w.names /\ y.over = b
        <3> HIDE DEF Nets
        <3> QED BY <1>1, <2>1, <2>2 DEF Hearings
    <2>4. b => Later(n, j)
        <3> SUFFICES ASSUME b PROVE Later(n, j)
            OBVIOUS
        <3>1. a.hash = p.hash /\ IsNews(a)
            BY <1>12, <2>1 DEF IsNews
        <3> QED BY <1>3, <3>1 DEF LineOK, Later
    <2>5. a.what # "added"
        BY <1>12
    <2>6. Same(y.net, n) /\ y.names \in {Nobody, p.hash} /\ (y.over => Later(n, j))
        BY <1>1, <2>3, <2>4
    <2> QED BY <1>2, <1>3, <2>3, <2>5, <2>6, HeardMore
<1>13. CASE ~w.over /\ a.what \notin {"added", "refused"} /\ a.torrent # w.handle
    <2>1. y = w \/ y = [w EXCEPT !.over = FALSE]
        <3>1. (a.torrent = w.handle) = FALSE
            BY <1>13
        <3> QED BY <1>3, <1>13, <3>1 DEF Hear
    <2>2. y = w
        BY <1>1, <1>13, <2>1 DEF Hearings
    <2> QED BY <1>8, <1>13, <2>2
<1>14. CASE ~w.over /\ a.what = "metadata" /\ a.torrent = w.handle
    <2>1. PICK o : o = Called(w.net, "save", a.torrent)
        OBVIOUS
    <2>2. y = [w EXCEPT !.net = o]
        BY <1>1, <1>3, <1>14, <2>1 DEF Hear, Hearings
    <2>3. o \in Nets /\ Same(o, n) /\ \A x : Removes(w.net, x) => Removes(o, x)
        BY <1>1, <1>4, <2>1, CallHeard
    <2>4. y \in Hearings /\ y.handle = w.handle /\ y.net = o /\ y.names = w.names /\ y.over = w.over
        <3> HIDE DEF Nets
        <3> QED BY <1>1, <2>2, <2>3 DEF Hearings
    <2> QED BY <1>1, <1>2, <1>3, <1>14, <2>3, <2>4, HeardMore
<1>15. CASE ~w.over /\ a.what \in {"names", "failed"} /\ a.torrent = w.handle
    <2>1. w.handle # 0
        BY <1>4, <1>15
    <2>2. Later(n, j) /\ a.hash = p.hash
        BY <1>5, <1>6, <1>15, <2>1
    <2>3. PICK c : c = IF a.what = "names" THEN a.hash ELSE w.names
        OBVIOUS
    <2>4. c \in {Nobody, p.hash} /\ c \in Hashes \cup {Nobody}
        BY <1>1, <2>2, <2>3
    <2>5. y = [w EXCEPT !.over = TRUE, !.names = c]
        <3>1. CASE a.what = "names"
            BY <1>3, <1>15, <2>3, <3>1 DEF Hear
        <3>2. CASE a.what = "failed"
            <4>1. (a.torrent = w.handle) = TRUE
                BY <1>15
            <4>2. y = [w EXCEPT !.over = (a.torrent = w.handle)]
                BY <1>3, <1>15, <3>2 DEF Hear
            <4>3. y = [w EXCEPT !.over = TRUE]
                BY <4>1, <4>2, Zenon
            <4> QED BY <1>1, <2>3, <3>2, <4>3 DEF Hearings
        <3> QED BY <1>15, <3>1, <3>2
    <2>6. y \in Hearings /\ y.handle = w.handle /\ y.net = w.net /\ y.names = c /\ y.over
        <3> HIDE DEF Nets
        <3> QED BY <1>1, <2>4, <2>5 DEF Hearings
    <2>7. a.what # "added" /\ Same(y.net, n) /\ y.names \in {Nobody, p.hash}
        BY <1>1, <1>15, <2>4, <2>6
    <2> QED BY <1>2, <1>3, <2>2, <2>6, <2>7, HeardMore
<1>16. a.what \in {"added", "refused", "metadata", "names", "failed"}
    BY <1>4 DEF NetAlerts, AlertKinds
<1> QED BY <1>7, <1>9, <1>10, <1>11, <1>12, <1>13, <1>14, <1>15, <1>16

\* What was heard of all alerts leaves everything sound but the torrents, which
\* somebody holds if the handle is kept or its torrent is removed.
LEMMA HeardSound ==
    ASSUME NEW s, NEW p, NEW n, NEW rs, NEW u, NEW ks, Sound(s, p, n, rs, u, ks), p.polls,
           NEW w, Heard(p, n, Len(n.alerts), w)
    PROVE  /\ w.net \in Nets /\ DOMAIN w.net.torrents \subseteq 1..w.net.made /\ w.net.alerts = <<>>
           /\ w.handle \in 0..w.net.made
           /\ w.handle # 0 /\ w.handle \in DOMAIN w.net.torrents => w.net.torrents[w.handle].hash = p.hash
           /\ \A t \in DOMAIN w.net.torrents : t = w.handle \/ Removes(w.net, t)
           /\ PendingOK(s, w.net, u, ks)
           /\ w.handle # 0 => NoAdds(w.net)
           /\ \A k, j \in DOMAIN w.net.calls : w.net.calls[k].what = "add" /\ w.net.calls[k].about = p.hash /\ j > k =>
                 w.net.calls[j].what # "add"
<1>1. NetOK(p, n) /\ LineOK(p, n) /\ PendingOK(s, n, u, ks) /\ n \in Nets /\ n.alerts \in Seq(NetAlerts) /\ n.made \in Nat
    BY DEF Sound, NetOK, Nets
<1>2. PICK m, N : m = w.net /\ N = Len(n.alerts)
    OBVIOUS
<1>3. /\ m \in Nets /\ m.alerts = <<>> /\ m.torrents = n.torrents /\ m.made = n.made /\ Longer(m.calls, n.calls)
      /\ Heard(p, n, N, w)
    BY <1>2 DEF Heard, Same, Hearings
<1>4. N \in Nat /\ N \in 0..N /\ DOMAIN n.alerts = 1..N
    <2> HIDE DEF NetAlerts
    <2> QED BY <1>1, <1>2
<1>5. ASSUME w.handle # 0
      PROVE  /\ NoAdds(n) /\ w.handle \in 0..n.made
             /\ w.handle \in DOMAIN n.torrents => n.torrents[w.handle].hash = p.hash
    <2>1. PICK k : k = N
        OBVIOUS
    <2>2. k \in 0..Len(n.alerts) /\ Heard(p, n, k, w) /\ NetOK(p, n) /\ LineOK(p, n)
        BY <1>1, <1>2, <1>3, <1>4, <2>1
    <2>3. NoAdds(n) /\ w.handle \in 0..n.made
        BY <1>5, <2>2, HandleFacts
    <2>4. OfLink(p, n, w.handle)
        BY <1>5, <2>2, HandleFacts
    <2> QED BY <2>3, <2>4 DEF OfLink
<1>6. \A c \in ToSet(m.calls) : c \in ToSet(n.calls) \/ c.what # "add"
    BY <1>3 DEF Longer, ToSet
<1>7. ToSet(n.calls) \subseteq ToSet(m.calls) /\ ToSet(m.alerts) = {}
    <2>1. ToSet(n.calls) \subseteq ToSet(m.calls)
        BY <1>3 DEF Longer
    <2>2. ToSet(m.alerts) = {}
        BY <1>3 DEF ToSet
    <2> QED BY <2>1, <2>2
<1>8. \A t \in DOMAIN m.torrents : t = w.handle \/ Removes(m, t)
    <2> SUFFICES ASSUME NEW t \in DOMAIN n.torrents PROVE t = w.handle \/ Removes(m, t)
        BY <1>3
    <2>1. Held(p, n, t) /\ t # 0
        BY <1>1 DEF NetOK
    <2>2. CASE t = p.handle
        BY <1>3, <2>1, <2>2 DEF Heard
    <2>3. CASE \E call \in ToSet(n.calls) : call.what = "remove" /\ call.about = t
        BY <1>7, <2>3 DEF Removes
    <2>4. CASE \E alert \in ToSet(n.alerts) : alert.what = "added" /\ alert.torrent = t
        <3>1. PICK i \in 1..N : n.alerts[i].what = "added" /\ n.alerts[i].torrent = t
            BY <1>4, <2>4 DEF ToSet
        <3> QED BY <1>2, <1>3, <3>1 DEF Heard
    <2> QED BY <2>1, <2>2, <2>3, <2>4 DEF Held
<1>9. \A h : Pending(m, h) => Pending(n, h)
    BY <1>6, <1>7 DEF Pending
<1>10. PendingOK(s, m, u, ks)
    BY <1>1, <1>9 DEF PendingOK
<1>11. w.handle # 0 => NoAdds(m)
    BY <1>5, <1>6 DEF NoAdds
<1>12. ASSUME NEW k \in DOMAIN m.calls, NEW j \in DOMAIN m.calls, m.calls[k].what = "add", m.calls[k].about = p.hash,
              j > k, m.calls[j].what = "add"
       PROVE  FALSE
    <2>1. k \in DOMAIN n.calls /\ j \in DOMAIN n.calls /\ m.calls[k] = n.calls[k] /\ m.calls[j] = n.calls[j]
        BY <1>3, <1>12 DEF Longer
    <2> QED BY <1>1, <1>12, <2>1 DEF LineOK
<1>13. w.handle \in 0..m.made
    BY <1>1, <1>3, <1>5
<1>14. DOMAIN m.torrents \subseteq 1..m.made
    BY <1>1, <1>3 DEF NetOK
<1> QED BY <1>2, <1>3, <1>5, <1>8, <1>10, <1>11, <1>12, <1>13, <1>14

\* The poll hears one alert after the other.
LEMMA PollHears ==
    ASSUME KindInv, NEW late \in BOOLEAN, Poll(late)
    PROVE  \E w : /\ Heard(probe, net, Len(net.alerts), w)
                  /\ IF w.over \/ late THEN Finish(w)
                     ELSE probe' = [probe EXCEPT !.handle = w.handle] /\ net' = w.net /\ UNCHANGED results
<1> DEFINE before == [over |-> FALSE, names |-> Nobody, handle |-> probe.handle,
                      net |-> [net EXCEPT !.alerts = <<>>]]
           Is(f) == f = [k \in 0..Len(net.alerts) |-> IF k = 0 THEN before ELSE Hear(f[k - 1], net.alerts[k])]
<1>1. PICK f : f = CHOOSE g : Is(g)
    OBVIOUS
<1>2. /\ probe.polls
      /\ IF f[Len(net.alerts)].over \/ late THEN Finish(f[Len(net.alerts)])
         ELSE probe' = [probe EXCEPT !.handle = f[Len(net.alerts)].handle] /\ net' = f[Len(net.alerts)].net /\ UNCHANGED results
    BY <1>1, Zenon DEF Poll
<1>3. PICK p, n, N, b : p = probe /\ n = net /\ N = Len(net.alerts) /\ b = before
    OBVIOUS
<1>4. NetOK(p, n) /\ LineOK(p, n) /\ p.polls /\ p.hash \in Hashes /\ p \in Probes /\ n \in Nets
    BY <1>2, <1>3 DEF KindInv, Sound, NetOK, ProbeOK, HasTask, TasksOK, TaskLists
<1>5. N \in Nat /\ DOMAIN n.alerts = 1..N
    <2>1. n.alerts \in Seq(NetAlerts)
        BY <1>4 DEF Nets
    <2> HIDE DEF NetAlerts
    <2> QED BY <1>3, <2>1
<1>6. Heard(p, n, 0, b)
    <2>1. PICK m : m = [n EXCEPT !.alerts = <<>>]
        OBVIOUS
    <2>2. <<>> \in Seq(NetAlerts)
        OBVIOUS
    <2>3. m \in Nets /\ m.calls = n.calls /\ m.alerts = <<>> /\ m.torrents = n.torrents /\ m.made = n.made
        <3> HIDE DEF NetAlerts, NetCalls, NetTorrents
        <3> QED BY <1>4, <2>1, <2>2 DEF Nets
    <2>4. b = [over |-> FALSE, names |-> Nobody, handle |-> p.handle, net |-> m]
        BY <1>3, <2>1
    <2>5. b \in Hearings
        <3>1. p.handle \in Nat
            BY <1>4 DEF Probes
        <3> HIDE DEF Nets
        <3> QED BY <2>3, <2>4, <3>1 DEF Hearings
    <2>6. Same(m, n)
        BY <2>3 DEF Same, Longer
    <2>7. ~b.over /\ b.names = Nobody /\ b.handle = p.handle /\ b.net = m
        BY <2>4
    <2>8. 1..0 = {}
        OBVIOUS
    <2> QED BY <2>5, <2>6, <2>7, <2>8 DEF Heard
<1>7. ASSUME NEW w, NEW k \in Nat, NEW j \in 1..N, j = k + 1, Heard(p, n, k, w) PROVE Heard(p, n, j, Hear(w, n.alerts[j]))
    BY <1>3, <1>4, <1>5, <1>7, HeardStep
<1>8. /\ f[0] = b
      /\ \A k \in 1..N : k - 1 \in 0..N /\ f[k] = Hear(f[k - 1], n.alerts[k])
    <2> DEFINE X == {w \in Hearings : TRUE}
               Y == {Hear(w, n.alerts[k]) : w \in Hearings, k \in 1..N}
               All == [0..N -> Hearings]
    <2> DEFINE Z == {kw \in (0..N) \X Hearings : Heard(p, n, kw[1], kw[2])}
               after(kw) == <<kw[1] + 1, Hear(kw[2], n.alerts[kw[1] + 1])>>
               step == [kx \in (1..N) \X Z |->
                           IF kx[2][1] + 1 \in 1..N THEN after(kx[2]) ELSE kx[2]]
    <2>1. <<0, b>> \in Z
        BY <1>5, <1>6 DEF Heard
    <2>2. ASSUME NEW z \in Z, z[1] + 1 \in 1..N PROVE after(z) \in Z
        <3>1. PICK k, w : k = z[1] /\ w = z[2] /\ z = <<k, w>>
            OBVIOUS
        <3>2. k \in Nat /\ Heard(p, n, k, w) /\ k + 1 \in 1..N /\ k + 1 \in 0..N
            BY <1>5, <2>2, <3>1
        <3>3. PICK j, y : j = k + 1 /\ y = Hear(w, n.alerts[j])
            OBVIOUS
        <3>4. Heard(p, n, j, y)
            BY <1>7, <3>2, <3>3
        <3>5. y \in Hearings
            BY <3>4 DEF Heard
        <3>6. <<j, y>> \in Z
            BY <3>2, <3>3, <3>4, <3>5
        <3> QED BY <3>1, <3>3, <3>6
    <2> HIDE DEF Z
    <2>3. step \in [Turns(N, Z) -> Z]
        <3> HIDE DEF after
        <3> QED BY <2>2 DEF Turns
    <2>4. PICK g : Made(g, N, Z, <<0, b>>, step)
        <3> HIDE DEF step, before
        <3> QED BY <1>5, <2>1, <2>3, Stepwise
    <2>5. g \in [0..N -> Z] /\ g[0] = <<0, b>> /\ \A k \in 1..N : g[k] = step[<<k, g[k - 1]>>]
        <3> HIDE DEF step, before
        <3> QED BY <2>4 DEF Made
    <2>6. \A k \in 1..N : k - 1 \in 0..N /\ g[k - 1] \in Z
        BY <1>5, <2>5
    <2>7. \A k \in 1..N : g[k] = IF g[k - 1][1] + 1 \in 1..N THEN after(g[k - 1]) ELSE g[k - 1]
        <3> HIDE DEF after
        <3> QED BY <2>5, <2>6
    <2> DEFINE A == {k \in 0..N : g[k][1] = k}
    <2>8. \A k \in 0..N : k \in A
        <3>1. 0 \in A
            BY <1>5, <2>5
        <3>2. ASSUME NEW k \in 0..(N - 1), k \in A PROVE k + 1 \in A
            <4>1. k + 1 \in 1..N /\ (k + 1) - 1 = k /\ k + 1 \in 0..N /\ g[k][1] = k
                BY <1>5, <3>2
            <4>2. PICK j, z : j = k + 1 /\ z = g[k]
                OBVIOUS
            <4>3. g[j] = after(z)
                <5> HIDE DEF after
                <5> QED BY <2>7, <4>1, <4>2
            <4>4. g[j][1] = j
                BY <4>1, <4>2, <4>3
            <4> QED BY <4>1, <4>2, <4>4
        <3> HIDE DEF A
        <3> QED BY <1>5, <3>1, <3>2, Upward
    <2>9. PICK h : h = [k \in 0..N |-> g[k][2]]
        OBVIOUS
    <2>10. h[0] = b
        BY <1>5, <2>5, <2>9
    <2>11. ASSUME NEW k \in 1..N PROVE h[k] = Hear(h[k - 1], n.alerts[k])
        <3>1. k - 1 \in 0..N /\ k \in 0..N /\ (k - 1) + 1 = k
            BY <1>5
        <3>2. PICK j, z : j = k - 1 /\ z = g[j]
            OBVIOUS
        <3>3. z[1] = j /\ j + 1 = k /\ j \in 0..N
            BY <2>8, <3>1, <3>2
        <3>4. g[k] = after(z)
            <4> HIDE DEF after
            <4> QED BY <2>7, <3>1, <3>2, <3>3
        <3>5. g[k][2] = Hear(z[2], n.alerts[k])
            BY <3>3, <3>4
        <3> QED BY <2>9, <3>1, <3>2, <3>3, <3>5
    <2>12. h = [k \in 0..N |-> IF k = 0 THEN b ELSE Hear(h[k - 1], n.alerts[k])]
        <3>1. \A k \in 0..N : h[k] = IF k = 0 THEN b ELSE Hear(h[k - 1], n.alerts[k])
            <4> SUFFICES ASSUME NEW k \in 0..N PROVE h[k] = IF k = 0 THEN b ELSE Hear(h[k - 1], n.alerts[k])
                OBVIOUS
            <4>1. CASE k = 0
                BY <2>10, <4>1
            <4>2. CASE k # 0
                <5>1. k \in 1..N
                    BY <1>5, <4>2
                <5> QED BY <2>11, <4>2, <5>1
            <4> QED BY <4>1, <4>2
        <3>2. h = [k \in 0..N |-> h[k]]
            BY <2>9
        <3> QED BY <3>1, <3>2
    <2>13. Is(h)
        <3> HIDE DEF before
        <3> QED BY <1>3, <2>12
    <2>14. Is(f)
        BY <1>1, <2>13, Zenon
    <2>15. f = [k \in 0..N |-> IF k = 0 THEN b ELSE Hear(f[k - 1], n.alerts[k])]
        <3> HIDE DEF before
        <3> QED BY <1>3, <2>14
    <2> QED BY <1>5, <2>15
<1> DEFINE B == {k \in 0..N : Heard(p, n, k, f[k])}
<1>9. 0 \in B
    BY <1>5, <1>6, <1>8
<1>10. ASSUME NEW k \in 0..(N - 1), k \in B PROVE k + 1 \in B
    <2>1. PICK j, w : j = k + 1 /\ w = f[k]
        OBVIOUS
    <2>2. j \in 1..N /\ j \in 0..N /\ j - 1 = k /\ k \in Nat /\ Heard(p, n, k, w)
        BY <1>5, <1>10, <2>1
    <2>3. f[j] = Hear(w, n.alerts[j])
        BY <1>8, <2>1, <2>2
    <2>4. Heard(p, n, j, f[j])
        BY <1>7, <2>1, <2>2, <2>3
    <2> QED BY <2>1, <2>2, <2>4
<1>11. Heard(p, n, N, f[N])
    <2> HIDE DEF B
    <2>1. \A k \in 0..N : k \in B
        BY <1>5, <1>9, <1>10, Upward
    <2>2. N \in 0..N
        BY <1>5
    <2> QED BY <2>1, <2>2 DEF B
<1> QED BY <1>2, <1>3, <1>11

\* A poll.
LEMMA PollSound ==
    ASSUME KindInv, NEW late \in BOOLEAN, Poll(late)
    PROVE  KindInv'
<1>1. PICK w : /\ Heard(probe, net, Len(net.alerts), w)
               /\ IF w.over \/ late THEN Finish(w)
                  ELSE probe' = [probe EXCEPT !.handle = w.handle] /\ net' = w.net /\ UNCHANGED results
    BY PollHears
<1>2. PICK s, p, n, rs, u, ks : s = tasks /\ p = probe /\ n = net /\ rs = results /\ u = unknown /\ ks = DOMAIN kinds
    OBVIOUS
<1>3. Sound(s, p, n, rs, u, ks) /\ p.polls /\ Heard(p, n, Len(n.alerts), w)
    BY <1>1, <1>2 DEF KindInv, Poll
<1>4. /\ TasksOK(s) /\ ProbeOK(p, s, rs) /\ p \in Probes /\ p.busy /\ s.current = p.hash /\ rs \in Seq(Posts)
      /\ s.current # Nobody /\ s.current \in Hashes
    BY <1>3 DEF Sound, ProbeOK, HasTask, Posted, TasksOK, TaskLists
<1>5. PICK v, t : v = w.net /\ t = w.handle
    OBVIOUS
<1>6. /\ v \in Nets /\ DOMAIN v.torrents \subseteq 1..v.made /\ v.alerts = <<>> /\ t \in 0..v.made
      /\ t # 0 /\ t \in DOMAIN v.torrents => v.torrents[t].hash = p.hash
      /\ \A x \in DOMAIN v.torrents : x = t \/ Removes(v, x)
      /\ PendingOK(s, v, u, ks)
      /\ t # 0 => NoAdds(v)
      /\ \A k, j \in DOMAIN v.calls : v.calls[k].what = "add" /\ v.calls[k].about = p.hash /\ j > k => v.calls[j].what # "add"
    BY <1>3, <1>5, HeardSound
<1>7. ToSet(v.alerts) = {} /\ DOMAIN v.alerts = {} /\ v.made \in Nat
    BY <1>6 DEF ToSet, Nets
<1>8. PICK q, m, ps : q = probe' /\ m = net' /\ ps = results'
    OBVIOUS
<1>9. Sound(s, q, m, ps, u, ks) /\ q.busy
    <2>1. CASE ~(w.over \/ late)
        <3>1. q = [p EXCEPT !.handle = t] /\ m = v /\ ps = rs
            BY <1>1, <1>2, <1>5, <1>8, <2>1
        <3>2. /\ q \in Probes /\ q.busy /\ q.hash = p.hash /\ q.handle = t /\ q.generation = p.generation
              /\ q.polls /\ q.idles = p.idles
            BY <1>3, <1>4, <1>6, <1>7, <3>1 DEF Probes
        <3>3. ProbeOK(q, s, rs)
            BY <1>3, <1>4, <3>2 DEF ProbeOK, HasTask, Posted, Once
        <3>4. NetOK(q, m)
            BY <1>6, <1>7, <3>1, <3>2 DEF NetOK, Held, Removes
        <3>5. LineOK(q, m)
            BY <1>6, <1>7, <3>1, <3>2 DEF LineOK, Silent
        <3> QED BY <1>4, <1>6, <3>1, <3>2, <3>3, <3>4, <3>5 DEF Sound
    <2>2. CASE w.over \/ late
        <3>1. PICK r : r = [generation |-> p.generation, names |-> w.names]
            OBVIOUS
        <3>2. /\ q = [p EXCEPT !.polls = FALSE, !.idles = TRUE, !.hash = Nobody, !.handle = 0]
              /\ m = (IF t = 0 THEN v ELSE Called(v, "remove", t)) /\ ps = Append(rs, r)
            BY <1>1, <1>2, <1>5, <1>8, <2>2, <3>1 DEF Finish
        <3>3. /\ q \in Probes /\ q.busy /\ q.hash = Nobody /\ q.handle = 0 /\ q.generation = p.generation /\ ~q.polls
            BY <1>4, <3>2 DEF Probes
        <3>4. r \in Posts /\ r.generation = p.generation /\ r.names \in {Nobody, s.current}
            <4>1. w.names \in {Nobody, p.hash} /\ p.generation \in Nat
                BY <1>3, <1>4 DEF Heard, Probes
            <4> QED BY <1>4, <3>1, <4>1 DEF Posts
        <3>5. ps \in Seq(Posts) /\ ToSet(ps) = ToSet(rs) \cup {r}
            <4> HIDE DEF Posts
            <4> QED BY <1>4, <3>2, <3>4, AppendFacts
        <3>6. \A o \in ToSet(rs) : o.generation <= p.generation /\ o.generation # p.generation
            BY <1>3, <1>4 DEF ProbeOK, Posted
        <3>7. Once(q, ps)
            <4>1. /\ Len(rs) \in Nat
                  /\ \A k \in DOMAIN ps : (k \in DOMAIN rs /\ ps[k] = rs[k]) \/ k = Len(rs) + 1
                <5> HIDE DEF Posts
                <5> QED BY <1>4, <3>2, <3>4
            <4>2. \A k \in DOMAIN rs : rs[k].generation # p.generation
                BY <3>6 DEF ToSet
            <4> QED BY <3>3, <4>1, <4>2 DEF Once
        <3>8. HasTask(q, s)
            BY <1>4, <3>3 DEF HasTask
        <3>9. p.generation <= p.generation
            BY <1>4 DEF Probes
        <3>10. Posted(q, s, ps)
            BY <3>3, <3>4, <3>5, <3>6, <3>9 DEF Posted
        <3>11. /\ m \in Nets /\ m.alerts = <<>> /\ m.torrents = v.torrents /\ m.made = v.made
               /\ \A x \in DOMAIN v.torrents : Removes(m, x)
               /\ \A h : Pending(m, h) => Pending(v, h)
            <4>1. CASE t = 0
                BY <1>6, <3>2, <4>1
            <4>2. CASE t # 0
                <5>1. PICK c : c = [what |-> "remove", about |-> t]
                    OBVIOUS
                <5>2. c \in NetCalls /\ c.what = "remove" /\ c.about = t
                    BY <1>6, <1>7, <5>1 DEF NetCalls
                <5>3. /\ m \in Nets /\ m.calls = Append(v.calls, c) /\ ToSet(m.calls) = ToSet(v.calls) \cup {c}
                      /\ m.alerts = v.alerts /\ m.torrents = v.torrents /\ m.made = v.made
                    <6>1. m = Called(v, "remove", t) /\ v \in Nets
                        BY <1>6, <3>2, <4>2
                    <6> QED BY <5>1, <5>2, <6>1, CalledFacts
                <5> QED BY <1>6, <5>2, <5>3 DEF Removes, Pending
            <4> QED BY <4>1, <4>2
        <3>12. NetOK(q, m)
            BY <1>6, <1>7, <3>3, <3>11 DEF NetOK, Held, Removes, ToSet
        <3>13. PendingOK(s, m, u, ks)
            BY <1>6, <3>11 DEF PendingOK
        <3> QED BY <1>4, <3>3, <3>7, <3>8, <3>10, <3>12, <3>13 DEF Sound, ProbeOK, LineOK
    <2> QED BY <2>1, <2>2
<1>10. tasks' = s /\ unknown' = u /\ kinds' = kinds /\ kindsFile' = kindsFile /\ probing' = probing
    BY <1>2 DEF Poll
<1>11. Sound(tasks, probe, net, results, unknown, DOMAIN kinds)'
    BY <1>2, <1>8, <1>9, <1>10
<1>12. KindsTrue' /\ probing' \in BOOLEAN
    BY <1>10 DEF KindInv, KindsTrue
<1>13. probing' /\ ~probe'.busy => tasks'.queue = <<>>
    BY <1>8, <1>9
<1> QED BY <1>11, <1>12, <1>13 DEF KindInv

\* One step.
LEMMA KindInvNext ==
    ASSUME Again = FALSE, KindInv, [KindNext]_probeVars
    PROVE  KindInv'
<1>1. Sound(tasks, probe, net, results, unknown, DOMAIN kinds)
    BY DEF KindInv
<1>2. CASE Session \/ \E t \in DOMAIN net.torrents : Peers(t)
    <2>1. PICK s, p, rs, u, ks : s = tasks /\ p = probe /\ rs = results /\ u = unknown /\ ks = DOMAIN kinds
        OBVIOUS
    <2>2. Sound(s, p, net', rs, u, ks)
        BY <1>1, <1>2, <2>1, SessionSound, PeersSound
    <2>3. /\ tasks' = s /\ probe' = p /\ results' = rs /\ unknown' = u /\ kinds' = kinds /\ kindsFile' = kindsFile
          /\ probing' = probing
        BY <1>2, <2>1 DEF Session, Peers, NetStep
    <2>4. Sound(tasks, probe, net, results, unknown, DOMAIN kinds)'
        BY <2>1, <2>2, <2>3
    <2>5. KindsTrue' /\ probing' \in BOOLEAN /\ (probing' /\ ~probe'.busy => tasks'.queue = <<>>)
        BY <2>1, <2>3 DEF KindInv, KindsTrue
    <2> QED BY <2>4, <2>5 DEF KindInv
<1>3. CASE PersistCache
    BY <1>3 DEF PersistCache, KindInv, KindsTrue, Sound, PendingOK, Pending, TasksOK, ProbeOK, HasTask, Posted, Once,
                NetOK, Held, LineOK, Silent, NoAdds
<1>4. CASE LoadCache
    <2>1. PICK ks : ks = DOMAIN kinds'
        OBVIOUS
    <2>2. Sound(NoTasks, Idle, NoSession, <<>>, {}, ks)
        BY RestSound
    <2>3. Sound(tasks, probe, net, results, unknown, DOMAIN kinds)'
        BY <1>4, <2>1, <2>2 DEF LoadCache
    <2>4. KindsTrue' /\ probing' \in BOOLEAN
        BY <1>4 DEF LoadCache, KindInv, KindsTrue
    <2>5. tasks'.queue = <<>>
        BY <1>4 DEF LoadCache, NoTasks
    <2> QED BY <2>3, <2>4, <2>5 DEF KindInv
<1>5. CASE UNCHANGED probeVars
    BY <1>5 DEF probeVars, KindInv, KindsTrue, Sound, PendingOK, Pending, TasksOK, ProbeOK, HasTask, Posted, Once,
                NetOK, Held, LineOK, Silent, NoAdds
<1> QED BY <1>2, <1>3, <1>4, <1>5, PollSound, IdleSound, CatalogSound, PrioritizeSound, SwitchedSound, FinishedSound
        DEF KindNext

\* While no link is tried again before the session has told everything about
\* its last try, no link gets the kind of another one, the queue goes on and
\* every torrent is removed: handleProbeFinished takes the task it has for the
\* one the result is about, poll() tells torrents by the hash it waits for.
THEOREM ProbesSoundHolds == ASSUME Again = FALSE PROVE KindSpec => []ProbesSound
<1>1. KindInit => KindInv
    <2> SUFFICES ASSUME KindInit PROVE KindInv
        OBVIOUS
    <2>1. PICK ks : ks = DOMAIN kinds
        OBVIOUS
    <2>2. Sound(NoTasks, Idle, NoSession, <<>>, {}, ks)
        BY RestSound
    <2>3. Sound(tasks, probe, net, results, unknown, DOMAIN kinds)
        BY <2>1, <2>2 DEF KindInit
    <2>4. KindsTrue /\ probing \in BOOLEAN /\ tasks.queue = <<>>
        BY DEF KindInit, KindsTrue, NoTasks
    <2> QED BY <2>3, <2>4 DEF KindInv
<1>2. KindInv /\ [KindNext]_probeVars => KindInv'
    BY KindInvNext
<1>3. KindInv => ProbesSound
    <2> SUFFICES ASSUME KindInv PROVE ProbesSound
        OBVIOUS
    <2>1. TasksOK(tasks) /\ HasTask(probe, tasks) /\ Posted(probe, tasks, results) /\ NetOK(probe, net)
        BY DEF KindInv, Sound, ProbeOK
    <2>2. (tasks.current # Nobody) = probe.busy
        <3>1. probe.busy \in BOOLEAN /\ (tasks.current # Nobody <=> probe.busy)
            BY <2>1 DEF HasTask, Probes
        <3> QED BY <3>1
    <2>3. \A t \in DOMAIN net.torrents : Held(probe, net, t)
        BY <2>1 DEF NetOK
    <2> QED BY <2>1, <2>2, <2>3 DEF KindInv, ProbesSound, ProbesGoOn, TasksOK, TaskLists, Posted, Held
<1> QED BY <1>1, <1>2, <1>3, PTL DEF KindSpec
================================================================================
