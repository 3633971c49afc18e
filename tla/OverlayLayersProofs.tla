-------------------------- MODULE OverlayLayersProofs --------------------------
(***************************************************************************)
(* Theorems of OverlayLayers, for every list of folders.                   *)
(***************************************************************************)
EXTENDS OverlayLayers, FiniteSetTheorems, SequenceTheorems, WellFoundedInduction, TLAPS

Stems == {"winmm.dll", "SteamFix64.dll", "OnlineFix64.dll"}
FixNames == {"OnlineFix.ini", "dlllist.txt", "winmm.dll", "OnlineFix64.dll"}
KitNames == {"SteamFix64.dll", "winmm.dll", "winmm.txt", "SteamFix.ini"}

LEMMA NamesAre ==
    /\ Range(OverlayDlls) = Stems
    /\ Range(Renamed) = Stems \cup {"steam_appid.txt"}
    /\ Range(OnlineFixFiles) = FixNames
    /\ Range(KitFiles) = KitNames
    /\ Renamed[1] = "winmm.dll" /\ DOMAIN Renamed = 1..4
    /\ Names = Stems \cup FixNames \cup KitNames
               \cup {"unsteam.dll", "unsteam.ini", "unsteam_loader64.exe", "steam_appid.txt"}
<1>1. Range(OverlayDlls) = Stems
    BY DEF Range, OverlayDlls, Stems
<1>2. DOMAIN Renamed = 1..4 /\ Renamed[1] = "winmm.dll"
    BY DEF Renamed
<1>3. Range(Renamed) = Stems \cup {"steam_appid.txt"}
    BY DEF Range, Renamed, Stems
<1>4. Range(OnlineFixFiles) = FixNames
    BY DEF Range, OnlineFixFiles, FixNames
<1>5. Range(KitFiles) = KitNames
    BY DEF Range, KitFiles, KitNames
<1> QED BY <1>1, <1>2, <1>3, <1>4, <1>5 DEF Names, Texts, Stems, FixNames, KitNames

\* A set of numbers that is not empty has a least element.
LEMMA LeastNumber ==
    ASSUME NEW A \in SUBSET Nat, A # {}
    PROVE  \E n \in A : \A m \in A : n <= m
<1>1. PICK b \in A : TRUE
    OBVIOUS
<1> DEFINE Below(n) == {k \in Nat : k < n}
           T == {Below(n) : n \in A}
           R == StrictSubsetOrdering(Nat)
<1>2. T \subseteq FiniteSubsetsOf(Nat)
    <2> SUFFICES ASSUME NEW n \in A PROVE IsFiniteSet(Below(n))
        BY DEF FiniteSubsetsOf
    <2>1. Below(n) \in SUBSET Nat /\ \A s \in Below(n) : s <= n
        OBVIOUS
    <2> HIDE DEF Below
    <2> QED BY <2>1, FS_BoundedSetOfNaturals
<1>3. T # {}
    BY <1>1
<1>4. \E x \in T : \A y \in T : ~(<<y, x>> \in R)
    <2> HIDE DEF T
    <2> QED BY <1>2, <1>3, FS_StrictSubsetOrderingWellFounded, WFMin
<1>5. PICK n \in A : \A m \in A : <<Below(m), Below(n)>> \notin R
    BY <1>4
<1>6. ASSUME NEW m \in A, m < n PROVE FALSE
    <2>1. Below(m) \subseteq Below(n) /\ m \in Below(n) /\ m \notin Below(m)
        BY <1>6
    <2> QED BY <2>1, <1>5 DEF StrictSubsetOrdering
<1> QED BY <1>6

\* The scan finds one of the folders that are there.
LEMMA FirstIsOne ==
    ASSUME Walk \in Seq(STRING), NEW dirs \in SUBSET Dirs, dirs # {}, NEW other
    PROVE  FirstOf(dirs, other) \in dirs
<1> DEFINE A == {i \in DOMAIN Walk : Walk[i] \in dirs}
<1>1. A \in SUBSET Nat
    OBVIOUS
<1>2. A # {}
    BY DEF Dirs, Range
<1>3. PICK i \in A : \A j \in A : i <= j
    BY <1>1, <1>2, LeastNumber
<1>4. Walk[i] \in dirs /\ i \in DOMAIN Walk /\ \A j \in 1..(i - 1) : Walk[j] \notin dirs
    <2> SUFFICES ASSUME NEW j \in 1..(i - 1), Walk[j] \in dirs PROVE FALSE
        BY <1>3
    <2>1. DOMAIN Walk = 1..Len(Walk) /\ Len(Walk) \in Nat
        OBVIOUS
    <2>2. j \in A /\ i \in Nat
        BY <2>1
    <2> QED BY <1>3, <2>2
<1> QED BY <1>4 DEF FirstOf

--------------------------------------------------------------------------------
(***************************************************************************)
(* What a switch does to one folder, name by name.                         *)
(***************************************************************************)
RenamedNames == Stems \cup {"steam_appid.txt"}

Flips(f, g, enable, moved, stops) ==
    /\ DOMAIN g \subseteq Files
    /\ moved \in SUBSET RenamedNames /\ stops \in SUBSET RenamedNames
    /\ \A n \in moved \cup stops : Has(f, From(enable, n))
    /\ moved \cap stops = {}
    /\ Has(f, From(enable, "winmm.dll")) => "winmm.dll" \in moved \cup stops
    /\ stops = {} => \A n \in RenamedNames : Has(f, From(enable, n)) => n \in moved
    /\ \A n \in Names :
          /\ Has(g, From(enable, n)) <=> Has(f, From(enable, n)) /\ n \notin moved
          /\ Has(g, To(enable, n)) <=> n \in moved \/ (Has(f, To(enable, n)) /\ n \notin stops)
          /\ Has(g, From(enable, n)) => g[From(enable, n)] = f[From(enable, n)]
          /\ Has(g, To(enable, n)) =>
                g[To(enable, n)] = IF n \in moved THEN f[From(enable, n)] ELSE f[To(enable, n)]

LEMMA ReachedAre ==
    ASSUME NEW stops
    PROVE  /\ Reached(Renamed, stops) \subseteq RenamedNames \ stops
           /\ "winmm.dll" \notin stops => "winmm.dll" \in Reached(Renamed, stops)
           /\ stops = {} => Reached(Renamed, stops) = RenamedNames
<1>1. /\ DOMAIN Renamed = 1..4 /\ Renamed[1] = "winmm.dll"
      /\ {Renamed[i] : i \in 1..4} = RenamedNames
    BY NamesAre DEF Range, RenamedNames
<1>2. Reached(Renamed, stops) = {Renamed[i] : i \in {j \in 1..4 : \A k \in 1..j : Renamed[k] \notin stops}}
    BY <1>1 DEF Reached
<1>3. Reached(Renamed, stops) \subseteq RenamedNames \ stops
    BY <1>1, <1>2
<1>4. "winmm.dll" \notin stops => "winmm.dll" \in Reached(Renamed, stops)
    BY <1>1, <1>2
<1>5. stops = {} => Reached(Renamed, stops) = RenamedNames
    BY <1>1, <1>2
<1> QED BY <1>3, <1>4, <1>5

LEMMA RenameFlips ==
    ASSUME NEW f, DOMAIN f \subseteq Files, NEW enable \in BOOLEAN, NEW d, NEW stuck
    PROVE  \E moved, stops :
               /\ Flips(f, RenameOverlay(f, d, enable, stuck).files, enable, moved, stops)
               /\ RenameOverlay(f, d, enable, stuck).ok <=> stops \subseteq {"steam_appid.txt"}
               /\ stuck = Nothing => stops = {}
<1> DEFINE stops == {n \in Range(Renamed) : stuck = << d, n >> /\ Has(f, From(enable, n))}
           moved == {n \in Reached(Renamed, stops) : Has(f, From(enable, n))}
           left == DOMAIN f \ ({From(enable, n) : n \in moved} \cup {To(enable, n) : n \in stops})
           g == [x \in left \cup {To(enable, n) : n \in moved} |->
                    IF x[1] \in moved /\ x = To(enable, x[1]) THEN f[From(enable, x[1])] ELSE f[x]]
<1>1. RenameOverlay(f, d, enable, stuck) = [files |-> g, ok |-> stops \subseteq {"steam_appid.txt"}]
    BY Zenon DEF RenameOverlay
<1>2. /\ stops \in SUBSET RenamedNames /\ moved \in SUBSET RenamedNames
      /\ moved \cap stops = {}
      /\ \A n \in moved \cup stops : Has(f, From(enable, n))
      /\ Has(f, From(enable, "winmm.dll")) => "winmm.dll" \in moved \cup stops
      /\ stops = {} => \A n \in RenamedNames : Has(f, From(enable, n)) => n \in moved
    BY ReachedAre, NamesAre DEF RenamedNames
<1>3. stuck = Nothing => stops = {}
    <2>1. \A n \in RenamedNames : n # "no file"
        BY DEF RenamedNames, Stems
    <2>2. \A n : << d, n >> = Nothing => n = "no file"
        BY DEF Nothing
    <2> QED BY <1>2, <2>1, <2>2
<1> HIDE DEF stops, moved
<1>4. \A n, m \in Names :
        /\ From(enable, n) # To(enable, m)
        /\ From(enable, n) = From(enable, m) => n = m
        /\ To(enable, n) = To(enable, m) => n = m
        /\ To(enable, n)[1] = n /\ From(enable, n)[1] = n
        /\ To(enable, n) \in Files /\ From(enable, n) \in Files
    BY DEF From, To, On, Off, Files
<1>5. RenamedNames \subseteq Names
    BY NamesAre DEF RenamedNames
<1>6. DOMAIN g = left \cup {To(enable, n) : n \in moved}
    OBVIOUS
<1>7. DOMAIN g \subseteq Files
    BY <1>2, <1>4, <1>5, <1>6
<1>8. ASSUME NEW n \in Names
      PROVE  /\ Has(g, From(enable, n)) <=> Has(f, From(enable, n)) /\ n \notin moved
             /\ Has(g, To(enable, n)) <=> n \in moved \/ (Has(f, To(enable, n)) /\ n \notin stops)
             /\ Has(g, From(enable, n)) => g[From(enable, n)] = f[From(enable, n)]
             /\ Has(g, To(enable, n)) =>
                   g[To(enable, n)] = IF n \in moved THEN f[From(enable, n)] ELSE f[To(enable, n)]
    <2>1. From(enable, n) \in DOMAIN g <=> From(enable, n) \in DOMAIN f /\ n \notin moved
        BY <1>2, <1>4, <1>5, <1>6
    <2>2. To(enable, n) \in DOMAIN g <=> n \in moved \/ (To(enable, n) \in DOMAIN f /\ n \notin stops)
        BY <1>2, <1>4, <1>5, <1>6
    <2>3. From(enable, n) \in DOMAIN g => g[From(enable, n)] = f[From(enable, n)]
        BY <1>2, <1>4, <1>5, <1>6
    <2>4. To(enable, n) \in DOMAIN g =>
              g[To(enable, n)] = IF n \in moved THEN f[From(enable, n)] ELSE f[To(enable, n)]
        BY <1>2, <1>4, <1>5, <1>6
    <2> QED BY <2>1, <2>2, <2>3, <2>4 DEF Has
<1>9. Flips(f, g, enable, moved, stops)
    <2> HIDE DEF g
    <2> QED BY <1>2, <1>7, <1>8 DEF Flips
<1> HIDE DEF g
<1>10. RenameOverlay(f, d, enable, stuck).files = g
    BY <1>1
<1>11. RenameOverlay(f, d, enable, stuck).ok = (stops \subseteq {"steam_appid.txt"})
    BY <1>1
<1> QED BY <1>3, <1>9, <1>10, <1>11

--------------------------------------------------------------------------------
(***************************************************************************)
(* One folder.  Files of Online Fix have its names, and all but winmm.dll  *)
(* are its own; one that is off is never under one of another that is on,  *)
(* which the next switch would put in its place.  A folder that is not     *)
(* the executable's has nothing of Unsteam and of the kit.                 *)
(***************************************************************************)
FixOff(f) == Has(f, Off("winmm.dll")) /\ f[Off("winmm.dll")] = "fix"
FixOn(f) == Has(f, On("winmm.dll")) /\ f[On("winmm.dll")] = "fix"

Owned(f, n, x) ==
    Has(f, x) =>
        /\ f[x] \in Owners
        /\ f[x] = "fix" => n \in FixNames
        /\ n \in FixNames \ {"winmm.dll"} => f[x] = "fix"

FolderOK(f) ==
    /\ DOMAIN f \subseteq Files
    /\ \A n \in Names : Owned(f, n, On(n)) /\ Owned(f, n, Off(n))
    /\ FixOff(f) /\ Has(f, On("winmm.dll")) => FixOn(f)
    /\ Has(f, On("unsteam.dll")) => Has(f, On("unsteam.ini"))

Elsewhere(f) ==
    /\ ~Has(f, On("unsteam.dll")) /\ ~Has(f, Off("unsteam.dll")) /\ ~Has(f, On("unsteam.ini"))
    /\ Has(f, On("winmm.dll")) => FixOn(f)
    /\ Has(f, Off("winmm.dll")) => FixOff(f)

\* a file of Online Fix under one of its names
FixIn(f, n) ==
    \/ Has(f, On(n)) /\ f[On(n)] = "fix"
    \/ Has(f, Off(n)) /\ f[Off(n)] = "fix"

There(f, n) == Has(f, On(n)) \/ Has(f, Off(n))

\* what a switch to SteamFix leaves beside the executable
KitOnly(f) == Has(f, On("SteamFix.ini")) /\ \A n \in Names : ~FixIn(f, n)

\* The name that Online Fix is under is wanted by a file of another.
Covers(f, enable) ==
    /\ Has(f, From(enable, "winmm.dll")) /\ f[From(enable, "winmm.dll")] # "fix"
    /\ Has(f, To(enable, "winmm.dll")) /\ f[To(enable, "winmm.dll")] = "fix"

LEMMA NoCover == ASSUME NEW f, FolderOK(f) PROVE ~Covers(f, FALSE)
BY DEF FolderOK, FixOff, FixOn, Covers, From, To

LEMMA FlipKeeps ==
    ASSUME NEW f, NEW g, NEW enable \in BOOLEAN, NEW moved, NEW stops,
           FolderOK(f), Flips(f, g, enable, moved, stops)
    PROVE  /\ FolderOK(g)
           /\ Elsewhere(f) => Elsewhere(g)
           /\ ~(Has(g, On("winmm.dll")) /\ Has(g, Off("winmm.dll")))
           /\ \A n \in Names : FixIn(f, n) /\ (n = "winmm.dll" => ~Covers(f, enable)) => FixIn(g, n)
           /\ \A n \in Names : There(g, n) <=> There(f, n)
           /\ KitOnly(f) => KitOnly(g)
           /\ HoldsOnlineFix(f) => HoldsOnlineFix(g)
<1>1. /\ \A n \in Names : \/ From(enable, n) = On(n) /\ To(enable, n) = Off(n)
                          \/ From(enable, n) = Off(n) /\ To(enable, n) = On(n)
      /\ enable => From(enable, "winmm.dll") = Off("winmm.dll") /\ To(enable, "winmm.dll") = On("winmm.dll")
      /\ ~enable => From(enable, "winmm.dll") = On("winmm.dll") /\ To(enable, "winmm.dll") = Off("winmm.dll")
    BY DEF From, To
<1>2. /\ "winmm.dll" \in Names /\ "unsteam.dll" \in Names \ RenamedNames
      /\ "unsteam.ini" \in Names \ RenamedNames /\ "SteamFix.ini" \in Names \ RenamedNames
      /\ RenamedNames \subseteq Names
    BY NamesAre DEF Stems, RenamedNames, KitNames
<1>3. ASSUME NEW n \in Names \ RenamedNames
      PROVE  /\ Has(g, On(n)) <=> Has(f, On(n))
             /\ Has(g, Off(n)) <=> Has(f, Off(n))
             /\ Has(f, On(n)) => g[On(n)] = f[On(n)]
             /\ Has(f, Off(n)) => g[Off(n)] = f[Off(n)]
    BY <1>1 DEF Flips
<1>4. ASSUME NEW n \in Names
      PROVE  /\ Owned(g, n, On(n)) /\ Owned(g, n, Off(n))
             /\ There(g, n) <=> There(f, n)
             /\ FixIn(g, n) => FixIn(f, n)
    BY <1>1 DEF Flips, FolderOK, Owned, There, FixIn
<1>5. ~(Has(g, On("winmm.dll")) /\ Has(g, Off("winmm.dll")))
    BY <1>1, <1>2 DEF Flips
<1>6. FolderOK(g)
    BY <1>2, <1>3, <1>4, <1>5 DEF FolderOK, FixOff, FixOn, Flips
<1>7. ASSUME Elsewhere(f) PROVE Elsewhere(g)
    <2>1. /\ Has(g, On("winmm.dll")) => FixOn(g)
          /\ Has(g, Off("winmm.dll")) => FixOff(g)
        BY <1>1, <1>2, <1>7 DEF Flips, Elsewhere, FixOn, FixOff
    <2> QED BY <1>2, <1>3, <1>7, <2>1 DEF Elsewhere
<1>8. ASSUME NEW n \in Names, FixIn(f, n), n = "winmm.dll" => ~Covers(f, enable)
      PROVE  FixIn(g, n)
    <2>1. n \in FixNames
        BY <1>8 DEF FixIn, FolderOK, Owned
    <2>2. CASE n # "winmm.dll"
        <3>1. There(f, n)
            BY <1>8 DEF FixIn, There
        <3> QED BY <1>4, <2>1, <2>2, <3>1 DEF There, Owned, FixIn
    <2>3. CASE n = "winmm.dll"
        BY <1>1, <1>2, <1>8, <2>3 DEF Flips, Covers, FixIn
    <2> QED BY <2>2, <2>3
<1>9. ASSUME KitOnly(f) PROVE KitOnly(g)
    BY <1>2, <1>3, <1>4, <1>9 DEF KitOnly
<1>10. ASSUME HoldsOnlineFix(f) PROVE HoldsOnlineFix(g)
    <2>1. /\ "OnlineFix.ini" \in Names \ RenamedNames /\ "dlllist.txt" \in Names \ RenamedNames
          /\ "OnlineFix64.dll" \in Names
        BY NamesAre DEF Stems, RenamedNames, FixNames
    <2> QED BY <1>3, <1>4, <1>10, <2>1 DEF HoldsOnlineFix, There
<1> QED BY <1>4, <1>5, <1>6, <1>7, <1>8, <1>9, <1>10

--------------------------------------------------------------------------------
(***************************************************************************)
(* The whole disk                                                          *)
(***************************************************************************)
DiskOK(dk) ==
    /\ DOMAIN dk = Dirs
    /\ \A d \in Dirs : FolderOK(dk[d]) /\ (d # exe => Elsewhere(dk[d]))

\* A folder after an operation that changes names only: what is in it, and of Online Fix.
Keeps(f, g) ==
    /\ \A n \in Names : There(g, n) <=> There(f, n)
    /\ KitOnly(f) => KitOnly(g)
    /\ HoldsOnlineFix(f) => HoldsOnlineFix(g)

LEMMA NoneReached ==
    /\ Reached(Walk, {}) = Dirs
    /\ \A stops : Reached(Walk, stops) \subseteq Dirs
<1>1. DOMAIN Walk = 1..Len(Walk) /\ Len(Walk) \in Nat
    BY OverlayAssumption
<1> QED BY <1>1 DEF Reached, Dirs, Range

LEMMA SetOverlayKeeps ==
    ASSUME NEW dk, DiskOK(dk), NEW enable \in BOOLEAN, NEW stuck
    PROVE  LET r == SetOverlay(dk, enable, stuck)
           IN /\ DiskOK(r.disk)
              /\ \A d \in Dirs :
                    /\ Keeps(dk[d], r.disk[d])
                    /\ \A n \in Names :
                          FixIn(dk[d], n) /\ (n = "winmm.dll" => ~Covers(dk[d], enable))
                              => FixIn(r.disk[d], n)
                    /\ \/ r.disk[d] = dk[d]
                       \/ ~(Has(r.disk[d], On("winmm.dll")) /\ Has(r.disk[d], Off("winmm.dll")))
              /\ stuck = Nothing =>
                    /\ r.ok
                    /\ \A d \in Dirs \ OverlayDirs(dk) : r.disk[d] = dk[d]
                    /\ \A d \in OverlayDirs(dk), n \in RenamedNames :
                          ~Has(r.disk[d], From(enable, n))
<1> DEFINE Result(d) == RenameOverlay(dk[d], d, enable, stuck)
           failing == {d \in OverlayDirs(dk) : ~Result(d).ok}
           done == (Reached(Walk, failing) \cup failing) \cap OverlayDirs(dk)
           new == [d \in Dirs |-> IF d \in done THEN Result(d).files ELSE dk[d]]
<1>1. SetOverlay(dk, enable, stuck) = [disk |-> new, ok |-> failing = {}]
    BY Zenon DEF SetOverlay
<1>2. ASSUME NEW d \in Dirs
      PROVE  /\ FolderOK(Result(d).files)
             /\ Elsewhere(dk[d]) => Elsewhere(Result(d).files)
             /\ Keeps(dk[d], Result(d).files)
             /\ \A n \in Names :
                   FixIn(dk[d], n) /\ (n = "winmm.dll" => ~Covers(dk[d], enable))
                       => FixIn(Result(d).files, n)
             /\ ~(Has(Result(d).files, On("winmm.dll")) /\ Has(Result(d).files, Off("winmm.dll")))
             /\ stuck = Nothing =>
                   /\ Result(d).ok
                   /\ \A n \in RenamedNames : ~Has(Result(d).files, From(enable, n))
    <2>1. FolderOK(dk[d]) /\ DOMAIN dk[d] \subseteq Files
        BY DEF DiskOK, FolderOK
    <2>2. PICK moved, stops :
              /\ Flips(dk[d], Result(d).files, enable, moved, stops)
              /\ Result(d).ok <=> stops \subseteq {"steam_appid.txt"}
              /\ stuck = Nothing => stops = {}
        BY <2>1, RenameFlips
    <2> HIDE DEF Result
    <2>3. stuck = Nothing => \A n \in RenamedNames : ~Has(Result(d).files, From(enable, n))
        BY <2>2, NamesAre DEF Flips, RenamedNames
    <2> QED BY <2>1, <2>2, <2>3, FlipKeeps DEF Keeps
<1>3. done \subseteq OverlayDirs(dk) /\ OverlayDirs(dk) \subseteq Dirs
    BY DEF OverlayDirs
<1>4. stuck = Nothing => failing = {} /\ done = OverlayDirs(dk)
    BY <1>2, <1>3, NoneReached
<1> HIDE DEF done, failing, Result
<1>5. DOMAIN new = Dirs /\ \A d \in Dirs : new[d] = IF d \in done THEN Result(d).files ELSE dk[d]
    OBVIOUS
<1> HIDE DEF new
<1>6. DiskOK(new)
    BY <1>2, <1>5 DEF DiskOK
<1>7. ASSUME NEW d \in Dirs
      PROVE  /\ Keeps(dk[d], new[d])
             /\ \A n \in Names :
                   FixIn(dk[d], n) /\ (n = "winmm.dll" => ~Covers(dk[d], enable))
                       => FixIn(new[d], n)
             /\ \/ new[d] = dk[d]
                \/ ~(Has(new[d], On("winmm.dll")) /\ Has(new[d], Off("winmm.dll")))
    <2>1. CASE d \in done
        BY <1>2, <1>5, <2>1
    <2>2. CASE d \notin done
        BY <1>5, <2>2 DEF Keeps
    <2> QED BY <2>1, <2>2
<1>8. ASSUME stuck = Nothing
      PROVE  /\ failing = {}
             /\ \A d \in Dirs \ OverlayDirs(dk) : new[d] = dk[d]
             /\ \A d \in OverlayDirs(dk), n \in RenamedNames : ~Has(new[d], From(enable, n))
    BY <1>2, <1>3, <1>4, <1>5, <1>8
<1>9. /\ SetOverlay(dk, enable, stuck).disk = new
      /\ SetOverlay(dk, enable, stuck).ok = (failing = {})
    BY <1>1
<1> QED BY <1>6, <1>7, <1>8, <1>9

LEMMA RenameIs ==
    ASSUME NEW f, NEW x, NEW y, x # y
    PROVE  /\ ~Has(f, x) => Rename(f, x, y) = f
           /\ Has(f, x) =>
                 /\ ~Has(Rename(f, x, y), x)
                 /\ Has(Rename(f, x, y), y) /\ Rename(f, x, y)[y] = f[x]
                 /\ \A z : z \notin {x, y} =>
                       /\ Has(Rename(f, x, y), z) <=> Has(f, z)
                       /\ Has(f, z) => Rename(f, x, y)[z] = f[z]
                 /\ DOMAIN Rename(f, x, y) \subseteq DOMAIN f \cup {y}
BY DEF Rename, Has, Put, Without

\* Only beside the executable is an Unsteam, and when it is turned off its proxy has its
\* other name.
LEMMA UnsteamOffKeeps ==
    ASSUME NEW dk, DiskOK(dk), exe \in Dirs, DetectUnsteam(dk) # {}
    PROVE  /\ DetectUnsteam(dk) = {exe}
           /\ DiskOK(UnsteamOff(dk))
           /\ \A d \in Dirs : Keeps(dk[d], UnsteamOff(dk)[d])
           /\ \A d \in Dirs, n \in Names : FixIn(dk[d], n) => FixIn(UnsteamOff(dk)[d], n)
           /\ ~Has(UnsteamOff(dk)[exe], On("winmm.dll"))
           /\ \A d \in Dirs \ {exe} : UnsteamOff(dk)[d] = dk[d]
<1> DEFINE f == dk[exe]
           proxy == Rename(f, On("winmm.dll"), Off("winmm.dll"))
           g == Rename(proxy, On("unsteam.dll"), Off("unsteam.dll"))
<1>1. DetectUnsteam(dk) = {exe}
    BY DEF DetectUnsteam, DiskOK, Elsewhere, UnsteamOn
<1>2. UnsteamOff(dk) = [dk EXCEPT ![exe] = g]
    <2>1. FirstOf({exe}, Root) = exe
        <3>1. {exe} \in SUBSET Dirs /\ {exe} # {} /\ Walk \in Seq(STRING)
            BY OverlayAssumption
        <3>2. FirstOf({exe}, Root) \in {exe}
            BY ONLY <3>1, FirstIsOne
        <3> QED BY <3>2
    <2>2. PICK d : d = FirstOf(DetectUnsteam(dk), Root)
        OBVIOUS
    <2>3. UnsteamOff(dk) =
              LET pr == Rename(dk[d], On("winmm.dll"), Off("winmm.dll"))
              IN [dk EXCEPT ![d] = Rename(pr, On("unsteam.dll"), Off("unsteam.dll"))]
        BY <2>2, Zenon DEF UnsteamOff
    <2>4. d = exe
        BY <1>1, <2>1, <2>2
    <2> QED BY <2>3, <2>4
<1>3. FolderOK(f)
    BY DEF DiskOK
<1> HIDE DEF f
<1>4. \A m, n : /\ On(m) # Off(n)
                /\ On(m) = On(n) => m = n
                /\ Off(m) = Off(n) => m = n
    BY DEF On, Off
<1>5. /\ {"winmm.dll", "unsteam.dll", "unsteam.ini", "SteamFix.ini", "OnlineFix.ini",
          "dlllist.txt", "OnlineFix64.dll"} \subseteq Names
      /\ \A n \in Names : On(n) \in Files /\ Off(n) \in Files
      /\ "unsteam.dll" \notin FixNames /\ "winmm.dll" \in FixNames
    BY NamesAre DEF Stems, FixNames, KitNames, Files, On, Off
<1>6. /\ ~Has(f, On("winmm.dll")) => proxy = f
      /\ ~Has(proxy, On("winmm.dll"))
      /\ Has(f, On("winmm.dll")) =>
            Has(proxy, Off("winmm.dll")) /\ proxy[Off("winmm.dll")] = f[On("winmm.dll")]
      /\ \A z : z \notin {On("winmm.dll"), Off("winmm.dll")} =>
            (Has(proxy, z) <=> Has(f, z)) /\ (Has(f, z) => proxy[z] = f[z])
      /\ DOMAIN proxy \subseteq Files
    BY <1>3, <1>4, <1>5, RenameIs DEF FolderOK
<1> HIDE DEF proxy
<1>7. /\ ~Has(proxy, On("unsteam.dll")) => g = proxy
      /\ ~Has(g, On("unsteam.dll"))
      /\ Has(proxy, On("unsteam.dll")) =>
            Has(g, Off("unsteam.dll")) /\ g[Off("unsteam.dll")] = proxy[On("unsteam.dll")]
      /\ \A z : z \notin {On("unsteam.dll"), Off("unsteam.dll")} =>
            (Has(g, z) <=> Has(proxy, z)) /\ (Has(proxy, z) => g[z] = proxy[z])
      /\ DOMAIN g \subseteq Files
    BY <1>4, <1>5, <1>6, RenameIs
<1> HIDE DEF g
<1>8. ASSUME NEW n \in Names
      PROVE  /\ Owned(g, n, On(n)) /\ Owned(g, n, Off(n))
             /\ There(g, n) <=> There(f, n)
             /\ FixIn(f, n) <=> FixIn(g, n)
    <2>1. Owned(f, n, On(n)) /\ Owned(f, n, Off(n))
        BY <1>3 DEF FolderOK
    <2>2. CASE n = "winmm.dll"
        BY <1>3, <1>4, <1>5, <1>6, <1>7, <2>1, <2>2 DEF Owned, There, FixIn, FolderOK, FixOff, FixOn
    <2>3. CASE n = "unsteam.dll"
        BY <1>3, <1>4, <1>5, <1>6, <1>7, <2>1, <2>3 DEF Owned, There, FixIn
    <2>4. CASE n \notin {"winmm.dll", "unsteam.dll"}
        BY <1>4, <1>6, <1>7, <2>1, <2>4 DEF Owned, There, FixIn
    <2> QED BY <2>2, <2>3, <2>4
<1>9. ~Has(g, On("winmm.dll"))
    BY <1>4, <1>6, <1>7
<1>10. \A n \in {"unsteam.ini", "SteamFix.ini", "OnlineFix.ini", "dlllist.txt"} :
           Has(g, On(n)) <=> Has(f, On(n))
    BY <1>4, <1>6, <1>7
<1>11. FolderOK(g)
    BY <1>5, <1>7, <1>8, <1>9 DEF FolderOK
<1>12. Keeps(f, g)
    BY <1>5, <1>8, <1>10 DEF Keeps, KitOnly, HoldsOnlineFix, There
<1>13. /\ DOMAIN UnsteamOff(dk) = Dirs /\ UnsteamOff(dk)[exe] = g
       /\ \A d \in Dirs \ {exe} : UnsteamOff(dk)[d] = dk[d]
    BY <1>2 DEF DiskOK
<1>14. \A d \in Dirs : Keeps(dk[d], dk[d])
    BY DEF Keeps
<1> QED BY <1>1, <1>8, <1>9, <1>11, <1>12, <1>13, <1>14 DEF DiskOK, f

\* Beside the executable, Online Fix that is on while a file of another layer is off is live,
\* or the Unsteam there is, which is turned off before Online Fix is turned on.
LEMMA SetOnlineFixKeeps ==
    ASSUME NEW dk, DiskOK(dk), exe \in Dirs, NEW enable \in BOOLEAN, NEW stuck,
           enable => ~DetectOnlineFix(dk).enabled
    PROVE  LET r == SetOnlineFix(dk, enable, stuck)
           IN /\ DiskOK(r.disk)
              /\ \A d \in Dirs :
                    /\ Keeps(dk[d], r.disk[d])
                    /\ \A n \in Names :
                          FixIn(dk[d], n) => \/ FixIn(r.disk[d], n)
                                             \/ /\ d = exe /\ n = "winmm.dll" /\ Covers(dk[d], TRUE)
                                                /\ ~Has(dk[d], On("OnlineFix64.dll"))
              /\ \/ r.disk[exe] = dk[exe]
                 \/ ~(Has(r.disk[exe], On("winmm.dll")) /\ Has(r.disk[exe], Off("winmm.dll")))
<1> DEFINE mid == IF enable /\ DetectUnsteam(dk) # {} THEN UnsteamOff(dk) ELSE dk
           r == SetOverlay(mid, enable, stuck)
<1>1. SetOnlineFix(dk, enable, stuck) = r
    BY DEF SetOnlineFix
<1>2. /\ DiskOK(mid)
      /\ \A d \in Dirs : Keeps(dk[d], mid[d])
      /\ \A d \in Dirs, n \in Names : FixIn(dk[d], n) => FixIn(mid[d], n)
      /\ mid[exe] = dk[exe] \/ ~Has(mid[exe], On("winmm.dll"))
    <2>1. CASE enable /\ DetectUnsteam(dk) # {}
        BY <2>1, UnsteamOffKeeps
    <2>2. CASE ~(enable /\ DetectUnsteam(dk) # {})
        BY <2>2 DEF Keeps
    <2> QED BY <2>1, <2>2
<1>3. ASSUME NEW d \in Dirs, Covers(mid[d], enable)
      PROVE  d = exe /\ mid[d] = dk[d] /\ Covers(dk[d], TRUE) /\ ~Has(dk[d], On("OnlineFix64.dll"))
    <2>1. FolderOK(mid[d]) /\ (d # exe => Elsewhere(mid[d]))
        BY <1>2 DEF DiskOK
    <2>2. enable = TRUE
        BY <1>3, <2>1, NoCover
    <2>3. /\ Has(mid[d], Off("winmm.dll")) /\ mid[d][Off("winmm.dll")] # "fix"
          /\ Has(mid[d], On("winmm.dll"))
        BY <1>3, <2>2 DEF Covers, From, To
    <2>4. d = exe
        BY <2>1, <2>3 DEF Elsewhere, FixOff
    <2>5. mid[exe] = dk[exe]
        BY <1>2, <2>3, <2>4
    <2>6. ASSUME Has(dk[exe], On("OnlineFix64.dll")) PROVE FALSE
        <3>1. DetectUnsteam(dk) = {}
            <4> SUFFICES ASSUME DetectUnsteam(dk) # {} PROVE FALSE
                OBVIOUS
            <4>1. mid = UnsteamOff(dk)
                BY <2>2
            <4> QED BY <2>3, <2>4, <4>1, UnsteamOffKeeps
        <3>2. ActiveDll(dk[exe])
            BY <2>6, NamesAre DEF ActiveDll, Stems
        <3>3. exe \in OverlayDirs(dk)
            BY <3>2 DEF OverlayDirs, LooksLikeOverlay
        <3>4. ~LiveIn(dk[exe])
            <4>1. DetectOnlineFix(dk).enabled = ({d1 \in OverlayDirs(dk) : LiveIn(dk[d1])} # {})
                BY <3>3 DEF DetectOnlineFix
            <4> QED BY <2>2, <3>3, <4>1
        <3>5. UnsteamIsLiveIn(dk[exe])
            BY <3>2, <3>4 DEF LiveIn
        <3>6. exe \in DetectUnsteam(dk)
            BY <3>5 DEF DetectUnsteam, UnsteamIsLiveIn, UnsteamOn, DiskOK, FolderOK
        <3> QED BY <3>1, <3>6
    <2> QED BY <1>3, <2>2, <2>4, <2>5, <2>6
<1> HIDE DEF mid
<1>4. /\ DiskOK(r.disk)
      /\ \A d \in Dirs :
            /\ Keeps(mid[d], r.disk[d])
            /\ \A n \in Names :
                  FixIn(mid[d], n) /\ (n = "winmm.dll" => ~Covers(mid[d], enable))
                      => FixIn(r.disk[d], n)
            /\ \/ r.disk[d] = mid[d]
               \/ ~(Has(r.disk[d], On("winmm.dll")) /\ Has(r.disk[d], Off("winmm.dll")))
    BY <1>2, SetOverlayKeeps
<1> HIDE DEF r
<1>5. ASSUME NEW d \in Dirs
      PROVE  /\ Keeps(dk[d], r.disk[d])
             /\ \A n \in Names :
                   FixIn(dk[d], n) => \/ FixIn(r.disk[d], n)
                                      \/ /\ d = exe /\ n = "winmm.dll" /\ Covers(dk[d], TRUE)
                                         /\ ~Has(dk[d], On("OnlineFix64.dll"))
    <2>1. Keeps(dk[d], r.disk[d])
        BY <1>2, <1>4 DEF Keeps
    <2> QED BY <1>2, <1>3, <1>4, <2>1
<1>6. \/ r.disk[exe] = dk[exe]
      \/ ~(Has(r.disk[exe], On("winmm.dll")) /\ Has(r.disk[exe], Off("winmm.dll")))
    BY <1>2, <1>4
<1> QED BY <1>1, <1>4, <1>5, <1>6

--------------------------------------------------------------------------------
(***************************************************************************)
(* A launch and a plugin only add files.                                   *)
(***************************************************************************)
Written == {On("winmm.txt"), On("steam_appid.txt")}

\* What a launch adds to a folder, or writes anew.
Gains(f, g) ==
    /\ DOMAIN f \subseteq DOMAIN g /\ DOMAIN g \subseteq Files
    /\ \A x \in DOMAIN g :
          \/ x \in DOMAIN f /\ g[x] = f[x]
          \/ x \in Written /\ g[x] = "text"
          \/ /\ x \notin DOMAIN f /\ ~Has(f, On("SteamFix.ini"))
             /\ \E n \in Wanted :
                   /\ x = On(n)
                   /\ n \in FixNames => g[x] = "fix"
                   /\ n \notin FixNames => g[x] \in Owners \ {"fix"}

\* What stays true of a folder that grows.
Grows(f, g) ==
    /\ \A n \in Names : FixIn(f, n) => FixIn(g, n)
    /\ KitOnly(f) => KitOnly(g)
    /\ HoldsOnlineFix(f) => HoldsOnlineFix(g)
    /\ LooksLikeOverlay(f) => LooksLikeOverlay(g)
    /\ Has(f, On("OnlineFix64.dll")) => Has(g, On("OnlineFix64.dll"))
    /\ Covers(g, TRUE) => Covers(f, TRUE) \/ ~FixIn(f, "winmm.dll")

LEMMA FilesAre ==
    /\ \A m, n : /\ On(m) # Off(n)
                 /\ On(m) = On(n) => m = n
                 /\ Off(m) = Off(n) => m = n
    /\ \A n \in Names : On(n) \in Files /\ Off(n) \in Files
    /\ \A x \in Files : \E n \in Names : x = On(n) \/ x = Off(n)
    /\ Wanted = FixNames \cup {"SteamFix.ini"}
    /\ Written \subseteq Files
BY NamesAre DEF On, Off, Files, Wanted, FixNames, KitNames, Written

LEMMA GainKeeps ==
    ASSUME NEW f, NEW g, FolderOK(f), Gains(f, g)
    PROVE  /\ FolderOK(g)
           /\ Elsewhere(f) => Elsewhere(g)
           /\ Grows(f, g)
<1>1. /\ {"winmm.dll", "unsteam.dll", "unsteam.ini", "SteamFix.ini", "OnlineFix.ini",
          "dlllist.txt", "OnlineFix64.dll"} \cup Stems \cup Texts \subseteq Names
      /\ {"winmm.txt", "steam_appid.txt", "SteamFix.ini", "unsteam.dll", "unsteam.ini"} \cap FixNames = {}
      /\ "winmm.dll" \in FixNames
    BY NamesAre DEF Stems, FixNames, KitNames, Names
<1>2. ASSUME NEW n \in Names
      PROVE  /\ Has(g, Off(n)) <=> Has(f, Off(n))
             /\ Has(f, Off(n)) => g[Off(n)] = f[Off(n)]
             /\ Has(f, On(n)) => Has(g, On(n))
             /\ Has(f, On(n)) /\ n \notin {"winmm.txt", "steam_appid.txt"} => g[On(n)] = f[On(n)]
             /\ Has(f, On("SteamFix.ini")) /\ ~Has(f, On(n)) /\ Has(g, On(n)) => g[On(n)] = "text"
             /\ Has(g, On(n)) /\ ~Has(f, On(n)) =>
                   n \in FixNames \cup {"SteamFix.ini", "winmm.txt", "steam_appid.txt"}
             /\ Has(g, On(n)) => \/ Has(f, On(n)) /\ g[On(n)] = f[On(n)]
                                 \/ n \in FixNames /\ g[On(n)] = "fix"
                                 \/ n \notin FixNames /\ g[On(n)] \in Owners \ {"fix"}
    <2>1. /\ On(n) \in Written <=> n \in {"winmm.txt", "steam_appid.txt"}
          /\ Off(n) \notin Written
        BY FilesAre DEF Written
    <2>2. "text" \in Owners \ {"fix"}
        BY DEF Owners
    <2> QED BY <1>1, <2>1, <2>2, FilesAre DEF Gains, Has
<1>3. ASSUME NEW n \in Names
      PROVE  /\ Owned(g, n, On(n)) /\ Owned(g, n, Off(n))
             /\ FixIn(f, n) => FixIn(g, n)
    <2>1. Owned(f, n, On(n)) /\ Owned(f, n, Off(n))
        BY DEF FolderOK
    <2>2. n \in {"winmm.txt", "steam_appid.txt"} => n \notin FixNames
        BY <1>1
    <2>3. "fix" \in Owners
        BY DEF Owners
    <2> QED BY <1>2, <2>1, <2>2, <2>3 DEF Owned, FixIn
<1>4. /\ Has(g, On("winmm.dll")) /\ ~Has(f, On("winmm.dll")) => g[On("winmm.dll")] = "fix"
      /\ Has(f, On("winmm.dll")) => Has(g, On("winmm.dll")) /\ g[On("winmm.dll")] = f[On("winmm.dll")]
      /\ Has(g, Off("winmm.dll")) <=> Has(f, Off("winmm.dll"))
      /\ Has(f, Off("winmm.dll")) => g[Off("winmm.dll")] = f[Off("winmm.dll")]
    BY <1>1, <1>2
<1>5. \A n \in {"unsteam.dll", "unsteam.ini"} :
          (Has(g, On(n)) <=> Has(f, On(n))) /\ (Has(g, Off(n)) <=> Has(f, Off(n)))
    BY <1>1, <1>2
<1>6. FolderOK(g)
    BY <1>3, <1>4, <1>5 DEF FolderOK, Gains, FixOff, FixOn
<1>7. Elsewhere(f) => Elsewhere(g)
    BY <1>4, <1>5 DEF Elsewhere, FixOff, FixOn
<1>8. KitOnly(f) => KitOnly(g)
    <2> SUFFICES ASSUME KitOnly(f) PROVE KitOnly(g)
        OBVIOUS
    <2>1. Has(g, On("SteamFix.ini"))
        BY <1>1, <1>2 DEF KitOnly
    <2>2. ASSUME NEW n \in Names PROVE ~FixIn(g, n)
        <3>1. ~FixIn(f, n) /\ Has(f, On("SteamFix.ini"))
            BY DEF KitOnly
        <3>2. On(n) \in DOMAIN g /\ g[On(n)] = "fix" => On(n) \in DOMAIN f /\ f[On(n)] = "fix"
            BY <3>1 DEF Gains
        <3> QED BY <1>2, <3>1, <3>2 DEF FixIn, Has
    <2> QED BY <2>1, <2>2 DEF KitOnly
<1>9. HoldsOnlineFix(f) => HoldsOnlineFix(g)
    BY <1>1, <1>2 DEF HoldsOnlineFix
<1>10. LooksLikeOverlay(f) => LooksLikeOverlay(g)
    BY <1>1, <1>2, <1>5, NamesAre DEF LooksLikeOverlay, ActiveDll, DisabledOverlay, WinmmBelongsToUnsteam
<1>11. Covers(g, TRUE) => Covers(f, TRUE) \/ ~FixIn(f, "winmm.dll")
    BY <1>4 DEF Covers, FixIn, From, To
<1> QED BY <1>1, <1>2, <1>3, <1>6, <1>7, <1>8, <1>9, <1>10, <1>11 DEF Grows

\* Only Online Fix that is live beside its dlllist.txt is copied.
LEMMA HealGains ==
    ASSUME NEW dk, DiskOK(dk), exe \in Dirs
    PROVE  /\ DOMAIN Heal(dk) = Dirs
           /\ \A d \in Dirs : Gains(dk[d], Heal(dk)[d])
           /\ Heal(dk) # dk => \E d \in OverlayDirs(dk) : LiveIn(dk[d])
<1> DEFINE sources == {d \in OverlayDirs(dk) : /\ Has(dk[d], On("dlllist.txt"))
                                               /\ Has(dk[d], On("winmm.dll"))}
           source == FirstOf(sources, exe)
           missing == {On(name) : name \in {n \in Wanted : /\ Has(dk[source], On(n))
                                                           /\ ~Has(dk[exe], On(n))}}
           healed == [x \in DOMAIN dk[exe] \cup missing |->
                         IF x \in missing THEN dk[source][x] ELSE dk[exe][x]]
<1>1. \A d \in Dirs : Gains(dk[d], dk[d])
    BY DEF Gains, DiskOK, FolderOK
<1>2. CASE source = exe \/ Has(dk[exe], On("SteamFix64.dll")) \/ Has(dk[exe], On("SteamFix.ini"))
    <2>1. Heal(dk) = dk
        BY <1>2 DEF Heal
    <2> QED BY <1>1, <2>1 DEF DiskOK
<1>3. CASE ~(source = exe \/ Has(dk[exe], On("SteamFix64.dll")) \/ Has(dk[exe], On("SteamFix.ini")))
    <2>1. Heal(dk) = [dk EXCEPT ![exe] = healed]
        BY <1>3 DEF Heal
    <2>2. sources \in SUBSET Dirs /\ sources # {}
        <3>1. sources = {} => source = exe
            BY DEF FirstOf
        <3> QED BY <1>3, <3>1 DEF OverlayDirs
    <2>3. source \in sources /\ source \in Dirs
        <3> HIDE DEF sources
        <3> QED BY <2>2, FirstIsOne, OverlayAssumption
    <2>4. Elsewhere(dk[source]) /\ FolderOK(dk[source]) /\ FolderOK(dk[exe])
        BY <1>3, <2>3 DEF DiskOK
    <2>5. /\ source \in OverlayDirs(dk)
          /\ Has(dk[source], On("winmm.dll"))
        BY <2>3
    <2> HIDE DEF source
    <2>6. Gains(dk[exe], healed)
        <3>1. ASSUME NEW x \in missing
              PROVE  /\ x \in Files /\ x \notin DOMAIN dk[exe]
                     /\ \E n \in Wanted : /\ x = On(n)
                                          /\ n \in FixNames => dk[source][x] = "fix"
                                          /\ n \notin FixNames => dk[source][x] \in Owners \ {"fix"}
            <4>1. PICK n \in Wanted : x = On(n) /\ Has(dk[source], On(n)) /\ ~Has(dk[exe], On(n))
                OBVIOUS
            <4>2. n \in Names /\ Owned(dk[source], n, x)
                BY <2>4, <4>1, FilesAre, NamesAre DEF FolderOK, KitNames
            <4>3. n = "winmm.dll" => dk[source][x] = "fix"
                BY <2>4, <4>1 DEF Elsewhere, FixOn
            <4> QED BY <4>1, <4>2, <4>3, FilesAre DEF Owned, Has
        <3> HIDE DEF missing
        <3>2. DOMAIN healed = DOMAIN dk[exe] \cup missing
            OBVIOUS
        <3>3. \A x \in DOMAIN healed :
                  healed[x] = IF x \in missing THEN dk[source][x] ELSE dk[exe][x]
            OBVIOUS
        <3>4. ~Has(dk[exe], On("SteamFix.ini")) /\ DOMAIN dk[exe] \subseteq Files
            BY <1>3, <2>4 DEF FolderOK
        <3> HIDE DEF healed
        <3> QED BY <3>1, <3>2, <3>3, <3>4 DEF Gains
    <2>7. LiveIn(dk[source])
        BY <2>4, <2>5, NamesAre
           DEF LiveIn, ActiveDll, UnsteamIsLiveIn, WinmmBelongsToUnsteam, Elsewhere, Stems
    <2> HIDE DEF healed
    <2>8. DOMAIN Heal(dk) = Dirs /\ \A d \in Dirs : Gains(dk[d], Heal(dk)[d])
        BY <1>1, <2>1, <2>6 DEF DiskOK
    <2> QED BY <2>5, <2>7, <2>8
<1> QED BY <1>2, <1>3

LEMMA ApplyGains ==
    ASSUME NEW dk, DiskOK(dk)
    PROVE  /\ DOMAIN ApplyLaunchInfo(dk) = Dirs
           /\ \A d \in Dirs : Gains(dk[d], ApplyLaunchInfo(dk)[d])
           /\ ~DetectOnlineFix(dk).enabled => ApplyLaunchInfo(dk) = dk
<1> DEFINE fix == DetectOnlineFix(dk)
           WinmmTxt(f) == IF Has(f, On("SteamFix64.dll")) THEN Put(f, On("winmm.txt"), "text") ELSE f
           Texted(f) == Put(WinmmTxt(f), On("steam_appid.txt"), "text")
           new == [d \in Dirs |-> IF d \in {fix.dir, exe} THEN Texted(dk[d]) ELSE dk[d]]
<1>1. ApplyLaunchInfo(dk) = IF fix.enabled THEN new ELSE dk
    BY Zenon DEF ApplyLaunchInfo
<1>2. \A d \in Dirs : Gains(dk[d], dk[d])
    BY DEF Gains, DiskOK, FolderOK
<1>3. ASSUME NEW d \in Dirs PROVE Gains(dk[d], Texted(dk[d]))
    <2>1. DOMAIN dk[d] \subseteq Files
        BY DEF DiskOK, FolderOK
    <2>2. /\ DOMAIN dk[d] \subseteq DOMAIN Texted(dk[d])
          /\ DOMAIN Texted(dk[d]) \subseteq DOMAIN dk[d] \cup Written
        BY DEF Put, Has, Written
    <2>3. \A x \in DOMAIN Texted(dk[d]) :
              \/ x \in DOMAIN dk[d] /\ Texted(dk[d])[x] = dk[d][x]
              \/ x \in Written /\ Texted(dk[d])[x] = "text"
        BY DEF Put, Has, Written
    <2> HIDE DEF Texted
    <2> QED BY <2>1, <2>2, <2>3, FilesAre DEF Gains
<1> HIDE DEF Texted, fix
<1>4. DOMAIN new = Dirs /\ \A d \in Dirs : Gains(dk[d], new[d])
    BY <1>2, <1>3
<1> HIDE DEF new
<1> QED BY <1>1, <1>2, <1>4 DEF DiskOK, fix

--------------------------------------------------------------------------------
(***************************************************************************)
(* What is owed: the files of Online Fix that came with the game or were   *)
(* embedded and are not in the backups are in their folders.  A proxy of   *)
(* Unsteam that is off beside a winmm.dll of Online Fix that is on would   *)
(* take its place with the next switch; if that one is owed, Online Fix    *)
(* has its other DLL beside it and reads as on, or the Unsteam does.       *)
(***************************************************************************)
Proxied(dk, owed) ==
    /\ Covers(dk[exe], TRUE)
    /\ << exe, "winmm.dll" >> \in owed
    /\ ~Has(dk[exe], On("OnlineFix64.dll"))

Safe(dk, owed) ==
    /\ DiskOK(dk)
    /\ \A x \in owed : x \in Dirs \X Names /\ FixIn(dk[x[1]], x[2])
    /\ ~Proxied(dk, owed)

LEMMA SwitchSafe ==
    ASSUME NEW dk, NEW owed, Safe(dk, owed), exe \in Dirs, NEW enable \in BOOLEAN, NEW stuck,
           enable => ~DetectOnlineFix(dk).enabled
    PROVE  /\ Safe(SetOnlineFix(dk, enable, stuck).disk, owed)
           /\ Keeps(dk[exe], SetOnlineFix(dk, enable, stuck).disk[exe])
<1> DEFINE new == SetOnlineFix(dk, enable, stuck).disk
<1>1. DiskOK(dk)
    BY DEF Safe
<1>2. /\ DiskOK(new)
      /\ \A d \in Dirs :
            /\ Keeps(dk[d], new[d])
            /\ \A n \in Names :
                  FixIn(dk[d], n) => \/ FixIn(new[d], n)
                                     \/ /\ d = exe /\ n = "winmm.dll" /\ Covers(dk[d], TRUE)
                                        /\ ~Has(dk[d], On("OnlineFix64.dll"))
      /\ \/ new[exe] = dk[exe]
         \/ ~(Has(new[exe], On("winmm.dll")) /\ Has(new[exe], Off("winmm.dll")))
    BY <1>1, SetOnlineFixKeeps
<1> HIDE DEF new
<1>3. ASSUME NEW x \in owed PROVE x \in Dirs \X Names /\ FixIn(new[x[1]], x[2])
    <2>1. /\ x \in Dirs \X Names /\ FixIn(dk[x[1]], x[2]) /\ ~Proxied(dk, owed)
          /\ x = << x[1], x[2] >>
        BY DEF Safe
    <2> QED BY <1>2, <1>3, <2>1 DEF Proxied
<1>4. ~Proxied(new, owed)
    <2>1. CASE new[exe] = dk[exe]
        BY <2>1 DEF Safe, Proxied
    <2>2. CASE ~(Has(new[exe], On("winmm.dll")) /\ Has(new[exe], Off("winmm.dll")))
        BY <2>2 DEF Proxied, Covers, From, To
    <2> QED BY <1>2, <2>1, <2>2
<1> QED BY <1>2, <1>3, <1>4 DEF Safe, new

\* The disk after an operation that only adds files to the folders
LEMMA GainsSafe ==
    ASSUME NEW dk, NEW new, NEW owed, Safe(dk, owed), exe \in Dirs,
           DOMAIN new = Dirs, \A d \in Dirs : Gains(dk[d], new[d])
    PROVE  Safe(new, owed) /\ \A d \in Dirs : Grows(dk[d], new[d])
<1>1. \A d \in Dirs : /\ FolderOK(new[d])
                      /\ Elsewhere(dk[d]) => Elsewhere(new[d])
                      /\ Grows(dk[d], new[d])
    BY GainKeeps DEF Safe, DiskOK
<1>2. DiskOK(new)
    BY <1>1 DEF Safe, DiskOK
<1>3. \A x \in owed : x \in Dirs \X Names /\ FixIn(new[x[1]], x[2])
    BY <1>1 DEF Safe, Grows
<1>4. << exe, "winmm.dll" >> \in owed => FixIn(dk[exe], "winmm.dll")
    BY DEF Safe
<1>5. ~Proxied(new, owed)
    BY <1>1, <1>4 DEF Safe, Proxied, Grows
<1> QED BY <1>1, <1>2, <1>3, <1>5 DEF Safe

LEMMA PreparedSafe ==
    ASSUME NEW dk, NEW owed, Safe(dk, owed), exe \in Dirs
    PROVE  /\ Safe(Prepared(dk), owed)
           /\ KitOnly(dk[exe]) => KitOnly(Prepared(dk)[exe])
           /\ HoldsOnlineFix(dk[exe]) => HoldsOnlineFix(Prepared(dk)[exe])
           /\ \A d \in Dirs : LooksLikeOverlay(dk[d]) => LooksLikeOverlay(Prepared(dk)[d])
<1> DEFINE mid == IF DetectOnlineFix(dk).present THEN Heal(dk) ELSE dk
<1>1. Prepared(dk) = ApplyLaunchInfo(mid)
    BY DEF Prepared
<1>2. DiskOK(dk)
    BY DEF Safe
<1>3. DOMAIN mid = Dirs /\ \A d \in Dirs : Gains(dk[d], mid[d])
    <2>1. \A d \in Dirs : Gains(dk[d], dk[d])
        BY <1>2 DEF Gains, DiskOK, FolderOK
    <2> QED BY <1>2, <2>1, HealGains DEF DiskOK
<1> HIDE DEF mid
<1>4. Safe(mid, owed) /\ \A d \in Dirs : Grows(dk[d], mid[d])
    BY <1>3, GainsSafe
<1>5. DiskOK(mid)
    BY <1>4 DEF Safe
<1>6. /\ DOMAIN ApplyLaunchInfo(mid) = Dirs
      /\ \A d \in Dirs : Gains(mid[d], ApplyLaunchInfo(mid)[d])
    BY <1>5, ApplyGains
<1>7. Safe(ApplyLaunchInfo(mid), owed) /\ \A d \in Dirs : Grows(mid[d], ApplyLaunchInfo(mid)[d])
    BY <1>4, <1>6, GainsSafe
<1> QED BY <1>1, <1>4, <1>7 DEF Grows

\* The plugin embeds all of Online Fix in a folder.
LEMMA EmbedSafe ==
    ASSUME NEW dk, NEW owed, Safe(dk, owed), exe \in Dirs, NEW d \in Dirs
    PROVE  LET new == [dk EXCEPT ![d] = Over(FullFix, @)]
           IN /\ Safe(new, owed \cup ({d} \X Range(OnlineFixFiles)))
              /\ HoldsOnlineFix(dk[exe]) => HoldsOnlineFix(new[exe])
              /\ LooksLikeOverlay(new[d])
<1> DEFINE f == dk[d]
           g == Over(FullFix, f)
           new == [dk EXCEPT ![d] = g]
           all == owed \cup ({d} \X Range(OnlineFixFiles))
<1>1. DiskOK(dk) /\ FolderOK(f) /\ (d # exe => Elsewhere(f))
    BY DEF Safe, DiskOK
<1>2. /\ FixNames \subseteq Names /\ Texts \subseteq Names
      /\ {"unsteam.dll", "unsteam.ini"} \subseteq Names \ FixNames
      /\ "winmm.dll" \in FixNames /\ "OnlineFix64.dll" \in FixNames /\ "OnlineFix.ini" \in FixNames
      /\ Range(OnlineFixFiles) = FixNames /\ "fix" \in Owners
    BY NamesAre DEF FixNames, Names, Owners
<1>3. DOMAIN FullFix = {On(n) : n \in FixNames} /\ \A x \in DOMAIN FullFix : FullFix[x] = "fix"
    BY <1>2 DEF FullFix
<1>4. /\ DOMAIN g = {On(n) : n \in FixNames} \cup DOMAIN f
      /\ \A n \in FixNames : Has(g, On(n)) /\ g[On(n)] = "fix"
      /\ \A n \in Names : /\ Has(g, Off(n)) <=> Has(f, Off(n))
                          /\ Has(f, Off(n)) => g[Off(n)] = f[Off(n)]
      /\ \A n \in Names \ FixNames : /\ Has(g, On(n)) <=> Has(f, On(n))
                                     /\ Has(f, On(n)) => g[On(n)] = f[On(n)]
    <2>1. /\ DOMAIN g = DOMAIN FullFix \cup DOMAIN f
          /\ \A x \in DOMAIN g : g[x] = IF x \in DOMAIN FullFix THEN FullFix[x] ELSE f[x]
        BY DEF Over
    <2> HIDE DEF f, g
    <2> QED BY <1>3, <2>1, FilesAre DEF Has
<1> HIDE DEF g
<1>5. \A n \in Names : Owned(g, n, On(n)) /\ Owned(g, n, Off(n))
    BY <1>1, <1>2, <1>4 DEF FolderOK, Owned
<1>6. FolderOK(g)
    <2>1. DOMAIN g \subseteq Files
        BY <1>1, <1>2, <1>4, FilesAre DEF FolderOK
    <2> QED BY <1>1, <1>2, <1>4, <1>5, <2>1 DEF FolderOK, FixOff, FixOn
<1>7. Elsewhere(f) => Elsewhere(g)
    BY <1>2, <1>4 DEF Elsewhere, FixOff, FixOn
<1>8. \A n \in Names : FixIn(f, n) \/ n \in FixNames => FixIn(g, n)
    BY <1>1, <1>2, <1>4 DEF FixIn, FolderOK, Owned
<1>9. DOMAIN new = Dirs /\ new[d] = g /\ \A e \in Dirs \ {d} : new[e] = dk[e]
    BY <1>1 DEF DiskOK
<1> HIDE DEF new, f
<1>10. DiskOK(new)
    BY <1>1, <1>6, <1>7, <1>9 DEF DiskOK, f
<1>11. \A x \in all : x \in Dirs \X Names /\ FixIn(new[x[1]], x[2])
    BY <1>2, <1>8, <1>9 DEF Safe, f
<1>12. ~Proxied(new, all)
    <2>1. CASE d = exe
        BY <1>2, <1>4, <1>9, <2>1 DEF Proxied
    <2>2. CASE d # exe
        BY <1>9, <2>2 DEF Proxied, Safe
    <2> QED BY <2>1, <2>2
<1>13. HoldsOnlineFix(g) /\ LooksLikeOverlay(g)
    BY <1>2, <1>4 DEF HoldsOnlineFix, LooksLikeOverlay, Texts
<1>14. Safe(new, all)
    BY <1>10, <1>11, <1>12 DEF Safe
<1>15. HoldsOnlineFix(dk[exe]) => HoldsOnlineFix(new[exe])
    BY <1>9, <1>13
<1> QED BY <1>9, <1>13, <1>14, <1>15 DEF new, g, f

--------------------------------------------------------------------------------
(***************************************************************************)
(* The conversion                                                          *)
(***************************************************************************)
LEMMA FixFilesAre ==
    ASSUME NEW dk, DiskOK(dk)
    PROVE  /\ FixFiles(dk) \subseteq Dirs \X Names
           /\ \A d \in Dirs, n \in Names : << d, n >> \in FixFiles(dk) <=> FixIn(dk[d], n)
<1>1. \A x : x \in FixFiles(dk) <=>
          \E d \in Dirs : \E y \in DOMAIN dk[d] : dk[d][y] = "fix" /\ x = << d, y[1] >>
    BY DEF FixFiles
<1>2. \A d \in Dirs : DOMAIN dk[d] \subseteq Files
    BY DEF DiskOK, FolderOK
<1>3. FixFiles(dk) \subseteq Dirs \X Names
    BY <1>1, <1>2 DEF Files
<1>4. ASSUME NEW d \in Dirs, NEW n \in Names
      PROVE  << d, n >> \in FixFiles(dk) <=> FixIn(dk[d], n)
    <2>1. << d, n >> \in FixFiles(dk) <=> \E y \in DOMAIN dk[d] : dk[d][y] = "fix" /\ n = y[1]
        BY <1>1
    <2>2. \A y \in DOMAIN dk[d] : n = y[1] <=> y = On(n) \/ y = Off(n)
        BY <1>2 DEF Files, On, Off
    <2> QED BY <2>1, <2>2 DEF FixIn, Has
<1> QED BY <1>3, <1>4

\* Names of Online Fix go from a folder, with both files each may have.
Loses(f, g, gone) ==
    /\ gone \in SUBSET FixNames
    /\ DOMAIN g \subseteq DOMAIN f
    /\ \A n \in Names :
          /\ Has(g, On(n)) <=> Has(f, On(n)) /\ n \notin gone
          /\ Has(g, Off(n)) <=> Has(f, Off(n)) /\ n \notin gone
          /\ Has(g, On(n)) => g[On(n)] = f[On(n)]
          /\ Has(g, Off(n)) => g[Off(n)] = f[Off(n)]

LEMMA WithoutLoses ==
    ASSUME NEW f, NEW gone \in SUBSET FixNames
    PROVE  Loses(f, Without(f, gone \X {"on", "off"}), gone)
<1> DEFINE g == Without(f, gone \X {"on", "off"})
<1>1. DOMAIN g = DOMAIN f \ (gone \X {"on", "off"}) /\ \A x \in DOMAIN g : g[x] = f[x]
    BY DEF Without
<1>2. \A n \in Names : /\ On(n) \in gone \X {"on", "off"} <=> n \in gone
                       /\ Off(n) \in gone \X {"on", "off"} <=> n \in gone
    BY DEF On, Off
<1> HIDE DEF g
<1>3. Loses(f, g, gone)
    BY <1>1, <1>2 DEF Loses, Has
<1> QED BY <1>3 DEF g

LEMMA LosesKeeps ==
    ASSUME NEW f, NEW g, NEW gone, FolderOK(f), Loses(f, g, gone)
    PROVE  /\ FolderOK(g)
           /\ Elsewhere(f) => Elsewhere(g)
           /\ \A n \in Names \ gone : FixIn(f, n) => FixIn(g, n)
           /\ \A n \in gone : ~There(g, n)
           /\ \A n \in Names \ gone : There(g, n) <=> There(f, n)
<1>1. /\ FixNames \subseteq Names /\ "winmm.dll" \in Names
      /\ {"unsteam.dll", "unsteam.ini"} \subseteq Names \ FixNames
    BY NamesAre DEF FixNames
<1>2. \A n \in Names : Owned(g, n, On(n)) /\ Owned(g, n, Off(n))
    BY DEF Loses, FolderOK, Owned
<1>3. FolderOK(g)
    BY <1>1, <1>2 DEF Loses, FolderOK, FixOff, FixOn
<1>4. Elsewhere(f) => Elsewhere(g)
    BY <1>1 DEF Loses, Elsewhere, FixOff, FixOn
<1> QED BY <1>1, <1>3, <1>4 DEF Loses, FixIn, There

\* The files of Online Fix are moved in an order: winmm.dll before the DLL it loads.
LEMMA FixOrder ==
    ASSUME NEW stops
    PROVE  /\ Reached(OnlineFixFiles, stops) \subseteq FixNames
           /\ "OnlineFix64.dll" \in Reached(OnlineFixFiles, stops) =>
                  "winmm.dll" \in Reached(OnlineFixFiles, stops)
           /\ stops = {} => Reached(OnlineFixFiles, stops) = FixNames
<1>1. /\ DOMAIN OnlineFixFiles = 1..4
      /\ OnlineFixFiles[1] = "OnlineFix.ini" /\ OnlineFixFiles[2] = "dlllist.txt"
      /\ OnlineFixFiles[3] = "winmm.dll" /\ OnlineFixFiles[4] = "OnlineFix64.dll"
    BY DEF OnlineFixFiles
<1>2. {OnlineFixFiles[i] : i \in 1..4} = FixNames
    BY <1>1, NamesAre DEF Range
<1>3. Reached(OnlineFixFiles, stops) =
          {OnlineFixFiles[i] : i \in {j \in 1..4 : \A k \in 1..j : OnlineFixFiles[k] \notin stops}}
    BY <1>1 DEF Reached
<1>4. ASSUME "OnlineFix64.dll" \in Reached(OnlineFixFiles, stops)
      PROVE  "winmm.dll" \in Reached(OnlineFixFiles, stops)
    <2>1. PICK i \in 1..4 : /\ \A k \in 1..i : OnlineFixFiles[k] \notin stops
                            /\ OnlineFixFiles[i] = "OnlineFix64.dll"
        BY <1>3, <1>4
    <2>2. i = 4
        BY <1>1, <2>1
    <2>3. \A k \in 1..3 : OnlineFixFiles[k] \notin stops
        BY <2>1, <2>2
    <2> QED BY <1>1, <1>3, <2>3
<1>5. stops = {} => Reached(OnlineFixFiles, stops) = FixNames
    BY <1>2, <1>3
<1> QED BY <1>2, <1>3, <1>4, <1>5

LEMMA MoveAwaySafe ==
    ASSUME NEW dk, NEW owed, Safe(dk, owed), exe \in Dirs, NEW stuck, HoldsOnlineFix(dk[exe])
    PROVE  LET r == MoveAway(dk, stuck)
           IN /\ Safe(r.disk, owed \ r.moved)
              /\ r.moved \subseteq Dirs \X Names
              /\ r.ok => \A n \in FixNames : ~There(r.disk[exe], n)
<1> DEFINE folders == IF exe = Root THEN << exe >> ELSE << exe, Root >>
           Held(d) == {name \in Range(OnlineFixFiles) :
                          /\ HoldsOnlineFix(dk[d])
                          /\ Has(dk[d], On(name)) \/ Has(dk[d], Off(name))}
           Stops(d) == {name \in Held(d) : stuck = << d, name >>}
           failing == {d \in Range(folders) : Stops(d) # {}}
           Gone(d) == IF d \in Reached(folders, failing) \cup failing
                      THEN Held(d) \cap Reached(OnlineFixFiles, Stops(d)) ELSE {}
           new == [d \in Dirs |-> Without(dk[d], Gone(d) \X {"on", "off"})]
           moved == {x \in FixFiles(dk) : x[2] \in Gone(x[1])}
<1>1. MoveAway(dk, stuck) = [disk |-> new, ok |-> failing = {}, moved |-> moved]
    BY Zenon DEF MoveAway
<1>2. DiskOK(dk) /\ FixNames \subseteq Names /\ Range(OnlineFixFiles) = FixNames
    BY NamesAre DEF Safe
<1>3. /\ exe \in Range(folders)
      /\ failing = {} => exe \in Reached(folders, failing)
    <2>1. 1 \in DOMAIN folders /\ folders[1] = exe
        OBVIOUS
    <2> HIDE DEF folders
    <2> QED BY <2>1 DEF Reached, Range
<1>4. \A d : Gone(d) \in SUBSET FixNames
    BY <1>2
<1>5. \A n \in FixNames : n \in Held(exe) <=> There(dk[exe], n)
    BY <1>2 DEF There
<1>6. failing = {} => \A n \in FixNames : There(dk[exe], n) => n \in Gone(exe)
    <2> SUFFICES ASSUME failing = {} PROVE \A n \in FixNames : There(dk[exe], n) => n \in Gone(exe)
        OBVIOUS
    <2>1. Stops(exe) = {}
        BY <1>3
    <2>2. Reached(OnlineFixFiles, Stops(exe)) = FixNames
        BY <2>1, FixOrder
    <2>3. Gone(exe) = Held(exe) \cap FixNames
        BY <1>3, <2>2
    <2> QED BY <1>5, <2>3
<1>7. "OnlineFix64.dll" \in Gone(exe) /\ There(dk[exe], "winmm.dll") => "winmm.dll" \in Gone(exe)
    <2>1. "winmm.dll" \in FixNames
        BY DEF FixNames
    <2>2. "OnlineFix64.dll" \in Reached(OnlineFixFiles, Stops(exe)) =>
              "winmm.dll" \in Reached(OnlineFixFiles, Stops(exe))
        BY FixOrder
    <2> QED BY <1>5, <2>1, <2>2
<1> HIDE DEF failing, Gone
<1>8. DOMAIN new = Dirs /\ \A d \in Dirs : Loses(dk[d], new[d], Gone(d))
    BY <1>4, WithoutLoses
<1> HIDE DEF new
<1>9. ASSUME NEW d \in Dirs
      PROVE  /\ FolderOK(new[d])
             /\ Elsewhere(dk[d]) => Elsewhere(new[d])
             /\ \A n \in Names \ Gone(d) : FixIn(dk[d], n) => FixIn(new[d], n)
             /\ \A n \in Gone(d) : ~There(new[d], n)
             /\ \A n \in Names \ Gone(d) : There(new[d], n) <=> There(dk[d], n)
    BY <1>2, <1>8, LosesKeeps DEF DiskOK
<1>10. DiskOK(new)
    BY <1>2, <1>8, <1>9 DEF DiskOK
<1>11. moved \subseteq Dirs \X Names
    BY <1>2, FixFilesAre
<1>12. ASSUME NEW x \in owed \ moved PROVE x \in Dirs \X Names /\ FixIn(new[x[1]], x[2])
    <2>1. x \in Dirs \X Names /\ FixIn(dk[x[1]], x[2]) /\ x = << x[1], x[2] >>
        BY DEF Safe
    <2>2. x \in FixFiles(dk)
        BY <1>2, <2>1, FixFilesAre
    <2>3. x[2] \notin Gone(x[1])
        BY <2>2
    <2> QED BY <1>9, <2>1, <2>3
<1>13. ~Proxied(new, owed \ moved)
    <2> SUFFICES ASSUME Proxied(new, owed \ moved) PROVE FALSE
        OBVIOUS
    <2>1. /\ "winmm.dll" \in Names /\ "OnlineFix64.dll" \in Names
        BY <1>2 DEF FixNames
    <2>2. /\ Has(new[exe], On("winmm.dll")) /\ Has(new[exe], Off("winmm.dll"))
          /\ Has(dk[exe], On("winmm.dll")) /\ Has(dk[exe], Off("winmm.dll"))
          /\ new[exe][On("winmm.dll")] = dk[exe][On("winmm.dll")]
          /\ new[exe][Off("winmm.dll")] = dk[exe][Off("winmm.dll")]
          /\ "winmm.dll" \notin Gone(exe)
        BY <1>8, <2>1 DEF Proxied, Covers, From, To, Loses
    <2>3. "OnlineFix64.dll" \notin Gone(exe)
        BY <1>7, <2>2 DEF There
    <2>4. Has(new[exe], On("OnlineFix64.dll")) <=> Has(dk[exe], On("OnlineFix64.dll"))
        BY <1>8, <2>1, <2>3 DEF Loses
    <2>5. Covers(dk[exe], TRUE)
        BY <2>2 DEF Proxied, Covers, From, To
    <2> QED BY <2>4, <2>5 DEF Proxied, Safe
<1>14. failing = {} => \A n \in FixNames : ~There(new[exe], n)
    BY <1>2, <1>6, <1>9
<1>15. Safe(new, owed \ moved)
    BY <1>10, <1>12, <1>13 DEF Safe
<1> HIDE DEF moved
<1>16. /\ MoveAway(dk, stuck).disk = new /\ MoveAway(dk, stuck).moved = moved
       /\ MoveAway(dk, stuck).ok = (failing = {})
    BY <1>1
<1> QED BY <1>11, <1>14, <1>15, <1>16

LEMMA PlantKitSafe ==
    ASSUME NEW dk, NEW owed, Safe(dk, owed), exe \in Dirs, NEW stuck,
           \A n \in FixNames : ~There(dk[exe], n)
    PROVE  LET r == PlantKit(dk, stuck)
           IN /\ Safe(r.disk, owed)
              /\ r.ok => KitOnly(r.disk[exe])
<1> DEFINE f == dk[exe]
           stops == {name \in Range(KitFiles) : stuck = << exe, name >>}
           planted == {On(name) : name \in Reached(KitFiles, stops)}
           removed == {On(name) : name \in stops \ Texts}
           g == [x \in (DOMAIN f \ removed) \cup planted |-> IF x \in planted THEN "kit" ELSE f[x]]
           new == [dk EXCEPT ![exe] = g]
<1>1. PlantKit(dk, stuck) = [disk |-> new, ok |-> stops = {}, moved |-> {}]
    BY Zenon DEF PlantKit
<1>2. /\ KitNames \subseteq Names /\ Range(KitFiles) = KitNames
      /\ "unsteam.dll" \in Names \ KitNames /\ "unsteam.ini" \in Names \ KitNames
      /\ KitNames \cap FixNames = {"winmm.dll"} /\ "SteamFix.ini" \in KitNames
      /\ "winmm.dll" \in FixNames
      /\ {"unsteam.dll", "unsteam.ini"} \cap KitNames = {}
    BY NamesAre DEF KitNames, FixNames, Stems
<1>3. DiskOK(dk) /\ FolderOK(f)
    BY DEF Safe, DiskOK
<1>4. /\ Reached(KitFiles, stops) \subseteq KitNames
      /\ stops = {} => Reached(KitFiles, stops) = KitNames
      /\ stops \subseteq KitNames
    <2>1. DOMAIN KitFiles = 1..4
        BY DEF KitFiles
    <2>2. {KitFiles[i] : i \in 1..4} = KitNames
        BY <1>2, <2>1 DEF Range
    <2> HIDE DEF stops
    <2>3. Reached(KitFiles, stops) \subseteq KitNames
        BY <2>1, <2>2 DEF Reached
    <2>4. stops = {} => Reached(KitFiles, stops) = KitNames
        BY <2>1, <2>2 DEF Reached
    <2>5. stops \subseteq KitNames
        BY <1>2 DEF stops
    <2> QED BY <2>3, <2>4, <2>5
<1>5. /\ planted \subseteq {On(n) : n \in KitNames} /\ removed \subseteq {On(n) : n \in KitNames}
      /\ stops = {} => On("SteamFix.ini") \in planted
    BY <1>2, <1>4
<1> HIDE DEF planted, removed, stops, f
<1>6. /\ DOMAIN g = (DOMAIN f \ removed) \cup planted
      /\ \A x \in DOMAIN g : g[x] = IF x \in planted THEN "kit" ELSE f[x]
    OBVIOUS
<1> HIDE DEF g
<1>7. ASSUME NEW n \in Names
      PROVE  /\ Has(g, Off(n)) <=> Has(f, Off(n))
             /\ Has(f, Off(n)) => g[Off(n)] = f[Off(n)]
             /\ Has(g, On(n)) => \/ n \in KitNames /\ g[On(n)] = "kit"
                                 \/ Has(f, On(n)) /\ g[On(n)] = f[On(n)]
             /\ n \notin KitNames => (Has(g, On(n)) <=> Has(f, On(n)))
    BY <1>5, <1>6, FilesAre DEF Has
<1>8. ASSUME NEW n \in Names PROVE ~FixIn(f, n)
    BY <1>3 DEF FixIn, FolderOK, Owned, There, f
<1>9. ASSUME NEW n \in Names
      PROVE  Owned(g, n, On(n)) /\ Owned(g, n, Off(n)) /\ ~FixIn(g, n)
    <2>1. "kit" \in Owners \ {"fix"}
        BY DEF Owners
    <2>2. n \in FixNames => ~There(f, n)
        BY DEF f
    <2>3. Owned(f, n, On(n)) /\ Owned(f, n, Off(n)) /\ ~FixIn(f, n)
        BY <1>3, <1>8 DEF FolderOK
    <2>4. n \in KitNames /\ n # "winmm.dll" => n \notin FixNames
        BY <1>2
    <2> QED BY <1>7, <2>1, <2>2, <2>3, <2>4 DEF Owned, FixIn, There
<1>10. DOMAIN g \subseteq Files
    BY <1>2, <1>3, <1>5, <1>6, FilesAre DEF FolderOK
<1>11. FolderOK(g)
    BY <1>2, <1>3, <1>7, <1>9, <1>10 DEF FolderOK, FixOff, FixIn
<1>12. DOMAIN new = Dirs /\ new[exe] = g /\ \A d \in Dirs \ {exe} : new[d] = dk[d]
    BY <1>3 DEF DiskOK
<1> HIDE DEF new
<1>13. DiskOK(new)
    BY <1>3, <1>11, <1>12 DEF DiskOK
<1>14. ASSUME NEW x \in owed PROVE x \in Dirs \X Names /\ FixIn(new[x[1]], x[2])
    <2>1. x \in Dirs \X Names /\ FixIn(dk[x[1]], x[2])
        BY DEF Safe
    <2>2. x[1] # exe
        BY <1>8, <2>1 DEF f
    <2> QED BY <1>12, <2>1, <2>2
<1>15. ~Proxied(new, owed)
    BY <1>2, <1>9, <1>12, NamesAre DEF Proxied, Covers, From, To, FixIn
<1>16. stops = {} => KitOnly(g)
    BY <1>5, <1>6, <1>9 DEF KitOnly, Has
<1>17. PlantKit(dk, stuck).disk = new /\ PlantKit(dk, stuck).ok = (stops = {})
    BY <1>1
<1> QED BY <1>12, <1>13, <1>14, <1>15, <1>16, <1>17 DEF Safe

LEMMA ConvertSafe ==
    ASSUME NEW dk, NEW owed, Safe(dk, owed), exe \in Dirs, HoldsOnlineFix(dk[exe]),
           NEW moving, NEW planting
    PROVE  LET r == Convert(dk, moving, planting)
           IN /\ Safe(r.disk, owed \ r.moved)
              /\ r.moved \subseteq Dirs \X Names
              /\ r.ok => KitOnly(r.disk[exe])
<1> DEFINE away == MoveAway(dk, moving)
           kit == PlantKit(away.disk, planting)
<1>1. /\ Safe(away.disk, owed \ away.moved) /\ away.moved \subseteq Dirs \X Names
      /\ away.ok => \A n \in FixNames : ~There(away.disk[exe], n)
    BY MoveAwaySafe
<1>2. CASE away.ok
    <2>1. Convert(dk, moving, planting) = [kit EXCEPT !.moved = away.moved]
        BY <1>2 DEF Convert
    <2>2. Safe(kit.disk, owed \ away.moved) /\ (kit.ok => KitOnly(kit.disk[exe]))
        BY <1>1, <1>2, PlantKitSafe
    <2>3. DOMAIN kit = {"disk", "ok", "moved"}
        BY DEF PlantKit
    <2> HIDE DEF kit, away
    <2> QED BY <1>1, <2>1, <2>2, <2>3
<1>3. CASE ~away.ok
    <2>1. Convert(dk, moving, planting) = away
        BY <1>3 DEF Convert
    <2> HIDE DEF kit, away
    <2> QED BY <1>1, <1>3, <2>1
<1> QED BY <1>2, <1>3

--------------------------------------------------------------------------------
(***************************************************************************)
(* What a game is found with                                               *)
(***************************************************************************)
LEMMA OverIs ==
    ASSUME NEW f, NEW g
    PROVE  \A x : /\ Has(Over(f, g), x) <=> Has(f, x) \/ Has(g, x)
                  /\ Has(f, x) => Over(f, g)[x] = f[x]
                  /\ Has(g, x) /\ ~Has(f, x) => Over(f, g)[x] = g[x]
BY DEF Over, Has

NoProxyOff(f) == Has(f, Off("winmm.dll")) => FixOff(f)

LEMMA OverOK ==
    ASSUME NEW f, NEW g, FolderOK(f), FolderOK(g), Elsewhere(f),
           NoProxyOff(g), Elsewhere(g) \/ ~Has(g, On("winmm.dll")) \/ ~Has(f, Off("winmm.dll"))
    PROVE  /\ FolderOK(Over(f, g)) /\ NoProxyOff(Over(f, g))
           /\ Elsewhere(g) => Elsewhere(Over(f, g))
<1> DEFINE o == Over(f, g)
<1>1. /\ \A x : /\ Has(o, x) <=> Has(f, x) \/ Has(g, x)
                /\ Has(f, x) => o[x] = f[x]
                /\ Has(g, x) /\ ~Has(f, x) => o[x] = g[x]
      /\ DOMAIN o = DOMAIN f \cup DOMAIN g
    BY OverIs DEF Over
<1> HIDE DEF o
<1>2. \A n \in Names : Owned(o, n, On(n)) /\ Owned(o, n, Off(n))
    BY <1>1 DEF FolderOK, Owned
<1>3. FolderOK(o)
    BY <1>1, <1>2 DEF FolderOK, FixOff, FixOn, Elsewhere
<1>4. NoProxyOff(o) /\ (Elsewhere(g) => Elsewhere(o))
    BY <1>1 DEF Elsewhere, FixOff, FixOn, NoProxyOff
<1> QED BY <1>3, <1>4 DEF o

\* Online Fix alone, whole, without its own texts or turned off, or nothing
LEMMA FoundFix ==
    ASSUME NEW f \in {NoFiles, FullFix, BareFix, Parked(FullFix)}
    PROVE  /\ FolderOK(f) /\ Elsewhere(f)
           /\ f = NoFiles => \A x : ~Has(f, x)
           /\ f \in {FullFix, BareFix, Parked(FullFix)} => \E name \in Texts : Has(f, On(name))
<1>1. /\ FixNames \subseteq Names /\ Texts \subseteq Names
      /\ {"unsteam.dll", "unsteam.ini"} \cap FixNames = {}
      /\ "winmm.dll" \in FixNames /\ "OnlineFix.ini" \in FixNames \cap Texts
      /\ "OnlineFix.ini" \notin RenamedNames
      /\ "winmm.txt" \in Texts \ FixNames
      /\ Range(OnlineFixFiles) = FixNames /\ "fix" \in Owners /\ "text" \in Owners
    BY NamesAre DEF FixNames, Names, Owners, Texts, RenamedNames, Stems
<1>2. CASE f = NoFiles
    <2>1. DOMAIN f = {}
        BY <1>2 DEF NoFiles
    <2>2. \A x : ~Has(f, x)
        BY <2>1 DEF Has
    <2>3. f \in {FullFix, BareFix, Parked(FullFix)} => \E name \in Texts : Has(f, On(name))
        <3>1. f # FullFix
            BY <1>1, <2>1 DEF FullFix
        <3>2. f # BareFix
            BY <1>1, <2>1 DEF BareFix
        <3>3. f = Parked(FullFix) => \E name \in Texts : Has(f, On(name))
            <4>1. Has(FullFix, On("OnlineFix.ini")) /\ DOMAIN FullFix \subseteq Files
                BY <1>1, FilesAre DEF FullFix, Has
            <4>2. PICK moved, stops : Flips(FullFix, Parked(FullFix), FALSE, moved, stops)
                BY <4>1, RenameFlips DEF Parked
            <4> QED BY <1>1, <4>1, <4>2 DEF Flips, From
        <3> QED BY <3>1, <3>2, <3>3
    <2> QED BY <2>1, <2>2, <2>3 DEF FolderOK, Elsewhere, Owned, FixOff
<1>3. DOMAIN FullFix = {On(n) : n \in FixNames} /\ \A x \in DOMAIN FullFix : FullFix[x] = "fix"
    BY <1>1 DEF FullFix
<1>4. FolderOK(FullFix) /\ Elsewhere(FullFix) /\ Has(FullFix, On("OnlineFix.ini"))
    <2> HIDE DEF FullFix
    <2>1. \A n \in Names : Owned(FullFix, n, On(n)) /\ Owned(FullFix, n, Off(n))
        BY <1>1, <1>3, FilesAre DEF Owned, Has
    <2> QED BY <1>1, <1>3, <2>1, FilesAre DEF FolderOK, Elsewhere, Has, FixOff, FixOn
<1>5. CASE f = FullFix
    <2>1. DOMAIN f # {}
        BY <1>4, <1>5 DEF Has
    <2> QED BY <1>1, <1>4, <1>5, <2>1 DEF NoFiles
<1>6. CASE f = BareFix
    <2>1. /\ DOMAIN f = {On("winmm.dll"), On("winmm.txt")}
          /\ f[On("winmm.dll")] = "fix" /\ f[On("winmm.txt")] = "text"
        BY <1>6, FilesAre DEF BareFix
    <2>2. DOMAIN f # {}
        BY <2>1
    <2>3. \A n \in Names : Owned(f, n, On(n)) /\ Owned(f, n, Off(n))
        BY <1>1, <2>1, FilesAre DEF Owned, Has
    <2>4. Has(f, On("winmm.txt"))
        BY <2>1 DEF Has
    <2>5. \A x \in {On("unsteam.dll"), Off("unsteam.dll"), On("unsteam.ini"), Off("winmm.dll")} : ~Has(f, x)
        BY <2>1, FilesAre DEF Has
    <2>6. DOMAIN f \subseteq Files
        BY <1>1, <2>1, FilesAre
    <2>7. FolderOK(f) /\ Elsewhere(f)
        BY <2>1, <2>3, <2>5, <2>6 DEF FolderOK, Elsewhere, FixOff, FixOn
    <2> QED BY <1>1, <2>2, <2>4, <2>7 DEF NoFiles
<1>7. CASE f = Parked(FullFix)
    <2>1. DOMAIN FullFix \subseteq Files
        BY <1>4 DEF FolderOK
    <2>2. PICK moved, stops : Flips(FullFix, f, FALSE, moved, stops)
        BY <1>7, <2>1, RenameFlips DEF Parked
    <2>3. FolderOK(f) /\ Elsewhere(f)
        BY <1>4, <2>2, FlipKeeps
    <2>4. Has(f, On("OnlineFix.ini"))
        BY <1>1, <1>4, <2>2 DEF Flips, From
    <2>5. DOMAIN f # {}
        BY <2>4 DEF Has
    <2> QED BY <1>1, <2>3, <2>4, <2>5 DEF NoFiles
<1> QED BY <1>2, <1>5, <1>6, <1>7

LEMMA FoundUnsteam ==
    ASSUME NEW f \in {NoFiles, Loader, Proxy}
    PROVE  /\ FolderOK(f) /\ NoProxyOff(f)
           /\ f # Proxy => ~Has(f, On("winmm.dll"))
<1>1. /\ {"unsteam.dll", "unsteam.ini", "unsteam_loader64.exe", "winmm.dll"} \subseteq Names
      /\ {"unsteam.dll", "unsteam.ini", "unsteam_loader64.exe"} \cap FixNames = {}
      /\ "unsteam" \in Owners \ {"fix"}
    BY NamesAre DEF FixNames, Owners, Stems
<1>2. DOMAIN f = {} \/ f \in {Loader, Proxy}
    BY DEF NoFiles
<1>3. /\ \A x \in DOMAIN f : f[x] = "unsteam"
      /\ DOMAIN f \subseteq {On(n) : n \in {"unsteam.dll", "unsteam.ini", "unsteam_loader64.exe", "winmm.dll"}}
      /\ On("unsteam.dll") \in DOMAIN f => On("unsteam.ini") \in DOMAIN f
      /\ f # Proxy => On("winmm.dll") \notin DOMAIN f
    BY <1>2, FilesAre DEF Loader, Proxy
<1>4. \A n \in Names : /\ Owned(f, n, On(n)) /\ Owned(f, n, Off(n))
                       /\ ~Has(f, Off(n))
    BY <1>1, <1>3, FilesAre DEF Owned, Has
<1>5. DOMAIN f \subseteq Files
    BY <1>1, <1>3, FilesAre
<1> QED BY <1>1, <1>3, <1>4, <1>5 DEF FolderOK, NoProxyOff, FixOff, Has

LEMMA InitSafe ==
    ASSUME Init
    PROVE  /\ exe \in Dirs
           /\ Safe(disk, FixFiles(disk))
           /\ OverlayDirs(disk) # {}
<1>1. Root \in Dirs /\ exe \in Dirs
    <2>1. Len(Walk) \in Nat /\ Len(Walk) > 1 /\ DOMAIN Walk = 1..Len(Walk)
        BY OverlayAssumption
    <2> QED BY <2>1 DEF Init, Root, Dirs, Range
<1>2. PICK home \in {Root, exe}, fix \in {FullFix, BareFix, Parked(FullFix)},
           launcher \in {NoFiles, FullFix}, unsteam \in {NoFiles, Loader, Proxy} :
          /\ unsteam = Proxy => home # exe
          /\ disk = [d \in Dirs |->
                        Over(IF d = home THEN fix ELSE NoFiles,
                             Over(IF d = exe THEN unsteam ELSE NoFiles,
                                  IF d = Last(Walk) /\ d # exe THEN launcher ELSE NoFiles))]
    BY Zenon DEF Init
<1> DEFINE A(d) == IF d = home THEN fix ELSE NoFiles
           U(d) == IF d = exe THEN unsteam ELSE NoFiles
           L(d) == IF d = Last(Walk) /\ d # exe THEN launcher ELSE NoFiles
<1>3. DOMAIN disk = Dirs /\ \A d \in Dirs : disk[d] = Over(A(d), Over(U(d), L(d)))
    BY <1>2
<1>4. ASSUME NEW d \in Dirs
      PROVE  FolderOK(disk[d]) /\ NoProxyOff(disk[d]) /\ (d # exe => Elsewhere(disk[d]))
    <2>1. /\ FolderOK(A(d)) /\ Elsewhere(A(d)) /\ FolderOK(L(d)) /\ Elsewhere(L(d))
          /\ \A x : ~Has(NoFiles, x)
          /\ FolderOK(NoFiles) /\ Elsewhere(NoFiles)
        BY FoundFix
    <2>2. NoProxyOff(L(d)) /\ NoProxyOff(NoFiles)
        BY <2>1 DEF Elsewhere, NoProxyOff
    <2>3. CASE d # exe
        <3>1. U(d) = NoFiles
            BY <2>3
        <3>2. FolderOK(Over(U(d), L(d))) /\ NoProxyOff(Over(U(d), L(d))) /\ Elsewhere(Over(U(d), L(d)))
            BY <2>1, <2>2, <3>1, OverOK
        <3> HIDE DEF A, U, L
        <3> QED BY <1>3, <2>1, <2>3, <3>2, OverOK
    <2>4. CASE d = exe
        <3>1. FolderOK(U(d)) /\ NoProxyOff(U(d)) /\ (U(d) # Proxy => ~Has(U(d), On("winmm.dll")))
            BY FoundUnsteam
        <3>2. L(d) = NoFiles
            BY <2>4
        <3>3. U(d) = Proxy => A(d) = NoFiles
            BY <1>2, <2>4
        <3> DEFINE O == Over(U(d), L(d))
        <3>4. \A x : (Has(O, x) <=> Has(U(d), x)) /\ (Has(U(d), x) => O[x] = U(d)[x])
            <4> HIDE DEF U, L
            <4> QED BY <2>1, <3>2, OverIs
        <3>5. DOMAIN O = DOMAIN U(d)
            BY <3>4 DEF Has
        <3> HIDE DEF O
        <3>6. FolderOK(O) /\ NoProxyOff(O)
            <4>1. \A n \in Names : Owned(O, n, On(n)) /\ Owned(O, n, Off(n))
                BY <3>1, <3>4 DEF FolderOK, Owned
            <4> HIDE DEF U
            <4> QED BY <3>1, <3>4, <3>5, <4>1 DEF FolderOK, NoProxyOff, FixOff, FixOn
        <3>7. ~Has(O, On("winmm.dll")) \/ ~Has(A(d), Off("winmm.dll"))
            BY <2>1, <3>1, <3>3, <3>4
        <3>8. disk[d] = Over(A(d), O)
            BY <1>3 DEF O
        <3> HIDE DEF A
        <3> QED BY <2>1, <2>4, <3>6, <3>7, <3>8, OverOK
    <2> QED BY <2>3, <2>4
<1>5. DiskOK(disk)
    BY <1>3, <1>4 DEF DiskOK
<1>6. \A x \in FixFiles(disk) : x \in Dirs \X Names /\ FixIn(disk[x[1]], x[2])
    BY <1>5, FixFilesAre
<1>7. ~Covers(disk[exe], TRUE)
    BY <1>1, <1>4 DEF Covers, NoProxyOff, FixOff, From
<1>8. LooksLikeOverlay(disk[home]) /\ home \in Dirs
    <2>1. home \in Dirs
        BY <1>1
    <2>2. A(home) = fix
        OBVIOUS
    <2>3. PICK name \in Texts : Has(A(home), On(name))
        BY <2>2, FoundFix
    <2>4. disk[home] = Over(A(home), Over(U(home), L(home)))
        BY <1>3, <2>1
    <2> HIDE DEF A, U, L
    <2>5. Has(disk[home], On(name))
        BY <2>3, <2>4, OverIs
    <2> QED BY <2>1, <2>5 DEF LooksLikeOverlay
<1> QED BY <1>1, <1>5, <1>6, <1>7, <1>8 DEF Safe, Proxied, OverlayDirs

--------------------------------------------------------------------------------
(***************************************************************************)
(* The invariant                                                           *)
(***************************************************************************)
Flags ==
    /\ backup \subseteq Dirs \X Names
    /\ marker \in {"none", "on", "off"}
    /\ exe \in Dirs
    /\ running \in BOOLEAN /\ watching \in BOOLEAN /\ used \in BOOLEAN /\ relaunch \in BOOLEAN
    /\ keepsOff \in BOOLEAN /\ switched \in BOOLEAN
    /\ pending \subseteq {"convert", "fallback"}
    /\ verify \in {"none", "running", "embedded"}
    /\ wanted \in {"on", "off", "open"}

\* A conversion that waits will find Online Fix beside the executable, so that it takes all of
\* it away; one that succeeded left the kit there, which keeps the heal away.
FixInv ==
    /\ Flags
    /\ Safe(disk, shipped \ backup)
    /\ "convert" \in pending => HoldsOnlineFix(disk[exe])
    /\ switched => KitOnly(disk[exe])

LEMMA FixInvKept == ASSUME FixInv PROVE FixKept
<1>1. DiskOK(disk) /\ exe \in Dirs
    BY DEF FixInv, Safe, Flags
<1>2. \A d \in Dirs : /\ DOMAIN disk[d] \subseteq Files
                      /\ \A n \in Names : Owned(disk[d], n, On(n)) /\ Owned(disk[d], n, Off(n))
    BY <1>1 DEF DiskOK, FolderOK
<1>3. ASSUME NEW d \in Dirs PROVE Range(disk[d]) \subseteq Owners
    <2>1. \A x \in DOMAIN disk[d] : disk[d][x] \in Owners
        BY <1>2, FilesAre DEF Owned, Has
    <2> QED BY <2>1 DEF Range
<1>4. TypeOK
    BY <1>1, <1>2, <1>3 DEF TypeOK, FixInv, Flags, DiskOK
<1>5. \A x \in shipped \ backup : x \in FixFiles(disk)
    <2> SUFFICES ASSUME NEW x \in shipped \ backup PROVE x \in FixFiles(disk)
        OBVIOUS
    <2>1. x \in Dirs \X Names /\ FixIn(disk[x[1]], x[2]) /\ x = << x[1], x[2] >>
        BY DEF FixInv, Safe
    <2> QED BY <1>1, <2>1, FixFilesAre
<1>6. switched => \A x \in DOMAIN disk[exe] : disk[exe][x] # "fix"
    BY <1>1, <1>2, FilesAre DEF FixInv, KitOnly, FixIn, Has
<1> QED BY <1>4, <1>5, <1>6 DEF FixKept

LEMMA InitFix == ASSUME Init PROVE FixInv
<1>1. Flags
    BY InitSafe DEF Init, Flags
<1>2. shipped \ backup = FixFiles(disk)
    BY DEF Init
<1> QED BY <1>1, <1>2, InitSafe DEF FixInv, Init

\* What an action does to the files, whatever else it changes
Moves(owed) ==
    /\ exe' = exe
    /\ Safe(disk', owed)
    /\ KitOnly(disk[exe]) => KitOnly(disk'[exe])
    /\ HoldsOnlineFix(disk[exe]) => HoldsOnlineFix(disk'[exe])

LEMMA LaunchMoves ==
    ASSUME NEW dk, NEW owed, Safe(dk, owed), exe \in Dirs, Launch(dk)
    PROVE  /\ Safe(disk', owed)
           /\ KitOnly(dk[exe]) => KitOnly(disk'[exe])
           /\ HoldsOnlineFix(dk[exe]) => HoldsOnlineFix(disk'[exe])
           /\ \A d \in Dirs : LooksLikeOverlay(dk[d]) => LooksLikeOverlay(disk'[d])
<1>1. disk' = dk \/ disk' = Prepared(dk)
    BY DEF Launch
<1> QED BY <1>1, PreparedSafe

LEMMA SwitchMoves ==
    ASSUME NEW owed, Safe(disk, owed), exe \in Dirs, exe' = exe, NEW enable \in BOOLEAN, NEW stuck,
           enable => ~DetectOnlineFix(disk).enabled,
           disk' = SetOnlineFix(disk, enable, stuck).disk
    PROVE  Moves(owed)
<1>1. Safe(disk', owed) /\ Keeps(disk[exe], disk'[exe])
    BY SwitchSafe
<1> QED BY <1>1 DEF Moves, Keeps

LEMMA NextFiles ==
    ASSUME FixInv, Next
    PROVE  /\ exe' = exe
           /\ Safe(disk', shipped' \ backup')
           /\ backup' \subseteq Dirs \X Names
           /\ "convert" \in pending' => HoldsOnlineFix(disk'[exe])
           /\ switched' => KitOnly(disk'[exe])
<1> DEFINE owed == shipped \ backup
           Goal == /\ exe' = exe
                   /\ Safe(disk', shipped' \ backup')
                   /\ backup' \subseteq Dirs \X Names
                   /\ "convert" \in pending' => HoldsOnlineFix(disk'[exe])
                   /\ switched' => KitOnly(disk'[exe])
<1>1. /\ Safe(disk, owed) /\ exe \in Dirs /\ DiskOK(disk) /\ backup \subseteq Dirs \X Names
      /\ "convert" \in pending => HoldsOnlineFix(disk[exe])
      /\ switched => KitOnly(disk[exe])
    BY DEF FixInv, Flags, Safe
<1>2. ASSUME Moves(owed), UNCHANGED << backup, shipped >>,
             "convert" \in pending' => "convert" \in pending, switched' => switched
      PROVE  Goal
    BY <1>1, <1>2 DEF Moves
<1>3. disk' = disk /\ exe' = exe => Moves(owed)
    BY <1>1 DEF Moves
<1>4. CASE ToggleOnlineFix
    <2>1. PICK stuck \in SomeFile : Switch(~DetectOnlineFix(disk).enabled, stuck)
        BY <1>4 DEF ToggleOnlineFix
    <2>2. Moves(owed)
        BY <1>1, <1>4, <2>1, SwitchMoves DEF ToggleOnlineFix, Switch
    <2> QED BY <1>2, <1>4, <2>2 DEF ToggleOnlineFix, launch
<1>5. CASE Play
    <2>1. Moves(owed)
        BY <1>1, <1>5, LaunchMoves DEF Play, Moves
    <2> QED BY <1>2, <1>5, <2>1 DEF Play
<1>6. CASE Exits
    BY <1>2, <1>3, <1>6 DEF Exits
<1>7. CASE SelfProtection
    <2>1. HoldsOnlineFix(disk[exe])
        BY <1>7 DEF SelfProtection, HoldsOnlineFix
    <2> QED BY <1>1, <1>7, <2>1 DEF SelfProtection
<1>8. CASE LaunchFailure
    <2>1. Moves(owed)
        <3>1. CASE disk' = disk
            BY <1>3, <1>8, <3>1 DEF LaunchFailure
        <3>2. CASE \E stuck \in SomeFile : Switch(FALSE, stuck)
            BY <1>1, <1>8, <3>2, SwitchMoves DEF LaunchFailure, Switch
        <3> QED BY <1>8, <3>1, <3>2 DEF LaunchFailure
    <2>2. "convert" \in pending' => "convert" \in pending
        <3>1. pending' = pending \/ pending' = pending \cup {"fallback"}
            BY <1>8, Zenon DEF LaunchFailure
        <3> QED BY <3>1
    <2> QED BY <1>2, <1>8, <2>1, <2>2 DEF LaunchFailure
<1>9. CASE FallbackFires
    <2>1. Moves(owed)
        <3>1. CASE running
            BY <1>3, <1>9, <3>1 DEF FallbackFires
        <3>2. CASE ~running
            BY <1>1, <1>9, <3>2, LaunchMoves DEF FallbackFires, Moves
        <3> QED BY <3>1, <3>2
    <2> QED BY <1>2, <1>9, <2>1 DEF FallbackFires
<1>10. CASE ConvertFires
    <2>1. /\ "convert" \in pending /\ pending' = pending \ {"convert"}
          /\ UNCHANGED << exe, shipped >>
          /\ HoldsOnlineFix(disk[exe])
        BY <1>1, <1>10 DEF ConvertFires
    <2>2. ~switched
        <3>1. FolderOK(disk[exe])
            BY <1>1 DEF DiskOK
        <3>2. {"OnlineFix64.dll", "OnlineFix.ini", "dlllist.txt"} \subseteq Names \cap (FixNames \ {"winmm.dll"})
            BY NamesAre DEF FixNames
        <3>3. \E n \in Names : FixIn(disk[exe], n)
            BY <2>1, <3>1, <3>2 DEF HoldsOnlineFix, FolderOK, Owned, FixIn
        <3> QED BY <1>1, <3>3 DEF KitOnly
    <2>3. CASE \E moving, planting : Converted(Convert(disk, moving, planting))
        <3>1. PICK moving, planting : Converted(Convert(disk, moving, planting))
            BY <2>3
        <3> DEFINE r == Convert(disk, moving, planting)
        <3>2. /\ Safe(r.disk, owed \ r.moved) /\ r.moved \subseteq Dirs \X Names
              /\ r.ok => KitOnly(r.disk[exe])
            BY <1>1, <2>1, ConvertSafe
        <3> HIDE DEF r
        <3>3. /\ backup' = backup \cup r.moved /\ switched' = (switched \/ r.ok)
              /\ disk' = r.disk \/ Launch(r.disk)
            BY <3>1 DEF Converted, r
        <3>4. shipped' \ backup' = owed \ r.moved
            BY <2>1, <3>3
        <3>5. Safe(disk', owed \ r.moved) /\ (KitOnly(r.disk[exe]) => KitOnly(disk'[exe]))
            BY <1>1, <3>2, <3>3, LaunchMoves
        <3> QED BY <1>1, <2>1, <2>2, <3>2, <3>3, <3>4, <3>5
    <2>4. CASE UNCHANGED << disk, backup, running, watching, used, relaunch, switched, wanted, faults >>
        <3>1. Moves(owed)
            BY <1>3, <2>1, <2>4
        <3> QED BY <1>2, <2>1, <2>4, <3>1
    <2> QED BY <1>10, <2>3, <2>4 DEF ConvertFires
<1>11. CASE VerifyGameFiles
    BY <1>2, <1>3, <1>11 DEF VerifyGameFiles, launch
<1>12. CASE Embeds
    <2>1. PICK d \in {Root, exe} :
              /\ disk' = [disk EXCEPT ![d] = Over(FullFix, @)]
              /\ shipped' = shipped \cup ({d} \X Range(OnlineFixFiles))
              /\ switched' = (switched /\ d # exe)
        BY <1>12 DEF Embeds
    <2>2. UNCHANGED << exe, backup, pending >>
        BY <1>12 DEF Embeds, launch
    <2>3. d \in Dirs
        <3>1. DOMAIN Walk = 1..Len(Walk) /\ Len(Walk) \in Nat /\ Len(Walk) > 1
            BY OverlayAssumption
        <3> QED BY <1>1, <3>1 DEF Root, Dirs, Range
    <2>4. /\ Safe(disk', owed \cup ({d} \X Range(OnlineFixFiles)))
          /\ HoldsOnlineFix(disk[exe]) => HoldsOnlineFix(disk'[exe])
        BY <1>1, <2>1, <2>3, EmbedSafe
    <2>5. shipped' \ backup' \subseteq owed \cup ({d} \X Range(OnlineFixFiles))
        BY <2>1, <2>2
    <2>6. Safe(disk', shipped' \ backup')
        BY <2>4, <2>5 DEF Safe, Proxied
    <2>7. switched' => KitOnly(disk'[exe])
        BY <1>1, <2>1, <2>3 DEF DiskOK
    <2> QED BY <1>1, <2>2, <2>4, <2>6, <2>7
<1>13. CASE VerifyEnds
    <2>1. Moves(owed)
        <3>1. CASE disk' = disk
            BY <1>3, <1>13, <3>1 DEF VerifyEnds
        <3>2. CASE \E stuck \in SomeFile : disk' = SetOnlineFix(disk, FALSE, stuck).disk
            BY <1>1, <1>13, <3>2, SwitchMoves DEF VerifyEnds
        <3> QED BY <1>13, <3>1, <3>2 DEF VerifyEnds
    <2> QED BY <1>2, <1>13, <2>1 DEF VerifyEnds, launch
<1>14. CASE RemovedJobEnds
    BY <1>2, <1>3, <1>14 DEF RemovedJobEnds, launch
<1>15. CASE Restart
    BY <1>2, <1>3, <1>15 DEF Restart
<1> QED BY <1>4, <1>5, <1>6, <1>7, <1>8, <1>9, <1>10, <1>11, <1>12, <1>13, <1>14, <1>15 DEF Next

LEMMA NextFlags == ASSUME Flags, Next, backup' \subseteq Dirs \X Names PROVE Flags'
<1>1. CASE ToggleOnlineFix
    BY <1>1 DEF Flags, ToggleOnlineFix, Switch, After, launch
<1>2. CASE Play
    BY <1>2 DEF Flags, Play, Launch
<1>3. CASE Exits
    BY <1>3 DEF Flags, Exits
<1>4. CASE SelfProtection
    BY <1>4 DEF Flags, SelfProtection
<1>5. CASE LaunchFailure
    BY <1>5 DEF Flags, LaunchFailure, Switch, After
<1>6. CASE FallbackFires
    BY <1>6 DEF Flags, FallbackFires, Launch
<1>7. CASE ConvertFires
    <2>1. /\ pending' = pending \ {"convert"}
          /\ UNCHANGED << marker, exe, verify, keepsOff >>
          /\ wanted' \in {"on", "open", wanted}
        BY <1>7 DEF ConvertFires
    <2>2. CASE \E r : Converted(r)
        <3>1. PICK r : Converted(r)
            BY <2>2
        <3>2. switched' \in BOOLEAN
            BY <3>1 DEF Converted
        <3>3. /\ running' \in BOOLEAN /\ watching' \in BOOLEAN
              /\ used' \in BOOLEAN /\ relaunch' \in BOOLEAN
            BY <3>1 DEF Converted, Launch, Flags
        <3> QED BY <2>1, <3>2, <3>3 DEF Flags
    <2>3. CASE UNCHANGED << disk, backup, running, watching, used, relaunch, switched, wanted, faults >>
        BY <2>1, <2>3 DEF Flags
    <2> QED BY <1>7, <2>2, <2>3 DEF ConvertFires
<1>8. CASE VerifyGameFiles
    BY <1>8 DEF Flags, VerifyGameFiles, launch
<1>9. CASE Embeds
    BY <1>9 DEF Flags, Embeds, launch
<1>10. CASE VerifyEnds
    BY <1>10 DEF Flags, VerifyEnds, launch
<1>11. CASE RemovedJobEnds
    BY <1>11 DEF Flags, RemovedJobEnds, After, launch
<1>12. CASE Restart
    BY <1>12 DEF Flags, Restart, After
<1> QED BY <1>1, <1>2, <1>3, <1>4, <1>5, <1>6, <1>7, <1>8, <1>9, <1>10, <1>11, <1>12 DEF Next

LEMMA NextFix == ASSUME FixInv, [Next]_vars PROVE FixInv'
<1>1. CASE Next
    <2>1. /\ exe' = exe /\ Safe(disk', shipped' \ backup')
          /\ "convert" \in pending' => HoldsOnlineFix(disk'[exe])
          /\ switched' => KitOnly(disk'[exe])
          /\ Flags'
        BY <1>1, NextFiles, NextFlags DEF FixInv
    <2>2. Safe(disk, shipped \ backup)'
        BY <2>1 DEF Safe, DiskOK, Proxied
    <2>3. HoldsOnlineFix(disk[exe])' <=> HoldsOnlineFix(disk'[exe])
        BY <2>1
    <2>4. KitOnly(disk[exe])' <=> KitOnly(disk'[exe])
        BY <2>1
    <2> QED BY <2>1, <2>2, <2>3, <2>4 DEF FixInv
<1>2. CASE UNCHANGED vars
    <2>1. UNCHANGED << disk, backup, marker, exe, running, watching, used, relaunch, pending,
                       verify, keepsOff, shipped, wanted, switched >>
        BY <1>2 DEF vars
    <2>2. Flags'
        BY <2>1 DEF FixInv, Flags
    <2>3. Safe(disk, shipped \ backup)'
        BY <2>1 DEF FixInv, Safe, DiskOK, Proxied
    <2> QED BY <2>1, <2>2, <2>3 DEF FixInv
<1> QED BY <1>1, <1>2

THEOREM FixCorrect == Spec => []FixInv
<1>1. Init => FixInv
    BY InitFix
<1>2. FixInv /\ [Next]_vars => FixInv'
    BY NextFix
<1> QED BY <1>1, <1>2, PTL DEF Spec

\* In whatever order the switch, the launches, conversions that stop half way and the
\* verifications come, with files that cannot be renamed or copied anywhere and any number of
\* folders, every file of Online Fix that came with the game or was embedded is in its folder,
\* on or off, or in the backups, and a switch to SteamFix leaves none beside the executable
\* (convertOnlineFixToSteamFix, setOnlineFixOverlayEnabled, healOnlineFixLayoutForExecutable).
THEOREM FixKeptHolds == Spec => []FixKept
<1>1. FixInv => FixKept
    BY FixInvKept
<1> QED BY <1>1, FixCorrect, PTL

--------------------------------------------------------------------------------
(***************************************************************************)
(* Off stays off                                                           *)
(***************************************************************************)

\* What DetectOnlineFix makes of a disk.
Live(dk) == {d \in OverlayDirs(dk) : LiveIn(dk[d])}

LEMMA DetectIs ==
    ASSUME NEW dk
    PROVE  /\ DetectOnlineFix(dk).enabled <=>
                  IF OverlayDirs(dk) = {} THEN marker = "on" ELSE Live(dk) # {}
           /\ DetectOnlineFix(dk).present <=> OverlayDirs(dk) # {} \/ marker # "none"
BY DEF DetectOnlineFix, Live

\* Nothing is live after a switch off that came through.
LEMMA OffIsOff ==
    ASSUME NEW dk, DiskOK(dk)
    PROVE  /\ SetOnlineFix(dk, FALSE, Nothing).ok
           /\ Live(SetOnlineFix(dk, FALSE, Nothing).disk) = {}
<1> DEFINE r == SetOverlay(dk, FALSE, Nothing)
<1>1. SetOnlineFix(dk, FALSE, Nothing) = r
    BY DEF SetOnlineFix
<1>2. /\ r.ok
      /\ \A d \in Dirs \ OverlayDirs(dk) : r.disk[d] = dk[d]
      /\ \A d \in OverlayDirs(dk), n \in RenamedNames : ~Has(r.disk[d], From(FALSE, n))
    BY SetOverlayKeeps
<1> HIDE DEF r
<1>3. ASSUME NEW d \in OverlayDirs(r.disk), LiveIn(r.disk[d]) PROVE FALSE
    <2>1. d \in OverlayDirs(dk)
        BY <1>2 DEF OverlayDirs
    <2>2. \A n \in RenamedNames : ~Has(r.disk[d], On(n))
        BY <1>2, <2>1 DEF From
    <2>3. ~ActiveDll(r.disk[d]) /\ ~FakeAppIdMode(r.disk[d])
        BY <2>2, NamesAre DEF ActiveDll, FakeAppIdMode, RenamedNames
    <2> QED BY <1>3, <2>3 DEF LiveIn
<1> QED BY <1>1, <1>2, <1>3 DEF Live

\* A launch changes nothing while Online Fix is off.
LEMMA OffPrepared ==
    ASSUME NEW dk, DiskOK(dk), exe \in Dirs, ~DetectOnlineFix(dk).enabled
    PROVE  Prepared(dk) = dk
<1>1. \A d \in OverlayDirs(dk) : ~LiveIn(dk[d])
    BY DetectIs DEF Live
<1>2. Heal(dk) = dk
    BY <1>1, HealGains
<1> QED BY <1>2, ApplyGains DEF Prepared

\* What was left off is off, or a verification under way knows of it and can tell, because there
\* is a layer or the marker.
OffInv ==
    /\ wanted = "off" => IF verify = "none" THEN ~DetectOnlineFix(disk).enabled ELSE keepsOff
    /\ wanted = "off" => OverlayDirs(disk) # {} \/ marker # "none"

LEMMA SwitchOff ==
    ASSUME Promised = {}, FixInv, verify' = verify, exe' = exe,
           NEW enable \in BOOLEAN, NEW stuck, Switch(enable, stuck)
    PROVE  OffInv'
<1> SUFFICES ASSUME wanted' = "off"
             PROVE  verify' = "none" /\ ~DetectOnlineFix(disk)'.enabled /\ marker' # "none"
    BY DEF OffInv
<1>1. verify = "none" /\ stuck = Nothing /\ enable = FALSE
    BY DEF Switch, After
<1>2. DiskOK(disk)
    BY DEF FixInv, Safe
<1>3. /\ disk' = SetOnlineFix(disk, FALSE, Nothing).disk
      /\ marker' = "off"
    BY <1>1, <1>2, OffIsOff DEF Switch
<1>4. Live(disk') = {}
    BY <1>2, <1>3, OffIsOff
<1>5. ~DetectOnlineFix(disk)'.enabled
    BY <1>3, <1>4 DEF DetectOnlineFix, Live
<1> QED BY <1>1, <1>3, <1>5

\* The files and the marker decide what reads as on.
LEMMA SameDetect ==
    ASSUME UNCHANGED << disk, marker >>
    PROVE  /\ DetectOnlineFix(disk)' = DetectOnlineFix(disk)
           /\ OverlayDirs(disk)' = OverlayDirs(disk)
BY DEF DetectOnlineFix, OverlayDirs

LEMMA LaunchOff ==
    ASSUME FixInv, OffInv, Launch(disk), UNCHANGED << marker, exe, verify, keepsOff, wanted >>
    PROVE  OffInv'
<1> SUFFICES ASSUME wanted = "off" PROVE OffInv'
    BY DEF OffInv
<1>1. Safe(disk, shipped \ backup) /\ DiskOK(disk) /\ exe \in Dirs
    BY DEF FixInv, Flags, Safe
<1>2. \A d \in Dirs : LooksLikeOverlay(disk[d]) => LooksLikeOverlay(disk'[d])
    BY <1>1, LaunchMoves
<1>3. OverlayDirs(disk) # {} => OverlayDirs(disk)' # {}
    BY <1>2 DEF OverlayDirs
<1>4. CASE verify = "none"
    <2>1. ~DetectOnlineFix(disk).enabled
        BY <1>4 DEF OffInv
    <2>2. disk' = disk
        BY <1>1, <2>1, OffPrepared DEF Launch
    <2> QED BY <2>1, <2>2, <1>3, <1>4, SameDetect DEF OffInv
<1>5. CASE verify # "none"
    BY <1>3, <1>5 DEF OffInv
<1> QED BY <1>4, <1>5

LEMMA InitOff == ASSUME Init PROVE OffInv
<1>1. /\ verify = "none"
      /\ wanted = "off" => ~DetectOnlineFix(disk).enabled
    BY DEF Init
<1> QED BY <1>1, InitSafe DEF OffInv

LEMMA NextOff == ASSUME Promised = {}, FixInv, OffInv, [Next]_vars PROVE OffInv'
<1>1. ASSUME UNCHANGED << disk, marker, verify, keepsOff, wanted >> PROVE OffInv'
    BY <1>1, SameDetect DEF OffInv
<1>2. CASE ToggleOnlineFix
    <2>1. /\ \E stuck \in SomeFile : Switch(~DetectOnlineFix(disk).enabled, stuck)
          /\ UNCHANGED << exe, verify >>
        BY <1>2 DEF ToggleOnlineFix
    <2> QED BY <2>1, SwitchOff
<1>3. CASE Play
    BY <1>3, LaunchOff DEF Play
<1>4. CASE Exits
    BY <1>1, <1>4 DEF Exits
<1>5. CASE SelfProtection
    BY <1>1, <1>5 DEF SelfProtection
<1>6. CASE LaunchFailure
    <2>1. UNCHANGED << exe, verify, keepsOff >>
        BY <1>6 DEF LaunchFailure
    <2>2. CASE UNCHANGED << disk, marker, wanted >>
        BY <1>1, <2>1, <2>2
    <2>3. CASE \E stuck \in SomeFile : Switch(FALSE, stuck)
        BY <2>1, <2>3, SwitchOff
    <2> QED BY <1>6, <2>2, <2>3 DEF LaunchFailure
<1>7. CASE FallbackFires
    <2>1. UNCHANGED << marker, exe, verify, keepsOff, wanted >>
        BY <1>7 DEF FallbackFires
    <2>2. CASE running
        BY <1>1, <1>7, <2>1, <2>2 DEF FallbackFires
    <2>3. CASE ~running
        BY <1>7, <2>1, <2>3, LaunchOff DEF FallbackFires
    <2> QED BY <2>2, <2>3
<1>8. CASE ConvertFires
    <2>1. \/ wanted' \in {"on", "open"}
          \/ UNCHANGED << disk, marker, verify, keepsOff, wanted >>
        BY <1>8 DEF ConvertFires
    <2> QED BY <1>1, <2>1 DEF OffInv
<1>9. CASE VerifyGameFiles
    <2>1. /\ verify = "none" /\ verify' = "running" /\ UNCHANGED << disk, marker, wanted >>
          /\ keepsOff' = (DetectOnlineFix(disk).present /\ ~DetectOnlineFix(disk).enabled)
        BY <1>9 DEF VerifyGameFiles
    <2> QED BY <2>1, SameDetect, DetectIs DEF OffInv
<1>10. CASE Embeds
    <2>1. /\ verify = "running" /\ verify' = "embedded" /\ marker' = "on"
          /\ UNCHANGED << keepsOff, wanted >>
        BY <1>10 DEF Embeds
    <2> QED BY <2>1 DEF OffInv
<1>11. CASE VerifyEnds
    <2>1. verify # "none" /\ verify' = "none" /\ wanted' \in {wanted, "open"} /\ exe' = exe
        BY <1>11 DEF VerifyEnds
    <2> SUFFICES ASSUME wanted' = "off"
                 PROVE  /\ ~DetectOnlineFix(disk)'.enabled
                        /\ OverlayDirs(disk)' # {} \/ marker' # "none"
        BY <2>1 DEF OffInv
    <2>2. wanted = "off" /\ keepsOff
        BY <2>1 DEF OffInv
    <2>3. CASE DetectOnlineFix(disk).enabled
        <3>1. PICK stuck \in SomeFile :
                  LET r == SetOnlineFix(disk, FALSE, stuck)
                  IN /\ disk' = r.disk
                     /\ marker' = IF r.ok THEN "off" ELSE marker
                     /\ wanted' = IF stuck = Nothing THEN wanted ELSE "open"
            BY <1>11, <2>2, <2>3 DEF VerifyEnds
        <3>2. stuck = Nothing /\ DiskOK(disk)
            BY <3>1 DEF FixInv, Safe
        <3>3. marker' = "off" /\ Live(disk') = {}
            BY <3>1, <3>2, OffIsOff
        <3> QED BY <3>3 DEF DetectOnlineFix, Live
    <2>4. CASE ~DetectOnlineFix(disk).enabled
        BY <1>11, <2>2, <2>4, SameDetect DEF VerifyEnds, OffInv
    <2> QED BY <2>3, <2>4
<1>12. CASE RemovedJobEnds
    <2>1. /\ verify = "embedded" /\ UNCHANGED << disk, marker >>
          /\ wanted' = IF keepsOff THEN After("removed", wanted) ELSE wanted
        BY <1>12 DEF RemovedJobEnds
    <2>2. wanted' # "off"
        BY <2>1 DEF OffInv, After
    <2> QED BY <2>2 DEF OffInv
<1>13. CASE Restart
    <2>1. /\ UNCHANGED << disk, marker >>
          /\ verify' = IF verify = "none" THEN "none" ELSE "running"
          /\ wanted' = IF keepsOff THEN After("crash", wanted) ELSE wanted
        BY <1>13 DEF Restart
    <2>2. wanted' = "off" => wanted = "off" /\ verify = "none" /\ verify' = "none"
        BY <2>1 DEF OffInv, After
    <2> QED BY <2>1, <2>2, SameDetect DEF OffInv
<1>14. CASE UNCHANGED vars
    BY <1>1, <1>14 DEF vars
<1> QED BY <1>2, <1>3, <1>4, <1>5, <1>6, <1>7, <1>8, <1>9, <1>10, <1>11, <1>12, <1>13, <1>14
        DEF Next

\* Online Fix that was turned off, by the user or by the fallback of a failed launch, reads as
\* off at every later time at which no verification runs, until it is turned on or embedded on
\* purpose or a file could not be renamed (detectOnlineFixOverlay, prepareGameFilesVerify,
\* restoreOnlineFixAfterVerify).  As in the run, nothing is promised for a verification during
\* which the switch is used, whose job is removed after it embedded, or that the program's end
\* interrupts.
THEOREM OffKeptHolds == ASSUME Promised = {} PROVE Spec => []OffKept
<1>1. Init => FixInv /\ OffInv
    BY InitFix, InitOff
<1>2. FixInv /\ OffInv /\ [Next]_vars => (FixInv /\ OffInv)'
    BY NextFix, NextOff
<1>3. OffInv => OffKept
    BY DEF OffInv, OffKept
<1> QED BY <1>1, <1>2, <1>3, PTL DEF Spec

================================================================================
