-------------------------- MODULE TorBoxSessionProofs --------------------------
(***************************************************************************)
(* Theorems about TorBoxSession, for every set of jobs, every number of    *)
(* slots and of Transfer objects, and files of every size.                 *)
(***************************************************************************)
EXTENDS TorBoxSession, FiniteSetTheorems, SequenceTheorems, TLAPS

--------------------------------------------------------------------------------
(***************************************************************************)
(* The inductive invariant.  Its parts are operators of a map and a heap   *)
(* of objects, because pump is given those in the middle of a step.        *)
(***************************************************************************)

Maps == [Jobs -> {0} \cup Objects]
Heaps == [Objects -> Transfer]

\* The map of a job holds an object of that job.
Owned(cur, tr) == \A j \in Jobs : cur[j] # 0 => tr[cur[j]].job = j

\* The object is the one of its job, and not paused.
Live(cur, tr, a) == cur[tr[a].job] = a /\ ~tr[a].paused

\* One callback is to come: a reply or a timer.
Driver(t) ==
    \/ t.reply # "none" /\ t.timers = {}
    \/ t.reply = "none" /\ \E x \in Timers : t.timers = {x}

Quiet(t) == t.reply = "none" /\ t.timers = {}

\* What it asks for, or will ask for, is a file of the torrent.
Aimed(t) ==
    t.reply \in {"requestdl", "file"} \/ "requestdl" \in t.timers
    => t.index <= FileCount

\* The server goes on where the part file ends.
InStep(t, pt) ==
    t.reply = "file" => t.next = Len(pt[t.job][t.index]) + 1

\* A live object is driven once it is started, and nobody else has a reply.
ObjectOK(cur, tr, pt, a) ==
    /\ Live(cur, tr, a) =>
        /\ tr[a].started => Driver(tr[a])
        /\ ~tr[a].started => Quiet(tr[a])
        /\ Aimed(tr[a])
        /\ InStep(tr[a], pt)
    /\ ~Live(cur, tr, a) => tr[a].reply = "none"

HeapOK(cur, tr, pt) == \A a \in Objects : ObjectOK(cur, tr, pt, a)

Source == [k \in 1..Size |-> k]

\* A part file holds the first chunks of its source, in order.
InOrder(s) ==
    /\ s \in Seq(1..Size)
    /\ Len(s) <= Size
    /\ \A k \in 1..Len(s) : s[k] = k

PartsOK(pt) == pt \in [Jobs -> [Files -> {s \in Seq(1..Size) : InOrder(s)}]]
FinalsOK(fn) == fn \in [Jobs -> [Files -> {<<>>, Source}]]

SessionInv ==
    /\ slots \in 1..MaxSlots
    /\ current \in Maps
    /\ transfer \in Heaps
    /\ pumpDue \in BOOLEAN
    /\ known \in [Jobs -> BOOLEAN]
    /\ Owned(current, transfer)
    /\ HeapOK(current, transfer, part)
    /\ PartsOK(part)
    /\ FinalsOK(final)

--------------------------------------------------------------------------------
(***************************************************************************)
(* Objects                                                                 *)
(***************************************************************************)

\* A new Transfer is one (addJob).
LEMMA NewTransferType ==
    ASSUME NEW j \in Jobs, NEW usable \in BOOLEAN, NEW remote \in BOOLEAN
    PROVE  NewTransfer(j, usable, remote) \in Transfer
<1>1. 1 \in 1..(FileCount + 1) /\ 1 \in 1..(Size + 1)
    BY CountAssumption
<1> QED
    BY <1>1 DEF NewTransfer, Transfer

\* So is a free object.
LEMMA UnusedType == Unused \in Transfer
<1>1. (CHOOSE j \in Jobs : TRUE) \in Jobs
    BY JobsAssumption
<1> QED
    BY <1>1, NewTransferType DEF Unused

\* Nothing is an object, so an entry of the map tells whether there is one.
LEMMA NoObject == 0 \notin Objects
BY DEF Objects

\* Freeing what nobody holds any more changes no job's object and no callback.
LEMMA CollectedKeeps ==
    ASSUME NEW cur \in Maps, NEW tr \in Heaps, NEW pt,
           Owned(cur, tr), HeapOK(cur, tr, pt)
    PROVE  /\ Collected(cur, tr) \in Heaps
           /\ \A j \in Jobs : cur[j] # 0 => Collected(cur, tr)[cur[j]] = tr[cur[j]]
           /\ Owned(cur, Collected(cur, tr))
           /\ HeapOK(cur, Collected(cur, tr), pt)
<1> DEFINE C == Collected(cur, tr)
<1>1. C \in Heaps
    BY UnusedType DEF Collected, Heaps
<1>2. \A j \in Jobs : cur[j] # 0 => C[cur[j]] = tr[cur[j]]
    BY DEF Collected, Held, Owned, Maps
<1>3. Owned(cur, C)
    BY <1>2 DEF Owned
<1>4. ASSUME NEW a \in Objects
      PROVE  ObjectOK(cur, C, pt, a)
    <2>1. CASE Held(cur, tr, a)
        <3>1. C[a] = tr[a]
            BY <2>1 DEF Collected
        <3>2. ObjectOK(cur, tr, pt, a)
            BY DEF HeapOK
        <3> HIDE DEF C
        <3> QED
            BY <3>1, <3>2 DEF ObjectOK, Live
    <2>2. CASE ~Held(cur, tr, a)
        <3>1. C[a] = Unused
            BY <2>2 DEF Collected
        <3>2. Unused.reply = "none" /\ Unused.job \in Jobs
            BY JobsAssumption DEF Unused, NewTransfer
        <3>3. cur[Unused.job] # a
            BY <2>2, <3>2, NoObject DEF Owned, Held
        <3> HIDE DEF C
        <3> QED
            BY <3>1, <3>2, <3>3 DEF ObjectOK, Live
    <2> QED
        BY <2>1, <2>2
<1> QED
    BY <1>1, <1>2, <1>3, <1>4 DEF HeapOK

\* One record takes the place of an object's: the map, the other objects and the
\* part files being as they were, the invariant asks something of that record only.
LEMMA ReplacedKeeps ==
    ASSUME NEW cur \in Maps, NEW tr \in Heaps, NEW pt,
           Owned(cur, tr), HeapOK(cur, tr, pt),
           NEW a \in Objects, NEW t \in Transfer, t.job = tr[a].job,
           ObjectOK(cur, [tr EXCEPT ![a] = t], pt, a)
    PROVE  /\ [tr EXCEPT ![a] = t] \in Heaps
           /\ Owned(cur, [tr EXCEPT ![a] = t])
           /\ HeapOK(cur, [tr EXCEPT ![a] = t], pt)
<1> DEFINE u == [tr EXCEPT ![a] = t]
<1>1. u \in Heaps
    BY DEF Heaps
<1>2. /\ u[a] = t
      /\ \A b \in Objects : b # a => u[b] = tr[b]
    BY DEF Heaps
<1> HIDE DEF u
<1>3. Owned(cur, u)
    BY <1>2 DEF Owned, Maps
<1>4. ASSUME NEW b \in Objects, b # a
      PROVE  ObjectOK(cur, u, pt, b)
    <2>1. u[b] = tr[b] /\ ObjectOK(cur, tr, pt, b)
        BY <1>2, <1>4 DEF HeapOK
    <2> QED
        BY <2>1 DEF ObjectOK, Live
<1> QED
    BY <1>1, <1>3, <1>4 DEF HeapOK, u

\* pump starts quiet objects only; those without a key leave the map quietly.
LEMMA PumpKeeps ==
    ASSUME NEW cur \in Maps, NEW tr \in Heaps, NEW n, NEW due \in BOOLEAN, NEW pt,
           Owned(cur, tr), HeapOK(cur, tr, pt),
           Pump(cur, tr, n, due)
    PROVE  /\ current' \in Maps
           /\ transfer' \in Heaps
           /\ pumpDue' \in BOOLEAN
           /\ Owned(current', transfer')
           /\ HeapOK(current', transfer', pt)
<1> DEFINE begun(t) == [ t EXCEPT !.started = TRUE,
                         !.reply = IF ~t.usable THEN "none"
                                   ELSE IF t.remote THEN "mylist" ELSE "create" ]
<1>1. PICK go \in Admitted(cur, tr, n) :
        LET bad == {j \in go : ~tr[cur[j]].usable}
        IN  /\ current' = [j \in Jobs |-> IF j \in bad THEN 0 ELSE cur[j]]
            /\ transfer' = Collected(current',
                             [ a \in Objects |->
                                 IF \E j \in go : cur[j] = a THEN begun(tr[a])
                                                            ELSE tr[a] ])
            /\ pumpDue' = (due \/ bad # {})
    BY DEF Pump
<1> DEFINE bad == {j \in go : ~tr[cur[j]].usable}
           u == [ a \in Objects |-> IF \E j \in go : cur[j] = a THEN begun(tr[a])
                                                               ELSE tr[a] ]
           c == [j \in Jobs |-> IF j \in bad THEN 0 ELSE cur[j]]
<1>2. /\ go \subseteq Jobs
      /\ \A j \in go : cur[j] \in Objects /\ ~tr[cur[j]].paused /\ ~tr[cur[j]].started
    BY DEF Admitted, WaitingIn, Maps
<1>3. \A t \in Transfer : begun(t) \in Transfer
    <2>1. {"none", "mylist", "create"} \subseteq Calls \cup {"none"}
        BY DEF Calls
    <2> QED
        BY <2>1 DEF Transfer
<1>4. c \in Maps /\ u \in Heaps
    BY <1>3 DEF Maps, Heaps
<1>5. \A t \in Transfer : /\ begun(t).job = t.job /\ begun(t).paused = t.paused
                          /\ begun(t).started /\ begun(t).timers = t.timers
                          /\ begun(t).index = t.index
                          /\ t.usable => begun(t).reply \in {"mylist", "create"}
                          /\ ~t.usable => begun(t).reply = "none"
    BY DEF Transfer
<1> HIDE DEF begun
<1>6. \A a \in Objects : u[a].job = tr[a].job
    BY <1>5 DEF Heaps
<1>7. Owned(c, u)
    BY <1>6, <1>2 DEF Owned, Maps
<1>8. ASSUME NEW a \in Objects
      PROVE  ObjectOK(c, u, pt, a)
    <2>1. ObjectOK(cur, tr, pt, a) /\ tr[a] \in Transfer /\ tr[a].job \in Jobs
        BY DEF HeapOK, Heaps, Transfer
    <2>2. CASE \E j \in go : cur[j] = a
        <3>1. PICK j \in go : cur[j] = a
            BY <2>2
        <3>2. tr[a].job = j /\ Live(cur, tr, a) /\ ~tr[a].started
            BY <1>2, <3>1, NoObject DEF Owned, Live
        <3>3. Quiet(tr[a])
            BY <2>1, <3>2 DEF ObjectOK
        <3>4. u[a] = begun(tr[a])
            BY <2>2
        <3>5. CASE tr[a].usable
            <4>1. j \notin bad
                BY <3>1, <3>5
            <4>2. c[j] = a
                BY <3>1, <4>1, <1>2
            <4> HIDE DEF u, c
            <4> QED
                BY <2>1, <3>2, <3>3, <3>4, <3>5, <4>2, <1>5
                   DEF ObjectOK, Live, Quiet, Driver, Aimed, InStep
        <3>6. CASE ~tr[a].usable
            <4>1. c[j] = 0
                BY <3>1, <3>6, <1>2
            <4> HIDE DEF u, c
            <4> QED
                BY <2>1, <3>2, <3>4, <3>6, <4>1, <1>5, NoObject DEF ObjectOK, Live
        <3> QED
            BY <3>5, <3>6
    <2>3. CASE ~\E j \in go : cur[j] = a
        <3>1. u[a] = tr[a]
            BY <2>3
        <3>2. c[tr[a].job] = a <=> cur[tr[a].job] = a
            BY <2>1, <2>3, <1>2, NoObject
        <3> HIDE DEF u, c
        <3> QED
            BY <2>1, <3>1, <3>2 DEF ObjectOK, Live
    <2> QED
        BY <2>2, <2>3
<1>9. current' = c /\ transfer' = Collected(c, u) /\ pumpDue' \in BOOLEAN
    BY <1>1
<1> HIDE DEF c, u
<1> QED
    BY <1>4, <1>7, <1>8, <1>9, CollectedKeeps DEF HeapOK

--------------------------------------------------------------------------------
(***************************************************************************)
(* How a handler leaves its object                                         *)
(***************************************************************************)

\* The transfer goes on: the handler leaves its object driven, and its part file
\* where the server goes on.
LEMMA ContinueKeeps ==
    ASSUME SessionInv, NEW a \in Objects, NEW t \in Transfer,
           Current(a), transfer[a].started,
           t.job = transfer[a].job, ~t.paused, t.started,
           Driver(t), Aimed(t), InStep(t, part'), Continue(a, t),
           \A j \in Jobs : j # t.job => part'[j] = part[j]
    PROVE  /\ slots' \in 1..MaxSlots
           /\ current' \in Maps
           /\ transfer' \in Heaps
           /\ pumpDue' \in BOOLEAN
           /\ Owned(current', transfer')
           /\ HeapOK(current', transfer', part')
<1> DEFINE u == [transfer EXCEPT ![a] = t]
<1>1. /\ current \in Maps /\ transfer \in Heaps /\ Owned(current, transfer)
      /\ HeapOK(current, transfer, part)
    BY DEF SessionInv
<1>2. \A b \in Objects : b # a => ObjectOK(current, u, part', b)
    <2> SUFFICES ASSUME NEW b \in Objects, b # a
                 PROVE  ObjectOK(current, u, part', b)
        OBVIOUS
    <2>1. u[b] = transfer[b] /\ ObjectOK(current, transfer, part, b)
        BY <1>1 DEF HeapOK, Heaps
    <2>2. transfer[b].job \in Jobs
        BY <1>1 DEF Heaps, Transfer
    <2>3. Live(current, transfer, b) => transfer[b].job # t.job
        BY DEF Live, Current
    <2> HIDE DEF u
    <2> QED
        BY <2>1, <2>2, <2>3 DEF ObjectOK, Live, InStep
<1>3. u[a] = t /\ u \in Heaps
    BY <1>1 DEF Heaps
<1>4. Owned(current, u)
    BY <1>1, <1>3 DEF Owned, Maps, Heaps
<1>5. transfer' = Collected(current, u) /\ UNCHANGED <<slots, current, pumpDue>>
    BY DEF Continue
<1> HIDE DEF u
<1>6. ObjectOK(current, u, part', a)
    BY <1>3 DEF ObjectOK, Live, Current
<1>7. HeapOK(current, u, part')
    BY <1>2, <1>6 DEF HeapOK
<1> QED
    BY <1>1, <1>3, <1>4, <1>5, <1>7, CollectedKeeps DEF SessionInv

\* The transfer fails or finishes: its object leaves the map without a reply.
LEMMA EndsKeeps ==
    ASSUME SessionInv, NEW a \in Objects, NEW t \in Transfer,
           Current(a), t.job = transfer[a].job, Ends(a, t), UNCHANGED part
    PROVE  /\ slots' \in 1..MaxSlots
           /\ current' \in Maps
           /\ transfer' \in Heaps
           /\ pumpDue' \in BOOLEAN
           /\ Owned(current', transfer')
           /\ HeapOK(current', transfer', part')
<1> DEFINE c == [current EXCEPT ![t.job] = 0]
           u == [transfer EXCEPT ![a] = Stopped(t)]
<1>1. /\ current \in Maps /\ transfer \in Heaps /\ Owned(current, transfer)
      /\ HeapOK(current, transfer, part)
    BY DEF SessionInv
<1>2. t.job \in Jobs /\ current[t.job] = a
    BY DEF Transfer, Current
<1>3. c \in Maps /\ c[t.job] = 0 /\ \A j \in Jobs : j # t.job => c[j] = current[j]
    BY <1>1, <1>2 DEF Maps
<1>4. Stopped(t) \in Transfer /\ Stopped(t).job = t.job /\ Stopped(t).reply = "none"
    BY DEF Stopped, Transfer
<1>5. u \in Heaps /\ u[a] = Stopped(t) /\ \A b \in Objects : b # a => u[b] = transfer[b]
    BY <1>1, <1>4 DEF Heaps
<1>6. current' = c /\ transfer' = Collected(c, u) /\ pumpDue' = TRUE /\ UNCHANGED slots
    BY DEF Ends
<1> HIDE DEF c, u
<1>7. Owned(c, u)
    BY <1>1, <1>2, <1>3, <1>4, <1>5 DEF Owned, Maps
<1>8. ASSUME NEW b \in Objects
      PROVE  ObjectOK(c, u, part, b)
    <2>1. CASE b = a
        BY <2>1, <1>3, <1>4, <1>5, NoObject DEF ObjectOK, Live
    <2>2. CASE b # a
        <3>1. u[b] = transfer[b] /\ ObjectOK(current, transfer, part, b)
            BY <1>1, <1>5, <2>2 DEF HeapOK
        <3>2. transfer[b].job \in Jobs
            BY <1>1 DEF Heaps, Transfer
        <3>3. c[transfer[b].job] = b <=> current[transfer[b].job] = b
            BY <1>2, <1>3, <2>2, <3>2, NoObject
        <3> QED
            BY <3>1, <3>3 DEF ObjectOK, Live
    <2> QED
        BY <2>1, <2>2
<1> QED
    BY <1>3, <1>5, <1>6, <1>7, <1>8, CollectedKeeps DEF HeapOK, SessionInv

--------------------------------------------------------------------------------
(***************************************************************************)
(* Files                                                                   *)
(***************************************************************************)

\* A set of numbers that is not empty has a least one.
LEMMA LeastNumber ==
    ASSUME NEW S \in SUBSET Nat, S # {}
    PROVE  \E x \in S : \A y \in S : x <= y
<1> DEFINE below == {1..x : x \in S}
<1>1. below \subseteq FiniteSubsetsOf(Nat) /\ below # {}
    <2>1. ASSUME NEW x \in S
          PROVE  1..x \in FiniteSubsetsOf(Nat)
        <3>1. IsFiniteSet(1..x) /\ 1..x \in SUBSET Nat
            BY FS_Interval
        <3> QED
            BY <3>1 DEF FiniteSubsetsOf
    <2> QED
        BY <2>1
<1> HIDE DEF below
<1>2. PICK m \in below : \A b \in below : <<b, m>> \notin StrictSubsetOrdering(Nat)
    BY <1>1, WFMin, FS_StrictSubsetOrderingWellFounded
<1>3. PICK x \in S : m = 1..x
    BY DEF below
<1>4. ASSUME NEW y \in S, y < x
      PROVE  FALSE
    <2>1. 1..y \in SUBSET Nat /\ m \in SUBSET Nat /\ 1..y \subseteq m /\ 1..y # m
        BY <1>3, <1>4
    <2>2. 1..y \in below
        BY DEF below
    <2> QED
        BY <1>2, <2>1, <2>2 DEF StrictSubsetOrdering
<1> QED
    BY <1>4

\* downloadNext looks for a file that is not complete from its index on, and ends
\* behind the last one.
LEMMA NextFileFound ==
    ASSUME NEW j \in Jobs, NEW from \in 1..(FileCount + 1)
    PROVE  /\ NextFile(j, from) \in from..(FileCount + 1)
           /\ NextFile(j, from) <= FileCount
              => Len(final[j][NextFile(j, from)]) # Size
<1> DEFINE missing == {i \in from..(FileCount + 1) :
                        i <= FileCount => Len(final[j][i]) # Size}
<1>1. missing \in SUBSET Nat /\ FileCount + 1 \in missing
    BY CountAssumption
<1>2. PICK i \in missing : \A k \in missing : i <= k
    BY <1>1, LeastNumber
<1>3. \A f \in from..(i - 1) : Len(final[j][f]) = Size
    <2> SUFFICES ASSUME NEW f \in from..(i - 1), Len(final[j][f]) # Size
                 PROVE  FALSE
        OBVIOUS
    <2>1. f \in missing /\ f < i
        BY <1>1, CountAssumption
    <2> QED
        BY <1>1, <1>2, <2>1
<1>4. \E k \in from..(FileCount + 1) :
        /\ \A f \in from..(k - 1) : Len(final[j][f]) = Size
        /\ k <= FileCount => Len(final[j][k]) # Size
    BY <1>2, <1>3
<1> QED
    BY <1>4 DEF NextFile

\* The first chunk that is missing may be appended.
LEMMA AppendInOrder ==
    ASSUME NEW s \in Seq(1..Size), InOrder(s), Len(s) < Size
    PROVE  InOrder(Append(s, Len(s) + 1))
<1>1. Len(s) \in Nat /\ Len(s) + 1 \in 1..Size
    BY LenProperties, CountAssumption
<1> QED
    BY <1>1, AppendProperties DEF InOrder

\* A part file with all its chunks is the source (finishFile).
LEMMA CompleteIsSource ==
    ASSUME NEW s \in Seq(1..Size), InOrder(s), Len(s) = Size
    PROVE  s = Source
<1>1. Source \in Seq(1..Size) /\ Len(Source) = Size /\ \A k \in 1..Size : Source[k] = k
    BY CountAssumption DEF Source
<1> QED
    BY <1>1, SeqEqual DEF InOrder

\* The prefixes of a part file are sequences of its chunks.
LEMMA PrefixesType ==
    ASSUME NEW s \in Seq(1..Size)
    PROVE  Prefixes(s) \subseteq Seq(1..Size)
<1> SUFFICES ASSUME NEW l \in 0..Len(s)
             PROVE  SubSeq(s, 1, l) \in Seq(1..Size)
    BY DEF Prefixes
<1>1. Len(s) \in Nat /\ l \in Int
    BY LenProperties
<1>2. ASSUME NEW i \in 1..l
      PROVE  s[i] \in 1..Size
    <2>1. i \in 1..Len(s)
        BY <1>1
    <2> QED
        BY <2>1, ElementOfSeq
<1> QED
    BY <1>1, <1>2, SubSeqProperties

\* A prefix of a part file, which is what a crash leaves, is one.
LEMMA PrefixInOrder ==
    ASSUME NEW s \in Seq(1..Size), InOrder(s), NEW r \in Seq(1..Size), IsPrefix(r, s)
    PROVE  InOrder(r)
<1>1. Len(r) \in Nat /\ Len(s) \in Nat /\ Len(r) <= Len(s)
    BY LenProperties DEF IsPrefix
<1>2. SubSeq(r, 1, Len(r)) = SubSeq(s, 1, Len(r))
    BY DEF IsPrefix
<1>3. \A k \in 1..Len(r) : r[k] = s[k]
    BY <1>1, <1>2
<1> QED
    BY SMTT(30), <1>1, <1>3, CountAssumption DEF InOrder

\* InOrder says that a part file is a prefix of the source.
LEMMA InOrderIsPrefix ==
    ASSUME NEW s \in Seq(1..Size), InOrder(s)
    PROVE  IsPrefix(s, Source)
<1>1. Source \in Seq(1..Size) /\ Len(Source) = Size /\ \A k \in 1..Size : Source[k] = k
    BY CountAssumption DEF Source
<1>2. Len(s) \in Nat /\ Len(s) <= Size /\ \A k \in 1..Len(s) : s[k] = Source[k]
    BY <1>1, LenProperties DEF InOrder
<1>3. SubSeq(s, 1, Len(s)) = SubSeq(Source, 1, Len(s))
    BY <1>1, <1>2, CountAssumption
<1> QED
    BY <1>1, <1>2, <1>3 DEF IsPrefix

--------------------------------------------------------------------------------
(***************************************************************************)
(* Steps                                                                   *)
(***************************************************************************)

\* A live object with a reply, whose callback clears it: driven by nothing until
\* the callback goes on.
LEMMA AnsweredObject ==
    ASSUME SessionInv, NEW a \in Objects, NEW call \in Calls, Answered(a, call)
    PROVE  /\ transfer[a] \in Transfer /\ Cleared(a) \in Transfer
           /\ transfer[a].started /\ ~transfer[a].paused /\ Current(a)
           /\ transfer[a].timers = {}
           /\ call \in {"requestdl", "file"} => transfer[a].index <= FileCount
           /\ call = "file"
              => transfer[a].next = Len(part[transfer[a].job][transfer[a].index]) + 1
<1>1. transfer[a] \in Transfer /\ ObjectOK(current, transfer, part, a)
    BY DEF SessionInv, Heaps, HeapOK
<1>2. Cleared(a) \in Transfer
    BY <1>1 DEF Cleared, Transfer
<1>3. transfer[a].reply = call /\ call # "none" /\ Live(current, transfer, a)
    BY DEF Answered, Current, Live, Calls
<1> QED
    BY <1>1, <1>2, <1>3
       DEF ObjectOK, Driver, Quiet, Aimed, InStep, Answered, Live

\* A handler that leaves the files alone and sets its object's next call or timer.
LEMMA QuietStep ==
    ASSUME SessionInv, NEW a \in Objects, NEW t \in Transfer,
           Current(a), transfer[a].started,
           t.job = transfer[a].job, ~t.paused, t.started,
           Driver(t), Aimed(t), t.reply # "file", Continue(a, t),
           known' \in [Jobs -> BOOLEAN], UNCHANGED <<part, final>>
    PROVE  SessionInv'
<1>1. InStep(t, part')
    BY DEF InStep
<1> QED
    BY <1>1, ContinueKeeps DEF SessionInv

\* A handler that ends the transfer.
LEMMA EndStep ==
    ASSUME SessionInv, NEW a \in Objects, NEW t \in Transfer,
           Current(a), t.job = transfer[a].job, Ends(a, t), UNCHANGED <<known, part, final>>
    PROVE  SessionInv'
BY EndsKeeps DEF SessionInv

\* downloadNext asks for a file of the torrent or ends the transfer.
LEMMA DownloadNextStep ==
    ASSUME SessionInv, NEW a \in Objects, NEW t \in Transfer,
           Current(a), transfer[a].started,
           t.job = transfer[a].job, ~t.paused, t.started, t.timers = {},
           DownloadNext(a, t), UNCHANGED <<known, part, final>>
    PROVE  SessionInv'
<1> DEFINE i == NextFile(t.job, t.index)
<1>1. t.job \in Jobs /\ t.index \in 1..(FileCount + 1)
    BY DEF Transfer
<1>2. i \in t.index..(FileCount + 1)
    BY <1>1, NextFileFound
<1>3. i \in 1..(FileCount + 1)
    BY <1>1, <1>2, CountAssumption
<1> HIDE DEF i
<1>4. CASE i <= FileCount
    <2> DEFINE v == [t EXCEPT !.index = i, !.reply = "requestdl"]
    <2>1. /\ v \in Transfer /\ v.job = t.job /\ v.paused = t.paused
          /\ v.started = t.started /\ v.reply = "requestdl" /\ v.timers = {}
          /\ v.index = i
        BY <1>3 DEF Transfer, Calls
    <2>2. Continue(a, v)
        BY <1>4 DEF DownloadNext, i
    <2> HIDE DEF v
    <2>3. Driver(v) /\ Aimed(v)
        BY <1>4, <2>1 DEF Driver, Aimed
    <2>4. known' \in [Jobs -> BOOLEAN]
        BY DEF SessionInv
    <2> QED
        BY <2>1, <2>2, <2>3, <2>4, QuietStep
<1>5. CASE ~(i <= FileCount)
    <2> DEFINE v == [t EXCEPT !.index = i]
    <2>1. v \in Transfer /\ v.job = t.job
        BY <1>3 DEF Transfer
    <2>2. Ends(a, v)
        BY <1>5 DEF DownloadNext, i
    <2> HIDE DEF v
    <2> QED
        BY <2>1, <2>2, EndStep
<1> QED
    BY <1>4, <1>5

\* finishFile: the part, which is complete, becomes the file.
LEMMA FinishFileStep ==
    ASSUME SessionInv, NEW a \in Objects, NEW t \in Transfer,
           Current(a), transfer[a].started,
           t.job = transfer[a].job, ~t.paused, t.started, t.timers = {},
           t.index \in Files, Len(part[t.job][t.index]) = Size,
           FinishFile(a, t), UNCHANGED known
    PROVE  SessionInv'
<1> DEFINE v == [t EXCEPT !.reply = "none", !.index = @ + 1, !.timers = @ \cup {"next"}]
           j == t.job
           f == t.index
<1>1. j \in Jobs /\ f + 1 \in 1..(FileCount + 1)
    BY CountAssumption DEF Transfer, Files
<1>2. /\ v \in Transfer /\ v.job = j /\ v.paused = t.paused /\ v.started = t.started
      /\ v.reply = "none" /\ v.timers = {"next"}
    BY <1>1 DEF Transfer, Calls, Timers
<1>3. /\ Continue(a, v)
      /\ final' = [final EXCEPT ![j][f] = part[j][f]]
      /\ part' = [part EXCEPT ![j][f] = <<>>]
    BY DEF FinishFile
<1>4. PartsOK(part) /\ FinalsOK(final)
    BY DEF SessionInv
<1> HIDE DEF v
<1>5. Driver(v) /\ Aimed(v) /\ InStep(v, part')
    BY <1>2 DEF Driver, Aimed, InStep, Timers
<1>6. <<>> \in Seq(1..Size) /\ InOrder(<<>>)
    BY CountAssumption, EmptySeq DEF InOrder
<1>7. part[j][f] \in Seq(1..Size) /\ InOrder(part[j][f])
    BY <1>1, <1>4 DEF PartsOK
<1>8. part[j][f] = Source
    BY <1>7, CompleteIsSource
<1> HIDE DEF j, f
<1>9. FinalsOK(final')
    BY <1>1, <1>3, <1>4, <1>8 DEF FinalsOK, Files
<1>10. PartsOK(part')
    BY <1>1, <1>3, <1>4, <1>6 DEF PartsOK, Files
<1>11. \A k \in Jobs : k # v.job => part'[k] = part[k]
    BY <1>2, <1>3, <1>4 DEF PartsOK
<1>12. v.job = transfer[a].job /\ ~v.paused /\ v.started
    BY <1>2 DEF j
<1> QED
    BY <1>2, <1>3, <1>5, <1>9, <1>10, <1>11, <1>12, ContinueKeeps DEF SessionInv

\* Replies of the API.
LEMMA ApiReplyKeeps ==
    ASSUME SessionInv, NEW a \in Objects,
           \/ TorrentCreated(a) \/ StillFetching(a) \/ FilesReady(a)
           \/ \E call \in Calls : Busy(a, call) \/ Refused(a, call)
    PROVE  SessionInv'
<1>1. ASSUME NEW t \in Transfer, NEW r \in Calls \cup {"none"}
      PROVE  /\ [t EXCEPT !.reply = r] \in Transfer
             /\ [t EXCEPT !.reply = r].job = t.job
             /\ [t EXCEPT !.reply = r].paused = t.paused
             /\ [t EXCEPT !.reply = r].started = t.started
             /\ [t EXCEPT !.reply = r].timers = t.timers
             /\ [t EXCEPT !.reply = r].index = t.index
             /\ [t EXCEPT !.reply = r].reply = r
    BY <1>1 DEF Transfer
<1>2. ASSUME NEW call \in Calls, Answered(a, call)
      PROVE  /\ transfer[a] \in Transfer /\ Current(a)
             /\ transfer[a].started /\ ~transfer[a].paused
             /\ Cleared(a) \in Transfer /\ Cleared(a).job = transfer[a].job
             /\ ~Cleared(a).paused /\ Cleared(a).started /\ Cleared(a).timers = {}
             /\ Cleared(a).index = transfer[a].index /\ Cleared(a).reply = "none"
    BY <1>1, <1>2, AnsweredObject DEF Cleared
<1>3. known \in [Jobs -> BOOLEAN]
    BY DEF SessionInv
<1>4. CASE TorrentCreated(a)
    <2> DEFINE t == [Cleared(a) EXCEPT !.remote = TRUE, !.reply = "mylist"]
    <2>1. Answered(a, "create") /\ "create" \in Calls
        BY <1>4 DEF TorrentCreated, Calls
    <2>2. /\ t \in Transfer /\ t.job = transfer[a].job /\ ~t.paused /\ t.started
          /\ t.timers = {} /\ t.reply = "mylist"
        BY <1>2, <2>1 DEF Transfer, Calls
    <2>3. Continue(a, t) /\ UNCHANGED <<part, final>> /\ known' \in [Jobs -> BOOLEAN]
        BY <1>3, <1>4 DEF TorrentCreated
    <2> HIDE DEF t
    <2>4. Driver(t) /\ Aimed(t)
        BY <2>2 DEF Driver, Aimed
    <2> QED
        BY <1>2, <2>1, <2>2, <2>3, <2>4, QuietStep
<1>5. ASSUME NEW call \in Calls, Answered(a, call), call \in Timers,
             Continue(a, [Cleared(a) EXCEPT !.timers = @ \cup {call}]),
             UNCHANGED <<known, part, final>>
      PROVE  SessionInv'
    <2> DEFINE t == [Cleared(a) EXCEPT !.timers = @ \cup {call}]
    <2>1. /\ t \in Transfer /\ t.job = transfer[a].job /\ ~t.paused /\ t.started
          /\ t.timers = {call} /\ t.reply = "none" /\ t.index = transfer[a].index
        BY <1>2, <1>5 DEF Transfer
    <2>2. call = "requestdl" => transfer[a].index <= FileCount
        BY <1>5, AnsweredObject
    <2> HIDE DEF t
    <2>3. Driver(t) /\ Aimed(t)
        BY <1>5, <2>1, <2>2 DEF Driver, Aimed
    <2> QED
        BY <1>2, <1>3, <1>5, <2>1, <2>3, QuietStep DEF t
<1>6. CASE StillFetching(a)
    BY <1>5, <1>6 DEF StillFetching, Calls, Timers
<1>7. CASE FilesReady(a)
    <2>1. Answered(a, "mylist") /\ "mylist" \in Calls
        BY <1>7 DEF FilesReady, Calls
    <2> QED
        BY <1>2, <1>7, <2>1, DownloadNextStep DEF FilesReady
<1>8. ASSUME NEW call \in Calls, Busy(a, call)
      PROVE  SessionInv'
    BY <1>5, <1>8 DEF Busy, Timers
<1>9. ASSUME NEW call \in Calls, Refused(a, call)
      PROVE  SessionInv'
    BY <1>2, <1>9, EndStep DEF Refused
<1> QED
    BY <1>4, <1>6, <1>7, <1>8, <1>9

\* The reply that carries a file, and the link it is asked from.
LEMMA FileReplyKeeps ==
    ASSUME SessionInv, NEW a \in Objects,
           \/ LinkGiven(a) \/ RangeServed(a) \/ RangeIgnored(a)
           \/ ChunkArrives(a) \/ FileReceived(a)
    PROVE  SessionInv'
<1> DEFINE t == transfer[a]
           j == t.job
           f == t.index
<1>1. PICK call \in {"requestdl", "file"} : Answered(a, call)
    BY DEF LinkGiven, RangeServed, RangeIgnored, ChunkArrives, FileReceived
<1>2. /\ t \in Transfer /\ Current(a) /\ t.started /\ ~t.paused /\ t.timers = {}
      /\ f <= FileCount /\ j \in Jobs /\ t.reply = call
      /\ call = "file" => t.next = Len(part[j][f]) + 1
    <2>1. call \in Calls
        BY <1>1 DEF Calls
    <2> QED
        BY <1>1, <2>1, AnsweredObject DEF Transfer, Answered
<1>3. f \in Files /\ 1 \in 1..(Size + 1)
    BY <1>2, CountAssumption DEF Transfer, Files
<1>4. /\ PartsOK(part) /\ FinalsOK(final) /\ known \in [Jobs -> BOOLEAN]
      /\ part[j][f] \in Seq(1..Size) /\ InOrder(part[j][f])
    BY <1>2, <1>3 DEF SessionInv, PartsOK
<1>5. Len(part[j][f]) \in 0..Size
    BY <1>4, LenProperties, CountAssumption DEF InOrder
<1>n. \A n \in 0..Size : /\ n + 1 \in 1..(Size + 1)
                         /\ n < Size => n + 1 \in 1..Size /\ n + 1 + 1 \in 1..(Size + 1)
    BY CountAssumption
<1>6. <<>> \in Seq(1..Size) /\ InOrder(<<>>) /\ Len(<<>>) = 0
    BY CountAssumption, EmptySeq DEF InOrder
<1>7. ASSUME NEW v \in Transfer, v.job = j, v.index = f, v.paused = t.paused,
             v.started = t.started, v.timers = {}, v.reply = "file",
             NEW s \in Seq(1..Size), InOrder(s), v.next = Len(s) + 1,
             part' = [part EXCEPT ![j][f] = s],
             Continue(a, v), UNCHANGED <<known, final>>
      PROVE  SessionInv'
    <2>1. Driver(v) /\ Aimed(v)
        BY <1>2, <1>7 DEF Driver, Aimed
    <2>2. PartsOK(part') /\ part'[j][f] = s /\ \A k \in Jobs : k # j => part'[k] = part[k]
        BY <1>2, <1>3, <1>4, <1>7 DEF PartsOK, Files
    <2>3. InStep(v, part')
        BY <1>7, <2>2 DEF InStep
    <2> QED
        BY <1>2, <1>4, <1>7, <2>1, <2>2, <2>3, ContinueKeeps DEF SessionInv
<1>8. part = [part EXCEPT ![j][f] = part[j][f]]
    BY <1>2, <1>3, <1>4 DEF PartsOK, Files
<1>9. CASE LinkGiven(a)
    <2>1. /\ Cleared(a) \in Transfer /\ Cleared(a).job = j /\ Cleared(a).index = f
          /\ Cleared(a).paused = t.paused /\ Cleared(a).started = t.started
          /\ Cleared(a).timers = {}
        BY <1>2 DEF Cleared, Transfer, Calls
    <2>2. CASE Len(part[j][f]) = Size
        <3>1. FinishFile(a, Cleared(a)) /\ UNCHANGED known
            BY <1>9, <2>1, <2>2 DEF LinkGiven
        <3> QED
            BY <1>2, <1>3, <2>1, <2>2, <3>1, FinishFileStep
    <2>3. CASE Len(part[j][f]) # Size
        <3> DEFINE v == [ Cleared(a) EXCEPT !.reply = "file", !.headers = FALSE,
                                            !.next = Len(part[j][f]) + 1 ]
        <3>1. Continue(a, v) /\ UNCHANGED <<known, part, final>>
            BY <1>9, <2>1, <2>3 DEF LinkGiven
        <3>2. Len(part[j][f]) + 1 \in 1..(Size + 1)
            BY <1>5, <1>n
        <3>3. /\ v \in Transfer /\ v.job = j /\ v.index = f /\ v.paused = t.paused
              /\ v.started = t.started /\ v.timers = {} /\ v.reply = "file"
              /\ v.next = Len(part[j][f]) + 1
            BY <2>1, <3>2 DEF Transfer, Calls
        <3> HIDE DEF v, j, f
        <3> QED
            BY <1>4, <1>7, <1>8, <3>1, <3>3
    <2> QED
        BY <2>2, <2>3
<1>10. CASE RangeServed(a)
    <2> DEFINE v == [t EXCEPT !.headers = TRUE]
    <2>1. Continue(a, v) /\ UNCHANGED <<known, part, final>> /\ t.reply = "file"
        BY <1>10 DEF RangeServed, Answered
    <2>2. /\ v \in Transfer /\ v.job = j /\ v.index = f /\ v.paused = t.paused
          /\ v.started = t.started /\ v.timers = {} /\ v.reply = "file"
          /\ v.next = Len(part[j][f]) + 1
        BY <1>2, <2>1 DEF Transfer
    <2> HIDE DEF v, j, f
    <2> QED
        BY <1>4, <1>7, <1>8, <2>1, <2>2
<1>11. CASE RangeIgnored(a)
    <2> DEFINE v == [t EXCEPT !.headers = TRUE, !.next = 1]
    <2>1. /\ Continue(a, v) /\ UNCHANGED <<known, final>> /\ t.reply = "file"
          /\ part' = [part EXCEPT ![j][f] = <<>>]
        BY <1>11 DEF RangeIgnored, Answered
    <2>2. /\ v \in Transfer /\ v.job = j /\ v.index = f /\ v.paused = t.paused
          /\ v.started = t.started /\ v.timers = {} /\ v.reply = "file"
          /\ v.next = 1
        BY <1>2, <1>3, <2>1 DEF Transfer
    <2>3. v.next = Len(<<>>) + 1
        BY <1>6, <2>2
    <2> HIDE DEF v, j, f
    <2> QED
        BY <1>6, <1>7, <2>1, <2>2, <2>3
<1>12. CASE ChunkArrives(a)
    <2>1. CASE Len(part[j][f]) < Size
        <3> DEFINE v == [t EXCEPT !.next = @ + 1]
                   s == Append(part[j][f], Len(part[j][f]) + 1)
        <3>1. /\ Continue(a, v) /\ UNCHANGED <<known, final>> /\ t.reply = "file"
              /\ part' = [part EXCEPT ![j][f] = Append(part[j][f], t.next)]
            BY <1>12, <2>1 DEF ChunkArrives, Answered
        <3>2. t.next = Len(part[j][f]) + 1
            BY <1>2, <3>1
        <3>3. t.next + 1 \in 1..(Size + 1) /\ t.next \in 1..Size
            BY <1>5, <1>n, <2>1, <3>2
        <3>4. /\ v \in Transfer /\ v.job = j /\ v.index = f /\ v.paused = t.paused
              /\ v.started = t.started /\ v.timers = {} /\ v.reply = "file"
              /\ v.next = Len(part[j][f]) + 1 + 1
            BY <1>2, <3>1, <3>2, <3>3 DEF Transfer
        <3>5. s \in Seq(1..Size) /\ InOrder(s) /\ Len(s) = Len(part[j][f]) + 1
            BY <1>4, <1>5, <2>1, <3>2, <3>3, AppendInOrder, AppendProperties
        <3>6. part' = [part EXCEPT ![j][f] = s]
            BY <3>1, <3>2
        <3>7. v.next = Len(s) + 1
            BY <3>4, <3>5
        <3> HIDE DEF v, s, j, f
        <3> QED
            BY <1>7, <3>1, <3>4, <3>5, <3>6, <3>7
    <2>2. CASE ~(Len(part[j][f]) < Size)
        <3>1. Ends(a, t) /\ UNCHANGED <<known, part, final>>
            BY <1>12, <2>2 DEF ChunkArrives
        <3> QED
            BY <1>2, <3>1, EndStep
    <2> QED
        BY <2>1, <2>2
<1>13. CASE FileReceived(a)
    <2>1. FinishFile(a, t) /\ Len(part[j][f]) = Size /\ UNCHANGED known
        BY <1>13 DEF FileReceived
    <2> QED
        BY <1>2, <1>3, <2>1, FinishFileStep
<1> QED
    BY <1>9, <1>10, <1>11, <1>12, <1>13

\* Timers, of live and of stale objects.
LEMMA TimerKeeps ==
    ASSUME SessionInv, NEW a \in Objects, NEW timer \in Timers, TimerFires(a, timer)
    PROVE  SessionInv'
<1> DEFINE t == [transfer[a] EXCEPT !.timers = @ \ {timer}]
<1>1. /\ transfer[a] \in Transfer /\ ObjectOK(current, transfer, part, a)
      /\ timer \in transfer[a].timers /\ UNCHANGED <<known, part, final>>
    BY DEF SessionInv, Heaps, HeapOK, TimerFires
<1>2. /\ t \in Transfer /\ t.job = transfer[a].job /\ t.paused = transfer[a].paused
      /\ t.started = transfer[a].started /\ t.reply = transfer[a].reply
      /\ t.timers = transfer[a].timers \ {timer} /\ t.index = transfer[a].index
    BY <1>1 DEF Transfer
<1>3. CASE ~Current(a)
    <2>1. Continue(a, t)
        BY <1>3 DEF TimerFires
    <2>2. /\ current \in Maps /\ transfer \in Heaps /\ Owned(current, transfer)
          /\ HeapOK(current, transfer, part)
        BY DEF SessionInv
    <2> HIDE DEF t
    <2>3. [transfer EXCEPT ![a] = t][a] = t
        BY <2>2 DEF Heaps
    <2>4. ObjectOK(current, [transfer EXCEPT ![a] = t], part, a)
        BY <1>1, <1>2, <1>3, <2>3 DEF ObjectOK, Live, Current
    <2>5. /\ [transfer EXCEPT ![a] = t] \in Heaps
          /\ Owned(current, [transfer EXCEPT ![a] = t])
          /\ HeapOK(current, [transfer EXCEPT ![a] = t], part)
        BY <1>2, <2>2, <2>4, ReplacedKeeps
    <2>6. /\ transfer' \in Heaps /\ Owned(current, transfer')
          /\ HeapOK(current, transfer', part) /\ UNCHANGED <<slots, current, pumpDue>>
        BY <2>1, <2>2, <2>5, CollectedKeeps DEF Continue
    <2> QED
        BY <1>1, <2>6 DEF SessionInv
<1>4. CASE Current(a)
    <2>1. /\ transfer[a].started /\ transfer[a].reply = "none"
          /\ t.timers = {} /\ Aimed(transfer[a])
        BY <1>1, <1>2, <1>4 DEF ObjectOK, Driver, Quiet, Live, Current
    <2>2. ~t.paused /\ t.started
        BY <1>2, <1>4, <2>1 DEF Current
    <2>3. CASE timer = "next"
        <3>1. DownloadNext(a, t)
            BY <1>4, <2>3 DEF TimerFires
        <3> HIDE DEF t
        <3> QED
            BY <1>1, <1>2, <1>4, <2>1, <2>2, <3>1, DownloadNextStep
    <2>4. CASE timer # "next"
        <3> DEFINE v == [t EXCEPT !.reply = timer]
        <3>1. Continue(a, v)
            BY <1>4, <2>4 DEF TimerFires
        <3>2. timer \in Calls /\ timer # "file" /\ timer # "none"
            BY <2>4 DEF Timers, Calls
        <3> HIDE DEF t
        <3>3. /\ v \in Transfer /\ v.job = t.job /\ v.paused = t.paused
              /\ v.started = t.started /\ v.reply = timer /\ v.timers = t.timers
              /\ v.index = t.index
            BY <1>2, <3>2 DEF Transfer
        <3> HIDE DEF v
        <3>4. Driver(v) /\ Aimed(v)
            BY <1>1, <1>2, <2>1, <3>2, <3>3 DEF Driver, Aimed
        <3>5. known' \in [Jobs -> BOOLEAN]
            BY <1>1 DEF SessionInv
        <3> QED
            BY <1>1, <1>2, <1>4, <2>1, <2>2, <3>1, <3>2, <3>3, <3>4, <3>5, QuietStep
    <2> QED
        BY <2>3, <2>4
<1> QED
    BY <1>3, <1>4

\* addJob: the new object is one that nobody holds.
LEMMA AddJobKeeps ==
    ASSUME SessionInv, NEW j \in Jobs, NEW usable \in BOOLEAN, AddJob(j, usable)
    PROVE  SessionInv'
<1>1. PICK a \in Objects :
        /\ ~Held(current, transfer, a)
        /\ current' = [current EXCEPT ![j] = a]
        /\ transfer' = Collected(current',
                         [transfer EXCEPT ![a] = NewTransfer(j, usable, known[j])])
    BY DEF AddJob
<1> DEFINE t == NewTransfer(j, usable, known[j])
           c == [current EXCEPT ![j] = a]
           u == [transfer EXCEPT ![a] = t]
<1>2. /\ current \in Maps /\ transfer \in Heaps /\ Owned(current, transfer)
      /\ HeapOK(current, transfer, part)
    BY DEF SessionInv
<1>3. t \in Transfer /\ t.job = j /\ t.reply = "none" /\ t.timers = {} /\ ~t.started
    <2>1. known[j] \in BOOLEAN
        BY DEF SessionInv
    <2> QED
        BY <2>1, NewTransferType DEF NewTransfer
<1>4. c \in Maps /\ u \in Heaps
    BY <1>2, <1>3 DEF Maps, Heaps
<1>5. /\ c[j] = a /\ \A k \in Jobs : k # j => c[k] = current[k]
      /\ u[a] = t /\ \A b \in Objects : b # a => u[b] = transfer[b]
    BY <1>2 DEF Maps, Heaps
<1>6. \A k \in Jobs : current[k] # a
    BY <1>1, <1>2, NoObject DEF Owned, Held
<1> HIDE DEF t, c, u
<1>7. Owned(c, u)
    BY <1>2, <1>3, <1>5, <1>6 DEF Owned, Maps
<1>8. ASSUME NEW b \in Objects
      PROVE  ObjectOK(c, u, part, b)
    <2>1. CASE b = a
        BY <1>3, <1>5, <2>1 DEF ObjectOK, Quiet, Aimed, InStep
    <2>2. CASE b # a
        <3>1. /\ u[b] = transfer[b] /\ ObjectOK(current, transfer, part, b)
              /\ transfer[b].job \in Jobs
            BY <1>2, <1>5, <2>2 DEF HeapOK, Heaps, Transfer
        <3>2. CASE transfer[b].job = j /\ current[j] = b
            <4>1. transfer[b].paused
                BY <3>2, NoObject DEF AddJob
            <4> QED
                BY <1>5, <2>2, <3>1, <3>2, <4>1 DEF ObjectOK, Live
        <3>3. CASE ~(transfer[b].job = j /\ current[j] = b)
            BY <1>5, <2>2, <3>1, <3>3 DEF ObjectOK, Live
        <3> QED
            BY <3>2, <3>3
    <2> QED
        BY <2>1, <2>2
<1>9. /\ current' = c /\ transfer' = Collected(c, u) /\ pumpDue' = TRUE
      /\ UNCHANGED <<slots, known, part, final>>
    BY <1>1 DEF AddJob, c, u, t
<1> QED
    BY <1>4, <1>7, <1>8, <1>9, CollectedKeeps DEF SessionInv, HeapOK

\* A call that stops the object of one job, dropped from the map (cancel) or
\* paused, and pumps.
LEMMA StopAndPump ==
    ASSUME SessionInv, NEW j \in Jobs, current[j] # 0,
           NEW c \in Maps, NEW t \in Transfer,
           t.job = j, t.reply = "none",
           \A k \in Jobs : k # j => c[k] = current[k],
           c[j] = 0 \/ (c[j] = current[j] /\ t.paused),
           Pump(c, [transfer EXCEPT ![current[j]] = t], slots, pumpDue),
           UNCHANGED <<slots, known, part, final>>
    PROVE  SessionInv'
<1> DEFINE a == current[j]
           u == [transfer EXCEPT ![a] = t]
<1>1. /\ current \in Maps /\ transfer \in Heaps /\ Owned(current, transfer)
      /\ HeapOK(current, transfer, part) /\ pumpDue \in BOOLEAN
    BY DEF SessionInv
<1>2. a \in Objects /\ transfer[a].job = j
    BY <1>1 DEF Maps, Owned
<1>3. u \in Heaps /\ u[a] = t /\ \A b \in Objects : b # a => u[b] = transfer[b]
    BY <1>1, <1>2 DEF Heaps
<1> HIDE DEF u
<1>4. Owned(c, u)
    <2> SUFFICES ASSUME NEW k \in Jobs, c[k] # 0
                 PROVE  u[c[k]].job = k
        BY DEF Owned
    <2>1. c[k] = current[k]
        OBVIOUS
    <2>2. current[k] \in Objects /\ transfer[current[k]].job = k
        BY <1>1, <2>1 DEF Maps, Owned
    <2> QED
        BY <1>2, <1>3, <2>1, <2>2
<1>5. ASSUME NEW b \in Objects
      PROVE  ObjectOK(c, u, part, b)
    <2>1. CASE b = a
        <3>1. ~Live(c, u, b)
            BY <1>2, <1>3, <2>1, NoObject DEF Live
        <3> QED
            BY <1>3, <2>1, <3>1 DEF ObjectOK
    <2>2. CASE b # a
        <3>1. /\ u[b] = transfer[b] /\ ObjectOK(current, transfer, part, b)
              /\ transfer[b].job \in Jobs
            BY <1>1, <1>3, <2>2 DEF HeapOK, Heaps, Transfer
        <3>2. c[transfer[b].job] = b <=> current[transfer[b].job] = b
            BY <2>2, <3>1, NoObject
        <3> QED
            BY <3>1, <3>2 DEF ObjectOK, Live
    <2> QED
        BY <2>1, <2>2
<1>6. HeapOK(c, u, part)
    BY <1>5 DEF HeapOK
<1>7. Pump(c, u, slots, pumpDue)
    BY DEF u
<1>8. /\ current' \in Maps /\ transfer' \in Heaps /\ pumpDue' \in BOOLEAN
      /\ Owned(current', transfer') /\ HeapOK(current', transfer', part)
    BY <1>1, <1>3, <1>4, <1>6, <1>7, PumpKeeps
<1> QED
    BY <1>8 DEF SessionInv

\* The other calls of the orchestrator.
LEMMA CallKeeps ==
    ASSUME SessionInv, NEW j \in Jobs, Cancel(j) \/ Pause(j)
    PROVE  SessionInv'
<1>1. /\ current \in Maps /\ transfer \in Heaps /\ Owned(current, transfer)
      /\ current[j] # 0 /\ current[j] \in Objects
    BY DEF SessionInv, Maps, Cancel, Pause
<1>2. transfer[current[j]] \in Transfer /\ transfer[current[j]].job = j
    BY <1>1 DEF Heaps, Owned
<1>3. CASE Cancel(j)
    <2> DEFINE t == Stopped(transfer[current[j]])
               c == [current EXCEPT ![j] = 0]
    <2>1. t \in Transfer /\ t.job = j /\ t.reply = "none"
        BY <1>2 DEF Stopped, Transfer
    <2>2. c \in Maps /\ c[j] = 0 /\ \A k \in Jobs : k # j => c[k] = current[k]
        BY <1>1 DEF Maps
    <2>3. /\ Pump(c, [transfer EXCEPT ![current[j]] = t], slots, pumpDue)
          /\ UNCHANGED <<slots, known, part, final>>
        BY <1>3 DEF Cancel
    <2> HIDE DEF t, c
    <2>4. c[j] = 0 \/ (c[j] = current[j] /\ t.paused)
        BY <2>2
    <2>5. \A k \in Jobs : k # j => c[k] = current[k]
        BY <2>2
    <2>6. c \in Maps
        BY <2>2
    <2> QED
        BY <1>1, <2>1, <2>3, <2>4, <2>5, <2>6, StopAndPump
<1>4. CASE Pause(j)
    <2> DEFINE t == [Stopped(transfer[current[j]]) EXCEPT !.paused = TRUE, !.started = FALSE]
    <2>1. t \in Transfer /\ t.job = j /\ t.reply = "none" /\ t.paused
        BY <1>2 DEF Stopped, Transfer
    <2>2. /\ Pump(current, [transfer EXCEPT ![current[j]] = t], slots, pumpDue)
          /\ UNCHANGED <<slots, known, part, final>>
        BY <1>4 DEF Pause
    <2> HIDE DEF t
    <2> QED
        BY <1>1, <2>1, <2>2, StopAndPump
<1> QED
    BY <1>3, <1>4

\* A crash frees every object and cuts part files, never the finished ones.
LEMMA CrashKeeps ==
    ASSUME SessionInv, Crash
    PROVE  SessionInv'
<1>1. current' \in Maps /\ transfer' \in Heaps /\ pumpDue' \in BOOLEAN
    BY UnusedType DEF Crash, Maps, Heaps
<1>2. Owned(current', transfer')
    BY DEF Crash, Owned
<1>3. HeapOK(current', transfer', part')
    <2> SUFFICES ASSUME NEW a \in Objects
                 PROVE  ObjectOK(current', transfer', part', a)
        BY DEF HeapOK
    <2>1. transfer'[a] = Unused /\ Unused.job \in Jobs /\ Unused.reply = "none"
        BY JobsAssumption DEF Crash, Unused, NewTransfer
    <2>2. current'[Unused.job] # a
        BY <2>1, NoObject DEF Crash
    <2> QED
        BY <2>1, <2>2 DEF ObjectOK, Live
<1>4. PartsOK(part')
    <2>1. PartsOK(part)
        BY DEF SessionInv
    <2> DEFINE cut == UNION {Prefixes(part[j][f]) : j \in Jobs, f \in Files}
    <2>2. cut \subseteq Seq(1..Size)
        <3>1. ASSUME NEW j \in Jobs, NEW f \in Files
              PROVE  Prefixes(part[j][f]) \subseteq Seq(1..Size)
            BY <2>1, PrefixesType DEF PartsOK
        <3> QED
            BY <3>1
    <2>3. part' \in [Jobs -> [Files -> cut]]
        BY DEF Crash
    <2> HIDE DEF cut
    <2>4. ASSUME NEW j \in Jobs, NEW f \in Files
          PROVE  part'[j][f] \in Seq(1..Size) /\ InOrder(part'[j][f])
        <3>1. part[j][f] \in Seq(1..Size) /\ InOrder(part[j][f])
            BY <2>1 DEF PartsOK
        <3>2. part'[j][f] \in Seq(1..Size)
            BY <2>2, <2>3
        <3>3. IsPrefix(part'[j][f], part[j][f])
            BY DEF Crash
        <3> QED
            BY <3>1, <3>2, <3>3, PrefixInOrder
    <2> QED
        BY <2>3, <2>4 DEF PartsOK
<1>5. UNCHANGED <<slots, known, final>>
    BY DEF Crash
<1> QED
    BY <1>1, <1>2, <1>3, <1>4, <1>5 DEF SessionInv

--------------------------------------------------------------------------------
(***************************************************************************)
(* Theorems                                                                *)
(***************************************************************************)

\* SessionInv is inductive.
LEMMA SessionInductive ==
    ASSUME SessionInv, [Next]_vars
    PROVE  SessionInv'
<1>0. /\ current \in Maps /\ transfer \in Heaps /\ Owned(current, transfer)
      /\ HeapOK(current, transfer, part) /\ pumpDue \in BOOLEAN
    BY DEF SessionInv
<1>1. ASSUME NEW j \in Jobs, NEW usable \in BOOLEAN, AddJob(j, usable)
      PROVE  SessionInv'
    BY <1>1, AddJobKeeps
<1>2. ASSUME NEW j \in Jobs, Cancel(j) \/ Pause(j)
      PROVE  SessionInv'
    BY <1>2, CallKeeps
<1>3. ASSUME NEW j \in Jobs, ReplyHandled(j)
      PROVE  SessionInv'
    BY <1>3, ApiReplyKeeps, FileReplyKeeps DEF ReplyHandled, ObjectsOf
<1>4. ASSUME NEW j \in Jobs, TimerHandled(j)
      PROVE  SessionInv'
    BY <1>4, TimerKeeps DEF TimerHandled, ObjectsOf
<1>5. ASSUME NEW n \in 1..MaxSlots, Resize(n)
      PROVE  SessionInv'
    <2>1. /\ Pump(current, transfer, n, pumpDue) /\ slots' = n
          /\ UNCHANGED <<known, part, final>>
        BY <1>5 DEF Resize
    <2>2. /\ current' \in Maps /\ transfer' \in Heaps /\ pumpDue' \in BOOLEAN
          /\ Owned(current', transfer') /\ HeapOK(current', transfer', part)
        BY <1>0, <2>1, PumpKeeps
    <2> QED
        BY <2>1, <2>2 DEF SessionInv
<1>6. CASE PumpTimer
    <2>1. Pump(current, transfer, slots, FALSE) /\ UNCHANGED <<slots, known, part, final>>
        BY <1>6 DEF PumpTimer
    <2>2. /\ current' \in Maps /\ transfer' \in Heaps /\ pumpDue' \in BOOLEAN
          /\ Owned(current', transfer') /\ HeapOK(current', transfer', part)
        BY <1>0, <2>1, PumpKeeps
    <2> QED
        BY <2>1, <2>2 DEF SessionInv
<1>7. CASE Crash
    BY <1>7, CrashKeeps
<1>8. CASE UNCHANGED vars
    BY <1>8 DEF vars, SessionInv
<1> QED
    BY <1>1, <1>2, <1>3, <1>4, <1>5, <1>6, <1>7, <1>8 DEF Next

\* In every behaviour the objects, the map and the files agree: the invariant the
\* theorems below are read off.
THEOREM SessionCorrect == Spec => []SessionInv
<1>1. Init => SessionInv
    <2> SUFFICES ASSUME Init
                 PROVE  SessionInv
        OBVIOUS
    <2>1. /\ current \in Maps /\ transfer \in Heaps /\ pumpDue \in BOOLEAN
          /\ slots \in 1..MaxSlots /\ known \in [Jobs -> BOOLEAN]
        BY UnusedType DEF Init, Maps, Heaps
    <2>2. <<>> \in Seq(1..Size) /\ InOrder(<<>>)
        BY CountAssumption, EmptySeq DEF InOrder
    <2>3. PartsOK(part) /\ FinalsOK(final)
        BY <2>2 DEF Init, PartsOK, FinalsOK
    <2>4. Owned(current, transfer)
        BY DEF Init, Owned
    <2>5. ASSUME NEW a \in Objects
          PROVE  ObjectOK(current, transfer, part, a)
        <3>1. transfer[a] = Unused /\ Unused.job \in Jobs /\ Unused.reply = "none"
            BY JobsAssumption DEF Init, Unused, NewTransfer
        <3>2. current[Unused.job] # a
            BY <3>1, NoObject DEF Init
        <3> QED
            BY <3>1, <3>2 DEF ObjectOK, Live
    <2> QED
        BY <2>1, <2>3, <2>4, <2>5 DEF SessionInv, HeapOK
<1>2. SessionInv /\ [Next]_vars => SessionInv'
    BY SessionInductive
<1> QED
    BY <1>1, <1>2, PTL DEF Spec

\* Every variable keeps its type: among others, no transfer asks for a file behind
\* the last one or counts a chunk behind the end of its file.
THEOREM SessionTypeCorrect == Spec => []TypeOK
<1>1. SessionInv => TypeOK
    <2> SUFFICES ASSUME SessionInv
                 PROVE  TypeOK
        OBVIOUS
    <2>1. <<>> \in Seq(1..Size) /\ Source \in Seq(1..Size)
        BY CountAssumption DEF Source
    <2>2. final \in [Jobs -> [Files -> Seq(1..Size)]]
        <3> DEFINE Contents == Seq(1..Size)
        <3>1. final \in [Jobs -> [Files -> {<<>>, Source}]]
            BY DEF SessionInv, FinalsOK
        <3>2. {<<>>, Source} \subseteq Contents
            BY <2>1
        <3> HIDE DEF Contents
        <3>3. final \in [Jobs -> [Files -> Contents]]
            BY <3>1, <3>2
        <3> QED
            BY <3>3 DEF Contents
    <2>3. part \in [Jobs -> [Files -> Seq(1..Size)]]
        BY DEF SessionInv, PartsOK
    <2> QED
        BY <2>2, <2>3 DEF SessionInv, TypeOK, Maps, Heaps
<1> QED
    BY <1>1, SessionCorrect, PTL

\* However transfers are paused, cancelled, retried and lost in between, a live
\* transfer is driven by exactly one callback, a stale object has no reply left,
\* every part file is a prefix of its source, and every finished file is the
\* source: current, stop and the offset of downloadFile are enough.
THEOREM FilesIntactHolds == Spec => []FilesIntact
<1>1. SessionInv => FilesIntact
    <2> SUFFICES ASSUME SessionInv
                 PROVE  FilesIntact
        OBVIOUS
    <2>1. ASSUME NEW a \in Objects
          PROVE  LET t == transfer[a]
                 IN  IF current[t.job] = a /\ ~t.paused /\ t.started
                     THEN \/ t.reply # "none" /\ t.timers = {}
                          \/ t.reply = "none" /\ Cardinality(t.timers) = 1
                     ELSE t.reply = "none"
        <3>1. ObjectOK(current, transfer, part, a)
            BY DEF SessionInv, HeapOK
        <3>2. \A x : Cardinality({x}) = 1
            BY FS_Singleton
        <3> QED
            BY <3>1, <3>2 DEF ObjectOK, Live, Driver, Quiet
    <2>2. OneContinuation
        BY <2>1 DEF OneContinuation
    <2>3. ASSUME NEW j \in Jobs, NEW f \in Files
          PROVE  IsPrefix(part[j][f], Source) /\ final[j][f] \in {<<>>, Source}
        <3>1. part[j][f] \in Seq(1..Size) /\ InOrder(part[j][f])
            BY DEF SessionInv, PartsOK
        <3>2. final[j][f] \in {<<>>, Source}
            BY DEF SessionInv, FinalsOK
        <3> QED
            BY <3>1, <3>2, InOrderIsPrefix
    <2> QED
        BY <2>2, <2>3 DEF FilesIntact, Source
<1> QED
    BY <1>1, SessionCorrect, PTL

--------------------------------------------------------------------------------
(***************************************************************************)
(* The slots: no free slot and waiting transfer without a pump, and the    *)
(* session is the TorBoxTransport that JobOrchestrator counts on, for      *)
(* every set of jobs and any number of slots.                              *)
(***************************************************************************)

\* The stage TorBoxTransport sees a job's transfer in (the mapping of Transport).
Stage(cur, tr) ==
    [ j \in Jobs |-> IF cur[j] = 0 THEN "none"
                     ELSE IF tr[cur[j]].paused THEN "paused"
                     ELSE IF tr[cur[j]].started THEN "started"
                     ELSE "waiting" ]

\* The instance counts as the session does.
LEMMA SameCardinality == \A S : Transport!Cardinality(S) = Cardinality(S)
BY Zenon DEF Cardinality, Transport!Cardinality

\* The waiting and the started jobs of the session are those of the transport.
LEMMA StageSets ==
    ASSUME NEW cur, NEW tr
    PROVE  /\ WaitingIn(cur, tr) = Transport!Waiting(Stage(cur, tr))
           /\ ActiveIn(cur, tr) = Transport!Started(Stage(cur, tr))
<1>1. ASSUME NEW j \in Jobs
      PROVE  /\ cur[j] # 0 /\ ~tr[cur[j]].paused /\ ~tr[cur[j]].started
                <=> Stage(cur, tr)[j] = "waiting"
             /\ cur[j] # 0 /\ ~tr[cur[j]].paused /\ tr[cur[j]].started
                <=> Stage(cur, tr)[j] = "started"
    BY DEF Stage
<1> QED
    BY <1>1 DEF WaitingIn, ActiveIn, Transport!Waiting, Transport!Started

\* Every job in the map has an object of its own, so only finitely many of them
\* wait or are started, whatever the number of jobs.
LEMMA StagesFinite ==
    ASSUME NEW cur \in Maps, NEW tr \in Heaps, Owned(cur, tr)
    PROVE  IsFiniteSet(WaitingIn(cur, tr)) /\ IsFiniteSet(ActiveIn(cur, tr))
<1> DEFINE D == {j \in Jobs : cur[j] # 0}
           F == [j \in D |-> cur[j]]
<1>1. IsFiniteSet(Objects)
    BY FS_Interval, CountAssumption DEF Objects
<1>2. F \in [D -> Objects]
    BY DEF Maps
<1>3. \A i, j \in D : F[i] = F[j] => i = j
    BY DEF Owned
<1>4. F \in Injection(D, Objects)
    BY <1>2, <1>3 DEF Injection, IsInjective
<1> HIDE DEF F
<1>5. IsFiniteSet(D)
    BY <1>1, <1>4, FS_Injection
<1>6. WaitingIn(cur, tr) \in SUBSET D /\ ActiveIn(cur, tr) \in SUBSET D
    BY DEF WaitingIn, ActiveIn
<1> QED
    BY <1>5, <1>6, FS_Subset

\* Freeing objects changes no stage.
LEMMA CollectedStage ==
    ASSUME NEW cur \in Maps, NEW tr, Owned(cur, tr)
    PROVE  Stage(cur, Collected(cur, tr)) = Stage(cur, tr)
<1>1. \A j \in Jobs : cur[j] # 0 => Collected(cur, tr)[cur[j]] = tr[cur[j]]
    BY DEF Collected, Held, Owned, Maps
<1> QED
    BY <1>1 DEF Stage

\* pump is the transport's: it starts waiting transfers until the slots are full
\* or nobody waits, and when some fail on the spot another pump is on its way.
LEMMA PumpStages ==
    ASSUME NEW cur \in Maps, NEW tr \in Heaps, NEW n \in Nat, NEW due \in BOOLEAN,
           Owned(cur, tr), Pump(cur, tr, n, due)
    PROVE  \E go \in Transport!Fills(Stage(cur, tr), n) : \E bad \in SUBSET go :
             /\ Stage(current', transfer')
                = [ j \in Jobs |-> IF j \in bad THEN "none"
                                   ELSE IF j \in go THEN "started"
                                   ELSE Stage(cur, tr)[j] ]
             /\ pumpDue' = (due \/ bad # {})
<1> DEFINE begun(t) == [ t EXCEPT !.started = TRUE,
                         !.reply = IF ~t.usable THEN "none"
                                   ELSE IF t.remote THEN "mylist" ELSE "create" ]
<1>1. PICK go \in Admitted(cur, tr, n) :
        LET bad == {j \in go : ~tr[cur[j]].usable}
        IN  /\ current' = [j \in Jobs |-> IF j \in bad THEN 0 ELSE cur[j]]
            /\ transfer' = Collected(current',
                             [ a \in Objects |->
                                 IF \E j \in go : cur[j] = a THEN begun(tr[a])
                                                            ELSE tr[a] ])
            /\ pumpDue' = (due \/ bad # {})
    BY DEF Pump
<1> DEFINE bad == {j \in go : ~tr[cur[j]].usable}
           u == [ a \in Objects |-> IF \E j \in go : cur[j] = a THEN begun(tr[a])
                                                               ELSE tr[a] ]
           c == [j \in Jobs |-> IF j \in bad THEN 0 ELSE cur[j]]
<1>2. go \in Transport!Fills(Stage(cur, tr), n)
    <2> DEFINE W == WaitingIn(cur, tr)
               busy == Cardinality(ActiveIn(cur, tr))
    <2>1. /\ IsFiniteSet(W) /\ busy \in Nat /\ Cardinality(W) \in Nat
        BY StagesFinite, FS_CardinalityType
    <2>2. /\ go \in SUBSET W
          /\ Cardinality(go) = IF busy >= n THEN 0
                               ELSE IF busy + Cardinality(W) <= n
                               THEN Cardinality(W) ELSE n - busy
        BY DEF Admitted
    <2>3. /\ IsFiniteSet(go) /\ Cardinality(go) \in Nat
          /\ Cardinality(go) = 0 => go = {}
          /\ Cardinality(go) = Cardinality(W) => go = W
        BY <2>1, <2>2, FS_Subset, FS_EmptySet, FS_CardinalityType
    <2>4. W = Transport!Waiting(Stage(cur, tr))
          /\ busy = Cardinality(Transport!Started(Stage(cur, tr)))
        BY StageSets
    <2> HIDE DEF W, busy
    <2>5. IF busy >= n THEN go = {}
          ELSE \/ go = W /\ busy + Cardinality(go) <= n
               \/ busy + Cardinality(go) = n
        BY <2>1, <2>2, <2>3
    <2>6. go \in SUBSET Transport!Waiting(Stage(cur, tr))
        BY <2>2, <2>4
    <2>7. IF Cardinality(Transport!Started(Stage(cur, tr))) >= n THEN go = {}
          ELSE \/ /\ go = Transport!Waiting(Stage(cur, tr))
                  /\ Cardinality(Transport!Started(Stage(cur, tr))) + Cardinality(go) <= n
               \/ Cardinality(Transport!Started(Stage(cur, tr))) + Cardinality(go) = n
        BY <2>4, <2>5
    <2> QED
        BY <2>6, <2>7, SameCardinality DEF Transport!Fills
<1>3. /\ go \subseteq Jobs
      /\ \A j \in go : cur[j] \in Objects /\ ~tr[cur[j]].paused /\ ~tr[cur[j]].started
    BY DEF Admitted, WaitingIn, Maps
<1>4. \A t \in Transfer : /\ begun(t) \in Transfer /\ begun(t).job = t.job
                          /\ begun(t).paused = t.paused /\ begun(t).started
    <2>1. {"none", "mylist", "create"} \subseteq Calls \cup {"none"}
        BY DEF Calls
    <2> QED
        BY <2>1 DEF Transfer
<1>5. c \in Maps /\ u \in Heaps
    BY <1>4 DEF Maps, Heaps
<1> HIDE DEF begun
<1>6. Owned(c, u)
    BY <1>3, <1>4 DEF Owned, Maps, Heaps
<1>7. current' = c /\ transfer' = Collected(c, u)
    BY <1>1
<1>8. Stage(current', transfer') = Stage(c, u)
    <2> HIDE DEF c, u
    <2> QED
        BY <1>5, <1>6, <1>7, CollectedStage
<1>9. ASSUME NEW j \in Jobs
      PROVE  Stage(c, u)[j] = IF j \in bad THEN "none"
                              ELSE IF j \in go THEN "started"
                              ELSE Stage(cur, tr)[j]
    <2>1. CASE j \in bad
        BY <2>1 DEF Stage
    <2>2. CASE j \in go \ bad
        <3>1. c[j] = cur[j] /\ cur[j] \in Objects /\ tr[cur[j]] \in Transfer
            BY <1>3, <2>2 DEF Heaps
        <3>2. u[cur[j]] = begun(tr[cur[j]])
            BY <2>2, <3>1
        <3> HIDE DEF c, u
        <3> QED
            BY <1>3, <1>4, <2>2, <3>1, <3>2, NoObject DEF Stage
    <2>3. CASE j \notin go
        <3>1. c[j] = cur[j]
            BY <2>3
        <3>2. ASSUME cur[j] # 0
              PROVE  u[cur[j]] = tr[cur[j]]
            <4>1. \A k \in go : cur[k] # cur[j]
                BY <1>3, <2>3, <3>2 DEF Owned
            <4>2. cur[j] \in Objects
                BY <3>2 DEF Maps
            <4> QED
                BY <4>1, <4>2
        <3> HIDE DEF c, u
        <3> QED
            BY <2>3, <3>1, <3>2 DEF Stage
    <2> QED
        BY <2>1, <2>2, <2>3
<1>10. Stage(current', transfer')
       = [ j \in Jobs |-> IF j \in bad THEN "none"
                          ELSE IF j \in go THEN "started"
                          ELSE Stage(cur, tr)[j] ]
    <2>1. Stage(c, u) = [j \in Jobs |-> Stage(c, u)[j]]
        BY DEF Stage
    <2> HIDE DEF c, u
    <2> QED
        BY <1>8, <1>9, <2>1
<1> QED
    BY <1>1, <1>2, <1>10

--------------------------------------------------------------------------------
(***************************************************************************)
(* What each step does to the stages                                       *)
(***************************************************************************)

\* A handler that goes on changes no stage.
LEMMA ContinueStages ==
    ASSUME SessionInv, NEW a \in Objects, NEW t,
           t.job = transfer[a].job, t.paused = transfer[a].paused,
           t.started = transfer[a].started, Continue(a, t)
    PROVE  Stage(current', transfer') = Stage(current, transfer)
<1> DEFINE u == [transfer EXCEPT ![a] = t]
<1>1. current \in Maps /\ transfer \in Heaps /\ Owned(current, transfer)
    BY DEF SessionInv
<1>2. u[a] = t /\ \A b \in Objects : b # a => u[b] = transfer[b]
    BY <1>1 DEF Heaps
<1>3. current' = current /\ transfer' = Collected(current, u)
    BY DEF Continue
<1> HIDE DEF u
<1>4. Owned(current, u)
    BY <1>1, <1>2 DEF Owned, Maps
<1>5. Stage(current, u) = Stage(current, transfer)
    BY <1>1, <1>2 DEF Stage, Maps
<1> QED
    BY <1>1, <1>2, <1>3, <1>4, <1>5, CollectedStage

\* A transfer that ends leaves a slot; the other stages stay.
LEMMA EndStages ==
    ASSUME SessionInv, NEW a \in Objects, NEW t,
           Current(a), t.job = transfer[a].job, Ends(a, t)
    PROVE  Stage(current', transfer') = [Stage(current, transfer) EXCEPT ![t.job] = "none"]
<1> DEFINE c == [current EXCEPT ![t.job] = 0]
           u == [transfer EXCEPT ![a] = Stopped(t)]
<1>1. current \in Maps /\ transfer \in Heaps /\ Owned(current, transfer)
    BY DEF SessionInv
<1>2. t.job \in Jobs /\ current[t.job] = a
    BY <1>1 DEF Heaps, Transfer, Current
<1>3. c \in Maps /\ c[t.job] = 0 /\ \A j \in Jobs : j # t.job => c[j] = current[j]
    BY <1>1, <1>2 DEF Maps
<1>5. \A b \in Objects : b # a => u[b] = transfer[b]
    BY <1>1 DEF Heaps
<1>6. current' = c /\ transfer' = Collected(c, u)
    BY DEF Ends
<1> HIDE DEF c, u
<1>7. \A j \in Jobs : c[j] # 0 => c[j] = current[j] /\ c[j] # a /\ c[j] \in Objects
    BY <1>1, <1>2, <1>3, NoObject DEF Owned, Maps
<1>8. Owned(c, u)
    BY <1>1, <1>5, <1>7 DEF Owned
<1>9. ASSUME NEW j \in Jobs
      PROVE  Stage(c, u)[j] = IF j = t.job THEN "none" ELSE Stage(current, transfer)[j]
    <2>1. CASE j = t.job
        BY <1>3, <2>1 DEF Stage
    <2>2. CASE j # t.job
        BY <1>3, <1>5, <1>7, <2>2 DEF Stage
    <2> QED
        BY <2>1, <2>2
<1>10. Stage(c, u) = [Stage(current, transfer) EXCEPT ![t.job] = "none"]
    BY <1>9 DEF Stage
<1> QED
    BY <1>3, <1>5, <1>6, <1>8, <1>10, CollectedStage

\* addJob has the job wait.
LEMMA AddJobStages ==
    ASSUME SessionInv, NEW j \in Jobs, NEW usable \in BOOLEAN, AddJob(j, usable)
    PROVE  /\ Stage(current, transfer)[j] \in {"none", "paused"}
           /\ Stage(current', transfer')
              = [Stage(current, transfer) EXCEPT ![j] = "waiting"]
<1>1. PICK a \in Objects :
        /\ ~Held(current, transfer, a)
        /\ current' = [current EXCEPT ![j] = a]
        /\ transfer' = Collected(current',
                         [transfer EXCEPT ![a] = NewTransfer(j, usable, known[j])])
    BY DEF AddJob
<1> DEFINE t == NewTransfer(j, usable, known[j])
           c == [current EXCEPT ![j] = a]
           u == [transfer EXCEPT ![a] = t]
<1>2. current \in Maps /\ transfer \in Heaps /\ Owned(current, transfer)
    BY DEF SessionInv
<1>3. t \in Transfer /\ t.job = j /\ ~t.started /\ ~t.paused
    <2>1. known[j] \in BOOLEAN
        BY DEF SessionInv
    <2> QED
        BY <2>1, NewTransferType DEF NewTransfer
<1>4. c \in Maps /\ u \in Heaps
    BY <1>2, <1>3 DEF Maps, Heaps
<1>5. /\ c[j] = a /\ \A k \in Jobs : k # j => c[k] = current[k]
      /\ u[a] = t /\ \A b \in Objects : b # a => u[b] = transfer[b]
    BY <1>2 DEF Maps, Heaps
<1>6. \A k \in Jobs : current[k] # a
    BY <1>1, <1>2, NoObject DEF Owned, Held
<1>7. current' = c /\ transfer' = Collected(c, u)
    BY <1>1
<1> HIDE DEF t, c, u
<1>8. Owned(c, u)
    BY <1>2, <1>3, <1>5, <1>6 DEF Owned, Maps
<1>9. ASSUME NEW k \in Jobs
      PROVE  Stage(c, u)[k] = IF k = j THEN "waiting" ELSE Stage(current, transfer)[k]
    <2>1. CASE k = j
        BY <1>3, <1>5, <2>1, NoObject DEF Stage
    <2>2. CASE k # j
        BY <1>2, <1>5, <1>6, <2>2 DEF Stage, Maps
    <2> QED
        BY <2>1, <2>2
<1>10. Stage(c, u) = [Stage(current, transfer) EXCEPT ![j] = "waiting"]
    BY <1>9 DEF Stage
<1>11. Stage(current, transfer)[j] \in {"none", "paused"}
    BY DEF AddJob, Stage
<1> QED
    BY <1>4, <1>7, <1>8, <1>10, <1>11, CollectedStage

\* cancel and setPaused stop the object of a job and pump the rest: pump sees a
\* map in which that job has gone or is paused.
LEMMA CallStages ==
    ASSUME SessionInv, NEW j \in Jobs, Cancel(j) \/ Pause(j)
    PROVE  \E cur \in Maps, tr \in Heaps :
              /\ Owned(cur, tr) /\ Pump(cur, tr, slots, pumpDue)
              /\ \/ /\ Cancel(j)
                    /\ Stage(current, transfer)[j] # "none"
                    /\ Stage(cur, tr) = [Stage(current, transfer) EXCEPT ![j] = "none"]
                 \/ /\ Pause(j)
                    /\ Stage(current, transfer)[j] \in {"waiting", "started"}
                    /\ Stage(cur, tr) = [Stage(current, transfer) EXCEPT ![j] = "paused"]
<1>1. /\ current \in Maps /\ transfer \in Heaps /\ Owned(current, transfer)
      /\ current[j] # 0 /\ current[j] \in Objects
    BY DEF SessionInv, Maps, Cancel, Pause
<1>2. transfer[current[j]] \in Transfer /\ transfer[current[j]].job = j
    BY <1>1 DEF Heaps, Owned
<1>3. \A k \in Jobs : k # j /\ current[k] # 0
        => current[k] # current[j] /\ current[k] \in Objects
    BY <1>1 DEF Owned, Maps
<1>4. CASE Cancel(j)
    <2> DEFINE t == Stopped(transfer[current[j]])
               c == [current EXCEPT ![j] = 0]
               u == [transfer EXCEPT ![current[j]] = t]
    <2>1. t \in Transfer /\ t.job = j
        BY <1>2 DEF Stopped, Transfer
    <2>2. /\ c \in Maps /\ c[j] = 0 /\ \A k \in Jobs : k # j => c[k] = current[k]
          /\ u \in Heaps /\ \A b \in Objects : b # current[j] => u[b] = transfer[b]
        BY <1>1, <2>1 DEF Maps, Heaps
    <2>3. Pump(c, u, slots, pumpDue)
        BY <1>4 DEF Cancel
    <2> HIDE DEF t, c, u
    <2>4. Owned(c, u)
        BY <1>1, <1>3, <2>2 DEF Owned
    <2>5. Stage(c, u) = [Stage(current, transfer) EXCEPT ![j] = "none"]
        BY <1>3, <2>2 DEF Stage
    <2>6. Stage(current, transfer)[j] # "none"
        BY <1>1 DEF Stage
    <2> QED
        BY <1>4, <2>2, <2>3, <2>4, <2>5, <2>6
<1>5. CASE Pause(j)
    <2> DEFINE t == [Stopped(transfer[current[j]]) EXCEPT !.paused = TRUE, !.started = FALSE]
               u == [transfer EXCEPT ![current[j]] = t]
    <2>1. t \in Transfer /\ t.job = j /\ t.paused
        BY <1>2 DEF Stopped, Transfer
    <2>2. /\ u \in Heaps /\ u[current[j]] = t
          /\ \A b \in Objects : b # current[j] => u[b] = transfer[b]
        BY <1>1, <2>1 DEF Heaps
    <2>3. Pump(current, u, slots, pumpDue) /\ ~transfer[current[j]].paused
        BY <1>5 DEF Pause
    <2> HIDE DEF t, u
    <2>4. Owned(current, u)
        BY <1>1, <1>3, <2>1, <2>2 DEF Owned
    <2>5. Stage(current, u) = [Stage(current, transfer) EXCEPT ![j] = "paused"]
        <3>1. Stage(current, u)[j] = "paused"
            BY <1>1, <2>1, <2>2, NoObject DEF Stage
        <3>2. \A k \in Jobs : k # j => Stage(current, u)[k] = Stage(current, transfer)[k]
            BY <1>3, <2>2 DEF Stage
        <3> QED
            BY <3>1, <3>2 DEF Stage
    <2>6. Stage(current, transfer)[j] \in {"waiting", "started"}
        BY <1>1, <2>3 DEF Stage
    <2> QED
        BY <1>1, <1>5, <2>2, <2>3, <2>4, <2>5, <2>6
<1> QED
    BY <1>4, <1>5

--------------------------------------------------------------------------------
(***************************************************************************)
(* Replies and timers go on or end                                         *)
(***************************************************************************)

\* What a callback can do to its own job's stage.
GoesOnOrEnds(j) ==
    /\ UNCHANGED slots
    /\ \/ Stage(current', transfer') = Stage(current, transfer) /\ UNCHANGED pumpDue
       \/ /\ Stage(current, transfer)[j] = "started"
          /\ Stage(current', transfer') = [Stage(current, transfer) EXCEPT ![j] = "none"]
          /\ pumpDue'

\* A callback of a live, started object goes on or ends.
LEMMA LiveCallback ==
    ASSUME SessionInv, NEW a \in Objects, NEW t,
           Current(a), transfer[a].started, t.job = transfer[a].job,
           \/ Ends(a, t)
           \/ /\ t.paused = transfer[a].paused /\ t.started = transfer[a].started
              /\ Continue(a, t)
    PROVE  GoesOnOrEnds(t.job)
<1>1. t.job \in Jobs /\ current[t.job] = a /\ ~transfer[a].paused /\ a # 0
    BY NoObject DEF SessionInv, Heaps, Transfer, Current
<1>2. Stage(current, transfer)[t.job] = "started"
    BY <1>1 DEF Stage
<1>3. CASE Ends(a, t)
    BY <1>2, <1>3, EndStages DEF GoesOnOrEnds, Ends
<1>4. CASE /\ t.paused = transfer[a].paused /\ t.started = transfer[a].started
           /\ Continue(a, t)
    BY <1>4, ContinueStages DEF GoesOnOrEnds, Continue
<1> QED
    BY <1>3, <1>4

\* downloadNext goes on or ends.
LEMMA DownloadNextStages ==
    ASSUME SessionInv, NEW a \in Objects, NEW t \in Transfer,
           Current(a), transfer[a].started, t.job = transfer[a].job,
           t.paused = transfer[a].paused, t.started = transfer[a].started,
           DownloadNext(a, t)
    PROVE  GoesOnOrEnds(t.job)
<1> DEFINE i == NextFile(t.job, t.index)
           v == [t EXCEPT !.index = i, !.reply = "requestdl"]
           w == [t EXCEPT !.index = i]
<1>1. Continue(a, v) \/ Ends(a, w)
    BY DEF DownloadNext
<1> HIDE DEF i
<1>2. v.job = t.job /\ v.paused = t.paused /\ v.started = t.started /\ w.job = t.job
    BY DEF Transfer
<1> HIDE DEF v, w
<1>3. GoesOnOrEnds(v.job) \/ GoesOnOrEnds(w.job)
    BY <1>1, <1>2, LiveCallback
<1> QED
    BY <1>2, <1>3

\* So does every reply.
LEMMA ReplyStages ==
    ASSUME SessionInv, NEW j \in Jobs, ReplyHandled(j)
    PROVE  GoesOnOrEnds(j)
<1>1. PICK a \in Objects :
        /\ transfer[a].job = j
        /\ \/ TorrentCreated(a) \/ StillFetching(a) \/ FilesReady(a) \/ LinkGiven(a)
           \/ RangeServed(a) \/ RangeIgnored(a) \/ ChunkArrives(a) \/ FileReceived(a)
           \/ \E call \in Calls : Busy(a, call) \/ Refused(a, call)
    BY DEF ReplyHandled, ObjectsOf
<1> DEFINE t == transfer[a]
<1>2. PICK call \in Calls : Answered(a, call)
    BY <1>1 DEF TorrentCreated, StillFetching, FilesReady, LinkGiven, RangeServed,
                RangeIgnored, ChunkArrives, FileReceived, Busy, Refused, Calls
<1>3. t \in Transfer /\ Cleared(a) \in Transfer /\ t.started /\ Current(a)
    BY <1>2, AnsweredObject
<1>4. /\ Cleared(a).job = t.job /\ Cleared(a).paused = t.paused
      /\ Cleared(a).started = t.started
    BY <1>3 DEF Cleared, Transfer
<1>5. ASSUME NEW v, v.job = t.job,
             \/ Ends(a, v)
             \/ v.paused = t.paused /\ v.started = t.started /\ Continue(a, v)
      PROVE  GoesOnOrEnds(j)
    <2>1. GoesOnOrEnds(v.job)
        BY <1>3, <1>5, LiveCallback
    <2> QED
        BY <1>1, <1>5, <2>1
<1>6. ASSUME NEW v \in Transfer, v.job = t.job, v.paused = t.paused, v.started = t.started,
             FinishFile(a, v)
      PROVE  GoesOnOrEnds(j)
    <2> DEFINE w == [v EXCEPT !.reply = "none", !.index = @ + 1, !.timers = @ \cup {"next"}]
    <2>1. Continue(a, w)
        BY <1>6 DEF FinishFile
    <2>2. w.job = t.job /\ w.paused = t.paused /\ w.started = t.started
        BY <1>6 DEF Transfer
    <2> HIDE DEF w
    <2> QED
        BY <1>5, <2>1, <2>2
<1>7. CASE TorrentCreated(a)
    <2> DEFINE v == [Cleared(a) EXCEPT !.remote = TRUE, !.reply = "mylist"]
    <2>1. Continue(a, v)
        BY <1>7 DEF TorrentCreated
    <2>2. v.job = t.job /\ v.paused = t.paused /\ v.started = t.started
        BY <1>3, <1>4 DEF Transfer
    <2> HIDE DEF v
    <2> QED
        BY <1>5, <2>1, <2>2
<1>8. ASSUME NEW timer, Continue(a, [Cleared(a) EXCEPT !.timers = @ \cup {timer}])
      PROVE  GoesOnOrEnds(j)
    <2> DEFINE v == [Cleared(a) EXCEPT !.timers = @ \cup {timer}]
    <2>1. v.job = t.job /\ v.paused = t.paused /\ v.started = t.started
        BY <1>3, <1>4 DEF Transfer
    <2> HIDE DEF v
    <2> QED
        BY <1>5, <1>8, <2>1 DEF v
<1>9. CASE StillFetching(a)
    BY <1>8, <1>9 DEF StillFetching
<1>10. CASE FilesReady(a)
    <2>1. GoesOnOrEnds(Cleared(a).job)
        BY <1>3, <1>4, <1>10, DownloadNextStages DEF FilesReady
    <2> QED
        BY <1>1, <1>4, <2>1
<1>11. CASE LinkGiven(a)
    <2> DEFINE v == [ Cleared(a) EXCEPT !.reply = "file", !.headers = FALSE,
                      !.next = Len(part[Cleared(a).job][Cleared(a).index]) + 1 ]
    <2>1. FinishFile(a, Cleared(a)) \/ Continue(a, v)
        BY <1>11 DEF LinkGiven
    <2>2. v.job = t.job /\ v.paused = t.paused /\ v.started = t.started
        BY <1>3, <1>4 DEF Transfer
    <2> HIDE DEF v
    <2> QED
        BY <1>3, <1>4, <1>5, <1>6, <2>1, <2>2
<1>12. CASE RangeServed(a)
    <2> DEFINE v == [t EXCEPT !.headers = TRUE]
    <2>1. Continue(a, v) /\ v.job = t.job /\ v.paused = t.paused /\ v.started = t.started
        BY <1>3, <1>12 DEF RangeServed, Transfer
    <2> HIDE DEF v
    <2> QED
        BY <1>5, <2>1
<1>13. CASE RangeIgnored(a)
    <2> DEFINE v == [t EXCEPT !.headers = TRUE, !.next = 1]
    <2>1. Continue(a, v) /\ v.job = t.job /\ v.paused = t.paused /\ v.started = t.started
        BY <1>3, <1>13 DEF RangeIgnored, Transfer
    <2> HIDE DEF v
    <2> QED
        BY <1>5, <2>1
<1>14. CASE ChunkArrives(a)
    <2> DEFINE v == [t EXCEPT !.next = @ + 1]
    <2>1. Continue(a, v) \/ Ends(a, t)
        BY <1>14 DEF ChunkArrives
    <2>2. v.job = t.job /\ v.paused = t.paused /\ v.started = t.started
        BY <1>3 DEF Transfer
    <2> HIDE DEF v
    <2> QED
        BY <1>5, <2>1, <2>2
<1>15. CASE FileReceived(a)
    BY <1>3, <1>6, <1>15 DEF FileReceived
<1>16. ASSUME NEW c \in Calls, Busy(a, c) \/ Refused(a, c)
       PROVE  GoesOnOrEnds(j)
    <2>1. CASE Busy(a, c)
        BY <1>8, <2>1 DEF Busy
    <2>2. CASE Refused(a, c)
        BY <1>4, <1>5, <2>2 DEF Refused
    <2> QED
        BY <1>16, <2>1, <2>2
<1> QED
    BY <1>1, <1>7, <1>9, <1>10, <1>11, <1>12, <1>13, <1>14, <1>15, <1>16

\* And every timer, of a stale object too.
LEMMA TimerStages ==
    ASSUME SessionInv, NEW j \in Jobs, TimerHandled(j)
    PROVE  GoesOnOrEnds(j)
<1>1. PICK a \in Objects, timer \in Timers : transfer[a].job = j /\ TimerFires(a, timer)
    BY DEF TimerHandled, ObjectsOf
<1> DEFINE t == [transfer[a] EXCEPT !.timers = @ \ {timer}]
<1>2. /\ transfer[a] \in Transfer /\ ObjectOK(current, transfer, part, a)
      /\ timer \in transfer[a].timers
    BY <1>1 DEF SessionInv, Heaps, HeapOK, TimerFires
<1>3. /\ t \in Transfer /\ t.job = j /\ t.job = transfer[a].job
      /\ t.paused = transfer[a].paused /\ t.started = transfer[a].started
    BY <1>1, <1>2 DEF Transfer
<1>4. CASE ~Current(a)
    <2>1. Continue(a, t)
        BY <1>1, <1>4 DEF TimerFires
    <2> HIDE DEF t
    <2> QED
        BY <1>3, <2>1, ContinueStages DEF GoesOnOrEnds, Continue
<1>5. CASE Current(a)
    <2> DEFINE v == [t EXCEPT !.reply = timer]
    <2>1. transfer[a].started
        BY <1>2, <1>5 DEF ObjectOK, Quiet, Live, Current
    <2>2. DownloadNext(a, t) \/ Continue(a, v)
        BY <1>1, <1>5 DEF TimerFires
    <2> HIDE DEF t
    <2>3. v.job = t.job /\ v.paused = t.paused /\ v.started = t.started
        BY <1>3 DEF Transfer
    <2> HIDE DEF v
    <2>4. CASE DownloadNext(a, t)
        <3>1. GoesOnOrEnds(t.job)
            BY <1>3, <1>5, <2>1, <2>4, DownloadNextStages
        <3> QED
            BY <1>3, <3>1
    <2>5. CASE Continue(a, v)
        <3>1. GoesOnOrEnds(v.job)
            BY <1>3, <1>5, <2>1, <2>3, <2>5, LiveCallback
        <3> QED
            BY <1>3, <2>3, <3>1
    <2> QED
        BY <2>2, <2>4, <2>5
<1> QED
    BY <1>4, <1>5

--------------------------------------------------------------------------------
(***************************************************************************)
(* Theorems                                                                *)
(***************************************************************************)

\* pump leaves the slots full, or nobody waiting, or another pump on its way.
LEMMA PumpWakes ==
    ASSUME NEW cur \in Maps, NEW tr \in Heaps, NEW n \in Nat, NEW due \in BOOLEAN,
           Owned(cur, tr), Pump(cur, tr, n, due)
    PROVE  /\ WaitingIn(current', transfer') # {}
           /\ Cardinality(ActiveIn(current', transfer')) < n
           => pumpDue'
<1> DEFINE st == Stage(cur, tr)
<1>1. PICK go \in Transport!Fills(st, n) : \E bad \in SUBSET go :
        /\ Stage(current', transfer')
           = [ j \in Jobs |-> IF j \in bad THEN "none"
                              ELSE IF j \in go THEN "started" ELSE st[j] ]
        /\ pumpDue' = (due \/ bad # {})
    BY SMTT(30), PumpStages
<1>b. PICK bad \in SUBSET go :
        /\ Stage(current', transfer')
           = [ j \in Jobs |-> IF j \in bad THEN "none"
                              ELSE IF j \in go THEN "started" ELSE st[j] ]
        /\ pumpDue' = (due \/ bad # {})
    BY <1>1
<1> HIDE DEF st
<1>2. CASE bad # {}
    BY <1>b, <1>2
<1>3. CASE bad = {}
    <2> DEFINE W == Transport!Waiting(st)
               S == Transport!Started(st)
    <2>1. /\ go \in SUBSET W
          /\ IF Cardinality(S) >= n THEN go = {}
             ELSE go = W \/ Cardinality(S) + Cardinality(go) = n
        BY SameCardinality DEF Transport!Fills
    <2>2. /\ W \cap S = {} /\ W \subseteq Jobs
          /\ WaitingIn(current', transfer') = W \ go
          /\ ActiveIn(current', transfer') = S \cup go
        <3>1. /\ Transport!Waiting(Stage(current', transfer')) = W \ go
              /\ Transport!Started(Stage(current', transfer')) = S \cup go
            BY <1>b, <1>3, <2>1 DEF Transport!Waiting, Transport!Started
        <3> QED
            BY <3>1, StageSets DEF Transport!Waiting, Transport!Started
    <2>3. IsFiniteSet(S) /\ IsFiniteSet(W)
        BY StagesFinite, StageSets DEF st
    <2> HIDE DEF W, S
    <2>4. IsFiniteSet(go)
        BY <2>1, <2>3, FS_Subset
    <2>5. /\ Cardinality(S \cup go) = Cardinality(S) + Cardinality(go)
          /\ Cardinality(S) \in Nat /\ Cardinality(go) \in Nat
        <3>1. S \cap go = {}
            BY <2>1, <2>2
        <3>2. /\ Cardinality(S \cup go) = Cardinality(S) + Cardinality(go)
                                           - Cardinality(S \cap go)
              /\ Cardinality(S) \in Nat /\ Cardinality(go) \in Nat
            BY <2>3, <2>4, FS_Union, FS_CardinalityType
        <3>3. Cardinality(S \cap go) = 0
            BY <3>1, FS_EmptySet
        <3> QED
            BY <3>2, <3>3
    <2> QED
        BY <2>1, <2>2, <2>5
<1> QED
    BY <1>2, <1>3

\* A transfer that waits while a slot is free has a pump on its way.
WakeInv == WaitingIn(current, transfer) # {} /\ InUse < slots => pumpDue

LEMMA WakeInductive ==
    ASSUME SessionInv, WakeInv, [Next]_vars
    PROVE  WakeInv'
<1>0. /\ current \in Maps /\ transfer \in Heaps /\ Owned(current, transfer)
      /\ pumpDue \in BOOLEAN /\ slots \in Nat
    BY CountAssumption DEF SessionInv
<1>1. ASSUME NEW j \in Jobs, NEW usable \in BOOLEAN, AddJob(j, usable)
      PROVE  WakeInv'
    BY <1>1 DEF AddJob, WakeInv
<1>2. ASSUME NEW cur \in Maps, NEW tr \in Heaps, NEW n \in Nat, NEW due \in BOOLEAN,
             Owned(cur, tr), Pump(cur, tr, n, due), slots' = n
      PROVE  WakeInv'
    BY <1>2, PumpWakes DEF WakeInv, InUse
<1>3. ASSUME NEW j \in Jobs, Cancel(j) \/ Pause(j)
      PROVE  WakeInv'
    <2>1. slots' = slots
        BY <1>3 DEF Cancel, Pause
    <2>2. PICK cur \in Maps, tr \in Heaps :
            Owned(cur, tr) /\ Pump(cur, tr, slots, pumpDue)
        BY <1>3, CallStages
    <2> QED
        BY <1>0, <2>1, <2>2, PumpWakes DEF WakeInv, InUse
<1>4. ASSUME NEW j \in Jobs, ReplyHandled(j) \/ TimerHandled(j)
      PROVE  WakeInv'
    <2>1. GoesOnOrEnds(j)
        BY <1>4, ReplyStages, TimerStages
    <2>2. /\ WaitingIn(current, transfer) = Transport!Waiting(Stage(current, transfer))
          /\ ActiveIn(current, transfer) = Transport!Started(Stage(current, transfer))
          /\ WaitingIn(current', transfer') = Transport!Waiting(Stage(current', transfer'))
          /\ ActiveIn(current', transfer') = Transport!Started(Stage(current', transfer'))
        BY StageSets
    <2> QED
        BY <2>1, <2>2 DEF GoesOnOrEnds, WakeInv, InUse
<1>5. ASSUME NEW n \in 1..MaxSlots, Resize(n)
      PROVE  WakeInv'
    <2>1. Pump(current, transfer, n, pumpDue) /\ slots' = n /\ n \in Nat
        BY <1>5 DEF Resize
    <2> QED
        BY <1>0, <1>2, <2>1
<1>6. CASE PumpTimer
    <2>1. Pump(current, transfer, slots, FALSE) /\ slots' = slots
        BY <1>6 DEF PumpTimer
    <2> QED
        BY <1>0, <1>2, <2>1
<1>7. CASE Crash
    <2>1. WaitingIn(current', transfer') = {}
        BY <1>7 DEF Crash, WaitingIn
    <2> QED
        BY <2>1 DEF WakeInv
<1>8. CASE UNCHANGED vars
    BY <1>8 DEF vars, WakeInv, InUse
<1> QED
    BY <1>1, <1>3, <1>4, <1>5, <1>6, <1>7, <1>8 DEF Next

\* The types hold and no wakeup is lost: whenever a transfer waits and a slot is
\* free, a pump is on its way, after any order of calls, replies and timers.
THEOREM NoLostWakeupHolds == Spec => []NoLostWakeup
<1>1. Init => WakeInv
    BY DEF Init, WakeInv, WaitingIn
<1>2. SessionInv /\ WakeInv /\ [Next]_vars => WakeInv'
    BY WakeInductive
<1>3. TypeOK /\ WakeInv => NoLostWakeup
    BY DEF WakeInv, NoLostWakeup
<1> QED
    BY <1>1, <1>2, <1>3, SessionCorrect, SessionTypeCorrect, PTL DEF Spec

\* pump, as the transport sees it.
LEMMA PumpImplements ==
    ASSUME NEW cur \in Maps, NEW tr \in Heaps, NEW n \in Nat, NEW due \in BOOLEAN,
           Owned(cur, tr), Pump(cur, tr, n, due)
    PROVE  Transport!Pump(Stage(cur, tr), n)
<1>1. PICK go \in Transport!Fills(Stage(cur, tr), n) : \E bad \in SUBSET go :
        Stage(current', transfer')
        = [ j \in Jobs |-> IF j \in bad THEN "none"
                           ELSE IF j \in go THEN "started" ELSE Stage(cur, tr)[j] ]
    BY PumpStages
<1>b. PICK bad \in SUBSET go :
        Stage(current', transfer')
        = [ j \in Jobs |-> IF j \in bad THEN "none"
                           ELSE IF j \in go THEN "started" ELSE Stage(cur, tr)[j] ]
    BY <1>1
<1> DEFINE st == Stage(cur, tr)
<1> HIDE DEF st
<1>2. Stage(current', transfer')
      = [ j \in Jobs |-> IF j \in bad THEN "none" ELSE IF j \in go THEN "started" ELSE st[j] ]
    BY <1>b DEF st
<1>3. go \in Transport!Fills(st, n) /\ bad \in SUBSET go
    BY DEF st
<1>4. Transport!Pump(st, n)
    BY <1>2, <1>3 DEF Transport!Pump, Stage
<1> QED
    BY <1>4 DEF st

\* Every step of the session is a step of the transport, or none.
LEMMA StepImplements ==
    ASSUME SessionInv, [Next]_vars
    PROVE  \/ Transport!Next
           \/ Stage(current', transfer') = Stage(current, transfer) /\ slots' = slots
<1>0. /\ current \in Maps /\ transfer \in Heaps /\ Owned(current, transfer)
      /\ pumpDue \in BOOLEAN /\ slots \in Nat
    BY CountAssumption DEF SessionInv
<1>1. ASSUME NEW j \in Jobs, NEW usable \in BOOLEAN, AddJob(j, usable)
      PROVE  Transport!Add(j)
    <2>1. UNCHANGED slots
        BY <1>1 DEF AddJob
    <2> QED
        BY <1>1, <2>1, AddJobStages DEF Transport!Add, Stage
<1>2. ASSUME NEW j \in Jobs, Cancel(j) \/ Pause(j)
      PROVE  Transport!Cancel(j) \/ Transport!Pause(j)
    <2>1. UNCHANGED slots
        BY <1>2 DEF Cancel, Pause
    <2>2. PICK cur \in Maps, tr \in Heaps :
              /\ Owned(cur, tr) /\ Pump(cur, tr, slots, pumpDue)
              /\ \/ /\ Stage(current, transfer)[j] # "none"
                    /\ Stage(cur, tr) = [Stage(current, transfer) EXCEPT ![j] = "none"]
                 \/ /\ Stage(current, transfer)[j] \in {"waiting", "started"}
                    /\ Stage(cur, tr) = [Stage(current, transfer) EXCEPT ![j] = "paused"]
        BY <1>2, CallStages
    <2>3. Transport!Pump(Stage(cur, tr), slots)
        BY <1>0, <2>2, PumpImplements DEF Transport!Pump
    <2>4. CASE /\ Stage(current, transfer)[j] # "none"
               /\ Stage(cur, tr) = [Stage(current, transfer) EXCEPT ![j] = "none"]
        <3>1. Transport!Pump([Stage(current, transfer) EXCEPT ![j] = "none"], slots)
            BY <2>3, <2>4
        <3> QED
            BY <2>1, <2>4, <3>1 DEF Transport!Cancel, Stage
    <2>5. CASE /\ Stage(current, transfer)[j] \in {"waiting", "started"}
               /\ Stage(cur, tr) = [Stage(current, transfer) EXCEPT ![j] = "paused"]
        <3>1. Transport!Pump([Stage(current, transfer) EXCEPT ![j] = "paused"], slots)
            BY <2>3, <2>5
        <3> QED
            BY <2>1, <2>5, <3>1 DEF Transport!Pause, Stage
    <2> QED
        BY <2>2, <2>4, <2>5
<1>3. ASSUME NEW j \in Jobs, ReplyHandled(j) \/ TimerHandled(j)
      PROVE  \/ Transport!Ends(j)
             \/ Stage(current', transfer') = Stage(current, transfer) /\ slots' = slots
    <2>1. GoesOnOrEnds(j)
        BY <1>3, ReplyStages, TimerStages
    <2> QED
        BY <2>1 DEF GoesOnOrEnds, Transport!Ends, Stage
<1>4. ASSUME NEW n \in 1..MaxSlots, Resize(n)
      PROVE  Transport!Resize
    <2>1. Pump(current, transfer, n, pumpDue) /\ n \in Nat
        BY <1>4 DEF Resize
    <2>2. Transport!Pump(Stage(current, transfer), n)
        BY <1>0, <2>1, PumpImplements DEF Transport!Pump
    <2>3. slots' = n
        BY <1>4 DEF Resize
    <2>4. Transport!Pump(Stage(current, transfer), slots')
        BY <2>2, <2>3 DEF Transport!Pump
    <2> QED
        BY <1>4, <2>3, <2>4 DEF Transport!Resize, Stage
<1>5. CASE PumpTimer
    <2>1. Pump(current, transfer, slots, FALSE) /\ UNCHANGED slots
        BY <1>5 DEF PumpTimer
    <2>2. Transport!Pump(Stage(current, transfer), slots)
        BY <1>0, <2>1, PumpImplements DEF Transport!Pump
    <2>3. Transport!PumpRuns
        BY <2>1, <2>2 DEF Transport!PumpRuns, Stage
    <2> QED
        BY <2>3 DEF Transport!Next
<1>6. CASE Crash
    <2>1. Stage(current', transfer') = [j \in Jobs |-> "none"] /\ UNCHANGED slots
        BY <1>6 DEF Crash, Stage
    <2>2. Transport!Crash
        BY <2>1 DEF Transport!Crash, Stage
    <2> QED
        BY <2>2 DEF Transport!Next
<1>7. CASE UNCHANGED vars
    BY <1>7 DEF vars, Stage
<1> QED
    BY <1>1, <1>2, <1>3, <1>4, <1>5, <1>6, <1>7 DEF Next, Transport!Next

\* The session is the transport JobOrchestrator models its m_torbox by: replies,
\* timers, objects and files are steps nobody outside can tell.
THEOREM SessionImplementsTransport == Spec => ImplementsTransport
<1>1. Init => Transport!Init
    BY DEF Init, Transport!Init
<1>2. SessionInv /\ [Next]_vars
      => [Transport!Next]_<<[ j \in Jobs |->
                     IF current[j] = 0 THEN "none"
                     ELSE IF transfer[current[j]].paused THEN "paused"
                     ELSE IF transfer[current[j]].started THEN "started"
                     ELSE "waiting" ], slots>>
    <2> SUFFICES ASSUME SessionInv, [Next]_vars,
                        ~Transport!Next
                 PROVE  UNCHANGED <<[ j \in Jobs |->
                     IF current[j] = 0 THEN "none"
                     ELSE IF transfer[current[j]].paused THEN "paused"
                     ELSE IF transfer[current[j]].started THEN "started"
                     ELSE "waiting" ], slots>>
        OBVIOUS
    <2> QED
        BY StepImplements DEF Stage
<1> QED
    BY <1>1, <1>2, SessionCorrect, PTL DEF Spec, ImplementsTransport, Transport!Spec

================================================================================
