------------------------- MODULE PluginLifecycleProofs -------------------------
(***************************************************************************)
(* Theorems of PluginLifecycle, for every finite set of plugins and any    *)
(* number of installs and removals nested in each other.                   *)
(***************************************************************************)
EXTENDS PluginLifecycle, FiniteSetTheorems, SequenceTheorems, TLAPS

(***************************************************************************)
(* The stack of frames.  That one removal is under way at most does not    *)
(* say that one frame is one of a removal, which its end relies on.        *)
(***************************************************************************)
Unnested(frames) ==
    \A i \in DOMAIN frames : i < Len(frames) => frames[i].at \in Loops

OfRemoval(frames, p) ==
    \A i \in DOMAIN frames :
        frames[i].at \in {"remove", "retry"} => frames[i].plugin = p

OneRemoval(frames) ==
    \A i, j \in DOMAIN frames :
        frames[i].at \in {"remove", "retry"} /\ frames[j].at \in {"remove", "retry"} => i = j

StackOK(frames, p) ==
    /\ frames \in Seq(Frames)
    /\ Unnested(frames) /\ OfRemoval(frames, p) /\ OneRemoval(frames)

\* No plugin waits twice, and none that is downloaded waits.
QueueOK(waiting, current) ==
    waiting \in Seq(Plugins) /\ IsInjective(waiting) /\ ~Contains(waiting, current)

Current == Plugins \cup {NoPlugin}

QueueTypes ==
    /\ QueueOK(queue, installing) /\ installing \in Current
    /\ update \in {"armed", "running", "over"}

\* TypeOK without the two parts that are above.
PlainTypes ==
    /\ disk \in [Plugins -> Folders]
    /\ loaded \subseteq Plugins /\ listed \subseteq Plugins
    /\ calls \subseteq Plugins \X Kinds
    /\ lost \subseteq {"draining"}
    /\ enriching \subseteq Enriched
    /\ blocked \in BOOLEAN
    /\ changed \in Nat
    /\ installBusy \in BOOLEAN
    /\ removing \in Current
    /\ installing \in Current
    /\ update \in {"armed", "running", "over"}
    /\ clicks \in 0..MaxClicks

PluginInv ==
    PlainTypes /\ StackOK(stack, removing) /\ QueueOK(queue, installing)

\* What is to be shown of every state is the invariant.
LEMMA InvImpliesCallsFinish == PluginInv => CallsFinish
BY DEF PluginInv, PlainTypes, StackOK, QueueOK, Unnested, OfRemoval, CallsFinish, TypeOK,
       Current, Kinds

--------------------------------------------------------------------------------
(***************************************************************************)
(* Frames                                                                  *)
(***************************************************************************)

\* A handler of the event loop starts an install or a removal on top.
LEMMA Pushed ==
    ASSUME NEW frames, NEW p, StackOK(frames, p), frames = <<>> \/ Last(frames).at \in Loops,
           NEW f \in Frames,
           f.at \in {"remove", "retry"} =>
               /\ f.plugin = p
               /\ \A i \in DOMAIN frames : frames[i].at \notin {"remove", "retry"}
    PROVE  StackOK(Append(frames, f), p)
<1> DEFINE t == Append(frames, f)
<1>1. /\ frames \in Seq(Frames) /\ t \in Seq(Frames)
      /\ Len(t) = Len(frames) + 1 /\ Len(frames) \in Nat
      /\ t[Len(t)] = f
      /\ \A i \in 1..Len(frames) : t[i] = frames[i]
      /\ DOMAIN t = 1..Len(t) /\ DOMAIN frames = 1..Len(frames)
    BY DEF StackOK
<1>2. \A i \in DOMAIN frames : frames[i].at \in Loops
    <2> SUFFICES ASSUME NEW i \in DOMAIN frames PROVE frames[i].at \in Loops
        OBVIOUS
    <2>1. CASE i = Len(frames)
        <3>1. frames # <<>>
            BY <1>1, <2>1
        <3> QED BY <2>1, <3>1 DEF Last
    <2>2. CASE i # Len(frames)
        BY <1>1, <2>2 DEF StackOK, Unnested
    <2> QED BY <2>1, <2>2
<1> HIDE DEF t
<1>3. Unnested(t)
    BY <1>1, <1>2 DEF Unnested
<1>4. OfRemoval(t, p)
    BY <1>1 DEF StackOK, OfRemoval
<1>5. OneRemoval(t)
    BY <1>1 DEF StackOK, OneRemoval
<1> QED BY <1>1, <1>3, <1>4, <1>5 DEF StackOK, t

\* The innermost install returns, or the innermost removal, after which none is left.
LEMMA Popped ==
    ASSUME NEW frames, NEW p, StackOK(frames, p), frames # <<>>
    PROVE  /\ StackOK(Front(frames), p)
           /\ Last(frames).at \in {"remove", "retry"} =>
                  \A q : StackOK(Front(frames), q)
<1> DEFINE t == Front(frames)
<1>1. /\ frames \in Seq(Frames) /\ Len(frames) \in Nat \ {0}
      /\ DOMAIN frames = 1..Len(frames)
    BY DEF StackOK
<1>2. /\ t \in Seq(Frames) /\ Len(t) = Len(frames) - 1 /\ DOMAIN t = 1..Len(t)
      /\ \A i \in 1..Len(t) : t[i] = frames[i]
    <2>1. t = [i \in 1..Len(frames) - 1 |-> frames[i]]
        BY <1>1 DEF Front
    <2>2. t \in Seq(Frames) /\ Len(t) = Len(frames) - 1
        BY <1>1, <2>1
    <2> QED BY <1>1, <2>1, <2>2
<1> HIDE DEF t
<1>3. Unnested(t) /\ OfRemoval(t, p) /\ OneRemoval(t)
    BY <1>1, <1>2 DEF StackOK, Unnested, OfRemoval, OneRemoval
<1>4. ASSUME Last(frames).at \in {"remove", "retry"}, NEW q
      PROVE  OfRemoval(t, q)
    BY <1>1, <1>2, <1>4 DEF StackOK, OfRemoval, OneRemoval, Last
<1> QED BY <1>2, <1>3, <1>4 DEF StackOK, t

\* The frame on top goes on, within its install or within its removal.
Follows(t, frames, at) ==
    /\ t \in Seq(Frames) /\ Len(t) = Len(frames)
    /\ \A i \in 1..Len(frames) :
          /\ t[i].plugin = frames[i].plugin
          /\ t[i].at = IF i = Len(frames) THEN at ELSE frames[i].at

LEMMA Moved ==
    ASSUME NEW frames, NEW p, StackOK(frames, p), frames # <<>>,
           NEW at, NEW t, Follows(t, frames, at),
           at \in {"remove", "retry"} => Last(frames).at \in {"remove", "retry"}
    PROVE  StackOK(t, p)
<1>1. /\ frames \in Seq(Frames) /\ Len(frames) \in Nat \ {0} /\ t \in Seq(Frames)
      /\ DOMAIN frames = 1..Len(frames) /\ DOMAIN t = 1..Len(frames) /\ Len(t) = Len(frames)
      /\ \A i \in 1..Len(frames) :
            /\ t[i].plugin = frames[i].plugin
            /\ i < Len(frames) => t[i].at = frames[i].at
    BY DEF StackOK, Follows
<1>2. \A i \in 1..Len(frames) :
          t[i].at \in {"remove", "retry"} => frames[i].at \in {"remove", "retry"}
    BY <1>1 DEF Last, Follows
<1>3. Unnested(t)
    BY <1>1 DEF StackOK, Unnested
<1>4. OfRemoval(t, p) /\ OneRemoval(t)
    BY <1>1, <1>2 DEF StackOK, OfRemoval, OneRemoval
<1>5. t \in Seq(Frames)
    BY DEF Follows
<1> QED BY <1>3, <1>4, <1>5 DEF StackOK

\* Where an event is handled no frame is in the middle of a removal.
LEMMA NoneRemoving ==
    ASSUME NEW p, StackOK(stack, p), Events, \A i \in DOMAIN stack : stack[i].at # "retry"
    PROVE  \A i \in DOMAIN stack : stack[i].at \notin {"remove", "retry"}
<1> SUFFICES ASSUME NEW i \in DOMAIN stack, stack[i].at = "remove" PROVE FALSE
    OBVIOUS
<1>1. stack \in Seq(Frames) /\ DOMAIN stack = 1..Len(stack) /\ Len(stack) \in Nat /\ stack # <<>>
    BY DEF StackOK
<1>2. i = Len(stack)
    BY <1>1 DEF StackOK, Unnested, Loops
<1> QED BY <1>1, <1>2 DEF Events, Top, Last, Loops

--------------------------------------------------------------------------------
(***************************************************************************)
(* The queue                                                               *)
(***************************************************************************)

\* What stands behind an element of the queue has no plugin twice, and not that one.
LEMMA Behind ==
    ASSUME NEW w \in Seq(Plugins), IsInjective(w), NEW k \in 1..Len(w),
           NEW t, t = SubSeq(w, k + 1, Len(w))
    PROVE  QueueOK(t, w[k])
<1>1. Len(w) \in Nat /\ DOMAIN w = 1..Len(w)
    OBVIOUS
<1>2. t = [i \in 1..Len(w) - k |-> w[k + i]]
    BY <1>1
<1>3. Len(w) - k \in Nat /\ \A i \in 1..Len(w) - k : k + i \in 1..Len(w)
    BY <1>1
<1>4. t \in Seq(Plugins) /\ Len(t) = Len(w) - k
    <2> DEFINE n == Len(w) - k
    <2>1. n \in Nat /\ \A i \in 1..n : w[k + i] \in Plugins
        BY <1>1, <1>3
    <2>2. t = [i \in 1..n |-> w[k + i]]
        BY <1>2
    <2> HIDE DEF n
    <2>3. t \in Seq(Plugins) /\ Len(t) = n
        BY <2>1, <2>2
    <2> QED BY <2>3 DEF n
<1>5. /\ DOMAIN t = 1..Len(t)
      /\ \A i \in 1..Len(t) : t[i] = w[k + i] /\ k + i \in 1..Len(w)
    BY <1>2, <1>3, <1>4
<1>6. IsInjective(t)
    <2> SUFFICES ASSUME NEW a \in 1..Len(t), NEW b \in 1..Len(t), t[a] = t[b]
                 PROVE  a = b
        BY <1>5 DEF IsInjective
    <2>1. w[k + a] = w[k + b] /\ k + a \in 1..Len(w) /\ k + b \in 1..Len(w)
        BY <1>5
    <2>2. k + a = k + b
        BY <1>1, <2>1 DEF IsInjective
    <2> QED BY <2>2, <1>4, <1>3
<1>7. ~Contains(t, w[k])
    <2> SUFFICES ASSUME NEW a \in 1..Len(t), t[a] = w[k] PROVE FALSE
        BY DEF Contains
    <2>1. k + a = k
        BY <1>1, <1>5 DEF IsInjective
    <2> QED BY <2>1, <1>4, <1>3
<1> QED BY <1>4, <1>6, <1>7 DEF QueueOK

\* The download that begins next leaves such a queue.
LEMMA ProcessQueueKeeps ==
    ASSUME NEW waiting \in Seq(Plugins), IsInjective(waiting), NEW current \in Current,
           NEW updating \in {"armed", "running", "over"},
           ProcessQueue(waiting, current, updating)
    PROVE  QueueTypes'
<1>1. ASSUME NEW k \in 1..Len(waiting), installing' = waiting[k],
             queue' = SubSeq(waiting, k + 1, Len(waiting))
      PROVE  QueueOK(queue', installing') /\ installing' \in Current
    <2>1. QueueOK(queue', waiting[k])
        BY <1>1, Behind
    <2>2. waiting[k] \in Plugins
        OBVIOUS
    <2> QED BY <1>1, <2>1, <2>2 DEF Current
<1>2. ASSUME queue' = <<>>, installing' \in {current, NoPlugin}
      PROVE  QueueOK(queue', installing') /\ installing' \in Current
    <2>1. QueueOK(<<>>, installing')
        BY DEF QueueOK, IsInjective, Contains
    <2> QED BY <1>2, <2>1 DEF Current
<1>3. update' \in {"armed", "running", "over"}
    BY DEF ProcessQueue
<1> QED BY <1>1, <1>2, <1>3 DEF ProcessQueue, QueueTypes

\* A plugin that is asked for is queued once.
LEMMA QueuedKeeps ==
    ASSUME QueueOK(queue, installing), NEW p \in Plugins
    PROVE  Queued(queue, p) \in Seq(Plugins) /\ IsInjective(Queued(queue, p))
<1>1. queue \in Seq(Plugins) /\ Len(queue) \in Nat /\ DOMAIN queue = 1..Len(queue)
    BY DEF QueueOK
<1>2. CASE p = installing \/ Contains(queue, p)
    BY <1>2 DEF Queued, QueueOK
<1>3. CASE ~(p = installing \/ Contains(queue, p))
    <2> DEFINE w == Append(queue, p)
    <2>1. /\ w \in Seq(Plugins) /\ Len(w) = Len(queue) + 1 /\ DOMAIN w = 1..Len(w)
          /\ w[Len(w)] = p /\ \A i \in 1..Len(queue) : w[i] = queue[i]
        BY <1>1
    <2> HIDE DEF w
    <2>2. IsInjective(w)
        BY <1>1, <1>3, <2>1 DEF QueueOK, IsInjective, Contains
    <2> QED BY <1>3, <2>1, <2>2 DEF Queued, w
<1> QED BY <1>2, <1>3

\* So are the plugins of an automatic update.
LEMMA UpdatesQueued ==
    ASSUME QueueOK(queue, installing), NEW s \in SUBSET Plugins,
           NEW order \in SetToSeqs(s \ (Range(queue) \cup {installing}))
    PROVE  QueueOK(queue \o order, installing)
<1> DEFINE asked == s \ (Range(queue) \cup {installing})
           n == Cardinality(asked)
           w == queue \o order
<1>1. queue \in Seq(Plugins) /\ Len(queue) \in Nat /\ DOMAIN queue = 1..Len(queue)
    BY DEF QueueOK
<1>2. n \in Nat
    <2>1. IsFiniteSet(asked)
        BY PluginAssumption, FS_Subset
    <2> QED BY <2>1, FS_CardinalityType
<1>3. /\ order \in [1..n -> asked]
      /\ \A i, j \in 1..n : i # j => order[i] # order[j]
    BY DEF SetToSeqs
<1>4. asked \subseteq Plugins
    OBVIOUS
<1>5. /\ \A x \in asked : x # installing
      /\ \A x \in asked, i \in 1..Len(queue) : queue[i] # x
    BY <1>1 DEF Range
<1> HIDE DEF asked, n
<1>6. order \in Seq(Plugins) /\ Len(order) = n /\ \A i \in 1..n : order[i] \in asked
    BY <1>2, <1>3, <1>4
<1>7. /\ w \in Seq(Plugins) /\ Len(w) = Len(queue) + n /\ DOMAIN w = 1..Len(w)
      /\ \A i \in 1..Len(w) :
             w[i] = IF i <= Len(queue) THEN queue[i] ELSE order[i - Len(queue)]
    BY <1>1, <1>2, <1>6
<1> HIDE DEF w
<1>8. IsInjective(w)
    <2> SUFFICES ASSUME NEW a \in 1..Len(w), NEW b \in 1..Len(w), w[a] = w[b], a < b
                 PROVE  FALSE
        BY <1>1, <1>2, <1>7 DEF IsInjective
    <2>1. CASE b <= Len(queue)
        BY <1>1, <1>2, <1>7, <2>1 DEF QueueOK, IsInjective
    <2>2. CASE a <= Len(queue) /\ b > Len(queue)
        <3>1. b - Len(queue) \in 1..n
            BY <1>1, <1>2, <1>7, <2>2
        <3> QED BY <1>1, <1>5, <1>6, <1>7, <2>2, <3>1
    <2>3. CASE a > Len(queue)
        <3>1. /\ a - Len(queue) \in 1..n /\ b - Len(queue) \in 1..n
              /\ a - Len(queue) # b - Len(queue)
            BY <1>1, <1>2, <1>7, <2>3
        <3> QED BY <1>1, <1>3, <1>7, <2>3, <3>1
    <2> QED BY <1>1, <1>2, <1>7, <2>1, <2>2, <2>3
<1>9. ~Contains(w, installing)
    <2> SUFFICES ASSUME NEW a \in 1..Len(w), w[a] = installing PROVE FALSE
        BY DEF Contains
    <2>1. CASE a <= Len(queue)
        BY <1>1, <1>2, <1>7, <2>1 DEF QueueOK, Contains
    <2>2. CASE a > Len(queue)
        <3>1. a - Len(queue) \in 1..n
            BY <1>1, <1>2, <1>7, <2>2
        <3> QED BY <1>5, <1>6, <1>7, <2>2, <3>1
    <2> QED BY <1>1, <1>7, <2>1, <2>2
<1> QED BY <1>7, <1>8, <1>9 DEF QueueOK, w

--------------------------------------------------------------------------------
(***************************************************************************)
(* The steps                                                               *)
(***************************************************************************)

\* The program starts with nothing under way.
LEMMA PluginInvInit == Init => PluginInv
<1> SUFFICES ASSUME Init PROVE PluginInv
    OBVIOUS
<1>1. disk \in [Plugins -> Folders]
    BY DEF Init, Folders, Bundles
<1>2. PlainTypes
    <2>1. loaded \subseteq Plugins /\ listed \subseteq Plugins
        BY DEF Init
    <2>2. clicks \in 0..MaxClicks /\ changed \in Nat
        BY PluginAssumption DEF Init
    <2>3. /\ calls \subseteq Plugins \X Kinds /\ lost \subseteq {"draining"}
          /\ enriching \subseteq Enriched
        BY DEF Init
    <2>4. /\ blocked \in BOOLEAN /\ installBusy \in BOOLEAN
          /\ removing \in Current /\ installing \in Current
          /\ update \in {"armed", "running", "over"}
        BY DEF Init, Current
    <2> QED BY <1>1, <2>1, <2>2, <2>3, <2>4 DEF PlainTypes
<1>3. StackOK(stack, removing)
    BY DEF Init, StackOK, Unnested, OfRemoval, OneRemoval
<1>4. QueueOK(queue, installing)
    BY DEF Init, QueueOK, IsInjective, Contains
<1> QED BY <1>2, <1>3, <1>4 DEF PluginInv

\* Code of a plugin starts and ends; the change of the list of plugins is handled.
LEMMA CallsKeep ==
    ASSUME PluginInv,
           \/ \E p \in Plugins : WorkerStarts(p) \/ LoadStarts(p) \/ EnrichStarts(p)
           \/ CallReturns \/ Answered \/ HandleChanged
    PROVE  PluginInv'
<1>1. CASE \E p \in Plugins : WorkerStarts(p) \/ LoadStarts(p) \/ EnrichStarts(p)
    <2>1. PICK p \in Plugins, k \in Kinds :
            /\ calls' = calls \cup {<<p, k>>}
            /\ enriching' \in {enriching, enriching \cup {p}}
            /\ enriching' # enriching => p \in Enriched
            /\ OthersAsBefore
        BY <1>1 DEF WorkerStarts, LoadStarts, EnrichStarts, Kinds
    <2>2. calls' \subseteq Plugins \X Kinds /\ enriching' \subseteq Enriched
        BY <2>1 DEF PluginInv, PlainTypes
    <2> QED BY <2>1, <2>2 DEF OthersAsBefore, catalogVars, PluginInv, PlainTypes
<1>2. CASE CallReturns \/ Answered
    BY <1>2 DEF CallReturns, Answered, EnrichNoted, OthersAsBefore, catalogVars, PluginInv,
                PlainTypes
<1>3. CASE HandleChanged
    <2>1. calls' \subseteq Plugins \X Kinds
        BY <1>3 DEF HandleChanged, PluginInv, PlainTypes, Kinds
    <2>2. changed' \in Nat
        <3>1. changed \in Nat /\ changed > 0 /\ changed' = changed - 1
            BY <1>3 DEF HandleChanged, PluginInv, PlainTypes
        <3> QED BY <3>1
    <2>3. blocked' \in BOOLEAN /\ listed' \subseteq Plugins
        BY <1>3 DEF HandleChanged, PluginInv, PlainTypes
    <2> QED BY <1>3, <2>1, <2>2, <2>3 DEF HandleChanged, catalogVars, PluginInv, PlainTypes
<1> QED BY <1>1, <1>2, <1>3

\* What the user and the timer ask of the queue.
LEMMA QueueKeeps ==
    ASSUME PluginInv, (\E p \in Plugins : InstallOfficial(p)) \/ AutoUpdate \/ DownloadFails
    PROVE  PluginInv'
<1>0. /\ QueueOK(queue, installing) /\ installing \in Current
      /\ update \in {"armed", "running", "over"} /\ NoPlugin \in Current
      /\ queue \in Seq(Plugins) /\ IsInjective(queue)
    BY DEF PluginInv, PlainTypes, QueueOK, Current
<1>1. QueueTypes'
    <2>1. ASSUME NEW p \in Plugins, InstallOfficial(p)
          PROVE  QueueTypes'
        BY <1>0, <2>1, QueuedKeeps, ProcessQueueKeeps DEF InstallOfficial
    <2>2. CASE DownloadFails
        BY <1>0, <2>2, ProcessQueueKeeps DEF DownloadFails
    <2>3. CASE AutoUpdate
        <3>1. CASE update' = "over" /\ UNCHANGED <<queue, installing>>
            BY <1>0, <3>1 DEF QueueTypes
        <3>2. ASSUME NEW s \in SUBSET Plugins,
                     NEW order \in SetToSeqs(s \ (Range(queue) \cup {installing})),
                     \/ /\ queue' = queue \o order /\ update' = "running"
                        /\ UNCHANGED installing
                     \/ \E updating \in {"running", "over"} :
                            ProcessQueue(queue \o order, NoPlugin, updating)
              PROVE  QueueTypes'
            <4>1. QueueOK(queue \o order, installing)
                BY <1>0, UpdatesQueued
            <4>2. queue \o order \in Seq(Plugins) /\ IsInjective(queue \o order)
                BY <4>1 DEF QueueOK
            <4> QED BY <1>0, <3>2, <4>1, <4>2, ProcessQueueKeeps DEF QueueTypes
        <3> QED BY <2>3, <3>1, <3>2 DEF AutoUpdate
    <2> QED BY <2>1, <2>2, <2>3
<1>2. QueueOnly /\ clicks' \in 0..MaxClicks
    BY PluginAssumption
       DEF InstallOfficial, AutoUpdate, DownloadFails, Click, PluginInv, PlainTypes
<1> QED BY <1>1, <1>2 DEF QueueOnly, QueueTypes, PluginInv, PlainTypes

\* A package is there: an install begins, inside whatever is under way.
LEMMA InstallBegins ==
    ASSUME PluginInv, (\E p \in Plugins : InstallFile(p)) \/ Downloaded
    PROVE  PluginInv'
<1>1. PICK p \in Plugins, by \in {"user", "queue"} :
        /\ stack' = Append(stack, Frame("extract", p, by))
        /\ Events /\ installBusy' = TRUE
        /\ installing' \in {installing, NoPlugin}
    BY DEF InstallFile, Downloaded, Click, catalogVars, PluginInv, PlainTypes, Current
<1>2. /\ UNCHANGED << disk, loaded, listed, calls, lost, enriching, blocked, changed,
                      removing, queue, update >>
      /\ clicks' \in 0..MaxClicks
    BY PluginAssumption
       DEF InstallFile, Downloaded, Click, catalogVars, PluginInv, PlainTypes
<1>3. StackOK(stack', removing')
    <2>1. Frame("extract", p, by) \in Frames /\ Frame("extract", p, by).at = "extract"
        BY DEF Frame, Frames
    <2>2. stack = <<>> \/ Last(stack).at \in Loops
        BY <1>1 DEF Events, Top
    <2> HIDE DEF Frame
    <2> QED BY <1>1, <1>2, <2>1, <2>2, Pushed DEF PluginInv
<1>4. QueueOK(queue', installing')
    <2>1. ~Contains(queue, NoPlugin)
        BY PluginAssumption DEF PluginInv, QueueOK, Contains
    <2> QED BY <1>1, <1>2, <2>1 DEF PluginInv, QueueOK
<1>5. installing' \in Current /\ installBusy' \in BOOLEAN
    BY <1>1 DEF PluginInv, PlainTypes, Current
<1> QED BY <1>2, <1>3, <1>4, <1>5 DEF PluginInv, PlainTypes

\* The innermost install returns, and the queue goes on if it was one of its own.
LEMMA InstallReturnsKeeps ==
    ASSUME PluginInv, stack # <<>>, InstallReturns, removing' = removing
    PROVE  StackOK(stack', removing') /\ QueueTypes' /\ installBusy' = FALSE
<1>1. StackOK(stack', removing')
    BY Popped DEF InstallReturns, PluginInv
<1>2. QueueTypes'
    <2>1. CASE ProcessQueue(queue, installing, update)
        BY <2>1, ProcessQueueKeeps DEF PluginInv, PlainTypes, QueueOK
    <2>2. CASE UNCHANGED catalogVars
        BY <2>2 DEF catalogVars, PluginInv, PlainTypes, QueueTypes
    <2> QED BY <2>1, <2>2 DEF InstallReturns
<1> QED BY <1>1, <1>2 DEF InstallReturns

\* The frame on top is one.
LEMMA TopIsFrame ==
    ASSUME PluginInv, stack # <<>>
    PROVE  /\ Top \in Frames /\ Top.plugin \in Plugins
           /\ stack \in Seq(Frames) /\ Len(stack) \in Nat \ {0} /\ DOMAIN stack = 1..Len(stack)
<1>1. stack \in Seq(Frames) /\ Len(stack) \in Nat \ {0} /\ DOMAIN stack = 1..Len(stack)
    BY DEF PluginInv, StackOK
<1>2. stack[Len(stack)] \in Frames
    BY <1>1
<1>3. \A f \in Frames : f.plugin \in Plugins
    BY DEF Frames
<1> QED BY <1>1, <1>2, <1>3 DEF Top, Last

\* A library that is unloaded when the hook has returned takes no call with it but a
\* load that no longer counts.
LEMMA UnloadKeeps ==
    ASSUME PluginInv, NEW p \in Plugins, Waited(p), Unload(p)
    PROVE  lost' \subseteq {"draining"} /\ calls' \subseteq Plugins \X Kinds
<1>1. ASSUME NEW k \in Kinds, <<p, k>> \in calls
      PROVE  k = "draining"
    BY <1>1 DEF Waited, Kinds
<1>2. lost \subseteq {"draining"} /\ calls \subseteq Plugins \X Kinds
    BY DEF PluginInv, PlainTypes
<1> QED BY <1>1, <1>2 DEF Unload

\* A function on 1..n is a sequence.
LEMMA FunctionIsSeq ==
    ASSUME NEW S, NEW n \in Nat, NEW t \in [1..n -> S]
    PROVE  t \in Seq(S) /\ Len(t) = n
OBVIOUS

\* The frame on top is somewhere else.
GoneOn(frames, at) == [frames EXCEPT ![Len(frames)].at = at]

LEMMA TopGoesOn ==
    ASSUME NEW frames \in Seq(Frames), Len(frames) # 0,
           NEW at \in {"extract", "copy", "replace", "remove", "retry"},
           NEW t, t = GoneOn(frames, at)
    PROVE  Follows(t, frames, at)
<1>1. Len(frames) \in 1..Len(frames) /\ frames[Len(frames)] \in Frames
    OBVIOUS
<1>2. PICK f : f = [frames[Len(frames)] EXCEPT !.at = at]
    OBVIOUS
<1>3. f \in Frames /\ f.plugin = frames[Len(frames)].plugin /\ f.at = at
    BY <1>1, <1>2 DEF Frames
<1>4. t = [frames EXCEPT ![Len(frames)] = f]
    BY <1>2 DEF GoneOn
<1> DEFINE n == Len(frames)
<1>5. frames \in [1..n -> Frames]
    OBVIOUS
<1> HIDE DEF n
<1>6. t \in [1..n -> Frames] /\ \A i \in 1..n : t[i] = IF i = n THEN f ELSE frames[i]
    BY <1>1, <1>3, <1>4, <1>5 DEF n
<1>7. Len(frames) \in Nat
    OBVIOUS
<1>8. t \in Seq(Frames) /\ Len(t) = n
    BY <1>6, <1>7, FunctionIsSeq DEF n
<1> QED BY <1>3, <1>6, <1>8 DEF Follows, n

\* Packages are refused, staged and copied.
LEMMA StagingKeeps ==
    ASSUME PluginInv, PackageRefused \/ Staged \/ CopyFails \/ Copied
    PROVE  PluginInv'
<1>0. /\ stack # <<>>
      /\ Top.at \in {"extract", "copy"}
      /\ UNCHANGED <<loaded, listed, calls, lost, enriching, changed, removing, clicks>>
    BY DEF PackageRefused, Staged, CopyFails, Copied, TopAt
<1>1. disk' \in [Plugins -> Folders]
    <2>1. disk \in [Plugins -> Folders] /\ Top.plugin \in Plugins
        BY <1>0, TopIsFrame DEF PluginInv, PlainTypes
    <2>2. \A d \in Folders :
            /\ [d EXCEPT !.bak = "none", !.staging = "bad"] \in Folders
            /\ \A b \in Bundles : [d EXCEPT !.staging = b] \in Folders
        BY DEF Folders, Bundles
    <2>3. CASE PackageRefused
        BY <2>1, <2>3 DEF PackageRefused
    <2>4. CASE Staged
        BY <2>1, <2>2, <2>4 DEF Staged
    <2>5. CASE CopyFails
        BY <2>1, <2>2, <2>5 DEF CopyFails, Bundles
    <2>6. CASE Copied
        <3>1. PICK bundle \in Bundles : disk' = [disk EXCEPT ![Top.plugin].staging = bundle]
            BY <2>6 DEF Copied, Bundles
        <3> QED BY <2>1, <2>2, <3>1
    <2> QED BY <2>3, <2>4, <2>5, <2>6
<1>2. StackOK(stack', removing')
    <2>1. CASE PackageRefused \/ CopyFails
        BY <1>0, <2>1, InstallReturnsKeeps DEF PackageRefused, CopyFails
    <2>2. CASE Staged
        <3> DEFINE t == [ i \in DOMAIN stack |->
                            IF i = Len(stack) THEN [stack[i] EXCEPT !.at = "copy"]
                            ELSE [ stack[i] EXCEPT
                                     !.broken = @ \/ stack[i].plugin = Top.plugin ] ]
        <3>1. stack' = t
            BY <2>2 DEF Staged
        <3>2. \A i \in 1..Len(stack) :
                /\ t[i] \in Frames /\ t[i].plugin = stack[i].plugin
                /\ i < Len(stack) => t[i].at = stack[i].at
                /\ i = Len(stack) => t[i].at = "copy"
            <4> SUFFICES ASSUME NEW i \in 1..Len(stack)
                         PROVE  /\ t[i] \in Frames /\ t[i].plugin = stack[i].plugin
                                /\ i < Len(stack) => t[i].at = stack[i].at
                                /\ i = Len(stack) => t[i].at = "copy"
                OBVIOUS
            <4>1. stack[i] \in Frames /\ i \in DOMAIN stack
                BY <1>0, TopIsFrame
            <4>2. CASE i = Len(stack)
                <5>1. t[i] = [stack[i] EXCEPT !.at = "copy"]
                    BY <4>1, <4>2
                <5> QED BY <4>1, <4>2, <5>1 DEF Frames
            <4>3. CASE i # Len(stack)
                <5>1. t[i] = [ stack[i] EXCEPT
                                 !.broken = @ \/ stack[i].plugin = Top.plugin ]
                    BY <4>1, <4>3
                <5> QED BY <4>1, <4>3, <5>1 DEF Frames
            <4> QED BY <4>2, <4>3
        <3>3. DOMAIN t = 1..Len(stack) /\ Len(stack) \in Nat \ {0}
            BY <1>0, TopIsFrame
        <3> HIDE DEF t
        <3>4. Follows(t, stack, "copy")
            <4>1. \A i \in 1..Len(stack) : t[i] \in Frames
                BY <3>2
            <4>2. t = [i \in 1..Len(stack) |-> t[i]]
                BY <1>0, TopIsFrame DEF t
            <4>3. t \in [1..Len(stack) -> Frames]
                BY <4>1, <4>2
            <4>4. t \in Seq(Frames) /\ Len(t) = Len(stack)
                BY <3>3, <4>3, FunctionIsSeq
            <4>5. \A i \in 1..Len(stack) :
                    /\ t[i].plugin = stack[i].plugin
                    /\ t[i].at = IF i = Len(stack) THEN "copy" ELSE stack[i].at
                BY <3>2, <3>3
            <4> QED BY <4>4, <4>5, Zenon DEF Follows
        <3> QED BY <1>0, <3>1, <3>4, Moved DEF PluginInv
    <2>3. CASE Copied
        <3>1. stack' = GoneOn(stack, "replace")
            BY <2>3 DEF Copied, GoneOn
        <3>2. Follows(stack', stack, "replace")
            BY <1>0, <3>1, TopIsFrame, TopGoesOn
        <3> QED BY <1>0, <3>2, Moved DEF PluginInv
    <2> QED BY <2>1, <2>2, <2>3
<1>3. QueueTypes' /\ installBusy' \in BOOLEAN /\ blocked' \in BOOLEAN
    <2>1. CASE PackageRefused \/ CopyFails
        BY <1>0, <2>1, InstallReturnsKeeps
           DEF PackageRefused, CopyFails, PluginInv, PlainTypes
    <2>2. CASE Staged \/ Copied
        BY <2>2 DEF Staged, Copied, catalogVars, PluginInv, PlainTypes, QueueTypes
    <2> QED BY <2>1, <2>2
<1> QED BY <1>0, <1>1, <1>2, <1>3 DEF PluginInv, PlainTypes, QueueTypes

\* The three ends of a replacement.
LEMMA ReplacementKeeps ==
    ASSUME PluginInv, ReplaceFails \/ PlaceFails \/ Replaced
    PROVE  PluginInv'
<1>0. /\ stack # <<>> /\ Waited(Top.plugin) /\ Top.plugin \in Plugins
      /\ disk \in [Plugins -> Folders] /\ loaded \subseteq Plugins
    BY TopIsFrame
       DEF ReplaceFails, PlaceFails, Replaced, Replacing, TopAt, PluginInv, PlainTypes
<1>1. PICK folder \in Folders : Replaces(Top.plugin, folder)
    <2>1. disk[Top.plugin] \in Folders
        BY <1>0
    <2>2. \A t, b \in Bundles : [target |-> t, bak |-> b, staging |-> "none"] \in Folders
        BY DEF Folders, Bundles
    <2>3. /\ disk[Top.plugin].target \in Bundles /\ disk[Top.plugin].staging \in Bundles
          /\ "none" \in Bundles /\ "bad" \in Bundles
        BY <2>1 DEF Folders, Bundles
    <2>4. CASE ReplaceFails
        BY <2>2, <2>3, <2>4 DEF ReplaceFails
    <2>5. CASE PlaceFails
        BY <2>2, <2>3, <2>5 DEF PlaceFails
    <2>6. CASE Replaced
        BY <2>2, <2>3, <2>6 DEF Replaced
    <2> QED BY <2>4, <2>5, <2>6
<1>2. lost' \subseteq {"draining"} /\ calls' \subseteq Plugins \X Kinds
    BY <1>0, <1>1, UnloadKeeps DEF Replaces
<1>3. /\ StackOK(stack', removing') /\ QueueTypes' /\ installBusy' = FALSE
      /\ removing' = removing
    BY <1>0, <1>1, InstallReturnsKeeps DEF Replaces
<1>4. /\ disk' \in [Plugins -> Folders] /\ loaded' \subseteq Plugins
      /\ UNCHANGED <<listed, enriching, blocked, clicks>>
    BY <1>0, <1>1 DEF Replaces, Reload
<1>5. changed' \in Nat
    <2>1. changed \in Nat /\ changed' = changed + 1
        BY DEF ReplaceFails, PlaceFails, Replaced, PluginInv, PlainTypes
    <2> QED BY <2>1
<1> QED BY <1>2, <1>3, <1>4, <1>5 DEF PluginInv, PlainTypes, QueueTypes

\* A removal is asked for, and refused or begun when nothing runs in the plugin.
LEMMA RemovalAsked ==
    ASSUME PluginInv, (\E p \in Plugins : UninstallPlugin(p)) \/ Removal
    PROVE  PluginInv'
<1>0. StackOK(stack, removing) /\ QueueOK(queue, installing) /\ removing \in Current
    BY DEF PluginInv, PlainTypes
<1>1. ASSUME NEW p \in Plugins, UninstallPlugin(p)
      PROVE  PluginInv'
    <2>1. removing = NoPlugin /\ removing' = p /\ stack' = stack
        BY <1>1 DEF UninstallPlugin, Click, Overlay
    <2>2. StackOK(stack', removing')
        <3>1. \A i \in DOMAIN stack : stack[i].plugin \in Plugins
            <4>1. \A f \in Frames : f.plugin \in Plugins
                BY DEF Frames
            <4>2. \A i \in DOMAIN stack : stack[i] \in Frames
                BY <1>0 DEF StackOK
            <4> QED BY <4>1, <4>2
        <3>2. \A i \in DOMAIN stack : stack[i].at \notin {"remove", "retry"}
            BY <1>0, <2>1, <3>1, PluginAssumption DEF StackOK, OfRemoval
        <3> QED BY <1>0, <2>1, <3>2 DEF StackOK, OfRemoval
    <2>3. calls' \subseteq Plugins \X Kinds
        BY <1>1 DEF UninstallPlugin, PluginInv, PlainTypes, Kinds
    <2>4. clicks' \in 0..MaxClicks /\ removing' \in Current
        BY <1>1, <2>1, PluginAssumption
           DEF UninstallPlugin, Click, PluginInv, PlainTypes, Current
    <2> QED BY <1>1, <2>2, <2>3, <2>4
            DEF UninstallPlugin, catalogVars, PluginInv, PlainTypes
<1>2. CASE RemovalRefused
    <2>1. \A i \in DOMAIN stack : stack[i].at \notin {"remove", "retry"}
        BY <1>0, <1>2, NoneRemoving DEF RemovalRefused
    <2>2. StackOK(stack', removing')
        BY <1>0, <1>2, <2>1 DEF RemovalRefused, StackOK, OfRemoval
    <2> QED BY <1>2, <2>2 DEF RemovalRefused, catalogVars, PluginInv, PlainTypes, Current
<1>3. CASE RemovalBegins
    <2>1. \A i \in DOMAIN stack : stack[i].at \notin {"remove", "retry"}
        BY <1>0, <1>3, NoneRemoving DEF RemovalBegins
    <2>2. removing \in Plugins
        BY <1>0, <1>3 DEF RemovalBegins, Current
    <2> DEFINE f == Frame("remove", removing, "user")
    <2>3. f \in Frames /\ f.plugin = removing
        BY <2>2 DEF Frame, Frames
    <2>4. stack' = Append(stack, f) /\ removing' = removing
        BY <1>3 DEF RemovalBegins
    <2> HIDE DEF f
    <2>5. stack = <<>> \/ Last(stack).at \in Loops
        BY <1>3 DEF RemovalBegins, Events, Top
    <2>6. StackOK(stack', removing')
        BY <1>0, <2>1, <2>3, <2>4, <2>5, Pushed
    <2> QED BY <1>3, <2>6 DEF RemovalBegins, catalogVars, PluginInv, PlainTypes
<1> QED BY <1>1, <1>2, <1>3 DEF Removal

\* The library goes, then the folder, and what is left of it may be loaded again.
LEMMA RemovalKeeps ==
    ASSUME PluginInv, RemovalStep
    PROVE  PluginInv'
<1>0. /\ stack # <<>> /\ Top.plugin \in Plugins /\ Top.at \in {"remove", "retry"}
      /\ disk \in [Plugins -> Folders] /\ loaded \subseteq Plugins
      /\ StackOK(stack, removing) /\ removing \in Current
    BY TopIsFrame
       DEF RemovalStep, Unloaded, Removed, RemovalFails, TopAt, PluginInv, PlainTypes
<1>1. lost' \subseteq {"draining"} /\ calls' \subseteq Plugins \X Kinds
    <2>1. CASE Unloaded
        BY <1>0, <2>1, UnloadKeeps DEF Unloaded
    <2>2. CASE Removed \/ RemovalFails
        BY <2>2 DEF Removed, RemovalFails, PluginInv, PlainTypes
    <2> QED BY <2>1, <2>2 DEF RemovalStep
<1>2. disk' \in [Plugins -> Folders] /\ loaded' \subseteq Plugins
    <2>1. \A d \in Folders : /\ [d EXCEPT !.target = "none"] \in Folders
                             /\ [d EXCEPT !.target = "bad"] \in Folders
        BY DEF Folders, Bundles
    <2>2. /\ [disk EXCEPT ![Top.plugin].target = "none"] \in [Plugins -> Folders]
          /\ [disk EXCEPT ![Top.plugin].target = "bad"] \in [Plugins -> Folders]
        BY <1>0, <2>1
    <2> QED BY <1>0, <2>2 DEF RemovalStep, Unloaded, Removed, RemovalFails, Reload
<1>3. /\ UNCHANGED <<listed, enriching, installBusy, catalogVars, clicks>>
    BY DEF RemovalStep, Unloaded, Removed, RemovalFails
<1>4. CASE \E ok \in BOOLEAN : RemovalReturns(ok)
    <2>1. PICK ok \in BOOLEAN : RemovalReturns(ok)
        BY <1>4
    <2>2. StackOK(stack', removing') /\ removing' \in Current
        BY <1>0, <2>1, Popped DEF RemovalReturns, Top, Current
    <2>3. changed' \in Nat /\ blocked' \in BOOLEAN
        <3>1. changed \in Nat /\ changed' = changed + 1
            BY <2>1 DEF RemovalReturns, PluginInv, PlainTypes
        <3>2. blocked' \in BOOLEAN
            BY <2>1 DEF RemovalReturns, PluginInv, PlainTypes
        <3> QED BY <3>1, <3>2
    <2> QED BY <1>1, <1>2, <1>3, <2>2, <2>3 DEF catalogVars, PluginInv, PlainTypes
<1>5. CASE /\ stack' = [stack EXCEPT ![Len(stack)].at = "retry"]
           /\ UNCHANGED <<removing, changed, blocked>>
    <2>1. Follows(stack', stack, "retry")
        <3>1. stack' = GoneOn(stack, "retry")
            BY <1>5 DEF GoneOn
        <3> QED BY <1>0, <3>1, TopIsFrame, TopGoesOn
    <2>2. StackOK(stack', removing')
        BY <1>0, <1>5, <2>1, Moved DEF Top
    <2> QED BY <1>1, <1>2, <1>3, <1>5, <2>2 DEF catalogVars, PluginInv, PlainTypes
<1>6. (\E ok \in BOOLEAN : RemovalReturns(ok)) \/ <1>5!1
    BY DEF RemovalStep, Unloaded, Removed, RemovalFails
<1> QED BY <1>4, <1>5, <1>6

\* Every step keeps the invariant.
LEMMA PluginInvNext == PluginInv /\ [Next]_vars => PluginInv'
<1> SUFFICES ASSUME PluginInv, [Next]_vars PROVE PluginInv'
    OBVIOUS
<1>1. CASE UNCHANGED vars
    BY <1>1 DEF vars, catalogVars, PluginInv, PlainTypes
<1>2. CASE Next
    BY <1>2, CallsKeep, QueueKeeps, InstallBegins, StagingKeeps, ReplacementKeeps,
       RemovalAsked, RemovalKeeps
       DEF Next, InstallStep, Download
<1> QED BY <1>1, <1>2

--------------------------------------------------------------------------------
(***************************************************************************)
(* Theorems                                                                *)
(***************************************************************************)

\* The invariant: frames, queue and calls are in order whatever is nested in what.
THEOREM LifecycleCorrect == Spec => []PluginInv
<1> QED BY PluginInvInit, PluginInvNext, PTL DEF Spec

\* No install, download, lookup or load in flight loses the library it runs in
\* (PluginHost::unloadPlugin behind the before-unload hook), only a load that a removal
\* has detached.
THEOREM CallsFinishHolds == Spec => []CallsFinish
<1> QED BY LifecycleCorrect, InvImpliesCallsFinish, PTL

\* installFromArach: when a copy of a plugin that loads goes for good, a removal took it,
\* or the package that was staged for it has its place.
THEOREM WorkingKeptHolds == Spec => WorkingKept
<1> DEFINE Keeps(p) ==
        disk[p].target = "good" /\ ~Recoverable(p)' =>
            \/ (TopAt("remove") \/ TopAt("retry")) /\ Top.plugin = p
            \/ disk[p].staging # "none" /\ disk'[p].target = disk[p].staging
<1>1. ASSUME PluginInv, [Next]_vars, NEW p \in Plugins
      PROVE  Keeps(p)
    <2>1. disk \in [Plugins -> Folders]
        BY <1>1 DEF PluginInv, PlainTypes
    <2>2. CASE disk' = disk
        BY <2>2 DEF Recoverable
    <2>3. CASE Staged \/ CopyFails \/ Copied
        <3>1. Top.plugin \in Plugins
            BY <1>1, <2>3, TopIsFrame DEF Staged, CopyFails, Copied, TopAt
        <3>2. PICK folder : /\ disk' = [disk EXCEPT ![Top.plugin] = folder]
                            /\ folder.target = disk[Top.plugin].target
            <4>1. disk[Top.plugin] \in Folders
                BY <2>1, <3>1
            <4>2. \A d \in Folders :
                    /\ [d EXCEPT !.bak = "none", !.staging = "bad"].target = d.target
                    /\ \A b : [d EXCEPT !.staging = b].target = d.target
                BY DEF Folders
            <4>3. CASE Staged
                BY <4>1, <4>2, <4>3 DEF Staged
            <4>4. CASE CopyFails
                BY <4>1, <4>2, <4>4 DEF CopyFails
            <4>5. CASE Copied
                <5>1. PICK bundle : disk' = [disk EXCEPT ![Top.plugin].staging = bundle]
                    BY <4>5 DEF Copied
                <5> QED BY <4>1, <4>2, <5>1
            <4> QED BY <2>3, <4>3, <4>4, <4>5
        <3>3. disk'[p].target = disk[p].target
            BY <2>1, <3>1, <3>2
        <3> QED BY <3>3 DEF Recoverable
    <2>4. CASE ReplaceFails \/ PlaceFails \/ Replaced
        BY <2>1, <2>4 DEF ReplaceFails, PlaceFails, Replaced, Replaces, Recoverable
    <2>5. CASE RemovalStep
        BY <2>1, <2>5 DEF RemovalStep, Unloaded, Removed, RemovalFails, Recoverable
    <2>6. \/ disk' = disk
          \/ Staged \/ CopyFails \/ Copied
          \/ ReplaceFails \/ PlaceFails \/ Replaced
          \/ RemovalStep
        BY <1>1 DEF Next, vars, WorkerStarts, LoadStarts, EnrichStarts, InstallOfficial,
           InstallFile, UninstallPlugin, CallReturns, Answered, EnrichNoted, HandleChanged,
           AutoUpdate, Download, DownloadFails, Downloaded, InstallStep, PackageRefused,
           Removal, RemovalRefused, RemovalBegins, OthersAsBefore, QueueOnly
    <2> QED BY <2>2, <2>3, <2>4, <2>5, <2>6
<1>2. PluginInv /\ [Next]_vars => [\A p \in Plugins : Keeps(p)]_vars
    BY <1>1
<1> QED BY <1>2, PluginInvInit, PluginInvNext, PTL DEF Spec, WorkingKept

================================================================================
