-------------------------- MODULE DirectoryProofs --------------------------
(***************************************************************************)
(* The write queue loses, swaps and repeats nothing it should not, and     *)
(* search finds the accounts, for every number of users, documents, taps   *)
(* and writes and every length of the pipeline.                            *)
(***************************************************************************)
EXTENDS Directory, SequenceTheorems, WellFoundedInduction, TLAPS

\* A queue is kept by batch id, and its writes were made in that order.
InOrder(q) ==
    \A i, j \in 1 .. Len(q) : i < j => q[i].id < q[j].id /\ q[i].n < q[j].n

LEMMA BeginningFacts ==
  ASSUME NEW q \in Seq(Batch)
  PROVE  /\ Beginning(q) \in Seq(Batch)
         /\ Len(Beginning(q)) = IF Len(q) < MaxPending THEN Len(q) ELSE MaxPending
         /\ \A i \in 1 .. Len(Beginning(q)) : i \in 1 .. Len(q) /\ Beginning(q)[i] = q[i]
         /\ Beginning(q) = <<>> <=> q = <<>>
<1> DEFINE k == IF Len(q) < MaxPending THEN Len(q) ELSE MaxPending
<1>1. k \in Nat /\ k <= Len(q) /\ (k = 0 <=> q = <<>>)
  BY WriteQueueAssumption, EmptySeq
<1>2. /\ SubSeq(q, 1, k) \in Seq(Batch)
      /\ Len(SubSeq(q, 1, k)) = k
      /\ \A i \in 1 .. k : SubSeq(q, 1, k)[i] = q[i]
  BY <1>1
<1>3. SubSeq(q, 1, k) = <<>> <=> k = 0
  BY <1>1, <1>2, EmptySeq
<1>4. QED
  BY <1>1, <1>2, <1>3 DEF Beginning

LEMMA BatchesAre ==
  ASSUME NEW q \in Seq(Batch), NEW i \in 1 .. Len(q)
  PROVE  q[i] \in Batch /\ q[i].id \in Nat /\ q[i].n \in Nat
<1>1. q[i] \in Batch
  BY ElementOfSeq
<1>2. QED
  BY <1>1 DEF Batch

LEMMA LeastNat ==
  ASSUME NEW I, I \subseteq Nat, I # {}
  PROVE  \E k \in I : \A i \in I : k <= i
<1> DEFINE Less == {ss \in Nat \X Nat : ss[1] < ss[2]}
<1>1. PICK k \in I : \A i \in I : <<i, k>> \notin Less
  <2>1. IsWellFoundedOn(Less, Nat)
    BY NatLessThanWellFounded DEF OpToRel
  <2> HIDE DEF Less
  <2>2. QED
    BY <2>1, WFMin
<1>2. \A i \in I : ~(i < k)
  BY <1>1
<1>3. QED
  BY <1>2

LEMMA FirstPast ==
  ASSUME NEW q \in Seq(Batch), InOrder(q), NEW k \in 0 .. Len(q)
  PROVE  NextAfter(q, LastId(SubSeq(q, 1, k))) = IF k = Len(q) THEN 0 ELSE k + 1
<1> DEFINE p == SubSeq(q, 1, k)
           I == {i \in 1 .. Len(q) : q[i].id > LastId(p)}
<1>1. p \in Seq(Batch) /\ Len(p) = k /\ \A i \in 1 .. k : p[i] = q[i]
  OBVIOUS
<1>2. \A i \in 1 .. Len(q) : q[i].id \in Nat
  BY BatchesAre
<1>3. LastId(p) = IF k = 0 THEN -1 ELSE q[k].id
  BY <1>1, EmptySeq DEF LastId
<1>4. \A i \in 1 .. Len(q) : i \in I <=> i > k
  <2> SUFFICES ASSUME NEW i \in 1 .. Len(q) PROVE i \in I <=> i > k
    OBVIOUS
  <2>1. CASE k = 0
    BY <1>2, <1>3, <2>1
  <2>2. CASE k # 0
    <3>1. k \in 1 .. Len(q)
      BY <2>2
    <3>2. (i < k => q[i].id < q[k].id) /\ (k < i => q[k].id < q[i].id)
      BY <3>1 DEF InOrder
    <3>3. QED
      BY <1>2, <1>3, <2>2, <3>1, <3>2
  <2>3. QED
    BY <2>1, <2>2
<1>5. NextAfter(q, LastId(p)) = IF I # {} THEN Min(I) ELSE 0
  BY DEF NextAfter, SelectInSeq
<1>6. CASE k = Len(q)
  <2>1. I = {}
    BY <1>4, <1>6
  <2>2. QED
    BY <1>5, <1>6, <2>1
<1>7. CASE k # Len(q)
  <2>1. k + 1 \in I /\ \A i \in I : k + 1 <= i
    BY <1>4, <1>7
  <2> HIDE DEF I
  <2>2. Min(I) = k + 1
    <3>1. I \subseteq Int
      BY DEF I
    <3>2. \A x \in I : (\A y \in I : x <= y) => x = k + 1
      BY <2>1, <3>1
    <3>3. QED
      BY <2>1, <3>1, <3>2 DEF Min
  <2>3. QED
    BY <1>5, <1>7, <2>1, <2>2
<1>8. QED
  BY <1>6, <1>7

\* From any beginning that fits, the pipeline is filled to the longest that does.
LEMMA FillingFills ==
  ASSUME NEW q \in Seq(Batch), InOrder(q), NEW k \in 0 .. Len(q), k <= MaxPending
  PROVE  Filled(SubSeq(q, 1, k), q) = Beginning(q)
<1> DEFINE p == SubSeq(q, 1, k)
           m == IF Len(q) < MaxPending THEN Len(q) ELSE MaxPending
<1>1. p \in Seq(Batch) /\ Len(p) = k
  OBVIOUS
<1>2. NextAfter(q, LastId(p)) = IF k = Len(q) THEN 0 ELSE k + 1
  BY FirstPast
<1>3. MaxPending \in Nat
  BY WriteQueueAssumption
<1>4. CASE k = Len(q)
  BY <1>2, <1>3, <1>4 DEF Filled, Beginning
<1>5. CASE k # Len(q)
  <2>1. Filled(p, q) = p \o SubSeq(q, k + 1, m)
    <3>1. (k + 1) + (MaxPending - Len(p)) - 1 = MaxPending
      BY <1>1, <1>3
    <3>2. (IF MaxPending < Len(q) THEN MaxPending ELSE Len(q)) = m
      BY <1>3
    <3>3. NextAfter(q, LastId(p)) = k + 1 /\ k + 1 # 0
      BY <1>2, <1>5
    <3> HIDE DEF p, m
    <3>4. QED
      BY <3>1, <3>2, <3>3 DEF Filled
  <2>2. 1 \in 1 .. Len(q) + 1 /\ k \in 1 - 1 .. Len(q) /\ m \in k .. Len(q)
    BY <1>3, <1>5
  <2>3. \A j \in k .. Len(q) : SubSeq(q, 1, k) \o SubSeq(q, k + 1, j) = SubSeq(q, 1, j)
    BY <2>2, ConcatAdjacentSubSeq
  <2>4. QED
    BY <2>1, <2>2, <2>3 DEF Beginning
<1>6. QED
  BY <1>4, <1>5

LEMMA RemovingFirst ==
  ASSUME NEW q \in Seq(Batch), q # <<>>, NEW id, id = q[1].id
  PROVE  RemoveFirstMatch(q, LAMBDA b : b.id = id) = Tail(q)
<1> DEFINE I == {i \in 1 .. Len(q) : q[i].id = id}
<1>1. Len(q) \in Nat /\ Len(q) >= 1
  BY EmptySeq
<1>2. 1 \in I /\ \A i \in I : 1 <= i /\ i \in Int
  BY <1>1
<1>3. SelectInSeq(q, LAMBDA b : b.id = id) = IF I # {} THEN Min(I) ELSE 0
  BY DEF SelectInSeq
<1> HIDE DEF I
<1>4. Min(I) = 1
  <2>1. \A x \in I : (\A y \in I : x <= y) => x = 1
    BY <1>2
  <2>2. QED
    BY <1>2, <2>1 DEF Min
<1>5. RemoveAt(q, 1) = Tail(q)
  <2>1. SubSeq(q, 1, 1 - 1) = <<>>
    OBVIOUS
  <2>2. SubSeq(q, 1 + 1, Len(q)) = Tail(q)
    BY TailIsSubSeq
  <2>3. Tail(q) \in Seq(Batch)
    BY HeadTailProperties
  <2>4. QED
    BY <2>1, <2>2, <2>3, ConcatEmptySeq DEF RemoveAt
<1>6. \E i \in 1 .. Len(q) : q[i].id = id
  BY <1>1
<1>7. QED
  BY <1>2, <1>3, <1>4, <1>5, <1>6 DEF RemoveFirstMatch
-----------------------------------------------------------------------------
(* The inductive invariant of the queue.                                   *)

Written == 1 .. Len(issued)

\* A write is still on disk.
Waits(n) == \E u \in Users : \E i \in 1 .. Len(queue[u]) : queue[u][i].n = n

HistoryFits ==
    /\ Len(by) = Len(issued)
    /\ applied \subseteq Written /\ rejected \subseteq Written

QueuesHoldWrites ==
    \A u \in Users : \A i \in 1 .. Len(queue[u]) :
        /\ queue[u][i].id < nextId
        /\ queue[u][i].n \in Written
        /\ issued[queue[u][i].n] = queue[u][i]
        /\ by[queue[u][i].n] = u

\* What the pipeline and the ids rest on.
Shape ==
    /\ QueueTypeOK
    /\ HistoryFits
    /\ \A u \in Users : InOrder(queue[u])
    /\ QueuesHoldWrites
    /\ PipelineIsPrefix
    /\ SomethingIsUnderWay

AnsweredAreApplied == \A i \in 1 .. answers : pipeline[i].n \in applied

CallbacksFit ==
    \A c \in callbacks : \E i \in 1 .. Len(queue[c.user]) :
        queue[c.user][i].id = c.id /\ queue[c.user][i].n = c.n

ToldAreOver == \A t \in told : t.n \in Written /\ ~Waits(t.n)

NoneLost == \A n \in Written : n \in applied \cup rejected \/ Waits(n)

\* What has become of the writes.
Story ==
    /\ AnsweredAreApplied
    /\ CallbacksFit
    /\ ToldAreOver
    /\ CallbacksTellTheTruth
    /\ NoneLost
    /\ AppliedInOrder

QueueInv == Shape /\ Story

LEMMA PendingWait ==
  ASSUME QueueTypeOK, NEW n
  PROVE  n \in {b.n : b \in Pending} <=> Waits(n)
<1>1. \A u \in Users : DOMAIN queue[u] = 1 .. Len(queue[u])
  BY DEF QueueTypeOK
<1>2. QED
  BY <1>1 DEF Waits, Pending, ToSet

LEMMA StartedStarts ==
  ASSUME NEW s \in Streams, NEW p
  PROVE  /\ Started(s, p) \in Streams
         /\ p # <<>> => IsStarted(Started(s, p))
BY DEF Started, IsStarted, Streams

\* Wherever the pipeline is set anew, it is filled and the stream started.
LEMMA GoingOn ==
  ASSUME NEW q \in Seq(Batch), InOrder(q), NEW k \in 0 .. Len(q), k <= MaxPending,
         NEW s \in Streams, Goes(SubSeq(q, 1, k), q, s)
  PROVE  /\ pipeline' = Beginning(q)
         /\ stream' \in Streams
         /\ q # <<>> => IsStarted(stream')
<1>1. Filled(SubSeq(q, 1, k), q) = Beginning(q)
  BY FillingFills
<1>2. stream' = Started(s, Beginning(q)) /\ pipeline' = Beginning(q)
  BY <1>1 DEF Goes
<1>3. Beginning(q) = <<>> <=> q = <<>>
  BY BeginningFacts
<1>4. QED
  BY <1>2, <1>3, StartedStarts

\* The writes of a queue are apart from each other and from those of the others.
LEMMA WritesAreApart ==
  ASSUME Shape, NEW u \in Users, NEW i \in 1 .. Len(queue[u]),
         NEW v \in Users, NEW j \in 1 .. Len(queue[v])
  PROVE  /\ queue[u][i].n = queue[v][j].n => u = v /\ i = j
         /\ u = v /\ queue[u][i].id = queue[v][j].id => i = j
<1>1. /\ queue[u] \in Seq(Batch) /\ queue[v] \in Seq(Batch)
      /\ InOrder(queue[u])
  BY DEF Shape, QueueTypeOK
<1>2. /\ queue[u][i].n \in Nat /\ queue[u][i].id \in Nat
      /\ queue[v][j].n \in Nat /\ queue[v][j].id \in Nat
  BY <1>1, BatchesAre
<1>3. queue[u][i].n = queue[v][j].n => u = v
  BY DEF Shape, QueuesHoldWrites
<1>4. u = v => (i < j => queue[u][i].id < queue[u][j].id /\ queue[u][i].n < queue[u][j].n)
            /\ (j < i => queue[u][j].id < queue[u][i].id /\ queue[u][j].n < queue[u][i].n)
  BY <1>1 DEF InOrder
<1>5. i \in Nat /\ j \in Nat
  OBVIOUS
<1>6. QED
  BY <1>2, <1>3, <1>4, <1>5

\* The pipeline, entry by entry.
LEMMA PipelineIs ==
  ASSUME Shape
  PROVE  /\ queue[user] \in Seq(Batch) /\ InOrder(queue[user])
         /\ pipeline \in Seq(Batch)
         /\ Len(pipeline) \in Nat /\ Len(pipeline) <= MaxPending
         /\ Len(pipeline) <= Len(queue[user])
         /\ \A i \in 1 .. Len(pipeline) : i \in 1 .. Len(queue[user]) /\ pipeline[i] = queue[user][i]
         /\ pipeline = SubSeq(queue[user], 1, Len(pipeline))
         /\ pipeline = <<>> <=> queue[user] = <<>>
<1>1. queue[user] \in Seq(Batch) /\ InOrder(queue[user]) /\ pipeline = Beginning(queue[user])
  BY DEF Shape, QueueTypeOK, PipelineIsPrefix
<1>2. MaxPending \in Nat \ {0} /\ Len(queue[user]) \in Nat
  BY <1>1, WriteQueueAssumption
<1>3. Len(pipeline) = IF Len(queue[user]) < MaxPending THEN Len(queue[user]) ELSE MaxPending
  BY <1>1, BeginningFacts
<1>4. pipeline = SubSeq(queue[user], 1, Len(pipeline))
  BY <1>1, <1>3 DEF Beginning
<1>5. Len(pipeline) \in Nat /\ Len(pipeline) <= MaxPending /\ Len(pipeline) <= Len(queue[user])
  BY <1>2, <1>3
<1>6. /\ pipeline \in Seq(Batch)
      /\ \A i \in 1 .. Len(pipeline) : i \in 1 .. Len(queue[user]) /\ pipeline[i] = queue[user][i]
      /\ pipeline = <<>> <=> queue[user] = <<>>
  BY <1>1, BeginningFacts
<1>7. QED
  BY <1>1, <1>4, <1>5, <1>6
-----------------------------------------------------------------------------
(* What each step of the queue keeps.                                      *)

LEMMA QueueInitHolds ==
  ASSUME QueueInit, docs \in [Docs -> Values \cup {Null}]
  PROVE  QueueInv
<1>1. \A u \in Users : queue[u] = <<>> /\ Len(queue[u]) = 0
  BY DEF QueueInit
<1>2. queue[user] = <<>> /\ user \in Users /\ pipeline = <<>>
  BY DEF QueueInit
<1>3. QueueTypeOK
  BY EmptySeq DEF QueueInit, QueueTypeOK, Streams
<1>4. HistoryFits /\ Written = {}
  BY DEF QueueInit, HistoryFits, Written
<1>5. (\A u \in Users : InOrder(queue[u])) /\ QueuesHoldWrites
  BY <1>1 DEF InOrder, QueuesHoldWrites
<1>6. PipelineIsPrefix /\ SomethingIsUnderWay
  BY <1>2, BeginningFacts, EmptySeq DEF PipelineIsPrefix, SomethingIsUnderWay
<1>7. Story
  BY <1>4 DEF Story, AnsweredAreApplied, CallbacksFit, ToldAreOver, CallbacksTellTheTruth,
              NoneLost, AppliedInOrder, QueueInit, Written
<1>8. QED
  BY <1>3, <1>4, <1>5, <1>6, <1>7 DEF QueueInv, Shape

\* The story goes on as it was while nothing is made, answered or taken off.
LEMMA StoryStays ==
  ASSUME Story, UNCHANGED <<queue, history>>,
         callbacks' \subseteq callbacks,
         answers' = 0 \/ (answers' = answers /\ pipeline' = pipeline)
  PROVE  Story'
<1>1. \A n : Waits(n)' <=> Waits(n)
  BY DEF Waits, history
<1>2. Written' = Written
  BY DEF Written, history
<1>3. AnsweredAreApplied'
  BY DEF Story, AnsweredAreApplied, history
<1>4. CallbacksFit'
  BY DEF Story, CallbacksFit, history
<1>5. ToldAreOver' /\ NoneLost'
  BY <1>1, <1>2 DEF Story, ToldAreOver, NoneLost, history
<1>6. CallbacksTellTheTruth' /\ AppliedInOrder'
  BY DEF Story, CallbacksTellTheTruth, AppliedInOrder, history
<1>7. QED
  BY <1>3, <1>4, <1>5, <1>6 DEF Story

\* The events of the stream that say nothing of a write.
LEMMA StreamMovesKeep ==
  ASSUME QueueInv, HandshakeCompletes \/ IdleStops \/ BackoffElapses \/ StreamBreaks
  PROVE  QueueInv'
<1>1. /\ UNCHANGED <<user, queue, nextId, callbacks, pipeline, docs, history>>
      /\ answers' \in {0, answers}
  BY DEF HandshakeCompletes, IdleStops, BackoffElapses, StreamBreaks, history
<1>2. Shape /\ Story
  BY DEF QueueInv
<1>3. stream' \in Streams /\ (pipeline # <<>> => IsStarted(stream'))
  BY <1>2, StartedStarts DEF HandshakeCompletes, IdleStops, BackoffElapses, StreamBreaks,
        Shape, QueueTypeOK, Streams, IsStarted
<1>4. QueueTypeOK'
  <2>1. QueueTypeOK
    BY <1>2 DEF Shape
  <2>2. answers' \in 0 .. Len(pipeline)
    <3>1. answers \in 0 .. Len(pipeline) /\ Len(pipeline) \in Nat
      BY <1>2, <2>1, PipelineIs DEF QueueTypeOK
    <3>2. QED
      BY <1>1, <3>1
  <2>3. UNCHANGED <<issued, by, applied, rejected, told>>
    BY <1>1 DEF history
  <2>4. QED
    BY <1>1, <1>3, <2>1, <2>2, <2>3 DEF QueueTypeOK
<1>5. HistoryFits' /\ (\A u \in Users : InOrder(queue[u]))' /\ QueuesHoldWrites'
  BY <1>1, <1>2 DEF Shape, HistoryFits, InOrder, QueuesHoldWrites, Written, history
<1>6. PipelineIsPrefix' /\ SomethingIsUnderWay'
  BY <1>1, <1>2, <1>3, PipelineIs DEF Shape, PipelineIsPrefix, SomethingIsUnderWay, Beginning
<1>7. Story'
  BY <1>1, <1>2, StoryStays DEF history
<1>8. QED
  BY <1>4, <1>5, <1>6, <1>7 DEF QueueInv, Shape

\* More than any id on disk.
LEMMA NextIdFits ==
  ASSUME Shape
  PROVE  /\ NextIdOf(queue) \in Nat
         /\ \A u \in Users : \A i \in 1 .. Len(queue[u]) : queue[u][i].id < NextIdOf(queue)
<1> DEFINE ids == UNION {{b.id : b \in ToSet(queue[u])} : u \in Users}
           more == {i \in Nat : \A j \in ids : i > j}
<1>1. \A u \in Users : DOMAIN queue[u] = 1 .. Len(queue[u]) /\ queue[u] \in Seq(Batch)
  BY DEF Shape, QueueTypeOK
<1>2. \A j : j \in ids <=> \E u \in Users : \E i \in 1 .. Len(queue[u]) : j = queue[u][i].id
  BY <1>1 DEF ToSet
<1>3. \A j \in ids : j \in Nat /\ j < nextId
  <2> HIDE DEF ids
  <2> SUFFICES ASSUME NEW j \in ids PROVE j \in Nat /\ j < nextId
    OBVIOUS
  <2>1. PICK u \in Users : \E i \in 1 .. Len(queue[u]) : j = queue[u][i].id
    BY <1>2
  <2>2. QED
    BY <1>1, <2>1, BatchesAre DEF Shape, QueuesHoldWrites
<1>4. nextId \in more
  BY <1>3 DEF Shape, QueueTypeOK
<1> HIDE DEF ids
<1>5. PICK k \in more : \A i \in more : k <= i
  <2>1. more \subseteq Nat /\ more # {}
    BY <1>4
  <2> HIDE DEF more
  <2>2. QED
    BY <2>1, LeastNat
<1>6. k \in {0} \cup {j + 1 : j \in ids}
  <2>1. CASE k = 0
    BY <2>1
  <2>2. CASE k # 0
    <3>1. k - 1 \in Nat /\ k - 1 \notin more
      BY <1>5, <2>2
    <3>2. PICK j \in ids : ~(k - 1 > j)
      BY <3>1
    <3>3. j \in Nat /\ k > j
      BY <1>3, <1>5
    <3>4. k = j + 1
      BY <3>2, <3>3
    <3>5. QED
      BY <3>4
  <2>3. QED
    BY <2>1, <2>2
<1>7. \E i \in {0} \cup {j + 1 : j \in ids} : \A j \in ids : i > j
  BY <1>5, <1>6
<1>8. NextIdOf(queue) \in {0} \cup {j + 1 : j \in ids} /\ \A j \in ids : NextIdOf(queue) > j
  BY <1>7 DEF NextIdOf, ids
<1>9. NextIdOf(queue) \in Nat
  BY <1>3, <1>8
<1>10. QED
  BY <1>2, <1>3, <1>8, <1>9

\* Another user's queue, or the same one after a restart.
LEMMA TurningKeeps ==
  ASSUME QueueInv, NEW u \in Users, TurnsTo(u) \/ (u = user /\ Restarts)
  PROVE  QueueInv'
<1>1. Shape /\ Story
  BY DEF QueueInv
<1>2. /\ user' = u /\ answers' = 0
      /\ nextId' \in {nextId, NextIdOf(queue)}
      /\ callbacks' \subseteq callbacks
      /\ UNCHANGED <<queue, docs, history>>
  BY DEF TurnsTo, Restarts, history
<1>3. queue[u] \in Seq(Batch) /\ InOrder(queue[u])
  BY <1>1 DEF Shape, QueueTypeOK
<1>4. PICK s \in Streams : Goes(<<>>, queue[u], s)
  BY <1>1 DEF TurnsTo, Restarts, Shape, QueueTypeOK, Stopped, IsStarted, Streams
<1>5. /\ pipeline' = Beginning(queue[u])
      /\ stream' \in Streams
      /\ queue[u] # <<>> => IsStarted(stream')
  <2>1. SubSeq(queue[u], 1, 0) = <<>>
    OBVIOUS
  <2>2. 0 \in 0 .. Len(queue[u]) /\ 0 <= MaxPending
    BY <1>3, WriteQueueAssumption
  <2>3. Goes(SubSeq(queue[u], 1, 0), queue[u], s)
    BY <1>4, <2>1
  <2>4. QED
    BY <1>3, <2>2, <2>3, GoingOn
<1>6. nextId' \in Nat /\ \A v \in Users : \A i \in 1 .. Len(queue[v]) : queue[v][i].id < nextId'
  BY <1>1, <1>2, NextIdFits DEF Shape, QueueTypeOK, QueuesHoldWrites
<1>7. QueueTypeOK'
  <2>1. pipeline' \in Seq(Batch) /\ 0 \in 0 .. Len(pipeline')
    BY <1>3, <1>5, BeginningFacts, LenProperties
  <2>2. QED
    BY <1>1, <1>2, <1>5, <1>6, <2>1 DEF Shape, QueueTypeOK, history
<1>8. HistoryFits' /\ (\A v \in Users : InOrder(queue[v]))'
  BY <1>1, <1>2 DEF Shape, HistoryFits, InOrder, Written, history
<1>9. QueuesHoldWrites'
  BY <1>1, <1>2, <1>6 DEF Shape, QueuesHoldWrites, Written, history
<1>10. PipelineIsPrefix' /\ SomethingIsUnderWay'
  BY <1>2, <1>5 DEF PipelineIsPrefix, SomethingIsUnderWay, Beginning
<1>11. Story'
  BY <1>1, <1>2, StoryStays DEF history
<1>12. QED
  BY <1>7, <1>8, <1>9, <1>10, <1>11 DEF QueueInv, Shape

\* A write made now: it goes to the end of the present user's queue.
LEMMA IssuingAppends ==
  ASSUME Shape, NEW d \in Docs, NEW v \in Values, Issues(d, v)
  PROVE  LET b == [id |-> nextId, n |-> Len(issued) + 1, doc |-> d, value |-> v] IN
         /\ b \in Batch
         /\ issued' \in Seq(Batch) /\ Len(issued') = Len(issued) + 1
         /\ \A n \in Written : issued'[n] = issued[n]
         /\ issued'[Len(issued) + 1] = b
         /\ by' \in Seq(Users) /\ Len(by') = Len(issued')
         /\ \A n \in Written : by'[n] = by[n]
         /\ by'[Len(issued) + 1] = user
         /\ queue' \in [Users -> Seq(Batch)]
         /\ \A u \in Users : u # user => queue'[u] = queue[u]
         /\ queue'[user] = Append(queue[user], b)
         /\ Len(queue'[user]) = Len(queue[user]) + 1
         /\ \A i \in 1 .. Len(queue[user]) : queue'[user][i] = queue[user][i]
         /\ queue'[user][Len(queue[user]) + 1] = b
<1> DEFINE b == [id |-> nextId, n |-> Len(issued) + 1, doc |-> d, value |-> v]
<1>1. /\ issued \in Seq(Batch) /\ by \in Seq(Users) /\ Len(by) = Len(issued)
      /\ queue \in [Users -> Seq(Batch)] /\ user \in Users /\ nextId \in Nat
      /\ Len(issued) \in Nat
  BY DEF Shape, QueueTypeOK, HistoryFits
<1>2. b \in Batch /\ b = [id |-> nextId, n |-> Len(issued) + 1, doc |-> d, value |-> v]
  BY <1>1 DEF Batch
<1>3. /\ queue' = [queue EXCEPT ![user] = Append(@, b)]
      /\ issued' = Append(issued, b) /\ by' = Append(by, user)
  BY DEF Issues
<1> HIDE DEF b
<1>4. /\ issued' \in Seq(Batch) /\ Len(issued') = Len(issued) + 1
      /\ \A n \in Written : issued'[n] = issued[n]
      /\ issued'[Len(issued) + 1] = b
  BY <1>1, <1>2, <1>3, AppendProperties DEF Written
<1>5. /\ by' \in Seq(Users) /\ Len(by') = Len(issued')
      /\ \A n \in Written : by'[n] = by[n]
      /\ by'[Len(issued) + 1] = user
  BY <1>1, <1>3, <1>4, AppendProperties DEF Written
<1>6. /\ queue'[user] = Append(queue[user], b) /\ queue[user] \in Seq(Batch)
      /\ \A u \in Users : u # user => queue'[u] = queue[u]
  BY <1>1, <1>3
<1>7. /\ queue'[user] \in Seq(Batch)
      /\ Len(queue'[user]) = Len(queue[user]) + 1
      /\ \A i \in 1 .. Len(queue[user]) : queue'[user][i] = queue[user][i]
      /\ queue'[user][Len(queue[user]) + 1] = b
  BY <1>2, <1>6, AppendProperties
<1>8. queue' \in [Users -> Seq(Batch)]
  BY <1>1, <1>2, <1>3, <1>6, <1>7
<1>9. QED
  BY <1>2, <1>4, <1>5, <1>6, <1>7, <1>8

LEMMA IssuingKeeps ==
  ASSUME QueueInv, NEW d \in Docs, NEW v \in Values, Issues(d, v)
  PROVE  QueueInv'
<1> DEFINE b == [id |-> nextId, n |-> Len(issued) + 1, doc |-> d, value |-> v]
           q == queue[user]
           last == Len(q) + 1
           N == Len(issued) + 1
<1>1. Shape /\ Story
  BY DEF QueueInv
<1>2. /\ UNCHANGED <<user, answers, docs, applied, rejected, told>>
      /\ nextId' = nextId + 1
      /\ Goes(pipeline, queue'[user], stream)
      /\ callbacks' = {c \in callbacks : ~(c.user = user /\ c.id = nextId)}
                         \cup {[user |-> user, id |-> nextId, n |-> N]}
  BY DEF Issues
<1>3. /\ user \in Users /\ nextId \in Nat /\ Len(issued) \in Nat /\ stream \in Streams
      /\ callbacks \subseteq [user : Users, id : Nat, n : Nat]
      /\ \A u \in Users : queue[u] \in Seq(Batch) /\ Len(queue[u]) \in Nat
      /\ answers \in 0 .. Len(pipeline)
  BY <1>1 DEF Shape, QueueTypeOK
<1>4. /\ b \in Batch /\ b.id = nextId /\ b.n = N
      /\ issued' \in Seq(Batch) /\ by' \in Seq(Users)
      /\ Len(issued') = N /\ Len(by') = N
      /\ queue' \in [Users -> Seq(Batch)]
  BY <1>1, IssuingAppends
<1>5. /\ \A n \in Written : issued'[n] = issued[n] /\ by'[n] = by[n]
      /\ issued'[N] = b /\ by'[N] = user
  BY <1>1, IssuingAppends
<1>6. /\ \A u \in Users : u # user => queue'[u] = queue[u]
      /\ Len(queue'[user]) = last
      /\ \A i \in 1 .. Len(q) : queue'[user][i] = q[i]
      /\ queue'[user][last] = b
  BY <1>1, IssuingAppends
<1>7. Written' = Written \cup {N} /\ Written = 1 .. Len(issued)
  BY <1>3, <1>4 DEF Written
<1>8. \A u \in Users : \A i \in 1 .. Len(queue'[u]) :
        \/ i \in 1 .. Len(queue[u]) /\ queue'[u][i] = queue[u][i]
        \/ u = user /\ i = last /\ queue'[u][i] = b
  <2> HIDE DEF b
  <2> SUFFICES ASSUME NEW u \in Users, NEW i \in 1 .. Len(queue'[u])
               PROVE  \/ i \in 1 .. Len(queue[u]) /\ queue'[u][i] = queue[u][i]
                      \/ u = user /\ i = last /\ queue'[u][i] = b
    OBVIOUS
  <2>1. CASE u # user
    BY <1>6, <2>1
  <2>2. CASE u = user
    BY <1>3, <1>6, <2>2
  <2>3. QED
    BY <2>1, <2>2
<1>9. \A u \in Users : \A i \in 1 .. Len(queue[u]) :
        i \in 1 .. Len(queue'[u]) /\ queue'[u][i] = queue[u][i]
  <2> SUFFICES ASSUME NEW u \in Users, NEW i \in 1 .. Len(queue[u])
               PROVE  i \in 1 .. Len(queue'[u]) /\ queue'[u][i] = queue[u][i]
    OBVIOUS
  <2> HIDE DEF b
  <2>1. CASE u # user
    BY <1>6, <2>1
  <2>2. CASE u = user
    BY <1>3, <1>6, <2>2
  <2>3. QED
    BY <2>1, <2>2
<1> HIDE DEF b, N, last
<1>10. \A u \in Users : InOrder(queue'[u])
  <2> SUFFICES ASSUME NEW u \in Users, NEW i \in 1 .. Len(queue'[u]),
                      NEW j \in 1 .. Len(queue'[u]), i < j
               PROVE  queue'[u][i].id < queue'[u][j].id /\ queue'[u][i].n < queue'[u][j].n
    BY DEF InOrder
  <2>1. i \in 1 .. Len(queue[u]) /\ queue'[u][i] = queue[u][i]
    BY <1>3, <1>6, <1>8 DEF last
  <2>2. queue[u][i].id < nextId /\ queue[u][i].n \in 1 .. Len(issued)
    BY <1>1, <2>1 DEF Shape, QueuesHoldWrites, Written
  <2>3. CASE j \in 1 .. Len(queue[u]) /\ queue'[u][j] = queue[u][j]
    <3>1. InOrder(queue[u])
      BY <1>1 DEF Shape
    <3>2. QED
      BY <2>1, <2>3, <3>1 DEF InOrder
  <2>4. CASE queue'[u][j] = b
    <3>1. queue'[u][j].id = nextId /\ queue'[u][j].n = N
      BY <1>4, <2>4
    <3>2. queue[u][i].n < N
      BY <1>3, <2>2 DEF N
    <3>3. QED
      BY <2>1, <2>2, <3>1, <3>2
  <2>5. QED
    BY <1>8, <2>3, <2>4
<1>11. QueuesHoldWrites'
  <2> SUFFICES ASSUME NEW u \in Users, NEW i \in 1 .. Len(queue'[u])
               PROVE  /\ queue'[u][i].id < nextId'
                      /\ queue'[u][i].n \in Written'
                      /\ issued'[queue'[u][i].n] = queue'[u][i]
                      /\ by'[queue'[u][i].n] = u
    BY DEF QueuesHoldWrites
  <2>1. CASE i \in 1 .. Len(queue[u]) /\ queue'[u][i] = queue[u][i]
    <3>1. queue[u][i].id \in Nat
      BY <1>3, <2>1, BatchesAre
    <3>2. /\ queue[u][i].id < nextId
          /\ queue[u][i].n \in Written
          /\ issued[queue[u][i].n] = queue[u][i]
          /\ by[queue[u][i].n] = u
      BY <1>1, <2>1 DEF Shape, QueuesHoldWrites
    <3>3. queue[u][i].id < nextId'
      BY <1>2, <1>3, <3>1, <3>2
    <3>4. /\ queue[u][i].n \in Written'
          /\ issued'[queue[u][i].n] = queue[u][i]
          /\ by'[queue[u][i].n] = u
      BY <1>5, <1>7, <3>2
    <3>5. QED
      BY <2>1, <3>3, <3>4
  <2>2. CASE u = user /\ queue'[u][i] = b
    BY <1>2, <1>3, <1>4, <1>5, <1>7, <2>2
  <2>3. QED
    BY <1>8, <2>1, <2>2
<1>12. /\ pipeline' = Beginning(queue'[user])
       /\ stream' \in Streams
       /\ queue'[user] # <<>> => IsStarted(stream')
  <2>1. /\ queue'[user] \in Seq(Batch) /\ InOrder(queue'[user])
        /\ Len(pipeline) \in 0 .. Len(queue'[user]) /\ Len(pipeline) <= MaxPending
    BY <1>1, <1>3, <1>4, <1>6, <1>10, PipelineIs DEF last
  <2>2. pipeline = SubSeq(queue'[user], 1, Len(pipeline))
    <3>1. pipeline \in Seq(Batch) /\ \A i \in 1 .. Len(pipeline) : pipeline[i] = queue'[user][i]
      BY <1>1, <1>6, PipelineIs
    <3>2. /\ SubSeq(queue'[user], 1, Len(pipeline)) \in Seq(Batch)
          /\ Len(SubSeq(queue'[user], 1, Len(pipeline))) = Len(pipeline)
          /\ \A i \in 1 .. Len(pipeline) :
                SubSeq(queue'[user], 1, Len(pipeline))[i] = queue'[user][i]
      BY <2>1
    <3>3. QED
      BY <3>1, <3>2, SeqEqual
  <2>3. Goes(SubSeq(queue'[user], 1, Len(pipeline)), queue'[user], stream)
    BY <1>2, <2>2
  <2>4. QED
    BY <1>3, <2>1, <2>3, GoingOn
<1>13. /\ Len(pipeline') \in Nat /\ Len(pipeline) <= Len(pipeline')
       /\ pipeline' \in Seq(Batch)
       /\ \A i \in 1 .. Len(pipeline) : pipeline'[i] = pipeline[i]
  <2>1. queue'[user] \in Seq(Batch)
    BY <1>3, <1>4
  <2>2. /\ pipeline' \in Seq(Batch)
        /\ Len(pipeline') = IF last < MaxPending THEN last ELSE MaxPending
        /\ \A i \in 1 .. Len(pipeline') : pipeline'[i] = queue'[user][i]
    BY <1>6, <1>12, <2>1, BeginningFacts
  <2>3. /\ Len(pipeline) <= MaxPending /\ Len(pipeline) <= Len(q) /\ Len(pipeline) \in Nat
        /\ \A i \in 1 .. Len(pipeline) : i \in 1 .. Len(q) /\ pipeline[i] = q[i]
    BY <1>1, PipelineIs
  <2>4. Len(pipeline') \in Nat /\ Len(pipeline) <= Len(pipeline')
    BY <1>3, <2>2, <2>3, WriteQueueAssumption DEF last
  <2>5. QED
    BY <1>6, <2>2, <2>3, <2>4
<1>14. QueueTypeOK'
  <2>1. callbacks' \subseteq [user : Users, id : Nat, n : Nat] /\ nextId' \in Nat
    BY <1>2, <1>3 DEF N
  <2>2. answers' \in 0 .. Len(pipeline')
    BY <1>2, <1>3, <1>13
  <2>3. QED
    BY <1>1, <1>2, <1>4, <1>12, <1>13, <2>1, <2>2 DEF Shape, QueueTypeOK
<1>15. HistoryFits'
  BY <1>1, <1>2, <1>4, <1>7 DEF Shape, HistoryFits
<1>16. PipelineIsPrefix' /\ SomethingIsUnderWay'
  BY <1>2, <1>12 DEF PipelineIsPrefix, SomethingIsUnderWay, Beginning
<1>17. AnsweredAreApplied'
  BY <1>1, <1>2, <1>3, <1>13 DEF Story, AnsweredAreApplied
<1>18. CallbacksFit'
  <2> SUFFICES ASSUME NEW c \in callbacks'
               PROVE  \E i \in 1 .. Len(queue'[c.user]) :
                         queue'[c.user][i].id = c.id /\ queue'[c.user][i].n = c.n
    BY DEF CallbacksFit
  <2>1. CASE c \in callbacks
    <3>1. c.user \in Users
      BY <1>3, <2>1
    <3>2. PICK i \in 1 .. Len(queue[c.user]) :
             queue[c.user][i].id = c.id /\ queue[c.user][i].n = c.n
      BY <1>1, <2>1 DEF Story, CallbacksFit
    <3>3. QED
      BY <1>9, <3>1, <3>2
  <2>2. CASE c = [user |-> user, id |-> nextId, n |-> N]
    <3>1. last \in 1 .. Len(queue'[user])
      BY <1>3, <1>6 DEF last
    <3>2. QED
      BY <1>4, <1>6, <2>2, <3>1
  <2>3. QED
    BY <1>2, <2>1, <2>2
<1>19. \A n : Waits(n)' <=> Waits(n) \/ n = N
  <2> TAKE n
  <2>1. Waits(n)' => Waits(n) \/ n = N
    BY <1>4, <1>8 DEF Waits
  <2>2. Waits(n) => Waits(n)'
    BY <1>9 DEF Waits
  <2>3. ASSUME n = N PROVE Waits(n)'
    <3>1. last \in 1 .. Len(queue'[user])
      BY <1>3, <1>6 DEF last
    <3>2. queue'[user][last].n = N
      BY <1>4, <1>6
    <3>3. QED
      BY <1>3, <2>3, <3>1, <3>2 DEF Waits
  <2>4. QED
    BY <2>1, <2>2, <2>3
<1>20. ToldAreOver' /\ NoneLost'
  <2>1. N \notin Written
    BY <1>3 DEF N, Written
  <2>2. QED
    BY <1>1, <1>2, <1>7, <1>19, <2>1 DEF Story, ToldAreOver, NoneLost
<1>21. CallbacksTellTheTruth'
  BY <1>1, <1>2 DEF Story, CallbacksTellTheTruth
<1>22. AppliedInOrder'
  <2> SUFFICES ASSUME NEW m \in Written', NEW n \in Written',
                      m < n, by'[m] = by'[n], n \in applied'
               PROVE  m \in (applied \cup rejected)'
    BY DEF AppliedInOrder, Written
  <2>1. n \in Written /\ n \in applied
    BY <1>1, <1>2 DEF Shape, HistoryFits
  <2>2. m \in Written
    BY <1>3, <1>7, <2>1 DEF N
  <2>3. QED
    BY <1>1, <1>2, <1>5, <2>1, <2>2 DEF Story, AppliedInOrder, Written
<1>23. QED
  BY <1>10, <1>11, <1>14, <1>15, <1>16, <1>17, <1>18, <1>20, <1>21, <1>22
     DEF QueueInv, Shape, Story

\* The first write of the pipeline is the first of the queue, and goes from both.
LEMMA DroppingTails ==
  ASSUME Shape, pipeline # <<>>, NEW s \in Streams, Drops(Head(pipeline).id, s)
  PROVE  /\ 1 \in 1 .. Len(queue[user]) /\ Head(pipeline) = queue[user][1]
         /\ queue' \in [Users -> Seq(Batch)]
         /\ \A u \in Users : u # user => queue'[u] = queue[u]
         /\ Len(queue'[user]) = Len(queue[user]) - 1
         /\ \A i \in 1 .. Len(queue'[user]) :
               i + 1 \in 1 .. Len(queue[user]) /\ queue'[user][i] = queue[user][i + 1]
         /\ \A u \in Users : InOrder(queue'[u])
         /\ pipeline' = Beginning(queue'[user])
         /\ stream' \in Streams
         /\ queue'[user] # <<>> => IsStarted(stream')
<1> DEFINE q == queue[user]
           k == Len(pipeline)
<1>1. /\ q \in Seq(Batch) /\ InOrder(q) /\ user \in Users
      /\ queue \in [Users -> Seq(Batch)] /\ \A u \in Users : InOrder(queue[u])
  BY DEF Shape, QueueTypeOK
<1>2. /\ pipeline \in Seq(Batch) /\ k \in Nat /\ k <= MaxPending /\ k <= Len(q)
      /\ \A i \in 1 .. k : i \in 1 .. Len(q) /\ pipeline[i] = q[i]
      /\ q # <<>>
  BY PipelineIs
<1>3. 1 \in 1 .. k /\ Head(pipeline) = q[1] /\ 1 \in 1 .. Len(q)
  BY <1>1, <1>2, EmptySeq
<1>4. queue' = [queue EXCEPT ![user] = Tail(q)]
  <2>1. Head(pipeline).id = q[1].id
    BY <1>3
  <2>2. RemoveFirstMatch(q, LAMBDA b : b.id = Head(pipeline).id) = Tail(q)
    BY <1>1, <1>2, <2>1, RemovingFirst DEF RemoveFirstMatch, SelectInSeq
  <2>3. queue' = [queue EXCEPT ![user] = RemoveFirstMatch(q, LAMBDA b : b.id = Head(pipeline).id)]
    BY DEF Drops
  <2>4. QED
    BY <2>2, <2>3
<1>5. /\ Tail(q) \in Seq(Batch) /\ Len(Tail(q)) = Len(q) - 1
      /\ \A i \in 1 .. Len(Tail(q)) : Tail(q)[i] = q[i + 1]
  BY <1>1, <1>2, HeadTailProperties
<1>6. /\ queue' \in [Users -> Seq(Batch)]
      /\ \A u \in Users : u # user => queue'[u] = queue[u]
      /\ queue'[user] = Tail(q)
  BY <1>1, <1>4, <1>5
<1>7. \A i \in 1 .. Len(Tail(q)) : i + 1 \in 1 .. Len(q)
  BY <1>1, <1>5
<1>8. InOrder(Tail(q))
  <2> SUFFICES ASSUME NEW i \in 1 .. Len(Tail(q)), NEW j \in 1 .. Len(Tail(q)), i < j
               PROVE  Tail(q)[i].id < Tail(q)[j].id /\ Tail(q)[i].n < Tail(q)[j].n
    BY DEF InOrder
  <2>1. i + 1 \in 1 .. Len(q) /\ j + 1 \in 1 .. Len(q) /\ i + 1 < j + 1
    BY <1>7
  <2>2. q[i + 1].id < q[j + 1].id /\ q[i + 1].n < q[j + 1].n
    BY <1>1, <2>1 DEF InOrder
  <2>3. QED
    BY <1>5, <2>2
<1>9. \A u \in Users : InOrder(queue'[u])
  BY <1>1, <1>6, <1>8
<1>10. Goes(Tail(pipeline), Tail(q), s)
  BY <1>6 DEF Drops
<1>11. Tail(pipeline) = SubSeq(Tail(q), 1, k - 1)
  <2>1. /\ Tail(pipeline) \in Seq(Batch) /\ Len(Tail(pipeline)) = k - 1
        /\ \A i \in 1 .. k - 1 : Tail(pipeline)[i] = pipeline[i + 1]
    BY <1>2, HeadTailProperties
  <2>2. \A i \in 1 .. k - 1 : /\ i \in 1 .. Len(Tail(q))
                              /\ pipeline[i + 1] = Tail(q)[i]
    BY <1>1, <1>2, <1>5
  <2>3. k - 1 \in Nat /\ k - 1 <= Len(Tail(q))
    BY <1>1, <1>2, <1>3, <1>5
  <2>4. /\ SubSeq(Tail(q), 1, k - 1) \in Seq(Batch)
        /\ Len(SubSeq(Tail(q), 1, k - 1)) = k - 1
        /\ \A i \in 1 .. k - 1 : SubSeq(Tail(q), 1, k - 1)[i] = Tail(q)[i]
    <3> DEFINE r == Tail(q)
    <3>1. r \in Seq(Batch) /\ k - 1 \in Nat /\ k - 1 <= Len(r)
      BY <1>5, <2>3
    <3> HIDE DEF r, q, k
    <3>2. /\ SubSeq(r, 1, k - 1) \in Seq(Batch)
          /\ Len(SubSeq(r, 1, k - 1)) = k - 1
          /\ \A i \in 1 .. k - 1 : SubSeq(r, 1, k - 1)[i] = r[i]
      BY <3>1
    <3>3. QED
      BY <3>2 DEF r
  <2>5. QED
    BY <2>1, <2>2, <2>4, SeqEqual
<1>12. k - 1 \in 0 .. Len(Tail(q)) /\ k - 1 <= MaxPending
  BY <1>1, <1>2, <1>3, <1>5, WriteQueueAssumption
<1> HIDE DEF q, k
<1>13. /\ pipeline' = Beginning(Tail(q))
       /\ stream' \in Streams
       /\ Tail(q) # <<>> => IsStarted(stream')
  <2>1. Goes(SubSeq(Tail(q), 1, k - 1), Tail(q), s)
    BY <1>10, <1>11
  <2>2. QED
    BY <1>5, <1>8, <1>12, <2>1, GoingOn
<1>14. QED
  BY <1>3, <1>5, <1>6, <1>7, <1>9, <1>13 DEF q

\* What is still on disk then: all but that write.
LEMMA DroppingLeaves ==
  ASSUME Shape, pipeline # <<>>, NEW s \in Streams, Drops(Head(pipeline).id, s)
  PROVE  /\ \A u \in Users : \A i \in 1 .. Len(queue'[u]) : \E j \in 1 .. Len(queue[u]) :
               queue'[u][i] = queue[u][j] /\ (u = user => j # 1)
         /\ \A u \in Users : \A j \in 1 .. Len(queue[u]) : u # user \/ j # 1 =>
               \E i \in 1 .. Len(queue'[u]) : queue'[u][i] = queue[u][j]
         /\ \A n : Waits(n)' <=> Waits(n) /\ n # queue[user][1].n
<1> DEFINE h == queue[user][1]
<1>1. Shape /\ user \in Users
  BY DEF Shape, QueueTypeOK
<1>2. /\ 1 \in 1 .. Len(queue[user])
      /\ \A u \in Users : u # user => queue'[u] = queue[u]
      /\ Len(queue'[user]) = Len(queue[user]) - 1
      /\ \A i \in 1 .. Len(queue'[user]) :
            i + 1 \in 1 .. Len(queue[user]) /\ queue'[user][i] = queue[user][i + 1]
  BY <1>1, DroppingTails
<1>3. \A u \in Users : \A i \in 1 .. Len(queue'[u]) : \E j \in 1 .. Len(queue[u]) :
         /\ queue'[u][i] = queue[u][j]
         /\ u = user => j # 1
  <2> SUFFICES ASSUME NEW u \in Users, NEW i \in 1 .. Len(queue'[u])
               PROVE  \E j \in 1 .. Len(queue[u]) :
                         queue'[u][i] = queue[u][j] /\ (u = user => j # 1)
    OBVIOUS
  <2>1. CASE u = user
    <3>1. i + 1 \in 1 .. Len(queue[u]) /\ queue'[u][i] = queue[u][i + 1] /\ i + 1 # 1
      BY <1>2, <2>1
    <3>2. QED
      BY <3>1
  <2>2. CASE u # user
    BY <1>2, <2>2
  <2>3. QED
    BY <2>1, <2>2
<1>4. \A u \in Users : \A j \in 1 .. Len(queue[u]) : u # user \/ j # 1 =>
         \E i \in 1 .. Len(queue'[u]) : queue'[u][i] = queue[u][j]
  <2> SUFFICES ASSUME NEW u \in Users, NEW j \in 1 .. Len(queue[u]), u # user \/ j # 1
               PROVE  \E i \in 1 .. Len(queue'[u]) : queue'[u][i] = queue[u][j]
    OBVIOUS
  <2>1. CASE u = user
    <3>1. j - 1 \in 1 .. Len(queue'[u])
      BY <1>1, <1>2, <2>1 DEF Shape, QueueTypeOK
    <3>2. queue'[u][j - 1] = queue[u][(j - 1) + 1] /\ (j - 1) + 1 = j
      BY <1>2, <2>1, <3>1
    <3>3. QED
      BY <3>1, <3>2
  <2>2. CASE u # user
    BY <1>2, <2>2
  <2>3. QED
    BY <2>1, <2>2
<1>5. \A n : Waits(n)' <=> Waits(n) /\ n # h.n
  <2> TAKE n
  <2>1. ASSUME Waits(n)' PROVE Waits(n) /\ n # h.n
    <3>1. PICK u \in Users : \E i \in 1 .. Len(queue'[u]) : queue'[u][i].n = n
      BY <2>1 DEF Waits
    <3>2. PICK i \in 1 .. Len(queue'[u]) : queue'[u][i].n = n
      BY <3>1
    <3>3. PICK j \in 1 .. Len(queue[u]) : queue'[u][i] = queue[u][j] /\ (u = user => j # 1)
      BY <1>3
    <3>4. queue[u][j].n = n
      BY <3>2, <3>3
    <3>5. n # h.n
      BY <1>1, <1>2, <3>3, <3>4, WritesAreApart
    <3>6. QED
      BY <3>4, <3>5 DEF Waits
  <2>2. ASSUME Waits(n), n # h.n PROVE Waits(n)'
    <3>1. PICK u \in Users : \E j \in 1 .. Len(queue[u]) : queue[u][j].n = n
      BY <2>2 DEF Waits
    <3>2. PICK j \in 1 .. Len(queue[u]) : queue[u][j].n = n
      BY <3>1
    <3>3. u # user \/ j # 1
      BY <2>2, <3>2
    <3>4. QED
      BY <1>4, <3>2, <3>3 DEF Waits
  <2>3. QED
    BY <2>1, <2>2
<1>6. QED
  BY <1>3, <1>4, <1>5

\* Only its own callback is told of it.
LEMMA TellingTells ==
  ASSUME QueueInv, 1 \in 1 .. Len(queue[user]), Head(pipeline) = queue[user][1],
         NEW result, Tells(Head(pipeline).id, result)
  PROVE  LET h == queue[user][1] IN
         /\ callbacks' \subseteq callbacks
         /\ \A c \in callbacks' : ~(c.user = user /\ c.id = h.id)
         /\ \A t \in told' \ told : t = [n |-> h.n, result |-> result]
         /\ told \subseteq told'
<1> DEFINE h == queue[user][1]
<1>1. Shape /\ Story /\ user \in Users
  BY DEF QueueInv, Shape, QueueTypeOK
<1>2. 1 \in 1 .. Len(queue[user]) /\ Head(pipeline) = h
  OBVIOUS
<1>3. \A c \in callbacks : c.user = user /\ c.id = h.id => c.n = h.n
  <2> SUFFICES ASSUME NEW c \in callbacks, c.user = user, c.id = h.id PROVE c.n = h.n
    OBVIOUS
  <2>1. PICK i \in 1 .. Len(queue[user]) : queue[user][i].id = h.id /\ queue[user][i].n = c.n
    BY <1>1 DEF Story, CallbacksFit
  <2>2. i = 1
    BY <1>1, <1>2, <2>1, WritesAreApart
  <2>3. QED
    BY <2>1, <2>2
<1>4. QED
  BY <1>2, <1>3 DEF Tells

LEMMA DroppingKeeps ==
  ASSUME QueueInv, pipeline # <<>>,
         NEW s \in Streams, Drops(Head(pipeline).id, s),
         NEW result \in {"ok", "error"}, Tells(Head(pipeline).id, result),
         UNCHANGED <<user, nextId, docs, issued, by, applied>>,
         rejected' = IF result = "ok" THEN rejected ELSE rejected \cup {Head(pipeline).n},
         result = "ok" => Head(pipeline).n \in applied,
         answers' \in 0 .. Len(pipeline) - 1,
         \A i \in 1 .. answers' : pipeline[i + 1].n \in applied
  PROVE  QueueInv'
<1> DEFINE h == queue[user][1]
<1>1. Shape /\ Story /\ user \in Users
  BY DEF QueueInv, Shape, QueueTypeOK
<1>2. /\ 1 \in 1 .. Len(queue[user]) /\ Head(pipeline) = h
      /\ queue' \in [Users -> Seq(Batch)]
      /\ \A u \in Users : u # user => queue'[u] = queue[u]
      /\ Len(queue'[user]) = Len(queue[user]) - 1
      /\ \A i \in 1 .. Len(queue'[user]) :
            i + 1 \in 1 .. Len(queue[user]) /\ queue'[user][i] = queue[user][i + 1]
      /\ \A u \in Users : InOrder(queue'[u])
  BY <1>1, DroppingTails
<1>3. /\ pipeline' = Beginning(queue'[user])
      /\ stream' \in Streams
      /\ queue'[user] # <<>> => IsStarted(stream')
  BY <1>1, DroppingTails
<1>4. h.n \in Written /\ h.n \in Nat /\ h.id \in Nat
  <2>1. queue[user] \in Seq(Batch)
    BY <1>1 DEF Shape, QueueTypeOK
  <2>2. QED
    BY <1>1, <1>2, <2>1, BatchesAre DEF Shape, QueuesHoldWrites
<1>5. /\ \A u \in Users : \A i \in 1 .. Len(queue'[u]) : \E j \in 1 .. Len(queue[u]) :
            queue'[u][i] = queue[u][j] /\ (u = user => j # 1)
      /\ \A u \in Users : \A j \in 1 .. Len(queue[u]) : u # user \/ j # 1 =>
            \E i \in 1 .. Len(queue'[u]) : queue'[u][i] = queue[u][j]
      /\ \A n : Waits(n)' <=> Waits(n) /\ n # h.n
  BY <1>1, DroppingLeaves
<1>6. /\ callbacks' \subseteq callbacks
      /\ \A c \in callbacks' : ~(c.user = user /\ c.id = h.id)
      /\ \A t \in told' \ told : t = [n |-> h.n, result |-> result]
      /\ told \subseteq told'
  BY <1>1, <1>2, TellingTells
<1>7. QueueTypeOK'
  <2>1. callbacks' \subseteq [user : Users, id : Nat, n : Nat]
    BY <1>1, <1>6 DEF Shape, QueueTypeOK
  <2>2. told' \subseteq [n : Nat, result : {"ok", "error"}]
    BY <1>1, <1>4, <1>6 DEF Shape, QueueTypeOK
  <2>3. rejected' \subseteq Nat
    BY <1>1, <1>2, <1>4 DEF Shape, QueueTypeOK
  <2>4. pipeline' \in Seq(Batch) /\ answers' \in 0 .. Len(pipeline')
    <3>1. queue[user] \in Seq(Batch) /\ queue'[user] \in Seq(Batch)
      BY <1>1, <1>2 DEF Shape, QueueTypeOK
    <3>2. /\ pipeline' \in Seq(Batch)
          /\ Len(pipeline') = IF Len(queue'[user]) < MaxPending
                              THEN Len(queue'[user]) ELSE MaxPending
      BY <1>3, <3>1, BeginningFacts
    <3>3. Len(pipeline) \in Nat /\ Len(pipeline) <= MaxPending /\ Len(pipeline) <= Len(queue[user])
      BY <1>1, PipelineIs
    <3>4. Len(pipeline') >= Len(pipeline) - 1 /\ Len(pipeline') \in Nat
      BY <1>2, <3>1, <3>2, <3>3, WriteQueueAssumption
    <3>5. QED
      BY <3>2, <3>3, <3>4
  <2>5. QED
    BY <1>1, <1>2, <1>3, <2>1, <2>2, <2>3, <2>4 DEF Shape, QueueTypeOK
<1>8. HistoryFits' /\ Written' = Written
  BY <1>1, <1>2, <1>4 DEF Shape, HistoryFits, Written
<1>9. QueuesHoldWrites'
  <2> SUFFICES ASSUME NEW u \in Users, NEW i \in 1 .. Len(queue'[u])
               PROVE  /\ queue'[u][i].id < nextId
                      /\ queue'[u][i].n \in Written
                      /\ issued[queue'[u][i].n] = queue'[u][i]
                      /\ by[queue'[u][i].n] = u
    BY <1>8 DEF QueuesHoldWrites
  <2>1. PICK j \in 1 .. Len(queue[u]) : queue'[u][i] = queue[u][j]
    BY <1>5
  <2>2. QED
    BY <1>1, <2>1 DEF Shape, QueuesHoldWrites
<1>10. PipelineIsPrefix' /\ SomethingIsUnderWay'
  BY <1>3 DEF PipelineIsPrefix, SomethingIsUnderWay, Beginning
<1>11. AnsweredAreApplied'
  <2> SUFFICES ASSUME NEW i \in 1 .. answers' PROVE pipeline'[i].n \in applied
    BY DEF AnsweredAreApplied
  <2>1. i + 1 \in 1 .. Len(pipeline) /\ i \in 1 .. Len(pipeline')
    BY <1>1, <1>7, PipelineIs DEF QueueTypeOK
  <2>2. pipeline[i + 1] = queue[user][i + 1]
    BY <1>1, <2>1, PipelineIs
  <2>3. i \in 1 .. Len(queue'[user]) /\ pipeline'[i] = queue'[user][i]
    BY <1>1, <1>2, <1>3, <2>1, BeginningFacts
  <2>4. pipeline'[i] = pipeline[i + 1]
    BY <1>2, <2>2, <2>3
  <2>5. QED
    BY <2>4
<1>12. CallbacksFit'
  <2> SUFFICES ASSUME NEW c \in callbacks'
               PROVE  \E i \in 1 .. Len(queue'[c.user]) :
                         queue'[c.user][i].id = c.id /\ queue'[c.user][i].n = c.n
    BY DEF CallbacksFit
  <2>1. c.user \in Users /\ c \in callbacks
    BY <1>1, <1>6 DEF Shape, QueueTypeOK
  <2>2. PICK j \in 1 .. Len(queue[c.user]) :
           queue[c.user][j].id = c.id /\ queue[c.user][j].n = c.n
    BY <1>1, <2>1 DEF Story, CallbacksFit
  <2>3. c.user # user \/ j # 1
    BY <1>6, <2>2
  <2>4. PICK i \in 1 .. Len(queue'[c.user]) : queue'[c.user][i] = queue[c.user][j]
    BY <1>5, <2>1, <2>3
  <2>5. QED
    BY <2>2, <2>4
<1>13. ToldAreOver'
  BY <1>1, <1>4, <1>5, <1>6, <1>8 DEF Story, ToldAreOver
<1>14. CallbacksTellTheTruth'
  <2>1. Waits(h.n)
    BY <1>1, <1>2 DEF Waits
  <2>2. \A t \in told : t.n # h.n
    BY <1>1, <2>1 DEF Story, ToldAreOver
  <2>3. \A t \in told' : t.n \in IF t.result = "ok" THEN applied' ELSE rejected'
    BY <1>1, <1>2, <1>6 DEF Story, CallbacksTellTheTruth
  <2>4. \A t, r \in told' : t.n = r.n => t = r
    BY <1>1, <1>6, <2>2 DEF Story, CallbacksTellTheTruth
  <2>5. QED
    BY <2>3, <2>4 DEF CallbacksTellTheTruth
<1>15. NoneLost'
  BY <1>1, <1>2, <1>5, <1>8 DEF Story, NoneLost
<1>16. AppliedInOrder'
  BY <1>1 DEF Story, AppliedInOrder
<1>17. QED
  BY <1>2, <1>7, <1>8, <1>9, <1>10, <1>11, <1>12, <1>13, <1>14, <1>15, <1>16
     DEF QueueInv, Shape, Story

LEMMA AnswersKeep ==
  ASSUME QueueInv, Acknowledged \/ Refused
  PROVE  QueueInv'
<1>1. Shape /\ Story
  BY DEF QueueInv
<1>2. /\ pipeline \in Seq(Batch) /\ Len(pipeline) \in Nat
      /\ answers \in 0 .. Len(pipeline) /\ stream \in Streams
  BY <1>1, PipelineIs DEF Shape, QueueTypeOK
<1>3. CASE Acknowledged
  <2>1. /\ answers > 0 /\ answers' = answers - 1
        /\ Drops(Head(pipeline).id, stream) /\ Tells(Head(pipeline).id, "ok")
        /\ UNCHANGED <<user, nextId, docs, issued, by, applied, rejected>>
    BY <1>3 DEF Acknowledged
  <2>2. pipeline # <<>> /\ answers' \in 0 .. Len(pipeline) - 1
    BY <1>2, <2>1, EmptySeq
  <2>3. Head(pipeline).n \in applied
    BY <1>1, <1>2, <2>1, <2>2 DEF Story, AnsweredAreApplied
  <2>4. \A i \in 1 .. answers' : pipeline[i + 1].n \in applied
    BY <1>1, <1>2, <2>1 DEF Story, AnsweredAreApplied
  <2>5. QED
    BY <1>2, <2>1, <2>2, <2>3, <2>4, DroppingKeeps
<1>4. CASE Refused
  <2>1. /\ answers = 0 /\ answers' = 0 /\ pipeline # <<>>
        /\ Drops(Head(pipeline).id, "initial") /\ Tells(Head(pipeline).id, "error")
        /\ rejected' = rejected \cup {Head(pipeline).n}
        /\ UNCHANGED <<user, nextId, docs, issued, by, applied>>
    BY <1>4 DEF Refused
  <2>2. answers' \in 0 .. Len(pipeline) - 1 /\ "initial" \in Streams
    BY <1>2, <2>1, EmptySeq DEF Streams
  <2>3. \A i \in 1 .. answers' : pipeline[i + 1].n \in applied
    BY <2>1
  <2>4. QED
    BY <2>1, <2>2, <2>3, DroppingKeeps
<1>5. QED
  BY <1>3, <1>4

\* The earlier writes of the present user that are still on disk have been applied.
LEMMA EarlierAreApplied ==
  ASSUME QueueInv, ServerApplies, NEW m \in Nat, Waits(m),
         m < pipeline[answers + 1].n, by[m] = user
  PROVE  m \in applied
<1> DEFINE b == pipeline[answers + 1]
<1>1. Shape /\ Story
  BY DEF QueueInv
<1>2. answers < Len(pipeline)
  BY DEF ServerApplies
<1>3. /\ answers + 1 \in 1 .. Len(pipeline) /\ answers \in Nat /\ Len(pipeline) \in Nat
      /\ b = queue[user][answers + 1] /\ answers + 1 \in 1 .. Len(queue[user])
      /\ queue[user] \in Seq(Batch) /\ user \in Users /\ InOrder(queue[user])
  <2>1. user \in Users /\ answers \in 0 .. Len(pipeline)
    BY <1>1 DEF Shape, QueueTypeOK
  <2>2. /\ queue[user] \in Seq(Batch) /\ InOrder(queue[user]) /\ Len(pipeline) \in Nat
        /\ \A i \in 1 .. Len(pipeline) : i \in 1 .. Len(queue[user]) /\ pipeline[i] = queue[user][i]
    BY <1>1, PipelineIs
  <2>3. answers + 1 \in 1 .. Len(pipeline) /\ answers \in Nat
    BY <1>2, <2>1, <2>2
  <2>4. QED
    BY <2>1, <2>2, <2>3
<1>4. b.n \in Nat /\ m < b.n
  BY <1>3, BatchesAre
<1> HIDE DEF b
<1>5. PICK u \in Users : \E i \in 1 .. Len(queue[u]) : queue[u][i].n = m
  BY DEF Waits
<1>6. PICK i \in 1 .. Len(queue[u]) : queue[u][i].n = m
  BY <1>5
<1>7. u = user
  BY <1>1, <1>6 DEF Shape, QueuesHoldWrites
<1>8. ~(answers + 1 <= i)
  <2>1. answers + 1 < i => b.n < m
    BY <1>3, <1>6, <1>7 DEF InOrder
  <2>2. answers + 1 = i => b.n = m
    BY <1>3, <1>6, <1>7
  <2>3. QED
    BY <1>3, <1>4, <2>1, <2>2
<1>9. i \in 1 .. answers /\ i \in 1 .. Len(pipeline)
  BY <1>3, <1>8
<1>10. pipeline[i].n = m
  BY <1>1, <1>6, <1>7, <1>9, PipelineIs
<1>11. QED
  BY <1>1, <1>9, <1>10 DEF Story, AnsweredAreApplied

\* Resent or not, the server comes to a write only after those before it.
LEMMA ApplyingKeeps ==
  ASSUME QueueInv, ServerApplies
  PROVE  QueueInv'
<1> DEFINE b == pipeline[answers + 1]
<1>1. Shape /\ Story
  BY DEF QueueInv
<1>2. /\ UNCHANGED <<user, queue, nextId, callbacks, pipeline, stream, issued, by, rejected, told>>
      /\ docs' = [docs EXCEPT ![b.doc] = b.value]
      /\ applied' = applied \cup {b.n}
      /\ answers' = answers + 1 /\ answers < Len(pipeline)
  BY DEF ServerApplies, local
<1>3. /\ answers + 1 \in 1 .. Len(pipeline) /\ answers \in Nat /\ Len(pipeline) \in Nat
      /\ b = queue[user][answers + 1] /\ answers + 1 \in 1 .. Len(queue[user])
      /\ queue[user] \in Seq(Batch) /\ user \in Users
  BY <1>1, <1>2, PipelineIs DEF Shape, QueueTypeOK
<1>4. /\ b \in Batch /\ b.n \in Nat /\ b.n \in Written /\ by[b.n] = user
      /\ b.doc \in Docs /\ b.value \in Values
  <2>1. b \in Batch
    BY <1>3, ElementOfSeq
  <2>2. QED
    BY <1>1, <1>3, <2>1 DEF Batch, Shape, QueuesHoldWrites
<1> HIDE DEF b
<1>5. \A n : Waits(n)' <=> Waits(n)
  BY <1>2 DEF Waits
<1>6. Written' = Written
  BY <1>2 DEF Written
<1>7. QueueTypeOK'
  <2>1. docs' \in [Docs -> Values \cup {Null}] /\ applied' \subseteq Nat
    BY <1>1, <1>2, <1>4 DEF Shape, QueueTypeOK
  <2>2. answers' \in 0 .. Len(pipeline')
    BY <1>2, <1>3
  <2>3. QED
    BY <1>1, <1>2, <2>1, <2>2 DEF Shape, QueueTypeOK
<1>8. HistoryFits' /\ (\A u \in Users : InOrder(queue[u]))' /\ QueuesHoldWrites'
  BY <1>1, <1>2, <1>4, <1>6 DEF Shape, HistoryFits, InOrder, QueuesHoldWrites
<1>9. PipelineIsPrefix' /\ SomethingIsUnderWay'
  BY <1>1, <1>2 DEF Shape, PipelineIsPrefix, SomethingIsUnderWay, Beginning
<1>10. AnsweredAreApplied'
  BY <1>1, <1>2, <1>3 DEF Story, AnsweredAreApplied, b
<1>11. CallbacksFit' /\ ToldAreOver' /\ NoneLost' /\ CallbacksTellTheTruth'
  BY <1>1, <1>2, <1>5, <1>6
     DEF Story, CallbacksFit, ToldAreOver, NoneLost, CallbacksTellTheTruth
<1>12. AppliedInOrder'
  <2> SUFFICES ASSUME NEW m \in Written, NEW n \in Written,
                      m < n, by[m] = by[n], n \in applied'
               PROVE  m \in applied' \cup rejected
    BY <1>2, <1>6 DEF AppliedInOrder, Written
  <2>1. CASE n \in applied
    BY <1>1, <1>2, <2>1 DEF Story, AppliedInOrder, Written
  <2>2. CASE n = b.n
    <3>1. CASE m \in applied \cup rejected
      BY <1>2, <3>1
    <3>2. CASE Waits(m)
      <4>1. m \in Nat /\ m < pipeline[answers + 1].n /\ by[m] = user
        BY <1>4, <2>2 DEF Written, b
      <4>2. QED
        BY <1>2, <3>2, <4>1, EarlierAreApplied
    <3>3. QED
      BY <1>1, <3>1, <3>2 DEF Story, NoneLost
  <2>3. QED
    BY <1>2, <2>1, <2>2
<1>13. QED
  BY <1>7, <1>8, <1>9, <1>10, <1>11, <1>12 DEF QueueInv, Shape, Story

\* Every step of the queue.
LEMMA QueueStepKeeps ==
  ASSUME QueueInv,
         \/ QueueNext
         \/ \E u \in Users : TurnsTo(u)
         \/ Restarts
         \/ \E d \in Docs, v \in Values : Issues(d, v)
         \/ UNCHANGED queueVars
  PROVE  QueueInv'
<1>1. CASE QueueNext
  BY <1>1, StreamMovesKeep, AnswersKeep, ApplyingKeeps DEF QueueNext
<1>2. CASE \E u \in Users : TurnsTo(u)
  BY <1>2, TurningKeeps
<1>3. CASE Restarts
  <2>1. user \in Users
    BY DEF QueueInv, Shape, QueueTypeOK
  <2>2. QED
    BY <1>3, <2>1, TurningKeeps
<1>4. CASE \E d \in Docs, v \in Values : Issues(d, v)
  BY <1>4, IssuingKeeps
<1>5. CASE UNCHANGED queueVars
  <2>1. UNCHANGED <<user, queue, nextId, callbacks, pipeline, stream, answers, docs, history>>
    BY <1>5 DEF queueVars, local
  <2>2. Shape'
    <3>1. QueueTypeOK' /\ PipelineIsPrefix' /\ SomethingIsUnderWay'
      BY <2>1 DEF QueueInv, Shape, QueueTypeOK, PipelineIsPrefix, Beginning,
                  SomethingIsUnderWay, history
    <3>2. HistoryFits' /\ (\A u \in Users : InOrder(queue[u]))' /\ QueuesHoldWrites'
      BY <2>1 DEF QueueInv, Shape, HistoryFits, InOrder, QueuesHoldWrites, Written, history
    <3>3. QED
      BY <3>1, <3>2 DEF Shape
  <2>3. Story'
    BY <2>1, StoryStays DEF QueueInv
  <2>4. QED
    BY <2>2, <2>3 DEF QueueInv
<1>6. QED
  BY <1>1, <1>2, <1>3, <1>4, <1>5
-----------------------------------------------------------------------------
(* The directory: what is written, and what is still to come of a sign-up. *)

\* Every write is the first or the second record of some form.
IsFirst(n, f) == issued[n].doc = f.email /\ issued[n].value = Hash[f]

IsSecond(n, f) == issued[n].doc = Hash[f] /\ issued[n].value = f

WritesAreRecords == \A n \in Written : \E f \in Forms : IsFirst(n, f) \/ IsSecond(n, f)

DocsAreWritten ==
    /\ \A d \in Docs : docs[d] # Null =>
          \E n \in applied : issued[n].doc = d /\ issued[n].value = docs[d]
    /\ \A n \in applied : docs[issued[n].doc] # Null

\* The second record of f is made, or will be, or the sign-up broke off.
IsFollowed(f) ==
    \/ \E m \in Written : IsSecond(m, f)
    \/ \E t \in TapIds : At(t, "second") /\ taps[t].form = f
    \/ f.email \in cut

\* A record of an e-mail is the first of some form whose second follows: of which, the
\* record does not tell where two forms have one hash code.
SecondFollows ==
    \A n \in Written : issued[n].doc \in Emails =>
        \E f \in Forms : IsFirst(n, f) /\ IsFollowed(f)

\* An account has its first record made, or will have.
FirstIsMade ==
    \A e \in accounts :
        \/ \E n \in Written : issued[n].doc = e
        \/ \E t \in TapIds : At(t, "made") /\ taps[t].email = e
        \/ e \in retyped \cup cut

\* A tap that has not read the form will find its own e-mail there, or is known not to.
FormFits ==
    \A t \in TapIds : taps[t] # None =>
        /\ form \in Forms
        /\ At(t, "auth") \/ At(t, "made") =>
              taps[t].email \in retyped \/ form.email = taps[t].email

Records == WritesAreRecords /\ DocsAreWritten

SignUps == SecondFollows /\ FirstIsMade /\ FormFits

DirectoryInv == TypeOK /\ QueueInv /\ Records /\ SignUps

LEMMA FormsAreRecorded ==
  ASSUME NEW f \in Forms
  PROVE  /\ f.email \in Emails /\ Hash[f] \in Indexes
         /\ f.email \in Docs /\ Hash[f] \in Docs
         /\ f \in Values /\ Hash[f] \in Values
         /\ Hash[f] \notin Emails
BY DirectoryAssumption

\* Tap t goes on, and is kept apart from the others.
LEMMA TapMoves ==
  ASSUME TypeOK, NEW t \in TapIds, NEW new \in Tap, taps' = [taps EXCEPT ![t] = new]
  PROVE  /\ taps' \in [TapIds -> Tap \cup {None}]
         /\ taps'[t] = new /\ new # None
         /\ \A s \in TapIds : s # t => taps'[s] = taps[s]
         /\ \A s \in TapIds : s # t => \A at : At(s, at)' <=> At(s, at)
         /\ \A at : At(t, at)' <=> new.at = at
BY DirectoryAssumption DEF TypeOK, At

LEMMA RecordsStay ==
  ASSUME Records, UNCHANGED <<docs, issued, applied>>
  PROVE  Records'
BY DEF Records, WritesAreRecords, DocsAreWritten, IsFirst, IsSecond, Written

LEMMA SignUpsStay ==
  ASSUME SignUps, UNCHANGED <<issued, signUpVars>>
  PROVE  SignUps'
BY DEF SignUps, SecondFollows, IsFollowed, FirstIsMade, FormFits, IsFirst, IsSecond, Written,
       At, signUpVars

\* A write that is the record of a form is added.
LEMMA RecordAppended ==
  ASSUME DirectoryInv, NEW d, NEW v, Issues(d, v), NEW f \in Forms,
         (d = f.email /\ v = Hash[f]) \/ (d = Hash[f] /\ v = f)
  PROVE  /\ QueueInv' /\ Records'
         /\ \A n \in Written : n \in Written' /\ issued'[n] = issued[n]
         /\ Len(issued) + 1 \in Written'
         /\ issued'[Len(issued) + 1].doc = d /\ issued'[Len(issued) + 1].value = v
         /\ \A n \in Written' : n \in Written \/ n = Len(issued) + 1
<1> DEFINE N == Len(issued) + 1
<1>1. d \in Docs /\ v \in Values
  BY FormsAreRecorded
<1>2. QueueInv /\ Shape /\ Records /\ issued \in Seq(Batch)
  BY DEF DirectoryInv, QueueInv, Shape, QueueTypeOK
<1>3. QueueInv'
  BY <1>1, <1>2, QueueStepKeeps
<1>4. /\ Len(issued') = N /\ N \in Nat
      /\ \A n \in Written : issued'[n] = issued[n]
      /\ issued'[N].doc = d /\ issued'[N].value = v
  <2> DEFINE b == [id |-> nextId, n |-> N, doc |-> d, value |-> v]
  <2>1. /\ Len(issued') = N
        /\ \A n \in Written : issued'[n] = issued[n]
        /\ issued'[N] = b
    BY <1>1, <1>2, IssuingAppends
  <2>2. N \in Nat
    BY <1>2
  <2>3. QED
    BY <2>1, <2>2
<1>5. /\ \A n \in Written : n \in Written'
      /\ N \in Written'
      /\ \A n \in Written' : n \in Written \/ n = N
  BY <1>2, <1>4 DEF Written
<1>6. UNCHANGED <<docs, applied>> /\ applied \subseteq Written
  BY <1>2 DEF Issues, Shape, HistoryFits
<1> HIDE DEF N
<1>7. WritesAreRecords'
  <2> SUFFICES ASSUME NEW n \in Written'
               PROVE  \E g \in Forms : IsFirst(n, g)' \/ IsSecond(n, g)'
    BY DEF WritesAreRecords
  <2>1. CASE n \in Written
    <3>1. PICK g \in Forms : IsFirst(n, g) \/ IsSecond(n, g)
      BY <1>2, <2>1 DEF Records, WritesAreRecords
    <3>2. QED
      BY <1>4, <2>1, <3>1 DEF IsFirst, IsSecond
  <2>2. CASE n = N
    <3>1. IsFirst(n, f)' \/ IsSecond(n, f)'
      BY <1>4, <2>2 DEF IsFirst, IsSecond
    <3>2. QED
      BY <3>1
  <2>3. QED
    BY <1>5, <2>1, <2>2
<1>8. DocsAreWritten'
  BY <1>2, <1>4, <1>6 DEF Records, DocsAreWritten
<1>9. QED
  BY <1>3, <1>4, <1>5, <1>7, <1>8 DEF Records, N

\* A write that arrives is the last word on its document.
LEMMA ArrivingKeeps ==
  ASSUME DirectoryInv, QueueNext
  PROVE  Records' /\ UNCHANGED issued
<1>1. CASE ServerApplies
  <2> DEFINE b == pipeline[answers + 1]
  <2>1. /\ docs' = [docs EXCEPT ![b.doc] = b.value]
        /\ applied' = applied \cup {b.n}
        /\ UNCHANGED issued /\ answers < Len(pipeline)
    BY <1>1 DEF ServerApplies
  <2>2. Shape /\ Records /\ docs \in [Docs -> Values \cup {Null}] /\ applied \subseteq Written
    BY DEF DirectoryInv, QueueInv, Shape, QueueTypeOK, HistoryFits
  <2>3. /\ b \in Batch /\ b.n \in Written /\ issued[b.n] = b
    <3>1. answers + 1 \in 1 .. Len(pipeline) /\ user \in Users
      BY <2>1, <2>2, PipelineIs DEF Shape, QueueTypeOK
    <3>2. /\ b = queue[user][answers + 1] /\ answers + 1 \in 1 .. Len(queue[user])
          /\ queue[user] \in Seq(Batch)
      BY <2>2, <3>1, PipelineIs
    <3>3. QED
      BY <2>2, <3>1, <3>2, BatchesAre DEF Shape, QueuesHoldWrites
  <2>4. b.doc \in Docs /\ b.value \in Values /\ b.value # Null
    BY <2>3, WriteQueueAssumption DEF Batch
  <2> HIDE DEF b
  <2>5. WritesAreRecords'
    BY <2>1, <2>2 DEF Records, WritesAreRecords, IsFirst, IsSecond, Written
  <2>6. ASSUME NEW d \in Docs, docs'[d] # Null
        PROVE  \E n \in applied' : issued[n].doc = d /\ issued[n].value = docs'[d]
    <3>1. CASE d = b.doc
      BY <2>1, <2>2, <2>3, <2>4, <3>1
    <3>2. CASE d # b.doc
      BY <2>1, <2>2, <2>6, <3>2 DEF Records, DocsAreWritten
    <3>3. QED
      BY <3>1, <3>2
  <2>7. ASSUME NEW n \in applied'
        PROVE  docs'[issued[n].doc] # Null
    <3>1. CASE issued[n].doc = b.doc
      BY <2>1, <2>2, <2>4, <3>1
    <3>2. CASE issued[n].doc # b.doc
      <4>1. n \in applied
        BY <2>1, <2>3, <2>7, <3>2
      <4>2. docs[issued[n].doc] # Null /\ n \in Written
        BY <2>2, <4>1 DEF Records, DocsAreWritten
      <4>3. issued[n].doc \in Docs
        BY <2>2, <4>2, BatchesAre DEF Shape, QueueTypeOK, Written, Batch
      <4>4. QED
        BY <2>1, <2>2, <3>2, <4>2, <4>3
    <3>3. QED
      BY <3>1, <3>2
  <2>8. QED
    BY <2>1, <2>5, <2>6, <2>7 DEF Records, DocsAreWritten
<1>2. CASE ~ServerApplies
  <2>1. UNCHANGED <<docs, issued, applied>>
    BY <1>2 DEF QueueNext, HandshakeCompletes, IdleStops, BackoffElapses, StreamBreaks,
                Acknowledged, Refused, history
  <2>2. QED
    BY <2>1, RecordsStay DEF DirectoryInv
<1>3. QED
  BY <1>1, <1>2
-----------------------------------------------------------------------------
(* What each step of the directory keeps.                                  *)

LEMMA TypesSplit ==
  DirectoryInv => /\ QueueTypeOK /\ form \in Forms \cup {None}
                  /\ taps \in [TapIds -> Tap \cup {None}]
                  /\ accounts \subseteq Emails /\ retyped \subseteq Emails /\ cut \subseteq Emails
BY DEF DirectoryInv, TypeOK

LEMMA TapsAre ==
  ASSUME DirectoryInv, NEW t \in TapIds, taps[t] # None
  PROVE  /\ taps[t] \in Tap /\ taps[t].email \in Emails /\ taps[t].form \in Forms
         /\ form \in Forms
         /\ \A at \in {"auth", "made", "second", "done"} :
               /\ [taps[t] EXCEPT !.at = at] \in Tap
               /\ [taps[t] EXCEPT !.at = at].at = at
               /\ [taps[t] EXCEPT !.at = at].email = taps[t].email
               /\ [taps[t] EXCEPT !.at = at].form = taps[t].form
<1>1. taps[t] \in Tap
  BY TypesSplit
<1>2. form \in Forms
  BY DEF DirectoryInv, SignUps, FormFits
<1>3. taps[t].email \in Emails /\ taps[t].form \in Forms
  BY <1>1 DEF Tap
<1>4. ASSUME NEW at \in {"auth", "made", "second", "done"}
      PROVE  /\ [taps[t] EXCEPT !.at = at] \in Tap
             /\ [taps[t] EXCEPT !.at = at].at = at
             /\ [taps[t] EXCEPT !.at = at].email = taps[t].email
             /\ [taps[t] EXCEPT !.at = at].form = taps[t].form
  BY <1>1 DEF Tap
<1>5. QED
  BY <1>1, <1>2, <1>3, <1>4

\* A tap goes on to at, and nothing else of the sign-ups changes.
LEMMA TapGoesOn ==
  ASSUME DirectoryInv, NEW t \in TapIds, taps[t] # None,
         NEW at \in {"auth", "made", "second", "done"}, Moves(t, at)
  PROVE  /\ taps' \in [TapIds -> Tap \cup {None}]
         /\ taps'[t] # None /\ taps'[t].email = taps[t].email /\ taps'[t].form = taps[t].form
         /\ \A s \in TapIds : s # t => taps'[s] = taps[s]
         /\ \A s \in TapIds : s # t => \A a : At(s, a)' <=> At(s, a)
         /\ \A a : At(t, a)' <=> a = at
<1> DEFINE new == [taps[t] EXCEPT !.at = at]
<1>1. /\ new \in Tap /\ new.at = at
      /\ new.email = taps[t].email /\ new.form = taps[t].form
  BY TapsAre
<1>2. taps' = [taps EXCEPT ![t] = new]
  BY DEF Moves
<1> HIDE DEF new
<1>3. TypeOK
  BY DEF DirectoryInv
<1>4. /\ taps' \in [TapIds -> Tap \cup {None}]
      /\ taps'[t] = new /\ new # None
      /\ \A s \in TapIds : s # t => taps'[s] = taps[s]
      /\ \A s \in TapIds : s # t => \A a : At(s, a)' <=> At(s, a)
      /\ \A a : At(t, a)' <=> new.at = a
  BY <1>1, <1>2, <1>3, TapMoves
<1>5. QED
  BY <1>1, <1>4

LEMMA TapSignUpKeeps ==
  ASSUME DirectoryInv, NEW t \in TapIds, NEW f \in Forms, TapSignUp(t, f)
  PROVE  DirectoryInv'
<1> DEFINE new == [at |-> "auth", email |-> f.email, form |-> f]
<1>1. /\ taps[t] = None /\ taps' = [taps EXCEPT ![t] = new] /\ form' = f
      /\ retyped' = IF f = form THEN retyped ELSE retyped \cup Reading
      /\ UNCHANGED <<queueVars, accounts, cut>>
  BY DEF TapSignUp
<1>2. new \in Tap /\ new.at = "auth" /\ new.email = f.email
  BY FormsAreRecorded DEF Tap
<1> HIDE DEF new
<1>3. /\ taps' \in [TapIds -> Tap \cup {None}]
      /\ taps'[t] = new /\ new # None
      /\ \A s \in TapIds : s # t => taps'[s] = taps[s]
      /\ \A s \in TapIds : s # t => \A at : At(s, at)' <=> At(s, at)
      /\ \A at : At(t, at)' <=> new.at = at
  BY <1>1, <1>2, TapMoves DEF DirectoryInv
<1>4. Reading \subseteq Emails /\ retyped \subseteq retyped'
  BY <1>1, TapsAre DEF Reading, At
<1>5. UNCHANGED <<docs, issued, applied>>
  BY <1>1 DEF queueVars, history
<1>6. QueueInv' /\ Records'
  BY <1>1, <1>5, QueueStepKeeps, RecordsStay DEF DirectoryInv
<1>7. TypeOK'
  BY <1>1, <1>3, <1>4, <1>6, TypesSplit DEF TypeOK, QueueInv, Shape
<1>8. \A at : ~At(t, at)
  BY <1>1 DEF At
<1>9. SecondFollows'
  BY <1>1, <1>3, <1>5, <1>8 DEF DirectoryInv, SignUps, SecondFollows, IsFollowed, IsFirst,
                               IsSecond, Written
<1>10. FirstIsMade'
  BY <1>1, <1>3, <1>4, <1>5, <1>8 DEF DirectoryInv, SignUps, FirstIsMade, Written
<1>11. FormFits'
  <2> SUFFICES ASSUME NEW s \in TapIds, taps'[s] # None
               PROVE  /\ form' \in Forms
                      /\ At(s, "auth")' \/ At(s, "made")' =>
                            taps'[s].email \in retyped' \/ form'.email = taps'[s].email
    BY DEF FormFits
  <2>1. CASE s = t
    BY <1>1, <1>2, <1>3, <2>1
  <2>2. CASE s # t
    <3>1. At(s, "auth") \/ At(s, "made") => taps[s].email \in Reading
      BY DEF Reading
    <3>2. CASE f = form
      BY <1>1, <1>3, <2>2, <3>2 DEF DirectoryInv, SignUps, FormFits
    <3>3. CASE f # form
      BY <1>1, <1>3, <2>2, <3>1, <3>3
    <3>4. QED
      BY <3>2, <3>3
  <2>3. QED
    BY <2>1, <2>2
<1>12. QED
  BY <1>6, <1>7, <1>9, <1>10, <1>11 DEF DirectoryInv, SignUps

LEMMA AccountMadeKeeps ==
  ASSUME DirectoryInv, NEW t \in TapIds, AccountMade(t)
  PROVE  DirectoryInv'
<1>1. /\ At(t, "auth") /\ taps[t] # None /\ Moves(t, "made")
      /\ accounts' = accounts \cup {taps[t].email}
      /\ TurnsTo(taps[t].email)
      /\ UNCHANGED <<form, retyped, cut>>
  BY DEF AccountMade, At
<1>2. /\ taps' \in [TapIds -> Tap \cup {None}]
      /\ taps'[t] # None /\ taps'[t].email = taps[t].email /\ taps'[t].form = taps[t].form
      /\ \A s \in TapIds : s # t => taps'[s] = taps[s]
      /\ \A s \in TapIds : s # t => \A a : At(s, a)' <=> At(s, a)
      /\ \A a : At(t, a)' <=> a = "made"
  BY <1>1, TapGoesOn
<1>3. taps[t].email \in Emails /\ taps[t].email \in Users
  BY <1>1, TapsAre, DirectoryAssumption
<1>4. UNCHANGED <<docs, issued, applied>>
  BY <1>1 DEF TurnsTo, history
<1>5. QueueInv' /\ Records'
  BY <1>1, <1>3, <1>4, QueueStepKeeps, RecordsStay DEF DirectoryInv
<1>6. TypeOK'
  BY <1>1, <1>2, <1>3, <1>5, TypesSplit DEF TypeOK, QueueInv, Shape
<1>7. ~At(t, "second")
  BY <1>1 DEF At
<1>8. SecondFollows'
  BY <1>1, <1>2, <1>4, <1>7 DEF DirectoryInv, SignUps, SecondFollows, IsFollowed, IsFirst,
                               IsSecond, Written
<1>9. FirstIsMade'
  BY <1>1, <1>2, <1>4 DEF DirectoryInv, SignUps, FirstIsMade, Written
<1>10. FormFits'
  BY <1>1, <1>2 DEF DirectoryInv, SignUps, FormFits
<1>11. QED
  BY <1>5, <1>6, <1>8, <1>9, <1>10 DEF DirectoryInv, SignUps

LEMMA SignUpThrowsKeeps ==
  ASSUME DirectoryInv, NEW t \in TapIds, SignUpThrows(t)
  PROVE  DirectoryInv'
<1>1. /\ At(t, "auth") \/ At(t, "made")
      /\ taps[t] # None /\ Moves(t, "done")
      /\ cut' = IF At(t, "made") THEN cut \cup {taps[t].email} ELSE cut
      /\ UNCHANGED <<queueVars, form, accounts, retyped>>
  BY DEF SignUpThrows, At
<1>2. /\ taps' \in [TapIds -> Tap \cup {None}]
      /\ taps'[t] # None /\ taps'[t].email = taps[t].email /\ taps'[t].form = taps[t].form
      /\ \A s \in TapIds : s # t => taps'[s] = taps[s]
      /\ \A s \in TapIds : s # t => \A a : At(s, a)' <=> At(s, a)
      /\ \A a : At(t, a)' <=> a = "done"
  BY <1>1, TapGoesOn
<1>3. taps[t].email \in Emails
  BY <1>1, TapsAre
<1>4. UNCHANGED <<docs, issued, applied>>
  BY <1>1 DEF queueVars, history
<1>5. QueueInv' /\ Records'
  BY <1>1, <1>4, QueueStepKeeps, RecordsStay DEF DirectoryInv
<1>6. TypeOK'
  BY <1>1, <1>2, <1>3, <1>5, TypesSplit DEF TypeOK, QueueInv, Shape
<1>7. ~At(t, "second")
  BY <1>1 DEF At
<1>8. SecondFollows'
  BY <1>1, <1>2, <1>4, <1>7 DEF DirectoryInv, SignUps, SecondFollows, IsFollowed, IsFirst,
                               IsSecond, Written
<1>9. FirstIsMade'
  BY <1>1, <1>2, <1>4 DEF DirectoryInv, SignUps, FirstIsMade, Written
<1>10. FormFits'
  BY <1>1, <1>2 DEF DirectoryInv, SignUps, FormFits
<1>11. QED
  BY <1>5, <1>6, <1>8, <1>9, <1>10 DEF DirectoryInv, SignUps

LEMMA WritesEmailKeeps ==
  ASSUME DirectoryInv, NEW t \in TapIds, WritesEmail(t)
  PROVE  DirectoryInv'
<1> DEFINE new == [[taps[t] EXCEPT !.at = "second"] EXCEPT !.form = form]
           N == Len(issued) + 1
<1>1. /\ At(t, "made") /\ taps[t] # None
      /\ Issues(form.email, Hash[form])
      /\ UNCHANGED <<form, accounts, retyped, cut>>
  BY DEF WritesEmail, At
<1>2. taps[t] \in Tap /\ form \in Forms
  BY <1>1, TapsAre
<1>3. taps' = [taps EXCEPT ![t] = new]
  BY TypesSplit DEF WritesEmail
<1>4. new \in Tap /\ new.at = "second" /\ new.form = form
  BY <1>2 DEF Tap
<1> HIDE DEF new
<1>5. /\ taps' \in [TapIds -> Tap \cup {None}]
      /\ taps'[t] = new /\ new # None
      /\ \A s \in TapIds : s # t => taps'[s] = taps[s]
      /\ \A s \in TapIds : s # t => \A at : At(s, at)' <=> At(s, at)
      /\ \A at : At(t, at)' <=> new.at = at
  BY <1>3, <1>4, TapMoves DEF DirectoryInv
<1>6. /\ QueueInv' /\ Records'
      /\ \A n \in Written : n \in Written' /\ issued'[n] = issued[n]
      /\ N \in Written'
      /\ issued'[N].doc = form.email /\ issued'[N].value = Hash[form]
      /\ \A n \in Written' : n \in Written \/ n = N
  BY <1>1, <1>2, RecordAppended
<1> HIDE DEF N
<1>7. TypeOK'
  BY <1>1, <1>5, <1>6, TypesSplit DEF TypeOK, QueueInv, Shape
<1>8. SecondFollows'
  <2> SUFFICES ASSUME NEW n \in Written', issued'[n].doc \in Emails
               PROVE  \E f \in Forms : IsFirst(n, f)' /\ IsFollowed(f)'
    BY DEF SecondFollows
  <2>1. CASE n = N
    <3>1. IsFirst(n, form)'
      BY <1>1, <1>6, <2>1 DEF IsFirst
    <3>2. At(t, "second")' /\ taps'[t].form = form
      BY <1>4, <1>5
    <3>3. IsFollowed(form)'
      BY <1>1, <3>2 DEF IsFollowed
    <3>4. QED
      BY <1>1, <1>2, <3>1, <3>3
  <2>2. CASE n \in Written
    <3>1. PICK f \in Forms : IsFirst(n, f) /\ IsFollowed(f)
      BY <1>6, <2>2 DEF DirectoryInv, SignUps, SecondFollows
    <3>2. IsFirst(n, f)'
      BY <1>6, <2>2, <3>1 DEF IsFirst
    <3>3. CASE \E m \in Written : IsSecond(m, f)
      <4>1. \E m \in Written' : IsSecond(m, f)'
        BY <1>6, <3>3 DEF IsSecond
      <4>2. QED
        BY <3>2, <4>1 DEF IsFollowed
    <3>4. CASE \E s \in TapIds : At(s, "second") /\ taps[s].form = f
      <4>1. ~At(t, "second")
        BY <1>1 DEF At
      <4>2. \E s \in TapIds : At(s, "second")' /\ taps'[s].form = f
        BY <1>5, <3>4, <4>1
      <4>3. QED
        BY <3>2, <4>2 DEF IsFollowed
    <3>5. CASE f.email \in cut
      BY <1>1, <3>2, <3>5 DEF IsFollowed
    <3>6. QED
      BY <3>1, <3>3, <3>4, <3>5 DEF IsFollowed
  <2>3. QED
    BY <1>6, <2>1, <2>2
<1>9. FirstIsMade'
  <2> SUFFICES ASSUME NEW e \in accounts, e \notin retyped \cup cut
               PROVE  \/ \E n \in Written' : issued'[n].doc = e
                      \/ \E s \in TapIds : At(s, "made")' /\ taps'[s].email = e
    BY <1>1 DEF FirstIsMade
  <2>1. CASE \E n \in Written : issued[n].doc = e
    BY <1>6, <2>1
  <2>2. CASE \E s \in TapIds : At(s, "made") /\ taps[s].email = e
    <3>1. PICK s \in TapIds : At(s, "made") /\ taps[s].email = e
      BY <2>2
    <3>2. CASE s = t
      <4>1. form.email = e
        BY <1>1, <3>1, <3>2 DEF DirectoryInv, SignUps, FormFits
      <4>2. QED
        BY <1>6, <4>1
    <3>3. CASE s # t
      BY <1>5, <3>1, <3>3
    <3>4. QED
      BY <3>2, <3>3
  <2>3. QED
    BY <2>1, <2>2 DEF DirectoryInv, SignUps, FirstIsMade
<1>10. FormFits'
  BY <1>1, <1>2, <1>4, <1>5 DEF DirectoryInv, SignUps, FormFits
<1>11. QED
  BY <1>6, <1>7, <1>8, <1>9, <1>10 DEF DirectoryInv, SignUps

LEMMA WritesUserKeeps ==
  ASSUME DirectoryInv, NEW t \in TapIds, WritesUser(t)
  PROVE  DirectoryInv'
<1> DEFINE N == Len(issued) + 1
           g == taps[t].form
<1>1. /\ At(t, "second") /\ taps[t] # None /\ Moves(t, "done")
      /\ Issues(Hash[g], g)
      /\ UNCHANGED <<form, accounts, retyped, cut>>
  BY DEF WritesUser, At
<1>2. g \in Forms
  BY <1>1, TapsAre
<1>3. /\ taps' \in [TapIds -> Tap \cup {None}]
      /\ taps'[t] # None /\ taps'[t].email = taps[t].email /\ taps'[t].form = g
      /\ \A s \in TapIds : s # t => taps'[s] = taps[s]
      /\ \A s \in TapIds : s # t => \A a : At(s, a)' <=> At(s, a)
      /\ \A a : At(t, a)' <=> a = "done"
  BY <1>1, TapGoesOn
<1>4. /\ QueueInv' /\ Records'
      /\ \A n \in Written : n \in Written' /\ issued'[n] = issued[n]
      /\ N \in Written'
      /\ issued'[N].doc = Hash[g] /\ issued'[N].value = g
      /\ \A n \in Written' : n \in Written \/ n = N
  BY <1>1, <1>2, RecordAppended
<1> HIDE DEF N
<1>5. TypeOK'
  BY <1>1, <1>3, <1>4, TypesSplit DEF TypeOK, QueueInv, Shape
<1>6. SecondFollows'
  <2> SUFFICES ASSUME NEW n \in Written', issued'[n].doc \in Emails
               PROVE  \E f \in Forms : IsFirst(n, f)' /\ IsFollowed(f)'
    BY DEF SecondFollows
  <2>1. n \in Written
    BY <1>2, <1>4, FormsAreRecorded
  <2>2. PICK f \in Forms : IsFirst(n, f) /\ IsFollowed(f)
    BY <1>4, <2>1 DEF DirectoryInv, SignUps, SecondFollows
  <2>3. IsFirst(n, f)'
    BY <1>4, <2>1, <2>2 DEF IsFirst
  <2>4. CASE \E m \in Written : IsSecond(m, f)
    <3>1. \E m \in Written' : IsSecond(m, f)'
      BY <1>4, <2>4 DEF IsSecond
    <3>2. QED
      BY <2>3, <3>1 DEF IsFollowed
  <2>5. CASE \E s \in TapIds : At(s, "second") /\ taps[s].form = f
    <3>1. PICK s \in TapIds : At(s, "second") /\ taps[s].form = f
      BY <2>5
    <3>2. CASE s = t
      <4>1. PICK k \in Written' : k = N
        BY <1>4
      <4>2. IsSecond(k, f)'
        BY <1>4, <3>1, <3>2, <4>1 DEF IsSecond
      <4>3. QED
        BY <2>3, <4>2 DEF IsFollowed
    <3>3. CASE s # t
      <4>1. At(s, "second")' /\ taps'[s].form = f
        BY <1>3, <3>1, <3>3
      <4>2. QED
        BY <2>3, <4>1 DEF IsFollowed
    <3>4. QED
      BY <3>2, <3>3
  <2>6. CASE f.email \in cut
    BY <1>1, <2>3, <2>6 DEF IsFollowed
  <2>7. QED
    BY <2>2, <2>4, <2>5, <2>6 DEF IsFollowed
<1>7. FirstIsMade'
  <2> SUFFICES ASSUME NEW e \in accounts, e \notin retyped \cup cut
               PROVE  \/ \E n \in Written' : issued'[n].doc = e
                      \/ \E s \in TapIds : At(s, "made")' /\ taps'[s].email = e
    BY <1>1 DEF FirstIsMade
  <2>1. CASE \E n \in Written : issued[n].doc = e
    BY <1>4, <2>1
  <2>2. CASE \E s \in TapIds : At(s, "made") /\ taps[s].email = e
    <3>1. ~At(t, "made")
      BY <1>1 DEF At
    <3>2. QED
      BY <1>3, <2>2, <3>1
  <2>3. QED
    BY <2>1, <2>2 DEF DirectoryInv, SignUps, FirstIsMade
<1>8. FormFits'
  BY <1>1, <1>3 DEF DirectoryInv, SignUps, FormFits
<1>9. QED
  BY <1>4, <1>5, <1>6, <1>7, <1>8 DEF DirectoryInv, SignUps

LEMMA RestartKeeps ==
  ASSUME DirectoryInv, Restart
  PROVE  DirectoryInv'
<1>1. /\ Restarts
      /\ taps' = [t \in TapIds |-> IF taps[t] = None THEN None ELSE [taps[t] EXCEPT !.at = "done"]]
      /\ cut' = cut \cup {taps[t].email : t \in {s \in TapIds : At(s, "made")}}
                    \cup {taps[t].form.email : t \in {s \in TapIds : At(s, "second")}}
      /\ UNCHANGED <<form, accounts, retyped>>
  BY DEF Restart
<1>2. UNCHANGED <<docs, issued, applied>>
  BY <1>1 DEF Restarts, history
<1>3. QueueInv' /\ Records'
  BY <1>1, <1>2, QueueStepKeeps, RecordsStay DEF DirectoryInv
<1>4. ASSUME NEW t \in TapIds
      PROVE  /\ taps'[t] \in Tap \cup {None}
             /\ taps'[t] # None => taps[t] # None /\ taps'[t].at = "done"
  BY <1>1, TapsAre
<1>5. cut \subseteq cut' /\ cut' \subseteq Emails
  <2>1. ASSUME NEW t \in TapIds, taps[t] # None
        PROVE  taps[t].email \in Emails /\ taps[t].form.email \in Emails
    BY <2>1, TapsAre, FormsAreRecorded
  <2>2. QED
    BY <1>1, <2>1, TypesSplit DEF At
<1>6. TypeOK'
  BY <1>1, <1>3, <1>4, <1>5, TypesSplit DEF TypeOK, QueueInv, Shape
<1>7. SecondFollows'
  BY <1>1, <1>2 DEF DirectoryInv, SignUps, SecondFollows, IsFollowed, IsFirst,
                               IsSecond, Written
<1>8. FirstIsMade'
  BY <1>1, <1>2 DEF DirectoryInv, SignUps, FirstIsMade, Written
<1>9. FormFits'
  BY <1>1, <1>4 DEF DirectoryInv, SignUps, FormFits, At
<1>10. QED
  BY <1>3, <1>6, <1>7, <1>8, <1>9 DEF DirectoryInv, SignUps

\* What the queue does of itself, and another account being signed in.
LEMMA OtherStepsKeep ==
  ASSUME DirectoryInv,
         \/ \E u \in Users : SignsInAs(u)
         \/ QueueNext /\ UNCHANGED signUpVars
         \/ UNCHANGED vars
  PROVE  DirectoryInv'
<1>1. UNCHANGED signUpVars
  BY DEF SignsInAs, vars
<1>2. QueueInv'
  <2>1. \/ \E u \in Users : TurnsTo(u)
        \/ QueueNext
        \/ UNCHANGED queueVars
    BY DEF SignsInAs, vars
  <2>2. QED
    BY <2>1, QueueStepKeeps DEF DirectoryInv
<1>3. Records' /\ UNCHANGED issued
  <2>1. CASE QueueNext
    BY <2>1, ArrivingKeeps
  <2>2. CASE ~QueueNext
    <3>1. UNCHANGED <<docs, issued, applied>>
      BY <2>2 DEF SignsInAs, TurnsTo, vars, queueVars, history
    <3>2. QED
      BY <3>1, RecordsStay DEF DirectoryInv
  <2>3. QED
    BY <2>1, <2>2
<1>4. SignUps'
  BY <1>1, <1>3, SignUpsStay DEF DirectoryInv
<1>5. TypeOK'
  BY <1>1, <1>2, TypesSplit DEF TypeOK, QueueInv, Shape, signUpVars
<1>6. QED
  BY <1>2, <1>3, <1>4, <1>5 DEF DirectoryInv

LEMMA DirectoryInit == Init => DirectoryInv
<1> SUFFICES ASSUME Init PROVE DirectoryInv
  OBVIOUS
<1>1. docs \in [Docs -> Values \cup {Null}]
  BY DEF Init
<1>2. QueueInv /\ QueueTypeOK
  BY <1>1, QueueInitHolds DEF Init, QueueInv, Shape
<1>3. TypeOK
  BY <1>2 DEF Init, TypeOK
<1>4. Written = {} /\ applied = {} /\ accounts = {}
  BY DEF Init, QueueInit, Written
<1>5. Records
  BY <1>4 DEF Init, Records, WritesAreRecords, DocsAreWritten
<1>6. SignUps
  BY <1>4 DEF Init, SignUps, SecondFollows, FirstIsMade, FormFits
<1>7. QED
  BY <1>2, <1>3, <1>5, <1>6 DEF DirectoryInv

LEMMA DirectoryStep == DirectoryInv /\ [Next]_vars => DirectoryInv'
<1> SUFFICES ASSUME DirectoryInv, [Next]_vars PROVE DirectoryInv'
  OBVIOUS
<1>1. CASE \E t \in TapIds :
             \/ \E f \in Forms : TapSignUp(t, f)
             \/ AccountMade(t)
             \/ SignUpThrows(t)
             \/ WritesEmail(t)
             \/ WritesUser(t)
  BY <1>1, TapSignUpKeeps, AccountMadeKeeps, SignUpThrowsKeeps, WritesEmailKeeps, WritesUserKeeps
<1>2. CASE Restart
  BY <1>2, RestartKeeps
<1>3. QED
  BY <1>1, <1>2, OtherStepsKeep DEF Next

LEMMA DirectoryInvHolds == Spec => []DirectoryInv
BY DirectoryInit, DirectoryStep, PTL DEF Spec
-----------------------------------------------------------------------------
(* The theorems.                                                           *)

\* The queue, the stream, the records and the taps are what the code takes them for:
\* the stream is in one of its states, and no answer counts for a write not sent.
THEOREM DirectoryTypeCorrect == Spec => []TypeOK
<1>1. DirectoryInv => TypeOK
  BY DEF DirectoryInv
<1>2. QED
  BY <1>1, DirectoryInvHolds, PTL

\* After any break, restart or change of the user, the pipeline is the beginning of the
\* present user's queue, so that answers, matched by order alone, meet their writes
\* (FSTRemoteStore.mm 108-110).
THEOREM PipelineStaysPrefix == Spec => []PipelineIsPrefix
<1>1. DirectoryInv => PipelineIsPrefix
  BY DEF DirectoryInv, QueueInv, Shape
<1>2. QED
  BY <1>1, DirectoryInvHolds, PTL

\* A callback hears what became of its own write, once, though ids are given out anew
\* after a restart or a change of the user (FSTSyncEngine.mm 260-268, 446-460).
THEOREM CallbacksHearTheTruth == Spec => []CallbacksTellTheTruth
<1>1. DirectoryInv => CallbacksTellTheTruth
  BY DEF DirectoryInv, QueueInv, Story
<1>2. QED
  BY <1>1, DirectoryInvHolds, PTL

\* A write leaves the disk only when it was applied or refused, whoever was signed in
\* and however often the process died (FSTLevelDBMutationQueue.mm 473-493).
THEOREM WritesAreNotLost == Spec => []NoWriteIsLost
<1>1. DirectoryInv => NoWriteIsLost
  <2> SUFFICES ASSUME DirectoryInv PROVE NoWriteIsLost
    OBVIOUS
  <2>1. NoneLost /\ QueueTypeOK
    BY DEF DirectoryInv, QueueInv, Shape, Story
  <2>2. QED
    BY <2>1, PendingWait DEF NoneLost, NoWriteIsLost, Written
<1>2. QED
  BY <1>1, DirectoryInvHolds, PTL

\* The server comes to a user's write only when it has come to those made before it, or
\* refused them, though the whole pipeline is sent again by each new stream
\* (FSTRemoteStore.mm 449-485).
THEOREM WritesArriveInOrder == Spec => []AppliedInOrder
<1>1. DirectoryInv => AppliedInOrder
  BY DEF DirectoryInv, QueueInv, Story
<1>2. QED
  BY <1>1, DirectoryInvHolds, PTL

\* While the present user has writes on disk the stream is being opened, open or backing
\* off: it never rests with work left, however the last one ended
\* (FSTRemoteStore.mm 445-485, 546-574).
THEOREM WorkIsUnderWay == Spec => []SomethingIsUnderWay
<1>1. DirectoryInv => SomethingIsUnderWay
  BY DEF DirectoryInv, QueueInv, Shape
<1>2. QED
  BY <1>1, DirectoryInvHolds, PTL

\* A record about e has arrived, unless it is on its way or was refused.
LEMMA RecordsArrive ==
  ASSUME DirectoryInv, NEW e, ~Underway(e), NEW n \in Written, IsAbout(issued[n], e)
  PROVE  n \in applied
<1>1. n \notin rejected
  BY DEF Underway
<1>2. ASSUME Waits(n) PROVE FALSE
  <2>1. PICK u \in Users : \E i \in 1 .. Len(queue[u]) : queue[u][i].n = n
    BY <1>2 DEF Waits
  <2>2. PICK i \in 1 .. Len(queue[u]) : queue[u][i].n = n
    BY <2>1
  <2>3. queue[u][i] = issued[n]
    BY <2>2 DEF DirectoryInv, QueueInv, Shape, QueuesHoldWrites
  <2>4. queue[u][i] \in Pending
    BY DEF DirectoryInv, TypeOK, QueueTypeOK, Pending, ToSet
  <2>5. QED
    BY <2>3, <2>4 DEF Underway
<1>3. QED
  BY <1>1, <1>2 DEF DirectoryInv, QueueInv, Story, NoneLost

\* Search finds an account under its own e-mail once both its records have arrived, whatever
\* was queued, resent, parked under another user or restarted in between, unless the form
\* was changed, the sign-up broke off or another e-mail was given the same index
\* (signUpModule.dart 185-239).
THEOREM AccountsAreFound == Spec => []AccountIsFound
<1>1. DirectoryInv => AccountIsFound
  <2> SUFFICES ASSUME DirectoryInv, NEW e \in accounts, e \notin retyped \cup cut,
                      ~Underway(e), ~Shared(e)
               PROVE  Found(e)
    BY DEF AccountIsFound
  <2>1. e \in Emails /\ e \in Docs /\ applied \subseteq Written
    BY TypesSplit, DirectoryAssumption DEF DirectoryInv, QueueInv, Shape, HistoryFits
  <2>2. PICK n \in Written : issued[n].doc = e
    BY DEF DirectoryInv, SignUps, FirstIsMade, Underway
  <2>3. n \in applied
    BY <2>2, RecordsArrive DEF IsAbout
  <2>4. docs[e] # Null
    BY <2>2, <2>3 DEF DirectoryInv, Records, DocsAreWritten
  <2>5. PICK m \in applied : issued[m].doc = e /\ issued[m].value = docs[e]
    BY <2>1, <2>4 DEF DirectoryInv, Records, DocsAreWritten
  <2>6. PICK f \in Forms : IsFirst(m, f) /\ IsFollowed(f)
    BY <2>1, <2>5 DEF DirectoryInv, SignUps, SecondFollows
  <2>7. f.email = e /\ docs[e] = Hash[f]
    BY <2>5, <2>6 DEF IsFirst
  <2>8. PICK k \in Written : IsSecond(k, f)
    BY <2>6, <2>7 DEF IsFollowed, Underway
  <2>9. k \in applied
    <3>1. IsAbout(issued[k], e)
      BY <2>7, <2>8 DEF IsSecond, IsAbout
    <3>2. QED
      BY <3>1, RecordsArrive
  <2>10. docs[Hash[f]] # Null /\ Hash[f] \in Docs
    BY <2>8, <2>9, FormsAreRecorded DEF IsSecond, DirectoryInv, Records, DocsAreWritten
  <2>11. PICK l \in applied : issued[l].doc = Hash[f] /\ issued[l].value = docs[Hash[f]]
    BY <2>10 DEF DirectoryInv, Records, DocsAreWritten
  <2>12. issued[l].value \in Forms
    <3>1. PICK g \in Forms : IsFirst(l, g) \/ IsSecond(l, g)
      BY <2>1 DEF DirectoryInv, Records, WritesAreRecords
    <3>2. ~IsFirst(l, g)
      BY <2>11, FormsAreRecorded DEF IsFirst
    <3>3. QED
      BY <3>1, <3>2 DEF IsSecond
  <2>13. issued[l].value.email = e
    <3>1. /\ issued[k].doc = issued[l].doc
          /\ issued[k].value \in Forms /\ issued[k].value.email = e
      BY <2>7, <2>8, <2>11 DEF IsSecond
    <3>2. k \in 1 .. Len(issued) /\ l \in 1 .. Len(issued)
      BY <2>1 DEF Written
    <3>3. QED
      BY <2>12, <3>1, <3>2 DEF Shared
  <2>14. QED
    BY <2>4, <2>7, <2>10, <2>11, <2>13 DEF Found
<1>2. QED
  BY <1>1, DirectoryInvHolds, PTL
-----------------------------------------------------------------------------
(* The queue implements Outbox.                                            *)

Kept == {b.n : b \in Pending}

LEMMA KeptOf ==
  ASSUME NEW q \in [Users -> Seq(Batch)], NEW n
  PROVE  n \in {b.n : b \in UNION {ToSet(q[u]) : u \in Users}}
           <=> \E u \in Users : \E i \in 1 .. Len(q[u]) : q[u][i].n = n
<1>1. \A u \in Users : DOMAIN q[u] = 1 .. Len(q[u])
  OBVIOUS
<1>2. QED
  BY <1>1 DEF ToSet

\* Before and after a step.
LEMMA KeptAre ==
  ASSUME QueueInv, QueueInv'
  PROVE  /\ \A n : n \in Kept <=> Waits(n)
         /\ \A n : n \in Kept' <=> Waits(n)'
<1>1. queue \in [Users -> Seq(Batch)] /\ queue' \in [Users -> Seq(Batch)]
  BY DEF QueueInv, Shape, QueueTypeOK
<1>2. QED
  BY <1>1, KeptOf DEF Kept, Pending, Waits

LEMMA MadeOf ==
  ASSUME NEW s \in Seq(Batch), NEW m \in Seq(Users), Len(m) = Len(s)
  PROVE  LET w == [n \in 1 .. Len(s) |-> [by |-> m[n], doc |-> s[n].doc, value |-> s[n].value]]
         IN  /\ w \in Seq([by : Users, doc : Docs, value : Values])
             /\ Len(w) = Len(s)
             /\ \A n \in 1 .. Len(s) :
                   w[n] = [by |-> m[n], doc |-> s[n].doc, value |-> s[n].value]
<1>1. ASSUME NEW n \in 1 .. Len(s)
      PROVE  [by |-> m[n], doc |-> s[n].doc, value |-> s[n].value]
               \in [by : Users, doc : Docs, value : Values]
  <2>1. s[n] \in Batch /\ m[n] \in Users
    BY ElementOfSeq
  <2>2. s[n].doc \in Docs /\ s[n].value \in Values
    BY <2>1 DEF Batch
  <2>3. QED
    BY <2>1, <2>2
<1>2. QED
  BY <1>1, LenProperties

\* The writes as they are and as a step leaves them.
LEMMA MadeIs ==
  ASSUME Shape
  PROVE  /\ Made \in Seq([by : Users, doc : Docs, value : Values])
         /\ Len(Made) = Len(issued) /\ Len(issued) \in Nat
         /\ \A n \in Written :
               Made[n] = [by |-> by[n], doc |-> issued[n].doc, value |-> issued[n].value]
<1>1. issued \in Seq(Batch) /\ by \in Seq(Users) /\ Len(by) = Len(issued)
  BY DEF Shape, QueueTypeOK, HistoryFits
<1>2. QED
  BY <1>1, MadeOf DEF Made, Written

LEMMA PromiseInit == Init => Promise!Init
<1> SUFFICES ASSUME Init PROVE Promise!Init
  OBVIOUS
<1>1. /\ issued = <<>> /\ applied = {} /\ rejected = {} /\ told = {}
      /\ docs = [d \in Docs |-> Null]
      /\ \A u \in Users : queue[u] = <<>>
  BY DEF Init, QueueInit
<1>2. Made = <<>>
  BY <1>1 DEF Made
<1>3. Pending = {}
  BY <1>1 DEF Pending, ToSet
<1>4. QED
  BY <1>1, <1>2, <1>3 DEF Promise!Init

LEMMA PromiseStutters ==
  ASSUME UNCHANGED <<queue, docs, history>>
  PROVE  UNCHANGED Promise!vars
<1>1. UNCHANGED <<queue, docs, issued, by, applied, rejected, told>>
  BY DEF history
<1>2. Made' = Made /\ Pending' = Pending
  BY <1>1 DEF Made, Pending
<1>3. QED
  BY <1>1, <1>2 DEF Promise!vars

LEMMA PromiseMakes ==
  ASSUME QueueInv, QueueInv', NEW d \in Docs, NEW v \in Values, Issues(d, v)
  PROVE  Promise!Make
<1> DEFINE N == Len(issued) + 1
           b == [id |-> nextId, n |-> N, doc |-> d, value |-> v]
           w == [by |-> user, doc |-> d, value |-> v]
<1>1. Shape /\ Shape' /\ user \in Users
  BY DEF QueueInv, Shape, QueueTypeOK
<1>2. /\ issued' \in Seq(Batch) /\ Len(issued') = N
      /\ \A n \in Written : issued'[n] = issued[n]
      /\ issued'[N] = b
      /\ by' \in Seq(Users) /\ Len(by') = Len(issued')
      /\ \A n \in Written : by'[n] = by[n]
      /\ by'[N] = user
      /\ \A u \in Users : u # user => queue'[u] = queue[u]
      /\ Len(queue'[user]) = Len(queue[user]) + 1
      /\ \A i \in 1 .. Len(queue[user]) : queue'[user][i] = queue[user][i]
      /\ queue'[user][Len(queue[user]) + 1] = b
  BY <1>1, IssuingAppends
<1>3. UNCHANGED <<applied, rejected, told, docs>>
  BY DEF Issues
<1>4. Len(issued) \in Nat /\ N \in Nat /\ N \in 1 .. N /\ b.n = N /\ b.doc = d /\ b.value = v
  BY <1>1 DEF Shape, QueueTypeOK
<1> HIDE DEF b, N
<1>5. \A n : Waits(n)' <=> Waits(n) \/ n = N
  <2> TAKE n
  <2>1. ASSUME NEW u \in Users
        PROVE  (\E i \in 1 .. Len(queue'[u]) : queue'[u][i].n = n)
                 <=> \/ \E i \in 1 .. Len(queue[u]) : queue[u][i].n = n
                     \/ u = user /\ n = N
    <3>1. CASE u # user
      BY <1>2, <3>1
    <3>2. CASE u = user
      <4> DEFINE k == Len(queue[user])
      <4>1. k \in Nat
        BY <1>1 DEF Shape, QueueTypeOK
      <4>2. \A i : i \in 1 .. k + 1 <=> i \in 1 .. k \/ i = k + 1
        BY <4>1
      <4>3. Len(queue'[user]) = k + 1 /\ queue'[user][k + 1].n = N
            /\ \A i \in 1 .. k : queue'[user][i] = queue[user][i]
        BY <1>2, <1>4
      <4> HIDE DEF k
      <4>4. (\E i \in 1 .. k + 1 : queue'[user][i].n = n)
              <=> (\E i \in 1 .. k : queue[user][i].n = n) \/ n = N
        BY <4>2, <4>3
      <4>5. QED
        BY <3>2, <4>3, <4>4 DEF k
    <3>3. QED
      BY <3>1, <3>2
  <2>2. QED
    BY <1>1, <2>1 DEF Waits
<1>6. Kept' = Kept \cup {N}
  BY <1>5, KeptAre
<1>7. /\ Made \in Seq([by : Users, doc : Docs, value : Values]) /\ Len(Made) + 1 = N
      /\ \A n \in Written :
            Made[n] = [by |-> by[n], doc |-> issued[n].doc, value |-> issued[n].value]
  BY <1>1, MadeIs DEF N
<1>8. /\ Made' \in Seq([by : Users, doc : Docs, value : Values]) /\ Len(Made') = N
      /\ \A n \in 1 .. N :
            Made'[n] = [by |-> by'[n], doc |-> issued'[n].doc, value |-> issued'[n].value]
  BY <1>2, MadeOf DEF Made
<1>9. Made' = Append(Made, w)
  <2>1. w \in [by : Users, doc : Docs, value : Values]
    BY <1>1
  <2>2. Made'[N] = w
    <3>1. Made'[N] = [by |-> by'[N], doc |-> issued'[N].doc, value |-> issued'[N].value]
      BY <1>4, <1>8
    <3>2. by'[N] = user /\ issued'[N].doc = d /\ issued'[N].value = v
      BY <1>2, <1>4
    <3>3. QED
      BY <3>1, <3>2
  <2>3. ASSUME NEW n \in 1 .. Len(Made)
        PROVE  n \in Written /\ n \in 1 .. N /\ Made'[n] = Made[n]
    <3>1. Len(Made) \in Nat /\ Len(Made) = Len(issued)
      BY <1>4, <1>7 DEF N
    <3>2. n \in Written /\ n \in 1 .. N
      BY <1>7, <3>1 DEF Written
    <3>3. by'[n] = by[n] /\ issued'[n] = issued[n]
      BY <1>2, <3>2
    <3>4. Made'[n] = [by |-> by'[n], doc |-> issued'[n].doc, value |-> issued'[n].value]
      BY <1>8, <3>2
    <3>5. Made[n] = [by |-> by[n], doc |-> issued[n].doc, value |-> issued[n].value]
      BY <1>7, <3>2
    <3>6. QED
      BY <3>2, <3>3, <3>4, <3>5
  <2> HIDE DEF w
  <2>4. /\ Append(Made, w) \in Seq([by : Users, doc : Docs, value : Values])
        /\ Len(Append(Made, w)) = N
        /\ \A n \in 1 .. Len(Made) : Append(Made, w)[n] = Made[n]
        /\ Append(Made, w)[N] = w
    BY <1>7, <2>1, AppendProperties
  <2>5. \A n \in 1 .. N : n \in 1 .. Len(Made) \/ n = N
    BY <1>4, <1>7
  <2>6. QED
    BY <1>8, <2>2, <2>3, <2>4, <2>5, SeqEqual
<1>10. QED
  BY <1>1, <1>3, <1>6, <1>7, <1>9 DEF Promise!Make, Kept

\* What Outbox calls Before, in the terms of the queue.
LEMMA BeforeAre ==
  ASSUME QueueInv, NEW n \in Written, NEW m \in Promise!Before(n)
  PROVE  m \in Written /\ m \in Nat /\ Waits(m) /\ m < n /\ by[m] = by[n]
<1>1. Shape /\ QueueTypeOK
  BY DEF QueueInv, Shape
<1>2. m \in Kept /\ m < n /\ Made[m].by = Made[n].by
  BY DEF Promise!Before, Kept
<1>3. Waits(m)
  BY <1>1, <1>2, PendingWait DEF Kept
<1>4. m \in Written
  BY <1>1, <1>3 DEF Waits, Shape, QueuesHoldWrites
<1>5. Made[m].by = by[m] /\ Made[n].by = by[n]
  <2>1. \A k \in Written :
           Made[k] = [by |-> by[k], doc |-> issued[k].doc, value |-> issued[k].value]
    BY <1>1, MadeIs
  <2>2. Made[m] = [by |-> by[m], doc |-> issued[m].doc, value |-> issued[m].value]
    BY <1>4, <2>1
  <2>3. Made[n] = [by |-> by[n], doc |-> issued[n].doc, value |-> issued[n].value]
    BY <2>1
  <2>4. QED
    BY <2>2, <2>3
<1>6. m \in Nat
  BY <1>4 DEF Written
<1>7. QED
  BY <1>2, <1>3, <1>4, <1>5, <1>6

LEMMA PromiseApplies ==
  ASSUME QueueInv, QueueInv', ServerApplies
  PROVE  \E n \in Kept : Promise!Apply(n)
<1> DEFINE b == pipeline[answers + 1]
<1>1. Shape
  BY DEF QueueInv
<1>2. /\ UNCHANGED <<queue, issued, by, rejected, told>>
      /\ docs' = [docs EXCEPT ![b.doc] = b.value]
      /\ applied' = applied \cup {b.n}
      /\ answers < Len(pipeline)
  BY DEF ServerApplies, local
<1>3. /\ answers + 1 \in 1 .. Len(pipeline)
      /\ b = queue[user][answers + 1] /\ answers + 1 \in 1 .. Len(queue[user])
      /\ user \in Users
  BY <1>1, <1>2, PipelineIs DEF Shape, QueueTypeOK
<1>4. b.n \in Written /\ issued[b.n] = b /\ by[b.n] = user /\ Waits(b.n)
  BY <1>1, <1>3 DEF Shape, QueuesHoldWrites, Waits
<1>5. b.n \in Kept
  BY <1>4, KeptAre
<1>6. \A m \in Promise!Before(b.n) : m \in applied
  BY <1>4, BeforeAre, EarlierAreApplied
<1> HIDE DEF b
<1>7. Made[b.n].doc = b.doc /\ Made[b.n].value = b.value
  <2>1. \A k \in Written :
           Made[k] = [by |-> by[k], doc |-> issued[k].doc, value |-> issued[k].value]
    BY <1>1, MadeIs
  <2>2. Made[b.n] = [by |-> by[b.n], doc |-> issued[b.n].doc, value |-> issued[b.n].value]
    BY <1>4, <2>1
  <2>3. QED
    BY <1>4, <2>2
<1>8. Made' = Made /\ Pending' = Pending
  BY <1>2 DEF Made, Pending
<1>9. Promise!Apply(b.n)
  BY <1>2, <1>6, <1>7, <1>8 DEF Promise!Apply
<1>10. QED
  BY <1>5, <1>9

LEMMA PromiseSettles ==
  ASSUME QueueInv, QueueInv', pipeline # <<>>,
         NEW s \in Streams, Drops(Head(pipeline).id, s),
         NEW result, Tells(Head(pipeline).id, result),
         UNCHANGED <<docs, issued, by, applied>>
  PROVE  LET n == Head(pipeline).n IN n \in Kept /\ Promise!Settles(n, result)
<1> DEFINE h == queue[user][1]
<1>1. Shape /\ user \in Users
  BY DEF QueueInv, Shape, QueueTypeOK
<1>2. 1 \in 1 .. Len(queue[user]) /\ Head(pipeline) = h
  BY <1>1, DroppingTails
<1>3. /\ h.n \in Written /\ by[h.n] = user /\ Waits(h.n)
      /\ InOrder(queue[user]) /\ queue[user] \in Seq(Batch)
  BY <1>1, <1>2 DEF Shape, QueueTypeOK, QueuesHoldWrites, Waits
<1>4. Kept' = Kept \ {h.n} /\ h.n \in Kept
  <2>1. \A n : Waits(n)' <=> Waits(n) /\ n # h.n
    BY <1>1, DroppingLeaves
  <2>2. QED
    BY <1>3, <2>1, KeptAre
<1>5. told' \in {told, told \cup {[n |-> h.n, result |-> result]}}
  <2>1. /\ told \subseteq told'
        /\ \A t \in told' \ told : t = [n |-> h.n, result |-> result]
    BY <1>2, TellingTells
  <2> DEFINE x == [n |-> h.n, result |-> result]
  <2>2. \A t \in told' \ told : t = x
    BY <2>1
  <2> HIDE DEF x
  <2>3. CASE x \in told'
    <3>1. told' = told \cup {x}
      BY <2>1, <2>2, <2>3
    <3>2. QED
      BY <3>1 DEF x
  <2>4. CASE x \notin told'
    <3>1. told' = told
      BY <2>1, <2>2, <2>4
    <3>2. QED
      BY <3>1
  <2>5. QED
    BY <2>3, <2>4
<1>6. Promise!Before(h.n) = {}
  <2> SUFFICES ASSUME NEW m \in Promise!Before(h.n) PROVE FALSE
    OBVIOUS
  <2>1. m \in Nat /\ Waits(m) /\ m < h.n /\ by[m] = user
    BY <1>3, BeforeAre
  <2>2. PICK u \in Users : \E i \in 1 .. Len(queue[u]) : queue[u][i].n = m
    BY <2>1 DEF Waits
  <2>3. PICK i \in 1 .. Len(queue[u]) : queue[u][i].n = m
    BY <2>2
  <2>4. u = user
    BY <1>1, <2>1, <2>3 DEF Shape, QueuesHoldWrites
  <2>5. i = 1 \/ h.n < m
    BY <1>2, <1>3, <2>3, <2>4 DEF InOrder
  <2>6. h.n \in Nat
    BY <1>3 DEF Written
  <2>7. QED
    BY <2>1, <2>3, <2>4, <2>5, <2>6
<1>7. Made' = Made
  BY DEF Made
<1> HIDE DEF h
<1>8. QED
  BY <1>2, <1>4, <1>5, <1>6, <1>7 DEF Promise!Settles, Kept

\* A step of the queue.
LEMMA PromiseQueueStep ==
  ASSUME QueueInv, QueueInv',
         \/ QueueNext
         \/ \E d \in Docs, v \in Values : Issues(d, v)
         \/ UNCHANGED <<queue, docs, history>>
  PROVE  Promise!Next \/ UNCHANGED Promise!vars
<1>1. CASE ServerApplies
  BY <1>1, PromiseApplies DEF Promise!Next, Kept
<1>2. CASE Acknowledged
  <2>1. /\ Shape /\ Story /\ stream \in Streams
        /\ pipeline \in Seq(Batch) /\ Len(pipeline) \in Nat /\ answers \in 0 .. Len(pipeline)
    BY PipelineIs DEF QueueInv, Shape, QueueTypeOK
  <2>2. /\ answers > 0
        /\ Drops(Head(pipeline).id, stream) /\ Tells(Head(pipeline).id, "ok")
        /\ UNCHANGED <<docs, issued, by, applied, rejected>>
    BY <1>2 DEF Acknowledged
  <2>3. pipeline # <<>> /\ Head(pipeline).n \in applied
    BY <2>1, <2>2, EmptySeq DEF Story, AnsweredAreApplied
  <2>4. /\ Head(pipeline).n \in Kept
        /\ Promise!Settles(Head(pipeline).n, "ok")
    BY <2>1, <2>2, <2>3, PromiseSettles
  <2>5. QED
    BY <2>2, <2>3, <2>4 DEF Promise!Next, Promise!Acknowledge, Kept
<1>3. CASE Refused
  <2>1. /\ pipeline # <<>>
        /\ Drops(Head(pipeline).id, "initial") /\ Tells(Head(pipeline).id, "error")
        /\ rejected' = rejected \cup {Head(pipeline).n}
        /\ UNCHANGED <<docs, issued, by, applied>>
    BY <1>3 DEF Refused
  <2>2. /\ Head(pipeline).n \in Kept
        /\ Promise!Settles(Head(pipeline).n, "error")
    BY <2>1, PromiseSettles DEF Streams
  <2>3. QED
    BY <2>1, <2>2 DEF Promise!Next, Promise!Refuse, Kept
<1>4. CASE \E d \in Docs, v \in Values : Issues(d, v)
  BY <1>4, PromiseMakes DEF Promise!Next
<1>5. CASE UNCHANGED <<queue, docs, history>>
  BY <1>5, PromiseStutters
<1>6. QED
  BY <1>1, <1>2, <1>3, <1>4, <1>5
     DEF QueueNext, HandshakeCompletes, IdleStops, BackoffElapses, StreamBreaks

LEMMA PromiseStep ==
  DirectoryInv /\ DirectoryInv' /\ [Next]_vars => [Promise!Next]_(Promise!vars)
<1> SUFFICES ASSUME DirectoryInv, DirectoryInv', [Next]_vars
             PROVE  Promise!Next \/ UNCHANGED Promise!vars
  OBVIOUS
<1>1. QueueInv /\ QueueInv'
  BY DEF DirectoryInv
<1>2. CASE \E t \in TapIds : WritesEmail(t) \/ WritesUser(t)
  <2>1. PICK t \in TapIds : WritesEmail(t) \/ WritesUser(t)
    BY <1>2
  <2>2. taps[t] # None
    BY <2>1 DEF WritesEmail, WritesUser, At
  <2>3. form \in Forms /\ taps[t].form \in Forms
    BY <2>2, TapsAre
  <2>4. \/ Issues(form.email, Hash[form])
        \/ Issues(Hash[taps[t].form], taps[t].form)
    BY <2>1 DEF WritesEmail, WritesUser
  <2>5. \E d \in Docs, v \in Values : Issues(d, v)
    BY <2>3, <2>4, FormsAreRecorded
  <2>6. QED
    BY <1>1, <2>5, PromiseQueueStep
<1>3. CASE QueueNext
  BY <1>1, <1>3, PromiseQueueStep
<1>4. CASE UNCHANGED <<queue, docs, history>>
  BY <1>1, <1>4, PromiseQueueStep
<1>5. \/ \E t \in TapIds : WritesEmail(t) \/ WritesUser(t)
      \/ QueueNext
      \/ UNCHANGED <<queue, docs, history>>
  BY DEF Next, TapSignUp, AccountMade, SignUpThrows, SignsInAs, Restart, TurnsTo, Restarts,
         vars, queueVars, local
<1>6. QED
  BY <1>2, <1>3, <1>4, <1>5

\* Whatever breaks, restarts or is signed out under it, each step of the write queue is
\* one of Outbox or none: a write is kept on disk until its decision is known, is not
\* applied before an earlier one of its maker that is still kept, is never applied again
\* afterwards, and its callback hears the decision (FSTRemoteStore.mm 449-544).
THEOREM DirectoryImplementsOutbox == Spec => ImplementsOutbox
<1>1. Spec => Promise!Init /\ [][Promise!Next]_(Promise!vars)
  BY DirectoryInvHolds, PromiseInit, PromiseStep, PTL DEF Spec
<1>2. QED
  BY <1>1 DEF ImplementsOutbox, Promise!Spec
=============================================================================
