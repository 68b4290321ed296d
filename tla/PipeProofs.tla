----------------------------- MODULE PipeProofs -----------------------------
(***************************************************************************)
(* Theorems about Pipe, for any threads, sizes and limits.                 *)
(***************************************************************************)
EXTENDS Pipe, FiniteSetTheorems, SequenceTheorems,
        WellFoundedInduction, TLAPS

LEMMA PowersType == TopBit \in Powers /\ Powers \subseteq Nat /\ TopBit \in Nat
<1>1. TopBit \in Nat /\ TopBit \in Powers /\ Powers \subseteq 1..TopBit
  BY PowersAssumption, Zenon
<1> QED BY <1>1

(* next_pow2 never returns less than it is given.                          *)
LEMMA NextPow2Type ==
    ASSUME NEW n \in Int
    PROVE  /\ NextPow2(n) \in Nat /\ NextPow2(n) >= n
           /\ n <= TopBit => NextPow2(n) \in Powers
<1>1. CASE n >= TopBit
  BY <1>1, PowersType DEF NextPow2
<1>2. CASE ~(n >= TopBit)
  <2> DEFINE Enough == {m \in Powers : m >= n}
  <2>1. TopBit \in Enough
    <3>1. TopBit >= n
      BY <1>2, PowersType
    <3> QED BY <3>1, PowersType
  <2>0. Enough \subseteq Nat
    BY PowersType
  <2>2. \E m \in Enough : \A k \in Enough : ~ (<<k, m>> \in OpToRel(<, Nat))
    <3> HIDE DEF Enough
    <3> QED BY <2>0, <2>1, NatLessThanWellFounded, WFMin, Zenon
  <2>3. PICK m \in Enough : \A k \in Enough : ~ (<<k, m>> \in OpToRel(<, Nat))
    BY <2>2
  <2>4. \A k \in Enough : ~(k < m)
    <3> HIDE DEF Enough
    <3> QED BY <2>0, <2>1, <2>3 DEF OpToRel
  <2>5. \E x \in Powers : x >= n /\ \A k \in Powers : k >= n => x <= k
    BY <2>0, <2>1, <2>4, <1>2, PowersType
  <2>6. NextPow2(n) \in Powers /\ NextPow2(n) >= n
    <3>1. NextPow2(n) = CHOOSE x \in Powers :
                            x >= n /\ \A k \in Powers : k >= n => x <= k
      BY <1>2 DEF NextPow2
    <3> QED BY <2>5, <3>1, Zenon
  <2> QED BY <2>6, PowersType
<1> QED BY <1>1, <1>2, PowersType

-----------------------------------------------------------------------------
(* Types.                                                                  *)

LEMMA SizesType ==
    /\ ElemSize \in Nat \ {0} /\ MinCap * ElemSize \in Nat
    /\ Limit * ElemSize \in Nat
    /\ max_cap \in Nat /\ MinCap * ElemSize <= max_cap
<1>1. ElemSize \in Nat /\ ElemSize # 0 /\ MinCap \in Nat /\ Limit \in Nat
  BY ElemSizeAssumption, SizesAssumption
<1>2. MinCap * ElemSize \in Nat /\ Limit * ElemSize \in Nat
  BY <1>1
<1>3. MinCap * ElemSize <= SizeMax /\ SizeMax \in Int
  BY SizesAssumption, PowersType DEF SizeMax
<1>4. Greatest(Limit * ElemSize, MinCap * ElemSize) \in Nat
      /\ MinCap * ElemSize <= Greatest(Limit * ElemSize, MinCap * ElemSize)
  BY <1>2 DEF Greatest
<1>5. max_cap \in Nat /\ MinCap * ElemSize <= max_cap
  <2> DEFINE g == Greatest(Limit * ElemSize, MinCap * ElemSize)
  <2>1. NextPow2(g) \in Nat /\ NextPow2(g) >= g
    BY <1>4, NextPow2Type
  <2>2. max_cap = IF Limit = 0 THEN SizeMax ELSE NextPow2(g)
    BY DEF max_cap
  <2> HIDE DEF g
  <2> QED BY <1>2, <1>3, <1>4, <2>1, <2>2 DEF g
<1> QED BY <1>1, <1>2, <1>5

LEMMA ReadType == TypeOK => \A i : Read(i) \in Bytes
BY DEF TypeOK, Read, Bytes

LEMMA MoveType ==
    ASSUME TypeOK, NEW size \in Nat, MoveTo(size)
    PROVE  /\ bufend' \in Nat /\ begin' \in Int /\ end' \in Int
           /\ allocated' \in Nat
           /\ memory' \in [0..(bufend' - 1) -> Bytes]
<1>1. BytesInUse(snapshot) \in Int
  BY SizesType DEF TypeOK, BytesInUse, WrapsAround, snapshot
<1>2. bufend' = size + ElemSize /\ begin' = 0
      /\ end' = BytesInUse(snapshot) + ElemSize
  BY DEF MoveTo, Moved
<1>3. memory' \in [0..(bufend' - 1) -> Bytes]
  BY <1>2, ReadType DEF MoveTo, Bytes
<1> QED BY <1>1, <1>2, <1>3, SizesType DEF MoveTo

LEMMA ResizeType ==
    ASSUME TypeOK, NEW size \in Int, NEW floor \in Nat,
           ResizeBuffer(size, floor)
    PROVE  /\ bufend' \in Nat /\ begin' \in Int /\ end' \in Int
           /\ allocated' \in Nat
           /\ memory' \in [0..(bufend' - 1) -> Bytes]
<1>1. Least(size, max_cap) \in Int
  BY SizesType DEF Least
<1>2. CASE Least(size, max_cap) <= floor
  BY <1>2 DEF ResizeBuffer, TypeOK
<1>3. CASE ~(Least(size, max_cap) <= floor)
  <2>1. Least(size, max_cap) \in Nat
    BY <1>1, <1>3
  <2> QED BY <1>3, <2>1, MoveType DEF ResizeBuffer
<1> QED BY <1>2, <1>3
-----------------------------------------------------------------------------
(* What the operators of a snapshot and of a call return.                  *)

LEMMA BytesOfType ==
    /\ PushSizes \subseteq Nat /\ PopSizes \subseteq Nat
    /\ ReserveSizes \subseteq Nat /\ MinCap \in Nat
    /\ \A n \in Nat : n * ElemSize \in Nat
<1>1. \A n \in Nat : n * ElemSize \in Nat
  BY SizesType
<1> QED BY <1>1, SizesAssumption

LEMMA SnapshotType ==
    ASSUME NEW s \in Snapshots, NEW n \in Int
    PROVE  /\ BytesInUse(s) \in Int /\ Capacity(s) \in Int
           /\ PushEnd(s, n) \in Int /\ PopBegin(s, n) \in Int
           /\ PushIndex(s, n) \in Int
<1>1. s.bufend \in Int /\ s.begin \in Int /\ s.end \in Int /\ ElemSize \in Int
  BY SizesType DEF Snapshots
<1>2. BytesInUse(s) \in Int /\ Capacity(s) \in Int
  BY <1>1 DEF BytesInUse, Capacity
<1>3. PushEnd(s, n) \in Int
  BY <1>1 DEF PushEnd, WrapPtr
<1>4. PopBegin(s, n) \in Int
  BY <1>1 DEF PopBegin, WrapPtr, AtRight
<1>5. PushIndex(s, n) \in Int
  BY <1>1 DEF PushIndex
<1> QED BY <1>2, <1>3, <1>4, <1>5

LEMMA SnapshotIsOne == TypeOK => snapshot \in Snapshots
BY DEF TypeOK, snapshot, Snapshots

LEMMA PushedType ==
    ASSUME TypeOK, NEW p \in Producers
    PROVE  Pushed(p) \in Int /\ Pushed(p) <= left[p]
<1>1. left[p] \in Int /\ snap[p] \in Snapshots
  BY DEF TypeOK, Threads
<1>2. max_cap - BytesInUse(snap[p]) \in Int
  BY <1>1, SnapshotType, SizesType
<1> QED BY <1>1, <1>2 DEF Pushed, Least

LEMMA PoppedType ==
    ASSUME TypeOK, NEW c \in Consumers
    PROVE  Popped(c) \in Int /\ Popped(c) <= left[c]
<1>1. left[c] \in Int /\ snap[c] \in Snapshots
  BY DEF TypeOK, Threads
<1>2. BytesInUse(snap[c]) \in Int
  BY <1>1, SnapshotType
<1> QED BY <1>1, <1>2 DEF Popped, Least

LEMMA AppendedType ==
    ASSUME NEW S, NEW s \in Seq(S), NEW n \in Int, NEW f \in [1..n -> S]
    PROVE  s \o f \in Seq(S)
<1>1. PICK m \in Nat : 1..n = 1..m
  <2>1. CASE n >= 0
    BY <2>1
  <2>2. CASE n < 0
    <3>1. 1..n = 1..0
      BY <2>2
    <3> QED BY <3>1
  <2> QED BY <2>1, <2>2
<1>2. f \in Seq(S)
  BY <1>1
<1> QED BY <1>2, ConcatProperties

LEMMA GotoType ==
    ASSUME TypeOK, NEW t \in Threads, NEW label \in Labels, Goto(t, label)
    PROVE  pc' \in [Threads -> Labels]
BY DEF TypeOK, Goto

LEMMA WakeType ==
    ASSUME TypeOK, NEW woken, NEW t, NEW label \in Labels,
           Wake(woken, t, label)
    PROVE  pc' \in [Threads -> Labels]
<1>1. "push" \in Labels /\ "pop" \in Labels
  BY DEF Labels
<1> QED BY <1>1 DEF TypeOK, Wake

LEMMA NotifyType ==
    ASSUME TypeOK, NEW cond, NEW t \in Threads, NEW label \in Labels,
           Notify(cond, t, label)
    PROVE  pc' \in [Threads -> Labels]
BY GotoType, WakeType DEF Notify, Signal

(* A step keeps the types, as long as the counts are those of the handles  *)
(* still out and a push publishes no more than it has.                     *)

PublishFits ==
    \A p \in Producers : pc[p] = "publish" => moved[p] <= left[p]

LEMMA HandlesCounted ==
    ASSUME TypeOK, RefcountsMatchHandles
    PROVE  /\ IsFiniteSet(ProducerHandles) /\ IsFiniteSet(ConsumerHandles)
           /\ ProducerHandles # {} => producer_refcount > 0
           /\ ConsumerHandles # {} => consumer_refcount > 0
<1>1. IsFiniteSet(Producers \cup {Owner}) /\ IsFiniteSet(Consumers \cup {Owner})
  BY ThreadsAssumption, FS_AddElement
<1>2. IsFiniteSet(ProducerHandles) /\ IsFiniteSet(ConsumerHandles)
  <2>1. ProducerHandles \subseteq Producers \cup {Owner}
        /\ ConsumerHandles \subseteq Consumers \cup {Owner}
    BY DEF ProducerHandles, ConsumerHandles
  <2> QED BY <1>1, <2>1, FS_Subset
<1>3. Cardinality(ProducerHandles) = 0 <=> ProducerHandles = {}
  BY <1>2, FS_EmptySet
<1>4. Cardinality(ConsumerHandles) = 0 <=> ConsumerHandles = {}
  BY <1>2, FS_EmptySet
<1> QED BY <1>2, <1>3, <1>4 DEF RefcountsMatchHandles, TypeOK

RingTyped ==
    /\ bufend \in Nat /\ begin \in Int /\ end \in Int
    /\ allocated \in Nat
    /\ memory \in [0..(bufend - 1) -> Bytes]

LEMMA TypeStep ==
    ASSUME TypeOK, PublishFits, RefcountsMatchHandles, [Next]_vars
    PROVE  TypeOK'
<1>1. ASSUME NEW p \in Producers, ProducerNew(p)
       PROVE  TypeOK'
  <2>1. pc' \in [Threads -> Labels]
    BY <1>1, GotoType DEF ProducerNew, Labels, HoldsEnd, HoldsBegin,
       Threads
  <2>2. producer_refcount' \in Nat
    BY <1>1 DEF ProducerNew, TypeOK
  <2> QED
    BY <1>1, <2>1, <2>2 DEF ProducerNew, TypeOK, ring, counts, locks,
       locals, histories
<1>2. ASSUME NEW p \in Producers, ProducerFree(p)
       PROVE  TypeOK'
  <2>1. pc' \in [Threads -> Labels]
    BY <1>2, GotoType DEF ProducerFree, Labels, HoldsEnd, HoldsBegin,
       Threads
  <2>2. p \in ProducerHandles
    BY <1>2 DEF ProducerFree, ProducerHandles
  <2>3. producer_refcount' \in Nat
    BY <1>2, <2>2, HandlesCounted DEF ProducerFree, TypeOK
  <2> QED
    BY <1>2, <2>1, <2>2, <2>3 DEF ProducerFree, TypeOK, ring, counts,
       locks, locals, histories
<1>3. ASSUME NEW p \in Producers, Push(p)
       PROVE  TypeOK'
  <2>1. pc' \in [Threads -> Labels]
    BY <1>3, GotoType DEF Push, Labels, HoldsEnd, HoldsBegin, Threads
  <2>2. left' \in [Threads -> Nat]
    <3>1. PICK n \in PushSizes : left' = [left EXCEPT ![p] = n * ElemSize]
      BY <1>3 DEF Push
    <3>2. n * ElemSize \in Nat
      BY BytesOfType
    <3> QED BY <3>1, <3>2 DEF TypeOK
  <2> QED
    BY <1>3, <2>1, <2>2 DEF Push, TypeOK, ring, counts, locks, locals,
       histories
<1>4. ASSUME NEW p \in Producers, NoConsumers(p)
       PROVE  TypeOK'
  <2>1. pc' \in [Threads -> Labels]
    BY <1>4, GotoType DEF NoConsumers, Labels, HoldsEnd, HoldsBegin,
       Threads
  <2>2. left' \in [Threads -> Nat]
    BY <1>4 DEF NoConsumers, TypeOK
  <2> QED
    BY <1>4, <2>1, <2>2 DEF NoConsumers, TypeOK, ring, counts, locks,
       locals, histories
<1>5. ASSUME NEW p \in Producers, RoomMissing(p)
       PROVE  TypeOK'
  <2>1. pc' \in [Threads -> Labels]
    BY <1>5, GotoType DEF RoomMissing, Labels, HoldsEnd, HoldsBegin,
       Threads
  <2>2. end_lock' \in Threads \cup {NoThread}
    BY <1>5 DEF RoomMissing, Threads
  <2> QED
    BY <1>5, <2>1, <2>2 DEF RoomMissing, TypeOK, ring, counts, locks,
       locals, histories
<1>6. ASSUME NEW p \in Producers, SleepForRoom(p)
       PROVE  TypeOK'
  <2>1. pc' \in [Threads -> Labels]
    BY <1>6, GotoType DEF SleepForRoom, Labels, HoldsEnd, HoldsBegin,
       Threads
  <2>2. end_lock' \in Threads \cup {NoThread}
    BY <1>6 DEF SleepForRoom
  <2> QED
    BY <1>6, <2>1, <2>2 DEF SleepForRoom, TypeOK, ring, counts, locks,
       locals, histories
<1>7. ASSUME NEW p \in Producers, RoomFound(p)
       PROVE  TypeOK'
  <2>1. pc' \in [Threads -> Labels]
    BY <1>7, GotoType DEF RoomFound, Labels, HoldsEnd, HoldsBegin,
       Threads
  <2>2. end_lock' \in Threads \cup {NoThread}
    BY <1>7 DEF RoomFound, Threads
  <2>3. snap' \in [Threads -> Snapshots]
    BY <1>7, SnapshotIsOne DEF RoomFound, TypeOK
  <2> QED
    BY <1>7, <2>1, <2>2, <2>3 DEF RoomFound, TypeOK, ring, counts, locks,
       locals, histories
<1>8. ASSUME NEW p \in Producers, Grow(p)
       PROVE  TypeOK'
  <2>1. pc' \in [Threads -> Labels]
    BY <1>8, GotoType DEF Grow, Labels, HoldsEnd, HoldsBegin, Threads
  <2>2. NextPow2(BytesNeeded(p)) \in Int /\ min_cap \in Nat
    <3>1. left[p] * ElemSize \in Int /\ min_cap \in Nat
      BY BytesOfType DEF TypeOK, Threads
    <3>2. BytesInUse(snapshot) \in Int
      BY SnapshotIsOne, SnapshotType
    <3>3. BytesNeeded(p) \in Int
      BY <3>1, <3>2 DEF BytesNeeded
    <3> QED BY <3>1, <3>3, NextPow2Type
  <2>3. RingTyped'
    <3>1. CASE ResizeBuffer(NextPow2(BytesNeeded(p)), min_cap)
      BY <2>2, <3>1, ResizeType DEF RingTyped
    <3>2. CASE UNCHANGED <<memory, allocated, bufend, begin, end>>
      BY <3>2 DEF TypeOK, RingTyped
    <3> QED BY <1>8, <3>1, <3>2 DEF Grow
  <2>4. snap' \in [Threads -> Snapshots]
    BY <1>8, <2>3 DEF Grow, TypeOK, snapshot, Snapshots, RingTyped
  <2> QED
    BY <1>8, <2>1, <2>2, <2>3, <2>4 DEF Grow, TypeOK, ring, counts,
       locks, locals, histories, RingTyped
<1>9. ASSUME NEW p \in Producers, CopyIn(p)
       PROVE  TypeOK'
  <2>1. pc' \in [Threads -> Labels]
    BY <1>9, GotoType DEF CopyIn, Labels, HoldsEnd, HoldsBegin, Threads
  <2>2. moved' \in [Threads -> Int]
    BY <1>9, PushedType DEF CopyIn, TypeOK
  <2>3. \A i \in Int : <<p, sent[p] + 1 + PushIndex(snap[p], i)>> \in Bytes
    <3>1. sent[p] \in Int /\ snap[p] \in Snapshots
      BY DEF TypeOK, Threads
    <3> QED BY <3>1, SnapshotType DEF Bytes
  <2>4. memory' \in [0..(bufend' - 1) -> Bytes]
    BY <1>9, <2>3 DEF CopyIn, TypeOK
  <2> QED
    BY <1>9, <2>1, <2>2, <2>3, <2>4 DEF CopyIn, TypeOK, ring, counts,
       locks, locals, histories
<1>10. ASSUME NEW p \in Producers, Publish(p)
       PROVE  TypeOK'
  <2>1. pc' \in [Threads -> Labels]
    BY <1>10, GotoType DEF Publish, Labels, HoldsEnd, HoldsBegin, Threads
  <2>2. /\ moved[p] \in Int /\ moved[p] <= left[p]
        /\ sent[p] \in Int /\ left[p] \in Nat /\ snap[p] \in Snapshots
    BY <1>10 DEF Publish, TypeOK, PublishFits, Threads
  <2>3. end' \in Int
    BY <1>10, <2>2, SnapshotType DEF Publish
  <2>4. left' \in [Threads -> Nat]
    <3>1. left' = [left EXCEPT ![p] = left[p] - moved[p]]
      BY <1>10 DEF Publish
    <3>2. left[p] - moved[p] \in Nat
      BY <2>2
    <3> QED BY <3>1, <3>2 DEF TypeOK
  <2>5. sent' \in [Producers -> Int]
    BY <1>10, <2>2 DEF Publish, TypeOK
  <2>6. [i \in 1..moved[p] |-> <<p, sent[p] + i>>]
         \in [1..moved[p] -> Producers \X Int]
    BY <1>10, <2>2 DEF Publish
  <2>7. stream' \in Seq(Producers \X Int)
    BY <1>10, <2>2, <2>6, AppendedType DEF Publish, TypeOK
  <2>8. end_lock' \in Threads \cup {NoThread}
    BY <1>10 DEF Publish
  <2> QED
    BY <1>10, <2>1, <2>2, <2>3, <2>4, <2>5, <2>6, <2>7, <2>8 DEF Publish,
       TypeOK, ring, counts, locks, locals, histories
<1>11. ASSUME NEW p \in Producers, NotifyPushed(p)
       PROVE  TypeOK'
  <2>1. pc' \in [Threads -> Labels]
    BY <1>11, NotifyType DEF NotifyPushed, Labels, HoldsEnd, HoldsBegin,
       Threads
  <2> QED
    BY <1>11, <2>1 DEF NotifyPushed, TypeOK, ring, counts, locks, locals,
       histories
<1>12. ASSUME NEW p \in Producers, LastProducerLooks(p)
       PROVE  TypeOK'
  <2>1. pc' \in [Threads -> Labels]
    BY <1>12, GotoType DEF LastProducerLooks, Labels, HoldsEnd,
       HoldsBegin, Threads
  <2>2. seen' \in [Threads -> Nat]
    BY <1>12 DEF LastProducerLooks, TypeOK
  <2> QED
    BY <1>12, <2>1, <2>2 DEF LastProducerLooks, TypeOK, ring, counts,
       locks, locals, histories
<1>13. ASSUME NEW c \in Consumers, ConsumerNew(c)
       PROVE  TypeOK'
  <2>1. pc' \in [Threads -> Labels]
    BY <1>13, GotoType DEF ConsumerNew, Labels, HoldsEnd, HoldsBegin,
       Threads
  <2>2. consumer_refcount' \in Nat
    BY <1>13 DEF ConsumerNew, TypeOK
  <2> QED
    BY <1>13, <2>1, <2>2 DEF ConsumerNew, TypeOK, ring, counts, locks,
       locals, histories
<1>14. ASSUME NEW c \in Consumers, ConsumerFree(c)
       PROVE  TypeOK'
  <2>1. pc' \in [Threads -> Labels]
    BY <1>14, GotoType DEF ConsumerFree, Labels, HoldsEnd, HoldsBegin,
       Threads
  <2>2. c \in ConsumerHandles
    BY <1>14 DEF ConsumerFree, ConsumerHandles
  <2>3. consumer_refcount' \in Nat
    BY <1>14, <2>2, HandlesCounted DEF ConsumerFree, TypeOK
  <2> QED
    BY <1>14, <2>1, <2>2, <2>3 DEF ConsumerFree, TypeOK, ring, counts,
       locks, locals, histories
<1>15. ASSUME NEW c \in Consumers, Pop(c)
       PROVE  TypeOK'
  <2>1. pc' \in [Threads -> Labels]
    BY <1>15, GotoType DEF Pop, Labels, HoldsEnd, HoldsBegin, Threads
  <2>2. left' \in [Threads -> Nat]
    <3>1. PICK n \in PopSizes : left' = [left EXCEPT ![c] = n * ElemSize]
      BY <1>15 DEF Pop
    <3>2. n * ElemSize \in Nat
      BY BytesOfType
    <3> QED BY <3>1, <3>2 DEF TypeOK
  <2>3. eager' \in [Consumers -> BOOLEAN]
    BY <1>15 DEF Pop, TypeOK
  <2>4. eof' \in [Consumers -> BOOLEAN]
    BY <1>15 DEF Pop, TypeOK
  <2> QED
    BY <1>15, <2>1, <2>2, <2>3, <2>4 DEF Pop, TypeOK, ring, counts,
       locks, locals, histories
<1>16. ASSUME NEW c \in Consumers, ElementsFound(c)
       PROVE  TypeOK'
  <2>1. pc' \in [Threads -> Labels]
    BY <1>16, GotoType DEF ElementsFound, Labels, HoldsEnd, HoldsBegin,
       Threads
  <2>2. begin_lock' \in Threads \cup {NoThread}
    BY <1>16 DEF ElementsFound, Threads
  <2>3. snap' \in [Threads -> Snapshots]
    BY <1>16, SnapshotIsOne DEF ElementsFound, TypeOK
  <2> QED
    BY <1>16, <2>1, <2>2, <2>3 DEF ElementsFound, TypeOK, ring, counts,
       locks, locals, histories
<1>17. ASSUME NEW c \in Consumers, ElementsMissing(c)
       PROVE  TypeOK'
  <2>1. pc' \in [Threads -> Labels]
    BY <1>17, GotoType DEF ElementsMissing, Labels, HoldsEnd, HoldsBegin,
       Threads
  <2>2. begin_lock' \in Threads \cup {NoThread}
    BY <1>17 DEF ElementsMissing, Threads
  <2> QED
    BY <1>17, <2>1, <2>2 DEF ElementsMissing, TypeOK, ring, counts,
       locks, locals, histories
<1>18. ASSUME NEW c \in Consumers, SleepForElements(c)
       PROVE  TypeOK'
  <2>1. pc' \in [Threads -> Labels]
    BY <1>18, GotoType DEF SleepForElements, Labels, HoldsEnd,
       HoldsBegin, Threads
  <2>2. begin_lock' \in Threads \cup {NoThread}
    BY <1>18 DEF SleepForElements
  <2> QED
    BY <1>18, <2>1, <2>2 DEF SleepForElements, TypeOK, ring, counts,
       locks, locals, histories
<1>19. ASSUME NEW c \in Consumers, EndOfStream(c)
       PROVE  TypeOK'
  <2>1. pc' \in [Threads -> Labels]
    BY <1>19, GotoType DEF EndOfStream, Labels, HoldsEnd, HoldsBegin,
       Threads
  <2>2. begin_lock' \in Threads \cup {NoThread}
    BY <1>19 DEF EndOfStream
  <2>3. eof' \in [Consumers -> BOOLEAN]
    BY <1>19 DEF EndOfStream, TypeOK
  <2> QED
    BY <1>19, <2>1, <2>2, <2>3 DEF EndOfStream, TypeOK, ring, counts,
       locks, locals, histories
<1>20. ASSUME NEW c \in Consumers, CopyOut(c)
       PROVE  TypeOK'
  <2>1. pc' \in [Threads -> Labels]
    BY <1>20, GotoType DEF CopyOut, Labels, HoldsEnd, HoldsBegin, Threads
  <2>2. Popped(c) \in Int /\ Popped(c) <= left[c] /\ left[c] \in Nat
         /\ snap[c] \in Snapshots
    BY <1>20, PoppedType DEF CopyOut, TypeOK, Threads
  <2>3. begin' \in Int
    BY <1>20, <2>2, SnapshotType DEF CopyOut, Snapshots
  <2>4. left' \in [Threads -> Nat]
    <3>1. left' = [left EXCEPT ![c] = left[c] - Popped(c)]
      BY <1>20 DEF CopyOut
    <3>2. left[c] - Popped(c) \in Nat
      BY <2>2
    <3> QED BY <3>1, <3>2 DEF TypeOK
  <2>5. moved' \in [Threads -> Int]
    BY <1>20, <2>2 DEF CopyOut, TypeOK
  <2>6. [i \in 1..Popped(c) |-> Read(PopCell(snap[c], i - 1))]
         \in [1..Popped(c) -> Bytes]
    BY <1>20, ReadType DEF CopyOut
  <2>7. out' \in Seq(Bytes)
    BY <1>20, <2>2, <2>6, AppendedType DEF CopyOut, TypeOK
  <2>8. begin_lock' \in Threads \cup {NoThread}
    BY <1>20 DEF CopyOut
  <2> QED
    BY <1>20, <2>1, <2>2, <2>3, <2>4, <2>5, <2>6, <2>7, <2>8 DEF CopyOut,
       TypeOK, ring, counts, locks, locals, histories
<1>21. ASSUME NEW c \in Consumers, TrimLocksEnd(c)
       PROVE  TypeOK'
  <2>1. pc' \in [Threads -> Labels]
    BY <1>21, GotoType DEF TrimLocksEnd, Labels, HoldsEnd, HoldsBegin,
       Threads
  <2>2. end_lock' \in Threads \cup {NoThread}
    BY <1>21 DEF TrimLocksEnd, Threads
  <2> QED
    BY <1>21, <2>1, <2>2 DEF TrimLocksEnd, TypeOK, ring, counts, locks,
       locals, histories
<1>22. ASSUME NEW c \in Consumers, Trim(c)
       PROVE  TypeOK'
  <2>1. pc' \in [Threads -> Labels]
    BY <1>22, GotoType DEF Trim, Labels, HoldsEnd, HoldsBegin, Threads
  <2>2. Capacity(snapshot) \div 2 \in Int
    BY <1>22, SnapshotIsOne, SnapshotType DEF Trim
  <2>3. RingTyped'
    BY <1>22, <2>2, ResizeType DEF Trim, TypeOK, RingTyped
  <2>4. end_lock' \in Threads \cup {NoThread}
    BY <1>22 DEF Trim
  <2> QED
    BY <1>22, <2>1, <2>2, <2>3, <2>4 DEF Trim, TypeOK, ring, counts,
       locks, locals, histories, RingTyped
<1>23. ASSUME NEW c \in Consumers, NotifyPopped(c)
       PROVE  TypeOK'
  <2>1. pc' \in [Threads -> Labels]
    BY <1>23, NotifyType DEF NotifyPopped, Labels, HoldsEnd, HoldsBegin,
       Threads
  <2> QED
    BY <1>23, <2>1 DEF NotifyPopped, TypeOK, ring, counts, locks, locals,
       histories
<1>24. ASSUME NEW c \in Consumers, LastConsumerLooks(c)
       PROVE  TypeOK'
  <2>1. pc' \in [Threads -> Labels]
    BY <1>24, GotoType DEF LastConsumerLooks, Labels, HoldsEnd,
       HoldsBegin, Threads
  <2>2. seen' \in [Threads -> Nat]
    BY <1>24 DEF LastConsumerLooks, TypeOK
  <2> QED
    BY <1>24, <2>1, <2>2 DEF LastConsumerLooks, TypeOK, ring, counts,
       locks, locals, histories
<1>25. ASSUME FreeProducers
       PROVE  TypeOK'
  <2>1. pc' \in [Threads -> Labels]
    BY <1>25, GotoType DEF FreeProducers, Labels, HoldsEnd, HoldsBegin,
       Threads
  <2>2. Owner \in ProducerHandles
    BY <1>25 DEF FreeProducers, ProducerHandles
  <2>3. producer_refcount' \in Nat
    BY <1>25, <2>2, HandlesCounted DEF FreeProducers, TypeOK
  <2>4. seen' \in [Threads -> Nat]
    BY <1>25, <2>3 DEF FreeProducers, TypeOK
  <2> QED
    BY <1>25, <2>1, <2>2, <2>3, <2>4 DEF FreeProducers, TypeOK, ring,
       counts, locks, locals, histories
<1>26. ASSUME FreeConsumers
       PROVE  TypeOK'
  <2>1. pc' \in [Threads -> Labels]
    BY <1>26, GotoType DEF FreeConsumers, Labels, HoldsEnd, HoldsBegin,
       Threads
  <2>2. Owner \in ConsumerHandles
    BY <1>26 DEF FreeConsumers, ConsumerHandles
  <2>3. consumer_refcount' \in Nat
    BY <1>26, <2>2, HandlesCounted DEF FreeConsumers, TypeOK
  <2> QED
    BY <1>26, <2>1, <2>2, <2>3 DEF FreeConsumers, TypeOK, ring, counts,
       locks, locals, histories
<1>27. ASSUME FreeBuffer
       PROVE  TypeOK'
  <2>1. pc' \in [Threads -> Labels]
    BY <1>27, GotoType, WakeType DEF FreeBuffer, Labels, HoldsEnd,
       HoldsBegin, Deallocate, Threads
  <2>2. deallocated' \in BOOLEAN /\ buffer' \in {"live", "null"}
    BY <1>27 DEF FreeBuffer, TypeOK, Deallocate, counts
  <2> QED
    BY <1>27, <2>1, <2>2 DEF FreeBuffer, TypeOK, ring, counts, locks,
       locals, histories, Deallocate
<1>28. ASSUME FreeWakes
       PROVE  TypeOK'
  <2>1. pc' \in [Threads -> Labels]
    BY <1>28, WakeType DEF FreeWakes, Labels, HoldsEnd, HoldsBegin
  <2> QED
    BY <1>28, <2>1 DEF FreeWakes, TypeOK, ring, counts, locks, locals,
       histories
<1>29. ASSUME NEW t \in Threads, ReserveLocksEnd(t)
       PROVE  TypeOK'
  <2>1. pc' \in [Threads -> Labels]
    BY <1>29, GotoType DEF ReserveLocksEnd, Labels, HoldsEnd, HoldsBegin
  <2>2. left' \in [Threads -> Nat]
    BY <1>29, BytesOfType DEF ReserveLocksEnd, TypeOK
  <2>3. end_lock' \in Threads \cup {NoThread}
    BY <1>29 DEF ReserveLocksEnd
  <2> QED
    BY <1>29, <2>1, <2>2, <2>3 DEF ReserveLocksEnd, TypeOK, ring, counts,
       locks, locals, histories
<1>30. ASSUME NEW t \in Threads, Reserve(t)
       PROVE  TypeOK'
  <2>1. pc' \in [Threads -> Labels]
    BY <1>30, GotoType DEF Reserve, Labels, HoldsEnd, HoldsBegin
  <2>2. left[t] \in Int
    BY <1>30 DEF Reserve, TypeOK
  <2>3. min_cap' \in Nat
    BY <1>30, SizesType DEF Reserve, TypeOK, Least, ring
  <2>4. RingTyped'
    BY <1>30, <2>2, <2>3, ResizeType DEF Reserve, TypeOK, RingTyped, ring
  <2>5. left' \in [Threads -> Nat]
    BY <1>30 DEF Reserve, TypeOK
  <2>6. end_lock' \in Threads \cup {NoThread}
    BY <1>30 DEF Reserve
  <2> QED
    BY <1>30, <2>1, <2>2, <2>3, <2>4, <2>5, <2>6 DEF Reserve, TypeOK,
       ring, counts, locks, locals, histories, RingTyped
<1>31. ASSUME NEW t \in Threads, LastHandleWakes(t)
       PROVE  TypeOK'
  <2>1. pc' \in [Threads -> Labels]
    BY <1>31, WakeType DEF LastHandleWakes, Labels, HoldsEnd, HoldsBegin
  <2> QED
    BY <1>31, <2>1 DEF LastHandleWakes, TypeOK, ring, counts, locks,
       locals, histories
<1>32. ASSUME NEW t \in Threads, LastHandleDeallocates(t)
       PROVE  TypeOK'
  <2>1. pc' \in [Threads -> Labels]
    BY <1>32, GotoType DEF LastHandleDeallocates, Labels, HoldsEnd,
       HoldsBegin, Deallocate
  <2>2. deallocated' \in BOOLEAN
    BY <1>32 DEF LastHandleDeallocates, Deallocate
  <2> QED
    BY <1>32, <2>1, <2>2 DEF LastHandleDeallocates, TypeOK, ring, counts,
       locks, locals, histories, Deallocate
<1>33. ASSUME NEW t \in Threads, SpuriousWakeup(t)
       PROVE  TypeOK'
  <2>1. pc' \in [Threads -> Labels]
    BY <1>33, WakeType DEF SpuriousWakeup, Labels, HoldsEnd, HoldsBegin
  <2> QED
    BY <1>33, <2>1 DEF SpuriousWakeup, TypeOK, ring, counts, locks,
       locals, histories
<1>34. CASE UNCHANGED vars
  BY <1>34 DEF vars, TypeOK, ring, counts, locks, locals, histories
<1> QED
  BY <1>1, <1>2, <1>3, <1>4, <1>5, <1>6, <1>7, <1>8, <1>9, <1>10, <1>11,
     <1>12, <1>13, <1>14, <1>15, <1>16, <1>17, <1>18, <1>19, <1>20, <1>21,
     <1>22, <1>23, <1>24, <1>25, <1>26, <1>27, <1>28, <1>29, <1>30, <1>31,
     <1>32, <1>33, <1>34 DEF Next, ProducerCall, ConsumerCall,
     ProducerStep, ConsumerStep, OwnerStep, HandleStep

-----------------------------------------------------------------------------
(* Who holds which mutex.  A thread that is woken was asleep, and asks for *)
(* its mutex before it goes on.                                            *)

Asleep == JustPushed \cup JustPopped

LEMMA WakeKeepsMutexes ==
    ASSUME TypeOK, MutexesHeld,
           NEW woken \in SUBSET Asleep, NEW t \in Threads, NEW label,
           Wake(woken, t, label), UNCHANGED <<begin_lock, end_lock>>,
           pc[t] \notin HoldsEnd \cup HoldsBegin,
           label \notin HoldsEnd \cup HoldsBegin
    PROVE  MutexesHeld'
<1> SUFFICES ASSUME NEW u \in Threads
             PROVE  /\ end_lock = u <=> pc'[u] \in HoldsEnd
                    /\ begin_lock = u <=> pc'[u] \in HoldsBegin
  BY DEF MutexesHeld
<1>1. /\ end_lock = u <=> pc[u] \in HoldsEnd
      /\ begin_lock = u <=> pc[u] \in HoldsBegin
  BY DEF MutexesHeld
<1>2. CASE u = t
  BY <1>1, <1>2 DEF Wake
<1>3. CASE u # t /\ u \in woken
  <2>1. pc[u] \in {"elems_sleep", "room_sleep"}
    BY <1>3 DEF Asleep, JustPushed, JustPopped
  <2>2. pc'[u] \in {"push", "pop"}
    BY <1>3 DEF Wake
  <2> QED BY <1>1, <2>1, <2>2 DEF HoldsEnd, HoldsBegin
<1>4. CASE u # t /\ u \notin woken
  BY <1>1, <1>4 DEF Wake
<1> QED BY <1>2, <1>3, <1>4

LEMMA NotifyKeepsMutexes ==
    ASSUME TypeOK, MutexesHeld,
           NEW cond \in SUBSET Asleep, NEW t \in Threads, NEW label,
           Notify(cond, t, label), UNCHANGED <<begin_lock, end_lock>>,
           pc[t] \notin HoldsEnd \cup HoldsBegin,
           label \notin HoldsEnd \cup HoldsBegin
    PROVE  MutexesHeld'
<1>1. CASE Goto(t, label)
  BY <1>1 DEF Goto, MutexesHeld, TypeOK
<1>2. CASE \E u \in cond : Wake({u}, t, label)
  BY <1>2, WakeKeepsMutexes
<1>3. CASE Wake(cond, t, label)
  BY <1>3, WakeKeepsMutexes
<1> QED BY <1>1, <1>2, <1>3 DEF Notify, Signal

LEMMA MutexesStep ==
    ASSUME TypeOK, MutexesHeld, [Next]_vars
    PROVE  MutexesHeld'
<1> USE ThreadsAssumption DEF TypeOK, MutexesHeld, HoldsEnd, HoldsBegin, Threads,
    Goto, locks
<1>1. ASSUME NEW p \in Producers, ProducerNew(p)
       PROVE  MutexesHeld'
  BY <1>1 DEF ProducerNew
<1>2. ASSUME NEW p \in Producers, ProducerFree(p)
       PROVE  MutexesHeld'
  BY <1>2 DEF ProducerFree
<1>3. ASSUME NEW p \in Producers, Push(p)
       PROVE  MutexesHeld'
  BY <1>3 DEF Push
<1>4. ASSUME NEW p \in Producers, NoConsumers(p)
       PROVE  MutexesHeld'
  BY <1>4 DEF NoConsumers
<1>5. ASSUME NEW p \in Producers, RoomMissing(p)
       PROVE  MutexesHeld'
  BY <1>5 DEF RoomMissing
<1>6. ASSUME NEW p \in Producers, SleepForRoom(p)
       PROVE  MutexesHeld'
  BY <1>6 DEF SleepForRoom
<1>7. ASSUME NEW p \in Producers, RoomFound(p)
       PROVE  MutexesHeld'
  BY <1>7 DEF RoomFound
<1>8. ASSUME NEW p \in Producers, Grow(p)
       PROVE  MutexesHeld'
  BY <1>8 DEF Grow
<1>9. ASSUME NEW p \in Producers, CopyIn(p)
       PROVE  MutexesHeld'
  BY <1>9 DEF CopyIn
<1>10. ASSUME NEW p \in Producers, Publish(p)
       PROVE  MutexesHeld'
  BY <1>10 DEF Publish
<1>11. ASSUME NEW p \in Producers, NotifyPushed(p)
       PROVE  MutexesHeld'
  BY <1>11, NotifyKeepsMutexes DEF NotifyPushed, Asleep
<1>12. ASSUME NEW p \in Producers, LastProducerLooks(p)
       PROVE  MutexesHeld'
  BY <1>12 DEF LastProducerLooks
<1>13. ASSUME NEW c \in Consumers, ConsumerNew(c)
       PROVE  MutexesHeld'
  BY <1>13 DEF ConsumerNew
<1>14. ASSUME NEW c \in Consumers, ConsumerFree(c)
       PROVE  MutexesHeld'
  BY <1>14 DEF ConsumerFree
<1>15. ASSUME NEW c \in Consumers, Pop(c)
       PROVE  MutexesHeld'
  BY <1>15 DEF Pop
<1>16. ASSUME NEW c \in Consumers, ElementsFound(c)
       PROVE  MutexesHeld'
  BY <1>16 DEF ElementsFound
<1>17. ASSUME NEW c \in Consumers, ElementsMissing(c)
       PROVE  MutexesHeld'
  BY <1>17 DEF ElementsMissing
<1>18. ASSUME NEW c \in Consumers, SleepForElements(c)
       PROVE  MutexesHeld'
  BY <1>18 DEF SleepForElements
<1>19. ASSUME NEW c \in Consumers, EndOfStream(c)
       PROVE  MutexesHeld'
  BY <1>19 DEF EndOfStream
<1>20. ASSUME NEW c \in Consumers, CopyOut(c)
       PROVE  MutexesHeld'
  BY <1>20 DEF CopyOut
<1>21. ASSUME NEW c \in Consumers, TrimLocksEnd(c)
       PROVE  MutexesHeld'
  BY <1>21 DEF TrimLocksEnd
<1>22. ASSUME NEW c \in Consumers, Trim(c)
       PROVE  MutexesHeld'
  BY <1>22 DEF Trim
<1>23. ASSUME NEW c \in Consumers, NotifyPopped(c)
       PROVE  MutexesHeld'
  BY <1>23, NotifyKeepsMutexes DEF NotifyPopped, Asleep
<1>24. ASSUME NEW c \in Consumers, LastConsumerLooks(c)
       PROVE  MutexesHeld'
  BY <1>24 DEF LastConsumerLooks
<1>25. ASSUME FreeProducers
       PROVE  MutexesHeld'
  BY <1>25 DEF FreeProducers
<1>26. ASSUME FreeConsumers
       PROVE  MutexesHeld'
  BY <1>26 DEF FreeConsumers
<1>27. ASSUME FreeBuffer
       PROVE  MutexesHeld'
  BY <1>27, WakeKeepsMutexes DEF FreeBuffer, Asleep, Deallocate, counts
<1>28. ASSUME FreeWakes
       PROVE  MutexesHeld'
  BY <1>28, WakeKeepsMutexes DEF FreeWakes, Asleep
<1>29. ASSUME NEW t \in Threads, ReserveLocksEnd(t)
       PROVE  MutexesHeld'
  BY <1>29 DEF ReserveLocksEnd
<1>30. ASSUME NEW t \in Threads, Reserve(t)
       PROVE  MutexesHeld'
  BY <1>30 DEF Reserve
<1>31. ASSUME NEW t \in Threads, LastHandleWakes(t)
       PROVE  MutexesHeld'
  BY <1>31, WakeKeepsMutexes DEF LastHandleWakes, Asleep
<1>32. ASSUME NEW t \in Threads, LastHandleDeallocates(t)
       PROVE  MutexesHeld'
  BY <1>32 DEF LastHandleDeallocates, Deallocate
<1>33. ASSUME NEW t \in Threads, SpuriousWakeup(t)
       PROVE  MutexesHeld'
  BY <1>33, WakeKeepsMutexes DEF SpuriousWakeup, Asleep, JustPushed,
     JustPopped
<1>34. CASE UNCHANGED vars
  BY <1>34 DEF vars
<1> QED
  BY <1>1, <1>2, <1>3, <1>4, <1>5, <1>6, <1>7, <1>8, <1>9, <1>10, <1>11,
     <1>12, <1>13, <1>14, <1>15, <1>16, <1>17, <1>18, <1>19, <1>20, <1>21,
     <1>22, <1>23, <1>24, <1>25, <1>26, <1>27, <1>28, <1>29, <1>30, <1>31,
     <1>32, <1>33, <1>34 DEF Next, ProducerCall, ConsumerCall,
     ProducerStep, ConsumerStep, OwnerStep, HandleStep

-----------------------------------------------------------------------------
(* The reference counts.  Only the calls that issue a handle or give one   *)
(* back change who has one.                                                *)

(* Where a thread has no producer's handle, and no consumer's.             *)
NoProducer == {"unborn", "last", "decide", "gone", "free_consumers",
               "free_buffer", "free_wakes"}

NoConsumer == NoProducer \ {"free_consumers"}

LEMMA SameHandlesSuffice ==
    ASSUME RefcountsMatchHandles,
           UNCHANGED <<producer_refcount, consumer_refcount>>,
           \A t \in Threads : /\ pc[t] \in NoProducer <=> pc'[t] \in NoProducer
                              /\ pc[t] \in NoConsumer <=> pc'[t] \in NoConsumer
    PROVE  RefcountsMatchHandles'
<1>1. ProducerHandles' = ProducerHandles
  BY DEF ProducerHandles, NoProducer, Threads
<1>2. ConsumerHandles' = ConsumerHandles
  BY DEF ConsumerHandles, NoConsumer, NoProducer, Threads
<1> QED BY <1>1, <1>2 DEF RefcountsMatchHandles

LEMMA GotoKeepsHandles ==
    ASSUME TypeOK, RefcountsMatchHandles,
           NEW t \in Threads, NEW label, Goto(t, label),
           UNCHANGED <<producer_refcount, consumer_refcount>>,
           pc[t] \in NoProducer <=> label \in NoProducer,
           pc[t] \in NoConsumer <=> label \in NoConsumer
    PROVE  RefcountsMatchHandles'
BY SameHandlesSuffice DEF TypeOK, Goto

LEMMA WakeKeepsHandles ==
    ASSUME TypeOK, RefcountsMatchHandles,
           NEW woken \in SUBSET Asleep, NEW t \in Threads, NEW label,
           Wake(woken, t, label),
           UNCHANGED <<producer_refcount, consumer_refcount>>,
           pc[t] \in NoProducer <=> label \in NoProducer,
           pc[t] \in NoConsumer <=> label \in NoConsumer
    PROVE  RefcountsMatchHandles'
<1> SUFFICES ASSUME NEW u \in Threads
             PROVE  /\ pc[u] \in NoProducer <=> pc'[u] \in NoProducer
                    /\ pc[u] \in NoConsumer <=> pc'[u] \in NoConsumer
  BY SameHandlesSuffice
<1>1. CASE u = t
  BY <1>1 DEF Wake
<1>2. CASE u # t /\ u \in woken
  <2>1. pc[u] \in {"elems_sleep", "room_sleep"}
    BY <1>2 DEF Asleep, JustPushed, JustPopped
  <2>2. pc'[u] \in {"push", "pop"}
    BY <1>2 DEF Wake
  <2> QED BY <2>1, <2>2 DEF NoProducer, NoConsumer
<1>3. CASE u # t /\ u \notin woken
  BY <1>3 DEF Wake
<1> QED BY <1>1, <1>2, <1>3

LEMMA NotifyKeepsHandles ==
    ASSUME TypeOK, RefcountsMatchHandles,
           NEW cond \in SUBSET Asleep, NEW t \in Threads, NEW label,
           Notify(cond, t, label),
           UNCHANGED <<producer_refcount, consumer_refcount>>,
           pc[t] \in NoProducer <=> label \in NoProducer,
           pc[t] \in NoConsumer <=> label \in NoConsumer
    PROVE  RefcountsMatchHandles'
<1>1. CASE Goto(t, label)
  BY <1>1, GotoKeepsHandles
<1>2. CASE \E u \in cond : Wake({u}, t, label)
  BY <1>2, WakeKeepsHandles
<1>3. CASE Wake(cond, t, label)
  BY <1>3, WakeKeepsHandles
<1> QED BY <1>1, <1>2, <1>3 DEF Notify, Signal

LEMMA RefcountsStep ==
    ASSUME TypeOK, RefcountsMatchHandles, [Next]_vars
    PROVE  RefcountsMatchHandles'
<1> USE DEF NoProducer, NoConsumer
<1>1. ASSUME NEW p \in Producers, ProducerNew(p)
       PROVE  RefcountsMatchHandles'
  <2>1. ProducerHandles' = ProducerHandles \cup {p} /\ p \notin ProducerHandles
    BY <1>1 DEF ProducerNew, Goto, TypeOK, ProducerHandles, Threads
  <2>2. ConsumerHandles' = ConsumerHandles
    BY <1>1, ThreadsAssumption
       DEF ProducerNew, Goto, TypeOK, ConsumerHandles, Threads
  <2>3. Cardinality(ProducerHandles') = Cardinality(ProducerHandles) + 1
    BY <2>1, HandlesCounted, FS_AddElement
  <2> QED BY <1>1, <2>2, <2>3 DEF ProducerNew, RefcountsMatchHandles
<1>2. ASSUME NEW p \in Producers, ProducerFree(p)
       PROVE  RefcountsMatchHandles'
  <2>1. ProducerHandles' = ProducerHandles \ {p} /\ p \in ProducerHandles
    BY <1>2 DEF ProducerFree, Goto, TypeOK, ProducerHandles, Threads
  <2>2. ConsumerHandles' = ConsumerHandles
    BY <1>2, ThreadsAssumption
       DEF ProducerFree, Goto, TypeOK, ConsumerHandles, Threads
  <2>3. Cardinality(ProducerHandles') = Cardinality(ProducerHandles) - 1
    BY <2>1, HandlesCounted, FS_RemoveElement
  <2> QED BY <1>2, <2>2, <2>3 DEF ProducerFree, RefcountsMatchHandles
<1>3. ASSUME NEW p \in Producers, Push(p)
       PROVE  RefcountsMatchHandles'
  BY <1>3, GotoKeepsHandles DEF Push, Threads, counts
<1>4. ASSUME NEW p \in Producers, NoConsumers(p)
       PROVE  RefcountsMatchHandles'
  BY <1>4, GotoKeepsHandles DEF NoConsumers, Threads, counts
<1>5. ASSUME NEW p \in Producers, RoomMissing(p)
       PROVE  RefcountsMatchHandles'
  BY <1>5, GotoKeepsHandles DEF RoomMissing, Threads, counts
<1>6. ASSUME NEW p \in Producers, SleepForRoom(p)
       PROVE  RefcountsMatchHandles'
  BY <1>6, GotoKeepsHandles DEF SleepForRoom, Threads, counts
<1>7. ASSUME NEW p \in Producers, RoomFound(p)
       PROVE  RefcountsMatchHandles'
  BY <1>7, GotoKeepsHandles DEF RoomFound, Threads, counts
<1>8. ASSUME NEW p \in Producers, Grow(p)
       PROVE  RefcountsMatchHandles'
  BY <1>8, GotoKeepsHandles DEF Grow, Threads, counts
<1>9. ASSUME NEW p \in Producers, CopyIn(p)
       PROVE  RefcountsMatchHandles'
  BY <1>9, GotoKeepsHandles DEF CopyIn, Threads, counts
<1>10. ASSUME NEW p \in Producers, Publish(p)
       PROVE  RefcountsMatchHandles'
  BY <1>10, GotoKeepsHandles DEF Publish, Threads, counts
<1>11. ASSUME NEW p \in Producers, NotifyPushed(p)
       PROVE  RefcountsMatchHandles'
  BY <1>11, NotifyKeepsHandles DEF NotifyPushed, Asleep, Threads, counts
<1>12. ASSUME NEW p \in Producers, LastProducerLooks(p)
       PROVE  RefcountsMatchHandles'
  BY <1>12, GotoKeepsHandles DEF LastProducerLooks, Threads, counts
<1>13. ASSUME NEW c \in Consumers, ConsumerNew(c)
       PROVE  RefcountsMatchHandles'
  <2>1. ConsumerHandles' = ConsumerHandles \cup {c} /\ c \notin ConsumerHandles
    BY <1>13 DEF ConsumerNew, Goto, TypeOK, ConsumerHandles, Threads
  <2>2. ProducerHandles' = ProducerHandles
    BY <1>13, ThreadsAssumption
       DEF ConsumerNew, Goto, TypeOK, ProducerHandles, Threads
  <2>3. Cardinality(ConsumerHandles') = Cardinality(ConsumerHandles) + 1
    BY <2>1, HandlesCounted, FS_AddElement
  <2> QED BY <1>13, <2>2, <2>3 DEF ConsumerNew, RefcountsMatchHandles
<1>14. ASSUME NEW c \in Consumers, ConsumerFree(c)
       PROVE  RefcountsMatchHandles'
  <2>1. ConsumerHandles' = ConsumerHandles \ {c} /\ c \in ConsumerHandles
    BY <1>14 DEF ConsumerFree, Goto, TypeOK, ConsumerHandles, Threads
  <2>2. ProducerHandles' = ProducerHandles
    BY <1>14, ThreadsAssumption
       DEF ConsumerFree, Goto, TypeOK, ProducerHandles, Threads
  <2>3. Cardinality(ConsumerHandles') = Cardinality(ConsumerHandles) - 1
    BY <2>1, HandlesCounted, FS_RemoveElement
  <2> QED BY <1>14, <2>2, <2>3 DEF ConsumerFree, RefcountsMatchHandles
<1>15. ASSUME NEW c \in Consumers, Pop(c)
       PROVE  RefcountsMatchHandles'
  BY <1>15, GotoKeepsHandles DEF Pop, Threads, counts
<1>16. ASSUME NEW c \in Consumers, ElementsFound(c)
       PROVE  RefcountsMatchHandles'
  BY <1>16, GotoKeepsHandles DEF ElementsFound, Threads, counts
<1>17. ASSUME NEW c \in Consumers, ElementsMissing(c)
       PROVE  RefcountsMatchHandles'
  BY <1>17, GotoKeepsHandles DEF ElementsMissing, Threads, counts
<1>18. ASSUME NEW c \in Consumers, SleepForElements(c)
       PROVE  RefcountsMatchHandles'
  BY <1>18, GotoKeepsHandles DEF SleepForElements, Threads, counts
<1>19. ASSUME NEW c \in Consumers, EndOfStream(c)
       PROVE  RefcountsMatchHandles'
  BY <1>19, GotoKeepsHandles DEF EndOfStream, Threads, counts
<1>20. ASSUME NEW c \in Consumers, CopyOut(c)
       PROVE  RefcountsMatchHandles'
  BY <1>20, GotoKeepsHandles DEF CopyOut, Threads, counts
<1>21. ASSUME NEW c \in Consumers, TrimLocksEnd(c)
       PROVE  RefcountsMatchHandles'
  BY <1>21, GotoKeepsHandles DEF TrimLocksEnd, Threads, counts
<1>22. ASSUME NEW c \in Consumers, Trim(c)
       PROVE  RefcountsMatchHandles'
  BY <1>22, GotoKeepsHandles DEF Trim, Threads, counts
<1>23. ASSUME NEW c \in Consumers, NotifyPopped(c)
       PROVE  RefcountsMatchHandles'
  BY <1>23, NotifyKeepsHandles DEF NotifyPopped, Asleep, Threads, counts
<1>24. ASSUME NEW c \in Consumers, LastConsumerLooks(c)
       PROVE  RefcountsMatchHandles'
  BY <1>24, GotoKeepsHandles DEF LastConsumerLooks, Threads, counts
<1>25. ASSUME FreeProducers
       PROVE  RefcountsMatchHandles'
  <2>1. ProducerHandles' = ProducerHandles \ {Owner} /\ Owner \in ProducerHandles
    BY <1>25 DEF FreeProducers, Goto, TypeOK, ProducerHandles, Threads
  <2>2. ConsumerHandles' = ConsumerHandles
    BY <1>25, ThreadsAssumption
       DEF FreeProducers, Goto, TypeOK, ConsumerHandles, Threads
  <2>3. Cardinality(ProducerHandles') = Cardinality(ProducerHandles) - 1
    BY <2>1, HandlesCounted, FS_RemoveElement
  <2> QED BY <1>25, <2>2, <2>3 DEF FreeProducers, RefcountsMatchHandles
<1>26. ASSUME FreeConsumers
       PROVE  RefcountsMatchHandles'
  <2>1. ConsumerHandles' = ConsumerHandles \ {Owner} /\ Owner \in ConsumerHandles
    BY <1>26 DEF FreeConsumers, Goto, TypeOK, ConsumerHandles, Threads
  <2>2. ProducerHandles' = ProducerHandles
    BY <1>26, ThreadsAssumption
       DEF FreeConsumers, Goto, TypeOK, ProducerHandles, Threads
  <2>3. Cardinality(ConsumerHandles') = Cardinality(ConsumerHandles) - 1
    BY <2>1, HandlesCounted, FS_RemoveElement
  <2> QED BY <1>26, <2>2, <2>3 DEF FreeConsumers, RefcountsMatchHandles
<1>27. ASSUME FreeBuffer
       PROVE  RefcountsMatchHandles'
  BY <1>27, GotoKeepsHandles, WakeKeepsHandles DEF FreeBuffer, Asleep,
     Deallocate, Threads, counts
<1>28. ASSUME FreeWakes
       PROVE  RefcountsMatchHandles'
  BY <1>28, WakeKeepsHandles DEF FreeWakes, Asleep, Threads, counts
<1>29. ASSUME NEW t \in Threads, ReserveLocksEnd(t)
       PROVE  RefcountsMatchHandles'
  BY <1>29, GotoKeepsHandles DEF ReserveLocksEnd, Threads, counts
<1>30. ASSUME NEW t \in Threads, Reserve(t)
       PROVE  RefcountsMatchHandles'
  BY <1>30, GotoKeepsHandles DEF Reserve, Threads, counts
<1>31. ASSUME NEW t \in Threads, LastHandleWakes(t)
       PROVE  RefcountsMatchHandles'
  BY <1>31, WakeKeepsHandles DEF LastHandleWakes, Asleep, Threads, counts
<1>32. ASSUME NEW t \in Threads, LastHandleDeallocates(t)
       PROVE  RefcountsMatchHandles'
  BY <1>32, GotoKeepsHandles DEF LastHandleDeallocates, Deallocate,
     Threads, counts
<1>33. ASSUME NEW t \in Threads, SpuriousWakeup(t)
       PROVE  RefcountsMatchHandles'
  BY <1>33, WakeKeepsHandles DEF SpuriousWakeup, Asleep, JustPushed,
     JustPopped, Threads, counts
<1>34. CASE UNCHANGED vars
  BY <1>34 DEF vars, ProducerHandles, ConsumerHandles,
     RefcountsMatchHandles, counts
<1> QED
  BY <1>1, <1>2, <1>3, <1>4, <1>5, <1>6, <1>7, <1>8, <1>9, <1>10, <1>11,
     <1>12, <1>13, <1>14, <1>15, <1>16, <1>17, <1>18, <1>19, <1>20, <1>21,
     <1>22, <1>23, <1>24, <1>25, <1>26, <1>27, <1>28, <1>29, <1>30, <1>31,
     <1>32, <1>33, <1>34 DEF Next, ProducerCall, ConsumerCall,
     ProducerStep, ConsumerStep, OwnerStep, HandleStep

-----------------------------------------------------------------------------
(* Only a copy decides how much the next publication takes from a push.    *)

LEMMA PublishFitsStep ==
    ASSUME TypeOK, PublishFits, [Next]_vars
    PROVE  PublishFits'
<1> USE ThreadsAssumption DEF TypeOK, PublishFits, Threads, Goto, locals
<1>1. ASSUME NEW p \in Producers, ProducerNew(p)
       PROVE  PublishFits'
  BY <1>1 DEF ProducerNew
<1>2. ASSUME NEW p \in Producers, ProducerFree(p)
       PROVE  PublishFits'
  BY <1>2 DEF ProducerFree
<1>3. ASSUME NEW p \in Producers, Push(p)
       PROVE  PublishFits'
  BY <1>3 DEF Push
<1>4. ASSUME NEW p \in Producers, NoConsumers(p)
       PROVE  PublishFits'
  BY <1>4 DEF NoConsumers
<1>5. ASSUME NEW p \in Producers, RoomMissing(p)
       PROVE  PublishFits'
  BY <1>5 DEF RoomMissing
<1>6. ASSUME NEW p \in Producers, SleepForRoom(p)
       PROVE  PublishFits'
  BY <1>6 DEF SleepForRoom
<1>7. ASSUME NEW p \in Producers, RoomFound(p)
       PROVE  PublishFits'
  BY <1>7 DEF RoomFound
<1>8. ASSUME NEW p \in Producers, Grow(p)
       PROVE  PublishFits'
  BY <1>8 DEF Grow
<1>9. ASSUME NEW p \in Producers, CopyIn(p)
       PROVE  PublishFits'
  BY <1>9, PushedType DEF CopyIn
<1>10. ASSUME NEW p \in Producers, Publish(p)
       PROVE  PublishFits'
  BY <1>10 DEF Publish
<1>11. ASSUME NEW p \in Producers, NotifyPushed(p)
       PROVE  PublishFits'
  BY <1>11 DEF NotifyPushed, Notify, Signal, Wake
<1>12. ASSUME NEW p \in Producers, LastProducerLooks(p)
       PROVE  PublishFits'
  BY <1>12 DEF LastProducerLooks
<1>13. ASSUME NEW c \in Consumers, ConsumerNew(c)
       PROVE  PublishFits'
  BY <1>13 DEF ConsumerNew
<1>14. ASSUME NEW c \in Consumers, ConsumerFree(c)
       PROVE  PublishFits'
  BY <1>14 DEF ConsumerFree
<1>15. ASSUME NEW c \in Consumers, Pop(c)
       PROVE  PublishFits'
  BY <1>15 DEF Pop
<1>16. ASSUME NEW c \in Consumers, ElementsFound(c)
       PROVE  PublishFits'
  BY <1>16 DEF ElementsFound
<1>17. ASSUME NEW c \in Consumers, ElementsMissing(c)
       PROVE  PublishFits'
  BY <1>17 DEF ElementsMissing
<1>18. ASSUME NEW c \in Consumers, SleepForElements(c)
       PROVE  PublishFits'
  BY <1>18 DEF SleepForElements
<1>19. ASSUME NEW c \in Consumers, EndOfStream(c)
       PROVE  PublishFits'
  BY <1>19 DEF EndOfStream
<1>20. ASSUME NEW c \in Consumers, CopyOut(c)
       PROVE  PublishFits'
  BY <1>20 DEF CopyOut
<1>21. ASSUME NEW c \in Consumers, TrimLocksEnd(c)
       PROVE  PublishFits'
  BY <1>21 DEF TrimLocksEnd
<1>22. ASSUME NEW c \in Consumers, Trim(c)
       PROVE  PublishFits'
  BY <1>22 DEF Trim
<1>23. ASSUME NEW c \in Consumers, NotifyPopped(c)
       PROVE  PublishFits'
  BY <1>23 DEF NotifyPopped, Notify, Signal, Wake
<1>24. ASSUME NEW c \in Consumers, LastConsumerLooks(c)
       PROVE  PublishFits'
  BY <1>24 DEF LastConsumerLooks
<1>25. ASSUME FreeProducers
       PROVE  PublishFits'
  BY <1>25 DEF FreeProducers
<1>26. ASSUME FreeConsumers
       PROVE  PublishFits'
  BY <1>26 DEF FreeConsumers
<1>27. ASSUME FreeBuffer
       PROVE  PublishFits'
  BY <1>27 DEF FreeBuffer, Wake, Deallocate, locals
<1>28. ASSUME FreeWakes
       PROVE  PublishFits'
  BY <1>28 DEF FreeWakes, Wake
<1>29. ASSUME NEW t \in Threads, ReserveLocksEnd(t)
       PROVE  PublishFits'
  BY <1>29 DEF ReserveLocksEnd
<1>30. ASSUME NEW t \in Threads, Reserve(t)
       PROVE  PublishFits'
  BY <1>30 DEF Reserve
<1>31. ASSUME NEW t \in Threads, LastHandleWakes(t)
       PROVE  PublishFits'
  BY <1>31 DEF LastHandleWakes, Wake
<1>32. ASSUME NEW t \in Threads, LastHandleDeallocates(t)
       PROVE  PublishFits'
  BY <1>32 DEF LastHandleDeallocates, Deallocate
<1>33. ASSUME NEW t \in Threads, SpuriousWakeup(t)
       PROVE  PublishFits'
  BY <1>33 DEF SpuriousWakeup, Wake
<1>34. CASE UNCHANGED vars
  BY <1>34 DEF vars
<1> QED
  BY <1>1, <1>2, <1>3, <1>4, <1>5, <1>6, <1>7, <1>8, <1>9, <1>10, <1>11,
     <1>12, <1>13, <1>14, <1>15, <1>16, <1>17, <1>18, <1>19, <1>20, <1>21,
     <1>22, <1>23, <1>24, <1>25, <1>26, <1>27, <1>28, <1>29, <1>30, <1>31,
     <1>32, <1>33, <1>34 DEF Next, ProducerCall, ConsumerCall,
     ProducerStep, ConsumerStep, OwnerStep, HandleStep

-----------------------------------------------------------------------------
(* The invariant: each step needs the others' conjuncts, the types for the *)
(* arithmetic and the counts so that they can be taken down.               *)

IInv == TypeOK /\ PublishFits /\ MutexesHeld /\ RefcountsMatchHandles

LEMMA InitIInv == Init => IInv
<1> SUFFICES ASSUME Init PROVE IInv
  OBVIOUS
<1>1. TypeOK
  <2>1. /\ bufend \in Nat /\ begin \in Int /\ end \in Int
        /\ allocated \in Nat /\ min_cap \in Nat
    BY SizesType DEF Init
  <2>2. snap \in [Threads -> Snapshots]
    BY <2>1 DEF Init, snapshot, Snapshots
  <2>3. memory \in [0..(bufend - 1) -> Bytes]
    BY <2>1 DEF Init, Bytes
  <2>4. pc \in [Threads -> Labels]
    BY DEF Init, Labels
  <2>5. /\ left \in [Threads -> Nat] /\ moved \in [Threads -> Int]
        /\ eager \in [Consumers -> BOOLEAN]
        /\ sent \in [Producers -> Int] /\ seen \in [Threads -> Nat]
        /\ eof \in [Consumers -> BOOLEAN]
    BY DEF Init
  <2>6. stream \in Seq(Producers \X Int) /\ out \in Seq(Bytes)
    BY DEF Init
  <2>7. /\ buffer \in {"live", "null"} /\ deallocated \in BOOLEAN
        /\ producer_refcount \in Nat /\ consumer_refcount \in Nat
        /\ begin_lock \in Threads \cup {NoThread}
        /\ end_lock \in Threads \cup {NoThread}
    BY DEF Init
  <2> QED BY <2>1, <2>2, <2>3, <2>4, <2>5, <2>6, <2>7 DEF TypeOK
<1>2. \A t \in Threads : pc[t] = IF t = Owner THEN "idle" ELSE "unborn"
  BY DEF Init
<1>3. PublishFits
  BY <1>2 DEF PublishFits, Threads
<1>4. MutexesHeld
  BY <1>2, ThreadsAssumption DEF Init, MutexesHeld, HoldsEnd, HoldsBegin
<1>5. RefcountsMatchHandles
  <2>1. ProducerHandles = {Owner} /\ ConsumerHandles = {Owner}
    BY <1>2, ThreadsAssumption DEF ProducerHandles, ConsumerHandles, Threads
  <2> QED BY <2>1, FS_Singleton DEF Init, RefcountsMatchHandles
<1> QED BY <1>1, <1>3, <1>4, <1>5 DEF IInv

LEMMA IInvStep == IInv /\ [Next]_vars => IInv'
BY TypeStep, PublishFitsStep, MutexesStep, RefcountsStep DEF IInv

THEOREM Invariant == Spec => []IInv
BY InitIInv, IInvStep, PTL DEF Spec

(* Whatever threads, sizes and limits a pipe is used with, and however the *)
(* calls of pipe.c overlap: its variables keep their types, and the        *)
(* reference counts and what a call has left to move never go below 0.     *)
THEOREM TypeCorrect == Spec => []TypeOK
<1>1. IInv => TypeOK
  BY DEF IInv
<1> QED BY <1>1, Invariant, PTL

(* Every path through push, pop, trim and reserve gives back each mutex it *)
(* took and no other, so a mutex has one holder and it is inside a call.   *)
THEOREM MutexesAreHeld == Spec => []MutexesHeld
<1>1. IInv => MutexesHeld
  BY DEF IInv
<1> QED BY <1>1, Invariant, PTL

(* The two reference counts are at all times the numbers of handles of     *)
(* each kind still out, for any number of threads of either side.          *)
THEOREM RefcountsAreRight == Spec => []RefcountsMatchHandles
<1>1. IInv => RefcountsMatchHandles
  BY DEF IInv
<1> QED BY <1>1, Invariant, PTL
=============================================================================
