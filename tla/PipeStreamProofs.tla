-------------------------- MODULE PipeStreamProofs --------------------------
(***************************************************************************)
(* What goes through a pipe: how the stream ends and when the buffer may   *)
(* go, for any pipe; and for an aligned one (PipeRingProofs), that every   *)
(* byte that goes in comes out once and in order, which makes pipe.c a     *)
(* bounded FIFO.                                                           *)
(***************************************************************************)
EXTENDS PipeRingProofs

-----------------------------------------------------------------------------
(* The end of the stream.  A consumer finds the pipe empty and only then   *)
(* looks at the producer count; that the pipe is still empty when it finds *)
(* no producer left rests on begin_lock, which it holds from one look to   *)
(* the other and which giving back a producer handle takes.                *)

EndFound ==
    /\ \A c \in Consumers :
        pc[c] = "elems_gap" /\ producer_refcount = 0
            => BytesInUse(snapshot) = 0
    /\ (\E c \in Consumers : eof[c]) =>
        /\ producer_refcount = 0
        /\ BytesInUse(snapshot) = 0
        /\ \A c \in Consumers : pc[c] # "copy_out"

LEMMA ProducerCounted ==
    ASSUME IInv, NEW p \in Producers, pc[p] \notin NoProducer
    PROVE  producer_refcount > 0
BY HandlesCounted DEF IInv, ProducerHandles, NoProducer

LEMMA OwnerCounted ==
    ASSUME IInv, pc[Owner] = "idle"
    PROVE  producer_refcount > 0 /\ consumer_refcount > 0
BY HandlesCounted DEF IInv, ProducerHandles, ConsumerHandles

LEMMA UnchangedKeepsEmpty ==
    ASSUME BytesInUse(snapshot) = 0,
           UNCHANGED <<memory, allocated, bufend, begin, end>>
    PROVE  BytesInUse(snapshot') = 0
BY DEF snapshot

LEMMA ResizeKeepsEmpty ==
    ASSUME BytesInUse(snapshot) = 0, NEW size, NEW floor,
           ResizeBuffer(size, floor)
    PROVE  BytesInUse(snapshot') = 0
<1>1. CASE MoveTo(Least(size, max_cap))
  <2>1. begin' = 0 /\ end' = ElemSize
    BY <1>1, SizesType DEF MoveTo, Moved
  <2>2. snapshot'.begin = 0 /\ snapshot'.end = ElemSize
    BY <2>1 DEF snapshot
  <2> QED BY <2>2, SizesType DEF BytesInUse, WrapsAround
<1> QED BY <1>1, UnchangedKeepsEmpty DEF ResizeBuffer

LEMMA EndFoundStep ==
    ASSUME 0 \notin PopSizes, IInv, EndFound, [Next]_vars
    PROVE  EndFound'
<1> USE DEF IInv
<1> USE DEF EndFound, TypeOK, Goto, ring, counts, locals, histories, Threads
<1>1. ASSUME NEW p \in Producers, ProducerNew(p)
       PROVE  EndFound'
  <2>1. producer_refcount > 0 /\ producer_refcount' > 0
    BY <1>1, OwnerCounted DEF ProducerNew
  <2> QED BY <1>1, <2>1 DEF ProducerNew
<1>2. ASSUME NEW p \in Producers, ProducerFree(p)
       PROVE  EndFound'
  <2>1. producer_refcount > 0
    BY <1>2, ProducerCounted DEF ProducerFree, NoProducer
  <2>2. \A c \in Consumers : pc[c] # "elems_gap"
    BY <1>2, ThreadsAssumption DEF ProducerFree, MutexesHeld, HoldsBegin
  <2> QED BY <1>2, <2>1, <2>2, ThreadsAssumption DEF ProducerFree
<1>3. ASSUME NEW p \in Producers, Push(p)
       PROVE  EndFound'
  BY <1>3 DEF Push, snapshot
<1>4. ASSUME NEW p \in Producers, NoConsumers(p)
       PROVE  EndFound'
  BY <1>4 DEF NoConsumers, snapshot
<1>5. ASSUME NEW p \in Producers, RoomMissing(p)
       PROVE  EndFound'
  BY <1>5 DEF RoomMissing, snapshot
<1>6. ASSUME NEW p \in Producers, SleepForRoom(p)
       PROVE  EndFound'
  BY <1>6 DEF SleepForRoom, snapshot
<1>7. ASSUME NEW p \in Producers, RoomFound(p)
       PROVE  EndFound'
  BY <1>7 DEF RoomFound, snapshot
<1>8. ASSUME NEW p \in Producers, Grow(p)
       PROVE  EndFound'
  <2>1. producer_refcount > 0 /\ producer_refcount' > 0
    BY <1>8, ProducerCounted DEF Grow, NoProducer
  <2>2. ~ \E c \in Consumers : eof'[c]
    BY <1>8, <2>1 DEF Grow
  <2> QED BY <2>1, <2>2
<1>9. ASSUME NEW p \in Producers, CopyIn(p)
       PROVE  EndFound'
  BY <1>9 DEF CopyIn, snapshot
<1>10. ASSUME NEW p \in Producers, Publish(p)
       PROVE  EndFound'
  <2>1. producer_refcount > 0 /\ producer_refcount' > 0
    BY <1>10, ProducerCounted DEF Publish, NoProducer
  <2>2. ~ \E c \in Consumers : eof'[c]
    BY <1>10, <2>1 DEF Publish
  <2> QED BY <2>1, <2>2
<1>11. ASSUME NEW p \in Producers, NotifyPushed(p)
       PROVE  EndFound'
  BY <1>11 DEF NotifyPushed, Notify, Signal, Wake, snapshot
<1>12. ASSUME NEW p \in Producers, LastProducerLooks(p)
       PROVE  EndFound'
  BY <1>12 DEF LastProducerLooks, snapshot
<1>13. ASSUME NEW c \in Consumers, ConsumerNew(c)
       PROVE  EndFound'
  BY <1>13 DEF ConsumerNew, snapshot
<1>14. ASSUME NEW c \in Consumers, ConsumerFree(c)
       PROVE  EndFound'
  BY <1>14 DEF ConsumerFree, snapshot
<1>15. ASSUME NEW c \in Consumers, Pop(c)
       PROVE  EndFound'
  <2>1. PICK n \in PopSizes : eof' = [eof EXCEPT ![c] = eof[c] \/ n = 0]
    BY <1>15 DEF Pop
  <2>2. n # 0
    OBVIOUS
  <2>3. \A d \in Consumers : eof'[d] => eof[d]
    BY <2>1, <2>2
  <2>4. \A d \in Consumers : pc'[d] \in {"elems_gap", "copy_out"}
                              => pc'[d] = pc[d]
    BY <1>15 DEF Pop
  <2> QED BY <1>15, <2>3, <2>4 DEF Pop, snapshot
<1>16. ASSUME NEW c \in Consumers, ElementsFound(c)
       PROVE  EndFound'
  BY <1>16 DEF ElementsFound, snapshot
<1>17. ASSUME NEW c \in Consumers, ElementsMissing(c)
       PROVE  EndFound'
  BY <1>17 DEF ElementsMissing, snapshot
<1>18. ASSUME NEW c \in Consumers, SleepForElements(c)
       PROVE  EndFound'
  BY <1>18 DEF SleepForElements, snapshot
<1>19. ASSUME NEW c \in Consumers, EndOfStream(c)
       PROVE  EndFound'
  <2>1. producer_refcount = 0 /\ BytesInUse(snapshot) = 0
    BY <1>19 DEF EndOfStream
  <2>2. \A d \in Consumers : pc[d] # "copy_out"
    BY <1>19 DEF EndOfStream, MutexesHeld, HoldsBegin
  <2>3. \A d \in Consumers : pc'[d] \in {"elems_gap", "copy_out"}
                              => pc'[d] = pc[d]
    BY <1>19 DEF EndOfStream
  <2> QED BY <1>19, <2>1, <2>2, <2>3 DEF EndOfStream, snapshot
<1>20. ASSUME NEW c \in Consumers, CopyOut(c)
       PROVE  EndFound'
  <2>1. \A d \in Consumers : pc[d] # "elems_gap"
    BY <1>20 DEF CopyOut, MutexesHeld, HoldsBegin
  <2> QED BY <1>20, <2>1 DEF CopyOut
<1>21. ASSUME NEW c \in Consumers, TrimLocksEnd(c)
       PROVE  EndFound'
  BY <1>21 DEF TrimLocksEnd, snapshot
<1>22. ASSUME NEW c \in Consumers, Trim(c)
       PROVE  EndFound'
  <2>1. \A d \in Consumers : pc[d] # "elems_gap"
    BY <1>22, ThreadsAssumption DEF Trim, MutexesHeld, HoldsBegin
  <2>2. BytesInUse(snapshot) = 0 => BytesInUse(snapshot') = 0
    BY <1>22, ResizeKeepsEmpty, UnchangedKeepsEmpty DEF Trim
  <2> QED BY <1>22, <2>1, <2>2 DEF Trim
<1>23. ASSUME NEW c \in Consumers, NotifyPopped(c)
       PROVE  EndFound'
  BY <1>23 DEF NotifyPopped, Notify, Signal, Wake, snapshot
<1>24. ASSUME NEW c \in Consumers, LastConsumerLooks(c)
       PROVE  EndFound'
  BY <1>24 DEF LastConsumerLooks, snapshot
<1>25. ASSUME FreeProducers
       PROVE  EndFound'
  <2>1. producer_refcount > 0
    BY <1>25, OwnerCounted DEF FreeProducers
  <2>2. \A c \in Consumers : pc[c] # "elems_gap"
    BY <1>25, ThreadsAssumption DEF FreeProducers, MutexesHeld, HoldsBegin
  <2> QED BY <1>25, <2>1, <2>2, ThreadsAssumption DEF FreeProducers
<1>26. ASSUME FreeConsumers
       PROVE  EndFound'
  BY <1>26 DEF FreeConsumers, snapshot
<1>27. ASSUME FreeBuffer
       PROVE  EndFound'
  BY <1>27 DEF FreeBuffer, Wake, Deallocate, snapshot
<1>28. ASSUME FreeWakes
       PROVE  EndFound'
  BY <1>28 DEF FreeWakes, Wake, snapshot
<1>29. ASSUME NEW t \in Threads, ReserveLocksEnd(t)
       PROVE  EndFound'
  BY <1>29 DEF ReserveLocksEnd, snapshot
<1>30. ASSUME NEW t \in Threads, Reserve(t)
       PROVE  EndFound'
  <2>1. \A d \in Consumers : pc[d] # "elems_gap"
    BY <1>30, ThreadsAssumption DEF Reserve, MutexesHeld, HoldsBegin
  <2>2. BytesInUse(snapshot) = 0 => BytesInUse(snapshot') = 0
    BY <1>30, ResizeKeepsEmpty, UnchangedKeepsEmpty DEF Reserve, ring
  <2> QED BY <1>30, <2>1, <2>2 DEF Reserve
<1>31. ASSUME NEW t \in Threads, LastHandleWakes(t)
       PROVE  EndFound'
  BY <1>31 DEF LastHandleWakes, Wake, snapshot
<1>32. ASSUME NEW t \in Threads, LastHandleDeallocates(t)
       PROVE  EndFound'
  BY <1>32 DEF LastHandleDeallocates, Deallocate, snapshot
<1>33. ASSUME NEW t \in Threads, SpuriousWakeup(t)
       PROVE  EndFound'
  BY <1>33 DEF SpuriousWakeup, Wake, snapshot
<1>34. CASE UNCHANGED vars
  BY <1>34 DEF vars, snapshot
<1> QED
  BY <1>1, <1>2, <1>3, <1>4, <1>5, <1>6, <1>7, <1>8, <1>9, <1>10, <1>11,
     <1>12, <1>13, <1>14, <1>15, <1>16, <1>17, <1>18, <1>19, <1>20, <1>21,
     <1>22, <1>23, <1>24, <1>25, <1>26, <1>27, <1>28, <1>29, <1>30, <1>31,
     <1>32, <1>33, <1>34 DEF Next, ProducerCall, ConsumerCall,
     ProducerStep, ConsumerStep, OwnerStep, HandleStep

LEMMA InitEndFound == Init => EndFound
<1> SUFFICES ASSUME Init PROVE EndFound
  OBVIOUS
<1>1. \A c \in Consumers : pc[c] # "elems_gap" /\ ~eof[c]
  BY DEF Init, Threads
<1> QED BY <1>1 DEF EndFound

LEMMA OnlyCopyOutTakes ==
    ASSUME Next
    PROVE  out' = out \/ \E c \in Consumers : CopyOut(c)
<1> USE DEF histories
<1>1. ASSUME NEW p \in Producers, ProducerCall(p) \/ ProducerStep(p)
      PROVE  out' = out
  BY <1>1 DEF ProducerCall, ProducerStep, ProducerNew, ProducerFree, Push,
     NoConsumers, RoomMissing, SleepForRoom, RoomFound, Grow, CopyIn,
     Publish, NotifyPushed, LastProducerLooks
<1>2. ASSUME NEW c \in Consumers, ConsumerCall(c) \/ ConsumerStep(c),
             ~CopyOut(c)
      PROVE  out' = out
  BY <1>2 DEF ConsumerCall, ConsumerStep, ConsumerNew, ConsumerFree, Pop,
     ElementsFound, ElementsMissing, SleepForElements, EndOfStream,
     TrimLocksEnd, Trim, NotifyPopped, LastConsumerLooks
<1>3. ASSUME FreeProducers \/ OwnerStep
      PROVE  out' = out
  BY <1>3 DEF FreeProducers, OwnerStep, FreeConsumers, FreeBuffer, FreeWakes,
     Deallocate
<1>4. ASSUME NEW t \in Threads,
             ReserveLocksEnd(t) \/ HandleStep(t) \/ SpuriousWakeup(t)
      PROVE  out' = out
  BY <1>4 DEF ReserveLocksEnd, HandleStep, Reserve, LastHandleWakes,
     LastHandleDeallocates, Deallocate, SpuriousWakeup
<1> QED BY <1>1, <1>2, <1>3, <1>4 DEF Next

(* However pops, pushes, resizes and releases overlap: once one consumer   *)
(* was told that the stream ended, no consumer pops a byte again (pipe.h   *)
(* 204-205).  A pop of no elements, which returns 0 at once, is excluded.  *)
THEOREM EndIsFinal == 0 \notin PopSizes => (Spec => NothingAfterEof)
<1> SUFFICES ASSUME 0 \notin PopSizes PROVE Spec => NothingAfterEof
  OBVIOUS
<1>1. Init => EndFound
  BY InitEndFound
<1>2. IInv /\ EndFound /\ [Next]_vars => EndFound'
  BY EndFoundStep
<1>3. IInv /\ EndFound /\ [Next]_vars
        => [(\E c \in Consumers : eof[c]) => out' = out]_vars
  <2>1. ASSUME EndFound, Next, NEW c \in Consumers, eof[c]
        PROVE  out' = out
    <3>1. \A d \in Consumers : ~CopyOut(d)
      BY <2>1 DEF CopyOut, EndFound
    <3> QED BY <2>1, <3>1, OnlyCopyOutTakes
  <2> QED BY <2>1
<1> QED BY <1>1, <1>2, <1>3, Invariant, PTL DEF Spec, NothingAfterEof
-----------------------------------------------------------------------------
(* The buffer.  A thread that copies or resizes holds end_lock, so the  *)
(* consumers cannot be counted down to none, or it is a consumer itself;   *)
(* pipe_free lets the buffer go only after it counted the last of them.    *)

Copying == {"grow", "copy_in", "publish", "trim_begin", "copy_out"}

BufferKept ==
    /\ \A t \in Threads : pc[t] \in Copying => consumer_refcount > 0
    /\ \A t \in Threads : pc[t] = "copy_out" => t \in Consumers
    /\ buffer = "null" \/ pc[Owner] = "free_buffer" => consumer_refcount = 0

LEMMA ConsumerCounted ==
    ASSUME IInv, NEW c \in Consumers, pc[c] \notin NoConsumer
    PROVE  consumer_refcount > 0
BY HandlesCounted DEF IInv, ConsumerHandles, NoProducer, NoConsumer

LEMMA HandlesCountedNext ==
    ASSUME TypeOK', RefcountsMatchHandles', ConsumerHandles' # {}
    PROVE  consumer_refcount' > 0
<1>1. ConsumerHandles' \subseteq Consumers \cup {Owner}
  BY DEF ConsumerHandles
<1>2. IsFiniteSet(ConsumerHandles')
  BY <1>1, ThreadsAssumption, FS_AddElement, FS_Subset
<1>3. Cardinality(ConsumerHandles') # 0
  BY <1>2, FS_EmptySet
<1> QED BY <1>3 DEF RefcountsMatchHandles, TypeOK

Kept == \A u \in Threads :
            pc'[u] \in Copying \cup {"free_buffer"} => pc'[u] = pc[u]

LEMMA WakeKeepsBuffer ==
    ASSUME NEW woken, NEW t, NEW label, Wake(woken, t, label),
           label \notin Copying \cup {"free_buffer"}
    PROVE  Kept
<1> SUFFICES ASSUME NEW u \in Threads,
                    pc'[u] \in Copying \cup {"free_buffer"}
             PROVE  pc'[u] = pc[u]
  BY DEF Kept
<1>1. pc'[u] = IF u = t THEN label
               ELSE IF u \in woken /\ u \in Producers THEN "push"
               ELSE IF u \in woken THEN "pop"
               ELSE pc[u]
  BY DEF Wake
<1> QED BY <1>1 DEF Copying

LEMMA NotifyKeepsBuffer ==
    ASSUME TypeOK, NEW cond, NEW t \in Threads, NEW label,
           Notify(cond, t, label),
           label \notin Copying \cup {"free_buffer"}
    PROVE  Kept
<1>1. CASE Goto(t, label)
  BY <1>1 DEF Goto, Kept, TypeOK
<1>2. CASE \E u \in cond : Wake({u}, t, label)
  BY <1>2, WakeKeepsBuffer
<1>3. CASE Wake(cond, t, label)
  BY <1>3, WakeKeepsBuffer
<1> QED BY <1>1, <1>2, <1>3 DEF Notify, Signal

LEMMA BufferKeptStep ==
    ASSUME IInv, IInv', BufferKept, [Next]_vars
    PROVE  BufferKept'
<1> USE ThreadsAssumption DEF IInv, TypeOK, BufferKept, Copying, Goto, ring, counts,
       Threads
<1>1. ASSUME NEW p \in Producers, ProducerNew(p)
       PROVE  BufferKept'
  BY <1>1 DEF ProducerNew
<1>2. ASSUME NEW p \in Producers, ProducerFree(p)
       PROVE  BufferKept'
  BY <1>2 DEF ProducerFree
<1>3. ASSUME NEW p \in Producers, Push(p)
       PROVE  BufferKept'
  BY <1>3 DEF Push
<1>4. ASSUME NEW p \in Producers, NoConsumers(p)
       PROVE  BufferKept'
  BY <1>4 DEF NoConsumers
<1>5. ASSUME NEW p \in Producers, RoomMissing(p)
       PROVE  BufferKept'
  BY <1>5 DEF RoomMissing
<1>6. ASSUME NEW p \in Producers, SleepForRoom(p)
       PROVE  BufferKept'
  BY <1>6 DEF SleepForRoom
<1>7. ASSUME NEW p \in Producers, RoomFound(p)
       PROVE  BufferKept'
  BY <1>7 DEF RoomFound
<1>8. ASSUME NEW p \in Producers, Grow(p)
       PROVE  BufferKept'
  BY <1>8 DEF Grow
<1>9. ASSUME NEW p \in Producers, CopyIn(p)
       PROVE  BufferKept'
  BY <1>9 DEF CopyIn
<1>10. ASSUME NEW p \in Producers, Publish(p)
       PROVE  BufferKept'
  BY <1>10 DEF Publish
<1>11. ASSUME NEW p \in Producers, NotifyPushed(p)
       PROVE  BufferKept'
  <2>1. Kept
    BY <1>11, NotifyKeepsBuffer DEF NotifyPushed
  <2> QED BY <1>11, <2>1 DEF NotifyPushed, Kept
<1>12. ASSUME NEW p \in Producers, LastProducerLooks(p)
       PROVE  BufferKept'
  BY <1>12 DEF LastProducerLooks
<1>13. ASSUME NEW c \in Consumers, ConsumerNew(c)
       PROVE  BufferKept'
  <2>1. consumer_refcount > 0
    BY <1>13, OwnerCounted DEF ConsumerNew
  <2> QED BY <1>13, <2>1 DEF ConsumerNew
<1>14. ASSUME NEW c \in Consumers, ConsumerFree(c)
       PROVE  BufferKept'
  <2>1. \A u \in Threads : pc[u] \in Copying => pc[u] = "copy_out"
    BY <1>14 DEF ConsumerFree, MutexesHeld, HoldsEnd
  <2>2. consumer_refcount > 0
    BY <1>14, ConsumerCounted DEF ConsumerFree, NoProducer, NoConsumer
  <2>3. \A u \in Threads : pc'[u] \in Copying => consumer_refcount' > 0
    <3> SUFFICES ASSUME NEW u \in Threads, pc'[u] = "copy_out"
                 PROVE  consumer_refcount' > 0
      BY <1>14, <2>1 DEF ConsumerFree
    <3>1. u \in Consumers /\ u # c
      BY <1>14 DEF ConsumerFree
    <3>2. u \in ConsumerHandles' /\ RefcountsMatchHandles' /\ TypeOK'
      BY <1>14, <3>1 DEF ConsumerHandles
    <3> QED BY <3>2, HandlesCountedNext
  <2>4. \A u \in Threads : pc'[u] = "copy_out" => u \in Consumers
    BY <1>14 DEF ConsumerFree
  <2>5. buffer' = "null" \/ pc'[Owner] = "free_buffer"
            => consumer_refcount' = 0
    BY <1>14, <2>2 DEF ConsumerFree
  <2> QED BY <2>3, <2>4, <2>5
<1>15. ASSUME NEW c \in Consumers, Pop(c)
       PROVE  BufferKept'
  BY <1>15 DEF Pop
<1>16. ASSUME NEW c \in Consumers, ElementsFound(c)
       PROVE  BufferKept'
  <2>1. consumer_refcount > 0
    BY <1>16, ConsumerCounted DEF ElementsFound, NoProducer, NoConsumer
  <2> QED BY <1>16, <2>1 DEF ElementsFound
<1>17. ASSUME NEW c \in Consumers, ElementsMissing(c)
       PROVE  BufferKept'
  BY <1>17 DEF ElementsMissing
<1>18. ASSUME NEW c \in Consumers, SleepForElements(c)
       PROVE  BufferKept'
  BY <1>18 DEF SleepForElements
<1>19. ASSUME NEW c \in Consumers, EndOfStream(c)
       PROVE  BufferKept'
  BY <1>19 DEF EndOfStream
<1>20. ASSUME NEW c \in Consumers, CopyOut(c)
       PROVE  BufferKept'
  BY <1>20 DEF CopyOut
<1>21. ASSUME NEW c \in Consumers, TrimLocksEnd(c)
       PROVE  BufferKept'
  <2>1. consumer_refcount > 0
    BY <1>21, ConsumerCounted DEF TrimLocksEnd, NoProducer, NoConsumer
  <2> QED BY <1>21, <2>1 DEF TrimLocksEnd
<1>22. ASSUME NEW c \in Consumers, Trim(c)
       PROVE  BufferKept'
  BY <1>22 DEF Trim
<1>23. ASSUME NEW c \in Consumers, NotifyPopped(c)
       PROVE  BufferKept'
  <2>1. Kept
    BY <1>23, NotifyKeepsBuffer DEF NotifyPopped
  <2> QED BY <1>23, <2>1 DEF NotifyPopped, Kept
<1>24. ASSUME NEW c \in Consumers, LastConsumerLooks(c)
       PROVE  BufferKept'
  BY <1>24 DEF LastConsumerLooks
<1>25. ASSUME FreeProducers
       PROVE  BufferKept'
  BY <1>25 DEF FreeProducers
<1>26. ASSUME FreeConsumers
       PROVE  BufferKept'
  <2>1. \A u \in Threads : pc[u] \in Copying => pc[u] = "copy_out"
    BY <1>26 DEF FreeConsumers, MutexesHeld, HoldsEnd
  <2>2. consumer_refcount > 0
    BY <1>26, HandlesCounted DEF FreeConsumers, ConsumerHandles
  <2>3. \A u \in Threads : pc'[u] \in Copying => consumer_refcount' > 0
    <3> SUFFICES ASSUME NEW u \in Threads, pc'[u] = "copy_out"
                 PROVE  consumer_refcount' > 0
      BY <1>26, <2>1 DEF FreeConsumers
    <3>1. u \in Consumers /\ u # Owner
      BY <1>26 DEF FreeConsumers
    <3>2. u \in ConsumerHandles' /\ RefcountsMatchHandles' /\ TypeOK'
      BY <1>26, <3>1 DEF ConsumerHandles
    <3> QED BY <3>2, HandlesCountedNext
  <2>4. \A u \in Threads : pc'[u] = "copy_out" => u \in Consumers
    BY <1>26 DEF FreeConsumers
  <2>5. buffer' = "null" \/ pc'[Owner] = "free_buffer"
            => consumer_refcount' = 0
    BY <1>26, <2>2 DEF FreeConsumers
  <2> QED BY <2>3, <2>4, <2>5
<1>27. ASSUME FreeBuffer
       PROVE  BufferKept'
  <2>1. Kept
    <3>1. CASE Wake(JustPopped, Owner, "gone")
      BY <3>1, WakeKeepsBuffer
    <3>2. CASE Goto(Owner, "gone")
      BY <3>2 DEF Goto, Kept
    <3> QED BY <1>27, <3>1, <3>2 DEF FreeBuffer, Deallocate
  <2>2. consumer_refcount = 0 /\ consumer_refcount' = 0
    BY <1>27 DEF FreeBuffer, Deallocate
  <2> QED BY <1>27, <2>1, <2>2 DEF Kept
<1>28. ASSUME FreeWakes
       PROVE  BufferKept'
  BY <1>28 DEF FreeWakes, Wake
<1>29. ASSUME NEW t \in Threads, ReserveLocksEnd(t)
       PROVE  BufferKept'
  BY <1>29 DEF ReserveLocksEnd
<1>30. ASSUME NEW t \in Threads, Reserve(t)
       PROVE  BufferKept'
  BY <1>30 DEF Reserve
<1>31. ASSUME NEW t \in Threads, LastHandleWakes(t)
       PROVE  BufferKept'
  BY <1>31 DEF LastHandleWakes, Wake
<1>32. ASSUME NEW t \in Threads, LastHandleDeallocates(t)
       PROVE  BufferKept'
  BY <1>32 DEF LastHandleDeallocates, Deallocate
<1>33. ASSUME NEW t \in Threads, SpuriousWakeup(t)
       PROVE  BufferKept'
  BY <1>33 DEF SpuriousWakeup, Wake
<1>34. CASE UNCHANGED vars
  BY <1>34 DEF vars
<1> QED
  BY <1>1, <1>2, <1>3, <1>4, <1>5, <1>6, <1>7, <1>8, <1>9, <1>10, <1>11,
     <1>12, <1>13, <1>14, <1>15, <1>16, <1>17, <1>18, <1>19, <1>20, <1>21,
     <1>22, <1>23, <1>24, <1>25, <1>26, <1>27, <1>28, <1>29, <1>30, <1>31,
     <1>32, <1>33, <1>34 DEF Next, ProducerCall, ConsumerCall,
     ProducerStep, ConsumerStep, OwnerStep, HandleStep

(* Nobody copies through p->buffer, or resizes it, after pipe_free let it  *)
(* go, although pipe_free holds no mutex when it does (pipe.c:625-632).    *)
THEOREM BufferIsLiveWhenUsed == Spec => []BufferLiveWhenUsed
<1>1. Init => BufferKept
  BY ThreadsAssumption DEF Init, BufferKept, Copying, Threads
<1>2. IInv /\ IInv' /\ BufferKept /\ [Next]_vars => BufferKept'
  BY BufferKeptStep
<1>3. IInv /\ BufferKept => BufferLiveWhenUsed
  BY DEF IInv, TypeOK, BufferKept, Copying, BufferLiveWhenUsed
<1> QED BY <1>1, <1>2, <1>3, Invariant, PTL DEF Spec

-----------------------------------------------------------------------------
(* The bytes of a push are in their cells before `end' says that they are, *)
(* and nothing moves or overwrites them in between.                        *)

Written ==
    \A p \in Producers : pc[p] = "publish" =>
        \A k \in 0..(Pushed(p) - 1) :
            memory[PushCell(snap[p], k)] = <<p, sent[p] + 1 + k>>

LEMMA CopyInWrites ==
    ASSUME AlignedPipe, IInv, RingInv, NEW p \in Producers, CopyIn(p),
           NEW k \in 0..(Pushed(p) - 1)
    PROVE  memory'[PushCell(snap[p], k)] = <<p, sent[p] + 1 + k>>
<1>1. pc[p] \in {"copy_in", "publish"}
  BY DEF CopyIn
<1>2. /\ PushCell(snap[p], k) \in 0..(bufend - 1)
      /\ PushIndex(snap[p], PushCell(snap[p], k)) = k
  BY <1>1, PushedPlaces
<1>3. /\ DOMAIN memory = 0..(bufend - 1)
      /\ memory' = [i \in DOMAIN memory |->
                       IF \E j \in 0..(Pushed(p) - 1) :
                              PushCell(snap[p], j) = i
                       THEN <<p, sent[p] + 1 + PushIndex(snap[p], i)>>
                       ELSE memory[i]]
  BY DEF CopyIn, IInv, TypeOK
<1> QED BY <1>2, <1>3

LEMMA WrittenStep ==
    ASSUME AlignedPipe, IInv, RingInv, Written, [Next]_vars
    PROVE  Written'
<1>0. /\ \A p \in Producers : p \in Threads /\ p \notin Consumers
      /\ \A c \in Consumers : c \in Threads
      /\ pc \in [Threads -> Labels] /\ left \in [Threads -> Nat]
      /\ snap \in [Threads -> Snapshots]
  BY ThreadsAssumption DEF Threads, IInv, TypeOK
(* A step that leaves a publishing producer alone...                       *)
<1>1. ASSUME UNCHANGED <<memory, sent>>,
             \A p \in Producers : pc'[p] = "publish" =>
                 /\ pc[p] = "publish" /\ snap'[p] = snap[p]
                 /\ left'[p] = left[p]
      PROVE  Written'
  <2> SUFFICES ASSUME NEW p \in Producers, pc'[p] = "publish",
                      NEW k \in 0..(Pushed(p)' - 1)
               PROVE  memory'[PushCell(snap'[p], k)] = <<p, sent'[p] + 1 + k>>
    BY DEF Written
  <2>1. pc[p] = "publish" /\ snap'[p] = snap[p] /\ left'[p] = left[p]
    BY <1>1
  <2>2. Pushed(p)' = Pushed(p)
    BY <2>1 DEF Pushed, max_cap
  <2> QED BY <1>1, <2>1, <2>2 DEF Written
(* ...or is not taken while there is one.                                  *)
<1>2. ASSUME NEW t \in Threads, NEW label, label # "publish",
             pc' = [pc EXCEPT ![t] = label], pc[t] \in HoldsEnd
      PROVE  Written'
  <2>1. \A p \in Producers : pc[p] \in Pushing => p = t
    BY <1>2, OnlyOnePushes
  <2>2. \A p \in Producers : pc'[p] # "publish"
    BY <1>0, <1>2, <2>1 DEF Pushing
  <2> QED BY <2>2 DEF Written
<1>3. CASE Calm
  BY <1>0, <1>1, <1>3 DEF Calm, CalmThread, Pushing
<1>4. ASSUME NEW p \in Producers, RoomFound(p)
      PROVE  Written'
  <2>1. \A q \in Producers : pc'[q] # "publish"
    <3>1. \A q \in Producers : pc[q] \notin Pushing
      BY <1>4, NobodyPushes DEF RoomFound
    <3>2. \E label \in {"grow", "copy_in"} : pc' = [pc EXCEPT ![p] = label]
      BY <1>4 DEF RoomFound, Goto
    <3> QED BY <1>0, <3>1, <3>2 DEF Pushing
  <2> QED BY <2>1 DEF Written
<1>5. ASSUME NEW p \in Producers, Grow(p) \/ Publish(p)
      PROVE  Written'
  <2>1. /\ pc[p] \in HoldsEnd
        /\ \E label \in {"copy_in", "pushed"} : pc' = [pc EXCEPT ![p] = label]
    BY <1>5 DEF Grow, Publish, Goto, HoldsEnd
  <2> QED BY <1>0, <1>2, <2>1
<1>6. ASSUME NEW p \in Producers, CopyIn(p)
      PROVE  Written'
  <2> SUFFICES ASSUME NEW q \in Producers, pc'[q] = "publish",
                      NEW k \in 0..(Pushed(q)' - 1)
               PROVE  memory'[PushCell(snap'[q], k)] = <<q, sent'[q] + 1 + k>>
    BY DEF Written
  <2>1. /\ pc' = [pc EXCEPT ![p] = "publish"] /\ pc[p] = "copy_in"
        /\ snap' = snap /\ left' = left /\ sent' = sent
    BY <1>6 DEF CopyIn, Goto
  <2>2. q = p
    <3>1. pc[q] \in Pushing => q = p
      BY <1>0, <2>1, OnlyOnePushes DEF HoldsEnd
    <3> QED BY <1>0, <2>1, <3>1 DEF Pushing
  <2>3. Pushed(p)' = Pushed(p)
    BY <2>1 DEF Pushed, max_cap
  <2> QED BY <1>6, <2>1, <2>2, <2>3, CopyInWrites
<1>7. ASSUME NEW c \in Consumers, ElementsFound(c)
      PROVE  Written'
  <2>1. /\ pc' = [pc EXCEPT ![c] = "copy_out"] /\ UNCHANGED <<memory, sent>>
        /\ snap' = [snap EXCEPT ![c] = snapshot] /\ left' = left
    BY <1>7 DEF ElementsFound, Goto, ring
  <2>2. \A p \in Producers : pc'[p] = pc[p] /\ snap'[p] = snap[p]
    BY <1>0, <2>1
  <2> QED BY <1>1, <2>1, <2>2
<1>8. ASSUME NEW c \in Consumers, CopyOut(c)
      PROVE  Written'
  <2>1. /\ \E label \in {"popped", "trim_end"} :
               pc' = [pc EXCEPT ![c] = label]
        /\ UNCHANGED <<memory, sent, snap>>
        /\ left' = [left EXCEPT ![c] = left[c] - Popped(c)]
    BY <1>8 DEF CopyOut, Goto
  <2>2. \A p \in Producers : pc'[p] = pc[p] /\ left'[p] = left[p]
    BY <1>0, <2>1
  <2> QED BY <1>1, <2>1, <2>2
<1>9. ASSUME NEW c \in Consumers, Trim(c)
      PROVE  Written'
  <2>1. pc[c] \in HoldsEnd /\ pc' = [pc EXCEPT ![c] = "popped"]
    BY <1>9 DEF Trim, Goto, HoldsEnd
  <2> QED BY <1>0, <1>2, <2>1
<1> QED
  BY <1>3, <1>4, <1>5, <1>6, <1>7, <1>8, <1>9, CalmOrCopies
     DEF Copies, RingInv

-----------------------------------------------------------------------------
(* What each step does to the bytes inside.                                *)

StreamInv == IInv /\ RingInv /\ Written

LEMMA MemoryHoldsNext ==
    ASSUME IInv', RingInv'
    PROVE  Holds(snapshot', memory')
<1>1. memory' \in [0..(bufend' - 1) -> Bytes] /\ Fits(snapshot')
  BY DEF IInv, TypeOK, RingInv, RingFits
<1>2. snapshot'.bufend = bufend'
  BY DEF snapshot
<1> QED BY <1>1, <1>2 DEF Holds

LEMMA ContentsAre ==
    ASSUME AlignedPipe, StreamInv
    PROVE  /\ Holds(snapshot, memory)
           /\ Contents = Inside(snapshot, memory)
           /\ Contents \in Seq(Bytes) /\ Len(Contents) = BytesInUse(snapshot)
           /\ BytesInUse(snapshot) \in Nat
BY MemoryHolds, ContentsInside, InsideType DEF StreamInv, RingInv

LEMMA ContentsAreNext ==
    ASSUME AlignedPipe, StreamInv'
    PROVE  /\ Holds(snapshot', memory')
           /\ Contents' = Inside(snapshot', memory')
           /\ Contents' \in Seq(Bytes)
           /\ Len(Contents') = BytesInUse(snapshot')
BY MemoryHoldsNext, ContentsInsideNext, InsideType DEF StreamInv

Appended(p) == [i \in 1..moved[p] |-> <<p, sent[p] + i>>]

Taken(c) == [i \in 1..Popped(c) |-> Read(PopCell(snap[c], i - 1))]

Same == Contents' = Contents /\ stream' = stream /\ out' = out /\ sent' = sent

LEMMA PublishAppends ==
    ASSUME AlignedPipe, StreamInv, StreamInv', NEW p \in Producers, Publish(p)
    PROVE  /\ moved[p] \in Nat \ {0}
           /\ Appended(p) \in [1..moved[p] -> Bytes]
           /\ Contents' = Contents \o Appended(p)
           /\ stream' = stream \o Appended(p) /\ out' = out
           /\ sent' = [sent EXCEPT ![p] = sent[p] + moved[p]]
           /\ BytesInUse(snapshot) + moved[p] <= max_cap
           /\ sent[p] + moved[p] <= MaxBytes
<1>1. /\ BytesInUse(snapshot') = BytesInUse(snapshot) + moved[p]
      /\ moved[p] = Pushed(p) /\ moved[p] \in Nat \ {0}
      /\ BytesInUse(snap[p]) + moved[p] <= Capacity(snapshot)
      /\ Behind(snap[p], snapshot)
  BY PublishFitsRing DEF StreamInv
<1>2. /\ snapshot'.bufend = snapshot.bufend
      /\ snapshot'.begin = snapshot.begin /\ memory' = memory
  BY DEF Publish, snapshot
<1>3. sent[p] \in Int
  BY DEF StreamInv, IInv, TypeOK
<1>4. Appended(p) \in [1..moved[p] -> Bytes]
  BY <1>1, <1>3 DEF Appended, Bytes
<1>5. ASSUME NEW k \in 1..moved[p]
      PROVE  memory[At(snapshot, BytesInUse(snapshot) + k)]
                 = Appended(p)[k]
  <2>1. pc[p] \in {"copy_in", "publish"} /\ pc[p] = "publish"
    BY DEF Publish
  <2>2. k - 1 \in 0..(Pushed(p) - 1) /\ moved[p] \in Nat
    BY <1>1
  <2>3. PushCell(snap[p], k - 1)
            = At(snapshot, BytesInUse(snapshot) + 1 + (k - 1))
    BY <2>1, <2>2, PushedPlaces DEF StreamInv
  <2>4. memory[PushCell(snap[p], k - 1)] = <<p, sent[p] + 1 + (k - 1)>>
    BY <2>1, <2>2 DEF StreamInv, Written
  <2>5. /\ BytesInUse(snapshot) + 1 + (k - 1) = BytesInUse(snapshot) + k
        /\ sent[p] + 1 + (k - 1) = sent[p] + k
    <3>1. BytesInUse(snapshot) \in Nat /\ k \in Nat
      BY <2>2, ContentsAre
    <3> QED BY <1>3, <3>1
  <2> QED BY <2>3, <2>4, <2>5 DEF Appended
<1>6. Inside(snapshot', memory) = Inside(snapshot, memory) \o Appended(p)
  <2> DEFINE u == snapshot'
             f == Appended(p)
             n == moved[p]
  <2>1. Holds(snapshot, memory) /\ Holds(u, memory)
    BY <1>2, ContentsAre, ContentsAreNext
  <2>2. /\ u.bufend = snapshot.bufend /\ u.begin = snapshot.begin
        /\ n \in Nat /\ BytesInUse(u) = BytesInUse(snapshot) + n
        /\ f \in [1..n -> Bytes]
        /\ \A k \in 1..n :
              memory[At(snapshot, BytesInUse(snapshot) + k)] = f[k]
    BY <1>1, <1>2, <1>4, <1>5
  <2> HIDE DEF u, f, n
  <2>3. Inside(u, memory) = Inside(snapshot, memory) \o f
    BY <2>1, <2>2, InsideGrows
  <2> QED BY <2>3 DEF u, f
<1>7. Contents' = Contents \o Appended(p)
  BY <1>2, <1>6, ContentsAre, ContentsAreNext
<1>8. BytesInUse(snapshot) + moved[p] <= max_cap
  <2>1. /\ BytesInUse(snapshot) <= BytesInUse(snap[p])
        /\ BytesInUse(snap[p]) \in Nat /\ BytesInUse(snapshot) \in Nat
        /\ Capacity(snapshot) \in Nat
    BY <1>1, UseFits DEF Behind
  <2>2. Capacity(snapshot) <= max_cap /\ max_cap \in Nat
    BY SizesFit DEF StreamInv, RingInv, RingFits
  <2> QED BY <1>1, <2>1, <2>2
<1>9. sent[p] + moved[p] <= MaxBytes
  <2>1. sent[p] + left[p] <= MaxBytes /\ left[p] \in Nat /\ moved[p] <= left[p]
    BY PushedFits, <1>1 DEF StreamInv, RingInv, LeftFits, Publish, Pushing
  <2> QED BY <1>1, <1>3, <2>1, SizesAssumption
<1>10. /\ stream' = stream \o Appended(p) /\ out' = out
       /\ sent' = [sent EXCEPT ![p] = sent[p] + moved[p]]
  BY DEF Publish, Appended
<1> QED BY <1>1, <1>4, <1>7, <1>8, <1>9, <1>10

LEMMA CopyOutTakes ==
    ASSUME AlignedPipe, StreamInv, StreamInv', NEW c \in Consumers, CopyOut(c)
    PROVE  /\ Popped(c) \in Nat \ {0}
           /\ Taken(c) \in [1..Popped(c) -> Bytes]
           /\ Contents = Taken(c) \o Contents'
           /\ out' = out \o Taken(c) /\ stream' = stream /\ sent' = sent
<1>1. /\ Before(snap[c], snapshot)
      /\ Popped(c) \in Nat \ {0} /\ Popped(c) <= BytesInUse(snap[c])
      /\ BytesInUse(snapshot') = BytesInUse(snapshot) - Popped(c)
      /\ \A i \in 1..BytesInUse(snapshot') :
            At(snapshot', i) = At(snapshot, Popped(c) + i)
  BY CopyOutFits DEF StreamInv
<1>2. memory' = memory /\ stream' = stream /\ sent' = sent
      /\ out' = out \o Taken(c)
  BY DEF CopyOut, Taken
<1>3. ASSUME NEW k \in 1..Popped(c)
      PROVE  /\ Taken(c)[k] = memory[At(snapshot, k)]
             /\ Taken(c)[k] \in Bytes
  <2>1. k - 1 \in 0..(Popped(c) - 1) /\ (k - 1) + 1 = k
    BY <1>1
  <2>2. PopCell(snap[c], k - 1) = At(snapshot, k)
    BY <1>1, <2>1, PopTakesOldest
  <2>3. At(snapshot, k) \in DOMAIN memory
    <3>1. k \in 1..BytesInUse(snapshot)
      <4>1. /\ BytesInUse(snap[c]) <= BytesInUse(snapshot)
            /\ BytesInUse(snap[c]) \in Nat /\ BytesInUse(snapshot) \in Nat
        BY <1>1, UseFits DEF Before
      <4> QED BY <1>1, <4>1
    <3> QED BY <3>1, ContentsAre, InsideType DEF Holds
  <2>4. Taken(c)[k] = memory[At(snapshot, k)]
    BY <2>2, <2>3 DEF Taken, Read
  <2>5. memory[At(snapshot, k)] \in Bytes
    BY <2>3 DEF StreamInv, IInv, TypeOK
  <2> QED BY <2>4, <2>5
<1>4. Taken(c) \in [1..Popped(c) -> Bytes]
  BY <1>3 DEF Taken
<1>5. Inside(snapshot, memory) = Taken(c) \o Inside(snapshot', memory)
  <2> DEFINE u == snapshot'
             f == Taken(c)
             n == Popped(c)
  <2>1. Holds(snapshot, memory) /\ Holds(u, memory)
    BY <1>2, ContentsAre, ContentsAreNext
  <2>2. /\ n \in Nat /\ BytesInUse(u) = BytesInUse(snapshot) - n
        /\ f \in [1..n -> Bytes]
        /\ \A k \in 1..n : f[k] = memory[At(snapshot, k)]
        /\ \A i \in 1..BytesInUse(u) :
              At(u, i) = At(snapshot, n + i)
    BY <1>1, <1>3, <1>4
  <2> HIDE DEF u, f, n
  <2>3. Inside(snapshot, memory) = f \o Inside(u, memory)
    BY <2>1, <2>2, InsideShrinks
  <2> QED BY <2>3 DEF u, f
<1>6. Contents = Taken(c) \o Contents'
  BY <1>2, <1>5, ContentsAre, ContentsAreNext
<1> QED BY <1>1, <1>2, <1>4, <1>6

LEMMA OthersKeepContents ==
    ASSUME AlignedPipe, StreamInv, StreamInv', [Next]_vars,
           ~ \E p \in Producers : Publish(p),
           ~ \E c \in Consumers : CopyOut(c)
    PROVE  Same
<1> USE DEF StreamInv
<1>1. ASSUME UNCHANGED <<memory, bufend, begin, end>>
      PROVE  Contents' = Contents
  BY <1>1 DEF Contents, Read, snapshot
<1>2. CASE Calm
  BY <1>1, <1>2 DEF Calm, Same
<1>3. ASSUME NEW p \in Producers, RoomFound(p)
      PROVE  Same
  BY <1>1, <1>3 DEF RoomFound, ring, histories, Same
<1>4. ASSUME NEW p \in Producers, Grow(p)
      PROVE  Same
  <2>1. Inside(snapshot', memory') = Inside(snapshot, memory)
    BY <1>4, GrowFits
  <2> QED BY <1>4, <2>1, ContentsAre, ContentsAreNext
         DEF Grow, histories, Same
<1>5. ASSUME NEW p \in Producers, CopyIn(p)
      PROVE  Same
  <2>1. pc[p] \in {"copy_in", "publish"} /\ snapshot' = snapshot
    BY <1>5 DEF CopyIn, snapshot
  <2>2. ASSUME NEW i \in 1..BytesInUse(snapshot)
        PROVE  memory'[At(snapshot, i)] = memory[At(snapshot, i)]
    <3>1. At(snapshot, i) \in DOMAIN memory
      BY ContentsAre, InsideType DEF Holds
    <3>2. ~ \E k \in 0..(Pushed(p) - 1) :
                PushCell(snap[p], k) = At(snapshot, i)
      BY <2>1, PushedAreFree
    <3> QED BY <1>5, <3>1, <3>2 DEF CopyIn
  <2>3. Inside(snapshot, memory') = Inside(snapshot, memory)
    BY <2>1, <2>2, ContentsAre, ContentsAreNext, InsideKept
  <2> QED BY <1>5, <2>1, <2>3, ContentsAre, ContentsAreNext
         DEF CopyIn, histories, Same
<1>6. ASSUME NEW c \in Consumers, ElementsFound(c)
      PROVE  Same
  BY <1>1, <1>6 DEF ElementsFound, ring, histories, Same
<1>7. ASSUME NEW c \in Consumers, Trim(c)
      PROVE  Same
  <2>1. Inside(snapshot', memory') = Inside(snapshot, memory)
    BY <1>7, TrimFits
  <2> QED BY <1>7, <2>1, ContentsAre, ContentsAreNext
         DEF Trim, locals, histories, Same
<1> QED
  BY <1>2, <1>3, <1>4, <1>5, <1>6, <1>7, CalmOrCopies DEF Copies, RingInv

-----------------------------------------------------------------------------
LEMMA InitStream == AlignedPipe /\ Init => StreamInv /\ Contents = <<>>
<1> SUFFICES ASSUME AlignedPipe, Init PROVE StreamInv /\ Contents = <<>>
  OBVIOUS
<1>1. StreamInv
  <2>1. \A p \in Producers : pc[p] # "publish"
    BY DEF Init, Threads
  <2> QED BY <2>1, InitIInv, InitRingInv DEF StreamInv, Written
<1>2. BytesInUse(snapshot) = 0
  <2>1. bufend = Floor + ElemSize /\ begin = 0 /\ end = ElemSize
    BY DEF Init, Floor
  <2>2. ElemSize \in Nat \ {0} /\ Floor \in Nat \ {0} /\ Fits(snapshot)
    BY <1>1, WholeNumbers, SizesFit DEF StreamInv, RingInv, RingFits
  <2> QED BY <2>1, <2>2, UseFits, SnapshotFields
<1>3. Contents = <<>>
  BY <1>1, <1>2, ContentsAre, EmptySeq
<1> QED BY <1>1, <1>3

LEMMA StreamInvStep ==
    ASSUME AlignedPipe, StreamInv, [Next]_vars
    PROVE  StreamInv'
BY IInvStep, RingInvStep, WrittenStep DEF StreamInv

THEOREM StreamInvariant == AlignedPipe => (Spec => []StreamInv)
<1> SUFFICES ASSUME AlignedPipe PROVE Spec => []StreamInv
  OBVIOUS
<1>1. Init => StreamInv
  BY InitStream
<1>2. StreamInv /\ [Next]_vars => StreamInv'
  BY StreamInvStep
<1> QED BY <1>1, <1>2, PTL DEF Spec

LEMMA NothingLostStep ==
    ASSUME AlignedPipe, StreamInv, StreamInv', NothingLost, [Next]_vars
    PROVE  NothingLost'
<1>1. /\ stream = out \o Contents
      /\ out \in Seq(Bytes) /\ Contents \in Seq(Bytes)
  BY ContentsAre DEF NothingLost, StreamInv, IInv, TypeOK
<1>2. ASSUME NEW p \in Producers, Publish(p)
      PROVE  NothingLost'
  <2>1. Appended(p) \in Seq(Bytes)
    <3>1. moved[p] \in Nat /\ Appended(p) \in [1..moved[p] -> Bytes]
      BY <1>2, PublishAppends
    <3> QED BY <3>1
  <2>2. stream' = (out \o Contents) \o Appended(p)
        /\ Contents' = Contents \o Appended(p) /\ out' = out
    BY <1>1, <1>2, PublishAppends
  <2>3. (out \o Contents) \o Appended(p) = out \o (Contents \o Appended(p))
    BY <1>1, <2>1, ConcatAssociative
  <2> QED BY <2>2, <2>3 DEF NothingLost
<1>3. ASSUME NEW c \in Consumers, CopyOut(c)
      PROVE  NothingLost'
  <2>1. Taken(c) \in Seq(Bytes) /\ Contents' \in Seq(Bytes)
    <3>1. /\ Popped(c) \in Nat /\ Taken(c) \in [1..Popped(c) -> Bytes]
          /\ Contents' \in Seq(Bytes)
      BY <1>3, CopyOutTakes, ContentsAreNext
    <3> QED BY <3>1
  <2>2. stream' = out \o (Taken(c) \o Contents') /\ out' = out \o Taken(c)
    BY <1>1, <1>3, CopyOutTakes
  <2>3. (out \o Taken(c)) \o Contents' = out \o (Taken(c) \o Contents')
    BY <1>1, <2>1, ConcatAssociative
  <2> QED BY <2>2, <2>3 DEF NothingLost
<1>4. CASE ~ (\E p \in Producers : Publish(p))
           /\ ~ (\E c \in Consumers : CopyOut(c))
  BY <1>1, <1>4, OthersKeepContents DEF Same, NothingLost
<1> QED BY <1>2, <1>3, <1>4

(* Bytes leave in the order they were published, none lost, doubled or     *)
(* overtaken, through any number of pushes, pops, growings and trimmings   *)
(* that overlap (pipe.h:130-132).                                          *)
THEOREM NothingIsLost == AlignedPipe => (Spec => []NothingLost)
<1> SUFFICES ASSUME AlignedPipe PROVE Spec => []NothingLost
  OBVIOUS
<1>1. Init => NothingLost
  <2> SUFFICES ASSUME Init PROVE NothingLost
    OBVIOUS
  <2>1. stream = <<>> /\ out = <<>> /\ Contents = <<>>
    BY InitStream DEF Init
  <2>2. <<>> \o <<>> = <<>>
    BY EmptySeq, ConcatEmptySeq
  <2> QED BY <2>1, <2>2 DEF NothingLost
<1>2. StreamInv /\ StreamInv' /\ NothingLost /\ [Next]_vars => NothingLost'
  BY NothingLostStep
<1> QED BY <1>1, <1>2, StreamInvariant, PTL DEF Spec

-----------------------------------------------------------------------------
(* The refinement.  Publish is Put, CopyOut is Take, EndOfStream is End    *)
(* and every other step stutters.                                          *)

Ended == \E c \in Consumers : eof[c]

LEMMA OnlyEndOfStreamEnds ==
    ASSUME 0 \notin PopSizes, IInv, Next,
           ~ \E c \in Consumers : EndOfStream(c)
    PROVE  eof' = eof
<1> USE DEF histories
<1>1. ASSUME NEW p \in Producers, ProducerCall(p) \/ ProducerStep(p)
      PROVE  eof' = eof
  BY <1>1 DEF ProducerCall, ProducerStep, ProducerNew, ProducerFree, Push,
     NoConsumers, RoomMissing, SleepForRoom, RoomFound, Grow, CopyIn,
     Publish, NotifyPushed, LastProducerLooks
<1>2. ASSUME NEW c \in Consumers, Pop(c)
      PROVE  eof' = eof
  <2>1. PICK n \in PopSizes : eof' = [eof EXCEPT ![c] = eof[c] \/ n = 0]
    BY <1>2 DEF Pop
  <2>2. n # 0 /\ eof \in [Consumers -> BOOLEAN]
    BY DEF IInv, TypeOK
  <2>3. \A d \in Consumers : eof'[d] = eof[d]
    BY <2>1, <2>2
  <2>4. eof' \in [Consumers -> BOOLEAN]
    BY <2>1, <2>2
  <2> QED BY <2>2, <2>3, <2>4
<1>3. ASSUME NEW c \in Consumers, ConsumerCall(c) \/ ConsumerStep(c),
             ~Pop(c)
      PROVE  eof' = eof
  BY <1>3 DEF ConsumerCall, ConsumerStep, ConsumerNew, ConsumerFree, CopyOut,
     ElementsFound, ElementsMissing, SleepForElements,
     TrimLocksEnd, Trim, NotifyPopped, LastConsumerLooks
<1>4. ASSUME FreeProducers \/ OwnerStep
      PROVE  eof' = eof
  BY <1>4 DEF FreeProducers, OwnerStep, FreeConsumers, FreeBuffer, FreeWakes,
     Deallocate
<1>5. ASSUME NEW t \in Threads,
             ReserveLocksEnd(t) \/ HandleStep(t) \/ SpuriousWakeup(t)
      PROVE  eof' = eof
  BY <1>5 DEF ReserveLocksEnd, HandleStep, Reserve, LastHandleWakes,
     LastHandleDeallocates, Deallocate, SpuriousWakeup
<1> QED BY <1>1, <1>2, <1>3, <1>4, <1>5 DEF Next

(* Splitting a sequence in two gives its two SubSeqs.                      *)
LEMMA SplitInTwo ==
    ASSUME NEW S, NEW s \in Seq(S), NEW f \in Seq(S), NEW g \in Seq(S),
           s = f \o g
    PROVE  /\ f = SubSeq(s, 1, Len(f))
           /\ g = SubSeq(s, Len(f) + 1, Len(s))
<1>1. /\ Len(f) \in Nat /\ Len(g) \in Nat /\ Len(s) = Len(f) + Len(g)
      /\ \A i \in 1..Len(s) : s[i] \in S
      /\ \A i \in 1..(Len(f) + Len(g)) :
            s[i] = IF i <= Len(f) THEN f[i] ELSE g[i - Len(f)]
  BY LenProperties, ConcatProperties, ElementOfSeq
<1>2. f = SubSeq(s, 1, Len(f))
  <2>1. /\ SubSeq(s, 1, Len(f)) \in Seq(S)
        /\ Len(SubSeq(s, 1, Len(f))) = Len(f)
        /\ \A i \in 1..Len(f) : SubSeq(s, 1, Len(f))[i] = s[i]
    <3>1. \A i \in 1..Len(f) : s[i] \in S
      BY <1>1
    <3>2. /\ SubSeq(s, 1, Len(f)) \in Seq(S)
          /\ Len(SubSeq(s, 1, Len(f)))
               = IF 1 <= Len(f) THEN Len(f) - 1 + 1 ELSE 0
          /\ \A i \in 1..(Len(f) - 1 + 1) :
                SubSeq(s, 1, Len(f))[i] = s[1 + i - 1]
      BY <1>1, <3>1, SubSeqProperties
    <3> QED BY <1>1, <3>2
  <2> QED BY <1>1, <2>1, SeqEqual
<1>3. g = SubSeq(s, Len(f) + 1, Len(s))
  <2>1. \A i \in (Len(f) + 1)..Len(s) : s[i] \in S
    BY <1>1
  <2>2. /\ SubSeq(s, Len(f) + 1, Len(s)) \in Seq(S)
        /\ Len(SubSeq(s, Len(f) + 1, Len(s)))
             = IF Len(f) + 1 <= Len(s) THEN Len(s) - (Len(f) + 1) + 1 ELSE 0
        /\ \A i \in 1..(Len(s) - (Len(f) + 1) + 1) :
              SubSeq(s, Len(f) + 1, Len(s))[i] = s[Len(f) + 1 + i - 1]
    BY <1>1, <2>1, SubSeqProperties
  <2>3. Len(SubSeq(s, Len(f) + 1, Len(s))) = Len(g)
    BY <1>1, <2>2
  <2>4. ASSUME NEW i \in 1..Len(g)
        PROVE  g[i] = SubSeq(s, Len(f) + 1, Len(s))[i]
    <3>1. /\ i \in 1..(Len(s) - (Len(f) + 1) + 1)
          /\ Len(f) + 1 + i - 1 = Len(f) + i
      BY <1>1
    <3>2. s[Len(f) + i] = g[i]
      <4>1. /\ Len(f) + i \in 1..(Len(f) + Len(g))
            /\ ~(Len(f) + i <= Len(f)) /\ Len(f) + i - Len(f) = i
        BY <1>1
      <4> QED BY <1>1, <4>1
    <3> QED BY <2>2, <3>1, <3>2
  <2> QED BY <2>2, <2>3, <2>4, SeqEqual
<1> QED BY <1>2, <1>3

LEMMA PublishIsPut ==
    ASSUME AlignedPipe, StreamInv, StreamInv', EndFound,
           NEW p \in Producers, Publish(p)
    PROVE  Fifo!Put(p)
<1>1. /\ moved[p] \in Nat \ {0} /\ Contents' = Contents \o Appended(p)
      /\ sent' = [sent EXCEPT ![p] = sent[p] + moved[p]] /\ out' = out
      /\ BytesInUse(snapshot) + moved[p] <= max_cap
      /\ sent[p] + moved[p] <= MaxBytes
  BY PublishAppends
<1>2. Len(Contents) + moved[p] <= max_cap
  BY <1>1, ContentsAre
<1>3. moved[p] \in 1..(MaxBytes - sent[p])
  <2>1. sent[p] \in Int /\ MaxBytes \in Nat
    BY SizesAssumption DEF StreamInv, IInv, TypeOK
  <2> QED BY <1>1, <2>1
<1>4. ~Ended
  <2>1. producer_refcount > 0
    BY ProducerCounted DEF StreamInv, Publish, NoProducer
  <2> QED BY <2>1 DEF EndFound, Ended
<1>5. eof' = eof
  BY DEF Publish
<1> QED BY <1>1, <1>2, <1>3, <1>4, <1>5 DEF Fifo!Put, Appended, Ended

LEMMA CopyOutIsTake ==
    ASSUME AlignedPipe, StreamInv, StreamInv', NEW c \in Consumers, CopyOut(c)
    PROVE  Fifo!Take
<1> DEFINE n == Popped(c)
<1>1. /\ n \in Nat \ {0} /\ Taken(c) \in [1..n -> Bytes]
      /\ Contents = Taken(c) \o Contents'
      /\ out' = out \o Taken(c) /\ sent' = sent
  BY CopyOutTakes
<1>2. eof' = eof
  BY DEF CopyOut
<1>3. Taken(c) \in Seq(Bytes) /\ Len(Taken(c)) = n
      /\ Contents \in Seq(Bytes) /\ Contents' \in Seq(Bytes)
  <2>1. Contents \in Seq(Bytes) /\ Contents' \in Seq(Bytes)
    BY ContentsAre, ContentsAreNext
  <2> HIDE DEF n
  <2>2. Taken(c) \in Seq(Bytes)
    BY <1>1
  <2>3. Len(Taken(c)) = n
    BY <1>1, <2>2, LenProperties
  <2> QED BY <2>1, <2>2, <2>3
<1> HIDE DEF n
<1>4. /\ Taken(c) = SubSeq(Contents, 1, n)
      /\ Contents' = SubSeq(Contents, n + 1, Len(Contents))
  BY <1>1, <1>3, SplitInTwo
<1>5. n \in 1..Len(Contents)
  <2>1. Len(Contents) = n + Len(Contents') /\ Len(Contents') \in Nat
    BY <1>1, <1>3, ConcatProperties, LenProperties
  <2> QED BY <1>1, <2>1
<1> QED BY <1>1, <1>2, <1>4, <1>5 DEF Fifo!Take

LEMMA EndOfStreamIsEnd ==
    ASSUME AlignedPipe, StreamInv, StreamInv', EndFound, Next,
           NEW c \in Consumers, EndOfStream(c)
    PROVE  Fifo!End
<1>1. Contents = <<>>
  <2>1. BytesInUse(snapshot) = 0
    BY DEF EndOfStream, EndFound
  <2> QED BY <2>1, ContentsAre, EmptySeq
<1>2. Contents' = Contents /\ out' = out /\ sent' = sent
  BY DEF EndOfStream, ring, locals, Contents, Read, snapshot
<1>3. Ended'
  BY DEF EndOfStream, Ended, StreamInv, IInv, TypeOK
<1> QED BY <1>1, <1>2, <1>3 DEF Fifo!End, Ended

LEMMA StepIsFifoStep ==
    ASSUME AlignedPipe, 0 \notin PopSizes, StreamInv, StreamInv', EndFound,
           [Next]_vars
    PROVE  [Fifo!Next]_(Fifo!vars)
<1>1. ASSUME NEW p \in Producers, Publish(p)
      PROVE  Fifo!Next
  BY <1>1, PublishIsPut DEF Fifo!Next
<1>2. ASSUME NEW c \in Consumers, CopyOut(c)
      PROVE  Fifo!Next
  BY <1>2, CopyOutIsTake DEF Fifo!Next
<1>3. ASSUME NEW c \in Consumers, EndOfStream(c), Next
      PROVE  Fifo!Next
  BY <1>3, EndOfStreamIsEnd DEF Fifo!Next
<1>4. ASSUME ~ \E p \in Producers : Publish(p),
             ~ \E c \in Consumers : CopyOut(c)
      PROVE  Contents' = Contents /\ out' = out /\ sent' = sent
  BY <1>4, OthersKeepContents DEF Same
<1>5. ASSUME Next, ~ \E c \in Consumers : EndOfStream(c)
      PROVE  eof' = eof
  BY <1>5, OnlyEndOfStreamEnds DEF StreamInv
<1>6. CASE UNCHANGED vars
  <2>1. Contents' = Contents /\ out' = out /\ sent' = sent /\ eof' = eof
    BY <1>6 DEF vars, ring, locals, histories, Contents, Read, snapshot
  <2> QED BY <2>1 DEF Fifo!vars
<1>7. CASE Next
  BY <1>1, <1>2, <1>3, <1>4, <1>5, <1>7 DEF Fifo!vars
<1> QED BY <1>6, <1>7

(* The pipe is a bounded FIFO: two mutexes, condition variables and a      *)
(* buffer that grows and shrinks under overlapping pushes and pops behave  *)
(* as one queue whose every operation is a single step.  A pop of no       *)
(* elements, which returns 0 at once, is excluded (pipe.h:106-220).        *)
THEOREM PipeIsFifo == AlignedPipe /\ 0 \notin PopSizes => (Spec => IsFifo)
<1> SUFFICES ASSUME AlignedPipe, 0 \notin PopSizes PROVE Spec => IsFifo
  OBVIOUS
<1>1. Init => Fifo!Init
  <2> SUFFICES ASSUME Init PROVE Fifo!Init
    OBVIOUS
  <2>1. Contents = <<>>
    BY InitStream
  <2>2. ~Ended
    BY DEF Init, Ended
  <2> QED BY <2>1, <2>2 DEF Init, Fifo!Init, Ended
<1>2. StreamInv /\ StreamInv' /\ EndFound /\ [Next]_vars
        => [Fifo!Next]_(Fifo!vars)
  BY StepIsFifoStep
<1>3. Spec => []EndFound
  <2>1. Init => EndFound
    BY InitEndFound
  <2>2. IInv /\ EndFound /\ [Next]_vars => EndFound'
    BY EndFoundStep
  <2> QED BY <2>1, <2>2, Invariant, PTL DEF Spec
<1> QED BY <1>1, <1>2, <1>3, StreamInvariant, PTL DEF Spec, IsFifo, Fifo!Spec
=============================================================================
