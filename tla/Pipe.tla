-------------------------------- MODULE Pipe --------------------------------
(***************************************************************************)
(* The thread-safe pipe of src/osx/pipe.c that carries the bytes received  *)
(* over RFCOMM from the Bluetooth worker thread to BTSerialPortBinding's   *)
(* Read: a growing and shrinking ring buffer, two mutexes, two condition   *)
(* variables and two reference counts.                                     *)
(*                                                                         *)
(* A thread's `pc' says where it is inside a call.  A step is what a       *)
(* thread does up to the next point where another thread may make a        *)
(* difference: acquiring a mutex is one with the statements that follow it *)
(* up to the next read or write of memory another thread reaches without   *)
(* that mutex.  Condition variables are the sets of threads asleep in      *)
(* cond_wait.  The one word every mutex leaves unprotected, the other      *)
(* side's pointer, is read once per snapshot.                              *)
(***************************************************************************)
EXTENDS PipeRing, Sequences, FiniteSets

CONSTANTS
    Producers, Consumers,   \* threads that may be given a handle
    Owner,                  \* the thread that called pipe_new
    NoThread,               \* a free mutex
    Junk,                   \* the content of malloc'ed memory
    MinCap,                 \* DEFAULT_MINCAP, in elements
    Limit,                  \* pipe_new's limit, in elements; 0 is no limit
    PushSizes, PopSizes,    \* counts passed to pipe_push and pipe_pop
    ReserveSizes,           \* counts passed to pipe_reserve
    MaxBytes,               \* bytes a producer pushes at most (a bound)
    Releasing               \* threads that may free their handle

Threads == Producers \cup Consumers \cup {Owner}

ASSUME ThreadsAssumption ==
    /\ IsFiniteSet(Producers) /\ IsFiniteSet(Consumers)
    /\ Producers \cap Consumers = {}
    /\ Owner \notin Producers \cup Consumers
    /\ NoThread \notin Threads
    /\ Releasing \subseteq Threads

ASSUME SizesAssumption ==
    /\ MinCap \in Nat \ {0}
    /\ Limit \in Nat /\ MaxBytes \in Nat
    /\ PushSizes \subseteq Nat /\ PopSizes \subseteq Nat
    /\ ReserveSizes \subseteq Nat
    /\ MinCap * ElemSize <= SizeMax /\ Limit * ElemSize <= SizeMax

VARIABLES
    memory,                 \* *p->buffer, a byte per offset up to p->bufend
    allocated,              \* the size malloc was asked for
    buffer,                 \* "live", or "null" once pipe_free let it go
    bufend, begin, end,     \* p's pointers
    min_cap,
    producer_refcount,      \* guarded by begin_lock
    consumer_refcount,      \* guarded by end_lock
    begin_lock, end_lock,   \* the thread that holds each mutex
    pc,                     \* where each thread is
    snap,                   \* its snapshot_t
    left,                   \* bytes its call still has to move
    moved,                  \* bytes its last copy moved
    eager,                  \* a consumer is in pipe_pop_eager
    sent,                   \* how far `elems' has advanced, per producer
    seen,                   \* the refcount a releasing thread keeps
    deallocated,            \* deallocate ran: p is gone
    stream, out,            \* history: bytes published, bytes popped
    eof                     \* history: this consumer's pop returned 0

ring     == <<memory, allocated, buffer, bufend, begin, end, min_cap>>
counts   == <<producer_refcount, consumer_refcount, seen, deallocated>>
locks    == <<begin_lock, end_lock>>
locals   == <<snap, left, moved, eager, sent>>
histories == <<stream, out, eof>>
vars     == <<ring, counts, locks, pc, locals, histories>>

-----------------------------------------------------------------------------
max_cap == IF Limit = 0
           THEN SizeMax
           ELSE NextPow2(Greatest(Limit * ElemSize, MinCap * ElemSize))

snapshot == [bufend |-> bufend, begin |-> begin, end |-> end]

(* What a copy reads at an offset; outside the buffer it is anything.      *)
Read(i) == IF i \in DOMAIN memory THEN memory[i] ELSE Junk

(* The bytes in the pipe, oldest first, as a reader of pipe.c would draw   *)
(* them: from the byte after the sentinel, around the buffer, to `end'.    *)
Contents ==
    [i \in 1..BytesInUse(snapshot) |->
        Read(Around(snapshot, ElemSize + i - 1))]

(* Threads asleep on the two condition variables.                          *)
JustPushed == {c \in Consumers : pc[c] = "elems_sleep"}
JustPopped == {p \in Producers : pc[p] = "room_sleep"}

-----------------------------------------------------------------------------
Init ==
    /\ bufend = MinCap * ElemSize + ElemSize
    /\ memory = [i \in 0..(bufend - 1) |-> Junk]
    /\ allocated = ElemSize * (MinCap * ElemSize)
    /\ buffer = "live"
    /\ begin = 0
    /\ end = ElemSize
    /\ min_cap = MinCap * ElemSize
    /\ producer_refcount = 1
    /\ consumer_refcount = 1
    /\ begin_lock = NoThread
    /\ end_lock = NoThread
    /\ pc = [t \in Threads |-> IF t = Owner THEN "idle" ELSE "unborn"]
    /\ snap = [t \in Threads |-> snapshot]
    /\ left = [t \in Threads |-> 0]
    /\ moved = [t \in Threads |-> 0]
    /\ eager = [c \in Consumers |-> FALSE]
    /\ sent = [p \in Producers |-> 0]
    /\ seen = [t \in Threads |-> 0]
    /\ deallocated = FALSE
    /\ stream = <<>>
    /\ out = <<>>
    /\ eof = [c \in Consumers |-> FALSE]

Goto(t, label) == pc' = [pc EXCEPT ![t] = label]

-----------------------------------------------------------------------------
(* Handles are issued by the thread that holds the pipe_t.                 *)

ProducerNew(p) ==
    /\ pc[Owner] = "idle" /\ pc[p] = "unborn"
    /\ begin_lock = NoThread
    /\ producer_refcount' = producer_refcount + 1
    /\ Goto(p, "idle")
    /\ UNCHANGED <<ring, consumer_refcount, seen, deallocated, locks, locals,
                   histories>>

(* Faulty variant: a handle is issued and not counted.                     *)
ConsumerNewUncounted(c) ==
    /\ pc[Owner] = "idle" /\ pc[c] = "unborn"
    /\ Goto(c, "idle")
    /\ UNCHANGED <<ring, counts, locks, locals, histories>>

ConsumerNew(c) ==
    /\ pc[Owner] = "idle" /\ pc[c] = "unborn"
    /\ end_lock = NoThread
    /\ consumer_refcount' = consumer_refcount + 1
    /\ Goto(c, "idle")
    /\ UNCHANGED <<ring, producer_refcount, seen, deallocated, locks, locals,
                   histories>>

-----------------------------------------------------------------------------
(* Condition variables.  Waking a thread sends it to where it asks for its *)
(* mutex again; cond_signal wakes one of the threads asleep, if any.       *)

Wake(woken, t, label) ==
    pc' = [u \in Threads |-> IF u = t THEN label
                             ELSE IF u \in woken /\ u \in Producers THEN "push"
                             ELSE IF u \in woken THEN "pop"
                             ELSE pc[u]]

Signal(cond, t, label) ==
    IF cond = {} THEN Goto(t, label)
                 ELSE \E u \in cond : Wake({u}, t, label)

(* One element moved wakes one thread, more wake them all.                 *)
Notify(cond, t, label) ==
    IF moved[t] = ElemSize THEN Signal(cond, t, label)
                           ELSE Wake(cond, t, label)

SpuriousWakeup(t) ==
    /\ t \in JustPushed \cup JustPopped
    /\ Wake({t}, t, IF t \in Producers THEN "push" ELSE "pop")
    /\ UNCHANGED <<ring, counts, locks, locals, histories>>

-----------------------------------------------------------------------------
(* resize_buffer, entered with both mutexes held: `floor' is p->min_cap.   *)

(* Faulty variant: the new buffer is asked for without its sentinel.       *)
MoveToNoSentinel(size) ==
    LET new == Moved(snapshot, size)
    IN  /\ memory' = [j \in 0..(new.bufend - 1) |->
                         IF j < new.end THEN Read(OldCell(snapshot, j))
                                        ELSE Junk]
        /\ allocated' = size
        /\ bufend' = new.bufend
        /\ begin' = new.begin
        /\ end' = new.end

MoveTo(size) ==
    LET new == Moved(snapshot, size)
    IN  /\ memory' = [j \in 0..(new.bufend - 1) |->
                         IF j < new.end THEN Read(OldCell(snapshot, j))
                                        ELSE Junk]
        /\ allocated' = size + ElemSize
        /\ bufend' = new.bufend
        /\ begin' = new.begin
        /\ end' = new.end

(* Faulty variant: the floor is ignored.                                   *)
ResizeFloorless(new_size, floor) == MoveTo(Least(new_size, max_cap))

ResizeBuffer(new_size, floor) ==
    LET size == Least(new_size, max_cap)
    IN  IF size <= floor
        THEN UNCHANGED <<memory, allocated, bufend, begin, end>>
        ELSE MoveTo(size)

-----------------------------------------------------------------------------
(* pipe_push: wait_for_room, validate_size, process_push, the signal, and  *)
(* another round while the limit kept some bytes back.                     *)

Push(p) ==
    /\ pc[p] = "idle"
    /\ \E n \in PushSizes \ {0} :
        /\ sent[p] + n * ElemSize <= MaxBytes
        /\ left' = [left EXCEPT ![p] = n * ElemSize]
    /\ Goto(p, "push")
    /\ UNCHANGED <<ring, counts, locks, snap, moved, eager, sent, histories>>

(* Nobody is left to read: the rest of the push is dropped.                *)
NoConsumers(p) ==
    /\ pc[p] = "push" /\ end_lock = NoThread
    /\ consumer_refcount = 0
    /\ left' = [left EXCEPT ![p] = 0]
    /\ Goto(p, "idle")
    /\ UNCHANGED <<ring, counts, locks, snap, moved, eager, sent, histories>>

RoomMissing(p) ==
    /\ pc[p] = "push" /\ end_lock = NoThread
    /\ consumer_refcount > 0
    /\ BytesInUse(snapshot) = max_cap
    /\ end_lock' = p
    /\ Goto(p, "room_gap")
    /\ UNCHANGED <<ring, counts, begin_lock, locals, histories>>

(* cond_wait(&p->just_popped, &p->end_lock).                               *)
SleepForRoom(p) ==
    /\ pc[p] = "room_gap"
    /\ end_lock' = NoThread
    /\ Goto(p, "room_sleep")
    /\ UNCHANGED <<ring, counts, begin_lock, locals, histories>>

(* What validate_size_impl asks for: its count is one of bytes already and *)
(* is multiplied by the size of an element once more.                      *)
BytesNeeded(p) == BytesInUse(snapshot) + left[p] * ElemSize

RoomFound(p) ==
    /\ pc[p] = "push" /\ end_lock = NoThread
    /\ consumer_refcount > 0
    /\ BytesInUse(snapshot) # max_cap
    /\ end_lock' = p
    /\ snap' = [snap EXCEPT ![p] = snapshot]
    /\ Goto(p, IF BytesNeeded(p) > Capacity(snapshot)
               THEN "grow" ELSE "copy_in")
    /\ UNCHANGED <<ring, counts, begin_lock, left, moved, eager, sent,
                   histories>>

(* The upgrade to both mutexes, the second look, and the resize.           *)
Grow(p) ==
    /\ pc[p] = "grow" /\ begin_lock = NoThread
    /\ IF BytesNeeded(p) > Capacity(snap[p])
       THEN ResizeBuffer(NextPow2(BytesNeeded(p)), min_cap)
       ELSE UNCHANGED <<memory, allocated, bufend, begin, end>>
    /\ snap' = [snap EXCEPT ![p] = snapshot']
    /\ Goto(p, "copy_in")
    /\ UNCHANGED <<buffer, min_cap, counts, locks, left, moved, eager, sent,
                   histories>>

(* Faulty variant: what is left to push is forgotten.                      *)
PushedRoom(p) == max_cap - BytesInUse(snap[p])

Pushed(p) == Least(left[p], max_cap - BytesInUse(snap[p]))

(* The bytes go in...                                                      *)
CopyIn(p) ==
    LET s == snap[p]
    IN  /\ pc[p] = "copy_in"
        /\ moved' = [moved EXCEPT ![p] = Pushed(p)]
        /\ memory' = [i \in DOMAIN memory |->
                         IF \E k \in 0..(Pushed(p) - 1) : PushCell(s, k) = i
                         THEN <<p, sent[p] + 1 + PushIndex(s, i)>>
                         ELSE memory[i]]
        /\ Goto(p, "publish")
        /\ UNCHANGED <<allocated, buffer, bufend, begin, end, min_cap, counts,
                       locks, snap, left, eager, sent, histories>>

(* ...and only then does the end pointer say so.                           *)
Publish(p) ==
    /\ pc[p] = "publish"
    /\ end' = PushEnd(snap[p], moved[p])
    /\ end_lock' = NoThread
    /\ left' = [left EXCEPT ![p] = @ - moved[p]]
    /\ sent' = [sent EXCEPT ![p] = @ + moved[p]]
    /\ stream' = stream \o [i \in 1..moved[p] |-> <<p, sent[p] + i>>]
    /\ Goto(p, "pushed")
    /\ UNCHANGED <<memory, allocated, buffer, bufend, begin, min_cap, counts,
                   begin_lock, snap, moved, eager, out, eof>>

NotifyPushed(p) ==
    /\ pc[p] = "pushed"
    /\ Notify(JustPushed, p, IF left[p] > 0 THEN "push" ELSE "idle")
    /\ UNCHANGED <<ring, counts, locks, locals, histories>>

-----------------------------------------------------------------------------
(* pipe_pop and pipe_pop_eager: wait_for_elements, pop_without_locking,    *)
(* trim_buffer, the signal, and for pipe_pop another round until it has    *)
(* all it wants.                                                           *)

Pop(c) ==
    /\ pc[c] = "idle"
    /\ \E n \in PopSizes, e \in BOOLEAN :
        /\ left' = [left EXCEPT ![c] = n * ElemSize]
        /\ eager' = [eager EXCEPT ![c] = e]
        /\ Goto(c, IF n = 0 THEN "idle" ELSE "pop")
        /\ eof' = [eof EXCEPT ![c] = @ \/ n = 0]
    /\ UNCHANGED <<ring, counts, locks, snap, moved, sent, stream, out>>

ElementsFound(c) ==
    /\ pc[c] = "pop" /\ begin_lock = NoThread
    /\ BytesInUse(snapshot) # 0
    /\ begin_lock' = c
    /\ snap' = [snap EXCEPT ![c] = snapshot]
    /\ Goto(c, "copy_out")
    /\ UNCHANGED <<ring, counts, end_lock, left, moved, eager, sent, histories>>

ElementsMissing(c) ==
    /\ pc[c] = "pop" /\ begin_lock = NoThread
    /\ BytesInUse(snapshot) = 0
    /\ begin_lock' = c
    /\ Goto(c, "elems_gap")
    /\ UNCHANGED <<ring, counts, end_lock, locals, histories>>

(* Faulty variant: the consumer falls asleep with the mutex.               *)
SleepLocked(c) ==
    /\ pc[c] = "elems_gap" /\ producer_refcount > 0
    /\ Goto(c, "elems_sleep")
    /\ UNCHANGED <<ring, counts, locks, locals, histories>>

(* cond_wait(&p->just_pushed, &p->begin_lock).                             *)
SleepForElements(c) ==
    /\ pc[c] = "elems_gap" /\ producer_refcount > 0
    /\ begin_lock' = NoThread
    /\ Goto(c, "elems_sleep")
    /\ UNCHANGED <<ring, counts, end_lock, locals, histories>>

(* Faulty variant: an empty pipe is taken for one that ended.              *)
EndWhenEmpty(c) ==
    /\ pc[c] = "elems_gap"
    /\ begin_lock' = NoThread
    /\ eof' = [eof EXCEPT ![c] = TRUE]
    /\ Goto(c, "idle")
    /\ UNCHANGED <<ring, counts, end_lock, locals, stream, out>>

(* Nothing inside and nobody to push: __pipe_pop returns 0.                *)
EndOfStream(c) ==
    /\ pc[c] = "elems_gap" /\ producer_refcount = 0
    /\ begin_lock' = NoThread
    /\ eof' = [eof EXCEPT ![c] = TRUE]
    /\ Goto(c, "idle")
    /\ UNCHANGED <<ring, counts, end_lock, locals, stream, out>>

Popped(c) == Least(left[c], BytesInUse(snap[c]))

CopyOut(c) ==
    LET n == Popped(c)
        s == [snap[c] EXCEPT !.begin = PopBegin(snap[c], n)]
    IN  /\ pc[c] = "copy_out"
        /\ out' = out \o [i \in 1..n |-> Read(PopCell(snap[c], i - 1))]
        /\ begin' = s.begin
        /\ begin_lock' = NoThread
        /\ left' = [left EXCEPT ![c] = @ - n]
        /\ moved' = [moved EXCEPT ![c] = n]
        /\ Goto(c, IF BytesInUse(s) > Capacity(s) \div 4
                   THEN "popped" ELSE "trim_end")
        /\ UNCHANGED <<memory, allocated, buffer, bufend, end, min_cap, counts,
                       end_lock, snap, eager, sent, stream, eof>>

(* Faulty variants: end_lock is not taken, or begin_lock is in its place.  *)
TrimLocksNothing(c) ==
    /\ pc[c] = "trim_end"
    /\ Goto(c, "trim_begin")
    /\ UNCHANGED <<ring, counts, locks, locals, histories>>

TrimLocksBegin(c) ==
    /\ pc[c] = "trim_end" /\ begin_lock = NoThread
    /\ begin_lock' = c
    /\ Goto(c, "trim_begin")
    /\ UNCHANGED <<ring, counts, end_lock, locals, histories>>

(* trim_buffer gave begin_lock back to take the two in order.              *)
TrimLocksEnd(c) ==
    /\ pc[c] = "trim_end" /\ end_lock = NoThread
    /\ end_lock' = c
    /\ Goto(c, "trim_begin")
    /\ UNCHANGED <<ring, counts, begin_lock, locals, histories>>

Trim(c) ==
    LET cap == Capacity(snapshot)
    IN  /\ pc[c] = "trim_begin" /\ begin_lock = NoThread
        /\ IF BytesInUse(snapshot) <= cap \div 4
           THEN ResizeBuffer(cap \div 2, min_cap)
           ELSE UNCHANGED <<memory, allocated, bufend, begin, end>>
        /\ end_lock' = NoThread
        /\ Goto(c, "popped")
        /\ UNCHANGED <<buffer, min_cap, counts, begin_lock, locals, histories>>

NotifyPopped(c) ==
    /\ pc[c] = "popped"
    /\ Notify(JustPopped, c, IF left[c] > 0 /\ ~eager[c] THEN "pop" ELSE "idle")
    /\ UNCHANGED <<ring, counts, locks, locals, histories>>

-----------------------------------------------------------------------------
(* pipe_reserve, open to whoever has a handle.  It asks for both mutexes;  *)
(* a count of 0 stands for DEFAULT_MINCAP, taken as bytes.  The floor is   *)
(* set before the resize.                                                  *)

ReserveLocksEnd(t) ==
    /\ pc[t] = "idle" /\ end_lock = NoThread
    /\ \E n \in ReserveSizes :
        left' = [left EXCEPT ![t] = IF n = 0 THEN MinCap ELSE n * ElemSize]
    /\ end_lock' = t
    /\ Goto(t, "reserve")
    /\ UNCHANGED <<ring, counts, begin_lock, snap, moved, eager, sent,
                   histories>>

Reserve(t) ==
    /\ pc[t] = "reserve" /\ begin_lock = NoThread
    /\ IF left[t] <= BytesInUse(snapshot)
       THEN UNCHANGED ring
       ELSE /\ min_cap' = Least(left[t], max_cap)
            /\ ResizeBuffer(left[t], min_cap')
            /\ UNCHANGED buffer
    /\ left' = [left EXCEPT ![t] = 0]
    /\ end_lock' = NoThread
    /\ Goto(t, "idle")
    /\ UNCHANGED <<counts, begin_lock, snap, moved, eager, sent, histories>>

-----------------------------------------------------------------------------
(* Handles are given back.  pipe_producer_free and pipe_consumer_free take *)
(* one count down and, when it is the last of its side, look at the other  *)
(* side's; pipe_free takes both down and goes by what it saw on the way.   *)

ProducerFree(p) ==
    /\ pc[p] = "idle" /\ p \in Releasing
    /\ begin_lock = NoThread
    /\ producer_refcount' = producer_refcount - 1
    /\ Goto(p, IF producer_refcount' = 0 THEN "last" ELSE "gone")
    /\ UNCHANGED <<ring, consumer_refcount, seen, deallocated, locks, locals,
                   histories>>

ConsumerFree(c) ==
    /\ pc[c] = "idle" /\ c \in Releasing
    /\ end_lock = NoThread
    /\ consumer_refcount' = consumer_refcount - 1
    /\ Goto(c, IF consumer_refcount' = 0 THEN "last" ELSE "gone")
    /\ UNCHANGED <<ring, producer_refcount, seen, deallocated, locks, locals,
                   histories>>

LastProducerLooks(p) ==
    /\ pc[p] = "last" /\ p \in Producers
    /\ end_lock = NoThread
    /\ seen' = [seen EXCEPT ![p] = consumer_refcount]
    /\ Goto(p, "decide")
    /\ UNCHANGED <<ring, producer_refcount, consumer_refcount, deallocated,
                   locks, locals, histories>>

LastConsumerLooks(c) ==
    /\ pc[c] = "last" /\ c \in Consumers
    /\ begin_lock = NoThread
    /\ seen' = [seen EXCEPT ![c] = producer_refcount]
    /\ Goto(c, "decide")
    /\ UNCHANGED <<ring, producer_refcount, consumer_refcount, deallocated,
                   locks, locals, histories>>

(* Faulty variant: the wrong condition variable is broadcast.              *)
LastHandleWakesOwnSide(t) ==
    /\ pc[t] = "decide" /\ seen[t] > 0
    /\ Wake(IF t \in Producers THEN JustPopped ELSE JustPushed, t, "gone")
    /\ UNCHANGED <<ring, counts, locks, locals, histories>>

(* Somebody is left on the other side and may be asleep.                   *)
LastHandleWakes(t) ==
    /\ pc[t] = "decide" /\ seen[t] > 0
    /\ Wake(IF t \in Producers THEN JustPushed ELSE JustPopped, t, "gone")
    /\ UNCHANGED <<ring, counts, locks, locals, histories>>

Deallocate(t) ==
    /\ deallocated' = TRUE
    /\ Goto(t, "gone")
    /\ UNCHANGED <<memory, allocated, bufend, begin, end, min_cap,
                   producer_refcount, consumer_refcount, seen, locks, locals,
                   histories>>

LastHandleDeallocates(t) ==
    /\ pc[t] = "decide" /\ seen[t] = 0
    /\ Deallocate(t)
    /\ UNCHANGED buffer

FreeProducers ==
    /\ pc[Owner] = "idle" /\ Owner \in Releasing
    /\ begin_lock = NoThread
    /\ producer_refcount' = producer_refcount - 1
    /\ seen' = [seen EXCEPT ![Owner] = producer_refcount']
    /\ Goto(Owner, "free_consumers")
    /\ UNCHANGED <<ring, consumer_refcount, deallocated, locks, locals,
                   histories>>

(* Faulty variant: the buffer is freed whoever still has a handle.         *)
FreeConsumersAlways ==
    /\ pc[Owner] = "free_consumers"
    /\ end_lock = NoThread
    /\ consumer_refcount' = consumer_refcount - 1
    /\ Goto(Owner, "free_buffer")
    /\ UNCHANGED <<ring, producer_refcount, seen, deallocated, locks, locals,
                   histories>>

FreeConsumers ==
    /\ pc[Owner] = "free_consumers"
    /\ end_lock = NoThread
    /\ consumer_refcount' = consumer_refcount - 1
    /\ Goto(Owner, IF consumer_refcount' = 0 THEN "free_buffer"
                   ELSE IF seen[Owner] = 0 THEN "free_wakes" ELSE "gone")
    /\ UNCHANGED <<ring, producer_refcount, seen, deallocated, locks, locals,
                   histories>>

FreeBuffer ==
    /\ pc[Owner] = "free_buffer"
    /\ buffer' = "null"
    /\ IF seen[Owner] > 0
       THEN /\ Wake(JustPopped, Owner, "gone")
            /\ UNCHANGED <<memory, allocated, bufend, begin, end, min_cap,
                           counts, locks, locals, histories>>
       ELSE Deallocate(Owner)

(* Faulty variant: nobody is told that the producers are gone.             *)
FreeWakesNobody ==
    /\ pc[Owner] = "free_wakes"
    /\ Goto(Owner, "gone")
    /\ UNCHANGED <<ring, counts, locks, locals, histories>>

FreeWakes ==
    /\ pc[Owner] = "free_wakes"
    /\ Wake(JustPushed, Owner, "gone")
    /\ UNCHANGED <<ring, counts, locks, locals, histories>>

-----------------------------------------------------------------------------
(* What a thread does of its own accord once it is inside a call.          *)

ProducerStep(p) ==
    \/ NoConsumers(p) \/ RoomMissing(p) \/ SleepForRoom(p) \/ RoomFound(p)
    \/ Grow(p) \/ CopyIn(p) \/ Publish(p) \/ NotifyPushed(p)
    \/ LastProducerLooks(p)

ConsumerStep(c) ==
    \/ ElementsFound(c) \/ ElementsMissing(c) \/ SleepForElements(c)
    \/ EndOfStream(c) \/ CopyOut(c) \/ TrimLocksEnd(c) \/ Trim(c)
    \/ NotifyPopped(c) \/ LastConsumerLooks(c)

OwnerStep == FreeConsumers \/ FreeBuffer \/ FreeWakes

HandleStep(t) ==
    Reserve(t) \/ LastHandleWakes(t) \/ LastHandleDeallocates(t)

(* What its caller decides.                                                *)

ProducerCall(p) == ProducerNew(p) \/ Push(p) \/ ProducerFree(p)

ConsumerCall(c) == ConsumerNew(c) \/ Pop(c) \/ ConsumerFree(c)

(* Once deallocate ran there is no pipe for anyone to take a step in.      *)
Next ==
    /\ ~deallocated
    /\ \/ \E p \in Producers : ProducerCall(p) \/ ProducerStep(p)
       \/ \E c \in Consumers : ConsumerCall(c) \/ ConsumerStep(c)
       \/ FreeProducers \/ OwnerStep
       \/ \E t \in Threads :
            ReserveLocksEnd(t) \/ HandleStep(t) \/ SpuriousWakeup(t)

Spec == Init /\ [][Next]_vars

(* A call that was begun goes on: the scheduler runs every thread, and a   *)
(* mutex that is free again and again is granted in the end.               *)
ThreadStep(t) ==
    /\ ~deallocated
    /\ \/ t \in Producers /\ ProducerStep(t)
       \/ t \in Consumers /\ ConsumerStep(t)
       \/ t = Owner /\ OwnerStep
       \/ HandleStep(t)

Fairness == \A t \in Threads : SF_vars(ThreadStep(t))

FairSpec == Spec /\ Fairness

-----------------------------------------------------------------------------
(* Where a thread is, in terms of what it holds.                           *)

HoldsEnd == {"room_gap", "grow", "copy_in", "publish", "trim_begin", "reserve"}
HoldsBegin == {"elems_gap", "copy_out"}

(* Where a thread asks for a mutex.                                        *)
Waiting == {"push", "pop", "grow", "trim_end", "trim_begin", "reserve", "last",
            "free_consumers"}

Labels == HoldsEnd \cup HoldsBegin \cup
    {"unborn", "idle", "push", "room_sleep", "pushed", "pop", "elems_sleep",
     "trim_end", "popped", "last", "decide", "free_consumers", "free_buffer",
     "free_wakes", "gone"}

Bytes == (Producers \X Int) \cup {Junk}

Snapshots == [bufend : Nat, begin : Int, end : Int]

ProducerHandles ==
    {t \in Producers \cup {Owner} : pc[t] \notin
        {"unborn", "last", "decide", "gone", "free_consumers", "free_buffer",
         "free_wakes"}}

ConsumerHandles ==
    {t \in Consumers \cup {Owner} : pc[t] \notin
        {"unborn", "last", "decide", "gone", "free_buffer", "free_wakes"}}

PushedCells(p) == {PushCell(snap[p], k) : k \in 0..(Pushed(p) - 1)}
PoppedCells(c) == {PopCell(snap[c], k) : k \in 0..(Popped(c) - 1)}
UnreadCells == {Around(snapshot, ElemSize + k) :
                    k \in 0..(BytesInUse(snapshot) - 1)}

-----------------------------------------------------------------------------
(* The type invariant: what each variable of pipe.c and of a call ranges   *)
(* over, the reference counts never going below 0 (pipe.c:616,643,671).    *)
TypeOK ==
    /\ bufend \in Nat /\ begin \in Int /\ end \in Int
    /\ allocated \in Nat /\ min_cap \in Nat
    /\ memory \in [0..(bufend - 1) -> Bytes]
    /\ buffer \in {"live", "null"}
    /\ producer_refcount \in Nat /\ consumer_refcount \in Nat
    /\ begin_lock \in Threads \cup {NoThread}
    /\ end_lock \in Threads \cup {NoThread}
    /\ pc \in [Threads -> Labels]
    /\ snap \in [Threads -> Snapshots]
    /\ left \in [Threads -> Nat] /\ moved \in [Threads -> Int]
    /\ eager \in [Consumers -> BOOLEAN]
    /\ sent \in [Producers -> Int]
    /\ seen \in [Threads -> Nat]
    /\ deallocated \in BOOLEAN
    /\ stream \in Seq(Producers \X Int) /\ out \in Seq(Bytes)
    /\ eof \in [Consumers -> BOOLEAN]

(* check_invariants (pipe.c:483-498): whatever pushes, pops and resizes    *)
(* overlap, the pointers stay in the buffer, the bytes in use fit in it,   *)
(* and equal pointers mean a full buffer and never an empty one.           *)
PointersInOrder ==
    buffer = "live" =>
        /\ begin \in 0..bufend /\ end \in 0..bufend
        /\ BytesInUse(snapshot) \in 0..Capacity(snapshot)
        /\ begin = end => BytesInUse(snapshot) = Capacity(snapshot)

(* check_invariants (pipe.c:500-501): growing never passes the limit and   *)
(* trimming never goes below the floor, however many threads do both.      *)
CapacityInOrder ==
    buffer = "live" =>
        /\ MinCap * ElemSize <= min_cap /\ min_cap <= max_cap
        /\ min_cap <= Capacity(snapshot) /\ Capacity(snapshot) <= max_cap

(* Bytes leave in the order they were published, none lost, doubled or     *)
(* overtaken by a resize: what was published is what was popped followed   *)
(* by what a reader of the buffer finds in it (pipe.h:130-132).            *)
NothingLost == stream = out \o Contents

(* The two-lock argument of pipe.c:282-289: the snapshot a push or a pop   *)
(* works from may be behind the other side's pointer, but its own pointer  *)
(* is exact and the other one errs on the safe side.                       *)
SnapshotsSafe ==
    /\ \A p \in Producers : pc[p] \in {"copy_in", "publish"} =>
        /\ snap[p].bufend = bufend /\ snap[p].end = end
        /\ BytesInUse(snap[p]) >= BytesInUse(snapshot)
    /\ \A c \in Consumers : pc[c] = "copy_out" =>
        /\ snap[c].bufend = bufend /\ snap[c].begin = begin
        /\ BytesInUse(snap[c]) <= BytesInUse(snapshot)

(* The memcpy of a push runs while a pop copies out without a common       *)
(* mutex: it writes no cell that holds an unread byte or that a pop reads, *)
(* and none outside the buffer (process_push, pop_without_locking).        *)
CopiesDisjoint ==
    \A p \in Producers : pc[p] = "copy_in" =>
        /\ PushedCells(p) \subseteq 0..(bufend - 1)
        /\ PushedCells(p) \cap UnreadCells = {}
        /\ \A c \in Consumers : pc[c] = "copy_out" =>
            PushedCells(p) \cap PoppedCells(c) = {}

(* A mutex is held exactly by the thread that is between its lock and its  *)
(* unlock, on every path through push, pop, trim and reserve.              *)
MutexesHeld ==
    \A t \in Threads :
        /\ end_lock = t <=> pc[t] \in HoldsEnd
        /\ begin_lock = t <=> pc[t] \in HoldsBegin

(* The reference counts count the handles still out on each side, the      *)
(* pipe_t counting on both (pipe.c:555-559), through every interleaving of *)
(* the calls that issue handles and give them back.                        *)
RefcountsMatchHandles ==
    /\ producer_refcount = Cardinality(ProducerHandles)
    /\ consumer_refcount = Cardinality(ConsumerHandles)

(* No thread copies through p->buffer, or resizes it, after pipe_free let  *)
(* it go without holding either mutex (pipe.c:627).                        *)
BufferLiveWhenUsed ==
    \A t \in Threads :
        pc[t] \in {"copy_in", "publish", "grow", "copy_out", "trim_begin"} =>
            buffer = "live"

(* "If this function returns 0, there will be no more elements coming in.  *)
(* Every subsequent call will return 0." (pipe.h:204-205): once one        *)
(* consumer has seen the end, no consumer pops a byte again.               *)
NothingAfterEof == [][(\E c \in Consumers : eof[c]) => out' = out]_vars

(* The pipe is a bounded FIFO of bytes: pipe.c's buffer, locks and sleeps  *)
(* implement FifoPipe, the bytes inside being what Contents reads.         *)
Fifo == INSTANCE FifoPipe WITH
            Bound    <- max_cap,
            queue    <- Contents,
            received <- out,
            ended    <- \E c \in Consumers : eof[c]

IsFifo == Fifo!Spec

-----------------------------------------------------------------------------
(* Liveness, under FairSpec.                                               *)

(* Whoever asks for a mutex gets it in the end, with push, pop, trim,      *)
(* reserve and the releases all taking one or both: no cycle of threads    *)
(* that wait for each other (the lock order of pipe.c:506-507).            *)
MutexesGranted ==
    \A t \in Threads :
        pc[t] \in Waiting ~> (pc[t] \notin Waiting \/ deallocated)

(* The last producer handle given back, by pipe_producer_free or by        *)
(* pipe_free, wakes every consumer asleep: pops return (pipe.h:220).       *)
ReleaseWakesConsumers ==
    \A c \in Consumers :
        (pc[c] \in {"pop", "elems_sleep"} /\ producer_refcount = 0)
            ~> (pc[c] = "idle" \/ deallocated)

(* The last consumer handle given back wakes every producer asleep on a    *)
(* full pipe: pushes are dropped and return (pipe.c:685-688, 629-630).     *)
ReleaseWakesProducers ==
    \A p \in Producers :
        (pc[p] \in {"push", "room_sleep"} /\ consumer_refcount = 0)
            ~> (pc[p] = "idle" \/ deallocated)

-----------------------------------------------------------------------------
(* What pipe.h and pipe.c's comments say and the code does not do.         *)

(* "This function will block until: a) there is at least one element in    *)
(* the pipe." (pipe.h:217-219): a consumer does not sleep on for ever      *)
(* beside bytes that are in the pipe.                                      *)
ElementsEndTheWait ==
    \A c \in Consumers :
        (pc[c] = "elems_sleep" /\ BytesInUse(snapshot) > 0)
            ~> (pc[c] # "elems_sleep" \/ BytesInUse(snapshot) = 0)

(* "it will never have more than `limit' elements in it at any time"       *)
(* (pipe.h:149-150).                                                       *)
AtMostLimit == Limit > 0 => BytesInUse(snapshot) <= Limit * ElemSize

(* "the actual elements are stored in in interval [buffer, bufend)"        *)
(* (pipe.c:315-316): every cell a push writes was asked of malloc.  For    *)
(* elements of one byte pipe_new asks for one too few (pipe.c:538, 552).   *)
CopiesInsideAllocation ==
    \A p \in Producers : pc[p] = "copy_in" =>
        \A cell \in PushedCells(p) : cell < allocated
=============================================================================
