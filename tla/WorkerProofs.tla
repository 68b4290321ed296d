---------------------------- MODULE WorkerProofs ----------------------------
(***************************************************************************)
(* Theorems about BluetoothWorker, for any callers, devices and lengths.   *)
(***************************************************************************)
EXTENDS BluetoothWorker, SequenceTheorems, TLAPS

FrameSet ==
    [kind : Kinds, by : Callers \cup {NoCaller}, device : Devices, session : Nat,
     left : 0..UInt16Size - 1, packet : Nat, running : BOOLEAN, stopped : BOOLEAN]

ByteSet == (Callers \X Nat) \X Int

ChannelSet ==
    [device : Devices, by : Callers \X Nat, open : BOOLEAN,
     sent : Seq(ByteSet), arrived : Nat, received : Seq(Nat \X Nat)]

CallSet == [op : Ops \cup {"none"}, device : Devices \cup {"none"}, length : Nat]

Types ==
    /\ pc \in [Callers -> {"idle", "asks", "waits", "done"}]
    /\ call \in [Callers -> CallSet]
    /\ \A c \in Callers : pc[c] # "idle" =>
          /\ call[c].op \in Ops /\ call[c].device \in Devices
          /\ call[c].length \in Lengths \cup {0}
          /\ call[c].length # 0 <=> call[c].op = "write"
    /\ calls \in [Callers -> Nat]
    /\ \A c \in Callers : calls[c] <= MaxCalls[c]
    /\ lock \in [LockedOps -> Callers \cup {NoCaller}]
    /\ result \in [connect : {"success", "error"}, write : {"success", "error"},
                   sdp : Devices \cup {"none"}]
    /\ tasks \in Seq(Callers)
    /\ stack \in Seq(FrameSet)
    /\ devices_lock \in BOOLEAN
    /\ devices \in [Devices -> Nat]
    /\ channels \in Seq(ChannelSet)
    /\ completions \in Nat

SessionsExist ==
    /\ \A d \in Devices : devices[d] <= Len(channels)
    /\ \A i \in DOMAIN stack : stack[i].session <= Len(channels)

ChunksHaveChannels ==
    \A i \in DOMAIN stack :
        stack[i].kind = "chunk" => stack[i].session \in DOMAIN channels

TasksWait ==
    /\ \A i \in DOMAIN tasks : pc[tasks[i]] = "waits"
    /\ \A i, j \in DOMAIN tasks : tasks[i] = tasks[j] => i = j
    /\ \A i \in DOMAIN stack, k \in DOMAIN tasks : stack[i].by # tasks[k]

FrameFits(f) ==
    /\ f.by \in Callers => pc[f.by] = "waits" /\ call[f.by].device = f.device
    /\ f.kind \in {"connect", "sdp"} => f.by \in Callers /\ call[f.by].op = f.kind
    /\ f.kind \in {"write", "chunk"} => f.by \in Callers /\ call[f.by].op = "write"
    /\ f.kind = "disconnect" => f.by = NoCaller \/ call[f.by].op = "disconnect"

FramesFit ==
    /\ \A i \in DOMAIN stack : FrameFits(stack[i])
    /\ \A i, j \in DOMAIN stack :
          stack[i].by = stack[j].by /\ stack[i].by \in Callers => i = j

LocksFit ==
    \A c \in Callers :
        pc[c] \in {"waits", "done"} /\ call[c].op \in LockedOps => lock[call[c].op] = c

Bottom == stack[Len(stack)]

LoopsNest ==
    /\ \A i \in DOMAIN stack :
          /\ stack[i].stopped => stack[i].running
          /\ i > 1 => stack[i].running
          /\ stack[i].running => stack[i].kind \in TryLockKinds /\ Bottom.kind = "chunk"
    /\ devices_lock => stack # <<>> /\ Bottom.kind = "chunk"
    /\ completions \in {0, 1}
    /\ completions > 0 => devices_lock

ChannelsOwned ==
    /\ \A s \in DOMAIN channels : channels[s].by[2] <= calls[channels[s].by[1]]
    /\ \A c \in Callers : pc[c] \in {"asks", "waits"} =>
          \A s \in DOMAIN channels : channels[s].by # Id(c)

-----------------------------------------------------------------------------
(* What a step does to the stack: it pushes a frame, changes the innermost *)
(* one or pops it.  Only `running' and `stopped' of a frame change while   *)
(* another one is innermost.                                               *)

Alike(f, g) ==
    /\ f.kind = g.kind /\ f.by = g.by /\ f.device = g.device
    /\ f.session = g.session /\ f.left = g.left /\ f.packet = g.packet

Pushes(f) == f \in FrameSet /\ stack' = <<f>> \o stack

Turns(f) ==
    /\ stack # <<>> /\ f \in FrameSet
    /\ stack' \in Seq(FrameSet) /\ Len(stack') = Len(stack)
    /\ stack'[1] = f
    /\ \A i \in DOMAIN stack : i # 1 => stack'[i] = stack[i]

Pops == stack # <<>> /\ stack' \in {Tail(stack), StopLoop(Tail(stack))}

LEMMA PushFacts ==
    ASSUME Types, NEW f, Pushes(f)
    PROVE  /\ stack' \in Seq(FrameSet) /\ stack' # <<>>
           /\ Len(stack') = Len(stack) + 1
           /\ stack'[1] = f
           /\ \A i \in DOMAIN stack' : i = 1 \/ (i - 1 \in DOMAIN stack /\ stack'[i] = stack[i - 1])
           /\ \A i \in DOMAIN stack : i + 1 \in DOMAIN stack' /\ stack'[i + 1] = stack[i]
           /\ stack # <<>> => Bottom' = Bottom
BY DEF Types, Pushes, Bottom

LEMMA TurnFacts ==
    ASSUME Types, NEW f, Turns(f)
    PROVE  /\ stack' \in Seq(FrameSet) /\ stack' # <<>>
           /\ Len(stack') = Len(stack)
           /\ DOMAIN stack' = DOMAIN stack /\ 1 \in DOMAIN stack
           /\ stack'[1] = f
           /\ \A i \in DOMAIN stack : i = 1 \/ stack'[i] = stack[i]
           /\ Len(stack) > 1 => Bottom' = Bottom
           /\ Len(stack) = 1 => Bottom' = f
<1>1. /\ stack \in Seq(FrameSet) /\ stack' \in Seq(FrameSet)
      /\ Len(stack) \in Nat \ {0} /\ Len(stack') = Len(stack)
      /\ DOMAIN stack = 1..Len(stack) /\ DOMAIN stack' = 1..Len(stack)
  BY DEF Types, Turns
<1>2. Len(stack) > 1 => Bottom' = Bottom
  BY <1>1 DEF Turns, Bottom
<1>3. Len(stack) = 1 => Bottom' = f
  BY <1>1 DEF Turns, Bottom
<1> QED BY <1>1, <1>2, <1>3 DEF Turns

LEMMA LoopStopped ==
    ASSUME NEW old \in Seq(FrameSet)
    PROVE  LET new == StopLoop(old) IN
           /\ new \in Seq(FrameSet) /\ Len(new) = Len(old)
           /\ \A i \in DOMAIN old : i # 1 => new[i] = old[i]
           /\ old # <<>> => new[1] = [old[1] EXCEPT !.stopped = TRUE]
<1>1. CASE old = <<>>
  BY <1>1 DEF StopLoop
<1>2. CASE old # <<>>
  <2>1. old[1] \in FrameSet /\ 1 \in DOMAIN old
    BY <1>2
  <2>2. [old[1] EXCEPT !.stopped = TRUE] \in FrameSet
    BY <2>1 DEF FrameSet
  <2>3. StopLoop(old) = [old EXCEPT ![1] = [old[1] EXCEPT !.stopped = TRUE]]
    BY <1>2 DEF StopLoop
  <2> QED BY <1>2, <2>1, <2>2, <2>3
<1> QED BY <1>1, <1>2

LEMMA PopFacts ==
    ASSUME Types, Pops
    PROVE  /\ stack' \in Seq(FrameSet)
           /\ Len(stack') = Len(stack) - 1
           /\ \A i \in DOMAIN stack' :
                 /\ i + 1 \in DOMAIN stack
                 /\ Alike(stack'[i], stack[i + 1])
                 /\ stack'[i].running = stack[i + 1].running
                 /\ i = 1 \/ stack'[i].stopped = stack[i + 1].stopped
           /\ \A i \in DOMAIN stack : i = 1 \/ (i - 1 \in DOMAIN stack' /\ Alike(stack'[i - 1], stack[i]))
           /\ Len(stack) > 1 => stack' # <<>> /\ Bottom'.kind = Bottom.kind
           /\ Len(stack) = 1 => stack' = <<>>
<1>1. /\ stack \in Seq(FrameSet) /\ stack # <<>>
      /\ Tail(stack) \in Seq(FrameSet) /\ Len(Tail(stack)) = Len(stack) - 1
      /\ \A i \in DOMAIN Tail(stack) : Tail(stack)[i] = stack[i + 1]
  BY DEF Types, Pops
<1>2. /\ stack' \in Seq(FrameSet)
      /\ Len(stack') = Len(stack) - 1
      /\ \A i \in DOMAIN Tail(stack) : i # 1 => stack'[i] = Tail(stack)[i]
      /\ Tail(stack) # <<>> =>
           stack'[1] = Tail(stack)[1] \/ stack'[1] = [Tail(stack)[1] EXCEPT !.stopped = TRUE]
  BY <1>1, LoopStopped DEF Pops
<1>3. ASSUME NEW i \in DOMAIN stack'
      PROVE  /\ i + 1 \in DOMAIN stack /\ stack[i + 1] \in FrameSet
             /\ i # 1 => stack'[i] = stack[i + 1]
             /\ i = 1 => \/ stack'[i] = stack[i + 1]
                         \/ stack'[i] = [stack[i + 1] EXCEPT !.stopped = TRUE]
  BY <1>1, <1>2, <1>3
<1>4. ASSUME NEW i \in DOMAIN stack'
      PROVE  /\ i + 1 \in DOMAIN stack
             /\ Alike(stack'[i], stack[i + 1])
             /\ stack'[i].running = stack[i + 1].running
             /\ i = 1 \/ stack'[i].stopped = stack[i + 1].stopped
  BY <1>3, <1>4 DEF Alike, FrameSet
<1>5. \A i \in DOMAIN stack : i = 1 \/ (i - 1 \in DOMAIN stack' /\ Alike(stack'[i - 1], stack[i]))
  <2> SUFFICES ASSUME NEW i \in DOMAIN stack, i # 1
               PROVE  i - 1 \in DOMAIN stack' /\ Alike(stack'[i - 1], stack[i])
    OBVIOUS
  <2>1. i - 1 \in DOMAIN stack' /\ (i - 1) + 1 = i
    BY <1>1, <1>2
  <2> QED BY <1>4, <2>1
<1>6. Len(stack) > 1 => stack' # <<>> /\ Bottom'.kind = Bottom.kind
  <2> SUFFICES ASSUME Len(stack) > 1
               PROVE  stack' # <<>> /\ Bottom'.kind = Bottom.kind
    OBVIOUS
  <2>1. Len(stack') \in DOMAIN stack' /\ Len(stack') + 1 = Len(stack) /\ stack' # <<>>
    BY <1>1, <1>2
  <2> QED BY <1>4, <2>1 DEF Bottom, Alike
<1>7. Len(stack) = 1 => stack' = <<>>
  BY <1>1, <1>2
<1> QED BY <1>1, <1>2, <1>4, <1>5, <1>6, <1>7
-----------------------------------------------------------------------------
(* The frames that steps push and turn.                                    *)

TaskFrame(c) == [Frame(call[c].op, c, call[c].device) EXCEPT !.left = Length(c)]

PacketFrame(s) ==
    [Frame("data", NoCaller, channels[s].device)
     EXCEPT !.session = s, !.packet = channels[s].arrived + 1]

ClosedFrame(s) == Frame("disconnect", NoCaller, channels[s].device)

ChunkSize(f) == IF f.left > Mtu THEN Mtu ELSE f.left

ChunkFrame(f) == [f EXCEPT !.kind = "chunk", !.left = @ - ChunkSize(f)]

(* What WriteLocks and ChunkLocks do, with the frame f that knows the      *)
(* channel; and how they end.                                              *)
Sends(f) ==
    /\ Top("write") \/ Top("chunk")
    /\ ~devices_lock
    /\ f \in FrameSet /\ f.session \in DOMAIN channels /\ f.left > 0
    /\ f.kind = stack[1].kind /\ f.by = stack[1].by /\ f.device = stack[1].device
    /\ f.left = stack[1].left /\ f.packet = stack[1].packet
    /\ ~f.running /\ f.running = stack[1].running /\ f.stopped = stack[1].stopped
    /\ f.kind = "write" => f.session = devices[f.device]
    /\ f.kind = "chunk" => f.session = stack[1].session /\ result["write"] = "success"
    /\ Turns(ChunkFrame(f))
    /\ Accepted(f, ChunkSize(f)) \/ Refused(f) \/ ToNil(f)
    /\ devices_lock' = TRUE
    /\ UNCHANGED <<callers, devices>>

Ends ==
    /\ Top("write") \/ Top("chunk")
    /\ ~devices_lock
    /\ stack[1].kind = "chunk" => ~(result["write"] = "success" /\ stack[1].left > 0)
    /\ Pops /\ EndWrite
    /\ result' = result \/ result' = [result EXCEPT !["write"] = "success"]

LEMMA LengthType ==
    ASSUME Types, NEW c \in Callers
    PROVE  Length(c) \in 0..UInt16Size - 1
<1>1. call[c].length \in Nat /\ UInt16Size \in Nat \ {0}
  BY NumbersAssumption DEF Types, CallSet
<1> QED BY <1>1 DEF Length

LEMMA TopFrame ==
    ASSUME Types, stack # <<>>
    PROVE  Head(stack) = stack[1] /\ 1 \in DOMAIN stack /\ stack[1] \in FrameSet
           /\ Len(stack) \in Nat /\ Len(stack) >= 1
BY DEF Types

(* Every field of a frame has its type.                                    *)
LEMMA FrameType ==
    ASSUME Types, NEW i \in DOMAIN stack
    PROVE  /\ stack[i] \in FrameSet
           /\ stack[i].kind \in Kinds /\ stack[i].by \in Callers \cup {NoCaller}
           /\ stack[i].device \in Devices /\ stack[i].session \in Nat
           /\ stack[i].left \in 0..UInt16Size - 1 /\ stack[i].packet \in Nat
           /\ stack[i].running \in BOOLEAN /\ stack[i].stopped \in BOOLEAN
<1>1. stack[i] \in FrameSet
  BY DEF Types
<1> QED BY <1>1 DEF FrameSet

LEMMA ChannelType ==
    ASSUME Types, NEW s \in DOMAIN channels
    PROVE  /\ channels[s] \in ChannelSet
           /\ channels[s].device \in Devices /\ channels[s].by \in Callers \X Nat
           /\ channels[s].open \in BOOLEAN /\ channels[s].sent \in Seq(ByteSet)
           /\ channels[s].arrived \in Nat /\ channels[s].received \in Seq(Nat \X Nat)
<1>1. channels[s] \in ChannelSet
  BY DEF Types
<1> QED BY <1>1 DEF ChannelSet

LEMMA TurnedFirst ==
    ASSUME Types, stack # <<>>, NEW f \in FrameSet, stack' = [stack EXCEPT ![1] = f]
    PROVE  Turns(f)
BY DEF Types, Turns

LEMMA NewFrameType ==
    ASSUME NEW kind \in Kinds, NEW by \in Callers \cup {NoCaller}, NEW d \in Devices
    PROVE  Frame(kind, by, d) \in FrameSet
BY NumbersAssumption DEF Frame, FrameSet

LEMMA RunTaskStack ==
    ASSUME Types, TasksWait, RunTask
    PROVE  /\ tasks # <<>> /\ Head(tasks) = tasks[1] /\ 1 \in DOMAIN tasks
           /\ Head(tasks) \in Callers /\ pc[Head(tasks)] = "waits"
           /\ Pushes(TaskFrame(Head(tasks)))
           /\ stack # <<>> => stack[1].running
           /\ tasks' \in Seq(Callers)
           /\ \A i \in DOMAIN tasks' : i + 1 \in DOMAIN tasks /\ tasks'[i] = tasks[i + 1]
<1>1. tasks # <<>> /\ Head(tasks) = tasks[1] /\ 1 \in DOMAIN tasks
      /\ Head(tasks) \in Callers
  BY DEF RunTask, Types
<1>2. pc[Head(tasks)] = "waits"
  BY <1>1 DEF TasksWait
<1> DEFINE c == Head(tasks)
<1>3. call[c].op \in Ops /\ call[c].device \in Devices
  BY <1>1, <1>2 DEF Types
<1>4. Frame(call[c].op, c, call[c].device) \in FrameSet
  BY <1>1, <1>3, NewFrameType DEF Kinds, TryLockKinds, Ops
<1>5. TaskFrame(c) \in FrameSet
  BY <1>1, <1>4, LengthType DEF TaskFrame, FrameSet
<1>6. stack' = <<TaskFrame(c)>> \o stack
  BY DEF RunTask, TaskFrame
<1>7. stack # <<>> => stack[1].running
  BY TopFrame DEF RunTask, Serving
<1>8. /\ tasks' \in Seq(Callers)
      /\ \A i \in DOMAIN tasks' : i + 1 \in DOMAIN tasks /\ tasks'[i] = tasks[i + 1]
  BY <1>1 DEF RunTask, Types
<1> QED BY <1>1, <1>2, <1>5, <1>6, <1>7, <1>8 DEF Pushes

LEMMA DataArrivesStack ==
    ASSUME Types, NEW s \in DOMAIN channels, DataArrives(s)
    PROVE  Pushes(PacketFrame(s)) /\ (stack # <<>> => stack[1].running)
<1>1. s \in Nat /\ channels[s].device \in Devices /\ channels[s].arrived \in Nat
  BY ChannelType DEF Types
<1>2. Frame("data", NoCaller, channels[s].device) \in FrameSet
  BY <1>1, NewFrameType DEF Kinds, TryLockKinds
<1> DEFINE f == Frame("data", NoCaller, channels[s].device)
           k == channels[s].arrived + 1
<1>3. PacketFrame(s) \in FrameSet
  <2>1. PacketFrame(s) = [f EXCEPT !.session = s, !.packet = k]
    BY DEF PacketFrame
  <2>2. k \in Nat /\ s \in Nat /\ f \in FrameSet
    BY <1>1, <1>2
  <2> HIDE DEF f, k
  <2>3. [f EXCEPT !.session = s, !.packet = k] \in FrameSet
    BY <2>2 DEF FrameSet
  <2> QED BY <2>1, <2>3
<1>4. stack' = <<PacketFrame(s)>> \o stack
  BY DEF DataArrives, PacketFrame
<1> QED BY <1>3, <1>4, TopFrame DEF Pushes, DataArrives, Serving

LEMMA ChannelClosedStack ==
    ASSUME Types, NEW s \in DOMAIN channels, ChannelClosed(s)
    PROVE  Pushes(ClosedFrame(s)) /\ (stack # <<>> => stack[1].running)
<1>1. ClosedFrame(s) \in FrameSet
  BY ChannelType, NewFrameType DEF Kinds, ClosedFrame
<1> QED BY <1>1, TopFrame DEF ChannelClosed, Pushes, ClosedFrame, Serving

LEMMA EnterRunLoopStack ==
    ASSUME Types, EnterRunLoop
    PROVE  /\ Turns([stack[1] EXCEPT !.running = TRUE])
           /\ stack[1].kind \in TryLockKinds /\ devices_lock
<1>1. stack # <<>> /\ stack[1].kind \in TryLockKinds /\ devices_lock
  BY TopFrame DEF EnterRunLoop, Top
<1>2. [stack[1] EXCEPT !.running = TRUE] \in FrameSet
  BY <1>1, TopFrame DEF FrameSet
<1>3. stack' = [stack EXCEPT ![1] = [stack[1] EXCEPT !.running = TRUE]]
  BY <1>1 DEF EnterRunLoop
<1> QED BY <1>1, <1>2, <1>3, TurnedFirst

LEMMA LeaveRunLoopStack ==
    ASSUME Types, LeaveRunLoop
    PROVE  /\ Turns([stack[1] EXCEPT !.running = FALSE, !.stopped = FALSE])
           /\ stack[1].running /\ stack[1].stopped
<1>1. stack # <<>> /\ stack[1].running /\ stack[1].stopped
  BY TopFrame DEF LeaveRunLoop
<1>2. [stack[1] EXCEPT !.running = FALSE, !.stopped = FALSE] \in FrameSet
  BY <1>1, TopFrame DEF FrameSet
<1>3. stack' = [stack EXCEPT ![1] = [stack[1] EXCEPT !.running = FALSE, !.stopped = FALSE]]
  BY <1>1, TopFrame DEF LeaveRunLoop, Types
<1> QED BY <1>1, <1>2, <1>3, TurnedFirst

LEMMA WriteCompleteStack ==
    ASSUME Types, WriteComplete
    PROVE  \/ stack = <<>> /\ stack' = stack
           \/ /\ Turns([stack[1] EXCEPT !.stopped = TRUE])
              /\ stack[1].running
<1>1. CASE stack = <<>>
  BY <1>1 DEF WriteComplete, StopLoop
<1>2. CASE stack # <<>>
  <2>1. [stack[1] EXCEPT !.stopped = TRUE] \in FrameSet
    BY <1>2, TopFrame DEF FrameSet
  <2>2. stack' = [stack EXCEPT ![1] = [stack[1] EXCEPT !.stopped = TRUE]]
    BY <1>2 DEF WriteComplete, StopLoop
  <2> QED BY <1>2, <2>1, <2>2, TurnedFirst, TopFrame DEF WriteComplete, Serving
<1> QED BY <1>1, <1>2

LEMMA TopReplaced ==
    ASSUME Types, stack # <<>>, NEW f \in FrameSet, stack' = <<f>> \o Tail(stack)
    PROVE  Turns(f)
BY DEF Types, Turns

LEMMA SendChunkStack ==
    ASSUME Types, stack # <<>>, NEW f \in FrameSet, f.left > 0, SendChunk(f)
    PROVE  Turns(ChunkFrame(f))
<1>1. f.left \in 0..UInt16Size - 1 /\ Mtu \in Nat /\ UInt16Size \in Nat
  BY NumbersAssumption DEF FrameSet
<1>2. f.left - ChunkSize(f) \in 0..UInt16Size - 1
  BY <1>1 DEF ChunkSize
<1>3. ChunkFrame(f) \in FrameSet
  BY <1>2 DEF ChunkFrame, FrameSet, Kinds, TryLockKinds
<1>4. stack' = <<ChunkFrame(f)>> \o Tail(stack)
  BY DEF SendChunk, ChunkFrame, ChunkSize
<1> QED BY <1>3, <1>4, TopReplaced

LEMMA WriteLocksStack ==
    ASSUME Types, SessionsExist, WriteLocks
    PROVE  (\E f \in FrameSet : Sends(f)) \/ Ends
<1> DEFINE f == stack[1]
           s == devices[f.device]
           g == [f EXCEPT !.session = s]
<1>1. /\ stack # <<>> /\ Head(stack) = f /\ f \in FrameSet /\ Top("write")
      /\ f.kind = "write" /\ ~f.running /\ ~devices_lock
  BY TopFrame DEF WriteLocks, Top
<1>2. s \in Nat /\ s <= Len(channels)
  BY <1>1 DEF Types, SessionsExist, FrameSet
<1>3. CASE s # 0 /\ f.left > 0
  <2>1. s \in DOMAIN channels
    BY <1>2, <1>3 DEF Types
  <2>2. g \in FrameSet
    BY <1>1, <1>2 DEF FrameSet
  <2>3. SendChunk(g)
    BY <1>1, <1>3 DEF WriteLocks
  <2>4. /\ g.kind = f.kind /\ g.by = f.by /\ g.device = f.device /\ g.session = s
        /\ g.left = f.left /\ g.packet = f.packet
        /\ g.running = f.running /\ g.stopped = f.stopped
    BY <1>1 DEF FrameSet
  <2>5. Turns(ChunkFrame(g))
    BY <1>1, <1>3, <2>2, <2>3, <2>4, SendChunkStack
  <2> QED BY <1>1, <1>3, <2>1, <2>2, <2>3, <2>4, <2>5 DEF Sends, SendChunk, ChunkSize
<1>4. CASE ~(s # 0 /\ f.left > 0)
  <2>1. EndWrite /\ (result' = result \/ result' = [result EXCEPT !["write"] = "success"])
    BY <1>1, <1>4 DEF WriteLocks
  <2> QED BY <1>1, <2>1 DEF Ends, Pops, EndWrite, Finish
<1> QED BY <1>3, <1>4

LEMMA ChunkLocksStack ==
    ASSUME Types, ChunksHaveChannels, ChunkLocks
    PROVE  (\E f \in FrameSet : Sends(f)) \/ Ends
<1> DEFINE f == stack[1]
<1>1. /\ stack # <<>> /\ Head(stack) = f /\ f \in FrameSet /\ Top("chunk")
      /\ f.kind = "chunk" /\ ~f.running /\ ~devices_lock /\ 1 \in DOMAIN stack
  BY TopFrame DEF ChunkLocks, Top
<1>3. CASE result["write"] = "success" /\ f.left > 0
  <2>1. f.session \in DOMAIN channels
    BY <1>1 DEF ChunksHaveChannels
  <2>3. SendChunk(f)
    BY <1>1, <1>3 DEF ChunkLocks
  <2>5. Turns(ChunkFrame(f))
    BY <1>1, <1>3, <2>3, SendChunkStack
  <2> QED BY <1>1, <1>3, <2>1, <2>3, <2>5 DEF Sends, SendChunk, ChunkSize
<1>4. CASE ~(result["write"] = "success" /\ f.left > 0)
  <2>1. EndWrite /\ result' = result
    BY <1>1, <1>4 DEF ChunkLocks
  <2> QED BY <1>1, <1>4, <2>1 DEF Ends, Pops, EndWrite, Finish
<1> QED BY <1>3, <1>4

LEMMA TasksPop ==
    ASSUME Types, Tasks
    PROVE  Pops /\ Finish(Tail(stack)) /\ ~stack[1].running
BY TopFrame DEF Tasks, ConnectDeviceTask, DisconnectFromDeviceTask,
       GetRFCOMMChannelIDTask, Finish, Pops, Top

LEMMA DataLocksPop ==
    ASSUME Types, DataLocks
    PROVE  Pops /\ stack[1].kind = "data" /\ ~stack[1].running /\ ~devices_lock
BY TopFrame DEF DataLocks, Pops, Top
-----------------------------------------------------------------------------
(* What a step does to the channels.                                       *)

Connects == Top("connect") /\ Opened(stack[1])

LEMMA ConnectsFacts ==
    ASSUME Types, FramesFit, Connects
    PROVE  LET d == stack[1].device
               s == Len(channels) + 1
           IN  /\ d \in Devices /\ stack[1].by \in Callers
               /\ s \in Nat \ {0} /\ DOMAIN channels = 1..s - 1
               /\ channels' \in Seq(ChannelSet) /\ DOMAIN channels' = 1..s
               /\ Len(channels') = s
               /\ \A t \in DOMAIN channels : channels'[t] = channels[t]
               /\ channels'[s] = Channel(d, Id(stack[1].by))
               /\ devices[d] = 0 /\ devices' \in [Devices -> Nat]
               /\ devices'[d] = s
               /\ \A e \in Devices : e # d => devices'[e] = devices[e]
<1> DEFINE f == stack[1]
           new == Channel(f.device, Id(f.by))
<1>1. 1 \in DOMAIN stack /\ f.kind = "connect"
  BY TopFrame DEF Connects, Top
<1>2. f.device \in Devices /\ f.by \in Callers
  BY <1>1, FrameType DEF FramesFit, FrameFits
<1>3. new \in ChannelSet
  <2>1. Id(f.by) \in Callers \X Nat
    BY <1>2 DEF Id, Types
  <2>2. <<>> \in Seq(ByteSet) /\ <<>> \in Seq(Nat \X Nat)
    OBVIOUS
  <2> QED BY <1>2, <2>1, <2>2 DEF Channel, ChannelSet
<1>4. channels \in Seq(ChannelSet) /\ channels' = Append(channels, new)
  BY DEF Types, Connects, Opened
<1>5. /\ channels' \in Seq(ChannelSet) /\ Len(channels') = Len(channels) + 1
      /\ \A t \in DOMAIN channels : channels'[t] = channels[t]
      /\ channels'[Len(channels) + 1] = new
  <2> HIDE DEF new
  <2> QED BY <1>3, <1>4
<1>6. /\ devices[f.device] = 0 /\ devices \in [Devices -> Nat]
      /\ devices' = [devices EXCEPT ![f.device] = Len(channels) + 1]
  BY DEF Connects, Opened, Types
<1>7. Len(channels) \in Nat /\ DOMAIN channels = 1..Len(channels)
      /\ DOMAIN channels' = 1..Len(channels')
  BY <1>4, <1>5
<1> QED BY <1>2, <1>5, <1>6, <1>7

(* The fields of a channel that only its opening sets.                     *)
SameChannel(s) ==
    channels'[s].device = channels[s].device /\ channels'[s].by = channels[s].by

LEMMA DisconnectsFacts ==
    ASSUME Types, DisconnectFromDeviceTask
    PROVE  LET d == stack[1].device
           IN  /\ d \in Devices /\ stack # <<>> /\ stack[1].kind = "disconnect"
               /\ channels' \in Seq(ChannelSet) /\ DOMAIN channels' = DOMAIN channels
               /\ Len(channels') = Len(channels)
               /\ \A s \in DOMAIN channels :
                     /\ SameChannel(s)
                     /\ channels'[s].open = (channels[s].open /\ s # devices[d])
                     /\ channels'[s].sent = channels[s].sent
                     /\ channels'[s].arrived = channels[s].arrived
                     /\ channels'[s].received = channels[s].received
               /\ devices' \in [Devices -> Nat] /\ devices'[d] = 0
               /\ \A e \in Devices : e # d => devices'[e] = devices[e]
<1> DEFINE d == stack[1].device
           shut(s) == IF s = devices[d] THEN [channels[s] EXCEPT !.open = FALSE]
                      ELSE channels[s]
<1>1. stack # <<>> /\ stack[1].kind = "disconnect" /\ Head(stack) = stack[1] /\ d \in Devices
  BY TopFrame, FrameType DEF DisconnectFromDeviceTask, Top
<1>2. channels' = [s \in DOMAIN channels |-> shut(s)]
      /\ devices' = [devices EXCEPT ![d] = 0]
  BY <1>1 DEF DisconnectFromDeviceTask
<1>3. ASSUME NEW s \in DOMAIN channels
      PROVE  /\ shut(s) \in ChannelSet
             /\ shut(s).device = channels[s].device /\ shut(s).by = channels[s].by
             /\ shut(s).open = (channels[s].open /\ s # devices[d])
             /\ shut(s).sent = channels[s].sent
             /\ shut(s).arrived = channels[s].arrived
             /\ shut(s).received = channels[s].received
  BY ChannelType DEF ChannelSet
<1>4. channels' \in Seq(ChannelSet) /\ DOMAIN channels' = DOMAIN channels
      /\ Len(channels') = Len(channels)
  <2>1. DOMAIN channels = 1..Len(channels) /\ Len(channels) \in Nat
    BY DEF Types
  <2> HIDE DEF shut
  <2> QED BY <1>2, <1>3, <2>1
<1>5. \A s \in DOMAIN channels : channels'[s] = shut(s)
  BY <1>2
<1>6. /\ devices' \in [Devices -> Nat] /\ devices'[d] = 0
      /\ \A e \in Devices : e # d => devices'[e] = devices[e]
  BY <1>1, <1>2 DEF Types
<1> HIDE DEF shut
<1> QED BY <1>1, <1>3, <1>4, <1>5, <1>6 DEF SameChannel

(* One channel changes, and it stays one.                                  *)
LEMMA OneChanged ==
    ASSUME Types, NEW s \in DOMAIN channels, NEW new \in ChannelSet,
           channels' = [channels EXCEPT ![s] = new]
    PROVE  /\ channels' \in Seq(ChannelSet) /\ DOMAIN channels' = DOMAIN channels
           /\ Len(channels') = Len(channels)
           /\ channels'[s] = new
           /\ \A t \in DOMAIN channels : t # s => channels'[t] = channels[t]
BY DEF Types

LEMMA BytesType ==
    ASSUME Types, NEW f \in FrameSet, f.by \in Callers, f.left > 0
    PROVE  /\ ChunkSize(f) \in 1..f.left
           /\ Bytes(f, ChunkSize(f)) \in Seq(ByteSet)
           /\ Len(Bytes(f, ChunkSize(f))) = ChunkSize(f)
           /\ \A i \in 1..ChunkSize(f) :
                 Bytes(f, ChunkSize(f))[i] = <<Id(f.by), Length(f.by) - f.left + i>>
<1>1. ChunkSize(f) \in 1..f.left /\ f.left \in Nat
  BY NumbersAssumption DEF FrameSet, ChunkSize
<1>2. Length(f.by) \in Nat
  BY LengthType, NumbersAssumption
<1>3. Id(f.by) \in Callers \X Nat
  BY DEF Id, Types
<1>4. \A i \in 1..ChunkSize(f) : <<Id(f.by), Length(f.by) - f.left + i>> \in ByteSet
  BY <1>1, <1>2, <1>3 DEF ByteSet
<1> DEFINE b(i) == <<Id(f.by), Length(f.by) - f.left + i>>
<1>5. Bytes(f, ChunkSize(f)) = [i \in 1..ChunkSize(f) |-> b(i)]
  BY DEF Bytes
<1> HIDE DEF b
<1> QED BY <1>1, <1>4, <1>5 DEF b

LEMMA AcceptedFacts ==
    ASSUME Types, NEW f \in FrameSet, f.by \in Callers, f.left > 0,
           f.session \in DOMAIN channels, Accepted(f, ChunkSize(f))
    PROVE  LET s == f.session
           IN  /\ channels' \in Seq(ChannelSet) /\ DOMAIN channels' = DOMAIN channels
               /\ Len(channels') = Len(channels)
               /\ \A t \in DOMAIN channels : t # s => channels'[t] = channels[t]
               /\ SameChannel(s) /\ channels'[s].open = channels[s].open
               /\ channels'[s].arrived = channels[s].arrived
               /\ channels'[s].received = channels[s].received
               /\ channels'[s].sent = channels[s].sent \o Bytes(f, ChunkSize(f))
<1> DEFINE s == f.session
           bytes == channels[s].sent \o Bytes(f, ChunkSize(f))
           new == [channels[s] EXCEPT !.sent = bytes]
<1>1. bytes \in Seq(ByteSet)
  BY ChannelType, BytesType
<1>2. /\ new \in ChannelSet /\ new.sent = bytes
      /\ new.device = channels[s].device /\ new.by = channels[s].by
      /\ new.open = channels[s].open /\ new.arrived = channels[s].arrived
      /\ new.received = channels[s].received
  <2> HIDE DEF bytes
  <2> QED BY <1>1, ChannelType DEF ChannelSet
<1>3. channels' = [channels EXCEPT ![s] = new]
  BY DEF Accepted
<1> HIDE DEF new
<1> QED BY <1>2, <1>3, OneChanged DEF SameChannel

LEMMA DataArrivesFacts ==
    ASSUME Types, NEW s \in DOMAIN channels, DataArrives(s)
    PROVE  /\ channels' \in Seq(ChannelSet) /\ DOMAIN channels' = DOMAIN channels
           /\ Len(channels') = Len(channels)
           /\ \A t \in DOMAIN channels : t # s => channels'[t] = channels[t]
           /\ SameChannel(s) /\ channels'[s].open = channels[s].open
           /\ channels'[s].arrived = channels[s].arrived + 1
           /\ channels'[s].received = channels[s].received
           /\ channels'[s].sent = channels[s].sent
<1> DEFINE k == channels[s].arrived + 1
           new == [channels[s] EXCEPT !.arrived = k]
<1>0. k \in Nat
  BY ChannelType
<1>1. /\ new \in ChannelSet /\ new.sent = channels[s].sent
      /\ new.device = channels[s].device /\ new.by = channels[s].by
      /\ new.open = channels[s].open /\ new.arrived = k
      /\ new.received = channels[s].received
  <2> HIDE DEF k
  <2> QED BY <1>0, ChannelType DEF ChannelSet
<1>2. channels' = [channels EXCEPT ![s] = new]
  BY DEF DataArrives
<1> HIDE DEF new
<1> QED BY <1>1, <1>2, OneChanged DEF SameChannel

LEMMA DataLocksFacts ==
    ASSUME Types, SessionsExist, DataLocks, devices[stack[1].device] # 0
    PROVE  LET s == devices[stack[1].device]
           IN  /\ s \in DOMAIN channels
               /\ channels' \in Seq(ChannelSet) /\ DOMAIN channels' = DOMAIN channels
               /\ Len(channels') = Len(channels)
               /\ \A t \in DOMAIN channels : t # s => channels'[t] = channels[t]
               /\ SameChannel(s) /\ channels'[s].open = channels[s].open
               /\ channels'[s].arrived = channels[s].arrived
               /\ channels'[s].sent = channels[s].sent
               /\ channels'[s].received =
                     Append(channels[s].received, <<stack[1].session, stack[1].packet>>)
<1> DEFINE f == stack[1]
           s == devices[f.device]
           got == Append(channels[s].received, <<f.session, f.packet>>)
           new == [channels[s] EXCEPT !.received = got]
<1>1. stack # <<>> /\ 1 \in DOMAIN stack /\ Head(stack) = f
  BY TopFrame DEF DataLocks, Top
<1>2. f.device \in Devices /\ f.session \in Nat /\ f.packet \in Nat
  BY <1>1, FrameType
<1>3. s \in DOMAIN channels
  BY <1>2 DEF SessionsExist, Types
<1>4. got \in Seq(Nat \X Nat)
  BY <1>2, <1>3, ChannelType
<1>5. /\ new \in ChannelSet /\ new.sent = channels[s].sent
      /\ new.device = channels[s].device /\ new.by = channels[s].by
      /\ new.open = channels[s].open /\ new.arrived = channels[s].arrived
      /\ new.received = got
  <2> HIDE DEF got
  <2> QED BY <1>3, <1>4, ChannelType DEF ChannelSet
<1>6. channels' = [channels EXCEPT ![s] = new]
  BY <1>1 DEF DataLocks
<1> HIDE DEF new
<1> QED BY <1>3, <1>5, <1>6, OneChanged DEF SameChannel
-----------------------------------------------------------------------------
(* Types, tasks and frames.                                                *)

Core == Types /\ SessionsExist /\ ChunksHaveChannels /\ TasksWait /\ FramesFit

ResultSet ==
    [connect : {"success", "error"}, write : {"success", "error"},
     sdp : Devices \cup {"none"}]

TableGrows ==
    /\ channels' \in Seq(ChannelSet) /\ Len(channels) <= Len(channels')
    /\ devices' \in [Devices -> Nat]
    /\ \A d \in Devices : devices'[d] <= Len(channels')

(* What every step of the worker leaves in place.                          *)
Calm ==
    /\ UNCHANGED <<call, calls, lock>> /\ TableGrows
    /\ result' \in ResultSet /\ devices_lock' \in BOOLEAN /\ completions' \in Nat

LEMMA TableStays == ASSUME Core, UNCHANGED table PROVE TableGrows
BY DEF Core, Types, SessionsExist, TableGrows, table

LEMMA GrowFacts ==
    ASSUME Types, TableGrows
    PROVE  /\ Len(channels) \in Nat /\ Len(channels') \in Nat
           /\ \A n \in Nat : n <= Len(channels) => n <= Len(channels')
           /\ \A s \in DOMAIN channels : s \in DOMAIN channels'
BY DEF Types, TableGrows

LEMMA CalmType ==
    ASSUME Core, Calm, pc' \in [Callers -> {"idle", "asks", "waits", "done"}],
           \A c \in Callers : pc'[c] # "idle" => pc[c] # "idle",
           tasks' \in Seq(Callers), stack' \in Seq(FrameSet)
    PROVE  Types'
BY DEF Core, Calm, Types, TableGrows, ResultSet

LEMMA CallerType ==
    ASSUME Types, NEW c \in Callers
    PROVE  /\ pc[c] \in {"idle", "asks", "waits", "done"} /\ call[c] \in CallSet
           /\ calls[c] \in Nat /\ calls[c] <= MaxCalls[c] /\ MaxCalls[c] \in Nat
           /\ pc[c] # "idle" => /\ call[c].op \in Ops /\ call[c].device \in Devices
                                /\ call[c].length \in Lengths \cup {0}
                                /\ call[c].length # 0 <=> call[c].op = "write"
BY NumbersAssumption DEF Types

LEMMA PopCore ==
    ASSUME Core, Pops, Calm, tasks' = tasks,
           pc' \in [Callers -> {"idle", "asks", "waits", "done"}],
           \A c \in Callers : pc'[c] = pc[c] \/ (c = stack[1].by /\ pc'[c] = "done")
    PROVE  Core'
<1>2. 1 \in DOMAIN stack /\ stack # <<>> /\ DOMAIN stack' = 1..Len(stack) - 1
      /\ DOMAIN stack = 1..Len(stack) /\ Len(stack) \in Nat
  BY PopFacts, TopFrame DEF Core, Pops, Types
<1>3. \A c \in Callers : pc'[c] # "idle" => pc[c] # "idle"
  BY <1>2, CallerType DEF Core, FramesFit, FrameFits
<1>4. Types'
  BY <1>3, CalmType, PopFacts DEF Core, Types
<1>5. ASSUME NEW i \in DOMAIN stack'
      PROVE  i + 1 \in DOMAIN stack /\ i \in Nat /\ i + 1 # 1 /\ Alike(stack'[i], stack[i + 1])
  BY <1>2, PopFacts DEF Core
<1>6. SessionsExist'
  BY <1>5, FrameType, GrowFacts DEF Core, SessionsExist, Calm, TableGrows, Alike
<1>7. ChunksHaveChannels'
  BY <1>5, GrowFacts DEF Core, ChunksHaveChannels, Calm, Alike
<1>8. TasksWait'
  <2>1. \A i \in DOMAIN tasks : tasks[i] \in Callers /\ stack[1].by # tasks[i]
    <3>1. \A i \in DOMAIN tasks : tasks[i] \in Callers
      BY DEF Core, Types
    <3> QED BY <1>2, <3>1 DEF Core, TasksWait
  <2>2. \A i \in DOMAIN tasks : pc'[tasks[i]] = "waits"
    BY <2>1 DEF Core, TasksWait
  <2> QED BY <1>5, <2>2 DEF Core, TasksWait, Alike
<1>9. FramesFit'
  <2>1. ASSUME NEW i \in DOMAIN stack'
        PROVE  FrameFits(stack[i])'
    <3>1. FrameFits(stack[i + 1]) /\ Alike(stack'[i], stack[i + 1]) /\ i + 1 \in DOMAIN stack
      BY <1>5, <2>1 DEF Core, FramesFit
    <3>2. stack[i + 1].by \in Callers => stack[i + 1].by # stack[1].by
      BY <1>2, <1>5, <2>1 DEF Core, FramesFit
    <3>3. stack[i + 1].by \in Callers => pc'[stack[i + 1].by] = pc[stack[i + 1].by]
      BY <3>2
    <3> QED BY <3>1, <3>3 DEF FrameFits, Alike, Calm
  <2>2. \A i, j \in DOMAIN stack' :
           stack'[i].by = stack'[j].by /\ stack'[i].by \in Callers => i = j
    <3> SUFFICES ASSUME NEW i \in DOMAIN stack', NEW j \in DOMAIN stack',
                        stack'[i].by = stack'[j].by, stack'[i].by \in Callers
                 PROVE  i = j
      OBVIOUS
    <3>1. i + 1 = j + 1
      BY <1>5 DEF Core, FramesFit, Alike
    <3> QED BY <1>2, <3>1
  <2> QED BY <2>1, <2>2 DEF FramesFit
<1> QED BY <1>4, <1>6, <1>7, <1>8, <1>9 DEF Core

LEMMA PushCore ==
    ASSUME Core, NEW f, Pushes(f), Calm, pc' = pc,
           FrameFits(f), f.session <= Len(channels), f.kind # "chunk",
           f.by \in Callers => \A i \in DOMAIN stack : stack[i].by # f.by,
           tasks' \in Seq(Callers),
           \A i \in DOMAIN tasks' : pc[tasks'[i]] = "waits" /\ f.by # tasks'[i],
           \A i, j \in DOMAIN tasks' : tasks'[i] = tasks'[j] => i = j,
           \A i \in DOMAIN stack, k \in DOMAIN tasks' : stack[i].by # tasks'[k]
    PROVE  Core'
<1>1. stack' \in Seq(FrameSet)
      /\ DOMAIN stack' \subseteq Nat /\ stack'[1] = f
      /\ \A i \in DOMAIN stack' : i = 1 \/ (i - 1 \in DOMAIN stack /\ stack'[i] = stack[i - 1])
  BY PushFacts DEF Core
<1>2. Types'
  BY <1>1, CalmType DEF Core, Types
<1>3. f.session \in Nat
  BY DEF Pushes, FrameSet
<1>4. SessionsExist'
  BY <1>1, <1>3, FrameType, GrowFacts DEF Core, SessionsExist, Calm, TableGrows
<1>5. ChunksHaveChannels'
  BY <1>1, GrowFacts DEF Core, ChunksHaveChannels, Calm
<1>6. TasksWait'
  BY <1>1 DEF Core, TasksWait, Calm
<1>7. FramesFit'
  <2>1. ASSUME NEW i \in DOMAIN stack'
        PROVE  FrameFits(stack[i])'
    BY <1>1, <2>1 DEF FrameFits, Calm, Core, FramesFit
  <2>2. \A i, j \in DOMAIN stack' :
           stack'[i].by = stack'[j].by /\ stack'[i].by \in Callers => i = j
    <3> SUFFICES ASSUME NEW i \in DOMAIN stack', NEW j \in DOMAIN stack',
                        stack'[i].by = stack'[j].by, stack'[i].by \in Callers
                 PROVE  i = j
      OBVIOUS
    <3>1. CASE i = 1 \/ j = 1
      BY <1>1, <3>1
    <3>2. CASE i # 1 /\ j # 1
      <4>1. i - 1 = j - 1
        BY <1>1, <3>2 DEF Core, FramesFit
      <4> QED BY <1>1, <4>1
    <3> QED BY <3>1, <3>2
  <2> QED BY <2>1, <2>2 DEF FramesFit
<1> QED BY <1>2, <1>4, <1>5, <1>6, <1>7 DEF Core

LEMMA TurnCore ==
    ASSUME Core, NEW f, Turns(f), Calm, UNCHANGED <<pc, tasks>>,
           FrameFits(f), f.by = stack[1].by, f.session <= Len(channels),
           f.kind = "chunk" => f.session \in DOMAIN channels
    PROVE  Core'
<1>1. stack' \in Seq(FrameSet) /\ DOMAIN stack' = DOMAIN stack
      /\ 1 \in DOMAIN stack /\ stack'[1] = f
      /\ \A i \in DOMAIN stack : i = 1 \/ stack'[i] = stack[i]
  BY TurnFacts DEF Core
<1>2. Types'
  BY <1>1, CalmType DEF Core, Types
<1>3. f.session \in Nat
  BY DEF Turns, FrameSet
<1>4. SessionsExist'
  BY <1>1, <1>3, FrameType, GrowFacts DEF Core, SessionsExist, Calm, TableGrows
<1>5. ChunksHaveChannels'
  BY <1>1, GrowFacts DEF Core, ChunksHaveChannels, Calm
<1>6. TasksWait'
  BY <1>1 DEF Core, TasksWait, Calm
<1>7. FramesFit'
  <2>1. ASSUME NEW i \in DOMAIN stack'
        PROVE  FrameFits(stack[i])'
    BY <1>1, <2>1 DEF FrameFits, Calm, Core, FramesFit
  <2>2. \A i, j \in DOMAIN stack' :
           stack'[i].by = stack'[j].by /\ stack'[i].by \in Callers => i = j
    BY <1>1 DEF Core, FramesFit
  <2> QED BY <2>1, <2>2 DEF FramesFit
<1> QED BY <1>2, <1>4, <1>5, <1>6, <1>7 DEF Core
-----------------------------------------------------------------------------
(* Each step keeps Core.                                                   *)

CallerSteps(c) ==
    \/ \E op \in Ops, d \in Devices, n \in Lengths \cup {0} : Ask(c, op, d, n)
    \/ Post(c)
    \/ Return(c)

LEMMA FramesStay ==
    ASSUME Core, stack' = stack, channels' = channels, devices' = devices
    PROVE  SessionsExist' /\ ChunksHaveChannels'
BY DEF Core, SessionsExist, ChunksHaveChannels

LEMMA AskCore ==
    ASSUME Core, NEW c \in Callers, NEW op \in Ops, NEW d \in Devices,
           NEW n \in Lengths \cup {0}, Ask(c, op, d, n)
    PROVE  Core'
<1>1. /\ pc[c] = "idle" /\ calls[c] < MaxCalls[c]
      /\ n # 0 <=> op = "write"
      /\ pc' = [pc EXCEPT ![c] = "asks"]
      /\ call' = [call EXCEPT ![c] = [op |-> op, device |-> d, length |-> n]]
      /\ calls' = [calls EXCEPT ![c] = calls[c] + 1]
      /\ lock' = lock /\ tasks' = tasks /\ result' = result /\ stack' = stack
      /\ devices_lock' = devices_lock /\ devices' = devices /\ channels' = channels
      /\ completions' = completions
  BY DEF Ask, table
<1>2. \A e \in Callers : e # c => pc'[e] = pc[e] /\ call'[e] = call[e] /\ calls'[e] = calls[e]
  BY <1>1 DEF Core, Types
<1>3. /\ pc'[c] = "asks" /\ calls'[c] = calls[c] + 1
      /\ call'[c] = [op |-> op, device |-> d, length |-> n]
  BY <1>1 DEF Core, Types
<1>4. Types'
  <2>1. n \in Nat
    BY NumbersAssumption
  <2>2. call'[c] \in CallSet
    BY <1>3, <2>1 DEF CallSet
  <2>3. /\ pc' \in [Callers -> {"idle", "asks", "waits", "done"}]
        /\ call' \in [Callers -> CallSet]
        /\ calls' \in [Callers -> Nat]
    BY <1>1, <1>3, <2>2 DEF Core, Types
  <2>4. \A e \in Callers : pc'[e] # "idle" =>
          /\ call'[e].op \in Ops /\ call'[e].device \in Devices
          /\ call'[e].length \in Lengths \cup {0}
          /\ call'[e].length # 0 <=> call'[e].op = "write"
    BY <1>1, <1>2, <1>3 DEF Core, Types
  <2>5. \A e \in Callers : calls'[e] <= MaxCalls[e]
    BY <1>1, <1>2, <1>3, CallerType DEF Core
  <2> QED BY <1>1, <2>3, <2>4, <2>5 DEF Core, Types
<1>5. TasksWait'
  <2>1. \A i \in DOMAIN tasks : tasks[i] \in Callers
    BY DEF Core, Types
  <2> QED BY <1>1, <1>2, <2>1 DEF Core, TasksWait
<1>6. FramesFit'
  <2>1. ASSUME NEW i \in DOMAIN stack
        PROVE  FrameFits(stack[i])'
    <3>1. stack[i].by \in Callers => pc[stack[i].by] = "waits"
      BY DEF Core, FramesFit, FrameFits
    <3>2. stack[i].by # c
      BY <1>1, <3>1
    <3> QED BY <1>1, <1>2, <3>2, FrameType DEF Core, FramesFit, FrameFits
  <2> QED BY <1>1, <2>1 DEF Core, FramesFit
<1> QED BY <1>1, <1>4, <1>5, <1>6, FramesStay DEF Core

LEMMA PostCore ==
    ASSUME Core, NEW c \in Callers, Post(c)
    PROVE  Core'
<1>1. /\ pc[c] = "asks" /\ pc' = [pc EXCEPT ![c] = "waits"]
      /\ tasks' = Append(tasks, c) /\ call' = call /\ calls' = calls
      /\ result' = result /\ stack' = stack
      /\ devices_lock' = devices_lock /\ devices' = devices /\ channels' = channels
      /\ completions' = completions
  BY DEF Post, table
<1>2. /\ \A e \in Callers : e # c => pc'[e] = pc[e]
      /\ pc'[c] = "waits"
  BY <1>1 DEF Core, Types
<1>3. lock' \in [LockedOps -> Callers \cup {NoCaller}]
  BY DEF Post, Core, Types
<1>4. tasks' \in Seq(Callers)
  BY <1>1 DEF Core, Types
<1>5. /\ \A e \in Callers : pc'[e] # "idle" => pc[e] # "idle"
      /\ pc' \in [Callers -> {"idle", "asks", "waits", "done"}]
  BY <1>1, <1>2 DEF Core, Types
<1>6. Types'
  BY <1>1, <1>3, <1>4, <1>5 DEF Core, Types
<1>7. /\ DOMAIN tasks' = 1..Len(tasks) + 1 /\ DOMAIN tasks = 1..Len(tasks) /\ Len(tasks) \in Nat
      /\ tasks'[Len(tasks) + 1] = c
      /\ \A i \in DOMAIN tasks : tasks'[i] = tasks[i] /\ tasks[i] \in Callers
  BY <1>1 DEF Core, Types
<1>8. \A i \in DOMAIN stack : stack[i].by \in Callers => pc[stack[i].by] = "waits"
  BY DEF Core, FramesFit, FrameFits
<1>9. TasksWait'
  <2>1. \A i \in DOMAIN tasks : tasks[i] # c /\ pc[tasks[i]] = "waits"
    BY <1>1 DEF Core, TasksWait
  <2>2. \A i \in DOMAIN tasks' : pc'[tasks'[i]] = "waits"
    BY <1>2, <1>7, <2>1
  <2>3. \A i, j \in DOMAIN tasks' : tasks'[i] = tasks'[j] => i = j
    BY <1>7, <2>1 DEF Core, TasksWait
  <2>4. \A i \in DOMAIN stack : stack[i].by # c
    BY <1>1, <1>8
  <2>5. \A i \in DOMAIN stack, k \in DOMAIN tasks' : stack[i].by # tasks'[k]
    BY <1>7, <2>4 DEF Core, TasksWait
  <2> QED BY <1>1, <2>2, <2>3, <2>5 DEF TasksWait
<1>10. FramesFit'
  <2>1. ASSUME NEW i \in DOMAIN stack
        PROVE  FrameFits(stack[i])'
    BY <1>1, <1>2, FrameType DEF Core, FramesFit, FrameFits
  <2> QED BY <1>1, <2>1 DEF Core, FramesFit
<1> QED BY <1>1, <1>6, <1>9, <1>10, FramesStay DEF Core

LEMMA ReturnCore ==
    ASSUME Core, NEW c \in Callers, Return(c)
    PROVE  Core'
<1>1. /\ pc[c] = "done" /\ pc' = [pc EXCEPT ![c] = "idle"]
      /\ call' = [call EXCEPT ![c] = NoCall]
      /\ lock' = [op \in LockedOps |-> IF lock[op] = c THEN NoCaller ELSE lock[op]]
      /\ tasks' = tasks /\ calls' = calls
      /\ result' = result /\ stack' = stack
      /\ devices_lock' = devices_lock /\ devices' = devices /\ channels' = channels
      /\ completions' = completions
  BY DEF Return, table
<1>2. /\ \A e \in Callers : e # c => pc'[e] = pc[e] /\ call'[e] = call[e]
      /\ pc'[c] = "idle"
  BY <1>1 DEF Core, Types
<1>3. lock' \in [LockedOps -> Callers \cup {NoCaller}]
  BY <1>1 DEF Core, Types
<1>4. NoCall \in CallSet
  BY DEF NoCall, CallSet
<1>5. /\ call' \in [Callers -> CallSet]
      /\ pc' \in [Callers -> {"idle", "asks", "waits", "done"}]
  BY <1>1, <1>4 DEF Core, Types
<1>6. Types'
  <2>1. \A e \in Callers : pc'[e] # "idle" => e # c
    BY <1>2
  <2>2. \A e \in Callers : pc'[e] # "idle" =>
          /\ call'[e].op \in Ops /\ call'[e].device \in Devices
          /\ call'[e].length \in Lengths \cup {0}
          /\ call'[e].length # 0 <=> call'[e].op = "write"
    BY <1>2, <2>1 DEF Core, Types
  <2> QED BY <1>1, <1>3, <1>5, <2>2 DEF Core, Types
<1>7. TasksWait'
  <2>1. \A i \in DOMAIN tasks : tasks[i] \in Callers
    BY DEF Core, Types
  <2> QED BY <1>1, <1>2, <2>1 DEF Core, TasksWait
<1>8. FramesFit'
  <2>1. ASSUME NEW i \in DOMAIN stack
        PROVE  FrameFits(stack[i])'
    <3>1. stack[i].by \in Callers => pc[stack[i].by] = "waits"
      BY DEF Core, FramesFit, FrameFits
    <3>2. stack[i].by # c
      BY <1>1, <3>1
    <3> QED BY <1>1, <1>2, <3>2, FrameType DEF Core, FramesFit, FrameFits
  <2> QED BY <1>1, <2>1 DEF Core, FramesFit
<1> QED BY <1>1, <1>6, <1>7, <1>8, FramesStay DEF Core
LEMMA WorkerCases ==
    ASSUME Core, WorkerStep
    PROVE  \/ RunTask
           \/ ConnectDeviceTask \/ DisconnectFromDeviceTask \/ GetRFCOMMChannelIDTask
           \/ \E f \in FrameSet : Sends(f)
           \/ Ends
           \/ DataLocks \/ EnterRunLoop \/ LeaveRunLoop \/ WriteComplete
           \/ \E s \in DOMAIN channels : DataArrives(s)
           \/ \E s \in DOMAIN channels : ChannelClosed(s)
BY WriteLocksStack, ChunkLocksStack DEF Core, WorkerStep, Frames, Tasks

LEMMA TableChanges ==
    ASSUME Core, channels' \in Seq(ChannelSet), Len(channels') = Len(channels),
           devices' \in [Devices -> Nat],
           \A d \in Devices : devices'[d] = devices[d] \/ devices'[d] = 0
    PROVE  TableGrows
<1>1. Len(channels) \in Nat
  BY DEF Core, Types
<1>2. \A d \in Devices : devices'[d] <= Len(channels)
  BY <1>1 DEF Core, SessionsExist
<1> QED BY <1>1, <1>2 DEF TableGrows

LEMMA RunTaskCore == ASSUME Core, RunTask PROVE Core'
<1> DEFINE c == Head(tasks)
           f == TaskFrame(c)
<1>1. /\ Pushes(f) /\ c = tasks[1] /\ c \in Callers /\ pc[c] = "waits"
      /\ 1 \in DOMAIN tasks /\ tasks' \in Seq(Callers)
      /\ \A i \in DOMAIN tasks' : i + 1 \in DOMAIN tasks /\ tasks'[i] = tasks[i + 1]
  BY RunTaskStack DEF Core
<1>2. Calm /\ pc' = pc
  BY TableStays DEF RunTask, Calm, Core, Types, ResultSet
<1>3. /\ f.kind = call[c].op /\ f.by = c /\ f.device = call[c].device
      /\ f.session = 0
  BY DEF TaskFrame, Frame
<1>4. call[c].op \in Ops
  BY <1>1, CallerType DEF Core
<1>5. FrameFits(f) /\ f.kind # "chunk"
  BY <1>1, <1>3, <1>4 DEF FrameFits, Ops
<1>6. f.session <= Len(channels)
  BY <1>3 DEF Core, Types
<1>7. DOMAIN tasks' \subseteq Nat \ {0}
  BY <1>1
<1>8. \A i \in DOMAIN stack : stack[i].by # f.by
  BY <1>1, <1>3 DEF Core, TasksWait
<1>9. \A i \in DOMAIN tasks' : pc[tasks'[i]] = "waits" /\ f.by # tasks'[i]
  <2> SUFFICES ASSUME NEW i \in DOMAIN tasks'
               PROVE  pc[tasks'[i]] = "waits" /\ f.by # tasks'[i]
    OBVIOUS
  <2>1. i + 1 # 1 /\ i + 1 \in DOMAIN tasks /\ tasks'[i] = tasks[i + 1]
    BY <1>1, <1>7
  <2> QED BY <1>1, <1>3, <2>1 DEF Core, TasksWait
<1>10. \A i, j \in DOMAIN tasks' : tasks'[i] = tasks'[j] => i = j
  <2> SUFFICES ASSUME NEW i \in DOMAIN tasks', NEW j \in DOMAIN tasks', tasks'[i] = tasks'[j]
               PROVE  i = j
    OBVIOUS
  <2>1. i + 1 = j + 1
    BY <1>1 DEF Core, TasksWait
  <2> QED BY <1>7, <2>1
<1>11. \A i \in DOMAIN stack, k \in DOMAIN tasks' : stack[i].by # tasks'[k]
  BY <1>1 DEF Core, TasksWait
<1> HIDE DEF f, c
<1> QED BY <1>1, <1>2, <1>5, <1>6, <1>8, <1>9, <1>10, <1>11, PushCore

LEMMA CallbackCore ==
    ASSUME Core, NEW f, Pushes(f), Calm, UNCHANGED <<pc, tasks>>,
           f.by = NoCaller, f.kind \in {"data", "disconnect"}, f.session <= Len(channels)
    PROVE  Core'
<1>1. FrameFits(f) /\ f.kind # "chunk" /\ f.by \notin Callers
  BY CallersAssumption DEF FrameFits
<1>2. tasks' \in Seq(Callers) /\ \A i \in DOMAIN tasks : tasks[i] \in Callers
  BY DEF Core, Types
<1>3. \A i \in DOMAIN tasks' : pc[tasks'[i]] = "waits" /\ f.by # tasks'[i]
  BY <1>1, <1>2 DEF Core, TasksWait
<1>4. /\ \A i, j \in DOMAIN tasks' : tasks'[i] = tasks'[j] => i = j
      /\ \A i \in DOMAIN stack, k \in DOMAIN tasks' : stack[i].by # tasks'[k]
  BY DEF Core, TasksWait
<1> QED BY <1>1, <1>2, <1>3, <1>4, PushCore

LEMMA DataArrivesCore ==
    ASSUME Core, NEW s \in DOMAIN channels, DataArrives(s) PROVE Core'
<1>1. Pushes(PacketFrame(s))
  BY DataArrivesStack DEF Core
<1>2. PacketFrame(s).by = NoCaller /\ PacketFrame(s).kind = "data"
      /\ PacketFrame(s).session = s
  BY DEF PacketFrame, Frame
<1>3. s <= Len(channels)
  BY DEF Core, Types
<1>4. TableGrows
  <2>1. channels' \in Seq(ChannelSet) /\ Len(channels') = Len(channels)
    BY DataArrivesFacts DEF Core
  <2>2. devices' = devices /\ devices \in [Devices -> Nat]
    BY DEF DataArrives, Core, Types
  <2> QED BY <2>1, <2>2, TableChanges
<1>5. Calm /\ UNCHANGED <<pc, tasks>>
  BY <1>4 DEF DataArrives, callers, Calm, Core, Types, ResultSet
<1> QED BY <1>1, <1>2, <1>3, <1>5, CallbackCore

LEMMA ChannelClosedCore ==
    ASSUME Core, NEW s \in DOMAIN channels, ChannelClosed(s) PROVE Core'
<1>1. Pushes(ClosedFrame(s))
  BY ChannelClosedStack DEF Core
<1>2. ClosedFrame(s).by = NoCaller /\ ClosedFrame(s).kind = "disconnect"
      /\ ClosedFrame(s).session = 0
  BY DEF ClosedFrame, Frame
<1>3. 0 <= Len(channels)
  BY DEF Core, Types
<1>4. TableGrows
  BY TableStays DEF ChannelClosed
<1>5. Calm /\ UNCHANGED <<pc, tasks>>
  BY <1>4 DEF ChannelClosed, callers, Calm, Core, Types, ResultSet
<1> QED BY <1>1, <1>2, <1>3, <1>5, CallbackCore

(* A frame that turns without changing what it stands for.                 *)
LEMMA TurnAlikeCore ==
    ASSUME Core, NEW f, Turns(f), Alike(f, stack[1]), Calm, UNCHANGED <<pc, tasks>>
    PROVE  Core'
<1>1. 1 \in DOMAIN stack
  BY TurnFacts DEF Core
<1>2. FrameFits(f) /\ f.by = stack[1].by /\ f.session <= Len(channels)
  BY <1>1 DEF Core, FramesFit, FrameFits, SessionsExist, Alike
<1>3. f.kind = "chunk" => f.session \in DOMAIN channels
  BY <1>1 DEF Core, ChunksHaveChannels, Alike
<1> QED BY <1>2, <1>3, TurnCore

LEMMA EnterRunLoopCore == ASSUME Core, EnterRunLoop PROVE Core'
<1> DEFINE f == [stack[1] EXCEPT !.running = TRUE]
<1>1. Turns(f)
  BY EnterRunLoopStack DEF Core
<1>2. stack[1] \in FrameSet
  BY <1>1, TopFrame DEF Core, Turns
<1>3. Alike(f, stack[1])
  BY <1>2 DEF Alike, FrameSet
<1>4. Calm /\ UNCHANGED <<pc, tasks>>
  BY TableStays DEF EnterRunLoop, callers, Calm, Core, Types, ResultSet
<1> QED BY <1>1, <1>3, <1>4, TurnAlikeCore

LEMMA LeaveRunLoopCore == ASSUME Core, LeaveRunLoop PROVE Core'
<1> DEFINE f == [stack[1] EXCEPT !.running = FALSE, !.stopped = FALSE]
<1>1. Turns(f)
  BY LeaveRunLoopStack DEF Core
<1>2. stack[1] \in FrameSet
  BY <1>1, TopFrame DEF Core, Turns
<1>3. Alike(f, stack[1])
  BY <1>2 DEF Alike, FrameSet
<1>4. Calm /\ UNCHANGED <<pc, tasks>>
  BY TableStays DEF LeaveRunLoop, callers, Calm, Core, Types, ResultSet
<1> QED BY <1>1, <1>3, <1>4, TurnAlikeCore

LEMMA WriteCompleteCore == ASSUME Core, WriteComplete PROVE Core'
<1> DEFINE f == [stack[1] EXCEPT !.stopped = TRUE]
<1>1. Calm /\ UNCHANGED <<pc, tasks>>
  <2>1. completions' \in Nat
    BY DEF WriteComplete, Core, Types
  <2> QED BY <2>1, TableStays DEF WriteComplete, callers, Calm, Core, Types, ResultSet
<1>2. CASE stack = <<>> /\ stack' = stack
  <2>1. Types'
    BY <1>1, <1>2, CalmType DEF Core, Types
  <2> QED BY <1>1, <1>2, <2>1
          DEF Core, SessionsExist, ChunksHaveChannels, TasksWait, FramesFit, WriteComplete, table
<1>3. CASE Turns(f)
  <2>1. stack[1] \in FrameSet
    BY <1>3, TopFrame DEF Core, Turns
  <2>2. Alike(f, stack[1])
    BY <2>1 DEF Alike, FrameSet
  <2> QED BY <1>1, <1>3, <2>2, TurnAlikeCore
<1> QED BY <1>2, <1>3, WriteCompleteStack DEF Core

LEMMA SendsBy ==
    ASSUME Core, NEW f \in FrameSet, Sends(f)
    PROVE  /\ 1 \in DOMAIN stack /\ stack[1].kind \in {"write", "chunk"}
           /\ f.by \in Callers /\ call[f.by].op = "write" /\ pc[f.by] = "waits"
           /\ FrameFits(f) /\ ~stack[1].running
<1>1. 1 \in DOMAIN stack /\ stack[1].kind \in {"write", "chunk"} /\ ~stack[1].running
  BY TopFrame DEF Core, Sends, Top
<1>2. FrameFits(stack[1])
  BY <1>1 DEF Core, FramesFit
<1> QED BY <1>1, <1>2 DEF FrameFits, Sends

LEMMA SendsCore == ASSUME Core, NEW f \in FrameSet, Sends(f) PROVE Core'
<1> DEFINE g == ChunkFrame(f)
<1>1. Turns(g) /\ f.session \in DOMAIN channels
  BY DEF Sends
<1>2. /\ g.kind = "chunk" /\ g.by = f.by /\ g.device = f.device
      /\ g.session = f.session
  BY DEF ChunkFrame, FrameSet
<1>3. FrameFits(g)
  BY <1>2, SendsBy DEF FrameFits
<1>4. TableGrows /\ completions' \in Nat
  <2>1. CASE Accepted(f, ChunkSize(f))
    <3>1. channels' \in Seq(ChannelSet) /\ Len(channels') = Len(channels)
      BY <2>1, SendsBy, AcceptedFacts DEF Sends, Core
    <3>2. devices' = devices /\ devices \in [Devices -> Nat]
      BY DEF Sends, Core, Types
    <3>3. completions' \in Nat
      BY <2>1 DEF Accepted, Core, Types
    <3> QED BY <3>1, <3>2, <3>3, TableChanges
  <2>2. CASE Refused(f) \/ ToNil(f)
    BY <2>2, TableStays DEF Sends, Refused, ToNil, table, Core, Types
  <2> QED BY <2>1, <2>2 DEF Sends
<1>5. result' \in ResultSet
  BY DEF Sends, Accepted, Refused, ToNil, Core, Types, ResultSet
<1>6. Calm /\ UNCHANGED <<pc, tasks>>
  BY <1>4, <1>5 DEF Sends, callers, Calm
<1>7. f.session <= Len(channels)
  BY <1>1 DEF Core, Types
<1>8. g.by = stack[1].by
  BY <1>2 DEF Sends
<1> HIDE DEF g
<1> QED BY <1>1, <1>2, <1>3, <1>6, <1>7, <1>8, TurnCore

(* What Finish does to the caller of the innermost frame.                  *)
LEMMA FinishFacts ==
    ASSUME Types, NEW frames, Finish(frames), stack # <<>>
    PROVE  /\ pc' \in [Callers -> {"idle", "asks", "waits", "done"}]
           /\ \A c \in Callers : pc'[c] = IF c = stack[1].by THEN "done" ELSE pc[c]
           /\ UNCHANGED <<call, calls, lock, tasks>>
BY TopFrame DEF Types, Finish

LEMMA EndsCore == ASSUME Core, Ends PROVE Core'
<1>1. Pops /\ EndWrite /\ stack # <<>>
  BY DEF Ends, Pops
<1>2. result' \in ResultSet
  BY DEF Ends, Core, Types, ResultSet
<1>3. Calm
  BY <1>1, <1>2, TableStays DEF EndWrite, Finish, Calm, Core, Types
<1> QED BY <1>1, <1>3, FinishFacts, PopCore DEF EndWrite, Core

LEMMA DataLocksCore == ASSUME Core, DataLocks PROVE Core'
<1>1. Pops /\ stack # <<>> /\ UNCHANGED <<callers, result, devices_lock, devices, completions>>
  BY DataLocksPop DEF Core, Pops, DataLocks
<1>2. TableGrows
  <2>1. CASE devices[stack[1].device] = 0
    BY <2>1, <1>1, TopFrame, TableStays DEF DataLocks, table, Core
  <2>2. CASE devices[stack[1].device] # 0
    <3>1. channels' \in Seq(ChannelSet) /\ Len(channels') = Len(channels)
      BY <2>2, DataLocksFacts DEF Core
    <3>2. devices' = devices /\ devices \in [Devices -> Nat]
      BY <1>1 DEF Core, Types
    <3> QED BY <3>1, <3>2, TableChanges
  <2> QED BY <2>1, <2>2
<1>3. Calm /\ UNCHANGED <<pc, tasks>>
  BY <1>1, <1>2 DEF callers, Calm, Core, Types, ResultSet
<1> QED BY <1>1, <1>3, PopCore DEF Core, Types

LEMMA ConnectTaskCore == ASSUME Core, ConnectDeviceTask PROVE Core'
<1>1. Pops /\ Finish(Tail(stack)) /\ stack # <<>>
  BY TasksPop DEF Core, Tasks, Pops
<1>2. Top("connect") /\ (Opened(stack[1]) \/ NotOpened(stack[1]))
  BY <1>1, TopFrame DEF ConnectDeviceTask, Core
<1>3. TableGrows
  <2>1. CASE Opened(stack[1])
    <3> DEFINE s == Len(channels) + 1
    <3>1. /\ channels' \in Seq(ChannelSet) /\ Len(channels') = s
          /\ devices' \in [Devices -> Nat]
          /\ \A e \in Devices : devices'[e] = s \/ devices'[e] = devices[e]
      BY <2>1, <1>2, ConnectsFacts DEF Connects, Core
    <3>2. Len(channels) \in Nat /\ \A e \in Devices : devices[e] <= Len(channels)
      BY DEF Core, Types, SessionsExist
    <3>3. \A e \in Devices : devices[e] \in Nat
      BY DEF Core, Types
    <3>4. \A e \in Devices : devices'[e] <= s
      BY <3>1, <3>2, <3>3
    <3> QED BY <3>1, <3>2, <3>4 DEF TableGrows
  <2>2. CASE NotOpened(stack[1])
    BY <2>2, TableStays DEF NotOpened
  <2> QED BY <1>2, <2>1, <2>2
<1>4. result' \in ResultSet
  BY <1>2 DEF Opened, NotOpened, Core, Types, ResultSet
<1>5. Calm
  BY <1>1, <1>3, <1>4 DEF ConnectDeviceTask, Finish, Calm, Core, Types
<1> QED BY <1>1, <1>5, FinishFacts, PopCore DEF Core

LEMMA DisconnectTaskCore == ASSUME Core, DisconnectFromDeviceTask PROVE Core'
<1>1. Pops /\ Finish(Tail(stack)) /\ stack # <<>>
  BY TasksPop DEF Core, Tasks, Pops
<1>2. TableGrows
  <2>1. /\ channels' \in Seq(ChannelSet) /\ Len(channels') = Len(channels)
        /\ devices' \in [Devices -> Nat]
        /\ \A e \in Devices : devices'[e] = 0 \/ devices'[e] = devices[e]
    BY DisconnectsFacts DEF Core
  <2> QED BY <2>1, TableChanges
<1>3. Calm
  BY <1>1, <1>2 DEF DisconnectFromDeviceTask, Finish, Calm, Core, Types, ResultSet
<1> QED BY <1>1, <1>3, FinishFacts, PopCore DEF Core

LEMMA SearchTaskCore == ASSUME Core, GetRFCOMMChannelIDTask PROVE Core'
<1>1. Pops /\ Finish(Tail(stack)) /\ stack # <<>>
  BY TasksPop DEF Core, Tasks, Pops
<1>2. PICK id \in {stack[1].device, "none"} : result' = [result EXCEPT !["sdp"] = id]
  BY <1>1, TopFrame DEF GetRFCOMMChannelIDTask, Core
<1>3. id \in Devices \cup {"none"}
  BY <1>1, <1>2, TopFrame, FrameType DEF Core
<1>4. result' \in ResultSet
  BY <1>2, <1>3 DEF Core, Types, ResultSet
<1>5. Calm
  BY <1>1, <1>4, TableStays DEF GetRFCOMMChannelIDTask, Finish, Calm, Core, Types
<1> QED BY <1>1, <1>5, FinishFacts, PopCore DEF Core
LEMMA NextCases ==
    ASSUME Core, [Next]_vars
    PROVE  \/ \E c \in Callers : CallerSteps(c)
           \/ WorkerStep
           \/ UNCHANGED vars
BY DEF Next, CallerSteps

LEMMA CoreStep == ASSUME Core, [Next]_vars PROVE Core'
<1>1. ASSUME NEW c \in Callers, CallerSteps(c) PROVE Core'
  BY <1>1, AskCore, PostCore, ReturnCore DEF CallerSteps
<1>2. CASE WorkerStep
  BY <1>2, WorkerCases, RunTaskCore, ConnectTaskCore, DisconnectTaskCore, SearchTaskCore,
     SendsCore, EndsCore, DataLocksCore, EnterRunLoopCore, LeaveRunLoopCore,
     WriteCompleteCore, DataArrivesCore, ChannelClosedCore
<1>3. CASE UNCHANGED vars
  BY <1>3 DEF vars, callers, table, Core, Types, SessionsExist, ChunksHaveChannels,
              TasksWait, FramesFit, FrameFits
<1> QED BY <1>1, <1>2, <1>3, NextCases

LEMMA CoreInit == Init => Core
<1> SUFFICES ASSUME Init PROVE Core
  OBVIOUS
<1>1. /\ stack = <<>> /\ tasks = <<>> /\ channels = <<>>
      /\ DOMAIN stack = {} /\ DOMAIN tasks = {} /\ Len(channels) = 0
      /\ stack \in Seq(FrameSet) /\ tasks \in Seq(Callers) /\ channels \in Seq(ChannelSet)
  BY DEF Init
<1>2. /\ pc = [c \in Callers |-> "idle"] /\ call = [c \in Callers |-> NoCall]
      /\ calls = [c \in Callers |-> 0] /\ lock = [op \in LockedOps |-> NoCaller]
      /\ result = [connect |-> "success", write |-> "success", sdp |-> "none"]
      /\ devices_lock = FALSE /\ devices = [d \in Devices |-> 0] /\ completions = 0
  BY DEF Init
<1>3. NoCall \in CallSet
  BY DEF NoCall, CallSet
<1>4. Types
  <2>1. /\ pc \in [Callers -> {"idle", "asks", "waits", "done"}]
        /\ call \in [Callers -> CallSet] /\ calls \in [Callers -> Nat]
        /\ lock \in [LockedOps -> Callers \cup {NoCaller}]
        /\ result \in [connect : {"success", "error"}, write : {"success", "error"},
                       sdp : Devices \cup {"none"}]
        /\ devices_lock \in BOOLEAN /\ devices \in [Devices -> Nat] /\ completions \in Nat
    BY <1>2, <1>3
  <2>2. \A c \in Callers : pc[c] = "idle" /\ calls[c] <= MaxCalls[c]
    BY <1>2, NumbersAssumption
  <2> QED BY <1>1, <2>1, <2>2 DEF Types
<1>5. SessionsExist /\ ChunksHaveChannels /\ TasksWait /\ FramesFit
  BY <1>1, <1>2 DEF SessionsExist, ChunksHaveChannels, TasksWait, FramesFit
<1> QED BY <1>4, <1>5 DEF Core

LEMMA CoreHolds == Spec => []Core
<1>1. Core /\ [Next]_vars => Core'
  BY CoreStep
<1> QED BY CoreInit, <1>1, PTL DEF Spec

-----------------------------------------------------------------------------
(* The locks of the callers.                                               *)

LEMMA LocksStep == ASSUME Core, LocksFit, [Next]_vars PROVE LocksFit'
<1>1. ASSUME NEW c \in Callers, NEW op \in Ops, NEW d \in Devices,
             NEW n \in Lengths \cup {0}, Ask(c, op, d, n)
      PROVE  LocksFit'
  BY <1>1 DEF Ask, Core, Types, LocksFit
<1>2. ASSUME NEW c \in Callers, Post(c)
      PROVE  LocksFit'
  <2>1. /\ pc[c] = "asks" /\ call' = call
        /\ \A e \in Callers : e # c => pc'[e] = pc[e]
    BY <1>2 DEF Post, Core, Types
  <2>2. call[c].op \in Ops
    BY <2>1, CallerType DEF Core
  <2>3. CASE call[c].op = "disconnect"
    BY <1>2, <2>1, <2>3 DEF Post, LocksFit, LockedOps
  <2>4. CASE call[c].op # "disconnect"
    <3>1. /\ call[c].op \in LockedOps /\ lock[call[c].op] = NoCaller
          /\ lock' = [lock EXCEPT ![call[c].op] = c]
          /\ lock \in [LockedOps -> Callers \cup {NoCaller}]
      BY <1>2, <2>2, <2>4 DEF Post, LockedOps, Core, Types
    <3> QED BY <2>1, <3>1, CallersAssumption DEF LocksFit
  <2> QED BY <2>3, <2>4
<1>3. ASSUME NEW c \in Callers, Return(c)
      PROVE  LocksFit'
  <2>1. /\ pc[c] = "done" /\ pc' = [pc EXCEPT ![c] = "idle"]
        /\ call' = [call EXCEPT ![c] = NoCall]
        /\ lock' = [op \in LockedOps |-> IF lock[op] = c THEN NoCaller ELSE lock[op]]
    BY <1>3 DEF Return
  <2>2. /\ \A e \in Callers : e # c => pc'[e] = pc[e] /\ call'[e] = call[e]
        /\ pc'[c] = "idle"
    BY <2>1 DEF Core, Types
  <2> QED BY <2>1, <2>2 DEF LocksFit
<1>4. CASE WorkerStep
  <2>1. /\ UNCHANGED <<call, lock>>
        /\ \A c \in Callers : pc'[c] \in {"waits", "done"} => pc[c] \in {"waits", "done"}
    <3>1. CASE ConnectDeviceTask \/ DisconnectFromDeviceTask \/ GetRFCOMMChannelIDTask \/ Ends
      <4>1. /\ stack # <<>> /\ \E frames : Finish(frames)
        BY <3>1 DEF ConnectDeviceTask, DisconnectFromDeviceTask, GetRFCOMMChannelIDTask,
                    Ends, EndWrite, Top
      <4>2. 1 \in DOMAIN stack /\ FrameFits(stack[1])
        BY <4>1, TopFrame DEF Core, FramesFit
      <4> QED BY <4>1, <4>2, FinishFacts DEF Core, FrameFits
    <3>2. CASE \/ RunTask \/ DataLocks \/ EnterRunLoop \/ LeaveRunLoop \/ WriteComplete
               \/ \E s \in DOMAIN channels : DataArrives(s)
               \/ \E s \in DOMAIN channels : ChannelClosed(s)
               \/ \E f \in FrameSet : Sends(f)
      BY <3>2 DEF RunTask, DataLocks, EnterRunLoop, LeaveRunLoop, WriteComplete,
                  DataArrives, ChannelClosed, Sends, callers
    <3> QED BY <1>4, <3>1, <3>2, WorkerCases
  <2> QED BY <2>1 DEF LocksFit
<1>5. CASE UNCHANGED vars
  BY <1>5 DEF vars, callers, LocksFit
<1> QED BY <1>1, <1>2, <1>3, <1>4, <1>5, NextCases DEF CallerSteps

LEMMA LocksHold == Spec => []LocksFit
<1>1. Init => LocksFit
  BY DEF Init, LocksFit
<1>2. Core /\ LocksFit /\ [Next]_vars => LocksFit'
  BY LocksStep
<1> QED BY <1>1, <1>2, CoreHolds, PTL DEF Spec

-----------------------------------------------------------------------------
(* devicesLock and the nesting of run loops.                               *)

LEMMA PushLoops ==
    ASSUME Core, LoopsNest, NEW f, Pushes(f), ~f.running, ~f.stopped,
           stack # <<>> => stack[1].running,
           UNCHANGED <<devices_lock, completions>>
    PROVE  LoopsNest'
<1>1. /\ stack' # <<>> /\ stack'[1] = f /\ stack \in Seq(FrameSet)
      /\ \A i \in DOMAIN stack' : i = 1 \/ (i - 1 \in DOMAIN stack /\ stack'[i] = stack[i - 1])
      /\ DOMAIN stack \subseteq Nat \ {0} /\ DOMAIN stack' \subseteq Nat \ {0}
      /\ stack # <<>> => Bottom' = Bottom
  BY PushFacts DEF Core, Types
<1>2. \A i \in DOMAIN stack : stack[i].running
  BY <1>1 DEF LoopsNest
<1>3. ASSUME NEW i \in DOMAIN stack'
      PROVE  /\ stack'[i].stopped => stack'[i].running
             /\ i > 1 => stack'[i].running
             /\ stack'[i].running => stack'[i].kind \in TryLockKinds /\ Bottom'.kind = "chunk"
  <2>1. CASE i = 1
    BY <1>1, <2>1
  <2>2. CASE i # 1
    <3>1. i - 1 \in DOMAIN stack /\ stack'[i] = stack[i - 1] /\ stack # <<>>
      BY <1>1, <2>2
    <3> QED BY <1>1, <1>2, <3>1 DEF LoopsNest
  <2> QED BY <2>1, <2>2
<1>4. devices_lock => stack # <<>>
  BY DEF LoopsNest
<1> QED BY <1>1, <1>3, <1>4 DEF LoopsNest

LEMMA PopLoops ==
    ASSUME Core, LoopsNest, Pops, completions' = completions,
           \/ devices_lock = FALSE /\ devices_lock' = FALSE
           \/ devices_lock' = devices_lock /\ stack[1].kind # "chunk"
    PROVE  LoopsNest'
<1>1. /\ stack' \in Seq(FrameSet) /\ DOMAIN stack' \subseteq Nat \ {0}
      /\ Len(stack) \in Nat
      /\ \A i \in DOMAIN stack' :
            /\ i + 1 \in DOMAIN stack /\ Alike(stack'[i], stack[i + 1])
            /\ stack'[i].running = stack[i + 1].running
      /\ Len(stack) > 1 => Bottom'.kind = Bottom.kind
      /\ Len(stack') = Len(stack) - 1
  BY PopFacts DEF Core, Types
<1>2. \A i \in DOMAIN stack' :
         /\ stack'[i].running /\ stack'[i].kind \in TryLockKinds /\ Bottom'.kind = "chunk"
  <2> SUFFICES ASSUME NEW i \in DOMAIN stack'
               PROVE  stack'[i].running /\ stack'[i].kind \in TryLockKinds
                      /\ Bottom'.kind = "chunk"
    OBVIOUS
  <2>1. i + 1 > 1 /\ i + 1 \in DOMAIN stack /\ Len(stack) > 1
    BY <1>1
  <2>2. stack[i + 1].running /\ stack[i + 1].kind \in TryLockKinds /\ Bottom.kind = "chunk"
    BY <2>1 DEF LoopsNest
  <2> QED BY <1>1, <2>1, <2>2 DEF Alike
<1>3. devices_lock' => stack' # <<>> /\ Bottom'.kind = "chunk"
  <2> SUFFICES ASSUME devices_lock'
               PROVE  stack' # <<>> /\ Bottom'.kind = "chunk"
    OBVIOUS
  <2>1. stack # <<>> /\ Bottom.kind = "chunk" /\ stack[1].kind # "chunk"
    BY DEF LoopsNest
  <2>2. Len(stack) > 1
    BY <2>1 DEF Bottom, Core, Types
  <2> QED BY <2>2, <2>1, PopFacts DEF Core
<1> QED BY <1>2, <1>3 DEF LoopsNest

LEMMA OneOrMore == ASSUME NEW n \in Nat, n >= 1 PROVE n = 1 \/ n > 1
OBVIOUS

LEMMA TurnBottom ==
    ASSUME Core, NEW f, Turns(f), f.kind = stack[1].kind, Bottom.kind = "chunk"
    PROVE  Bottom'.kind = "chunk"
<1>1. Len(stack) \in Nat /\ Len(stack) >= 1
  BY TopFrame DEF Core, Turns
<1>2. CASE Len(stack) = 1
  <2>1. Bottom' = f
    BY <1>2, TurnFacts DEF Core
  <2>2. Bottom = stack[1]
    BY <1>2 DEF Bottom
  <2> QED BY <2>1, <2>2
<1>3. CASE Len(stack) > 1
  BY <1>3, TurnFacts DEF Core
<1>4. Len(stack) = 1 \/ Len(stack) > 1
  BY <1>1, OneOrMore, Zenon
<1> QED BY <1>2, <1>3, <1>4, Zenon

LEMMA TurnLoops ==
    ASSUME Core, LoopsNest, NEW f, Turns(f), f.stopped => f.running,
           f.running => f.kind \in TryLockKinds /\ Bottom.kind = "chunk",
           f.kind = stack[1].kind \/ f.kind = "chunk",
           completions' \in {0, 1}, completions' > 0 => devices_lock',
           devices_lock' => Bottom'.kind = "chunk"
    PROVE  LoopsNest'
<1>1. /\ stack' # <<>> /\ stack'[1] = f /\ DOMAIN stack' = DOMAIN stack
      /\ Len(stack) \in Nat \ {0} /\ DOMAIN stack = 1..Len(stack) /\ 1 \in DOMAIN stack
      /\ \A i \in DOMAIN stack : i = 1 \/ stack'[i] = stack[i]
      /\ Len(stack) > 1 => Bottom' = Bottom
      /\ Len(stack) = 1 => Bottom' = f /\ Bottom = stack[1]
  BY TurnFacts, TopFrame DEF Core, Turns, Types, Bottom
<1>2. Bottom.kind = "chunk" => Bottom'.kind = "chunk"
  BY <1>1
<1>3. ASSUME NEW i \in DOMAIN stack'
      PROVE  /\ stack'[i].stopped => stack'[i].running
             /\ i > 1 => stack'[i].running
             /\ stack'[i].running => stack'[i].kind \in TryLockKinds /\ Bottom'.kind = "chunk"
  BY <1>1, <1>2 DEF LoopsNest
<1> QED BY <1>1, <1>3 DEF LoopsNest

LEMMA LoopsStep == ASSUME Core, LoopsNest, [Next]_vars PROVE LoopsNest'
<1>1. ASSUME NEW c \in Callers, CallerSteps(c) PROVE LoopsNest'
  BY <1>1 DEF CallerSteps, Ask, Post, Return, LoopsNest, Bottom
<1>2. CASE WorkerStep
  <2>1. CASE RunTask
    <3>1. /\ Pushes(TaskFrame(Head(tasks)))
          /\ stack # <<>> => stack[1].running
      BY <2>1, RunTaskStack DEF Core
    <3>2. ~TaskFrame(Head(tasks)).running /\ ~TaskFrame(Head(tasks)).stopped
      BY DEF TaskFrame, Frame
    <3> QED BY <2>1, <3>1, <3>2, PushLoops DEF RunTask
  <2>2. CASE ConnectDeviceTask \/ DisconnectFromDeviceTask \/ Ends
    <3>1. /\ Pops /\ completions' = completions
          /\ ~devices_lock /\ devices_lock' = FALSE
      BY <2>2, TasksPop DEF ConnectDeviceTask, DisconnectFromDeviceTask, Ends,
                            EndWrite, Tasks, Core, Types
    <3> QED BY <3>1, PopLoops DEF Core, Types
  <2>3. CASE GetRFCOMMChannelIDTask
    BY <2>3, TasksPop, TopFrame, PopLoops
       DEF GetRFCOMMChannelIDTask, Tasks, Top, Core
  <2>4. CASE DataLocks
    BY <2>4, DataLocksPop, PopLoops DEF DataLocks, Core
  <2>5. ASSUME NEW f \in FrameSet, Sends(f) PROVE LoopsNest'
    <3> DEFINE g == ChunkFrame(f)
    <3>1. Turns(g) /\ devices_lock' = TRUE /\ 1 \in DOMAIN stack
      BY <2>5, SendsBy DEF Sends
    <3>2. ~g.running /\ g.kind = "chunk" /\ g.stopped = f.stopped
      BY <2>5 DEF ChunkFrame, Sends, FrameSet
    <3>3. ~stack[1].running /\ ~stack[1].stopped
      BY <2>5, SendsBy, <3>1 DEF LoopsNest
    <3>4. ~g.stopped
      BY <2>5, <3>2, <3>3 DEF Sends
    <3>5. completions = 0 /\ completions' \in {0, 1}
      BY <2>5 DEF LoopsNest, Sends, Accepted, Refused, ToNil
    <3>6. Bottom'.kind = "chunk"
      <4>1. CASE Len(stack) = 1
        BY <3>1, <3>2, <4>1, TurnFacts DEF Core
      <4>2. CASE Len(stack) > 1
        <5>1. Len(stack) \in DOMAIN stack
          BY <4>2 DEF Core, Types
        <5>2. Bottom.kind = "chunk"
          BY <4>2, <5>1 DEF LoopsNest
        <5> QED BY <3>1, <4>2, <5>2, TurnFacts DEF Core
      <4>3. Len(stack) \in Nat /\ Len(stack) >= 1
        BY <3>1, TopFrame DEF Core
      <4>4. Len(stack) = 1 \/ Len(stack) > 1
        BY <4>3, OneOrMore, Zenon
      <4> QED BY <4>1, <4>2, <4>4, Zenon
    <3> HIDE DEF g
    <3> QED BY <3>1, <3>2, <3>4, <3>5, <3>6, TurnLoops
  <2>6. CASE EnterRunLoop
    <3> DEFINE g == [stack[1] EXCEPT !.running = TRUE]
    <3>1. /\ Turns(g) /\ stack[1].kind \in TryLockKinds /\ devices_lock
          /\ devices_lock' = devices_lock /\ completions' = completions
      BY <2>6, EnterRunLoopStack DEF EnterRunLoop, Core
    <3>2. stack[1] \in FrameSet
      BY <3>1, TopFrame DEF Core, Turns
    <3>3. g.running /\ g.kind = stack[1].kind
      BY <3>2 DEF FrameSet
    <3>4. Bottom.kind = "chunk"
      BY <3>1 DEF LoopsNest
    <3>5. Bottom'.kind = "chunk"
      BY <3>1, <3>3, <3>4, TurnBottom
    <3> HIDE DEF g
    <3> QED BY <3>1, <3>3, <3>4, <3>5, TurnLoops DEF LoopsNest
  <2>7. CASE LeaveRunLoop
    <3> DEFINE g == [stack[1] EXCEPT !.running = FALSE, !.stopped = FALSE]
    <3>1. /\ Turns(g) /\ devices_lock' = devices_lock /\ completions' = completions
      BY <2>7, LeaveRunLoopStack DEF LeaveRunLoop, Core
    <3>2. stack[1] \in FrameSet
      BY <3>1, TopFrame DEF Core, Turns
    <3>3. ~g.running /\ ~g.stopped /\ g.kind = stack[1].kind
      BY <3>2 DEF FrameSet
    <3>4. Bottom.kind = "chunk" => Bottom'.kind = "chunk"
      BY <3>1, <3>3, TurnBottom
    <3> HIDE DEF g
    <3> QED BY <3>1, <3>3, <3>4, TurnLoops DEF LoopsNest
  <2>8. CASE WriteComplete
    <3> DEFINE g == [stack[1] EXCEPT !.stopped = TRUE]
    <3>1. devices_lock' = FALSE /\ completions' = 0
      BY <2>8 DEF WriteComplete, LoopsNest
    <3>2. CASE stack = <<>> /\ stack' = stack
      BY <3>1, <3>2 DEF LoopsNest
    <3>3. CASE Turns(g) /\ stack[1].running
      <4>1. stack[1] \in FrameSet /\ 1 \in DOMAIN stack
        BY <3>3, TopFrame DEF Core, Turns
      <4>2. g.running /\ g.kind = stack[1].kind
        BY <3>3, <4>1 DEF FrameSet
      <4>3. g.kind \in TryLockKinds /\ Bottom.kind = "chunk"
        BY <3>3, <4>1, <4>2 DEF LoopsNest
      <4> HIDE DEF g
      <4> QED BY <3>1, <3>3, <4>2, <4>3, TurnLoops
    <3> QED BY <2>8, <3>2, <3>3, WriteCompleteStack DEF Core
  <2>9. ASSUME NEW s \in DOMAIN channels, DataArrives(s) PROVE LoopsNest'
    <3>1. /\ Pushes(PacketFrame(s))
          /\ stack # <<>> => stack[1].running
      BY <2>9, DataArrivesStack DEF Core
    <3>2. ~PacketFrame(s).running /\ ~PacketFrame(s).stopped
      BY DEF PacketFrame, Frame
    <3> QED BY <2>9, <3>1, <3>2, PushLoops DEF DataArrives
  <2>10. ASSUME NEW s \in DOMAIN channels, ChannelClosed(s) PROVE LoopsNest'
    <3>1. /\ Pushes(ClosedFrame(s))
          /\ stack # <<>> => stack[1].running
      BY <2>10, ChannelClosedStack DEF Core
    <3>2. ~ClosedFrame(s).running /\ ~ClosedFrame(s).stopped
      BY DEF ClosedFrame, Frame
    <3> QED BY <2>10, <3>1, <3>2, PushLoops DEF ChannelClosed
  <2> QED BY <1>2, <2>1, <2>2, <2>3, <2>4, <2>5, <2>6, <2>7, <2>8, <2>9, <2>10, WorkerCases
<1>3. CASE UNCHANGED vars
  BY <1>3 DEF vars, LoopsNest, Bottom
<1> QED BY <1>1, <1>2, <1>3, NextCases

LEMMA LoopsHold == Spec => []LoopsNest
<1>1. Init => LoopsNest
  BY DEF Init, LoopsNest
<1>2. Core /\ LoopsNest /\ [Next]_vars => LoopsNest'
  BY LoopsStep
<1> QED BY <1>1, <1>2, CoreHolds, PTL DEF Spec

-----------------------------------------------------------------------------
(* Every variable of the worker keeps its type, a caller's task waits only *)
(* while its caller does, and all frames but the innermost are inside a    *)
(* run loop, for any callers and devices.                                  *)
THEOREM TypeCorrect == Spec => []TypeOK
<1>1. Core /\ LoopsNest => TypeOK
  <2> SUFFICES ASSUME Core, LoopsNest PROVE TypeOK
    OBVIOUS
  <2>1. \A c \in Callers : calls[c] \in 0..MaxCalls[c]
    BY CallerType DEF Core
  <2>2. /\ result["connect"] \in {"success", "error"}
        /\ result["write"] \in {"success", "error"}
        /\ result["sdp"] \in Devices \cup {"none"}
    BY DEF Core, Types
  <2>3. Len(channels) \in Nat
    BY DEF Core, Types
  <2>4. \A i \in DOMAIN stack :
          /\ stack[i].kind \in Kinds
          /\ stack[i].by \in Callers \cup {NoCaller}
          /\ stack[i].session \in 0..Len(channels)
          /\ stack[i].left \in 0..UInt16Size - 1
    BY <2>3, FrameType DEF Core, SessionsExist
  <2>5. devices \in [Devices -> 0..Len(channels)]
    BY <2>3 DEF Core, Types, SessionsExist
  <2>6. \A i \in DOMAIN stack :
          (stack[i].stopped => stack[i].running) /\ (i > 1 => stack[i].running)
    BY DEF LoopsNest
  <2>7. \A i \in DOMAIN tasks : pc[tasks[i]] = "waits"
    BY DEF Core, TasksWait
  <2> QED BY <2>1, <2>2, <2>4, <2>5, <2>6, <2>7 DEF TypeOK, Core, Types
<1> QED BY <1>1, CoreHolds, LoopsHold, PTL

(* While a chunk is under way its write holds devicesLock in the outermost *)
(* frame and no other chunk is under way: rfcommChannelWriteComplete       *)
(* unlocks what its own write locked, for any number of writers.           *)
THEOREM CompletionsOwnTheLock == Spec => []CompletionOwnsLock
<1>1. LoopsNest => CompletionOwnsLock
  BY DEF LoopsNest, CompletionOwnsLock, Bottom
<1> QED BY <1>1, LoopsHold, PTL
-----------------------------------------------------------------------------
(* Who opened a channel, and whose answer a result is.                     *)

KeepsChannels ==
    /\ DOMAIN channels' = DOMAIN channels
    /\ \A s \in DOMAIN channels : SameChannel(s)

LEMMA UnchangedChannels == ASSUME channels' = channels PROVE KeepsChannels
BY DEF KeepsChannels, SameChannel

LEMMA OneChangedKeeps ==
    ASSUME NEW s \in DOMAIN channels, DOMAIN channels' = DOMAIN channels, SameChannel(s),
           \A t \in DOMAIN channels : t # s => channels'[t] = channels[t]
    PROVE  KeepsChannels
BY DEF KeepsChannels, SameChannel

LEMMA DataLocksKeeps == ASSUME Core, DataLocks PROVE KeepsChannels
<1>1. stack # <<>> /\ Head(stack) = stack[1]
  BY DataLocksPop, TopFrame DEF Core, Pops
<1>2. CASE devices[stack[1].device] = 0
  BY <1>1, <1>2, UnchangedChannels DEF DataLocks
<1>3. CASE devices[stack[1].device] # 0
  BY <1>3, DataLocksFacts, OneChangedKeeps DEF Core
<1> QED BY <1>2, <1>3

LEMMA SendsKeeps == ASSUME Core, NEW f \in FrameSet, Sends(f) PROVE KeepsChannels
<1>1. CASE Accepted(f, ChunkSize(f))
  BY <1>1, SendsBy, AcceptedFacts, OneChangedKeeps DEF Core, Sends
<1>2. CASE Refused(f) \/ ToNil(f)
  BY <1>2, UnchangedChannels DEF Refused, ToNil
<1> QED BY <1>1, <1>2 DEF Sends

(* Only a connect task touches the ids of channels or the answers to       *)
(* connect, and only a search the answer to a search.                      *)
LEMMA QuietSteps ==
    ASSUME Core, WorkerStep, ~ConnectDeviceTask
    PROVE  KeepsChannels /\ result'.connect = result.connect
<1>1. CASE RunTask \/ EnterRunLoop \/ LeaveRunLoop \/ WriteComplete
           \/ \E s \in DOMAIN channels : ChannelClosed(s)
  BY <1>1, UnchangedChannels
     DEF RunTask, EnterRunLoop, LeaveRunLoop, WriteComplete, ChannelClosed, table
<1>2. CASE DisconnectFromDeviceTask
  BY <1>2, DisconnectsFacts DEF Core, KeepsChannels, DisconnectFromDeviceTask
<1>3. CASE GetRFCOMMChannelIDTask
  BY <1>3, UnchangedChannels DEF GetRFCOMMChannelIDTask, table, Core, Types
<1>4. ASSUME NEW f \in FrameSet, Sends(f)
      PROVE  KeepsChannels /\ result'.connect = result.connect
  BY <1>4, SendsKeeps DEF Sends, Accepted, Refused, ToNil, Core, Types
<1>5. CASE Ends
  BY <1>5, UnchangedChannels DEF Ends, EndWrite, table, Core, Types
<1>6. CASE DataLocks
  BY <1>6, DataLocksKeeps DEF DataLocks
<1>7. ASSUME NEW s \in DOMAIN channels, DataArrives(s)
      PROVE  KeepsChannels /\ result'.connect = result.connect
  BY <1>7, DataArrivesFacts, OneChangedKeeps DEF Core, DataArrives
<1> QED BY <1>1, <1>2, <1>3, <1>4, <1>5, <1>6, <1>7, WorkerCases

LEMMA SearchQuiet ==
    ASSUME Core, WorkerStep, ~GetRFCOMMChannelIDTask
    PROVE  result'.sdp = result.sdp
<1>1. CASE ConnectDeviceTask
  BY <1>1 DEF ConnectDeviceTask, Opened, NotOpened, Core, Types
<1>2. CASE Ends
  BY <1>2 DEF Ends, Core, Types
<1>3. ASSUME NEW f \in FrameSet, Sends(f)
      PROVE  result'.sdp = result.sdp
  BY <1>3 DEF Sends, Accepted, Refused, ToNil, Core, Types
<1>4. CASE RunTask \/ EnterRunLoop \/ LeaveRunLoop \/ WriteComplete
           \/ DisconnectFromDeviceTask \/ DataLocks
           \/ (\E s \in DOMAIN channels : ChannelClosed(s))
           \/ (\E s \in DOMAIN channels : DataArrives(s))
  BY <1>4 DEF RunTask, EnterRunLoop, LeaveRunLoop, WriteComplete, ChannelClosed,
              DisconnectFromDeviceTask, DataLocks, DataArrives
<1> QED BY <1>1, <1>2, <1>3, <1>4, WorkerCases

(* What a step of the worker does to the callers.                          *)
LEMMA WorkerCallers ==
    ASSUME Core, WorkerStep
    PROVE  /\ UNCHANGED <<call, calls, lock>>
           /\ \A c \in Callers :
                \/ pc'[c] = pc[c]
                \/ /\ pc[c] = "waits" /\ pc'[c] = "done"
                   /\ 1 \in DOMAIN stack /\ c = stack[1].by
                   /\ \/ ConnectDeviceTask \/ DisconnectFromDeviceTask
                      \/ GetRFCOMMChannelIDTask \/ Ends
<1>1. CASE ConnectDeviceTask \/ DisconnectFromDeviceTask \/ GetRFCOMMChannelIDTask \/ Ends
  <2>1. /\ stack # <<>> /\ \E frames : Finish(frames)
    BY <1>1 DEF ConnectDeviceTask, DisconnectFromDeviceTask, GetRFCOMMChannelIDTask,
                Ends, EndWrite, Top
  <2>2. 1 \in DOMAIN stack /\ FrameFits(stack[1])
    BY <2>1, TopFrame DEF Core, FramesFit
  <2> QED BY <1>1, <2>1, <2>2, FinishFacts DEF Core, FrameFits
<1>2. CASE \/ RunTask \/ DataLocks \/ EnterRunLoop \/ LeaveRunLoop \/ WriteComplete
           \/ \E s \in DOMAIN channels : DataArrives(s)
           \/ \E s \in DOMAIN channels : ChannelClosed(s)
           \/ \E f \in FrameSet : Sends(f)
  BY <1>2 DEF RunTask, DataLocks, EnterRunLoop, LeaveRunLoop, WriteComplete,
              DataArrives, ChannelClosed, Sends, callers
<1> QED BY <1>1, <1>2, WorkerCases

(* connectDeviceTask, seen from the caller it ends.                        *)
LEMMA ConnectEnds ==
    ASSUME Core, ConnectDeviceTask
    PROVE  /\ 1 \in DOMAIN stack /\ stack[1].by \in Callers
           /\ call[stack[1].by].op = "connect" /\ pc[stack[1].by] = "waits"
           /\ pc'[stack[1].by] = "done"
           /\ \/ Connects /\ result'.connect = "success"
              \/ channels' = channels /\ devices' = devices /\ result'.connect = "error"
<1>1. Pops /\ Finish(Tail(stack)) /\ stack # <<>>
  BY TasksPop DEF Core, Tasks, Pops
<1>2. 1 \in DOMAIN stack /\ stack[1].kind = "connect" /\ Head(stack) = stack[1]
  BY <1>1, TopFrame DEF ConnectDeviceTask, Top, Core
<1>3. /\ stack[1].by \in Callers /\ call[stack[1].by].op = "connect"
      /\ pc[stack[1].by] = "waits"
  BY <1>2 DEF Core, FramesFit, FrameFits
<1>4. \/ Connects /\ result'.connect = "success"
      \/ channels' = channels /\ devices' = devices /\ result'.connect = "error"
  BY <1>2 DEF ConnectDeviceTask, Connects, Opened, NotOpened, table, Core, Types
<1> QED BY <1>1, <1>2, <1>3, <1>4, FinishFacts DEF Core

LEMMA ConnectsOwned ==
    ASSUME Core, ChannelsOwned, ConnectDeviceTask, Connects
    PROVE  ChannelsOwned'
<1> DEFINE c == stack[1].by
           n == Len(channels) + 1
<1>1. /\ n \in DOMAIN channels' /\ n \notin DOMAIN channels
      /\ DOMAIN channels' = DOMAIN channels \cup {n}
      /\ \A t \in DOMAIN channels : channels'[t] = channels[t]
      /\ channels'[n].by = Id(c)
  <2>1. channels'[n] = Channel(stack[1].device, Id(c))
    BY ConnectsFacts DEF Core
  <2> QED BY <2>1, ConnectsFacts DEF Core, Channel
<1>2. c \in Callers /\ pc'[c] = "done" /\ calls' = calls
  BY ConnectEnds DEF ConnectDeviceTask, Finish
<1>3. \A e \in Callers : pc'[e] \in {"asks", "waits"} => pc[e] \in {"asks", "waits"} /\ e # c
  BY <1>2, WorkerCallers DEF WorkerStep, Frames, Tasks
<1>4. \A s \in DOMAIN channels' : channels'[s].by[2] <= calls'[channels'[s].by[1]]
  BY <1>1, <1>2, CallerType DEF ChannelsOwned, Id, Core
<1>5. \A e \in Callers : pc'[e] \in {"asks", "waits"} =>
         \A s \in DOMAIN channels' : channels'[s].by # <<e, calls'[e]>>
  BY <1>1, <1>2, <1>3 DEF ChannelsOwned, Id
<1> QED BY <1>4, <1>5 DEF ChannelsOwned, Id

LEMMA OwnedStep == ASSUME Core, ChannelsOwned, [Next]_vars PROVE ChannelsOwned'
<1>1. ASSUME NEW c \in Callers, NEW op \in Ops, NEW d \in Devices,
             NEW n \in Lengths \cup {0}, Ask(c, op, d, n)
      PROVE  ChannelsOwned'
  <2>1. /\ channels' = channels /\ calls' = [calls EXCEPT ![c] = calls[c] + 1]
        /\ pc' = [pc EXCEPT ![c] = "asks"] /\ pc[c] = "idle"
    BY <1>1 DEF Ask, table
  <2>2. /\ \A e \in Callers : e # c => pc'[e] = pc[e] /\ calls'[e] = calls[e]
        /\ calls'[c] = calls[c] + 1
    BY <2>1 DEF Core, Types
  <2>3. \A s \in DOMAIN channels :
           /\ channels[s].by[1] \in Callers /\ channels[s].by[2] \in Nat
           /\ channels[s].by = <<channels[s].by[1], channels[s].by[2]>>
    BY ChannelType DEF Core
  <2>4. \A e \in Callers : calls[e] \in Nat
    BY CallerType DEF Core
  <2>5. \A s \in DOMAIN channels' : channels'[s].by[2] <= calls'[channels'[s].by[1]]
    BY <2>1, <2>2, <2>3, <2>4 DEF ChannelsOwned
  <2>6. \A e \in Callers : pc'[e] \in {"asks", "waits"} =>
           \A s \in DOMAIN channels : channels[s].by # <<e, calls'[e]>>
    <3> SUFFICES ASSUME NEW e \in Callers, pc'[e] \in {"asks", "waits"},
                        NEW s \in DOMAIN channels
                 PROVE  channels[s].by # <<e, calls'[e]>>
      OBVIOUS
    <3>1. CASE e = c
      <4>1. channels[s].by[2] <= calls[channels[s].by[1]]
        BY DEF ChannelsOwned
      <4> QED BY <3>1, <4>1, <2>2, <2>3, <2>4
    <3>2. CASE e # c
      BY <3>2, <2>2 DEF ChannelsOwned, Id
    <3> QED BY <3>1, <3>2
  <2> QED BY <2>1, <2>5, <2>6 DEF ChannelsOwned, Id
<1>2. ASSUME NEW c \in Callers, Post(c) \/ Return(c)
      PROVE  ChannelsOwned'
  <2>1. /\ channels' = channels /\ calls' = calls
        /\ \A e \in Callers : pc'[e] \in {"asks", "waits"} => pc[e] \in {"asks", "waits"}
    BY <1>2 DEF Post, Return, table, Core, Types
  <2> QED BY <2>1 DEF ChannelsOwned, Id
<1>3. CASE WorkerStep /\ ~ConnectDeviceTask
  <2>1. /\ KeepsChannels /\ calls' = calls
        /\ \A e \in Callers : pc'[e] \in {"asks", "waits"} => pc[e] \in {"asks", "waits"}
    BY <1>3, QuietSteps, WorkerCallers
  <2> QED BY <2>1 DEF ChannelsOwned, Id, KeepsChannels, SameChannel
<1>4. CASE ConnectDeviceTask
  <2>1. CASE channels' = channels
    <3>1. /\ calls' = calls
          /\ \A e \in Callers : pc'[e] \in {"asks", "waits"} => pc[e] \in {"asks", "waits"}
      BY <1>4, WorkerCallers DEF WorkerStep, Frames, Tasks
    <3> QED BY <2>1, <3>1 DEF ChannelsOwned, Id
  <2> QED BY <1>4, <2>1, ConnectEnds, ConnectsOwned
<1>5. CASE UNCHANGED vars
  BY <1>5 DEF vars, callers, table, ChannelsOwned, Id
<1> QED BY <1>1, <1>2, <1>3, <1>4, <1>5, NextCases DEF CallerSteps

LEMMA OwnersHold == Spec => []ChannelsOwned
<1>1. Init => ChannelsOwned
  BY DEF Init, ChannelsOwned
<1>2. Core /\ ChannelsOwned /\ [Next]_vars => ChannelsOwned'
  BY OwnedStep
<1> QED BY <1>1, <1>2, CoreHolds, PTL DEF Spec

Opens(c) == \E s \in DOMAIN channels : channels[s].by = Id(c)

ConnectAnswered(c) == result.connect = "success" <=> Opens(c)

SearchAnswered(c) == result.sdp \in {call[c].device, "none"}

Answers ==
    \A c \in Callers : pc[c] = "done" =>
        /\ call[c].op = "connect" => ConnectAnswered(c)
        /\ call[c].op = "sdp" => SearchAnswered(c)

LEMMA AnswersStep ==
    ASSUME Core, LocksFit, ChannelsOwned, Answers, [Next]_vars
    PROVE  Answers'
<1>1. ASSUME NEW c \in Callers, CallerSteps(c)
      PROVE  Answers'
  <2>1. /\ channels' = channels /\ result' = result
        /\ \A e \in Callers : pc'[e] = "done" =>
              pc[e] = "done" /\ call'[e] = call[e] /\ calls'[e] = calls[e]
    <3>1. CASE \E op \in Ops, d \in Devices, n \in Lengths \cup {0} : Ask(c, op, d, n)
      BY <3>1 DEF Ask, table, Core, Types
    <3>2. CASE Post(c) \/ Return(c)
      BY <3>2 DEF Post, Return, table, Core, Types
    <3> QED BY <1>1, <3>1, <3>2 DEF CallerSteps
  <2> QED BY <2>1 DEF Answers, ConnectAnswered, SearchAnswered, Opens, Id
<1>2. CASE WorkerStep
  <2> SUFFICES ASSUME NEW c \in Callers, pc'[c] = "done"
               PROVE  /\ call[c].op = "connect" => ConnectAnswered(c)'
                      /\ call[c].op = "sdp" => SearchAnswered(c)'
    BY <1>2, WorkerCallers DEF Answers
  <2>1. call' = call /\ calls' = calls
    BY <1>2, WorkerCallers
  <2>2. ASSUME call[c].op = "connect"
        PROVE  ConnectAnswered(c)'
    <3>1. CASE ~ConnectDeviceTask
      <4>1. KeepsChannels /\ result'.connect = result.connect
        BY <1>2, <3>1, QuietSteps
      <4>2. pc[c] = "done"
        <5> SUFFICES ASSUME pc[c] # "done" PROVE FALSE
          OBVIOUS
        <5>1. 1 \in DOMAIN stack /\ c = stack[1].by
              /\ (DisconnectFromDeviceTask \/ GetRFCOMMChannelIDTask \/ Ends)
          BY <1>2, <3>1, WorkerCallers
        <5>2. stack[1].kind \in {"disconnect", "sdp", "write", "chunk"}
          BY <5>1, TopFrame DEF DisconnectFromDeviceTask, GetRFCOMMChannelIDTask, Ends, Top, Core
        <5>3. FrameFits(stack[1]) /\ c # NoCaller
          BY <5>1, CallersAssumption DEF Core, FramesFit
        <5> QED BY <2>2, <5>1, <5>2, <5>3 DEF FrameFits
      <4> QED BY <2>1, <2>2, <4>1, <4>2
              DEF Answers, ConnectAnswered, Opens, Id, KeepsChannels, SameChannel
    <3>2. CASE ConnectDeviceTask
      <4> DEFINE e == stack[1].by
      <4>1. /\ 1 \in DOMAIN stack /\ e \in Callers
            /\ call[e].op = "connect" /\ pc[e] = "waits"
            /\ \/ Connects /\ result'.connect = "success"
               \/ channels' = channels /\ result'.connect = "error"
        BY <3>2, ConnectEnds
      <4>2. c = e
        <5>1. lock["connect"] = e
          BY <4>1 DEF LocksFit, LockedOps, Ops
        <5>2. pc[c] \in {"waits", "done"}
          BY <1>2, WorkerCallers
        <5>3. lock["connect"] = c
          BY <2>2, <5>2 DEF LocksFit, LockedOps, Ops
        <5> QED BY <5>1, <5>3
      <4>3. CASE Connects /\ result'.connect = "success"
        <5> DEFINE n == Len(channels) + 1
        <5>1. n \in DOMAIN channels' /\ channels'[n] = Channel(stack[1].device, Id(c))
          BY <4>2, <4>3, ConnectsFacts DEF Core
        <5>2. channels'[n].by = <<c, calls'[c]>>
          BY <2>1, <5>1 DEF Channel, Id
        <5> QED BY <4>3, <5>1, <5>2 DEF ConnectAnswered, Opens, Id
      <4>4. CASE channels' = channels /\ result'.connect = "error"
        BY <2>1, <4>1, <4>2, <4>4 DEF ConnectAnswered, Opens, Id, ChannelsOwned
      <4> QED BY <4>1, <4>3, <4>4
    <3> QED BY <3>1, <3>2
  <2>3. ASSUME call[c].op = "sdp"
        PROVE  SearchAnswered(c)'
    <3>1. CASE ~GetRFCOMMChannelIDTask
      <4>1. result'.sdp = result.sdp
        BY <1>2, <3>1, SearchQuiet
      <4>2. pc[c] = "done"
        <5> SUFFICES ASSUME pc[c] # "done" PROVE FALSE
          OBVIOUS
        <5>1. 1 \in DOMAIN stack /\ c = stack[1].by
              /\ (DisconnectFromDeviceTask \/ ConnectDeviceTask \/ Ends)
          BY <1>2, <3>1, WorkerCallers
        <5>2. stack[1].kind \in {"disconnect", "connect", "write", "chunk"}
          BY <5>1, TopFrame DEF DisconnectFromDeviceTask, ConnectDeviceTask, Ends, Top, Core
        <5>3. FrameFits(stack[1]) /\ c # NoCaller
          BY <5>1, CallersAssumption DEF Core, FramesFit
        <5> QED BY <2>3, <5>1, <5>2, <5>3 DEF FrameFits
      <4> QED BY <2>1, <2>3, <4>1, <4>2 DEF Answers, SearchAnswered
    <3>2. CASE GetRFCOMMChannelIDTask
      <4> DEFINE e == stack[1].by
      <4>1. 1 \in DOMAIN stack /\ stack[1].kind = "sdp" /\ Head(stack) = stack[1]
        BY <3>2, TopFrame DEF GetRFCOMMChannelIDTask, Top, Core
      <4>2. /\ e \in Callers /\ call[e].op = "sdp" /\ pc[e] = "waits"
            /\ call[e].device = stack[1].device
        BY <4>1 DEF Core, FramesFit, FrameFits
      <4>3. c = e
        <5>1. lock["sdp"] = e
          BY <4>2 DEF LocksFit, LockedOps, Ops
        <5>2. pc[c] \in {"waits", "done"}
          BY <1>2, WorkerCallers
        <5>3. lock["sdp"] = c
          BY <2>3, <5>2 DEF LocksFit, LockedOps, Ops
        <5> QED BY <5>1, <5>3
      <4>4. result'.sdp \in {stack[1].device, "none"}
        BY <3>2, <4>1 DEF GetRFCOMMChannelIDTask, Core, Types
      <4> QED BY <2>1, <4>2, <4>3, <4>4 DEF SearchAnswered
    <3> QED BY <3>1, <3>2
  <2> QED BY <2>2, <2>3
<1>3. CASE UNCHANGED vars
  BY <1>3 DEF vars, callers, table, Answers, ConnectAnswered, SearchAnswered, Opens, Id
<1> QED BY <1>1, <1>2, <1>3, NextCases

(* The answer a caller reads is the one to its own call: the result of     *)
(* connectDevice says whether that connectDevice opened a channel, and     *)
(* lastChannelID speaks of the device that getRFCOMMChannelID asked for,   *)
(* however many threads call at once.                                      *)
THEOREM AnswersAreOwn == Spec => []ResultsAreOwn
<1>1. Init => Answers
  BY DEF Init, Answers
<1>2. Core /\ LocksFit /\ ChannelsOwned /\ Answers /\ [Next]_vars => Answers'
  BY AnswersStep
<1>3. Answers => ResultsAreOwn
  BY DEF Answers, ResultsAreOwn, ConnectAnswered, SearchAnswered, Opens
<1> QED BY <1>1, <1>2, <1>3, CoreHolds, LocksHold, OwnersHold, PTL DEF Spec
=============================================================================
