-------------------------- MODULE BluetoothWorker --------------------------
(***************************************************************************)
(* The macOS worker of src/osx/BluetoothWorker.mm: threads that call       *)
(* connect, disconnect, write and SDP search hand a task to the one worker *)
(* thread and wait for it; IOBluetooth calls the delegate back on the run  *)
(* loop of the same thread.                                                *)
(*                                                                         *)
(* A task or callback that finds devicesLock taken may call CFRunLoopRun   *)
(* and wait inside it, so the worker's state is a stack of frames, the     *)
(* innermost first.  A frame is `running' while it is inside CFRunLoopRun, *)
(* where further tasks and callbacks are delivered; CFRunLoopStop marks    *)
(* the innermost loop `stopped', and it returns once what it is            *)
(* delivering is done.  IOBluetooth is external: it may refuse to open a   *)
(* channel or to take a chunk, and the peer may close the channel, at any  *)
(* time or only while no write is under way, as Faults allows.             *)
(***************************************************************************)
EXTENDS Integers, Sequences, FiniteSets

CONSTANTS
    Callers,        \* threads of the program that use the library
    NoCaller,       \* a free lock; the frame of a callback
    Devices,        \* addresses
    OpsOf,          \* what each caller may call
    Lengths,        \* lengths passed to writeAsync
    UInt16Size,     \* 2^16
    Mtu,            \* [channel getMTU]
    Faults,         \* what may fail: see FaultKinds
    MaxCalls,       \* calls each caller makes at most (a bound)
    MaxPackets      \* packets a channel delivers at most (a bound)

Ops        == {"connect", "disconnect", "write", "sdp"}
LockedOps  == Ops \ {"disconnect"}
FaultKinds == {"connect_fails", "write_refused", "remote_closes",
               "closes_between_writes"}

ASSUME CallersAssumption ==
    /\ NoCaller \notin Callers
    /\ OpsOf \in [Callers -> SUBSET Ops]

ASSUME NumbersAssumption ==
    /\ Lengths \subseteq Nat \ {0}
    /\ UInt16Size \in Nat \ {0} /\ Mtu \in Nat \ {0}
    /\ MaxCalls \in [Callers -> Nat] /\ MaxPackets \in Nat
    /\ Faults \subseteq FaultKinds

VARIABLES
    pc, call, calls,    \* each caller: place in its call, the call, how many
    lock,               \* connectLock, writeLock, sdpLock
    result,             \* connectResult, writeResult, lastChannelID
    tasks,              \* callers whose performSelector is still to run
    stack,              \* the worker's frames, innermost first
    devices_lock,       \* devicesLock is taken
    devices,            \* address -> its entry in channels, 0 for none
    channels,           \* every channel ever opened, with what it carried
    completions         \* accepted chunks whose WriteComplete is to come

callers == <<pc, call, calls, lock, tasks>>
table   == <<devices, channels>>
vars    == <<callers, result, stack, devices_lock, table, completions>>

-----------------------------------------------------------------------------
NoCall    == [op |-> "none", device |-> "none", length |-> 0]
Id(c)     == <<c, calls[c]>>
Length(c) == call[c].length % UInt16Size

Frame(kind, by, device) ==
    [kind |-> kind, by |-> by, device |-> device, session |-> 0,
     left |-> 0, packet |-> 0, running |-> FALSE, stopped |-> FALSE]

Channel(device, by) ==
    [device |-> device, by |-> by, open |-> TRUE,
     sent |-> <<>>, arrived |-> 0, received |-> <<>>]

Init ==
    /\ pc = [c \in Callers |-> "idle"]
    /\ call = [c \in Callers |-> NoCall]
    /\ calls = [c \in Callers |-> 0]
    /\ lock = [op \in LockedOps |-> NoCaller]
    /\ result = [connect |-> "success", write |-> "success", sdp |-> "none"]
    /\ tasks = <<>>
    /\ stack = <<>>
    /\ devices_lock = FALSE
    /\ devices = [d \in Devices |-> 0]
    /\ channels = <<>>
    /\ completions = 0

-----------------------------------------------------------------------------
(* The callers.                                                            *)

Ask(c, op, d, n) ==
    /\ pc[c] = "idle" /\ calls[c] < MaxCalls[c] /\ op \in OpsOf[c]
    /\ n # 0 <=> op = "write"
    /\ pc' = [pc EXCEPT ![c] = "asks"]
    /\ call' = [call EXCEPT ![c] = [op |-> op, device |-> d, length |-> n]]
    /\ calls' = [calls EXCEPT ![c] = @ + 1]
    /\ UNCHANGED <<lock, tasks, result, stack, devices_lock, table, completions>>

(* Faulty variant: no connectLock, writeLock or sdpLock.                   *)
PostUnlocked(c) ==
    /\ pc[c] = "asks"
    /\ pc' = [pc EXCEPT ![c] = "waits"]
    /\ tasks' = Append(tasks, c)
    /\ UNCHANGED <<call, calls, lock, result, stack, devices_lock, table, completions>>

Post(c) ==
    /\ pc[c] = "asks"
    /\ IF call[c].op = "disconnect"
       THEN UNCHANGED lock
       ELSE /\ lock[call[c].op] = NoCaller
            /\ lock' = [lock EXCEPT ![call[c].op] = c]
    /\ pc' = [pc EXCEPT ![c] = "waits"]
    /\ tasks' = Append(tasks, c)
    /\ UNCHANGED <<call, calls, result, stack, devices_lock, table, completions>>

Return(c) ==
    /\ pc[c] = "done"
    /\ pc' = [pc EXCEPT ![c] = "idle"]
    /\ call' = [call EXCEPT ![c] = NoCall]
    /\ lock' = [op \in LockedOps |-> IF lock[op] = c THEN NoCaller ELSE lock[op]]
    /\ UNCHANGED <<calls, tasks, result, stack, devices_lock, table, completions>>

-----------------------------------------------------------------------------
(* The worker's run loops.  Frames of TryLockKinds wait for devicesLock in *)
(* a loop of tryLock and CFRunLoopRun, connect and disconnect in [lock].   *)

TryLockKinds == {"write", "chunk", "data"}

Serving   == stack # <<>> => Head(stack).running
Top(kind) == stack # <<>> /\ Head(stack).kind = kind /\ ~Head(stack).running

(* CFRunLoopStop; the worker's own loop, below all frames, starts again.   *)
StopLoop(frames) ==
    IF frames = <<>> THEN frames ELSE [frames EXCEPT ![1].stopped = TRUE]

RunTask ==
    /\ Serving /\ tasks # <<>>
    /\ LET c == Head(tasks) IN
       stack' = <<[Frame(call[c].op, c, call[c].device)
                   EXCEPT !.left = Length(c)]>> \o stack
    /\ tasks' = Tail(tasks)
    /\ UNCHANGED <<pc, call, calls, lock, result, devices_lock, table, completions>>

(* Faulty variant: a data callback that finds the lock taken gives up.     *)
EnterRunLoopOrDrop ==
    /\ \E kind \in TryLockKinds : Top(kind)
    /\ devices_lock
    /\ stack' = IF Head(stack).kind = "data" THEN StopLoop(Tail(stack))
                ELSE [stack EXCEPT ![1].running = TRUE]
    /\ UNCHANGED <<callers, result, devices_lock, table, completions>>

EnterRunLoop ==
    /\ \E kind \in TryLockKinds : Top(kind)
    /\ devices_lock
    /\ stack' = [stack EXCEPT ![1].running = TRUE]
    /\ UNCHANGED <<callers, result, devices_lock, table, completions>>

(* Faulty variant: the stop is not used up by the loop it ends.            *)
LeaveRunLoopStopped ==
    /\ stack # <<>> /\ Head(stack).running /\ Head(stack).stopped
    /\ stack' = [stack EXCEPT ![1].running = FALSE]
    /\ UNCHANGED <<callers, result, devices_lock, table, completions>>

LeaveRunLoop ==
    /\ stack # <<>> /\ Head(stack).running /\ Head(stack).stopped
    /\ stack' = [stack EXCEPT ![1].running = FALSE, ![1].stopped = FALSE]
    /\ UNCHANGED <<callers, result, devices_lock, table, completions>>

(* The method returns; performSelector's caller, if any, goes on.          *)
Finish(frames) ==
    /\ stack' = frames
    /\ pc' = [c \in Callers |-> IF c = Head(stack).by THEN "done" ELSE pc[c]]
    /\ UNCHANGED <<call, calls, lock, tasks>>

-----------------------------------------------------------------------------
(* connectDeviceTask, disconnectFromDeviceTask, getRFCOMMChannelIDTask.    *)
(* Between lock and unlock the first two deliver nothing, so the lock is   *)
(* free again when the step ends.                                          *)

Opened(f) ==
    /\ devices[f.device] = 0
    /\ channels' = Append(channels, Channel(f.device, Id(f.by)))
    /\ devices' = [devices EXCEPT ![f.device] = Len(channels) + 1]
    /\ result' = [result EXCEPT !["connect"] = "success"]

NotOpened(f) ==
    /\ devices[f.device] # 0 \/ "connect_fails" \in Faults
    /\ result' = [result EXCEPT !["connect"] = "error"]
    /\ UNCHANGED table

ConnectDeviceTask ==
    /\ Top("connect") /\ ~devices_lock
    /\ Opened(Head(stack)) \/ NotOpened(Head(stack))
    /\ Finish(Tail(stack))
    /\ UNCHANGED <<devices_lock, completions>>

DisconnectFromDeviceTask ==
    /\ Top("disconnect") /\ ~devices_lock
    /\ LET d == Head(stack).device IN
       /\ channels' = [s \in DOMAIN channels |->
                          IF s = devices[d]
                          THEN [channels[s] EXCEPT !.open = FALSE]
                          ELSE channels[s]]
       /\ devices' = [devices EXCEPT ![d] = 0]
    /\ Finish(Tail(stack))
    /\ UNCHANGED <<result, devices_lock, completions>>

GetRFCOMMChannelIDTask ==
    /\ Top("sdp")
    /\ \E id \in {Head(stack).device, "none"} :
          result' = [result EXCEPT !["sdp"] = id]
    /\ Finish(Tail(stack))
    /\ UNCHANGED <<devices_lock, table, completions>>

-----------------------------------------------------------------------------
(* writeAsyncTask.  A channel closed since the device was looked up is     *)
(* nil, and a message to nil returns 0, kIOReturnSuccess.                  *)

Bytes(f, n) == [i \in 1..n |-> <<Id(f.by), Length(f.by) - f.left + i>>]

Accepted(f, n) ==
    /\ channels[f.session].open
    /\ channels' = [channels EXCEPT ![f.session].sent = @ \o Bytes(f, n)]
    /\ result' = [result EXCEPT !["write"] = "success"]
    /\ completions' = completions + 1

Refused(f) ==
    /\ channels[f.session].open /\ "write_refused" \in Faults
    /\ result' = [result EXCEPT !["write"] = "error"]
    /\ UNCHANGED <<channels, completions>>

ToNil(f) ==
    /\ ~channels[f.session].open
    /\ result' = [result EXCEPT !["write"] = "success"]
    /\ UNCHANGED <<channels, completions>>

(* Faulty variant: the chunk leaves without the lock.                      *)
SendChunkUnlocked(f) ==
    LET n == IF f.left > Mtu THEN Mtu ELSE f.left IN
    /\ Accepted(f, n) \/ Refused(f) \/ ToNil(f)
    /\ stack' = <<[f EXCEPT !.kind = "chunk", !.left = @ - n]>> \o Tail(stack)
    /\ UNCHANGED <<callers, devices_lock, devices>>

SendChunk(f) ==
    LET n == IF f.left > Mtu THEN Mtu ELSE f.left IN
    /\ Accepted(f, n) \/ Refused(f) \/ ToNil(f)
    /\ devices_lock' = TRUE
    /\ stack' = <<[f EXCEPT !.kind = "chunk", !.left = @ - n]>> \o Tail(stack)
    /\ UNCHANGED <<callers, devices>>

EndWrite ==
    /\ Finish(StopLoop(Tail(stack)))
    /\ devices_lock' = FALSE
    /\ UNCHANGED <<table, completions>>

WriteLocks ==
    /\ Top("write") /\ ~devices_lock
    /\ LET f == Head(stack)
           s == devices[f.device]
       IN  IF s # 0 /\ f.left > 0
           THEN SendChunk([f EXCEPT !.session = s])
           ELSE /\ EndWrite
                /\ result' = IF s = 0 THEN result
                             ELSE [result EXCEPT !["write"] = "success"]

(* Faulty variant: the last byte does not count as remaining.              *)
ChunkLocksShort ==
    /\ Top("chunk") /\ ~devices_lock
    /\ LET f == Head(stack) IN
       IF result["write"] = "success" /\ f.left > 1
       THEN SendChunk(f)
       ELSE EndWrite /\ UNCHANGED result

ChunkLocks ==
    /\ Top("chunk") /\ ~devices_lock
    /\ LET f == Head(stack) IN
       IF result["write"] = "success" /\ f.left > 0
       THEN SendChunk(f)
       ELSE EndWrite /\ UNCHANGED result

-----------------------------------------------------------------------------
(* The delegate: rfcommChannelWriteComplete, rfcommChannelData,            *)
(* rfcommChannelClosed.                                                    *)

WriteComplete ==
    /\ Serving /\ completions > 0
    /\ completions' = completions - 1
    /\ devices_lock' = FALSE
    /\ stack' = StopLoop(stack)
    /\ UNCHANGED <<callers, result, table>>

DataArrives(s) ==
    /\ Serving /\ channels[s].open /\ channels[s].arrived < MaxPackets
    /\ channels' = [channels EXCEPT ![s].arrived = @ + 1]
    /\ stack' = <<[Frame("data", NoCaller, channels[s].device)
                   EXCEPT !.session = s, !.packet = channels[s].arrived + 1]>>
                \o stack
    /\ UNCHANGED <<callers, result, devices_lock, devices, completions>>

(* Faulty variant: no CFRunLoopStop at the end of a data callback.         *)
DataLocksSilent ==
    /\ Top("data") /\ ~devices_lock
    /\ LET f == Head(stack)
           s == devices[f.device]
       IN  channels' = IF s = 0 THEN channels
                       ELSE [channels EXCEPT ![s].received =
                                Append(@, <<f.session, f.packet>>)]
    /\ stack' = Tail(stack)
    /\ UNCHANGED <<callers, result, devices_lock, devices, completions>>

DataLocks ==
    /\ Top("data") /\ ~devices_lock
    /\ LET f == Head(stack)
           s == devices[f.device]
       IN  channels' = IF s = 0 THEN channels
                       ELSE [channels EXCEPT ![s].received =
                                Append(@, <<f.session, f.packet>>)]
    /\ stack' = StopLoop(Tail(stack))
    /\ UNCHANGED <<callers, result, devices_lock, devices, completions>>

Writing == \E i \in DOMAIN stack : stack[i].kind \in {"write", "chunk"}

ChannelClosed(s) ==
    /\ \/ "remote_closes" \in Faults
       \/ "closes_between_writes" \in Faults /\ ~Writing
    /\ Serving /\ channels[s].open
    /\ stack' = <<Frame("disconnect", NoCaller, channels[s].device)>> \o stack
    /\ UNCHANGED <<callers, result, devices_lock, table, completions>>

-----------------------------------------------------------------------------
Tasks == ConnectDeviceTask \/ DisconnectFromDeviceTask \/ GetRFCOMMChannelIDTask

Frames == Tasks \/ WriteLocks \/ ChunkLocks \/ DataLocks \/ EnterRunLoop \/ LeaveRunLoop

WorkerStep ==
    \/ RunTask
    \/ Frames
    \/ WriteComplete
    \/ \E s \in DOMAIN channels : DataArrives(s) \/ ChannelClosed(s)

Next ==
    \/ \E c \in Callers : \/ \E op \in Ops, d \in Devices, n \in Lengths \cup {0} :
                                Ask(c, op, d, n)
                          \/ Post(c)
                          \/ Return(c)
    \/ WorkerStep

Spec == Init /\ [][Next]_vars

(* A call that was begun goes on, the worker runs what it can run, and     *)
(* what was queued for it - tasks, completions of accepted chunks - is     *)
(* delivered if it keeps coming back to its run loop.                      *)
Fairness ==
    /\ \A c \in Callers : SF_vars(Post(c)) /\ WF_vars(Return(c))
    /\ WF_vars(Frames)
    /\ SF_vars(RunTask)
    /\ SF_vars(WriteComplete)

FairSpec == Spec /\ Fairness

-----------------------------------------------------------------------------
Kinds == {"connect", "disconnect", "sdp"} \cup TryLockKinds

TypeOK ==
    /\ pc \in [Callers -> {"idle", "asks", "waits", "done"}]
    /\ \A c \in Callers : calls[c] \in 0..MaxCalls[c]
    /\ lock \in [LockedOps -> Callers \cup {NoCaller}]
    /\ result["connect"] \in {"success", "error"}
    /\ result["write"] \in {"success", "error"}
    /\ result["sdp"] \in Devices \cup {"none"}
    /\ \A i \in DOMAIN tasks : pc[tasks[i]] = "waits"
    /\ \A i \in DOMAIN stack :
          /\ stack[i].kind \in Kinds
          /\ stack[i].by \in Callers \cup {NoCaller}
          /\ stack[i].session \in 0..Len(channels)
          /\ stack[i].left \in 0..UInt16Size - 1
          /\ stack[i].stopped => stack[i].running
          /\ i > 1 => stack[i].running
    /\ devices_lock \in BOOLEAN
    /\ devices \in [Devices -> 0..Len(channels)]
    /\ completions \in Nat

(* The completion that rfcommChannelWriteComplete unlocks devicesLock for  *)
(* is the one of the write that took it: while a chunk is under way the    *)
(* lock is taken, the write is the outermost frame, and no other chunk is  *)
(* under way.                                                              *)
CompletionOwnsLock ==
    completions > 0 =>
        /\ completions = 1
        /\ devices_lock
        /\ stack # <<>> /\ stack[Len(stack)].kind = "chunk"

(* What a caller is about to read is the answer of its own task: a connect *)
(* that succeeded opened a channel and one that did not opened none, an    *)
(* SDP search speaks of the device asked for.                              *)
ResultsAreOwn ==
    \A c \in Callers : pc[c] = "done" =>
        /\ call[c].op = "connect" =>
              (result["connect"] = "success"
                 <=> \E s \in DOMAIN channels : channels[s].by = Id(c))
        /\ call[c].op = "sdp" => result["sdp"] \in {call[c].device, "none"}

(* Writes to one channel do not mix: its bytes are those of one call after *)
(* another, each from its first byte on and without a gap.                 *)
WritesDoNotMix ==
    \A s \in DOMAIN channels : \A i \in DOMAIN channels[s].sent :
        LET here == channels[s].sent[i]
        IN  IF i > 1 /\ channels[s].sent[i - 1][1] = here[1]
            THEN here[2] = channels[s].sent[i - 1][2] + 1
            ELSE /\ here[2] = 1
                 /\ \A j \in 1..i - 1 : channels[s].sent[j][1] # here[1]

(* A write that returns sent all its bytes or none.                        *)
BytesSent(c) ==
    Cardinality({si \in UNION {{<<s, i>> : i \in DOMAIN channels[s].sent} :
                                  s \in DOMAIN channels} :
                    channels[si[1]].sent[si[2]][1] = Id(c)})

WritesWhole ==
    \A c \in Callers :
        pc[c] = "done" /\ call[c].op = "write" => BytesSent(c) \in {0, call[c].length}

(* A data callback that waits for the lock neither loses nor doubles its   *)
(* packet: while a channel is open, each packet delivered is in the pipe   *)
(* or in one callback still to push it.                                    *)
PacketsKept ==
    \A s \in DOMAIN channels : channels[s].open =>
        \A k \in 1..channels[s].arrived :
            Cardinality({i \in DOMAIN channels[s].received :
                            channels[s].received[i] = <<s, k>>})
          + Cardinality({i \in DOMAIN stack :
                            stack[i].kind = "data" /\ stack[i].session = s
                            /\ stack[i].packet = k}) = 1

(* Packets reach the pipe in the order in which they arrived, as what      *)
(* "is received from a remote device" is "read from the main thread"       *)
(* (BluetoothWorker.mm:315-328).                                           *)
PacketsInOrder ==
    \A s \in DOMAIN channels : \A i, j \in DOMAIN channels[s].received :
        i < j => channels[s].received[i][2] < channels[s].received[j][2]

(* "wait for the write to be performed on the worker thread"               *)
(* (BluetoothWorker.mm:197) and its likes: every call returns.             *)
CallsReturn == \A c \in Callers : pc[c] # "idle" ~> pc[c] = "idle"

=============================================================================
