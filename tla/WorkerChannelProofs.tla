------------------------ MODULE WorkerChannelProofs ------------------------
(***************************************************************************)
(* Theorems about what the channels of BluetoothWorker carry: packets that *)
(* arrive and bytes that are written.                                      *)
(***************************************************************************)
EXTENDS WorkerProofs, FiniteSetTheorems

-----------------------------------------------------------------------------
(* The table of open channels.                                             *)

TableFits ==
    /\ \A d \in Devices : devices[d] # 0 =>
          channels[devices[d]].device = d /\ channels[devices[d]].open
    /\ \A s \in DOMAIN channels : channels[s].open => devices[channels[s].device] = s

LEMMA OpenSteps ==
    ASSUME Core, WorkerStep, ~ConnectDeviceTask, ~DisconnectFromDeviceTask
    PROVE  /\ devices' = devices /\ KeepsChannels
           /\ \A s \in DOMAIN channels : channels'[s].open = channels[s].open
<1>1. CASE RunTask \/ EnterRunLoop \/ LeaveRunLoop \/ WriteComplete
           \/ GetRFCOMMChannelIDTask \/ Ends
           \/ \E s \in DOMAIN channels : ChannelClosed(s)
  BY <1>1, UnchangedChannels
     DEF RunTask, EnterRunLoop, LeaveRunLoop, WriteComplete, ChannelClosed, table,
         GetRFCOMMChannelIDTask, Ends, EndWrite
<1>2. ASSUME NEW f \in FrameSet, Sends(f)
      PROVE  /\ devices' = devices /\ KeepsChannels
             /\ \A s \in DOMAIN channels : channels'[s].open = channels[s].open
  <2>1. CASE Accepted(f, ChunkSize(f))
    BY <1>2, <2>1, SendsBy, SendsKeeps, AcceptedFacts DEF Core, Sends
  <2>2. CASE Refused(f) \/ ToNil(f)
    BY <1>2, <2>2, SendsKeeps DEF Refused, ToNil, Sends
  <2> QED BY <1>2, <2>1, <2>2 DEF Sends
<1>3. CASE DataLocks
  <2>1. stack # <<>> /\ Head(stack) = stack[1] /\ devices' = devices /\ KeepsChannels
    BY <1>3, DataLocksKeeps, DataLocksPop, TopFrame DEF Core, Pops, DataLocks
  <2>2. CASE devices[stack[1].device] = 0
    BY <1>3, <2>1, <2>2 DEF DataLocks
  <2>3. CASE devices[stack[1].device] # 0
    BY <1>3, <2>1, <2>3, DataLocksFacts DEF Core
  <2> QED BY <2>2, <2>3
<1>4. ASSUME NEW s \in DOMAIN channels, DataArrives(s)
      PROVE  /\ devices' = devices /\ KeepsChannels
             /\ \A t \in DOMAIN channels : channels'[t].open = channels[t].open
  <2>1. devices' = devices
    BY <1>4 DEF DataArrives
  <2> QED BY <1>4, <2>1, DataArrivesFacts, OneChangedKeeps DEF Core
<1> QED BY <1>1, <1>2, <1>3, <1>4, WorkerCases

LEMMA TableStep == ASSUME Core, TableFits, [Next]_vars PROVE TableFits'
<1>1. ASSUME NEW c \in Callers, CallerSteps(c) PROVE TableFits'
  BY <1>1 DEF CallerSteps, Ask, Post, Return, table, TableFits
<1>2. CASE WorkerStep /\ ~ConnectDeviceTask /\ ~DisconnectFromDeviceTask
  <2>1. /\ devices' = devices /\ DOMAIN channels' = DOMAIN channels
        /\ \A s \in DOMAIN channels : channels'[s].open = channels[s].open
                                      /\ channels'[s].device = channels[s].device
    BY <1>2, OpenSteps DEF KeepsChannels, SameChannel
  <2>2. \A d \in Devices : devices[d] # 0 => devices[d] \in DOMAIN channels
    BY DEF Core, Types, SessionsExist
  <2> QED BY <2>1, <2>2 DEF TableFits
<1>3. CASE DisconnectFromDeviceTask
  <2> DEFINE d == stack[1].device
  <2>1. /\ d \in Devices /\ DOMAIN channels' = DOMAIN channels
        /\ \A s \in DOMAIN channels : channels'[s].device = channels[s].device
        /\ devices'[d] = 0
        /\ \A e \in Devices : e # d => devices'[e] = devices[e]
    BY <1>3, DisconnectsFacts DEF Core, SameChannel
  <2>2. \A s \in DOMAIN channels : channels'[s].open <=> channels[s].open /\ s # devices[d]
    BY <1>3, DisconnectsFacts DEF Core
  <2>3. \A e \in Devices : devices[e] # 0 => devices[e] \in DOMAIN channels
    BY DEF Core, Types, SessionsExist
  <2>4. ASSUME NEW e \in Devices, devices'[e] # 0
        PROVE  channels'[devices'[e]].device = e /\ channels'[devices'[e]].open
    <3>1. e # d /\ devices'[e] = devices[e] /\ devices[e] \in DOMAIN channels
      BY <2>1, <2>3, <2>4
    <3>2. channels[devices[e]].device = e /\ channels[devices[e]].open
      BY <2>4, <3>1 DEF TableFits
    <3>3. devices[e] # devices[d]
      BY <2>1, <2>4, <3>1, <3>2 DEF TableFits
    <3> QED BY <2>1, <2>2, <3>1, <3>2, <3>3
  <2>5. ASSUME NEW s \in DOMAIN channels', channels'[s].open
        PROVE  devices'[channels'[s].device] = s
    <3>1. s \in DOMAIN channels /\ channels[s].open /\ s # devices[d]
      BY <2>1, <2>2, <2>5
    <3>2. devices[channels[s].device] = s /\ channels[s].device \in Devices
      BY <3>1, ChannelType DEF TableFits, Core
    <3>3. channels[s].device # d
      BY <3>1, <3>2
    <3> QED BY <2>1, <3>1, <3>2, <3>3
  <2> QED BY <2>4, <2>5 DEF TableFits
<1>4. CASE ConnectDeviceTask
  <2>1. CASE channels' = channels /\ devices' = devices
    BY <2>1 DEF TableFits
  <2>2. CASE Connects
    <3> DEFINE d == stack[1].device
               n == Len(channels) + 1
    <3>1. /\ d \in Devices /\ n # 0 /\ n \notin DOMAIN channels
          /\ DOMAIN channels' = DOMAIN channels \cup {n}
          /\ \A t \in DOMAIN channels : channels'[t] = channels[t]
          /\ channels'[n] = Channel(d, Id(stack[1].by))
          /\ devices[d] = 0 /\ devices'[d] = n
          /\ \A e \in Devices : e # d => devices'[e] = devices[e]
      BY <2>2, ConnectsFacts DEF Core
    <3>2. channels'[n].device = d /\ channels'[n].open
      BY <3>1 DEF Channel
    <3>3. \A e \in Devices : devices[e] # 0 => devices[e] \in DOMAIN channels
      BY DEF Core, Types, SessionsExist
    <3>4. \A e \in Devices : devices'[e] # 0 =>
             channels'[devices'[e]].device = e /\ channels'[devices'[e]].open
      BY <3>1, <3>2, <3>3 DEF TableFits
    <3>5. \A s \in DOMAIN channels : channels[s].open => channels[s].device # d
      BY <3>1 DEF TableFits, Core, Types
    <3>6. \A s \in DOMAIN channels' : channels'[s].open => devices'[channels'[s].device] = s
      BY <3>1, <3>2, <3>5, ChannelType DEF TableFits, Core
    <3> QED BY <3>4, <3>6 DEF TableFits
  <2> QED BY <1>4, <2>1, <2>2, ConnectEnds
<1>5. CASE UNCHANGED vars
  BY <1>5 DEF vars, table, TableFits
<1> QED BY <1>1, <1>2, <1>3, <1>4, <1>5, NextCases

LEMMA TableHolds == Spec => []TableFits
<1>1. Init => TableFits
  BY DEF Init, TableFits
<1>2. Core /\ TableFits /\ [Next]_vars => TableFits'
  BY TableStep
<1> QED BY <1>1, <1>2, CoreHolds, PTL DEF Spec
-----------------------------------------------------------------------------
(* Packets: each one that arrived is carried by one callback or was        *)
(* received once, and on an open channel it cannot be neither.             *)

Carries(f, s, k) == f.kind = "data" /\ f.session = s /\ f.packet = k

CarriedExist ==
    \A i \in DOMAIN stack : stack[i].kind = "data" =>
        /\ stack[i].session \in DOMAIN channels
        /\ stack[i].packet >= 1
        /\ stack[i].packet <= channels[stack[i].session].arrived
        /\ channels[stack[i].session].device = stack[i].device

CarriedOnce ==
    \A i, j \in DOMAIN stack :
        (/\ stack[i].kind = "data" /\ stack[j].kind = "data"
         /\ stack[i].session = stack[j].session /\ stack[i].packet = stack[j].packet)
            => i = j

ReceivedOnce ==
    \A s \in DOMAIN channels : \A i, j \in DOMAIN channels[s].received :
        (/\ channels[s].received[i] = channels[s].received[j]
         /\ channels[s].received[i][1] = s)
            => i = j

ReceivedGone ==
    \A s \in DOMAIN channels : \A i \in DOMAIN channels[s].received :
        channels[s].received[i][1] = s =>
            /\ channels[s].received[i][2] <= channels[s].arrived
            /\ \A j \in DOMAIN stack : ~Carries(stack[j], s, channels[s].received[i][2])

IsReceived(s, k) ==
    \E i \in DOMAIN channels[s].received : channels[s].received[i] = <<s, k>>

IsCarried(s, k) == \E i \in DOMAIN stack : Carries(stack[i], s, k)

NoneLost ==
    \A s \in DOMAIN channels : channels[s].open =>
        \A k \in 1..channels[s].arrived : IsReceived(s, k) \/ IsCarried(s, k)

PacketsFit ==
    CarriedExist /\ CarriedOnce /\ ReceivedOnce /\ ReceivedGone /\ NoneLost

(* The frames of a kind stay, at most one place up or down.                *)
Shifted(kind, d) ==
    /\ \A i \in DOMAIN stack' : stack'[i].kind = kind =>
          i - d \in DOMAIN stack /\ Alike(stack'[i], stack[i - d])
    /\ \A i \in DOMAIN stack : stack[i].kind = kind =>
          i + d \in DOMAIN stack' /\ Alike(stack'[i + d], stack[i])

NoPacketMoves ==
    /\ \A s \in DOMAIN channels :
          /\ s \in DOMAIN channels' /\ channels'[s].device = channels[s].device
          /\ channels'[s].arrived = channels[s].arrived
          /\ channels'[s].received = channels[s].received
          /\ channels'[s].open => channels[s].open
    /\ \A s \in DOMAIN channels' : s \in DOMAIN channels \/ channels'[s].arrived = 0
    /\ \A s \in DOMAIN channels' : s \in DOMAIN channels \/ channels'[s].received = <<>>

LEMMA PacketsStay ==
    ASSUME Core, Core', PacketsFit, NEW d \in {-1, 0, 1}, Shifted("data", d), NoPacketMoves
    PROVE  PacketsFit'
<1>1. DOMAIN stack \subseteq Int /\ DOMAIN stack' \subseteq Int
  BY DEF Core, Types
<1>2. ASSUME NEW i \in DOMAIN stack', stack'[i].kind = "data"
      PROVE  /\ i - d \in DOMAIN stack /\ stack[i - d].kind = "data"
             /\ Alike(stack'[i], stack[i - d])
  BY <1>2 DEF Shifted, Alike
<1>3. CarriedExist'
  BY <1>2 DEF PacketsFit, CarriedExist, Alike, NoPacketMoves
<1>4. CarriedOnce'
  <2> SUFFICES ASSUME NEW i \in DOMAIN stack', NEW j \in DOMAIN stack',
                      stack'[i].kind = "data", stack'[j].kind = "data",
                      stack'[i].session = stack'[j].session,
                      stack'[i].packet = stack'[j].packet
               PROVE  i = j
    BY DEF CarriedOnce
  <2>1. i - d = j - d
    BY <1>2 DEF PacketsFit, CarriedOnce, Alike
  <2> QED BY <1>1, <2>1
<1>5. ReceivedOnce'
  BY DEF PacketsFit, ReceivedOnce, NoPacketMoves
<1>6. ReceivedGone'
  <2> SUFFICES ASSUME NEW s \in DOMAIN channels', NEW i \in DOMAIN channels'[s].received,
                      channels'[s].received[i][1] = s
               PROVE  /\ channels'[s].received[i][2] <= channels'[s].arrived
                      /\ \A j \in DOMAIN stack' :
                            ~Carries(stack'[j], s, channels'[s].received[i][2])
    BY DEF ReceivedGone, Carries
  <2>1. s \in DOMAIN channels /\ channels'[s].received = channels[s].received
        /\ channels'[s].arrived = channels[s].arrived
    BY DEF NoPacketMoves
  <2>2. /\ channels[s].received[i][2] <= channels[s].arrived
        /\ \A j \in DOMAIN stack : ~Carries(stack[j], s, channels[s].received[i][2])
    BY <2>1 DEF PacketsFit, ReceivedGone
  <2> QED BY <1>2, <2>1, <2>2 DEF Carries, Alike
<1>7. NoneLost'
  <2> SUFFICES ASSUME NEW s \in DOMAIN channels', channels'[s].open,
                      NEW k \in 1..channels'[s].arrived
               PROVE  \/ \E i \in DOMAIN channels'[s].received :
                            channels'[s].received[i] = <<s, k>>
                      \/ \E i \in DOMAIN stack' : Carries(stack'[i], s, k)
    BY DEF NoneLost, IsReceived, IsCarried, Carries
  <2>1. s \in DOMAIN channels
    BY DEF NoPacketMoves
  <2>2. /\ channels'[s].arrived = channels[s].arrived /\ channels[s].open
        /\ channels'[s].received = channels[s].received
    BY <2>1 DEF NoPacketMoves
  <2>3. IsReceived(s, k) \/ IsCarried(s, k)
    BY <2>1, <2>2 DEF PacketsFit, NoneLost
  <2>4. CASE IsReceived(s, k)
    BY <2>2, <2>4 DEF IsReceived
  <2>5. CASE IsCarried(s, k)
    <3>1. PICK i \in DOMAIN stack : Carries(stack[i], s, k)
      BY <2>5 DEF IsCarried
    <3>2. i + d \in DOMAIN stack' /\ Alike(stack'[i + d], stack[i])
      BY <3>1 DEF Shifted, Carries
    <3> QED BY <3>1, <3>2 DEF Carries, Alike
  <2> QED BY <2>3, <2>4, <2>5
<1> QED BY <1>3, <1>4, <1>5, <1>6, <1>7 DEF PacketsFit

LEMMA SameStackShifted == ASSUME Core, stack' = stack, NEW kind PROVE Shifted(kind, 0)
<1>1. \A i \in DOMAIN stack : i - 0 = i /\ i + 0 = i
  BY DEF Core, Types
<1> QED BY <1>1 DEF Shifted, Alike

LEMMA PushShifted ==
    ASSUME Core, NEW f, Pushes(f), NEW kind, f.kind # kind
    PROVE  Shifted(kind, 1)
BY PushFacts DEF Core, Shifted, Alike

LEMMA PopShifted ==
    ASSUME Core, Pops, NEW kind, stack[1].kind # kind
    PROVE  Shifted(kind, -1)
<1>1. DOMAIN stack \subseteq Int /\ DOMAIN stack' \subseteq Int
  BY PopFacts DEF Core, Types
<1>2. \A i \in Int : i - (-1) = i + 1 /\ i + (-1) = i - 1
  OBVIOUS
<1>3. ASSUME NEW i \in DOMAIN stack'
      PROVE  i + 1 \in DOMAIN stack /\ Alike(stack'[i], stack[i + 1])
  BY PopFacts DEF Core
<1>4. ASSUME NEW i \in DOMAIN stack, stack[i].kind = kind
      PROVE  i - 1 \in DOMAIN stack' /\ Alike(stack'[i - 1], stack[i])
  BY <1>4, PopFacts DEF Core
<1> QED BY <1>1, <1>2, <1>3, <1>4 DEF Shifted

LEMMA TurnShifted ==
    ASSUME Core, NEW f, Turns(f), NEW kind,
           Alike(f, stack[1]) \/ (f.kind # kind /\ stack[1].kind # kind)
    PROVE  Shifted(kind, 0)
<1>1. \A i \in DOMAIN stack : i - 0 = i /\ i + 0 = i
  BY DEF Core, Types
<1> QED BY <1>1, TurnFacts DEF Core, Shifted, Alike

LEMMA LoopSteps ==
    ASSUME Core, EnterRunLoop \/ LeaveRunLoop \/ WriteComplete
    PROVE  stack' = stack \/ \E f : Turns(f) /\ Alike(f, stack[1])
<1>1. ASSUME stack # <<>>
      PROVE  /\ Alike([stack[1] EXCEPT !.running = TRUE], stack[1])
             /\ Alike([stack[1] EXCEPT !.running = FALSE, !.stopped = FALSE], stack[1])
             /\ Alike([stack[1] EXCEPT !.stopped = TRUE], stack[1])
  <2>1. stack[1] \in FrameSet
    BY <1>1, TopFrame DEF Core
  <2> QED BY <2>1 DEF Alike, FrameSet
<1>2. CASE EnterRunLoop
  BY <1>1, <1>2, EnterRunLoopStack DEF Core, Turns
<1>3. CASE LeaveRunLoop
  BY <1>1, <1>3, LeaveRunLoopStack DEF Core, Turns
<1>4. CASE WriteComplete
  BY <1>1, <1>4, WriteCompleteStack DEF Core, Turns
<1> QED BY <1>2, <1>3, <1>4

(* Tasks that start or end and loops that turn move no data callback and   *)
(* no write that is under way.                                             *)
LEMMA StackMoves ==
    ASSUME Core, NEW kind \in {"data", "chunk"},
           \/ RunTask \/ EnterRunLoop \/ LeaveRunLoop \/ WriteComplete \/ Tasks
           \/ \E s \in DOMAIN channels : ChannelClosed(s)
    PROVE  \E d \in {-1, 0, 1} : Shifted(kind, d)
<1>1. CASE RunTask
  <2> DEFINE c == Head(tasks)
  <2>1. Pushes(TaskFrame(c)) /\ c \in Callers /\ pc[c] = "waits"
    BY <1>1, RunTaskStack DEF Core
  <2>2. TaskFrame(c).kind = call[c].op /\ call[c].op \in Ops
    BY <2>1, CallerType DEF TaskFrame, Frame, Core
  <2>3. TaskFrame(c).kind # kind
    BY <2>2 DEF Ops
  <2> QED BY <2>1, <2>3, PushShifted
<1>2. ASSUME NEW s \in DOMAIN channels, ChannelClosed(s)
      PROVE  Shifted(kind, 1)
  <2>1. Pushes(ClosedFrame(s)) /\ ClosedFrame(s).kind # kind
    BY <1>2, ChannelClosedStack DEF Core, ClosedFrame, Frame
  <2> QED BY <2>1, PushShifted
<1>3. CASE EnterRunLoop \/ LeaveRunLoop \/ WriteComplete
  BY <1>3, LoopSteps, TurnShifted, SameStackShifted
<1>4. CASE Tasks
  <2>1. Pops /\ stack[1].kind # kind
    BY <1>4, TasksPop, TopFrame
       DEF ConnectDeviceTask, DisconnectFromDeviceTask, GetRFCOMMChannelIDTask, Tasks, Top, Core
  <2> QED BY <2>1, PopShifted
<1> QED BY <1>1, <1>2, <1>3, <1>4

LEMMA StillChannels == ASSUME channels' = channels PROVE NoPacketMoves
BY DEF NoPacketMoves

LEMMA QuietPackets ==
    ASSUME Core, WorkerStep, ~DataLocks, \A s \in DOMAIN channels : ~DataArrives(s)
    PROVE  /\ \E d \in {-1, 0, 1} : Shifted("data", d)
           /\ NoPacketMoves
<1>1. CASE RunTask \/ EnterRunLoop \/ LeaveRunLoop \/ WriteComplete \/ GetRFCOMMChannelIDTask
           \/ \E s \in DOMAIN channels : ChannelClosed(s)
  <2>1. channels' = channels
    BY <1>1 DEF RunTask, EnterRunLoop, LeaveRunLoop, WriteComplete, ChannelClosed,
                GetRFCOMMChannelIDTask, table
  <2> QED BY <1>1, <2>1, StackMoves, StillChannels DEF Tasks
<1>2. ASSUME NEW f \in FrameSet, Sends(f)
      PROVE  Shifted("data", 0) /\ NoPacketMoves
  <2>1. Turns(ChunkFrame(f)) /\ ChunkFrame(f).kind = "chunk" /\ stack[1].kind # "data"
    BY <1>2, SendsBy DEF Sends, ChunkFrame, FrameSet
  <2>2. CASE Accepted(f, ChunkSize(f))
    <3>1. /\ DOMAIN channels' = DOMAIN channels /\ SameChannel(f.session)
          /\ \A t \in DOMAIN channels : t # f.session => channels'[t] = channels[t]
          /\ channels'[f.session].open = channels[f.session].open
          /\ channels'[f.session].arrived = channels[f.session].arrived
          /\ channels'[f.session].received = channels[f.session].received
      BY <1>2, <2>2, SendsBy, AcceptedFacts DEF Core, Sends
    <3> QED BY <2>1, <3>1, TurnShifted DEF NoPacketMoves, SameChannel
  <2>3. CASE Refused(f) \/ ToNil(f)
    BY <2>1, <2>3, TurnShifted, StillChannels DEF Refused, ToNil
  <2> QED BY <1>2, <2>2, <2>3 DEF Sends
<1>3. CASE Ends
  <2>1. Pops /\ stack[1].kind # "data"
    BY <1>3, TopFrame DEF Ends, Top, Core
  <2> QED BY <1>3, <2>1, PopShifted, StillChannels DEF Ends, EndWrite, table
<1>4. CASE DisconnectFromDeviceTask
  BY <1>4, StackMoves, DisconnectsFacts DEF Tasks, Core, NoPacketMoves, SameChannel
<1>5. CASE ConnectDeviceTask
  <2>1. CASE Connects
    <3> DEFINE n == Len(channels) + 1
    <3>1. /\ DOMAIN channels' = DOMAIN channels \cup {n}
          /\ \A t \in DOMAIN channels : channels'[t] = channels[t]
          /\ channels'[n] = Channel(stack[1].device, Id(stack[1].by))
      BY <2>1, ConnectsFacts DEF Core
    <3>2. channels'[n].arrived = 0 /\ channels'[n].received = <<>>
      BY <3>1 DEF Channel
    <3>3. NoPacketMoves
      BY <3>1, <3>2 DEF NoPacketMoves
    <3> QED BY <1>5, <3>3, StackMoves DEF Tasks
  <2>2. CASE channels' = channels
    BY <1>5, <2>2, StackMoves, StillChannels DEF Tasks
  <2> QED BY <1>5, <2>1, <2>2, ConnectEnds
<1> QED BY <1>1, <1>2, <1>3, <1>4, <1>5, WorkerCases
LEMMA ArrivingPackets ==
    ASSUME Core, PacketsFit, NEW s \in DOMAIN channels, DataArrives(s)
    PROVE  PacketsFit'
<1> DEFINE f == PacketFrame(s)
           k == channels[s].arrived + 1
<1>1. /\ DOMAIN channels' = DOMAIN channels
      /\ \A t \in DOMAIN channels :
            /\ channels'[t].device = channels[t].device
            /\ channels'[t].received = channels[t].received
            /\ t # s => channels'[t].arrived = channels[t].arrived
            /\ channels'[t].open => channels[t].open
      /\ channels'[s].arrived = k
  BY DataArrivesFacts DEF Core, SameChannel
<1>2. /\ channels[s].arrived \in Nat /\ k \in Nat /\ k > channels[s].arrived
      /\ \A t \in DOMAIN channels : channels[t].arrived \in Nat
  BY ChannelType DEF Core
<1>3. f.kind = "data" /\ f.session = s /\ f.packet = k /\ f.device = channels[s].device
  BY DEF PacketFrame, Frame
<1>4. Pushes(f)
  BY DataArrivesStack DEF Core
<1> HIDE DEF f
<1>5. /\ stack'[1] = f /\ 1 \in DOMAIN stack' /\ DOMAIN stack' \subseteq Int
      /\ \A i \in DOMAIN stack' : i = 1 \/ (i - 1 \in DOMAIN stack /\ stack'[i] = stack[i - 1])
      /\ \A i \in DOMAIN stack : i + 1 \in DOMAIN stack' /\ stack'[i + 1] = stack[i]
  BY <1>4, PushFacts DEF Core
<1>6. \A i \in DOMAIN stack : ~Carries(stack[i], s, k)
  BY <1>2, FrameType DEF PacketsFit, CarriedExist, Carries, Core
<1>7. \A t \in DOMAIN channels : channels[t].arrived <= channels'[t].arrived
  BY <1>1, <1>2
<1>8. CarriedExist'
  <2> SUFFICES ASSUME NEW i \in DOMAIN stack', stack'[i].kind = "data"
               PROVE  /\ stack'[i].session \in DOMAIN channels'
                      /\ stack'[i].packet >= 1
                      /\ stack'[i].packet <= channels'[stack'[i].session].arrived
                      /\ channels'[stack'[i].session].device = stack'[i].device
    BY DEF CarriedExist
  <2>1. CASE i = 1
    BY <1>1, <1>2, <1>3, <1>5, <2>1
  <2>2. CASE i # 1
    <3>1. i - 1 \in DOMAIN stack /\ stack'[i] = stack[i - 1]
      BY <1>5, <2>2
    <3>2. /\ stack[i - 1].session \in DOMAIN channels
          /\ stack[i - 1].packet >= 1
          /\ stack[i - 1].packet <= channels[stack[i - 1].session].arrived
          /\ channels[stack[i - 1].session].device = stack[i - 1].device
          /\ stack[i - 1].packet \in Nat
      BY <3>1, FrameType DEF PacketsFit, CarriedExist, Core
    <3>3. /\ channels[stack[i - 1].session].arrived <= channels'[stack[i - 1].session].arrived
          /\ channels'[stack[i - 1].session].arrived \in Nat
          /\ channels[stack[i - 1].session].arrived \in Nat
      BY <1>1, <1>2, <1>7, <3>2
    <3> QED BY <1>1, <3>1, <3>2, <3>3
  <2> QED BY <2>1, <2>2
<1>9. CarriedOnce'
  <2> SUFFICES ASSUME NEW i \in DOMAIN stack', NEW j \in DOMAIN stack',
                      stack'[i].kind = "data", stack'[j].kind = "data",
                      stack'[i].session = stack'[j].session,
                      stack'[i].packet = stack'[j].packet
               PROVE  i = j
    BY DEF CarriedOnce
  <2>1. CASE i = 1 \/ j = 1
    BY <1>3, <1>5, <1>6, <2>1 DEF Carries
  <2>2. CASE i # 1 /\ j # 1
    <3>1. i - 1 = j - 1
      BY <1>5, <2>2 DEF PacketsFit, CarriedOnce
    <3> QED BY <1>5, <3>1
  <2> QED BY <2>1, <2>2
<1>10. ReceivedOnce'
  BY <1>1 DEF PacketsFit, ReceivedOnce
<1>11. ReceivedGone'
  <2> SUFFICES ASSUME NEW t \in DOMAIN channels, NEW i \in DOMAIN channels[t].received,
                      channels[t].received[i][1] = t
               PROVE  /\ channels[t].received[i][2] <= channels'[t].arrived
                      /\ \A j \in DOMAIN stack' :
                            ~Carries(stack'[j], t, channels[t].received[i][2])
    BY <1>1 DEF ReceivedGone, Carries
  <2>1. /\ channels[t].received[i][2] <= channels[t].arrived
        /\ \A j \in DOMAIN stack : ~Carries(stack[j], t, channels[t].received[i][2])
    BY DEF PacketsFit, ReceivedGone
  <2>2. channels[t].received[i] \in Nat \X Nat
    BY ChannelType DEF Core
  <2>3. channels[t].received[i][2] \in Nat
    BY <2>2
  <2>4. channels[t].received[i][2] <= channels'[t].arrived
    BY <1>1, <1>2, <1>7, <2>1, <2>3
  <2>5. ~Carries(f, t, channels[t].received[i][2])
    BY <1>2, <1>3, <2>1, <2>3 DEF Carries
  <2> QED BY <1>5, <2>1, <2>4, <2>5
<1>12. NoneLost'
  <2> SUFFICES ASSUME NEW t \in DOMAIN channels, channels[t].open,
                      NEW n \in 1..channels'[t].arrived
               PROVE  \/ \E i \in DOMAIN channels[t].received :
                            channels[t].received[i] = <<t, n>>
                      \/ \E i \in DOMAIN stack' : Carries(stack'[i], t, n)
    BY <1>1 DEF NoneLost, IsReceived, IsCarried, Carries
  <2>1. CASE t = s /\ n = k
    BY <1>3, <1>5, <2>1 DEF Carries
  <2>2. CASE ~(t = s /\ n = k)
    <3>1. n \in 1..channels[t].arrived
      BY <1>1, <1>2, <2>2
    <3>2. IsReceived(t, n) \/ IsCarried(t, n)
      BY <3>1 DEF PacketsFit, NoneLost
    <3> QED BY <1>5, <3>2 DEF IsReceived, IsCarried
  <2> QED BY <2>1, <2>2
<1> QED BY <1>8, <1>9, <1>10, <1>11, <1>12 DEF PacketsFit

LEMMA AppendFacts ==
    ASSUME NEW S, NEW q \in Seq(S), NEW x \in S
    PROVE  /\ DOMAIN Append(q, x) = DOMAIN q \cup {Len(q) + 1}
           /\ Len(q) + 1 \notin DOMAIN q
           /\ Append(q, x)[Len(q) + 1] = x
           /\ \A i \in DOMAIN q : Append(q, x)[i] = q[i]
OBVIOUS

(* rfcommChannelData pushes its packet into the pipe of the channel that   *)
(* is open for the device, if there is one.                                *)
LEMMA PushingPackets ==
    ASSUME Core, TableFits, PacketsFit, DataLocks
    PROVE  PacketsFit'
<1> DEFINE f == stack[1]
           s == f.session
           d == f.device
           t == devices[d]
           e == <<s, f.packet>>
<1>1. Pops /\ f.kind = "data" /\ stack # <<>> /\ 1 \in DOMAIN stack /\ Head(stack) = f
  BY DataLocksPop, TopFrame DEF Core, Pops
<1>2. /\ s \in DOMAIN channels /\ f.packet >= 1 /\ f.packet <= channels[s].arrived
      /\ channels[s].device = d /\ d \in Devices /\ s \in Nat /\ f.packet \in Nat
  BY <1>1, FrameType DEF PacketsFit, CarriedExist, Core
<1>3. /\ DOMAIN channels' = DOMAIN channels
      /\ \A u \in DOMAIN channels :
            /\ channels'[u].device = channels[u].device
            /\ channels'[u].arrived = channels[u].arrived
            /\ channels'[u].open = channels[u].open
            /\ u # t => channels'[u].received = channels[u].received
      /\ t # 0 => t \in DOMAIN channels
                  /\ channels'[t].received = Append(channels[t].received, e)
  <2>1. CASE t = 0
    BY <1>1, <2>1 DEF DataLocks
  <2>2. CASE t # 0
    BY <2>2, DataLocksFacts DEF Core, SameChannel
  <2> QED BY <2>1, <2>2
<1>4. 0 \notin DOMAIN channels
  BY DEF Core, Types
<1>5. \A u \in DOMAIN channels :
         /\ channels[u].received \in Seq(Nat \X Nat)
         /\ DOMAIN channels[u].received = 1..Len(channels[u].received)
         /\ Len(channels[u].received) \in Nat
  BY ChannelType DEF Core
<1> DEFINE m == Len(channels[t].received) + 1
<1>6. t # 0 =>
         /\ DOMAIN channels'[t].received = DOMAIN channels[t].received \cup {m}
         /\ m \notin DOMAIN channels[t].received
         /\ channels'[t].received[m] = e
         /\ \A i \in DOMAIN channels[t].received :
               channels'[t].received[i] = channels[t].received[i]
  <2> SUFFICES ASSUME t # 0
               PROVE  /\ DOMAIN channels'[t].received = DOMAIN channels[t].received \cup {m}
                      /\ m \notin DOMAIN channels[t].received
                      /\ channels'[t].received[m] = e
                      /\ \A i \in DOMAIN channels[t].received :
                            channels'[t].received[i] = channels[t].received[i]
    OBVIOUS
  <2>1. /\ channels[t].received \in Seq(Nat \X Nat) /\ e \in Nat \X Nat
        /\ channels'[t].received = Append(channels[t].received, e)
    BY <1>2, <1>3, <1>5
  <2> DEFINE q == channels[t].received
  <2> HIDE DEF e, q
  <2>2. q \in Seq(Nat \X Nat) /\ channels'[t].received = Append(q, e)
    BY <2>1 DEF q
  <2>3. /\ DOMAIN Append(q, e) = DOMAIN q \cup {Len(q) + 1}
        /\ Len(q) + 1 \notin DOMAIN q
        /\ Append(q, e)[Len(q) + 1] = e
        /\ \A i \in DOMAIN q : Append(q, e)[i] = q[i]
    BY <2>1, <2>2, AppendFacts
  <2>4. m = Len(q) + 1
    BY DEF q
  <2> HIDE DEF m
  <2> QED BY <2>2, <2>3, <2>4 DEF q
<1>7. ASSUME NEW i \in DOMAIN stack'
      PROVE  i + 1 \in DOMAIN stack /\ i \in Int /\ i + 1 # 1 /\ Alike(stack'[i], stack[i + 1])
  <2>1. i + 1 \in DOMAIN stack /\ Alike(stack'[i], stack[i + 1]) /\ stack' \in Seq(FrameSet)
    BY <1>1, PopFacts DEF Core
  <2> QED BY <2>1
<1>8. \A i \in DOMAIN stack : i = 1 \/ (i - 1 \in DOMAIN stack' /\ Alike(stack'[i - 1], stack[i]))
  BY <1>1, PopFacts DEF Core
<1>9. \A i \in DOMAIN stack : Carries(stack[i], s, f.packet) => i = 1
  BY <1>1 DEF PacketsFit, CarriedOnce, Carries
<1> HIDE DEF f, m
<1>10. CarriedExist'
  BY <1>3, <1>7 DEF PacketsFit, CarriedExist, Alike
<1>11. CarriedOnce'
  <2> SUFFICES ASSUME NEW i \in DOMAIN stack', NEW j \in DOMAIN stack',
                      stack'[i].kind = "data", stack'[j].kind = "data",
                      stack'[i].session = stack'[j].session,
                      stack'[i].packet = stack'[j].packet
               PROVE  i = j
    BY DEF CarriedOnce
  <2>1. i + 1 = j + 1
    BY <1>7 DEF PacketsFit, CarriedOnce, Alike
  <2> QED BY <1>7, <2>1
<1>12. \A i \in DOMAIN channels[s].received : channels[s].received[i] # e
  <2> SUFFICES ASSUME NEW i \in DOMAIN channels[s].received, channels[s].received[i] = e
               PROVE  FALSE
    OBVIOUS
  <2>1. channels[s].received[i][1] = s /\ channels[s].received[i][2] = f.packet
    OBVIOUS
  <2>2. ~Carries(stack[1], s, f.packet)
    BY <1>1, <1>2, <2>1 DEF PacketsFit, ReceivedGone
  <2> QED BY <1>1, <2>2 DEF Carries, f
<1>13. ReceivedOnce'
  <2> SUFFICES ASSUME NEW u \in DOMAIN channels,
                      NEW i \in DOMAIN channels'[u].received,
                      NEW j \in DOMAIN channels'[u].received,
                      channels'[u].received[i] = channels'[u].received[j],
                      channels'[u].received[i][1] = u
               PROVE  i = j
    BY <1>3 DEF ReceivedOnce
  <2>1. CASE u # t
    BY <1>3, <2>1 DEF PacketsFit, ReceivedOnce
  <2>2. CASE u = t
    <3>1. t # 0
      BY <1>4, <2>2
    <3>2. CASE i = m \/ j = m
      <4>1. s = u
        BY <1>6, <2>2, <3>1, <3>2
      <4> QED BY <1>6, <1>12, <2>2, <3>1, <3>2, <4>1
    <3>3. CASE i # m /\ j # m
      BY <1>6, <2>2, <3>1, <3>3 DEF PacketsFit, ReceivedOnce
    <3> QED BY <3>2, <3>3
  <2> QED BY <2>1, <2>2
<1>14. ReceivedGone'
  <2> SUFFICES ASSUME NEW u \in DOMAIN channels,
                      NEW i \in DOMAIN channels'[u].received,
                      channels'[u].received[i][1] = u
               PROVE  /\ channels'[u].received[i][2] <= channels[u].arrived
                      /\ \A j \in DOMAIN stack' :
                            ~Carries(stack'[j], u, channels'[u].received[i][2])
    BY <1>3 DEF ReceivedGone, Carries
  <2>1. CASE u = t /\ i = m
    <3>1. channels'[u].received[i] = e /\ u = s
      BY <1>4, <1>6, <2>1
    <3>2. \A j \in DOMAIN stack' : ~Carries(stack'[j], s, f.packet)
      BY <1>7, <1>9 DEF Carries, Alike
    <3> QED BY <1>2, <3>1, <3>2
  <2>2. CASE ~(u = t /\ i = m)
    <3>1. i \in DOMAIN channels[u].received
          /\ channels'[u].received[i] = channels[u].received[i]
      <4>1. CASE u # t
        BY <1>3, <4>1
      <4>2. CASE u = t
        <5>1. t # 0 /\ i # m
          BY <1>4, <2>2, <4>2
        <5> QED BY <1>6, <4>2, <5>1
      <4> QED BY <4>1, <4>2
    <3>2. /\ channels[u].received[i][2] <= channels[u].arrived
          /\ \A j \in DOMAIN stack : ~Carries(stack[j], u, channels[u].received[i][2])
      BY <3>1 DEF PacketsFit, ReceivedGone
    <3> QED BY <1>7, <3>1, <3>2 DEF Carries, Alike
  <2> QED BY <2>1, <2>2
<1>15. NoneLost'
  <2>0. \A u \in DOMAIN channels' :
           /\ u \in DOMAIN channels /\ channels'[u].arrived = channels[u].arrived
           /\ channels'[u].open => channels[u].open
    BY <1>3
  <2> SUFFICES ASSUME NEW u \in DOMAIN channels, channels[u].open,
                      NEW n \in 1..channels[u].arrived
               PROVE  IsReceived(u, n)' \/ IsCarried(u, n)'
    BY <2>0 DEF NoneLost
  <2>1. IsReceived(u, n) \/ IsCarried(u, n)
    BY DEF PacketsFit, NoneLost
  <2>2. CASE IsReceived(u, n)
    <3>1. PICK i \in DOMAIN channels[u].received : channels[u].received[i] = <<u, n>>
      BY <2>2 DEF IsReceived
    <3>2. i \in DOMAIN channels'[u].received
          /\ channels'[u].received[i] = channels[u].received[i]
      BY <1>3, <1>4, <1>6
    <3> QED BY <3>1, <3>2 DEF IsReceived
  <2>3. CASE IsCarried(u, n)
    <3>1. PICK i \in DOMAIN stack : Carries(stack[i], u, n)
      BY <2>3 DEF IsCarried
    <3>2. CASE i # 1
      BY <1>8, <3>1, <3>2 DEF Carries, Alike, IsCarried
    <3>3. CASE i = 1
      <4>1. u = s /\ n = f.packet
        BY <3>1, <3>3 DEF Carries, f
      <4>2. t = u
        BY <1>2, <4>1 DEF TableFits
      <4>3. m \in DOMAIN channels'[u].received /\ channels'[u].received[m] = e
        BY <1>4, <1>6, <4>2
      <4> QED BY <4>1, <4>3 DEF IsReceived
    <3> QED BY <3>2, <3>3
  <2> QED BY <2>1, <2>2, <2>3
<1> QED BY <1>10, <1>11, <1>13, <1>14, <1>15 DEF PacketsFit

LEMMA PacketsStep ==
    ASSUME Core, TableFits, PacketsFit, [Next]_vars
    PROVE  PacketsFit'
<1>1. CASE UNCHANGED <<stack, channels>>
  BY <1>1 DEF PacketsFit, CarriedExist, CarriedOnce, ReceivedOnce, ReceivedGone, NoneLost,
              IsReceived, IsCarried, Carries
<1>2. ASSUME NEW c \in Callers, CallerSteps(c)
      PROVE  UNCHANGED <<stack, channels>>
  BY <1>2 DEF CallerSteps, Ask, Post, Return, table
<1>3. CASE WorkerStep
  <2>1. CASE DataLocks
    BY <2>1, PushingPackets
  <2>2. CASE \E s \in DOMAIN channels : DataArrives(s)
    BY <2>2, ArrivingPackets
  <2>3. CASE ~DataLocks /\ \A s \in DOMAIN channels : ~DataArrives(s)
    BY <1>3, <2>3, QuietPackets, CoreStep, PacketsStay
  <2> QED BY <2>1, <2>2, <2>3
<1>4. CASE UNCHANGED vars
  BY <1>1, <1>4 DEF vars, table
<1> QED BY <1>1, <1>2, <1>3, <1>4, NextCases
LEMMA PacketsHold == Spec => []PacketsFit
<1>1. Init => PacketsFit
  BY DEF Init, PacketsFit, CarriedExist, CarriedOnce, ReceivedOnce, ReceivedGone, NoneLost
<1>2. Core /\ TableFits /\ PacketsFit /\ [Next]_vars => PacketsFit'
  BY PacketsStep
<1> QED BY <1>1, <1>2, CoreHolds, TableHolds, PTL DEF Spec

(* A data callback that waits for devicesLock, however deep the run loops  *)
(* nest above it, neither loses nor doubles its packet: while its channel  *)
(* is open each packet that arrived is in the pipe or in exactly one       *)
(* callback still to push it, for any devices and any number of packets.   *)
THEOREM PacketsAreKept == Spec => []PacketsKept
<1>1. Core /\ PacketsFit => PacketsKept
  <2> SUFFICES ASSUME Core, PacketsFit,
                      NEW s \in DOMAIN channels, channels[s].open,
                      NEW k \in 1..channels[s].arrived
               PROVE  Cardinality({i \in DOMAIN channels[s].received :
                                      channels[s].received[i] = <<s, k>>})
                    + Cardinality({i \in DOMAIN stack :
                                      stack[i].kind = "data" /\ stack[i].session = s
                                      /\ stack[i].packet = k}) = 1
    BY DEF PacketsKept
  <2> DEFINE A == {i \in DOMAIN channels[s].received : channels[s].received[i] = <<s, k>>}
             B == {i \in DOMAIN stack : stack[i].kind = "data" /\ stack[i].session = s
                                        /\ stack[i].packet = k}
  <2>1. IsReceived(s, k) \/ IsCarried(s, k)
    BY DEF PacketsFit, NoneLost
  <2>2. IsReceived(s, k) => B = {}
    BY DEF PacketsFit, ReceivedGone, IsReceived, Carries
  <2>3. \A i, j \in A : i = j
    BY DEF PacketsFit, ReceivedOnce
  <2>4. \A i, j \in B : i = j
    BY DEF PacketsFit, CarriedOnce
  <2>5. CASE IsReceived(s, k)
    <3>1. PICK i \in A : TRUE
      BY <2>5 DEF IsReceived
    <3>2. A = {i}
      BY <2>3, <3>1
    <3>3. Cardinality(A) = 1 /\ Cardinality(B) = 0
      <4> HIDE DEF A, B
      <4> QED BY <2>2, <2>5, <3>2, FS_Singleton, FS_EmptySet, Zenon
    <3> QED BY <3>3
  <2>6. CASE ~IsReceived(s, k)
    <3>1. A = {}
      BY <2>6 DEF IsReceived
    <3>2. PICK i \in B : TRUE
      BY <2>1, <2>6 DEF IsCarried, Carries
    <3>3. B = {i}
      BY <2>4, <3>2
    <3>4. Cardinality(A) = 0 /\ Cardinality(B) = 1
      <4> HIDE DEF A, B
      <4> QED BY <3>1, <3>3, FS_Singleton, FS_EmptySet, Zenon
    <3> QED BY <3>4
  <2> QED BY <2>5, <2>6
<1> QED BY <1>1, CoreHolds, PacketsHold, PTL

-----------------------------------------------------------------------------
(* Where the bytes of a write are; chs is a sequence of channels.          *)

NoBytes(chs, id) ==
    \A t \in DOMAIN chs : \A i \in DOMAIN chs[t].sent : chs[t].sent[i][1] # id

(* They are places a + 1 to a + n of channel s.                            *)
BytesAt(chs, id, s, a, n) ==
    /\ s \in DOMAIN chs /\ a \in Nat /\ n \in Nat /\ a + n <= Len(chs[s].sent)
    /\ \A t \in DOMAIN chs : \A i \in DOMAIN chs[t].sent :
          chs[t].sent[i][1] = id <=> t = s /\ i \in a + 1..a + n

(* They are the last n of channel s.                                       *)
BytesEnd(chs, id, s, n) ==
    /\ n > 0 /\ BytesAt(chs, id, s, Len(chs[s].sent) - n, n)
    /\ chs[s].sent[Len(chs[s].sent)][2] = n

(* One call's bytes after another's, each from the first on.               *)
Unmixed(sent) ==
    \A i \in DOMAIN sent :
        IF i > 1 /\ sent[i - 1][1] = sent[i][1]
        THEN sent[i][2] = sent[i - 1][2] + 1
        ELSE sent[i][2] = 1 /\ \A j \in 1..i - 1 : sent[j][1] # sent[i][1]

Chunking(c) == \E i \in DOMAIN stack : stack[i].kind = "chunk" /\ stack[i].by = c

(* A chunk was refused or went to nil: no WriteComplete will unlock.       *)
Stuck == devices_lock /\ completions = 0

BytesOwned ==
    \A s \in DOMAIN channels : \A i \in DOMAIN channels[s].sent :
        channels[s].sent[i][1][2] <= calls[channels[s].sent[i][1][1]]

Unwritten ==
    \A c \in Callers :
        pc[c] \in {"asks", "waits"} /\ ~Chunking(c) => NoBytes(channels, Id(c))

WriteLeft ==
    \A i \in DOMAIN stack : stack[i].kind = "write" => stack[i].left = Length(stack[i].by)

ChunkFits(f) ==
    /\ result.write = "success"
    /\ BytesEnd(channels, Id(f.by), f.session, Length(f.by) - f.left)

ChunksFit ==
    \A i \in DOMAIN stack : stack[i].kind = "chunk" /\ ~Stuck => ChunkFits(stack[i])

WholeOrNone(c) ==
    \/ NoBytes(channels, Id(c))
    \/ \E s \in DOMAIN channels, a \in Nat : BytesAt(channels, Id(c), s, a, Length(c))

DoneWhole == \A c \in Callers : pc[c] = "done" /\ call[c].op = "write" => WholeOrNone(c)

AllUnmixed == \A s \in DOMAIN channels : Unmixed(channels[s].sent)

WritesFit == BytesOwned /\ Unwritten /\ WriteLeft /\ ChunksFit /\ DoneWhole /\ AllUnmixed

-----------------------------------------------------------------------------
(* Steps that write nothing.                                               *)

SentStays ==
    /\ \A s \in DOMAIN channels :
          s \in DOMAIN channels' /\ channels'[s].sent = channels[s].sent
    /\ \A s \in DOMAIN channels' : s \in DOMAIN channels \/ channels'[s].sent = <<>>

LEMMA NoBytesStay ==
    ASSUME SentStays, NEW id, NoBytes(channels, id)
    PROVE  NoBytes(channels', id)
BY DEF SentStays, NoBytes

LEMMA BytesAtStay ==
    ASSUME SentStays, NEW id, NEW s, NEW a, NEW n, BytesAt(channels, id, s, a, n)
    PROVE  BytesAt(channels', id, s, a, n)
BY DEF SentStays, BytesAt

LEMMA UnmixedStay ==
    ASSUME SentStays, AllUnmixed
    PROVE  AllUnmixed'
BY DEF SentStays, AllUnmixed, Unmixed

LEMMA BytesEndStay ==
    ASSUME SentStays, NEW id, NEW s, NEW n, BytesEnd(channels, id, s, n)
    PROVE  BytesEnd(channels', id, s, n)
<1>1. s \in DOMAIN channels
  BY DEF BytesEnd, BytesAt
<1> QED BY <1>1, BytesAtStay DEF BytesEnd, SentStays

(* A step that moves no chunk and writes nothing, taken by the worker.     *)
LEMMA WritesStay ==
    ASSUME Core, Core', WritesFit, NEW d \in {-1, 0, 1}, Shifted("chunk", d), SentStays,
           result'.write = result.write, Stuck => Stuck', UNCHANGED <<call, calls>>,
           \A c \in Callers :
              \/ pc'[c] = pc[c]
              \/ pc[c] = "waits" /\ pc'[c] = "done" /\ call[c].op # "write",
           WriteLeft'
    PROVE  WritesFit'
<1>1. \A c \in Callers : Id(c)' = Id(c) /\ Length(c)' = Length(c)
  BY DEF Id, Length
<1>2. BytesOwned'
  BY DEF WritesFit, BytesOwned, SentStays
<1>3. Unwritten'
  <2> SUFFICES ASSUME NEW c \in Callers, pc'[c] \in {"asks", "waits"}, ~Chunking(c)'
               PROVE  NoBytes(channels', Id(c))
    BY <1>1 DEF Unwritten, Chunking
  <2>1. ~Chunking(c)
    BY DEF Chunking, Shifted, Alike
  <2>2. pc[c] \in {"asks", "waits"}
    OBVIOUS
  <2> QED BY <2>1, <2>2, NoBytesStay DEF WritesFit, Unwritten
<1>4. ChunksFit'
  <2> SUFFICES ASSUME NEW i \in DOMAIN stack', stack'[i].kind = "chunk", ~Stuck'
               PROVE  ChunkFits(stack[i])'
    BY DEF ChunksFit
  <2>1. i - d \in DOMAIN stack /\ Alike(stack'[i], stack[i - d])
    BY DEF Shifted
  <2> DEFINE f == stack[i - d]
  <2>2. f.kind = "chunk" /\ ChunkFits(f)
    BY <2>1 DEF WritesFit, ChunksFit, Alike
  <2>3. f.by \in Callers
    BY <2>1, <2>2 DEF Core, FramesFit, FrameFits
  <2>4. BytesEnd(channels', Id(f.by), f.session, Length(f.by) - f.left)
    BY <2>2, BytesEndStay DEF ChunkFits
  <2>5. stack'[i].by = f.by /\ stack'[i].session = f.session /\ stack'[i].left = f.left
    BY <2>1 DEF Alike
  <2> HIDE DEF f
  <2>6. Id(stack[i].by)' = Id(f.by) /\ Length(stack[i].by)' = Length(f.by)
    BY <2>5 DEF Id, Length
  <2> QED BY <2>2, <2>4, <2>5, <2>6 DEF ChunkFits
<1>5. DoneWhole'
  <2> SUFFICES ASSUME NEW c \in Callers, pc'[c] = "done", call[c].op = "write"
               PROVE  \/ NoBytes(channels', Id(c))
                      \/ \E s \in DOMAIN channels', a \in Nat :
                            BytesAt(channels', Id(c), s, a, Length(c))
    BY <1>1 DEF DoneWhole, WholeOrNone
  <2>1. WholeOrNone(c)
    BY DEF WritesFit, DoneWhole
  <2> QED BY <2>1, NoBytesStay, BytesAtStay DEF WholeOrNone, SentStays
<1> QED BY <1>2, <1>3, <1>4, <1>5, UnmixedStay DEF WritesFit

LEMMA SameSent == ASSUME channels' = channels PROVE SentStays
BY DEF SentStays

LEMMA QuietWrites ==
    ASSUME Core, LoopsNest, WorkerStep, ~Ends, \A f \in FrameSet : ~Sends(f)
    PROVE  /\ \E d \in {-1, 0, 1} : Shifted("chunk", d)
           /\ SentStays /\ result'.write = result.write /\ (Stuck => Stuck')
<1>1. CASE RunTask \/ EnterRunLoop \/ LeaveRunLoop \/ GetRFCOMMChannelIDTask
           \/ \E s \in DOMAIN channels : ChannelClosed(s)
  <2>1. channels' = channels /\ result'.write = result.write
    BY <1>1 DEF RunTask, EnterRunLoop, LeaveRunLoop, ChannelClosed,
                GetRFCOMMChannelIDTask, table, Core, Types
  <2>2. Stuck => Stuck'
    BY <1>1 DEF RunTask, EnterRunLoop, LeaveRunLoop, ChannelClosed,
                GetRFCOMMChannelIDTask, Stuck
  <2> QED BY <1>1, <2>1, <2>2, StackMoves, SameSent DEF Tasks
<1>2. CASE WriteComplete
  <2>1. channels' = channels /\ result' = result /\ ~Stuck
    BY <1>2 DEF WriteComplete, table, Stuck
  <2>2. \E d \in {-1, 0, 1} : Shifted("chunk", d)
    BY <1>2, StackMoves
  <2> QED BY <2>1, <2>2, SameSent
<1>3. CASE DisconnectFromDeviceTask
  <2>1. SentStays
    BY <1>3, DisconnectsFacts DEF Core, SentStays
  <2> QED BY <1>3, <2>1, StackMoves DEF Tasks, DisconnectFromDeviceTask, Stuck
<1>4. CASE ConnectDeviceTask
  <2>1. SentStays
    <3>1. CASE Connects
      <4> DEFINE n == Len(channels) + 1
      <4>1. /\ DOMAIN channels' = DOMAIN channels \cup {n}
            /\ \A t \in DOMAIN channels : channels'[t] = channels[t]
            /\ channels'[n] = Channel(stack[1].device, Id(stack[1].by))
        BY <3>1, ConnectsFacts DEF Core
      <4>2. channels'[n].sent = <<>>
        BY <4>1 DEF Channel
      <4> QED BY <4>1, <4>2 DEF SentStays
    <3> QED BY <1>4, <3>1, ConnectEnds, SameSent
  <2>2. result'.write = result.write
    BY <1>4 DEF ConnectDeviceTask, Opened, NotOpened, Core, Types
  <2> QED BY <1>4, <2>1, <2>2, StackMoves DEF Tasks, ConnectDeviceTask, Stuck
<1>5. CASE DataLocks
  <2>1. Pops /\ stack[1].kind = "data" /\ ~devices_lock /\ stack # <<>>
    BY <1>5, DataLocksPop DEF Core, Pops
  <2>2. Head(stack) = stack[1]
    BY <2>1, TopFrame DEF Core
  <2>3. SentStays
    <3>1. CASE devices[stack[1].device] = 0
      BY <1>5, <2>2, <3>1, SameSent DEF DataLocks
    <3>2. CASE devices[stack[1].device] # 0
      BY <1>5, <3>2, DataLocksFacts DEF Core, SentStays
    <3> QED BY <3>1, <3>2
  <2>4. Shifted("chunk", -1)
    BY <2>1, PopShifted
  <2> QED BY <1>5, <2>1, <2>3, <2>4 DEF DataLocks, Stuck
<1>6. ASSUME NEW s \in DOMAIN channels, DataArrives(s)
      PROVE  /\ Shifted("chunk", 1) /\ SentStays
             /\ result'.write = result.write /\ (Stuck => Stuck')
  <2>1. Pushes(PacketFrame(s)) /\ PacketFrame(s).kind # "chunk"
    BY <1>6, DataArrivesStack DEF Core, PacketFrame, Frame
  <2>2. SentStays
    BY <1>6, DataArrivesFacts DEF Core, SentStays
  <2>3. Shifted("chunk", 1)
    BY <2>1, PushShifted
  <2> QED BY <1>6, <2>2, <2>3 DEF DataArrives, Stuck
<1> QED BY <1>1, <1>2, <1>3, <1>4, <1>5, <1>6, WorkerCases

(* A frame of a write that holds no chunk yet has all its bytes left.      *)
LEMMA LeftStep ==
    ASSUME Core, WriteLeft, WorkerStep
    PROVE  WriteLeft'
<1> SUFFICES ASSUME NEW i \in DOMAIN stack', stack'[i].kind = "write"
             PROVE  stack'[i].left = Length(stack'[i].by)
  <2>1. call' = call
    BY WorkerCallers
  <2> QED BY <2>1 DEF WriteLeft, Length
<1>0. \A j \in DOMAIN stack : Alike(stack'[i], stack[j]) => stack'[i].left = Length(stack'[i].by)
  BY DEF WriteLeft, Alike
<1>1. ASSUME NEW f, Pushes(f), f.kind = "write" => f.left = Length(f.by)
      PROVE  stack'[i].left = Length(stack'[i].by)
  BY <1>1, PushFacts DEF Core, WriteLeft
<1>2. ASSUME NEW f, Turns(f), Alike(f, stack[1]) \/ f.kind # "write"
      PROVE  stack'[i].left = Length(stack'[i].by)
  BY <1>2, TurnFacts DEF Core, WriteLeft, Alike
<1>3. CASE Pops
  BY <1>0, <1>3, PopFacts DEF Core
<1>4. CASE RunTask
  <2> DEFINE c == Head(tasks)
  <2>1. Pushes(TaskFrame(c)) /\ c \in Callers
    BY <1>4, RunTaskStack DEF Core
  <2>2. TaskFrame(c).by = c /\ TaskFrame(c).left = Length(c)
    BY DEF TaskFrame, Frame
  <2> QED BY <1>1, <2>1, <2>2
<1>5. CASE Tasks
  BY <1>3, <1>5, TasksPop DEF Core
<1>6. CASE Ends \/ DataLocks
  BY <1>3, <1>6, DataLocksPop DEF Core, Ends
<1>7. ASSUME NEW f \in FrameSet, Sends(f)
      PROVE  stack'[i].left = Length(stack'[i].by)
  <2>1. Turns(ChunkFrame(f)) /\ ChunkFrame(f).kind # "write"
    BY <1>7 DEF Sends, ChunkFrame, FrameSet
  <2> QED BY <1>2, <2>1
<1>8. CASE EnterRunLoop \/ LeaveRunLoop \/ WriteComplete
  <2>1. stack' = stack \/ \E f : Turns(f) /\ Alike(f, stack[1])
    BY <1>8, LoopSteps
  <2>2. CASE stack' = stack
    BY <2>2 DEF WriteLeft
  <2> QED BY <1>2, <2>1, <2>2
<1>9. ASSUME NEW s \in DOMAIN channels, DataArrives(s)
      PROVE  stack'[i].left = Length(stack'[i].by)
  <2>1. Pushes(PacketFrame(s)) /\ PacketFrame(s).kind # "write"
    BY <1>9, DataArrivesStack DEF Core, PacketFrame, Frame
  <2> QED BY <1>1, <2>1
<1>10. ASSUME NEW s \in DOMAIN channels, ChannelClosed(s)
       PROVE  stack'[i].left = Length(stack'[i].by)
  <2>1. Pushes(ClosedFrame(s)) /\ ClosedFrame(s).kind # "write"
    BY <1>10, ChannelClosedStack DEF Core, ClosedFrame, Frame
  <2> QED BY <1>1, <2>1
<1> QED BY <1>4, <1>5, <1>6, <1>7, <1>8, <1>9, <1>10, WorkerCases DEF Tasks

(* The frame of a write or of a chunk is innermost only when it is alone:  *)
(* below it would be another write, of a caller with the same lock.        *)
LEMMA WriteAlone ==
    ASSUME Core, LocksFit, LoopsNest, 1 \in DOMAIN stack,
           stack[1].kind \in {"write", "chunk"}
    PROVE  /\ Len(stack) = 1 /\ DOMAIN stack = {1}
           /\ stack[1].by \in Callers /\ call[stack[1].by].op = "write"
           /\ pc[stack[1].by] = "waits"
<1>1. stack \in Seq(FrameSet) /\ Len(stack) \in Nat /\ Len(stack) >= 1
      /\ DOMAIN stack = 1..Len(stack)
  BY DEF Core, Types
<1>2. /\ stack[1].by \in Callers /\ call[stack[1].by].op = "write"
      /\ pc[stack[1].by] = "waits"
  BY DEF Core, FramesFit, FrameFits
<1>3. CASE Len(stack) > 1
  <2>1. Len(stack) \in DOMAIN stack /\ Len(stack) # 1
    BY <1>1, <1>3
  <2>2. Bottom.kind = "chunk"
    BY <1>3, <2>1 DEF LoopsNest
  <2>3. /\ Bottom.by \in Callers /\ call[Bottom.by].op = "write"
        /\ pc[Bottom.by] = "waits"
    BY <2>1, <2>2 DEF Core, FramesFit, FrameFits, Bottom
  <2>4. Bottom.by = stack[1].by
    BY <1>2, <2>3 DEF LocksFit, LockedOps, Ops
  <2> QED BY <1>2, <2>1, <2>4 DEF Core, FramesFit, Bottom
<1>4. CASE Len(stack) = 1
  BY <1>1, <1>2, <1>4
<1> QED BY <1>1, <1>3, <1>4, OneOrMore, Zenon

-----------------------------------------------------------------------------
(* The step that sends a chunk.                                            *)

(* More bytes of the call whose bytes are last, or the first of one that   *)
(* has none here.                                                          *)
LEMMA UnmixedGrows ==
    ASSUME NEW S, NEW q \in Seq(S), NEW b \in Seq(S), Unmixed(q), Len(b) > 0,
           NEW id, NEW n \in Nat, \A i \in 1..Len(b) : b[i] = <<id, n + i>>,
           \/ n = 0 /\ \A i \in DOMAIN q : q[i][1] # id
           \/ n > 0 /\ Len(q) > 0 /\ q[Len(q)][1] = id /\ q[Len(q)][2] = n
    PROVE  Unmixed(q \o b)
<1> DEFINE l == Len(q)
           r == q \o b
<1>1. /\ l \in Nat /\ Len(b) \in Nat /\ DOMAIN q = 1..l /\ DOMAIN r = 1..l + Len(b)
      /\ \A i \in 1..l : r[i] = q[i]
      /\ \A i \in l + 1..l + Len(b) : r[i] = b[i - l]
  BY ConcatProperties
<1> HIDE DEF r, l
<1>2. ASSUME NEW i \in l + 1..l + Len(b)
      PROVE  r[i] = <<id, n + (i - l)>>
  <2>1. l \in Nat /\ Len(b) \in Nat
    BY <1>1
  <2>2. i - l \in 1..Len(b)
    BY <2>1
  <2>3. r[i] = b[i - l]
    BY <1>1
  <2> QED BY <2>2, <2>3
<1>3. ASSUME NEW i \in DOMAIN r
      PROVE  IF i > 1 /\ r[i - 1][1] = r[i][1]
             THEN r[i][2] = r[i - 1][2] + 1
             ELSE r[i][2] = 1 /\ \A j \in 1..i - 1 : r[j][1] # r[i][1]
  <2>1. CASE i <= l
    <3>0. i \in 1..l /\ l \in Nat /\ (i > 1 => i - 1 \in 1..l) /\ 1..i - 1 \subseteq 1..l
      <4>1. l \in Nat /\ i \in 1..l + Len(b) /\ Len(b) \in Nat
        BY <1>1, <1>3
      <4> QED BY <2>1, <4>1
    <3>1. i \in DOMAIN q /\ r[i] = q[i] /\ (i > 1 => r[i - 1] = q[i - 1])
          /\ \A j \in 1..i - 1 : r[j] = q[j]
      BY <1>1, <3>0
    <3>2. IF i > 1 /\ q[i - 1][1] = q[i][1]
          THEN q[i][2] = q[i - 1][2] + 1
          ELSE q[i][2] = 1 /\ \A j \in 1..i - 1 : q[j][1] # q[i][1]
      BY <3>1 DEF Unmixed
    <3>3. CASE i > 1 /\ q[i - 1][1] = q[i][1]
      BY <3>1, <3>2, <3>3
    <3>4. CASE ~(i > 1 /\ q[i - 1][1] = q[i][1])
      <4>1. q[i][2] = 1 /\ \A j \in 1..i - 1 : q[j][1] # q[i][1]
        BY <3>2, <3>4
      <4>2. ~(i > 1 /\ r[i - 1][1] = r[i][1])
        BY <3>1, <3>4
      <4>3. r[i][2] = 1 /\ \A j \in 1..i - 1 : r[j][1] # r[i][1]
        <5> HIDE DEF r
        <5> QED BY <3>1, <4>1
      <4> HIDE DEF r
      <4> QED BY <4>2, <4>3
    <3> QED BY <3>3, <3>4
  <2>2. CASE i = l + 1
    <3>1. i \in Nat /\ r[i][1] = id /\ r[i][2] = n + 1
      BY <1>1, <1>2, <1>3, <2>2
    <3>2. CASE n = 0 /\ \A j \in DOMAIN q : q[j][1] # id
      <4>1. \A j \in 1..i - 1 : r[j][1] # r[i][1]
        BY <1>1, <2>2, <3>1, <3>2
      <4>2. i > 1 => i - 1 \in 1..i - 1
        BY <3>1
      <4> QED BY <3>1, <3>2, <4>1, <4>2
    <3>3. CASE n > 0 /\ l > 0 /\ q[l][1] = id /\ q[l][2] = n
      <4>1. i > 1 /\ r[i - 1] = q[l]
        BY <1>1, <2>2, <3>3
      <4> QED BY <3>1, <3>3, <4>1
    <3> QED BY <3>2, <3>3 DEF l
  <2>3. CASE i > l + 1
    <3>0. i \in Nat /\ l \in Nat /\ Len(b) \in Nat /\ i <= l + Len(b)
      BY <1>1, <1>3
    <3>1. /\ i > 1 /\ i \in l + 1..l + Len(b) /\ i - 1 \in l + 1..l + Len(b)
          /\ n + (i - l) = (n + ((i - 1) - l)) + 1
      BY <3>0, <2>3
    <3>2. r[i][1] = id /\ r[i - 1][1] = id /\ r[i][2] = n + (i - l) /\ r[i - 1][2] = n + ((i - 1) - l)
      BY <1>2, <3>1
    <3> QED BY <3>1, <3>2
  <2> QED BY <1>1, <1>3, <2>1, <2>2, <2>3
<1> QED BY <1>3 DEF Unmixed, r

(* How many bytes of its call the frame of a send has sent, and where.     *)
LEMMA BytesBefore ==
    ASSUME Core, LocksFit, LoopsNest, WritesFit, NEW f \in FrameSet, Sends(f)
    PROVE  LET n == Length(f.by) - f.left
               q == channels[f.session].sent
           IN  /\ n \in Nat /\ n <= Len(q) /\ q \in Seq(ByteSet) /\ Len(q) \in Nat
               /\ \A t \in DOMAIN channels : \A i \in DOMAIN channels[t].sent :
                     channels[t].sent[i][1] = Id(f.by)
                        <=> t = f.session /\ i > Len(q) - n
               /\ n > 0 => q[Len(q)][2] = n
               /\ n = 0 => NoBytes(channels, Id(f.by))
<1> DEFINE c == f.by
           n == Length(c) - f.left
           q == channels[f.session].sent
<1>1. /\ 1 \in DOMAIN stack /\ stack[1].kind \in {"write", "chunk"} /\ DOMAIN stack = {1}
      /\ c \in Callers /\ pc[c] = "waits" /\ f.by = stack[1].by /\ f.left = stack[1].left
      /\ f.kind = stack[1].kind /\ f.session \in DOMAIN channels
  BY SendsBy, WriteAlone DEF Sends
<1>2. q \in Seq(ByteSet) /\ Len(q) \in Nat /\ DOMAIN q = 1..Len(q)
  BY <1>1, ChannelType DEF Core
<1>3. \A t \in DOMAIN channels : DOMAIN channels[t].sent \subseteq Nat /\ DOMAIN channels[t].sent = 1..Len(channels[t].sent)
  BY ChannelType DEF Core
<1>4. CASE f.kind = "write"
  <2>1. ~Chunking(c)
    BY <1>1, <1>4 DEF Chunking
  <2>2. NoBytes(channels, Id(c))
    BY <1>1, <2>1 DEF WritesFit, Unwritten
  <2>3. n = 0
    <3>1. f.left = Length(c)
      BY <1>1, <1>4 DEF WritesFit, WriteLeft
    <3>2. Length(c) \in Nat
      <4>1. Length(c) \in 0..UInt16Size - 1
        BY <1>1, LengthType DEF Core
      <4> QED BY <4>1
    <3> QED BY <3>1, <3>2
  <2>4. \A i \in DOMAIN q : ~(i > Len(q) - 0)
    BY <1>2
  <2> HIDE DEF n, q, c
  <2>5. \A t \in DOMAIN channels : \A i \in DOMAIN channels[t].sent :
            channels[t].sent[i][1] # Id(c) /\ ~(t = f.session /\ i > Len(q) - n)
    BY <2>2, <2>3, <2>4 DEF NoBytes, q
  <2>6. /\ n \in Nat /\ n <= Len(q) /\ q \in Seq(ByteSet) /\ Len(q) \in Nat
        /\ n > 0 => q[Len(q)][2] = n
        /\ n = 0 => NoBytes(channels, Id(c))
    BY <1>2, <2>2, <2>3
  <2>7. \A t \in DOMAIN channels : \A i \in DOMAIN channels[t].sent :
            channels[t].sent[i][1] = Id(c) <=> t = f.session /\ i > Len(q) - n
    BY <2>5
  <2> QED BY <2>6, <2>7 DEF n, q, c
<1>5. CASE f.kind = "chunk"
  <2>1. ~Stuck /\ f.session = stack[1].session
    BY <1>5 DEF Sends, Stuck
  <2>2. ChunkFits(stack[1])
    BY <1>1, <1>5, <2>1 DEF WritesFit, ChunksFit
  <2>3. BytesEnd(channels, Id(c), f.session, n)
    BY <1>1, <2>1, <2>2 DEF ChunkFits
  <2> HIDE DEF n, c
  <2>4. /\ n > 0 /\ n \in Nat /\ Len(q) - n \in Nat
        /\ q[Len(q)][2] = n
        /\ \A t \in DOMAIN channels : \A i \in DOMAIN channels[t].sent :
              channels[t].sent[i][1] = Id(c)
                 <=> t = f.session /\ i \in (Len(q) - n) + 1..(Len(q) - n) + n
    BY <2>3 DEF BytesEnd, BytesAt
  <2>5. \A i \in DOMAIN q : i \in (Len(q) - n) + 1..(Len(q) - n) + n <=> i > Len(q) - n
    BY <1>2, <2>4
  <2>6. n <= Len(q) /\ ~(n = 0)
    BY <1>2, <2>4
  <2>7. \A t \in DOMAIN channels : \A i \in DOMAIN channels[t].sent :
            channels[t].sent[i][1] = Id(c) <=> t = f.session /\ i > Len(q) - n
    BY <2>4, <2>5
  <2> QED BY <1>2, <2>4, <2>6, <2>7 DEF n, c
<1> QED BY <1>1, <1>4, <1>5

(* The bytes n + 1 to n + k of id are added to channel s.                  *)
Extended(s, id, n, k) ==
    LET l == Len(channels[s].sent)
    IN  /\ DOMAIN channels' = DOMAIN channels
        /\ \A t \in DOMAIN channels : t # s => channels'[t].sent = channels[t].sent
        /\ DOMAIN channels[s].sent = 1..l /\ DOMAIN channels'[s].sent = 1..l + k
        /\ Len(channels'[s].sent) = l + k /\ l \in Nat
        /\ \A i \in 1..l : channels'[s].sent[i] = channels[s].sent[i]
        /\ \A i \in l + 1..l + k : channels'[s].sent[i] = <<id, n + (i - l)>>

LEMMA AcceptedExtends ==
    ASSUME Core, NEW f \in FrameSet, Sends(f), Accepted(f, ChunkSize(f))
    PROVE  Extended(f.session, Id(f.by), Length(f.by) - f.left, ChunkSize(f))
<1> DEFINE s == f.session
           q == channels[s].sent
           b == Bytes(f, ChunkSize(f))
           n == Length(f.by) - f.left
           k == ChunkSize(f)
<1>1. s \in DOMAIN channels /\ f.by \in Callers /\ f.left > 0
  BY SendsBy DEF Sends
<1>2. /\ DOMAIN channels' = DOMAIN channels
      /\ \A t \in DOMAIN channels : t # s => channels'[t] = channels[t]
      /\ channels'[s].sent = q \o b
  BY <1>1, AcceptedFacts DEF Core
<1>3. q \in Seq(ByteSet)
  BY <1>1, ChannelType DEF Core
<1>4. /\ b \in Seq(ByteSet) /\ Len(b) = k /\ k \in 1..f.left
      /\ \A i \in 1..k : b[i] = <<Id(f.by), n + i>>
  BY <1>1, BytesType DEF Core
<1>5. k \in Nat
  BY <1>4 DEF FrameSet
<1> HIDE DEF q, b, n, k
<1>6. /\ Len(q) \in Nat /\ DOMAIN q = 1..Len(q) /\ DOMAIN (q \o b) = 1..Len(q) + k
      /\ Len(q \o b) = Len(q) + k
      /\ \A i \in 1..Len(q) : (q \o b)[i] = q[i]
      /\ \A i \in Len(q) + 1..Len(q) + k : (q \o b)[i] = b[i - Len(q)]
  BY <1>3, <1>4, ConcatProperties
<1>7. ASSUME NEW i \in Len(q) + 1..Len(q) + k
      PROVE  (q \o b)[i] = <<Id(f.by), n + (i - Len(q))>>
  <2>1. i - Len(q) \in 1..k
    BY <1>5, <1>6
  <2> QED BY <1>4, <1>6, <2>1
<1> QED BY <1>2, <1>6, <1>7 DEF Extended, q, n, k

LEMMA ExtendedNoBytes ==
    ASSUME NEW s, NEW id, NEW n, NEW k \in Nat, Extended(s, id, n, k),
           NEW other, other # id, NoBytes(channels, other)
    PROVE  NoBytes(channels', other)
<1> SUFFICES ASSUME NEW t \in DOMAIN channels', NEW i \in DOMAIN channels'[t].sent
             PROVE  channels'[t].sent[i][1] # other
  BY DEF NoBytes
<1>1. CASE t # s
  BY <1>1 DEF Extended, NoBytes
<1>2. CASE t = s
  <2> DEFINE l == Len(channels[s].sent)
  <2>1. l \in Nat /\ i \in 1..l + k /\ t \in DOMAIN channels
    BY <1>2 DEF Extended
  <2>2. i \in 1..l \/ i \in l + 1..l + k
    BY <2>1
  <2> QED BY <1>2, <2>1, <2>2 DEF Extended, NoBytes
<1> QED BY <1>1, <1>2

LEMMA ExtendedBytesAt ==
    ASSUME NEW s, NEW id, NEW n, NEW k \in Nat, Extended(s, id, n, k),
           NEW other, other # id, NEW t, NEW a, NEW m, BytesAt(channels, other, t, a, m)
    PROVE  BytesAt(channels', other, t, a, m)
<1> DEFINE l == Len(channels[s].sent)
<1>1. /\ t \in DOMAIN channels' /\ a \in Nat /\ m \in Nat /\ a + m <= Len(channels[t].sent)
      /\ l \in Nat
  BY DEF Extended, BytesAt
<1>2. a + m <= Len(channels'[t].sent)
  BY <1>1 DEF Extended
<1>3. ASSUME NEW u \in DOMAIN channels', NEW i \in DOMAIN channels'[u].sent
      PROVE  channels'[u].sent[i][1] = other <=> u = t /\ i \in a + 1..a + m
  <2>1. CASE u # s
    BY <1>3, <2>1 DEF Extended, BytesAt
  <2>2. CASE u = s
    <3>1. i \in 1..l + k
      BY <1>3, <2>2 DEF Extended
    <3>2. CASE i \in 1..l
      BY <1>3, <2>2, <3>2 DEF Extended, BytesAt
    <3>3. CASE i \in l + 1..l + k
      <4>1. channels'[u].sent[i][1] # other
        BY <2>2, <3>3 DEF Extended
      <4>2. u = t => ~(i \in a + 1..a + m)
        BY <1>1, <2>2, <3>3
      <4> QED BY <4>1, <4>2
    <3> QED BY <1>1, <3>1, <3>2, <3>3
  <2> QED BY <2>1, <2>2
<1> QED BY <1>1, <1>2, <1>3 DEF BytesAt

(* The chunk extends the bytes that were last.                             *)
LEMMA AcceptedEnd ==
    ASSUME Core, LocksFit, LoopsNest, WritesFit, NEW f \in FrameSet, Sends(f),
           Accepted(f, ChunkSize(f))
    PROVE  /\ BytesEnd(channels', Id(f.by), f.session,
                       (Length(f.by) - f.left) + ChunkSize(f))
           /\ AllUnmixed'
<1> DEFINE s == f.session
           q == channels[s].sent
           r == channels'[s].sent
           n == Length(f.by) - f.left
           k == ChunkSize(f)
           id == Id(f.by)
           l == Len(q)
<1>1. /\ n \in Nat /\ n <= l /\ q \in Seq(ByteSet) /\ l \in Nat
      /\ \A t \in DOMAIN channels : \A i \in DOMAIN channels[t].sent :
            channels[t].sent[i][1] = id <=> t = s /\ i > l - n
      /\ n > 0 => q[l][2] = n
      /\ n = 0 => NoBytes(channels, id)
  BY BytesBefore
<1>2. Extended(s, id, n, k)
  BY AcceptedExtends
<1>3. s \in DOMAIN channels /\ f.by \in Callers /\ f.left > 0
  BY SendsBy DEF Sends
<1>4. k \in Nat /\ k > 0
  <2>1. k \in 1..f.left /\ f.left \in Nat
    BY <1>3, BytesType DEF Core, FrameSet
  <2> QED BY <2>1
<1> HIDE DEF n, k, id, l
<1>0. n \in Nat /\ n <= l /\ l \in Nat /\ k \in Nat /\ k > 0
  BY <1>1, <1>4
<1>5. /\ DOMAIN channels' = DOMAIN channels
      /\ \A t \in DOMAIN channels : t # s => channels'[t].sent = channels[t].sent
      /\ DOMAIN q = 1..l /\ DOMAIN r = 1..l + k /\ Len(r) = l + k
      /\ \A i \in 1..l : r[i] = q[i]
      /\ \A i \in l + 1..l + k : r[i] = <<id, n + (i - l)>>
  BY <1>2 DEF Extended, l
<1>6. BytesEnd(channels', id, s, n + k)
  <2>1. n + k \in Nat /\ n + k > 0 /\ Len(r) - (n + k) \in Nat
        /\ Len(r) - (n + k) = l - n /\ (l - n) + (n + k) = l + k
    <3>1. Len(r) = l + k
      BY <1>5
    <3> QED BY <1>0, <3>1
  <2>2. r[Len(r)][2] = n + k
    <3>1. l + k \in l + 1..l + k /\ (l + k) - l = k
      BY <1>0
    <3> QED BY <1>5, <3>1
  <2>3. ASSUME NEW t \in DOMAIN channels, NEW i \in DOMAIN channels'[t].sent
        PROVE  channels'[t].sent[i][1] = id
                  <=> t = s /\ i \in (l - n) + 1..(l - n) + (n + k)
    <3>1. CASE t # s
      BY <1>1, <1>5, <2>3, <3>1
    <3>2. CASE t = s
      <4>1. i \in 1..l + k
        BY <1>5, <2>3, <3>2
      <4>2. CASE i \in 1..l
        <5>1. r[i][1] = id <=> i > l - n
          BY <1>1, <1>3, <1>5, <4>2
        <5>2. i > l - n <=> i \in (l - n) + 1..(l - n) + (n + k)
          BY <1>0, <4>2
        <5> QED BY <3>2, <5>1, <5>2
      <4>3. CASE i \in l + 1..l + k
        <5>1. r[i][1] = id
          BY <1>5, <4>3
        <5>2. i \in (l - n) + 1..(l - n) + (n + k)
          BY <1>0, <4>3
        <5> QED BY <3>2, <5>1, <5>2
      <4>4. i \in 1..l \/ i \in l + 1..l + k
        BY <1>0, <4>1
      <4> QED BY <4>2, <4>3, <4>4
    <3> QED BY <3>1, <3>2
  <2> QED BY <1>3, <1>5, <2>1, <2>2, <2>3 DEF BytesEnd, BytesAt
<1>7. Unmixed(r)
  <2> DEFINE b == Bytes(f, ChunkSize(f))
  <2>1. /\ b \in Seq(ByteSet) /\ Len(b) = k
        /\ \A i \in 1..Len(b) : b[i] = <<id, n + i>>
    BY <1>3, BytesType DEF Core, k, id, n
  <2>2. r = q \o b
    BY <1>3, AcceptedFacts DEF Core
  <2>3. \/ n = 0 /\ \A i \in DOMAIN q : q[i][1] # id
        \/ n > 0 /\ l > 0 /\ q[l][1] = id /\ q[l][2] = n
    <3>1. CASE n = 0
      BY <1>1, <1>3, <3>1 DEF NoBytes
    <3>2. CASE n > 0
      <4>1. l > 0 /\ l \in DOMAIN q /\ l > l - n
        BY <1>1, <1>5, <3>2
      <4> QED BY <1>1, <1>3, <3>2, <4>1
    <3> QED BY <1>1, <3>1, <3>2
  <2>4. Unmixed(q)
    BY <1>3 DEF WritesFit, AllUnmixed
  <2>5. q \in Seq(ByteSet) /\ Len(b) > 0 /\ n \in Nat /\ l = Len(q)
    BY <1>0, <1>1, <2>1 DEF l
  <2> HIDE DEF b, q, r
  <2>6. \/ n = 0 /\ \A i \in DOMAIN q : q[i][1] # id
        \/ n > 0 /\ Len(q) > 0 /\ q[Len(q)][1] = id /\ q[Len(q)][2] = n
    BY <2>3, <2>5
  <2>7. Unmixed(q \o b)
    BY <2>1, <2>4, <2>5, <2>6, UnmixedGrows
  <2> QED BY <2>2, <2>7
<1>8. AllUnmixed'
  <2> SUFFICES ASSUME NEW t \in DOMAIN channels PROVE Unmixed(channels'[t].sent)
    BY <1>5 DEF AllUnmixed, Unmixed
  <2>1. CASE t # s
    BY <1>5, <2>1 DEF WritesFit, AllUnmixed
  <2> QED BY <1>7, <2>1
<1> QED BY <1>6, <1>8 DEF n, k, id

LEMMA SendsWrites ==
    ASSUME Core, LocksFit, LoopsNest, WritesFit, NEW f \in FrameSet, Sends(f)
    PROVE  WritesFit'
<1> DEFINE c == f.by
           g == ChunkFrame(f)
           n == Length(c) - f.left
           k == ChunkSize(f)
<1>1. /\ 1 \in DOMAIN stack /\ DOMAIN stack = {1} /\ c \in Callers /\ c = stack[1].by
      /\ pc[c] = "waits" /\ f.session \in DOMAIN channels /\ f.left > 0
  BY SendsBy, WriteAlone DEF Sends
<1>2. /\ DOMAIN stack' = {1} /\ stack'[1] = g
      /\ UNCHANGED <<call, calls, pc>> /\ devices_lock' = TRUE
  BY <1>1, TurnFacts DEF Core, Sends, callers
<1>3. /\ g.kind = "chunk" /\ g.by = c /\ g.session = f.session
      /\ g.left = f.left - k
  BY DEF ChunkFrame, FrameSet
<1>4. /\ \A e \in Callers : Id(e)' = Id(e) /\ Length(e)' = Length(e)
      /\ \A e \in Callers : e # c => Id(e) # Id(c)
      /\ \A e \in Callers : e # c => ~Chunking(e)
      /\ Chunking(c)'
  BY <1>1, <1>2, <1>3 DEF Id, Length, Chunking
<1>5. completions = 0
  BY DEF Sends, LoopsNest
<1>6. k \in Nat
  <2>1. k \in 1..f.left /\ f.left \in Nat
    BY <1>1, BytesType DEF Core, FrameSet
  <2> QED BY <2>1
<1> HIDE DEF g, n, k
<1>7. WriteLeft'
  BY <1>2, <1>3 DEF WriteLeft
<1>8. CASE Accepted(f, k)
  <2>1. Extended(f.session, Id(c), n, k)
    BY <1>8, AcceptedExtends DEF n, k
  <2>2. BytesEnd(channels', Id(c), f.session, n + k) /\ AllUnmixed'
    BY <1>8, AcceptedEnd DEF n, k
  <2>3. BytesOwned'
    <3> SUFFICES ASSUME NEW t \in DOMAIN channels', NEW i \in DOMAIN channels'[t].sent
                 PROVE  channels'[t].sent[i][1][2] <= calls[channels'[t].sent[i][1][1]]
      BY <1>2 DEF BytesOwned
    <3>1. CASE t # f.session
      BY <2>1, <3>1 DEF Extended, WritesFit, BytesOwned
    <3>2. CASE t = f.session
      <4> DEFINE l == Len(channels[t].sent)
      <4>1. i \in 1..l + k /\ l \in Nat
        BY <2>1, <3>2 DEF Extended
      <4>2. CASE i \in 1..l
        BY <1>1, <2>1, <3>2, <4>2 DEF Extended, WritesFit, BytesOwned
      <4>3. CASE i \in l + 1..l + k
        <5>1. channels'[t].sent[i][1] = <<c, calls[c]>>
          BY <2>1, <3>2, <4>3 DEF Extended, Id
        <5>2. calls[c] \in Nat
          BY <1>1, CallerType DEF Core
        <5> QED BY <5>1, <5>2
      <4>4. i \in 1..l \/ i \in l + 1..l + k
        BY <1>6, <4>1
      <4> QED BY <4>2, <4>3, <4>4
    <3> QED BY <3>1, <3>2
  <2>4. Unwritten'
    <3> SUFFICES ASSUME NEW e \in Callers, pc[e] \in {"asks", "waits"}, e # c
                 PROVE  NoBytes(channels', Id(e))
      BY <1>2, <1>4 DEF Unwritten
    <3> QED BY <1>4, <1>6, <2>1, ExtendedNoBytes DEF WritesFit, Unwritten
  <2>5. ChunksFit'
    <3>1. result'.write = "success"
      BY <1>8 DEF Accepted, Core, Types
    <3>2. Length(c) - g.left = n + k
      <4>1. Length(c) \in 0..UInt16Size - 1
        BY <1>1, LengthType DEF Core
      <4>2. f.left \in Int /\ Length(c) \in Int
        BY <4>1 DEF FrameSet
      <4> QED BY <1>3, <1>6, <4>2 DEF n
    <3>3. BytesEnd(channels', Id(c), g.session, Length(c) - g.left)
      BY <1>3, <2>2, <3>2
    <3>4. Id(stack[1].by)' = Id(c) /\ Length(stack[1].by)' = Length(c)
      BY <1>2, <1>3 DEF Id, Length
    <3>5. ChunkFits(stack[1])'
      BY <1>2, <3>1, <3>3, <3>4 DEF ChunkFits
    <3> QED BY <1>2, <3>5 DEF ChunksFit
  <2>6. DoneWhole'
    <3> SUFFICES ASSUME NEW e \in Callers, pc[e] = "done", call[e].op = "write"
                 PROVE  \/ NoBytes(channels', Id(e))
                        \/ \E s \in DOMAIN channels', a \in Nat :
                              BytesAt(channels', Id(e), s, a, Length(e))
      BY <1>2, <1>4 DEF DoneWhole, WholeOrNone
    <3>1. e # c /\ Id(e) # Id(c) /\ WholeOrNone(e)
      BY <1>1, <1>4 DEF WritesFit, DoneWhole
    <3>2. DOMAIN channels' = DOMAIN channels
      BY <2>1 DEF Extended
    <3>3. CASE NoBytes(channels, Id(e))
      BY <1>6, <2>1, <3>1, <3>3, ExtendedNoBytes
    <3>4. CASE \E s \in DOMAIN channels, a \in Nat :
                  BytesAt(channels, Id(e), s, a, Length(e))
      <4>1. PICK s \in DOMAIN channels, a \in Nat : BytesAt(channels, Id(e), s, a, Length(e))
        BY <3>4
      <4>2. BytesAt(channels', Id(e), s, a, Length(e))
        BY <1>6, <2>1, <3>1, <4>1, ExtendedBytesAt
      <4> QED BY <3>2, <4>2
    <3> QED BY <3>1, <3>3, <3>4 DEF WholeOrNone
  <2> QED BY <1>7, <2>2, <2>3, <2>4, <2>5, <2>6 DEF WritesFit
<1>9. CASE Refused(f) \/ ToNil(f)
  <2>1. channels' = channels /\ completions' = completions
    BY <1>9 DEF Refused, ToNil
  <2>2. Stuck'
    BY <1>2, <1>5, <2>1 DEF Stuck
  <2>3. ChunksFit'
    BY <2>2 DEF ChunksFit
  <2>4. Unwritten'
    BY <1>2, <1>4, <2>1 DEF WritesFit, Unwritten
  <2>5. DoneWhole'
    BY <1>2, <1>4, <2>1 DEF WritesFit, DoneWhole, WholeOrNone
  <2> QED BY <1>2, <1>7, <2>1, <2>3, <2>4, <2>5
          DEF WritesFit, BytesOwned, AllUnmixed, Unmixed
<1> QED BY <1>8, <1>9 DEF Sends, k

LEMMA EndsWrites ==
    ASSUME Core, LocksFit, LoopsNest, WritesFit, Ends
    PROVE  WritesFit'
<1> DEFINE f == stack[1]
           c == f.by
<1>1. /\ 1 \in DOMAIN stack /\ f.kind \in {"write", "chunk"} /\ ~devices_lock
      /\ Pops /\ EndWrite /\ stack # <<>>
  BY TopFrame DEF Core, Ends, Top, Pops
<1>2. /\ Len(stack) = 1 /\ DOMAIN stack = {1} /\ c \in Callers /\ pc[c] = "waits"
      /\ call[c].op = "write"
  BY <1>1, WriteAlone
<1>3. stack' = <<>> /\ DOMAIN stack' = {}
  BY <1>1, <1>2, PopFacts DEF Core
<1>4. /\ \A e \in Callers : pc'[e] = IF e = c THEN "done" ELSE pc[e]
      /\ UNCHANGED <<call, calls>> /\ channels' = channels
  BY <1>1, FinishFacts DEF EndWrite, Core, table
<1>5. \A e \in Callers : Id(e)' = Id(e) /\ Length(e)' = Length(e)
  BY <1>4 DEF Id, Length
<1>6. \A e \in Callers : e # c => ~Chunking(e)
  BY <1>2 DEF Chunking
<1>7. WholeOrNone(c)
  <2>1. CASE f.kind = "write"
    BY <1>2, <2>1 DEF Chunking, WritesFit, Unwritten, WholeOrNone
  <2>2. CASE f.kind = "chunk"
    <3>1. ChunkFits(f)
      BY <1>1, <2>2 DEF WritesFit, ChunksFit, Stuck
    <3>2. f.left = 0 /\ Length(c) \in Nat
      <4>1. ~(f.left > 0)
        BY <2>2, <3>1 DEF Ends, ChunkFits
      <4>2. f.left \in Nat /\ Length(c) \in 0..UInt16Size - 1
        BY <1>1, <1>2, FrameType, LengthType DEF Core
      <4> QED BY <4>1, <4>2
    <3>3. Length(c) - f.left = Length(c)
      BY <3>2
    <3>4. BytesEnd(channels, Id(c), f.session, Length(c))
      BY <3>1, <3>3 DEF ChunkFits
    <3> QED BY <3>4 DEF BytesEnd, BytesAt, WholeOrNone
  <2> QED BY <1>1, <2>1, <2>2
<1> HIDE DEF f, c
<1>8. Unwritten'
  BY <1>4, <1>5, <1>6 DEF WritesFit, Unwritten
<1>9. DoneWhole'
  BY <1>4, <1>5, <1>7 DEF WritesFit, DoneWhole, WholeOrNone
<1> QED BY <1>3, <1>4, <1>8, <1>9
        DEF WritesFit, BytesOwned, AllUnmixed, Unmixed, WriteLeft, ChunksFit

-----------------------------------------------------------------------------
(* The steps of the callers.                                               *)

LEMMA CallerWrites ==
    ASSUME Core, WritesFit, NEW c \in Callers, CallerSteps(c)
    PROVE  WritesFit'
<1>1. /\ stack' = stack /\ channels' = channels /\ result' = result
      /\ devices_lock' = devices_lock /\ completions' = completions
  BY DEF CallerSteps, Ask, Post, Return, table
<1>2. /\ pc[c] # "waits"
      /\ \A e \in Callers : e # c =>
            pc'[e] = pc[e] /\ call'[e] = call[e] /\ calls'[e] = calls[e]
  BY DEF CallerSteps, Ask, Post, Return, Core, Types
<1>3. \A e \in Callers : e # c => Id(e)' = Id(e) /\ Length(e)' = Length(e)
  BY <1>2 DEF Id, Length
<1>4. \A i \in DOMAIN stack :
         stack[i].kind \in {"write", "chunk"} => stack[i].by \in Callers /\ stack[i].by # c
  BY <1>2 DEF Core, FramesFit, FrameFits
<1>5. WriteLeft'
  <2> SUFFICES ASSUME NEW i \in DOMAIN stack, stack[i].kind = "write"
               PROVE  stack[i].left = Length(stack[i].by)'
    BY <1>1 DEF WriteLeft, Length
  <2> DEFINE e == stack[i].by
  <2>1. e \in Callers /\ e # c /\ stack[i].left = Length(e)
    BY <1>4 DEF WritesFit, WriteLeft
  <2>2. Length(stack[i].by)' = Length(e)
    BY <1>1, <1>2, <2>1 DEF Length
  <2> QED BY <2>1, <2>2
<1>6. ChunksFit'
  <2> SUFFICES ASSUME NEW i \in DOMAIN stack', stack'[i].kind = "chunk", ~Stuck'
               PROVE  ChunkFits(stack[i])'
    BY DEF ChunksFit
  <2> DEFINE e == stack[i].by
  <2>1. i \in DOMAIN stack /\ stack'[i] = stack[i] /\ stack[i].kind = "chunk" /\ ~Stuck
    BY <1>1 DEF Stuck
  <2>2. e \in Callers /\ e # c /\ ChunkFits(stack[i])
    BY <1>4, <2>1 DEF WritesFit, ChunksFit
  <2>3. Length(stack[i].by)' = Length(e) /\ Id(stack[i].by)' = Id(e)
    BY <1>2, <2>1, <2>2 DEF Length, Id
  <2> QED BY <1>1, <2>1, <2>2, <2>3 DEF ChunkFits
<1>7. \A e \in Callers : Chunking(e)' <=> Chunking(e)
  BY <1>1 DEF Chunking
<1>8. CASE \E op \in Ops, d \in Devices, n \in Lengths \cup {0} : Ask(c, op, d, n)
  <2>1. /\ pc[c] = "idle" /\ pc'[c] = "asks" /\ calls'[c] = calls[c] + 1
        /\ calls[c] \in Nat
    BY <1>8, CallerType DEF Ask, Core, Types
  <2>2. BytesOwned'
    <3> SUFFICES ASSUME NEW s \in DOMAIN channels, NEW i \in DOMAIN channels[s].sent
                 PROVE  channels[s].sent[i][1][2] <= calls'[channels[s].sent[i][1][1]]
      BY <1>1 DEF BytesOwned
    <3> DEFINE id == channels[s].sent[i][1]
    <3>1. id \in Callers \X Nat
      <4>1. channels[s].sent[i] \in ByteSet
        BY ChannelType DEF Core
      <4> QED BY <4>1 DEF ByteSet
    <3>2. id[1] \in Callers /\ id[2] \in Nat /\ id[2] <= calls[id[1]]
      BY <3>1 DEF WritesFit, BytesOwned
    <3> HIDE DEF id
    <3>3. id[2] <= calls'[id[1]]
      <4>1. CASE id[1] = c
        BY <2>1, <3>2, <4>1
      <4>2. CASE id[1] # c
        BY <1>2, <3>2, <4>2
      <4> QED BY <4>1, <4>2
    <3> QED BY <3>3 DEF id
  <2>3. NoBytes(channels, Id(c)')
    <3> SUFFICES ASSUME NEW s \in DOMAIN channels, NEW i \in DOMAIN channels[s].sent,
                        channels[s].sent[i][1] = Id(c)'
                 PROVE  FALSE
      BY DEF NoBytes
    <3>1. Id(c)' = <<c, calls[c] + 1>>
      BY <2>1 DEF Id
    <3>2. calls[c] + 1 <= calls[c]
      BY <3>1 DEF WritesFit, BytesOwned
    <3> QED BY <2>1, <3>2
  <2>4. Unwritten'
    <3> SUFFICES ASSUME NEW e \in Callers, pc'[e] \in {"asks", "waits"}, ~Chunking(e)
                 PROVE  NoBytes(channels, Id(e)')
      BY <1>1, <1>7 DEF Unwritten, Id
    <3>1. CASE e = c
      BY <2>3, <3>1
    <3>2. CASE e # c
      BY <1>2, <1>3, <3>2 DEF WritesFit, Unwritten
    <3> QED BY <3>1, <3>2
  <2>5. DoneWhole'
    <3> SUFFICES ASSUME NEW e \in Callers, pc'[e] = "done", call'[e].op = "write"
                 PROVE  WholeOrNone(e)'
      BY DEF DoneWhole
    <3>1. e # c
      BY <2>1
    <3>2. WholeOrNone(e) /\ Id(e)' = Id(e) /\ Length(e)' = Length(e)
      BY <1>2, <1>3, <3>1 DEF WritesFit, DoneWhole
    <3> QED BY <1>1, <3>2 DEF WholeOrNone
  <2> QED BY <1>1, <1>5, <1>6, <2>2, <2>4, <2>5 DEF WritesFit, AllUnmixed, Unmixed
<1>9. CASE Post(c) \/ Return(c)
  <2>1. calls' = calls /\ (pc'[c] \in {"asks", "waits"} => pc[c] \in {"asks", "waits"})
        /\ pc'[c] # "done"
    BY <1>9 DEF Post, Return, Core, Types
  <2>2. \A e \in Callers : Id(e)' = Id(e)
    BY <2>1 DEF Id
  <2>3. Unwritten'
    BY <1>1, <1>2, <1>7, <2>1, <2>2 DEF WritesFit, Unwritten
  <2>4. DoneWhole'
    <3> SUFFICES ASSUME NEW e \in Callers, pc'[e] = "done", call'[e].op = "write"
                 PROVE  WholeOrNone(e)'
      BY DEF DoneWhole
    <3>1. e # c
      BY <2>1
    <3>2. WholeOrNone(e) /\ Id(e)' = Id(e) /\ Length(e)' = Length(e)
      BY <1>2, <1>3, <3>1 DEF WritesFit, DoneWhole
    <3> QED BY <1>1, <3>2 DEF WholeOrNone
  <2> QED BY <1>1, <1>5, <1>6, <2>1, <2>3, <2>4 DEF WritesFit, BytesOwned, AllUnmixed, Unmixed
<1> QED BY <1>8, <1>9 DEF CallerSteps

LEMMA WritesStep ==
    ASSUME Core, LocksFit, LoopsNest, WritesFit, [Next]_vars
    PROVE  WritesFit'
<1>1. ASSUME NEW c \in Callers, CallerSteps(c)
      PROVE  WritesFit'
  BY <1>1, CallerWrites
<1>2. CASE WorkerStep
  <2>1. CASE Ends
    BY <2>1, EndsWrites
  <2>2. ASSUME NEW f \in FrameSet, Sends(f)
        PROVE  WritesFit'
    BY <2>2, SendsWrites
  <2>3. CASE ~Ends /\ \A f \in FrameSet : ~Sends(f)
    <3>1. PICK d \in {-1, 0, 1} : Shifted("chunk", d)
      BY <1>2, <2>3, QuietWrites
    <3>2. SentStays /\ result'.write = result.write /\ (Stuck => Stuck')
      BY <1>2, <2>3, QuietWrites
    <3>3. UNCHANGED <<call, calls>>
      BY <1>2, WorkerCallers
    <3>4. \A c \in Callers :
             \/ pc'[c] = pc[c]
             \/ pc[c] = "waits" /\ pc'[c] = "done" /\ call[c].op # "write"
      <4> SUFFICES ASSUME NEW c \in Callers, pc'[c] # pc[c]
                   PROVE  pc[c] = "waits" /\ pc'[c] = "done" /\ call[c].op # "write"
        OBVIOUS
      <4>1. /\ pc[c] = "waits" /\ pc'[c] = "done" /\ 1 \in DOMAIN stack /\ c = stack[1].by
            /\ ConnectDeviceTask \/ DisconnectFromDeviceTask \/ GetRFCOMMChannelIDTask
        BY <1>2, <2>3, WorkerCallers
      <4>2. stack[1].kind \in {"connect", "disconnect", "sdp"}
        BY <4>1, TopFrame
           DEF ConnectDeviceTask, DisconnectFromDeviceTask, GetRFCOMMChannelIDTask, Top, Core
      <4>3. FrameFits(stack[1]) /\ c # NoCaller
        BY <4>1, CallersAssumption DEF Core, FramesFit
      <4> QED BY <4>1, <4>2, <4>3 DEF FrameFits
    <3>5. Core' /\ WriteLeft'
      BY <1>2, CoreStep, LeftStep DEF WritesFit
    <3> QED BY <3>1, <3>2, <3>3, <3>4, <3>5, WritesStay
  <2> QED BY <2>1, <2>2, <2>3
<1>3. CASE UNCHANGED vars
  <2>1. /\ UNCHANGED <<pc, call, calls, result, stack, devices_lock, channels, completions>>
    BY <1>3 DEF vars, callers, table
  <2>2. \A c : Id(c)' = Id(c) /\ Length(c)' = Length(c)
    BY <2>1 DEF Id, Length
  <2> QED BY <2>1 DEF WritesFit, BytesOwned, Unwritten, WriteLeft, ChunksFit, DoneWhole,
        AllUnmixed, Unmixed, Chunking, Stuck, ChunkFits, WholeOrNone, Id, Length
<1> QED BY <1>1, <1>2, <1>3, NextCases

LEMMA WritesHold == Spec => []WritesFit
<1>1. Init => WritesFit
  <2> SUFFICES ASSUME Init PROVE WritesFit
    OBVIOUS
  <2>1. /\ DOMAIN channels = {} /\ DOMAIN stack = {}
        /\ \A c \in Callers : pc[c] = "idle"
    BY DEF Init
  <2> QED BY <2>1 DEF WritesFit, BytesOwned, Unwritten, WriteLeft, ChunksFit, DoneWhole,
                      AllUnmixed
<1>2. Core /\ LocksFit /\ LoopsNest /\ WritesFit /\ [Next]_vars => WritesFit'
  BY WritesStep
<1> QED BY <1>1, <1>2, CoreHolds, LocksHold, LoopsHold, PTL DEF Spec

(* What a channel carried is the bytes of one call to write after another, *)
(* each from its first byte on and without a gap, although a write goes on *)
(* from nested run loops and others wait in them.                          *)
THEOREM WritesAreApart == Spec => []WritesDoNotMix
<1>1. WritesFit => WritesDoNotMix
  BY DEF WritesFit, AllUnmixed, Unmixed, WritesDoNotMix
<1> QED BY <1>1, WritesHold, PTL

Places(s, a, n) == {<<s, i>> : i \in a + 1..a + n}

LEMMA CountPlaces ==
    ASSUME NEW s, NEW a \in Nat, NEW n \in Nat
    PROVE  Cardinality(Places(s, a, n)) = n
<1> DEFINE I == a + 1..a + n
           P == Places(s, a, n)
           b == [i \in I |-> <<s, i>>]
<1>1. IsFiniteSet(I) /\ Cardinality(I) = n
  <2>1. a + 1 \in Int /\ a + n \in Int
    OBVIOUS
  <2>2. IsFiniteSet(I) /\ Cardinality(I) = IF a + 1 > a + n THEN 0 ELSE (a + n) - (a + 1) + 1
    BY <2>1, FS_Interval, Zenon
  <2> QED BY <2>2
<1>2. b \in Bijection(I, P)
  BY DEF Bijection, Injection, Surjection, IsInjective, Places
<1>3. ExistsBijection(I, P)
  BY <1>2 DEF ExistsBijection
<1> HIDE DEF I, P
<1>4. Cardinality(P) = Cardinality(I)
  BY <1>1, <1>3, FS_Bijection, Zenon
<1> QED BY <1>1, <1>4 DEF P

(* A write that returns has put all its bytes on one channel or none on    *)
(* any, if its length fits the worker's 16 bits: a longer one is cut.      *)
THEOREM WritesAreWhole ==
    (\A n \in Lengths : n < UInt16Size) => (Spec => []WritesWhole)
<1> SUFFICES ASSUME \A n \in Lengths : n < UInt16Size
             PROVE  Spec => []WritesWhole
  OBVIOUS
<1>1. Core /\ WritesFit => WritesWhole
  <2> SUFFICES ASSUME Core, WritesFit, NEW c \in Callers, pc[c] = "done", call[c].op = "write"
               PROVE  BytesSent(c) \in {0, call[c].length}
    BY DEF WritesWhole
  <2> DEFINE B == {si \in UNION {{<<s, i>> : i \in DOMAIN channels[s].sent} :
                                    s \in DOMAIN channels} :
                      channels[si[1]].sent[si[2]][1] = Id(c)}
  <2>1. Length(c) = call[c].length /\ Length(c) \in Nat
    <3>1. call[c].length \in Lengths
      BY CallerType DEF Core
    <3>2. call[c].length \in Nat /\ call[c].length < UInt16Size /\ UInt16Size \in Nat \ {0}
      BY <3>1, NumbersAssumption
    <3> QED BY <3>2 DEF Length
  <2>2. WholeOrNone(c)
    BY DEF WritesFit, DoneWhole
  <2>3. CASE NoBytes(channels, Id(c))
    <3>1. B = {}
      BY <2>3 DEF NoBytes
    <3>2. Cardinality(B) = 0
      <4> HIDE DEF B
      <4> QED BY <3>1, FS_EmptySet, Zenon
    <3> QED BY <3>2 DEF BytesSent
  <2>4. ASSUME NEW s \in DOMAIN channels, NEW a \in Nat,
               BytesAt(channels, Id(c), s, a, Length(c))
        PROVE  BytesSent(c) = Length(c)
    <3>1. channels[s].sent \in Seq(ByteSet)
      BY ChannelType DEF Core
    <3>2. \A i \in a + 1..a + Length(c) : i \in DOMAIN channels[s].sent
      BY <2>1, <2>4, <3>1 DEF BytesAt
    <3>3. B = Places(s, a, Length(c))
      <4>1. ASSUME NEW x \in B
            PROVE  x \in Places(s, a, Length(c))
        <5>0. PICK t \in DOMAIN channels : \E i \in DOMAIN channels[t].sent :
                 x = <<t, i>> /\ channels[t].sent[i][1] = Id(c)
          BY <4>1
        <5>1. PICK i \in DOMAIN channels[t].sent :
                 x = <<t, i>> /\ channels[t].sent[i][1] = Id(c)
          BY <5>0
        <5>2. t = s /\ i \in a + 1..a + Length(c)
          BY <2>4, <5>1 DEF BytesAt
        <5> QED BY <5>1, <5>2 DEF Places
      <4>2. ASSUME NEW x \in Places(s, a, Length(c))
            PROVE  x \in B
        <5>1. PICK i \in a + 1..a + Length(c) : x = <<s, i>>
          BY <4>2 DEF Places
        <5>2. i \in DOMAIN channels[s].sent
          BY <3>2
        <5>3. channels[s].sent[i][1] = Id(c)
          BY <2>4, <5>2 DEF BytesAt
        <5> QED BY <5>1, <5>2, <5>3
      <4> QED BY <4>1, <4>2
    <3> HIDE DEF B
    <3>4. Cardinality(B) = Length(c)
      BY <2>1, <3>3, CountPlaces
    <3> USE DEF B
    <3> QED BY <3>4 DEF BytesSent
  <2> QED BY <2>1, <2>2, <2>3, <2>4 DEF WholeOrNone
<1> QED BY <1>1, CoreHolds, WritesHold, PTL
=============================================================================
