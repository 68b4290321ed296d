------------------------------ MODULE OsxProofs ------------------------------
(***************************************************************************)
(* Theorems about OsxBinding, for any bindings, addresses and lengths.  A  *)
(* binding is the worker's client: what WorkerProofs says of the worker    *)
(* holds under it, and these theorems rest on it.                          *)
(***************************************************************************)
EXTENDS OsxBinding, WorkerChannelProofs

(* Every step of a binding is one the worker's callers may take.           *)
THEOREM BindingsUseTheWorker == BindingSpec => Spec
<1>1. BindingInit => Init
  BY DEF BindingInit
<1>2. [BindingNext]_allVars => [Next]_vars
  <2>1. ASSUME NEW c \in Callers, NEW op \in Ops, NEW d \in Devices,
               NEW n \in Lengths \cup {0}, Calls(c, op, d, n)
        PROVE  Next
    BY <2>1 DEF Calls, Next
  <2>2. ASSUME NEW c \in Callers, Post(c) \/ ReturnsToBinding(c) PROVE Next
    BY <2>2 DEF ReturnsToBinding, Next
  <2>3. ASSUME NEW c \in Callers,
               EndConnect(c) \/ ReadBegins(c) \/ ReadStep(c)
        PROVE  UNCHANGED vars
    BY <2>3 DEF EndConnect, ReadBegins, ReadStep, ReadGetsData, ReadEnds,
                  FreeConsumer, ForgetConsumer
  <2>4. WorkerStep => Next
    BY DEF Next
  <2>5. UNCHANGED allVars => UNCHANGED vars
    BY DEF allVars
  <2> QED BY <2>1, <2>2, <2>3, <2>4, <2>5 DEF BindingNext
<1> QED BY <1>1, <1>2, PTL DEF BindingSpec, Spec

-----------------------------------------------------------------------------
(* The channels of a binding: all to its address, opened one after the     *)
(* other, the earlier ones closed when the next one opens.                 *)

OwnAddress ==
    \A c \in Callers : pc[c] # "idle" /\ call[c].op # "sdp" => call[c].device = AddressOf[c]

ChannelAddresses ==
    \A s \in DOMAIN channels : channels[s].device = AddressOf[channels[s].by[1]]

CallOrder ==
    \A s, t \in DOMAIN channels :
        s < t /\ channels[s].by[1] = channels[t].by[1] => channels[s].by[2] < channels[t].by[2]

EarlierClosed ==
    \A s, t \in DOMAIN channels :
        s < t /\ channels[s].device = channels[t].device => ~channels[s].open

ChannelsInOrder == OwnAddress /\ ChannelAddresses /\ CallOrder /\ EarlierClosed

(* The pipe that Connect is about to keep is the one of its own call, and  *)
(* a careful binding's Read has the consumer it pops from, its channel     *)
(* closed once the pop returned 0, while no Connect runs.                  *)
ReadPlaces == {"none", "pop", "free", "forget"}

BindingTypes ==
    /\ consumer \in [Callers -> Nat] /\ opened \in [Callers -> Nat]
    /\ reading \in [Callers -> [at : ReadPlaces, pipe : Nat, length : Nat]]

PipesExist ==
    /\ released \subseteq DOMAIN channels
    /\ \A c \in Callers : opened[c] # 0 =>
          opened[c] \in DOMAIN channels /\ channels[opened[c]].by = Id(c)

ReadsFit ==
    \A c \in Callers \ careless : reading[c] # NotReading =>
        /\ reading[c].pipe = consumer[c] /\ reading[c].length > 0
        /\ opened[c] = 0 /\ call[c].op # "connect"
        /\ reading[c].at # "pop" => consumer[c] \in released /\ ~channels[consumer[c]].open

BindingFits == BindingTypes /\ PipesExist /\ ReadsFit /\ ConnectedCanRead

(* However carelessly it is used, a binding's consumers are of its own     *)
(* channels, each kept once, and one that was given back is forgotten      *)
(* before the Read returns.                                                *)
KeptOnce ==
    /\ \A c \in Callers : opened[c] # 0 => pc[c] = "idle" /\ opened[c] \notin released
    /\ \A c \in Callers, s \in released : channels[s].by = Id(c) => pc[c] = "idle"

ConsumersOwn ==
    /\ freed \subseteq released
    /\ \A c \in Callers : consumer[c] # 0 =>
          /\ consumer[c] \in released /\ channels[consumer[c]].by[1] = c
          /\ consumer[c] \in freed => reading[c].at = "forget"

ReadsOwn ==
    \A c \in Callers :
        /\ reading[c].at = "pop" => /\ reading[c].pipe \in released \ freed
                                   /\ channels[reading[c].pipe].by[1] = c
        /\ reading[c].at # "none" => consumer[c] # 0

ConsumersLive == KeptOnce /\ ConsumersOwn /\ ReadsOwn

(* A step of the worker other than one that opens a channel opens none.    *)
Settled ==
    /\ KeepsChannels
    /\ \A s \in DOMAIN channels : channels'[s].open => channels[s].open

LEMMA WorkerChannels ==
    ASSUME Core, WorkerStep
    PROVE  Settled \/ (ConnectDeviceTask /\ Connects)
<1>1. CASE ConnectDeviceTask
  BY <1>1, ConnectEnds, UnchangedChannels DEF Settled
<1>2. CASE DisconnectFromDeviceTask
  BY <1>2, DisconnectsFacts DEF Core, Settled, KeepsChannels
<1>3. CASE ~ConnectDeviceTask /\ ~DisconnectFromDeviceTask
  BY <1>3, OpenSteps DEF Settled
<1> QED BY <1>1, <1>2, <1>3

LEMMA SettledOrder ==
    ASSUME ChannelsInOrder, Settled
    PROVE  ChannelAddresses' /\ CallOrder' /\ EarlierClosed'
BY DEF ChannelsInOrder, Settled, KeepsChannels, SameChannel, ChannelAddresses,
       CallOrder, EarlierClosed

LEMMA OpeningOrder ==
    ASSUME Core, TableFits, ChannelsOwned, ChannelsInOrder, ConnectDeviceTask, Connects
    PROVE  ChannelAddresses' /\ CallOrder' /\ EarlierClosed'
<1> DEFINE d == stack[1].device
           c == stack[1].by
           n == Len(channels) + 1
<1>1. /\ d \in Devices /\ c \in Callers /\ n \in Nat
      /\ DOMAIN channels = 1..n - 1 /\ DOMAIN channels' = 1..n
      /\ \A t \in DOMAIN channels : channels'[t] = channels[t]
      /\ channels'[n] = Channel(d, Id(c)) /\ devices[d] = 0
  BY ConnectsFacts DEF Core
<1>2. channels'[n].device = d /\ channels'[n].by = Id(c)
  BY <1>1 DEF Channel
<1>3. d = AddressOf[c]
  <2>1. 1 \in DOMAIN stack /\ call[c].op = "connect" /\ pc[c] = "waits"
    BY ConnectEnds
  <2>2. call[c].device = d
    BY <1>1, <2>1 DEF Core, FramesFit, FrameFits
  <2> QED BY <1>1, <2>1, <2>2 DEF ChannelsInOrder, OwnAddress
<1>4. Id(c)[1] = c /\ Id(c)[2] = calls[c] /\ calls[c] \in Nat
  BY <1>1, CallerType DEF Id, Core
<1>5. pc[c] = "waits"
  BY ConnectEnds
<1>6. \A s \in DOMAIN channels : channels[s].by[1] = c => channels[s].by[2] < calls[c]
  <2> SUFFICES ASSUME NEW s \in DOMAIN channels, channels[s].by[1] = c
               PROVE  channels[s].by[2] < calls[c]
    OBVIOUS
  <2>1. channels[s].by[2] <= calls[c] /\ channels[s].by # Id(c)
    BY <1>1, <1>5 DEF ChannelsOwned
  <2>2. channels[s].by = <<channels[s].by[1], channels[s].by[2]>> /\ channels[s].by[2] \in Nat
    BY ChannelType DEF Core
  <2>3. channels[s].by[2] # calls[c]
    BY <2>1, <2>2 DEF Id
  <2> QED BY <1>4, <2>1, <2>2, <2>3
<1>7. \A s \in DOMAIN channels : channels[s].device = d => ~channels[s].open
  BY <1>1 DEF TableFits, Core, Types
<1> HIDE DEF d, c, n
<1>8. \A s \in DOMAIN channels' : s # n => s \in DOMAIN channels
  BY <1>1
<1>9. \A t \in DOMAIN channels' : ~(n < t)
  BY <1>1
<1>10. ChannelAddresses'
  BY <1>1, <1>2, <1>3, <1>4, <1>8 DEF ChannelsInOrder, ChannelAddresses
<1>11. CallOrder'
  <2> SUFFICES ASSUME NEW s \in DOMAIN channels', NEW t \in DOMAIN channels', s < t,
                      channels'[s].by[1] = channels'[t].by[1]
               PROVE  channels'[s].by[2] < channels'[t].by[2]
    BY DEF CallOrder
  <2>1. s \in DOMAIN channels /\ channels'[s] = channels[s]
    BY <1>1, <1>8, <1>9
  <2>2. CASE t = n
    BY <1>2, <1>4, <1>6, <2>1, <2>2
  <2>3. CASE t # n
    BY <1>1, <1>8, <2>1, <2>3 DEF ChannelsInOrder, CallOrder
  <2> QED BY <2>2, <2>3
<1>12. EarlierClosed'
  <2> SUFFICES ASSUME NEW s \in DOMAIN channels', NEW t \in DOMAIN channels', s < t,
                      channels'[s].device = channels'[t].device
               PROVE  ~channels'[s].open
    BY DEF EarlierClosed
  <2>1. s \in DOMAIN channels /\ channels'[s] = channels[s]
    BY <1>1, <1>8, <1>9
  <2>2. CASE t = n
    BY <1>2, <1>7, <2>1, <2>2
  <2>3. CASE t # n
    BY <1>1, <1>8, <2>1, <2>3 DEF ChannelsInOrder, EarlierClosed
  <2> QED BY <2>2, <2>3
<1> QED BY <1>10, <1>11, <1>12

(* The steps of a binding, by what they leave alone.                       *)
LEMMA BindingCases ==
    ASSUME [BindingNext]_allVars
    PROVE  \/ \E c \in Callers, op \in Ops, d \in Devices, n \in Lengths \cup {0} :
                 Calls(c, op, d, n)
           \/ \E c \in Callers : Post(c) /\ UNCHANGED binding
           \/ \E c \in Callers : ReturnsToBinding(c)
           \/ UNCHANGED vars /\ \E c \in Callers :
                 EndConnect(c) \/ ReadBegins(c) \/ ReadStep(c)
           \/ WorkerStep /\ UNCHANGED binding
           \/ UNCHANGED vars /\ UNCHANGED binding
<1>1. ASSUME NEW c \in Callers,
             EndConnect(c) \/ ReadBegins(c) \/ ReadStep(c)
      PROVE  UNCHANGED vars
  BY <1>1 DEF EndConnect, ReadBegins, ReadStep, ReadGetsData, ReadEnds,
              FreeConsumer, ForgetConsumer
<1>2. UNCHANGED allVars => UNCHANGED vars /\ UNCHANGED binding
  BY DEF allVars
<1> QED BY <1>1, <1>2 DEF BindingNext

LEMMA OrderStep ==
    ASSUME Core, TableFits, ChannelsOwned, ChannelsInOrder, [BindingNext]_allVars
    PROVE  ChannelsInOrder'
<1>1. ASSUME NEW c \in Callers, NEW op \in Ops, NEW d \in Devices,
             NEW n \in Lengths \cup {0}, Calls(c, op, d, n)
      PROVE  ChannelsInOrder'
  <2>1. /\ channels' = channels
        /\ pc' = [pc EXCEPT ![c] = "asks"]
        /\ call' = [call EXCEPT ![c] = [op |-> op, device |-> d, length |-> n]]
        /\ op # "sdp" => d = AddressOf[c]
    BY <1>1 DEF Calls, Ask, table
  <2>2. call'[c].op = op /\ call'[c].device = d
    BY <2>1 DEF Core, Types
  <2>3. \A e \in Callers : e # c => pc'[e] = pc[e] /\ call'[e] = call[e]
    BY <2>1 DEF Core, Types
  <2>4. OwnAddress'
    BY <2>1, <2>2, <2>3 DEF ChannelsInOrder, OwnAddress
  <2>5. ChannelAddresses' /\ CallOrder' /\ EarlierClosed'
    BY <2>1 DEF ChannelsInOrder, ChannelAddresses, CallOrder, EarlierClosed
  <2> QED BY <2>4, <2>5 DEF ChannelsInOrder
<1>2. ASSUME NEW c \in Callers, Post(c) \/ Return(c)
      PROVE  ChannelsInOrder'
  <2>1. channels' = channels
    BY <1>2 DEF Post, Return, table
  <2>2. \A e \in Callers : pc'[e] # "idle" => pc[e] # "idle" /\ call'[e] = call[e]
    BY <1>2 DEF Post, Return, Core, Types
  <2> QED BY <2>1, <2>2
          DEF ChannelsInOrder, OwnAddress, ChannelAddresses, CallOrder, EarlierClosed
<1>3. CASE WorkerStep
  <2>1. call' = call /\ \A e \in Callers : pc'[e] # "idle" => pc[e] # "idle"
    BY <1>3, WorkerCallers
  <2>2. OwnAddress'
    BY <2>1 DEF ChannelsInOrder, OwnAddress
  <2> QED BY <1>3, <2>2, WorkerChannels, SettledOrder, OpeningOrder DEF ChannelsInOrder
<1>4. CASE UNCHANGED vars
  BY <1>4 DEF vars, callers, table, ChannelsInOrder, OwnAddress, ChannelAddresses,
              CallOrder, EarlierClosed
<1> QED BY <1>1, <1>2, <1>3, <1>4, BindingCases DEF ReturnsToBinding

(* What the worker's proofs say, under the binding.                        *)
LEMMA UnderBinding ==
    BindingSpec => [](Core /\ TableFits /\ ChannelsOwned /\ ResultsAreOwn)
BY BindingsUseTheWorker, CoreHolds, TableHolds, OwnersHold, AnswersAreOwn, PTL

LEMMA OrderHolds == BindingSpec => []ChannelsInOrder
<1>1. BindingInit => ChannelsInOrder
  BY DEF BindingInit, Init, ChannelsInOrder, OwnAddress, ChannelAddresses,
         CallOrder, EarlierClosed
<1>2. /\ Core /\ TableFits /\ ChannelsOwned /\ ResultsAreOwn
      /\ ChannelsInOrder /\ [BindingNext]_allVars
      => ChannelsInOrder'
  BY OrderStep
<1> QED BY <1>1, <1>2, UnderBinding, PTL DEF BindingSpec

-----------------------------------------------------------------------------
(* Connect, Read and the consumer they share.                              *)

(* What a step of the worker or of another call leaves to the binding.     *)
LEMMA StillFits ==
    ASSUME BindingFits, UNCHANGED <<pipes, reading>>, careless \subseteq careless',
           DOMAIN channels' = DOMAIN channels,
           \A s \in DOMAIN channels :
              channels'[s].by = channels[s].by /\ (channels'[s].open => channels[s].open),
           \A c \in Callers : opened[c] # 0 => calls'[c] = calls[c],
           \A c \in Callers \ careless' : reading[c] # NotReading => call'[c].op # "connect"
    PROVE  BindingFits'
<1>1. /\ consumer' = consumer /\ opened' = opened /\ released' = released
      /\ reading' = reading
  BY DEF pipes
<1>2. BindingTypes'
  BY <1>1 DEF BindingFits, BindingTypes
<1>3. PipesExist'
  BY <1>1 DEF BindingFits, PipesExist, Id
<1>4. ReadsFit'
  BY <1>1 DEF BindingFits, PipesExist, ReadsFit
<1>5. ConnectedCanRead'
  BY <1>1 DEF BindingFits, ConnectedCanRead
<1> QED BY <1>2, <1>3, <1>4, <1>5 DEF BindingFits

LEMMA CallsFits ==
    ASSUME Core, BindingFits, NEW c \in Callers, NEW op \in Ops,
           NEW d \in Devices, NEW n \in Lengths \cup {0}, Calls(c, op, d, n)
    PROVE  BindingFits'
<1>1. /\ UNCHANGED <<pipes, reading>> /\ channels' = channels /\ opened[c] = 0
      /\ careless \subseteq careless'
      /\ op = "connect" /\ reading[c] # NotReading => c \in careless'
      /\ call' = [call EXCEPT ![c] = [op |-> op, device |-> d, length |-> n]]
      /\ calls' = [calls EXCEPT ![c] = calls[c] + 1]
  BY DEF Calls, Ask, table
<1>2. \A e \in Callers : opened[e] # 0 => calls'[e] = calls[e]
  BY <1>1 DEF Core, Types
<1>3. \A e \in Callers \ careless' : reading[e] # NotReading => call'[e].op # "connect"
  <2>1. call'[c].op = op /\ \A e \in Callers : e # c => call'[e] = call[e]
    BY <1>1 DEF Core, Types
  <2> QED BY <1>1, <2>1 DEF BindingFits, ReadsFit
<1> QED BY <1>1, <1>2, <1>3, StillFits

LEMMA PostFits ==
    ASSUME Core, BindingFits, NEW c \in Callers, Post(c), UNCHANGED binding
    PROVE  BindingFits'
BY StillFits DEF Post, table, binding, BindingFits, ReadsFit

(* A channel that opens has a pipe_t still to be given back.               *)
LEMMA WorkerFits ==
    ASSUME Core, BindingFits, WorkerStep, UNCHANGED binding
    PROVE  BindingFits'
<1>1. call' = call /\ calls' = calls
  BY WorkerCallers
<1>2. CASE Settled
  BY <1>1, <1>2, StillFits
     DEF Settled, KeepsChannels, SameChannel, binding, BindingFits, ReadsFit
<1>3. CASE Connects
  <2>1. /\ DOMAIN channels \subseteq DOMAIN channels'
        /\ \A s \in DOMAIN channels : channels'[s] = channels[s]
    BY <1>3, ConnectsFacts DEF Core
  <2>2. /\ consumer' = consumer /\ opened' = opened /\ released' = released
        /\ reading' = reading /\ careless' = careless
    BY DEF binding, pipes
  <2>3. BindingTypes'
    BY <2>2 DEF BindingFits, BindingTypes
  <2>4. PipesExist'
    BY <1>1, <2>1, <2>2 DEF BindingFits, PipesExist, Id
  <2>5. ReadsFit'
    BY <1>1, <2>1, <2>2 DEF BindingFits, PipesExist, ReadsFit
  <2>6. ConnectedCanRead'
    BY <2>1, <2>2 DEF BindingFits, PipesExist, ConnectedCanRead
  <2> QED BY <2>3, <2>4, <2>5, <2>6 DEF BindingFits
<1> QED BY <1>2, <1>3, WorkerChannels

(* The connect that succeeded opened a channel, so OpenedBy finds it.      *)
LEMMA ReturnFits ==
    ASSUME Core, ResultsAreOwn, BindingFits, NEW c \in Callers, ReturnsToBinding(c)
    PROVE  BindingFits'
<1>1. /\ consumer' = consumer /\ released' = released /\ reading' = reading
      /\ freed' = freed /\ careless' = careless
      /\ channels' = channels /\ calls' = calls /\ pc[c] = "done"
      /\ call' = [call EXCEPT ![c] = NoCall]
  BY DEF ReturnsToBinding, Return, table
<1>2. \A e \in Callers \ careless : reading[e] # NotReading => call'[e].op # "connect"
  <2>1. call'[c] = NoCall /\ \A e \in Callers : e # c => call'[e] = call[e]
    BY <1>1 DEF Core, Types
  <2> QED BY <2>1 DEF NoCall, BindingFits, ReadsFit
<1>3. CASE opened' = opened
  BY <1>1, <1>2, <1>3, StillFits DEF pipes, ReturnsToBinding
<1>4. CASE /\ call[c].op = "connect" /\ result.connect = "success"
           /\ opened' = [opened EXCEPT ![c] = OpenedBy(Id(c))]
  <2> DEFINE s == OpenedBy(Id(c))
  <2>1. s \in DOMAIN channels /\ channels[s].by = Id(c)
    BY <1>1, <1>4 DEF ResultsAreOwn, OpenedBy
  <2>2. s \in Nat
    BY <2>1 DEF Core, Types
  <2>3. opened' = [opened EXCEPT ![c] = s]
    BY <1>4
  <2> HIDE DEF s
  <2>4. opened \in [Callers -> Nat]
    BY DEF BindingFits, BindingTypes
  <2>5. /\ opened' \in [Callers -> Nat] /\ opened'[c] = s
        /\ \A e \in Callers : e # c => opened'[e] = opened[e]
    BY <2>2, <2>3, <2>4
  <2>6. c \in careless \/ reading[c] = NotReading
    BY <1>4 DEF BindingFits, ReadsFit
  <2>7. BindingTypes'
    BY <1>1, <2>5 DEF BindingFits, BindingTypes
  <2>8. PipesExist'
    BY <1>1, <2>1, <2>5 DEF BindingFits, PipesExist, Id
  <2>9. ReadsFit'
    BY <1>1, <1>2, <2>5, <2>6 DEF BindingFits, ReadsFit
  <2>10. ConnectedCanRead'
    BY <1>1 DEF BindingFits, ConnectedCanRead
  <2> QED BY <2>7, <2>8, <2>9, <2>10 DEF BindingFits
<1> QED BY <1>3, <1>4 DEF ReturnsToBinding

(* The consumer that Connect saves is of its latest channel; any other     *)
(* channel of this binding is an earlier one and closed.                   *)
LEMMA EndConnectFits ==
    ASSUME Core, ChannelsOwned, ChannelsInOrder, BindingFits,
           NEW c \in Callers, EndConnect(c)
    PROVE  BindingFits'
<1> DEFINE s == opened[c]
<1>1. /\ s # 0 /\ UNCHANGED vars /\ reading' = reading /\ careless' = careless
      /\ consumer' = [consumer EXCEPT ![c] = s] /\ released' = released \cup {s}
      /\ opened' = [opened EXCEPT ![c] = 0]
  BY DEF EndConnect
<1>2. channels' = channels /\ call' = call /\ calls' = calls
  BY <1>1 DEF vars, callers, table
<1>3. s \in DOMAIN channels /\ channels[s].by = Id(c) /\ s \in Nat
  BY <1>1 DEF BindingFits, PipesExist, BindingTypes
<1>4. /\ consumer' \in [Callers -> Nat] /\ opened' \in [Callers -> Nat]
      /\ consumer'[c] = s /\ opened'[c] = 0
      /\ \A e \in Callers : e # c => consumer'[e] = consumer[e] /\ opened'[e] = opened[e]
  BY <1>1, <1>3 DEF BindingFits, BindingTypes
<1>5. c \in careless \/ reading[c] = NotReading
  BY <1>1 DEF BindingFits, ReadsFit
<1>6. channels[s].by[1] = c /\ channels[s].by[2] = calls[c]
  BY <1>3 DEF Id
<1> HIDE DEF s
<1>7. BindingTypes'
  BY <1>1, <1>4 DEF BindingFits, BindingTypes
<1>8. PipesExist'
  BY <1>1, <1>2, <1>3, <1>4 DEF BindingFits, PipesExist, Id
<1>9. ReadsFit'
  BY <1>1, <1>2, <1>4, <1>5 DEF BindingFits, ReadsFit
<1>10. ConnectedCanRead'
  <2> SUFFICES ASSUME NEW e \in Callers \ careless, NEW t \in DOMAIN channels,
                      channels[t].by[1] = e,
                      channels[t].open, t \in released \cup {s}
               PROVE  consumer'[e] = t
    BY <1>1, <1>2 DEF ConnectedCanRead
  <2>1. CASE e # c
    BY <1>4, <1>6, <2>1 DEF BindingFits, ConnectedCanRead
  <2>2. CASE e = c
    <3>1. ~(s < t)
      <4>1. channels[t].by[2] <= calls[c] /\ calls[c] \in Nat /\ channels[t].by[2] \in Nat
        BY <2>2, CallerType, ChannelType DEF ChannelsOwned, Core
      <4>2. s < t => channels[s].by[2] < channels[t].by[2]
        BY <1>3, <1>6, <2>2 DEF ChannelsInOrder, CallOrder
      <4> QED BY <1>6, <4>1, <4>2
    <3>2. ~(t < s)
      <4>1. channels[t].device = channels[s].device
        BY <1>3, <1>6, <2>2 DEF ChannelsInOrder, ChannelAddresses
      <4> QED BY <1>3, <4>1 DEF ChannelsInOrder, EarlierClosed
    <3>3. s \in Nat /\ t \in Nat
      BY <1>3 DEF Core, Types
    <3> QED BY <1>4, <2>2, <3>1, <3>2, <3>3
  <2> QED BY <2>1, <2>2
<1> QED BY <1>7, <1>8, <1>9, <1>10 DEF BindingFits

LEMMA ReadBeginsFits ==
    ASSUME BindingFits, NEW c \in Callers, ReadBegins(c)
    PROVE  BindingFits'
<1>1. PICK n \in ReadLengths :
         /\ careless' = careless \cup
               {e \in {c} : n = 0 \/ call[e].op = "connect" \/ opened[e] # 0}
         /\ reading' = [reading EXCEPT ![c] =
                           [at |-> "pop", pipe |-> consumer[c], length |-> n]]
  BY DEF ReadBegins
<1>2. /\ UNCHANGED <<vars, consumer, opened, released>> /\ n \in Nat
      /\ careless \subseteq careless'
      /\ c \notin careless' => n > 0 /\ call[c].op # "connect" /\ opened[c] = 0
  <2>1. n \in Nat /\ UNCHANGED <<vars, pipes>>
    BY BindingAssumption DEF ReadBegins
  <2> QED BY <1>1, <2>1 DEF pipes
<1>3. channels' = channels /\ call' = call /\ calls' = calls
  BY <1>2 DEF vars, callers, table
<1>4. /\ reading' \in [Callers -> [at : ReadPlaces, pipe : Nat, length : Nat]]
      /\ reading'[c] = [at |-> "pop", pipe |-> consumer[c], length |-> n]
      /\ \A e \in Callers : e # c => reading'[e] = reading[e]
  BY <1>1, <1>2 DEF BindingFits, BindingTypes, ReadPlaces
<1>5. BindingTypes'
  BY <1>2, <1>4 DEF BindingFits, BindingTypes
<1>6. PipesExist'
  BY <1>2, <1>3 DEF BindingFits, PipesExist, Id
<1>7. ReadsFit'
  BY <1>2, <1>3, <1>4 DEF BindingFits, ReadsFit
<1>8. ConnectedCanRead'
  BY <1>2, <1>3 DEF BindingFits, ConnectedCanRead
<1> QED BY <1>5, <1>6, <1>7, <1>8 DEF BindingFits

(* A careful Read that ends gives up the consumer it popped from, whose    *)
(* channel is closed: no open channel loses its reader.                    *)
LEMMA ReadStepFits ==
    ASSUME BindingFits, NEW c \in Callers, ReadStep(c)
    PROVE  BindingFits'
<1>1. UNCHANGED <<vars, opened, released, careless>>
  BY DEF ReadStep, ReadGetsData, ReadEnds, FreeConsumer, ForgetConsumer, pipes
<1>2. channels' = channels /\ call' = call /\ calls' = calls
  BY <1>1 DEF vars, callers, table
<1>3. /\ reading' \in [Callers -> [at : ReadPlaces, pipe : Nat, length : Nat]]
      /\ \A e \in Callers : e # c => reading'[e] = reading[e]
      /\ reading[c] # NotReading
      /\ reading'[c] # NotReading =>
            /\ reading'[c].pipe = reading[c].pipe /\ reading'[c].length = reading[c].length
            /\ reading[c].at # "pop" \/ reading[c].length = 0 \/ Ended(reading[c].pipe)
  <2>1. CASE ReadGetsData(c)
    BY <2>1 DEF ReadGetsData, BindingFits, BindingTypes, NotReading, ReadPlaces
  <2>2. CASE ReadEnds(c)
    BY <2>2 DEF ReadEnds, BindingFits, BindingTypes, NotReading, ReadPlaces
  <2>3. CASE FreeConsumer(c)
    BY <2>3 DEF FreeConsumer, BindingFits, BindingTypes, NotReading, ReadPlaces
  <2>4. CASE ForgetConsumer(c)
    BY <2>4 DEF ForgetConsumer, BindingFits, BindingTypes, NotReading, ReadPlaces
  <2> QED BY <2>1, <2>2, <2>3, <2>4 DEF ReadStep
<1>4. /\ consumer' \in [Callers -> Nat]
      /\ \A e \in Callers : e # c => consumer'[e] = consumer[e]
      /\ reading'[c] # NotReading => consumer'[c] = consumer[c]
      /\ \/ consumer'[c] = consumer[c] \/ c \in careless
         \/ ~channels[consumer[c]].open
  <2>1. CASE ReadGetsData(c) \/ ReadEnds(c) \/ FreeConsumer(c)
    <3>1. consumer' = consumer
      BY <2>1 DEF ReadGetsData, ReadEnds, FreeConsumer, pipes
    <3> QED BY <3>1 DEF BindingFits, BindingTypes
  <2>2. CASE ForgetConsumer(c)
    <3>1. /\ consumer' = [consumer EXCEPT ![c] = 0] /\ reading[c].at = "forget"
          /\ reading' = [reading EXCEPT ![c] = NotReading]
      BY <2>2 DEF ForgetConsumer
    <3>2. c \in careless \/ ~channels[consumer[c]].open
      BY <3>1 DEF BindingFits, ReadsFit, NotReading
    <3> QED BY <3>1, <3>2 DEF BindingFits, BindingTypes
  <2> QED BY <2>1, <2>2 DEF ReadStep
<1>5. BindingTypes'
  BY <1>1, <1>3, <1>4 DEF BindingFits, BindingTypes
<1>6. PipesExist'
  BY <1>1, <1>2 DEF BindingFits, PipesExist, Id
<1>7. ReadsFit'
  BY <1>1, <1>2, <1>3, <1>4 DEF BindingFits, ReadsFit, Ended
<1>8. ConnectedCanRead'
  BY <1>1, <1>2, <1>4 DEF BindingFits, ConnectedCanRead
<1> QED BY <1>5, <1>6, <1>7, <1>8 DEF BindingFits

LEMMA BindingStep ==
    ASSUME Core, ResultsAreOwn, ChannelsOwned, ChannelsInOrder, BindingFits,
           [BindingNext]_allVars
    PROVE  BindingFits'
<1>1. CASE UNCHANGED vars /\ UNCHANGED binding
  BY <1>1, StillFits DEF vars, callers, table, binding, BindingFits, ReadsFit
<1> QED BY <1>1, BindingCases, CallsFits, PostFits, WorkerFits, ReturnFits,
           EndConnectFits, ReadBeginsFits, ReadStepFits

LEMMA BindingHolds == BindingSpec => []BindingFits
<1>1. BindingInit => BindingFits
  BY DEF BindingInit, Init, BindingFits, BindingTypes, PipesExist, ReadsFit,
         ConnectedCanRead, NotReading, ReadPlaces
<1>2. /\ Core /\ TableFits /\ ChannelsOwned /\ ResultsAreOwn
      /\ ChannelsInOrder /\ BindingFits /\ [BindingNext]_allVars
      => BindingFits'
  BY BindingStep
<1> QED BY <1>1, <1>2, UnderBinding, OrderHolds, PTL DEF BindingSpec

(* As long as no Read of a binding asks for nothing and none overlaps a    *)
(* Connect, its Read has a consumer while the channel that Connect opened  *)
(* is open, with any number of bindings, some of them for the same         *)
(* address, and whatever use the others are put to.                        *)
THEOREM ConnectionsCanBeRead == BindingSpec => []ConnectedCanRead
<1>1. BindingFits => ConnectedCanRead
  BY DEF BindingFits
<1> QED BY <1>1, BindingHolds, PTL

-----------------------------------------------------------------------------
(* Consumers that are given back, in any use.                              *)

(* A call changes nothing of the pipes, and the next channel of its caller *)
(* is of a new call.                                                       *)
LEMMA CallersKeepLive ==
    ASSUME Core, ChannelsOwned, BindingFits, ConsumersLive, UNCHANGED <<pipes, reading>>,
           channels' = channels, NEW c \in Callers, opened[c] = 0,
           \A e \in Callers : e # c => pc'[e] = pc[e] /\ calls'[e] = calls[e],
           \/ calls'[c] = calls[c] + 1
           \/ calls'[c] = calls[c] /\ pc[c] # "idle"
    PROVE  ConsumersLive'
<1>1. /\ consumer' = consumer /\ opened' = opened /\ released' = released
      /\ freed' = freed /\ reading' = reading
  BY DEF pipes
<1>2. ASSUME NEW e \in Callers, NEW s \in released, channels[s].by = Id(e)'
      PROVE  pc'[e] = "idle"
  <2>1. s \in DOMAIN channels
    BY DEF BindingFits, PipesExist
  <2>2. CASE e # c
    BY <1>2, <2>2 DEF ConsumersLive, KeptOnce, Id
  <2>3. CASE e = c
    <3>1. channels[s].by[1] = c /\ channels[s].by[2] = calls'[c]
      BY <1>2, <2>3 DEF Id
    <3>2. calls'[c] <= calls[c] /\ calls[c] \in Nat
      BY <2>1, <3>1, CallerType DEF ChannelsOwned, Core
    <3>3. calls'[c] = calls[c] /\ pc[c] # "idle"
      BY <3>2
    <3>4. channels[s].by = Id(c)
      BY <1>2, <2>3, <3>3 DEF Id
    <3> QED BY <3>3, <3>4 DEF ConsumersLive, KeptOnce
  <2> QED BY <2>2, <2>3
<1>3. KeptOnce'
  BY <1>1, <1>2 DEF ConsumersLive, KeptOnce
<1>4. ConsumersOwn' /\ ReadsOwn'
  BY <1>1 DEF ConsumersLive, ConsumersOwn, ReadsOwn
<1> QED BY <1>3, <1>4 DEF ConsumersLive

LEMMA WorkerKeepsLive ==
    ASSUME Core, BindingFits, ConsumersLive, WorkerStep, UNCHANGED binding
    PROVE  ConsumersLive'
<1>1. /\ calls' = calls
      /\ \A e \in Callers : pc[e] = "idle" => pc'[e] = "idle"
  BY WorkerCallers
<1>2. \A s \in DOMAIN channels : channels'[s].by = channels[s].by
  <2>1. CASE Settled
    BY <2>1 DEF Settled, KeepsChannels, SameChannel
  <2>2. CASE Connects
    BY <2>2, ConnectsFacts DEF Core
  <2> QED BY <2>1, <2>2, WorkerChannels
<1>3. /\ consumer' = consumer /\ opened' = opened /\ released' = released
      /\ freed' = freed /\ reading' = reading
  BY DEF binding, pipes
<1>4. released \subseteq DOMAIN channels
  BY DEF BindingFits, PipesExist
<1>5. KeptOnce'
  BY <1>1, <1>2, <1>3, <1>4 DEF ConsumersLive, KeptOnce, Id
<1>6. ConsumersOwn' /\ ReadsOwn'
  BY <1>2, <1>3, <1>4 DEF ConsumersLive, ConsumersOwn, ReadsOwn
<1> QED BY <1>5, <1>6 DEF ConsumersLive

(* The channel of a Connect that returns is not released yet: the pipe_t   *)
(* of a call is given back after it only.                                  *)
LEMMA ReturnKeepsLive ==
    ASSUME Core, ResultsAreOwn, BindingFits, ConsumersLive,
           NEW c \in Callers, ReturnsToBinding(c)
    PROVE  ConsumersLive'
<1>1. /\ consumer' = consumer /\ released' = released /\ freed' = freed
      /\ reading' = reading /\ channels' = channels /\ calls' = calls
      /\ pc[c] = "done" /\ pc' = [pc EXCEPT ![c] = "idle"]
  BY DEF ReturnsToBinding, Return, table
<1>2. pc'[c] = "idle" /\ \A e \in Callers : e # c => pc'[e] = pc[e]
  BY <1>1 DEF Core, Types
<1>3. \A e \in Callers : opened'[e] # 0 => pc'[e] = "idle" /\ opened'[e] \notin released
  <2>1. CASE opened' = opened
    BY <1>2, <2>1 DEF ConsumersLive, KeptOnce
  <2>2. CASE /\ call[c].op = "connect" /\ result.connect = "success"
             /\ opened' = [opened EXCEPT ![c] = OpenedBy(Id(c))]
    <3> DEFINE s == OpenedBy(Id(c))
    <3>1. channels[s].by = Id(c)
      BY <1>1, <2>2 DEF ResultsAreOwn, OpenedBy
    <3>2. s \notin released
      BY <1>1, <3>1 DEF ConsumersLive, KeptOnce
    <3> HIDE DEF s
    <3>3. opened' = [opened EXCEPT ![c] = s] /\ opened \in [Callers -> Nat]
      BY <2>2 DEF s, BindingFits, BindingTypes
    <3>4. opened'[c] = s /\ \A e \in Callers : e # c => opened'[e] = opened[e]
      BY <3>3
    <3> QED BY <1>2, <3>2, <3>4 DEF ConsumersLive, KeptOnce
  <2> QED BY <2>1, <2>2 DEF ReturnsToBinding
<1>4. KeptOnce'
  BY <1>1, <1>2, <1>3 DEF ConsumersLive, KeptOnce, Id
<1>5. ConsumersOwn' /\ ReadsOwn'
  BY <1>1 DEF ConsumersLive, ConsumersOwn, ReadsOwn
<1> QED BY <1>4, <1>5 DEF ConsumersLive

LEMMA EndConnectKeepsLive ==
    ASSUME BindingFits, ConsumersLive, NEW c \in Callers, EndConnect(c)
    PROVE  ConsumersLive'
<1> DEFINE s == opened[c]
<1>1. /\ s # 0 /\ UNCHANGED vars /\ reading' = reading /\ freed' = freed
      /\ consumer' = [consumer EXCEPT ![c] = s] /\ released' = released \cup {s}
      /\ opened' = [opened EXCEPT ![c] = 0]
  BY DEF EndConnect
<1>2. channels' = channels /\ pc' = pc /\ calls' = calls
  BY <1>1 DEF vars, callers, table
<1>3. channels[s].by = Id(c) /\ channels[s].by[1] = c /\ s \in Nat
  BY <1>1 DEF BindingFits, PipesExist, BindingTypes, Id
<1>4. pc[c] = "idle" /\ s \notin released /\ s \notin freed
  BY <1>1 DEF ConsumersLive, KeptOnce, ConsumersOwn
<1>5. /\ consumer'[c] = s /\ opened'[c] = 0
      /\ \A e \in Callers : e # c => consumer'[e] = consumer[e] /\ opened'[e] = opened[e]
  BY <1>1, <1>3 DEF BindingFits, BindingTypes
<1>6. \A e \in Callers : e # c => opened[e] # s \/ opened[e] = 0
  BY <1>3 DEF BindingFits, PipesExist, Id
<1> HIDE DEF s
<1>7. \A e \in Callers : opened'[e] # 0 => pc'[e] = "idle" /\ opened'[e] \notin released'
  BY <1>1, <1>2, <1>5, <1>6 DEF ConsumersLive, KeptOnce
<1>8. \A e \in Callers, t \in released' : channels'[t].by = Id(e)' => pc'[e] = "idle"
  BY <1>1, <1>2, <1>3, <1>4 DEF ConsumersLive, KeptOnce, Id
<1>9. KeptOnce'
  BY <1>7, <1>8 DEF KeptOnce
<1>10. ConsumersOwn'
  BY <1>1, <1>2, <1>3, <1>4, <1>5 DEF ConsumersLive, ConsumersOwn
<1>11. ReadsOwn'
  BY <1>1, <1>2, <1>5 DEF ConsumersLive, ReadsOwn
<1> QED BY <1>9, <1>10, <1>11 DEF ConsumersLive

(* A Read gives back the consumer its binding has then, and nobody else's  *)
(* Read or Connect has to do with that one.                                *)
LEMMA ReadKeepsLive ==
    ASSUME BindingFits, ConsumersLive, NEW c \in Callers, ReadBegins(c) \/ ReadStep(c)
    PROVE  ConsumersLive'
<1>1. UNCHANGED <<vars, opened, released>>
  BY DEF ReadBegins, ReadStep, ReadGetsData, ReadEnds, FreeConsumer, ForgetConsumer, pipes
<1>2. channels' = channels /\ pc' = pc /\ calls' = calls
  BY <1>1 DEF vars, callers, table
<1>3. KeptOnce'
  BY <1>1, <1>2 DEF ConsumersLive, KeptOnce, Id
<1> USE DEF BindingFits, BindingTypes, PipesExist, ConsumersLive, ConsumersOwn, ReadsOwn
<1>4. CASE ReadBegins(c)
  <2>1. PICK n : reading' = [reading EXCEPT ![c] =
                               [at |-> "pop", pipe |-> consumer[c], length |-> n]]
    BY <1>4 DEF ReadBegins
  <2>2. consumer' = consumer /\ freed' = freed /\ consumer[c] # 0 /\ reading[c] = NotReading
    BY <1>4 DEF ReadBegins, pipes
  <2>3. /\ reading'[c] = [at |-> "pop", pipe |-> consumer[c], length |-> n]
        /\ \A e \in Callers : e # c => reading'[e] = reading[e]
    BY <2>1
  <2>4. consumer[c] \in released \ freed /\ channels[consumer[c]].by[1] = c
    BY <2>2 DEF NotReading
  <2> QED BY <1>1, <1>2, <1>3, <2>2, <2>3, <2>4
<1>5. CASE ReadGetsData(c)
  <2>1. /\ consumer' = consumer /\ freed' = freed /\ reading[c].at = "pop"
        /\ reading' = [reading EXCEPT ![c] = NotReading]
    BY <1>5 DEF ReadGetsData, pipes
  <2>2. reading'[c].at = "none" /\ \A e \in Callers : e # c => reading'[e] = reading[e]
    BY <2>1 DEF NotReading
  <2> QED BY <1>1, <1>2, <1>3, <2>1, <2>2
<1>6. CASE ReadEnds(c)
  <2>1. /\ consumer' = consumer /\ freed' = freed /\ reading[c].at = "pop"
        /\ reading' = [reading EXCEPT ![c].at = "free"]
    BY <1>6 DEF ReadEnds, pipes
  <2>2. reading'[c].at = "free" /\ \A e \in Callers : e # c => reading'[e] = reading[e]
    BY <2>1
  <2> QED BY <1>1, <1>2, <1>3, <2>1, <2>2
<1>7. CASE FreeConsumer(c)
  <2>1. /\ consumer' = consumer /\ freed' = freed \cup {consumer[c]}
        /\ reading[c].at = "free" /\ reading' = [reading EXCEPT ![c].at = "forget"]
    BY <1>7 DEF FreeConsumer
  <2>2. reading'[c].at = "forget" /\ \A e \in Callers : e # c => reading'[e] = reading[e]
    BY <2>1
  <2>3. /\ consumer[c] # 0 /\ consumer[c] \in released
        /\ channels[consumer[c]].by[1] = c
    BY <2>1
  <2> QED BY <1>1, <1>2, <1>3, <2>1, <2>2, <2>3
<1>8. CASE ForgetConsumer(c)
  <2>1. /\ consumer' = [consumer EXCEPT ![c] = 0] /\ freed' = freed
        /\ reading' = [reading EXCEPT ![c] = NotReading]
    BY <1>8 DEF ForgetConsumer
  <2>2. /\ reading'[c].at = "none" /\ consumer'[c] = 0
        /\ \A e \in Callers : e # c => reading'[e] = reading[e] /\ consumer'[e] = consumer[e]
    BY <2>1 DEF NotReading
  <2> QED BY <1>1, <1>2, <1>3, <2>1, <2>2
<1> QED BY <1>4, <1>5, <1>6, <1>7, <1>8 DEF ReadStep

LEMMA LiveStep ==
    ASSUME Core, ResultsAreOwn, ChannelsOwned, BindingFits, ConsumersLive,
           [BindingNext]_allVars
    PROVE  ConsumersLive'
<1>1. ASSUME NEW c \in Callers, NEW op \in Ops, NEW d \in Devices,
             NEW n \in Lengths \cup {0}, Calls(c, op, d, n)
      PROVE  ConsumersLive'
  <2>1. /\ UNCHANGED <<pipes, reading>> /\ channels' = channels /\ opened[c] = 0
        /\ pc' = [pc EXCEPT ![c] = "asks"] /\ calls' = [calls EXCEPT ![c] = @ + 1]
    BY <1>1 DEF Calls, Ask, table
  <2>2. /\ \A e \in Callers : e # c => pc'[e] = pc[e] /\ calls'[e] = calls[e]
        /\ calls'[c] = calls[c] + 1
    BY <2>1 DEF Core, Types
  <2> QED BY <2>1, <2>2, CallersKeepLive
<1>2. ASSUME NEW c \in Callers, Post(c), UNCHANGED binding
      PROVE  ConsumersLive'
  <2>1. /\ UNCHANGED <<pipes, reading>> /\ channels' = channels /\ pc[c] = "asks"
        /\ pc' = [pc EXCEPT ![c] = "waits"] /\ calls' = calls
    BY <1>2 DEF Post, table, binding
  <2>2. opened[c] = 0 /\ \A e \in Callers : e # c => pc'[e] = pc[e]
    BY <2>1 DEF Core, Types, ConsumersLive, KeptOnce
  <2> QED BY <2>1, <2>2, CallersKeepLive
<1>3. CASE UNCHANGED vars /\ UNCHANGED binding
  BY <1>3 DEF vars, callers, table, binding, pipes, ConsumersLive, KeptOnce, ConsumersOwn,
              ReadsOwn, Id
<1> QED BY <1>1, <1>2, <1>3, BindingCases, WorkerKeepsLive, ReturnKeepsLive,
           EndConnectKeepsLive, ReadKeepsLive

(* No Read pops from a consumer that was given back or gives one back      *)
(* twice, however Connects and Reads of a binding overlap and however many *)
(* bytes they ask for: a pipe's consumer is kept by one Connect, and line  *)
(* 101 forgets what line 100 gave back before the next Read looks.         *)
THEOREM ConsumersAreLive == BindingSpec => []UsesLiveConsumers
<1>1. BindingInit => ConsumersLive
  BY DEF BindingInit, Init, ConsumersLive, KeptOnce, ConsumersOwn, ReadsOwn, NotReading
<1>2. /\ Core /\ TableFits /\ ChannelsOwned /\ ResultsAreOwn
      /\ BindingFits /\ ConsumersLive /\ [BindingNext]_allVars
      => ConsumersLive'
  BY LiveStep
<1>3. ConsumersLive => UsesLiveConsumers
  <2> SUFFICES ASSUME ConsumersLive, NEW c \in Callers
               PROVE  /\ reading[c].at = "pop" => reading[c].pipe \notin freed
                      /\ reading[c].at = "free" => consumer[c] \notin freed
    BY DEF UsesLiveConsumers
  <2> QED BY DEF ConsumersLive, ConsumersOwn, ReadsOwn
<1> QED BY <1>1, <1>2, <1>3, UnderBinding, BindingHolds, PTL DEF BindingSpec

=============================================================================
