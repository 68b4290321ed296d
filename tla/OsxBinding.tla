----------------------------- MODULE OsxBinding -----------------------------
(***************************************************************************)
(* BTSerialPortBinding of src/osx/BTSerialPortBinding.mm: what a program   *)
(* sees of a connection, on top of BluetoothWorker.  Each caller owns one  *)
(* binding, made for one address; one thread of its own calls connect,     *)
(* close and write, another calls read, and nothing keeps the two apart:   *)
(* `careless' are the bindings whose Connect and Read ever overlapped or   *)
(* that asked Read for no bytes.                                           *)
(*                                                                         *)
(* The pipe between the worker and read is what FifoPipe promises: here a  *)
(* channel's `received' is what was pushed and `popped' how much of it was *)
(* taken out, a packet being one element.  The producers of a pipe are     *)
(* gone when its channel is closed and its pipe_t, which counts as one     *)
(* more, was given back.                                                   *)
(***************************************************************************)
EXTENDS BluetoothWorker, Functions

CONSTANTS
    AddressOf,          \* the address each binding is made for
    ReadLengths         \* lengths passed to Read

ASSUME BindingAssumption ==
    /\ AddressOf \in [Callers -> Devices]
    /\ ReadLengths \subseteq Nat

VARIABLES
    consumer,   \* data->consumer of each binding: a channel's pipe, 0 for NULL
    opened,     \* Connect's local pipe, from connectDevice to pipe_free
    released,   \* channels whose pipe_t was given back
    freed,      \* channels whose consumer was given back
    reading,    \* each binding's Read: where it is, its pipe, how much it asks
    popped,     \* each channel: elements taken out of its pipe
    careless    \* history: see above

pipes   == <<consumer, opened, released, freed>>
binding == <<pipes, reading, popped, careless>>
allVars == <<vars, binding>>

ChannelIds == 1..SumFunction(MaxCalls)
NotReading == [at |-> "none", pipe |-> 0, length |-> 0]

BindingInit ==
    /\ Init
    /\ consumer = [c \in Callers |-> 0]
    /\ opened = [c \in Callers |-> 0]
    /\ released = {} /\ freed = {}
    /\ reading = [c \in Callers |-> NotReading]
    /\ popped = [s \in ChannelIds |-> 0]
    /\ careless = {}

-----------------------------------------------------------------------------
(* Connect, Close and Write enter the worker; Connect goes on afterwards.  *)
(* A service search, which is none of the binding's, asks of any device.   *)

Calls(c, op, d, n) ==
    /\ opened[c] = 0
    /\ op # "sdp" => d = AddressOf[c]
    /\ Ask(c, op, d, n)
    /\ careless' = careless \cup {e \in {c} : op = "connect" /\ reading[e] # NotReading}
    /\ UNCHANGED <<pipes, reading, popped>>

OpenedBy(id) ==
    LET own == {s \in DOMAIN channels : channels[s].by = id}
    IN  IF own = {} THEN 0 ELSE CHOOSE s \in own : TRUE

ReturnsToBinding(c) ==
    /\ Return(c)
    /\ opened' = IF call[c].op = "connect" /\ result["connect"] = "success"
                 THEN [opened EXCEPT ![c] = OpenedBy(Id(c))]
                 ELSE opened
    /\ UNCHANGED <<consumer, released, freed, reading, popped, careless>>

(* Connect saves the consumer and gives the pipe_t back.  (A Read between  *)
(* the two does what it would do after both, or waits for the second.)     *)
(* Faulty variants: a consumer that is there stays; the pipe_t is kept.    *)
EndConnectKeepingConsumer(c) ==
    /\ opened[c] # 0
    /\ consumer' = [consumer EXCEPT ![c] = IF @ = 0 THEN opened[c] ELSE @]
    /\ released' = released \cup {opened[c]}
    /\ opened' = [opened EXCEPT ![c] = 0]
    /\ UNCHANGED <<vars, freed, reading, popped, careless>>

EndConnectKeepingPipe(c) ==
    /\ opened[c] # 0
    /\ consumer' = [consumer EXCEPT ![c] = opened[c]]
    /\ opened' = [opened EXCEPT ![c] = 0]
    /\ UNCHANGED <<vars, released, freed, reading, popped, careless>>

EndConnect(c) ==
    /\ opened[c] # 0
    /\ consumer' = [consumer EXCEPT ![c] = opened[c]]
    /\ released' = released \cup {opened[c]}
    /\ opened' = [opened EXCEPT ![c] = 0]
    /\ UNCHANGED <<vars, freed, reading, popped, careless>>

-----------------------------------------------------------------------------
(* Read: pipe_pop_eager on the consumer it found and, when that returned   *)
(* 0, pipe_consumer_free of the one it finds then, and data->consumer is   *)
(* NULL.                                                                   *)

Inside(s) == Len(channels[s].received) - popped[s]
Ended(s)  == ~channels[s].open /\ s \in released

ReadBegins(c) ==
    /\ reading[c] = NotReading /\ consumer[c] # 0
    /\ \E n \in ReadLengths :
          /\ careless' = careless \cup
                {e \in {c} : n = 0 \/ call[e].op = "connect" \/ opened[e] # 0}
          /\ reading' = [reading EXCEPT ![c] =
                            [at |-> "pop", pipe |-> consumer[c], length |-> n]]
    /\ UNCHANGED <<vars, pipes, popped>>

ReadGetsData(c) ==
    LET r == reading[c] IN
    /\ r.at = "pop" /\ r.length > 0 /\ Inside(r.pipe) > 0
    /\ popped' = [popped EXCEPT ![r.pipe] =
                     @ + IF r.length < Inside(r.pipe) THEN r.length ELSE Inside(r.pipe)]
    /\ reading' = [reading EXCEPT ![c] = NotReading]
    /\ UNCHANGED <<vars, pipes, careless>>

ReadEnds(c) ==
    LET r == reading[c] IN
    /\ r.at = "pop"
    /\ r.length > 0 => Ended(r.pipe) /\ Inside(r.pipe) = 0
    /\ reading' = [reading EXCEPT ![c].at = "free"]
    /\ UNCHANGED <<vars, pipes, popped, careless>>

FreeConsumer(c) ==
    /\ reading[c].at = "free"
    /\ freed' = freed \cup {consumer[c]}
    /\ reading' = [reading EXCEPT ![c].at = "forget"]
    /\ UNCHANGED <<vars, consumer, opened, released, popped, careless>>

(* Faulty variant: data->consumer stays.                                   *)
ForgetNoConsumer(c) ==
    /\ reading[c].at = "forget"
    /\ reading' = [reading EXCEPT ![c] = NotReading]
    /\ UNCHANGED <<vars, pipes, popped, careless>>

ForgetConsumer(c) ==
    /\ reading[c].at = "forget"
    /\ consumer' = [consumer EXCEPT ![c] = 0]
    /\ reading' = [reading EXCEPT ![c] = NotReading]
    /\ UNCHANGED <<vars, opened, released, freed, popped, careless>>

ReadStep(c) == ReadGetsData(c) \/ ReadEnds(c) \/ FreeConsumer(c) \/ ForgetConsumer(c)

-----------------------------------------------------------------------------
BindingNext ==
    \/ \E c \in Callers :
          \/ \E op \in Ops, d \in Devices, n \in Lengths \cup {0} : Calls(c, op, d, n)
          \/ Post(c) /\ UNCHANGED binding
          \/ ReturnsToBinding(c) \/ EndConnect(c)
          \/ ReadBegins(c) \/ ReadStep(c)
    \/ WorkerStep /\ UNCHANGED binding

BindingSpec == BindingInit /\ [][BindingNext]_allVars

(* Connect goes on once connectDevice returned, and a Read that can return *)
(* does, as pipe.c wakes its sleepers.                                     *)
BindingFairSpec ==
    /\ BindingSpec
    /\ Fairness
    /\ \A c \in Callers :
          /\ WF_allVars(EndConnect(c))
          /\ WF_allVars(ReadStep(c))

-----------------------------------------------------------------------------
(* "connection has been closed" (BTSerialPortBinding.mm:92): once Connect  *)
(* returned, Read has a consumer to pop from for as long as the channel    *)
(* of that Connect is open, unless the binding was used carelessly.        *)
ConnectedCanRead ==
    \A c \in Callers \ careless, s \in DOMAIN channels :
        channels[s].by[1] = c /\ channels[s].open /\ s \in released => consumer[c] = s


(* No Read pops from a consumer that was given back or gives one back      *)
(* twice, also when Connect replaces data->consumer between the pop        *)
(* (BTSerialPortBinding.mm:97) and line 100, which looks at it again, and  *)
(* when a Read of no bytes gives back the consumer of an open connection.  *)
UsesLiveConsumers ==
    \A c \in Callers :
        /\ reading[c].at = "pop" => reading[c].pipe \notin freed
        /\ reading[c].at = "free" => consumer[c] \notin freed

(* "when no data is read from rfcomm the connection has been closed"       *)
(* (BTSerialPortBinding.mm:104), the other way round: a closed connection  *)
(* ends the Read that waits on it, whoever closed it and whenever.         *)
ReadsEnd ==
    \A c \in Callers :
        reading[c] # NotReading /\ ~channels[reading[c].pipe].open
            ~> reading[c] = NotReading

=============================================================================
