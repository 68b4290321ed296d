----------------------------- MODULE LinuxProofs -----------------------------
(***************************************************************************)
(* Theorems about LinuxProgram, for a descriptor table of any size, any    *)
(* devices and any answers of an SDP server.                               *)
(***************************************************************************)
EXTENDS LinuxProgram, FiniteSetTheorems, SequenceTheorems, TLAPS

Closing == {"close", "tell", "forget"}
Places  == {"idle", "pipe", "socket", "inquiring", "searching", "answered"} \cup Closing

(* What data->s is at each place of the controller, and what it says of    *)
(* the table: 0 is the terminal and for ever; before a new socket there is *)
(* none, and after close there is none.                                    *)
ControlOK ==
    /\ ctl \in [at : Places, then : {"idle", "pipe"}]
    /\ file[0] = "terminal"
    /\ s \in Fds \cup {-1}
    /\ ctl.at \in Closing => s # 0
    /\ ctl.at \in {"pipe", "socket"} => s = 0
    /\ ctl.at \notin {"tell", "forget"} => s = 0 \/ s = -1 \/ file[s] = "socket"

OneSocket == \A f \in Fds : file[f] = "socket" => ctl.at \notin {"tell", "forget"} /\ s = f

OneInquiry ==
    /\ \A f \in Fds : file[f] = "hci" => ctl.at = "inquiring" /\ job.fd = f
    /\ job.fd \in Fds \cup {-1}
    /\ ctl.at = "inquiring" => job.fd \in Fds /\ file[job.fd] = "hci"
    /\ ctl.at = "searching" => job.fd \in Fds /\ file[job.fd] = "session"

(* The descriptor table and what the controller knows of it.               *)
IInv == file \in [Fds -> Kinds] /\ ControlOK /\ OneSocket /\ OneInquiry

LEMMA ZeroIsFd == 0 \in Fds /\ -1 \notin Fds
BY MaxFdAssumption DEF Fds

LEMMA LeastExists ==
    ASSUME NEW S, S \subseteq Nat, S # {}
    PROVE  Min(S) \in S
<1>1. \E x \in S : \A y \in S : ~(<<y, x>> \in OpToRel(<, Nat))
  BY NatLessThanWellFounded, WFMin, Zenon
<1>2. PICK x \in S : \A y \in S : ~(<<y, x>> \in OpToRel(<, Nat))
  BY <1>1
<1>3. \A y \in S : ~(y < x)
  BY <1>2 DEF OpToRel
<1>4. \A y \in S : x <= y
  BY <1>3
<1> QED BY <1>4 DEF Min

LEMMA LeastIsLeast ==
    ASSUME NEW S, S \subseteq Nat, S # {}
    PROVE  \A y \in S : Min(S) <= y
<1>1. \E x \in S : \A y \in S : ~(<<y, x>> \in OpToRel(<, Nat))
  BY NatLessThanWellFounded, WFMin, Zenon
<1>2. PICK x \in S : \A y \in S : ~(<<y, x>> \in OpToRel(<, Nat))
  BY <1>1
<1>3. \A y \in S : ~(y < x)
  BY <1>2 DEF OpToRel
<1>4. \A y \in S : x <= y
  BY <1>3
<1> QED BY <1>4 DEF Min

LEMMA LowestIsFree == Free # {} => Lowest \in Fds /\ file[Lowest] = "free"
<1>1. Free \subseteq Nat
  BY MaxFdAssumption DEF Free, Fds
<1> QED BY <1>1, LeastExists DEF Lowest, Free

LEMMA NextIsFree ==
    Cardinality(Free) >= 2
        => /\ Lowest \in Fds /\ file[Lowest] = "free"
           /\ Next2 \in Fds /\ file[Next2] = "free" /\ Next2 # Lowest
<1> SUFFICES ASSUME Cardinality(Free) >= 2
             PROVE  /\ Lowest \in Fds /\ file[Lowest] = "free"
                    /\ Next2 \in Fds /\ file[Next2] = "free" /\ Next2 # Lowest
  OBVIOUS
<1>1. IsFiniteSet(Fds) /\ Free \subseteq Fds /\ Fds \subseteq Nat
  BY FS_Interval, MaxFdAssumption DEF Free, Fds
<1>2. IsFiniteSet(Free)
  BY <1>1, FS_Subset, Zenon
<1>3. Free # {}
  BY FS_EmptySet
<1>4. Lowest \in Free
  BY <1>3, LowestIsFree DEF Free
<1>5. Cardinality(Free \ {Lowest}) = Cardinality(Free) - 1
      /\ Cardinality(Free) \in Nat
  BY <1>2, <1>4, FS_RemoveElement, FS_CardinalityType, Zenon
<1>6. Free \ {Lowest} # {}
  <2> SUFFICES ASSUME Free \ {Lowest} = {} PROVE FALSE
    OBVIOUS
  <2>1. Cardinality(Free \ {Lowest}) = 0
    BY FS_EmptySet
  <2> HIDE DEF Lowest, Free
  <2> QED BY <1>5, <2>1
<1>7. Next2 \in Free \ {Lowest}
  BY <1>1, <1>6, LeastExists DEF Next2
<1> QED BY <1>4, <1>7 DEF Free

-----------------------------------------------------------------------------
(* Connect and Close.                                                      *)

LEMMA ClosePart ==
    ASSUME IInv, CloseCalled \/ CloseSocket \/ TellReader \/ ForgetSocket,
           UNCHANGED job
    PROVE  IInv'
<1> USE DEF IInv, ControlOK, OneSocket, OneInquiry, Places, Closing, Kinds
<1>1. CASE CloseCalled
  BY <1>1 DEF CloseCalled, kernel, data
<1>2. CASE CloseSocket
  BY <1>2, ZeroIsFd DEF CloseSocket, data
<1>3. CASE TellReader
  BY <1>3 DEF TellReader, data
<1>4. CASE ForgetSocket
  BY <1>4, ZeroIsFd DEF ForgetSocket, kernel
<1> QED BY <1>1, <1>2, <1>3, <1>4

LEMMA ConnectPart ==
    ASSUME IInv, ConnectCalled \/ OpenPipe \/ OpenSocket, UNCHANGED job
    PROVE  IInv'
<1> USE DEF IInv, ControlOK, OneSocket, OneInquiry, Places, Closing, Kinds
<1>1. CASE ConnectCalled
  BY <1>1 DEF ConnectCalled, kernel, data
<1>2. CASE OpenPipe
  <2>1. CASE Cardinality(Free) < 2
    BY <1>2, <2>1 DEF OpenPipe
  <2>2. CASE ~(Cardinality(Free) < 2)
    <3>1. Cardinality(Free) >= 2
      <4>1. IsFiniteSet(Fds) /\ Free \subseteq Fds
        BY FS_Interval, MaxFdAssumption DEF Free, Fds
      <4>2. Cardinality(Free) \in Nat
        BY <4>1, FS_Subset, FS_CardinalityType, Zenon
      <4> QED BY <2>2, <4>2
    <3>2. /\ Lowest \in Fds /\ file[Lowest] = "free"
          /\ Next2 \in Fds /\ file[Next2] = "free" /\ Next2 # Lowest
      BY <3>1, NextIsFree
    <3>3. /\ file' = [file EXCEPT ![Lowest] = "pipe", ![Next2] = "pipe_in"]
          /\ ctl' = [ctl EXCEPT !.at = "socket"] /\ ctl.at = "pipe" /\ s' = s
      BY <1>2, <2>2 DEF OpenPipe
    <3> HIDE DEF Lowest, Next2
    <3> QED BY <3>2, <3>3
  <2> QED BY <2>1, <2>2
<1>3. CASE OpenSocket
  <2>1. CASE Free = {}
    BY <1>3, <2>1 DEF OpenSocket
  <2>2. CASE Free # {}
    <3>1. Lowest \in Fds /\ file[Lowest] = "free"
      BY <2>2, LowestIsFree
    <3>2. /\ s' = Lowest /\ file' = [file EXCEPT ![Lowest] = "socket"]
          /\ ctl' = [ctl EXCEPT !.at = "idle"] /\ ctl.at = "socket"
      BY <1>3, <2>2 DEF OpenSocket
    <3> QED BY <3>1, <3>2
  <2> QED BY <2>1, <2>2
<1> QED BY <1>1, <1>2, <1>3

-----------------------------------------------------------------------------
(* Discovery, and everything that leaves the table alone.                  *)

LEMMA DiscoveryPart ==
    ASSUME IInv, Discovery
    PROVE  IInv'
<1> USE DEF IInv, ControlOK, OneSocket, OneInquiry, Places, Closing, Kinds
<1>1. ASSUME NEW kind \in {"hci", "session"}, NEW at \in {"inquiring", "searching"},
             NEW input, (kind = "hci") <=> (at = "inquiring"), Opens(kind, at, input)
      PROVE  IInv'
  <2>1. Lowest \in Fds /\ file[Lowest] = "free"
    BY <1>1, LowestIsFree DEF Opens
  <2>2. /\ file' = [file EXCEPT ![Lowest] = kind] /\ job'.fd = Lowest
        /\ ctl' = [ctl EXCEPT !.at = at] /\ ctl.at = "idle" /\ s' = s
    BY <1>1 DEF Opens, data
  <2> QED BY <1>1, <2>1, <2>2
<1>2. ASSUME NEW answer, Answers(answer, TRUE), ctl.at \in {"inquiring", "searching"}
      PROVE  IInv'
  <2>1. /\ file' = [file EXCEPT ![job.fd] = "free"] /\ s' = s
        /\ ctl' = [ctl EXCEPT !.at = "answered"] /\ job'.fd = job.fd
    BY <1>2 DEF Answers, data
  <2> QED BY <1>2, <2>1
<1>3. ASSUME NEW answer, Answers(answer, FALSE), ctl.at = "searching"
      PROVE  IInv'
  <2>1. /\ file' = file /\ s' = s
        /\ ctl' = [ctl EXCEPT !.at = "answered"] /\ job'.fd = job.fd
    BY <1>3 DEF Answers, data
  <2> QED BY <1>3, <2>1
<1>4. CASE InquireCalled \/ SdpSearchCalled
  BY <1>1, <1>4 DEF InquireCalled, SdpSearchCalled
<1>5. CASE InquireReturns \/ SdpSearchReturns
  BY <1>2, <1>3, <1>5 DEF InquireReturns, SdpSearchReturns
<1>6. CASE AnswerUsed
  BY <1>6 DEF AnswerUsed, kernel, data, NoJob
<1> QED BY <1>4, <1>5, <1>6 DEF Discovery

LEMMA OthersKeep ==
    ASSUME IInv, UNCHANGED <<file, s, ctl, job>>
    PROVE  IInv'
BY DEF IInv, ControlOK, OneSocket, OneInquiry

LEMMA InitHolds == ProgramInit => IInv
BY ZeroIsFd DEF ProgramInit, Init, NoJob, IInv, ControlOK, OneSocket, OneInquiry,
            Places, Closing, Kinds

LEMMA StepHolds == IInv /\ [Next]_programVars => IInv'
<1> SUFFICES ASSUME IInv, [Next]_programVars PROVE IInv'
  OBVIOUS
<1>1. CASE UNCHANGED programVars
  BY <1>1, OthersKeep DEF programVars, vars, kernel, data
<1>2. CASE Discovery
  BY <1>2, DiscoveryPart
<1>3. CASE Controller /\ UNCHANGED job
  BY <1>3, ClosePart, ConnectPart DEF Controller
<1>4. CASE (CloseCalled \/ ConnectCalled) /\ UNCHANGED job
  BY <1>4, ClosePart, ConnectPart
<1>5. CASE (ReadCalled \/ ReadNothing \/ WriteCalled \/ SelectReturns \/ Interrupted \/ ComesBack) /\ UNCHANGED job
  BY <1>5, OthersKeep DEF ReadCalled, ReadNothing, WriteCalled, SelectReturns, Interrupted, ComesBack,
                          kernel, data
<1>6. CASE User /\ UNCHANGED job
  BY <1>6, OthersKeep DEF User, FillSet, SelectBegins, TestSet, ReadCalls, WriteCalls,
                          kernel, data
<1>7. CASE (DataArrives \/ HangsUp) /\ UNCHANGED job
  BY <1>7, OthersKeep DEF DataArrives, HangsUp, data
<1> QED BY <1>1, <1>2, <1>3, <1>4, <1>5, <1>6, <1>7 DEF Next, BindingNext

(* The inductive invariant: data->s is the one socket of the table, or     *)
(* says that there is none.                                                *)
THEOREM Invariant == Spec => []IInv
<1> QED BY InitHolds, StepHolds, PTL DEF Spec

(* Close closes the binding's own socket and never a number that was given *)
(* back, at any size of the table (BTSerialPortBinding.cc:97).             *)
THEOREM OwnIsClosed == Spec => []ClosesOwn
<1>1. IInv => ClosesOwn
  BY DEF IInv, ControlOK, Closing, ClosesOwn, IsSocket
<1> QED BY <1>1, Invariant, PTL

(* No Connect, failed or repeated, and no inquiry leaves a socket behind.  *)
THEOREM NothingIsLeftOpen == Spec => []NothingLeftOpen
<1>1. IInv => NothingLeftOpen
  BY DEF IInv, OneSocket, OneInquiry, NothingLeftOpen
<1> QED BY <1>1, Invariant, PTL

-----------------------------------------------------------------------------
(* The user's side.                                                        *)

UserPlaces == {"idle", "set", "select", "asleep", "isset", "read", "write", "astray"}
Results    == {"nothing", "data", "end", "written", "error"}

UserType ==
    /\ user \in [at : UserPlaces, set : SUBSET Fds, fd : Fds \cup {-1}, got : Results]
    /\ user.at # "idle" => user.got = "nothing"
    /\ Connecting => user.at = "idle"

LinkType ==
    /\ told \subseteq Fds
    /\ link \in {"none", "up", "hungup"} /\ unread \in BOOLEAN
    /\ link # "none" => IsSocket(s)
    /\ \A i \in 1..2 : rep[i] \in Fds \cup {-1}

(* A pipe keeps its number for ever; the one of this connection was not    *)
(* told anything before Close.                                             *)
PipeOK ==
    /\ \A f \in told : file[f] = "pipe"
    /\ s # 0 \/ ctl.at = "socket" => rep[1] \in Fds /\ file[rep[1]] = "pipe"
    /\ (s # 0 /\ ctl.at # "forget") \/ ctl.at = "socket" => rep[1] \notin told

(* What Read waits on, and what pselect can have reported.                 *)
SetOK ==
    ~Closed =>
        /\ user.at \in {"select", "asleep", "isset"} => user.set \subseteq {s, rep[1]}
        /\ user.at = "isset" => user.set = {s}

UInv == UserType /\ LinkType /\ PipeOK /\ SetOK

(* Descriptors change hands only out of the free ones and back, so a pipe  *)
(* stays a pipe and a socket is closed by Close only.                      *)
LEMMA PipesStay ==
    ASSUME IInv, [Next]_programVars, NEW f \in Fds, file[f] = "pipe"
    PROVE  file'[f] = "pipe"
<1> USE DEF IInv, ControlOK, OneInquiry, Closing
<1>1. CASE CloseSocket
  BY <1>1, ZeroIsFd DEF CloseSocket
<1>2. CASE OpenPipe
  <2>1. Free # {} => file[Lowest] = "free" /\ Lowest \in Fds
    BY LowestIsFree
  <2>2. CASE file' = file
    BY <2>2
  <2>3. CASE file' # file
    <3>1. ~(Cardinality(Free) < 2) /\ file' = [file EXCEPT ![Lowest] = "pipe", ![Next2] = "pipe_in"]
      BY <1>2, <2>3 DEF OpenPipe
    <3>2. Cardinality(Free) >= 2
      <4>1. IsFiniteSet(Fds) /\ Free \subseteq Fds
        BY FS_Interval, MaxFdAssumption DEF Free, Fds
      <4>2. Cardinality(Free) \in Nat
        BY <4>1, FS_Subset, FS_CardinalityType, Zenon
      <4> QED BY <3>1, <4>2
    <3>3. file[Lowest] = "free" /\ file[Next2] = "free"
      BY <3>2, NextIsFree
    <3> HIDE DEF Lowest, Next2
    <3> QED BY <3>1, <3>3
  <2> QED BY <2>2, <2>3
<1>3. CASE OpenSocket
  BY <1>3, LowestIsFree DEF OpenSocket
<1>4. CASE Discovery
  <2>1. CASE InquireCalled \/ SdpSearchCalled
    BY <2>1, LowestIsFree DEF InquireCalled, SdpSearchCalled, Opens
  <2>2. CASE InquireReturns \/ SdpSearchReturns
    BY <2>2 DEF InquireReturns, SdpSearchReturns, Answers
  <2>3. CASE AnswerUsed
    BY <2>3 DEF AnswerUsed, kernel
  <2> QED BY <1>4, <2>1, <2>2, <2>3 DEF Discovery
<1>5. CASE CloseCalled \/ ConnectCalled \/ TellReader \/ ForgetSocket \/ DataArrives \/ HangsUp
  BY <1>5 DEF CloseCalled, ConnectCalled, TellReader, ForgetSocket, DataArrives, HangsUp, kernel
<1>6. CASE ReadCalled \/ ReadNothing \/ WriteCalled \/ SelectReturns \/ Interrupted \/ ComesBack \/ User
  BY <1>6 DEF ReadCalled, ReadNothing, WriteCalled, SelectReturns, Interrupted, ComesBack,
              User, FillSet, SelectBegins, TestSet, ReadCalls, WriteCalls, kernel
<1>7. CASE UNCHANGED programVars
  BY <1>7 DEF programVars, vars, kernel
<1> QED BY <1>1, <1>2, <1>3, <1>4, <1>5, <1>6, <1>7 DEF Next, BindingNext, Controller

LEMMA IdleType == \A result \in Results : Returns(result) =>
    user' = [at |-> "idle", set |-> {}, fd |-> -1, got |-> result]
BY DEF Returns, Idle

(* A step of the controller or of the device leaves the user where it is.  *)
LEMMA UserStays ==
    ASSUME IInv, UInv, user' = user,
           \/ (CloseCalled \/ ConnectCalled \/ Controller \/ DataArrives \/ HangsUp) /\ UNCHANGED job
           \/ Discovery \/ UNCHANGED programVars
    PROVE  UserType' /\ SetOK'
<1> USE DEF UInv, UserType, SetOK, Closed, Connecting, IInv, ControlOK, Closing, Places
<1>1. CASE CloseCalled \/ CloseSocket \/ TellReader \/ ForgetSocket
  BY <1>1 DEF CloseCalled, CloseSocket, TellReader, ForgetSocket, data
<1>2. CASE ConnectCalled \/ OpenPipe \/ OpenSocket
  BY <1>2 DEF ConnectCalled, OpenPipe, OpenSocket, data
<1>3. CASE DataArrives \/ HangsUp
  BY <1>3 DEF DataArrives, HangsUp, data
<1>4. CASE Discovery
  BY <1>4 DEF Discovery, InquireCalled, SdpSearchCalled, Opens, InquireReturns,
              SdpSearchReturns, Answers, AnswerUsed, data
<1>5. CASE UNCHANGED programVars
  BY <1>5 DEF programVars, vars, data
<1> QED BY <1>1, <1>2, <1>3, <1>4, <1>5 DEF Controller

(* A step of the user; only SelectReturns and TestSet have a set to think  *)
(* about.                                                                  *)
LEMMA UserMoves ==
    ASSUME IInv, UInv,
           \/ ReadCalled \/ ReadNothing \/ WriteCalled \/ User
           \/ SelectReturns \/ Interrupted \/ ComesBack
    PROVE  UserType' /\ SetOK' /\ UNCHANGED <<file, told, link, data, ctl>>
<1> USE DEF UInv, UserType, UserPlaces
<1>0. /\ \A result \in Results : Returns(result)
            => user' \in [at : UserPlaces, set : SUBSET Fds, fd : Fds \cup {-1}, got : Results]
               /\ user'.at = "idle"
      /\ s \in Fds \cup {-1} /\ Idle.set = {} /\ Idle.fd = -1 /\ Idle.got \in Results
  BY IdleType DEF IInv, ControlOK, Idle, Results
<1>1. ASSUME user'.at = "idle" /\ UNCHANGED <<data, ctl>>,
             user' \in [at : UserPlaces, set : SUBSET Fds, fd : Fds \cup {-1}, got : Results]
      PROVE  UserType' /\ SetOK'
  BY <1>1 DEF SetOK
<1>2. CASE ReadCalled
  <2>1. user' = [at |-> "set", set |-> {}, fd |-> -1, got |-> "nothing"]
    BY <1>2 DEF ReadCalled, Idle
  <2>2. UNCHANGED <<kernel, data, ctl>> /\ ~Connecting
    BY <1>2 DEF ReadCalled
  <2>3. user' \in [at : UserPlaces, set : SUBSET Fds, fd : Fds \cup {-1}, got : Results]
        /\ user'.at = "set" /\ user'.got = "nothing"
    BY <2>1 DEF Results
  <2>4. UserType' /\ SetOK'
    BY <2>2, <2>3 DEF SetOK, Connecting
  <2> QED BY <2>2, <2>4 DEF kernel
<1>3. CASE WriteCalled
  <2>1. user' = [at |-> "write", set |-> {}, fd |-> s, got |-> "nothing"]
    BY <1>3 DEF WriteCalled, Idle
  <2>2. UNCHANGED <<kernel, data, ctl>> /\ ~Connecting
    BY <1>3 DEF WriteCalled
  <2>3. user' \in [at : UserPlaces, set : SUBSET Fds, fd : Fds \cup {-1}, got : Results]
        /\ user'.at = "write" /\ user'.got = "nothing"
    BY <1>0, <2>1 DEF Results
  <2>4. UserType' /\ SetOK'
    BY <2>2, <2>3 DEF SetOK, Connecting
  <2> QED BY <2>2, <2>4 DEF kernel
<1>4. CASE Interrupted \/ ComesBack \/ WriteCalls \/ ReadCalls
  <2>1. \/ /\ user'.at = "idle"
           /\ user' \in [at : UserPlaces, set : SUBSET Fds, fd : Fds \cup {-1}, got : Results]
        \/ user'.at = "astray" /\ \E f \in {user.fd, s} : user' = [user EXCEPT !.at = "astray", !.fd = f]
    <3>1. \/ \E result \in Results : Returns(result)
          \/ \E f \in {user.fd, s} : user' = [user EXCEPT !.at = "astray", !.fd = f]
      <4>1. CASE Interrupted \/ ComesBack
        BY <4>1 DEF Interrupted, ComesBack, Results
      <4>2. CASE WriteCalls
        BY <4>2 DEF WriteCalls, GoesAstray, Results
      <4>3. CASE ReadCalls
        BY <4>3 DEF ReadCalls, FromSocket, GoesAstray, Results
      <4> QED BY <1>4, <4>1, <4>2, <4>3
    <3>2. CASE \E result \in Results : Returns(result)
      <4>1. PICK result \in Results : Returns(result)
        BY <3>2
      <4>2. user' = [at |-> "idle", set |-> {}, fd |-> -1, got |-> result]
        BY <4>1 DEF Returns, Idle
      <4>3. user'.at = "idle" /\ user' \in [at : UserPlaces, set : SUBSET Fds,
                                             fd : Fds \cup {-1}, got : Results]
        BY <4>2
      <4> QED BY <4>3, Zenon
    <3>3. CASE \E f \in {user.fd, s} : user' = [user EXCEPT !.at = "astray", !.fd = f]
      <4>1. user'.at = "astray"
        BY <3>3
      <4> QED BY <3>3, <4>1
    <3> QED BY <3>1, <3>2, <3>3
  <2>2. UNCHANGED <<file, told, link, data, ctl>>
    BY <1>4 DEF Interrupted, ComesBack, WriteCalls, ReadCalls, kernel, data
  <2>3. user.at # "idle"
    BY <1>4 DEF Interrupted, ComesBack, WriteCalls, ReadCalls
  <2>4. CASE user'.at = "astray"
    <3>1. UserType'
      BY <1>0, <2>1, <2>2, <2>3, <2>4 DEF Connecting, data
    <3> QED BY <2>2, <2>4, <3>1 DEF SetOK
  <2> QED BY <1>1, <2>1, <2>2, <2>4
<1>5. CASE FillSet
  <2>1. user' = [user EXCEPT !.at = "select", !.set = {s, rep[1]} \ {-1}, !.fd = s]
        /\ UNCHANGED <<kernel, data, ctl>> /\ user.at = "set"
    BY <1>5 DEF FillSet
  <2>2. {s, rep[1]} \ {-1} \subseteq Fds
    BY <1>0 DEF LinkType
  <2> QED BY <1>0, <2>1, <2>2 DEF SetOK, Connecting, kernel, data
<1>6. CASE SelectBegins
  <2>1. user.at = "select" /\ UNCHANGED <<kernel, data, ctl>>
    BY <1>6 DEF SelectBegins
  <2>2. CASE Returns("error")
    BY <1>0, <1>1, <2>1, <2>2 DEF Results, kernel
  <2>3. ASSUME NEW looked, looked \subseteq user.set,
               user' = [user EXCEPT !.at = "asleep", !.set = looked, !.fd = -1]
        PROVE  UserType' /\ SetOK'
    BY <2>1, <2>3 DEF SetOK, Closed, Connecting, data
  <2>4. Returns("error") \/ \E looked : looked \subseteq user.set
            /\ user' = [user EXCEPT !.at = "asleep", !.set = looked, !.fd = -1]
    BY <1>6 DEF SelectBegins
  <2> QED BY <2>1, <2>2, <2>3, <2>4 DEF kernel, data
<1>7. CASE SelectReturns
  <2>1. PICK reported \in SUBSET {f \in user.set : MayReport(f)} :
            reported # {} /\ user' = [user EXCEPT !.at = "isset", !.set = reported]
    BY <1>7 DEF SelectReturns
  <2>2. user.at = "asleep" /\ UNCHANGED <<kernel, data, ctl>>
    BY <1>7 DEF SelectReturns
  <2>3. ASSUME ~Closed PROVE reported = {s}
    <3>1. user.set \subseteq {s, rep[1]} /\ s # 0 /\ ctl.at # "forget"
      BY <2>2, <2>3 DEF SetOK, Closed
    <3>2. file[rep[1]] = "pipe" /\ rep[1] \notin told
      BY <3>1 DEF PipeOK
    <3>3. ~MayReport(rep[1])
      BY <3>2 DEF MayReport, Readable
    <3> QED BY <2>1, <3>1, <3>3
  <2> QED BY <2>1, <2>2, <2>3 DEF SetOK, Closed, Connecting, kernel, data
<1>8. CASE TestSet
  <2>1. user' = [at |-> "read", set |-> {}, fd |-> s, got |-> "nothing"] \/ Returns("end")
    BY <1>8 DEF TestSet, Idle
  <2>2. user.at = "isset" /\ UNCHANGED <<kernel, data, ctl>>
    BY <1>8 DEF TestSet
  <2>3. CASE Returns("end")
    BY <1>0, <1>1, <2>2, <2>3 DEF Results, kernel
  <2> QED BY <1>0, <2>1, <2>2, <2>3 DEF SetOK, Connecting, Results, kernel, data
<1>9. CASE ReadNothing
  <2>1. user' = [at |-> "idle", set |-> {}, fd |-> -1, got |-> "end"]
    BY <1>9 DEF ReadNothing, Returns, Idle
  <2>2. user'.at = "idle" /\ user' \in [at : UserPlaces, set : SUBSET Fds,
                                        fd : Fds \cup {-1}, got : Results]
    BY <2>1 DEF Results
  <2>3. UNCHANGED <<kernel, data, ctl>>
    BY <1>9 DEF ReadNothing
  <2>4. UserType' /\ SetOK'
    BY <1>1, <2>2, <2>3
  <2> QED BY <2>3, <2>4 DEF kernel
<1> QED BY <1>2, <1>3, <1>4, <1>5, <1>6, <1>7, <1>8, <1>9 DEF User

LEMMA LinkKept ==
    ASSUME IInv, UInv, [Next]_programVars
    PROVE  LinkType' /\ PipeOK'
<1> USE DEF UInv, LinkType, PipeOK
<1>0. \A f \in Fds : file[f] = "pipe" => file'[f] = "pipe"
  BY PipesStay
<1>1. CASE CloseCalled \/ ConnectCalled
  BY <1>1 DEF CloseCalled, ConnectCalled, kernel, data, IsSocket
<1>2. CASE CloseSocket
  BY <1>0, <1>2 DEF CloseSocket, data, IInv, ControlOK
<1>3. CASE TellReader
  <2>1. s # 0 /\ ctl.at = "tell"
    BY <1>3 DEF TellReader, IInv, ControlOK, Closing
  <2>2. ctl'.at = "forget" /\ told' = told \cup {rep[1]}
        /\ UNCHANGED <<file, link, unread, data>>
    BY <1>3 DEF TellReader, IInv, ControlOK
  <2> QED BY <2>1, <2>2 DEF data, IsSocket
<1>4. CASE ForgetSocket
  <2>1. ctl'.at \in {"idle", "pipe"} /\ s' = 0 /\ UNCHANGED <<kernel, rep>>
    BY <1>4 DEF ForgetSocket, IInv, ControlOK
  <2>2. link = "none"
    BY <1>4 DEF ForgetSocket, IInv, OneSocket, IsSocket
  <2> QED BY <2>1, <2>2 DEF kernel
<1>5. CASE OpenPipe
  <2>1. CASE Cardinality(Free) < 2
    BY <1>0, <1>5, <2>1 DEF OpenPipe, IInv, ControlOK, IsSocket
  <2>2. CASE ~(Cardinality(Free) < 2)
    <3>1. Cardinality(Free) >= 2
      <4>1. IsFiniteSet(Fds) /\ Free \subseteq Fds
        BY FS_Interval, MaxFdAssumption DEF Free, Fds
      <4>2. Cardinality(Free) \in Nat
        BY <4>1, FS_Subset, FS_CardinalityType, Zenon
      <4> QED BY <2>2, <4>2
    <3>2. /\ Lowest \in Fds /\ file[Lowest] = "free"
          /\ Next2 \in Fds /\ file[Next2] = "free" /\ Next2 # Lowest
      BY <3>1, NextIsFree
    <3>3. /\ file' = [file EXCEPT ![Lowest] = "pipe", ![Next2] = "pipe_in"]
          /\ rep' = <<Lowest, Next2>> /\ ctl'.at = "socket" /\ s' = s /\ s = 0
          /\ UNCHANGED <<told, link, unread>>
      BY <1>5, <2>2 DEF OpenPipe, IInv, ControlOK
    <3>4. link = "none"
      BY <3>3, <3>2 DEF IInv, ControlOK, IsSocket
    <3>5. file \in [Fds -> Kinds]
      BY DEF IInv
    <3> HIDE DEF Lowest, Next2
    <3> QED BY <1>0, <3>2, <3>3, <3>4, <3>5
  <2> QED BY <2>1, <2>2
<1>6. CASE OpenSocket
  <2>1. ctl'.at = "idle" /\ ctl.at = "socket" /\ s = 0 /\ UNCHANGED <<told, unread, rep>>
    BY <1>6 DEF OpenSocket, IInv, ControlOK
  <2>2. link = "none"
    BY <2>1 DEF IInv, ControlOK, IsSocket
  <2>3. CASE Free = {}
    BY <1>6, <2>1, <2>2, <2>3 DEF OpenSocket
  <2>4. CASE Free # {}
    <3>1. Lowest \in Fds /\ s' = Lowest /\ file' = [file EXCEPT ![Lowest] = "socket"]
          /\ link' \in {"up", "none"}
      BY <1>6, <2>4, LowestIsFree DEF OpenSocket
    <3>2. IsSocket(s)'
      BY <3>1 DEF IInv, IsSocket
    <3> QED BY <1>0, <2>1, <3>1, <3>2
  <2> QED BY <2>3, <2>4
<1>7. CASE DataArrives \/ HangsUp
  BY <1>7 DEF DataArrives, HangsUp, data, IsSocket
<1>8. CASE Discovery
  <2>1. UNCHANGED <<told, link, unread, data>>
    BY <1>8 DEF Discovery, InquireCalled, SdpSearchCalled, Opens, InquireReturns,
                SdpSearchReturns, Answers, AnswerUsed, kernel
  <2>2. ctl.at \notin {"socket", "forget"} /\ ctl'.at \notin {"socket", "forget"}
    BY <1>8 DEF Discovery, InquireCalled, SdpSearchCalled, Opens, InquireReturns,
                SdpSearchReturns, Answers, AnswerUsed, IInv, ControlOK
  <2>3. IsSocket(s) => IsSocket(s)'
    BY <1>8, <2>1, LowestIsFree DEF Discovery, InquireCalled, SdpSearchCalled, Opens, InquireReturns,
                SdpSearchReturns, Answers, AnswerUsed, IInv, OneInquiry, IsSocket, kernel, data
  <2> QED BY <1>0, <2>1, <2>2, <2>3 DEF data
<1>9. CASE \/ ReadCalled \/ ReadNothing \/ WriteCalled \/ User
           \/ SelectReturns \/ Interrupted \/ ComesBack
  <2>1. UNCHANGED <<file, told, link, data, ctl>>
    BY <1>9, UserMoves
  <2>2. unread' \in BOOLEAN
    BY <1>9 DEF ReadCalled, ReadNothing, WriteCalled, User, SelectReturns, Interrupted, ComesBack,
                FillSet, SelectBegins, TestSet, ReadCalls, WriteCalls, FromSocket, kernel
  <2> QED BY <2>1, <2>2 DEF data, IsSocket
<1>10. CASE UNCHANGED programVars
  BY <1>10 DEF programVars, vars, kernel, data, IsSocket
<1> QED BY <1>1, <1>2, <1>3, <1>4, <1>5, <1>6, <1>7, <1>8, <1>9, <1>10
        DEF Next, BindingNext, Controller

LEMMA UserStep ==
    ASSUME IInv, UInv, [Next]_programVars
    PROVE  UInv'
<1>1. CASE \/ ReadCalled \/ ReadNothing \/ WriteCalled \/ User
           \/ SelectReturns \/ Interrupted \/ ComesBack
  BY <1>1, UserMoves, LinkKept DEF UInv
<1>2. CASE \/ (CloseCalled \/ ConnectCalled \/ Controller \/ DataArrives \/ HangsUp) /\ UNCHANGED job
           \/ Discovery \/ UNCHANGED programVars
  <2>1. user' = user
    BY <1>2 DEF CloseCalled, ConnectCalled, Controller, CloseSocket, TellReader, ForgetSocket,
                OpenPipe, OpenSocket, DataArrives, HangsUp, Discovery, InquireCalled,
                SdpSearchCalled, Opens, InquireReturns, SdpSearchReturns, Answers, AnswerUsed,
                programVars, vars
  <2> QED BY <1>2, <2>1, UserStays, LinkKept DEF UInv
<1> QED BY <1>1, <1>2 DEF Next, BindingNext

LEMMA UserInit == ProgramInit => UInv
<1> SUFFICES ASSUME ProgramInit PROVE UInv
  OBVIOUS
<1>1. ctl.at = "idle" /\ s = 0 /\ told = {} /\ link = "none" /\ unread = FALSE
      /\ rep = <<-1, -1>> /\ ctl.then = "idle"
  BY DEF ProgramInit, Init
<1>2. user = [at |-> "idle", set |-> {}, fd |-> -1, got |-> "nothing"]
  BY DEF ProgramInit, Init, Idle
<1>3. UserType
  BY <1>2 DEF UserType, UserPlaces, Results
<1>4. LinkType
  <2>1. \A i \in 1..2 : rep[i] = -1
    BY <1>1
  <2> QED BY <1>1, <2>1 DEF LinkType
<1>5. PipeOK
  BY <1>1 DEF PipeOK
<1>6. SetOK
  BY <1>1 DEF SetOK, Closed
<1> QED BY <1>3, <1>4, <1>5, <1>6 DEF UInv

LEMMA UserInvariant == Spec => []UInv
<1>1. IInv /\ UInv /\ [Next]_programVars => UInv'
  BY UserStep
<1> QED BY <1>1, UserInit, Invariant, PTL DEF Spec

(* Types (LinuxProgram!TypeOK), and that only a socket has a link.         *)
THEOREM TypeCorrect == Spec => []TypeOK
<1>1. IInv /\ UInv => TypeOK
  BY DEF IInv, ControlOK, UInv, UserType, LinkType, TypeOK
<1> QED BY <1>1, Invariant, UserInvariant, PTL

(* A Read that waited returns 0 only if Close was called or the device     *)
(* hung up (BTSerialPortBinding.cc:126), though pselect may report what it likes   *)
(* of a descriptor that was closed under it, and numbers are used again:   *)
(* the pipe of a connection that is not closed was told nothing, so what   *)
(* pselect reports is the socket.                                          *)
THEOREM EndComesFromClose == Spec => EndMeansClosed
<1> DEFINE A == user.at \in {"isset", "read"} /\ user'.got = "end"
                    => Closed \/ link = "hungup"
<1>1. UInv /\ [Next]_programVars => [A]_programVars
  <2> SUFFICES ASSUME UInv, Next, user.at \in {"isset", "read"}, user'.got = "end",
                      ~Closed, link # "hungup"
               PROVE  FALSE
    OBVIOUS
  <2>1. user.got = "nothing" /\ user' # user
    BY DEF UInv, UserType
  <2>2. CASE TestSet
    <3>1. user.set = {s}
      BY <2>2 DEF TestSet, UInv, SetOK
    <3>2. user' = [at |-> "read", set |-> {}, fd |-> s, got |-> "nothing"]
      BY <2>2, <3>1 DEF TestSet, Idle
    <3> QED BY <3>2
  <2>3. CASE ReadCalls
    <3>1. Returns("data") \/ Returns("error") \/ \E f : GoesAstray(f)
      BY <2>3 DEF ReadCalls, FromSocket
    <3>2. CASE Returns("data") \/ Returns("error")
      BY <3>2 DEF Returns, Idle
    <3>3. CASE \E f : GoesAstray(f)
      <4>1. PICK f : user' = [user EXCEPT !.at = "astray", !.fd = f]
        BY <3>3 DEF GoesAstray
      <4>2. user'.got = user.got
        BY <4>1 DEF UInv, UserType
      <4> QED BY <2>1, <4>2
    <3> QED BY <3>1, <3>2, <3>3
  <2>4. ~TestSet /\ ~ReadCalls => user' = user
    BY DEF Next, BindingNext, Controller, User, CloseCalled, ConnectCalled, CloseSocket, TellReader,
           ForgetSocket, OpenPipe, OpenSocket, DataArrives, HangsUp, Discovery, InquireCalled,
           SdpSearchCalled, Opens, InquireReturns, SdpSearchReturns, Answers, AnswerUsed,
           ReadCalled, ReadNothing, WriteCalled, FillSet, SelectBegins, SelectReturns, Interrupted,
           WriteCalls, ComesBack
  <2> QED BY <2>1, <2>2, <2>3, <2>4
<1> QED BY <1>1, UserInvariant, PTL DEF Spec, EndMeansClosed

-----------------------------------------------------------------------------
(* The class of a device: a sum of fields that do not overlap.             *)

LEMMA Quotients ==
    ASSUME NEW d \in {4, 32, 256, 8192}, NEW x \in Nat
    PROVE  /\ x \div d \in Nat /\ x % d \in 0..(d - 1)
           /\ x = d * (x \div d) + (x % d)
OBVIOUS

LEMMA Unique ==
    ASSUME NEW d \in {4, 32, 256, 8192}, NEW x, NEW q \in Nat, NEW r \in Nat,
           r < d, x = d * q + r
    PROVE  x \div d = q /\ x % d = r
<1>1. CASE d = 4
  BY <1>1
<1>2. CASE d = 32
  BY <1>2
<1>3. CASE d = 256
  BY <1>3
<1>4. CASE d = 8192
  BY <1>4
<1> QED BY <1>1, <1>2, <1>3, <1>4

LEMMA FieldsApart ==
    ASSUME NEW x \in Byte, NEW y \in Byte, NEW z \in Byte
    PROVE  /\ Decoded(ClassOfDevice(<<x, y, z>>))
                = [deviceClass      |-> 256 * (y % 32) + 4 * (x \div 4),
                   majorDeviceClass |-> 256 * (y % 32),
                   serviceClass     |-> (y \div 32) + 8 * z]
           /\ x \div 4 \in 0..63 /\ y \div 32 \in 0..7 /\ y % 32 \in 0..31
<1> DEFINE q == x \div 4
           r == x % 4
           a == y \div 32
           b == y % 32
           c == ClassOfDevice(<<x, y, z>>)
<1>1. /\ q \in 0..63 /\ r \in 0..3 /\ x = 4 * q + r
      /\ a \in 0..7 /\ b \in 0..31 /\ y = 32 * a + b
  BY Quotients DEF Byte
<1>2. c = x + 256 * (y + 256 * z)
  BY DEF ClassOfDevice
<1> HIDE DEF q, r, a, b, c
<1> DEFINE low == 256 * b + 4 * q + r
<1>3. /\ low \in Nat /\ low < 8192 /\ a + 8 * z \in Nat
      /\ c = 8192 * (a + 8 * z) + low
  BY <1>1, <1>2 DEF Byte
<1>4. low = 256 * b + x /\ x \in Nat /\ x < 256 /\ b \in Nat
  BY <1>1 DEF Byte
<1>5. low = 4 * (64 * b + q) + r /\ 64 * b + q \in Nat /\ r \in Nat /\ r < 4
  BY <1>1
<1> HIDE DEF low
<1>6. c \div 8192 = a + 8 * z /\ c % 8192 = low
  BY <1>3, Unique
<1>7. low \div 256 = b
  BY <1>4, Unique
<1>8. low \div 4 = 64 * b + q
  BY <1>5, Unique
<1>9. 2^13 = 8192 /\ 2^8 = 256
  OBVIOUS
<1>10. Decoded(c) = [deviceClass      |-> (64 * b + q) * 4,
                     majorDeviceClass |-> b * 256,
                     serviceClass     |-> a + 8 * z]
  BY <1>6, <1>7, <1>8, <1>9 DEF Decoded
<1>11. (64 * b + q) * 4 = 256 * b + 4 * q /\ b * 256 = 256 * b
  BY <1>1
<1>12. Decoded(c) = [deviceClass      |-> 256 * b + 4 * q,
                     majorDeviceClass |-> 256 * b,
                     serviceClass     |-> a + 8 * z]
  BY <1>10, <1>11
<1> QED BY <1>1, <1>12 DEF q, a, b, c

LEMMA MajorHasName ==
    ASSUME NEW m \in Nat, NEW q \in 0..63, HasName(256 * m + 4 * q)
    PROVE  HasName(256 * m)
<1> DEFINE x == 256 * m + 4 * q
<1>1. x \in DeviceClass
  BY DEF HasName
<1>2. 256 * m \in {256 * k : k \in {0, 1, 2, 3, 4, 5, 6, 7, 8, 9, 31}}
  BY <1>1 DEF DeviceClass, Scaled, DC_Uncategorized
<1>3. m \in {0, 1, 2, 3, 4, 5, 6, 7, 8, 9, 31}
  BY <1>2
<1> QED BY <1>3 DEF HasName, DeviceClass, Scaled, DC_Uncategorized

LEMMA NoServices ==
    ASSUME NEW low \in 0..7, NEW high \in Byte, ServiceNames(low + 8 * high) = {}
    PROVE  low % 2 = 0 /\ high = 0
<1>1. \A bit \in ServiceBits : ((low + 8 * high) \div 2^bit) % 2 # 1
  BY DEF ServiceNames
<1>2. 2^0 = 1 /\ 2^3 = 8 /\ 2^4 = 16 /\ 2^5 = 32 /\ 2^6 = 64 /\ 2^7 = 128
      /\ 2^8 = 256 /\ 2^9 = 512 /\ 2^10 = 1024
  OBVIOUS
<1>3. 0 \in ServiceBits /\ \A bit \in 3..10 : bit \in ServiceBits
  BY DEF ServiceBits
<1> DEFINE x == low + 8 * high
<1>4. /\ (x \div 1) % 2 # 1 /\ (x \div 8) % 2 # 1 /\ (x \div 16) % 2 # 1
      /\ (x \div 32) % 2 # 1 /\ (x \div 64) % 2 # 1 /\ (x \div 128) % 2 # 1
      /\ (x \div 256) % 2 # 1 /\ (x \div 512) % 2 # 1 /\ (x \div 1024) % 2 # 1
  <2>1. \A bit \in {0, 3, 4, 5, 6, 7, 8, 9, 10} : (x \div 2^bit) % 2 # 1
    BY <1>1, <1>3
  <2> HIDE DEF x
  <2>2. /\ (x \div 2^0) % 2 # 1 /\ (x \div 2^3) % 2 # 1 /\ (x \div 2^4) % 2 # 1
        /\ (x \div 2^5) % 2 # 1 /\ (x \div 2^6) % 2 # 1 /\ (x \div 2^7) % 2 # 1
        /\ (x \div 2^8) % 2 # 1 /\ (x \div 2^9) % 2 # 1 /\ (x \div 2^10) % 2 # 1
    BY <2>1
  <2> QED BY <1>2, <2>2
<1>5. x \in 0..2047
  BY DEF Byte
<1>6. x < 8
  BY <1>4, <1>5
<1> QED BY <1>4, <1>6 DEF Byte

(* What a call of Inquire or SdpSearch was given, and what it answers.     *)
JobFits ==
    /\ job = [call |-> job.call, fd |-> job.fd, input |-> job.input, answer |-> job.answer]
    /\ ctl.at = "inquiring" => job.call = "inquiring"
    /\ ctl.at = "searching" => job.call = "searching"
    /\ job.call = "inquiring" => job.input \in Seen
    /\ job.call = "searching" => job.input \in Responses
    /\ ctl.at = "answered" /\ job.call = "inquiring" =>
          job.answer = [i \in DOMAIN job.input |-> Decoded(ClassOfDevice(job.input[i]))]
    /\ ctl.at = "answered" /\ job.call = "searching" => job.answer = Walk(job.input)

LEMMA JobStays ==
    ASSUME IInv, JobFits, BindingNext, UNCHANGED job
    PROVE  JobFits'
<1> SUFFICES ctl'.at \in {"inquiring", "searching", "answered"} => ctl' = ctl
  BY DEF JobFits
<1> USE DEF IInv, ControlOK, Places, Closing
<1>1. CASE CloseCalled \/ ConnectCalled
  BY <1>1 DEF CloseCalled, ConnectCalled
<1>2. CASE Controller
  BY <1>2 DEF Controller, CloseSocket, TellReader, ForgetSocket, OpenPipe, OpenSocket
<1>3. CASE ReadCalled \/ ReadNothing \/ WriteCalled \/ SelectReturns \/ Interrupted \/ ComesBack
  BY <1>3 DEF ReadCalled, ReadNothing, WriteCalled, SelectReturns, Interrupted, ComesBack
<1>4. CASE User
  BY <1>4 DEF User, FillSet, SelectBegins, TestSet, ReadCalls, WriteCalls
<1>5. CASE DataArrives \/ HangsUp
  BY <1>5 DEF DataArrives, HangsUp
<1> QED BY <1>1, <1>2, <1>3, <1>4, <1>5 DEF BindingNext

LEMMA JobMoves ==
    ASSUME IInv, JobFits, Discovery
    PROVE  JobFits'
<1> USE DEF IInv, ControlOK, Places, Closing, JobFits
<1>1. CASE InquireCalled
  BY <1>1 DEF InquireCalled, Opens
<1>2. CASE SdpSearchCalled
  BY <1>2 DEF SdpSearchCalled, Opens
<1>3. CASE InquireReturns
  <2> DEFINE classes == [i \in DOMAIN job.input |-> Decoded(ClassOfDevice(job.input[i]))]
  <2>1. job' = [job EXCEPT !.answer = classes] /\ ctl'.at = "answered"
    BY <1>3 DEF InquireReturns, Answers
  <2> HIDE DEF classes
  <2>2. job' = [call |-> job.call, fd |-> job.fd, input |-> job.input, answer |-> classes]
    BY <2>1
  <2> QED BY <1>3, <2>1, <2>2 DEF classes, InquireReturns
<1>4. CASE SdpSearchReturns
  <2>1. /\ job' = [job EXCEPT !.answer = Walk(job.input)] /\ ctl'.at = "answered"
        /\ job.call = "searching"
    BY <1>4 DEF SdpSearchReturns, Answers
  <2>2. job' = [call |-> job.call, fd |-> job.fd, input |-> job.input,
                answer |-> Walk(job.input)]
    BY <2>1
  <2> QED BY <2>1, <2>2
<1>5. CASE AnswerUsed
  BY <1>5 DEF AnswerUsed, NoJob
<1> QED BY <1>1, <1>2, <1>3, <1>4, <1>5 DEF Discovery

LEMMA JobInvariant == Spec => []JobFits
<1>1. ProgramInit => JobFits
  BY DEF ProgramInit, Init, NoJob, JobFits
<1>2. IInv /\ JobFits /\ [Next]_programVars => JobFits'
  <2> SUFFICES ASSUME IInv, JobFits, [Next]_programVars PROVE JobFits'
    OBVIOUS
  <2>1. CASE UNCHANGED programVars
    BY <2>1 DEF programVars, vars, JobFits
  <2> QED BY <2>1, JobStays, JobMoves DEF Next
<1> QED BY <1>1, <1>2, Invariant, PTL DEF Spec

(* For any three bytes a device may send, Inquire takes its class apart    *)
(* without mixing minor class, major class and services, and every class   *)
(* that has a name belongs to a major class that has one                   *)
(* (DeviceINQ.cc:70-82, Enums.cc).                                         *)
THEOREM ClassesAreDecoded == Spec => []DecodesClass
<1>1. JobFits => DecodesClass
  <2> SUFFICES ASSUME JobFits, ctl.at = "answered", job.call = "inquiring",
                      NEW i \in DOMAIN job.input
               PROVE  LET p == job.input[i]
                          d == job.answer[i]
                      IN  /\ d.deviceClass = d.majorDeviceClass + 4 * (p[1] \div 4)
                          /\ d.majorDeviceClass = 256 * (p[2] % 32)
                          /\ d.serviceClass = p[2] \div 32 + 8 * p[3]
                          /\ HasName(d.deviceClass) => HasName(d.majorDeviceClass)
                          /\ ServiceNames(d.serviceClass) = {}
                                => p[2] \div 32 % 2 = 0 /\ p[3] = 0
    BY DEF DecodesClass
  <2>1. job.input \in Seq(Byte \X Byte \X Byte)
    BY SeenAssumption DEF JobFits
  <2>2. PICK x \in Byte, y \in Byte, z \in Byte : job.input[i] = <<x, y, z>>
    BY <2>1
  <2>3. job.answer[i] = Decoded(ClassOfDevice(<<x, y, z>>))
    BY <2>2 DEF JobFits
  <2> DEFINE q == x \div 4
             a == y \div 32
             b == y % 32
  <2>4. /\ job.answer[i] = [deviceClass      |-> 256 * b + 4 * q,
                            majorDeviceClass |-> 256 * b,
                            serviceClass     |-> a + 8 * z]
        /\ q \in 0..63 /\ a \in 0..7 /\ b \in 0..31
    BY <2>3, FieldsApart
  <2> HIDE DEF q, a, b
  <2>5. HasName(256 * b + 4 * q) => HasName(256 * b)
    BY <2>4, MajorHasName
  <2>6. ServiceNames(a + 8 * z) = {} => a % 2 = 0 /\ z = 0
    BY <2>4, NoServices
  <2>7. 256 * b + 4 * q = 256 * b + 4 * (x \div 4)
    BY DEF q
  <2> QED BY <2>2, <2>4, <2>5, <2>6, <2>7 DEF a, b
<1> QED BY <1>1, JobInvariant, PTL

-----------------------------------------------------------------------------
(* Least and greatest members, and induction up to n: its set of good      *)
(* numbers is a parameter, which the provers can instantiate.              *)

LEMMA Upward ==
    ASSUME NEW n \in Nat, NEW S, 0 \in S,
           \A k \in 1..n : k - 1 \in S => k \in S
    PROVE  \A k \in 0..n : k \in S
<1> SUFFICES ASSUME \E k \in 0..n : k \notin S PROVE FALSE
  OBVIOUS
<1> DEFINE Bad == {k \in 0..n : k \notin S}
<1>1. Bad \subseteq Nat /\ Bad # {}
  OBVIOUS
<1>2. PICK k \in Bad : \A m \in Bad : k <= m
  BY <1>1, LeastExists, LeastIsLeast
<1>3. k \in 1..n /\ k - 1 \in 0..n /\ ~(k <= k - 1)
  OBVIOUS
<1>4. k - 1 \in S
  BY <1>2, <1>3
<1> QED BY <1>3, <1>4

LEMMA LeastUnique ==
    ASSUME NEW S, S \subseteq Nat, NEW x \in S, \A y \in S : x <= y
    PROVE  Min(S) = x
<1>1. \A z \in S : (\A y \in S : z <= y) => z = x
  <2> SUFFICES ASSUME NEW z \in S, \A y \in S : z <= y PROVE z = x
    OBVIOUS
  <2>1. x <= z /\ z <= x /\ x \in Nat /\ z \in Nat
    OBVIOUS
  <2> QED BY <2>1
<1> QED BY <1>1 DEF Min

LEMMA GreatestIsGreatest ==
    ASSUME NEW n \in Nat, NEW S \in SUBSET (1..n), S # {}
    PROVE  Max(S) \in S /\ \A y \in S : y <= Max(S)
<1> DEFINE T == {n - x : x \in S}
<1>1. T \subseteq Nat /\ T # {}
  <2>1. \A x \in S : x \in 1..n
    OBVIOUS
  <2>2. \A x \in 1..n : n - x \in Nat
    OBVIOUS
  <2> QED BY <2>1, <2>2, Zenon
<1>2. PICK m \in T : \A y \in T : m <= y
  BY <1>1, LeastExists, LeastIsLeast
<1>3. PICK x \in S : m = n - x
  BY <1>2
<1>4. \A y \in S : n - x <= n - y
  BY <1>2, <1>3
<1>5. \A y \in S : x >= y
  BY <1>4
<1>6. Max(S) \in S /\ \A y \in S : Max(S) >= y
  BY <1>5 DEF Max
<1> QED BY <1>6

LEMMA GreatestUnique ==
    ASSUME NEW n \in Nat, NEW S \in SUBSET (1..n), NEW x \in S, \A y \in S : y <= x
    PROVE  Max(S) = x
<1>1. Max(S) \in S /\ x <= Max(S) /\ Max(S) <= x
  BY GreatestIsGreatest
<1>2. Max(S) \in Int /\ x \in Int
  <2>1. Max(S) \in 1..n /\ x \in 1..n
    BY <1>1, Zenon
  <2> QED BY <2>1
<1> QED BY <1>1, <1>2

-----------------------------------------------------------------------------
(* The three outer folds of the walk: an answer that was found stays, else *)
(* the next member of the sequence is asked.                               *)

Answer == {a \in [found : BOOLEAN, channel : Int] : a.found \/ a = NotFound}

Hits(V, part) == {k \in part : V[k].found}

First(V, base, part) ==
    IF base.found \/ Hits(V, part) = {} THEN base ELSE V[Min(Hits(V, part))]

LEMMA SubsetsOfNat ==
    ASSUME NEW n, NEW part \in SUBSET (1..n), NEW T \in SUBSET part
    PROVE  T \subseteq 1..n /\ T \subseteq Nat
<1>1. \A k \in 1..n : k \in Nat
  OBVIOUS
<1> QED BY <1>1, Zenon

LEMMA FirstType ==
    ASSUME NEW n \in Nat, NEW V \in [1..n -> Answer], NEW base \in Answer,
           NEW part \in SUBSET (1..n)
    PROVE  First(V, base, part) \in Answer
<1>1. CASE base.found \/ Hits(V, part) = {}
  BY <1>1 DEF First
<1>2. CASE ~(base.found \/ Hits(V, part) = {})
  <2>1. Hits(V, part) \subseteq Nat /\ Hits(V, part) \subseteq 1..n
    <3>1. Hits(V, part) \in SUBSET part
      BY DEF Hits
    <3> QED BY <3>1, SubsetsOfNat
  <2>2. Min(Hits(V, part)) \in 1..n
    BY <1>2, <2>1, LeastExists
  <2> QED BY <1>2, <2>2 DEF First
<1> QED BY <1>1, <1>2

(* What one more member changes.                                           *)
LEMMA FirstStep ==
    ASSUME NEW n \in Nat, NEW V \in [1..n -> Answer], NEW base \in Answer,
           NEW part \in SUBSET (1..n), part # {}
    PROVE  LET m == Max(part)
               a == First(V, base, part \ {m})
           IN  First(V, base, part) = IF a.found THEN a ELSE V[m]
<1> DEFINE m == Max(part)
           t == part \ {m}
<1>1. m \in part /\ \A y \in part : y <= m
  BY GreatestIsGreatest
<1> HIDE DEF m
<1>2. Hits(V, part) \subseteq Nat /\ Hits(V, t) \subseteq Nat /\ V[m] \in Answer
  <2>1. Hits(V, part) \in SUBSET part /\ Hits(V, t) \in SUBSET part
    BY DEF Hits
  <2>2. m \in 1..n
    BY <1>1, Zenon
  <2> QED BY <2>1, <2>2, SubsetsOfNat
<1>3. CASE base.found
  BY <1>3 DEF First
<1>4. CASE ~base.found /\ Hits(V, t) # {}
  <2> DEFINE l == Min(Hits(V, t))
  <2>1. l \in Hits(V, t) /\ \A y \in Hits(V, t) : l <= y
    BY <1>2, <1>4, LeastExists, LeastIsLeast
  <2> HIDE DEF l
  <2>2. l \in Hits(V, part) /\ V[l].found /\ l <= m
    BY <1>1, <2>1 DEF Hits
  <2>3. \A y \in Hits(V, part) : l <= y
    BY <1>1, <2>1, <2>2 DEF Hits
  <2>4. Min(Hits(V, part)) = l
    BY <1>2, <2>2, <2>3, LeastUnique
  <2>5. First(V, base, t) = V[l] /\ First(V, base, part) = V[l]
    BY <1>4, <2>2, <2>4 DEF First, l
  <2> QED BY <2>2, <2>5 DEF m
<1>5. CASE ~base.found /\ Hits(V, t) = {}
  <2>1. base = NotFound /\ First(V, base, t) = base
    BY <1>5 DEF Answer, First
  <2>2. CASE V[m].found
    <3>1. Hits(V, part) = {m}
      BY <1>1, <1>5, <2>2 DEF Hits
    <3>2. m \in Hits(V, part) /\ \A y \in Hits(V, part) : m <= y
      BY <1>1, <3>1
    <3>3. Min(Hits(V, part)) = m
      BY <1>2, <3>2, LeastUnique
    <3> QED BY <1>5, <2>1, <3>1, <3>3 DEF First, m
  <2>3. CASE ~V[m].found
    <3>1. Hits(V, part) = {} /\ V[m] = NotFound
      BY <1>2, <1>5, <2>3 DEF Hits, Answer
    <3> QED BY <1>5, <2>1, <3>1 DEF First, m
  <2> QED BY <2>2, <2>3
<1> QED BY <1>3, <1>4, <1>5

(* An answer that was found stays; the least hit is the answer otherwise.  *)
LEMMA FirstIs ==
    ASSUME NEW n \in Nat, NEW V \in [1..n -> Answer], NEW base \in Answer
    PROVE  /\ First(V, base, 1..n) \in Answer
           /\ base.found => First(V, base, 1..n) = base
           /\ ~base.found => base = NotFound
           /\ First(V, NotFound, 1..n).found <=> \E k \in 1..n : V[k].found
           /\ First(V, NotFound, 1..n).found =>
                 \E k \in 1..n : /\ V[k].found
                                 /\ \A l \in 1..n : V[l].found => k <= l
                                 /\ First(V, NotFound, 1..n) = V[k]
<1> DEFINE H == Hits(V, 1..n)
<1>1. 1..n \in SUBSET (1..n) /\ H \subseteq Nat
      /\ \A k : k \in H <=> k \in 1..n /\ V[k].found
  BY DEF Hits
<1>2. First(V, base, 1..n) \in Answer
  BY <1>1, FirstType
<1>3. (base.found => First(V, base, 1..n) = base) /\ (~base.found => base = NotFound)
  BY DEF First, Answer
<1>4. First(V, NotFound, 1..n) = IF H = {} THEN NotFound ELSE V[Min(H)]
  BY DEF First, NotFound
<1> HIDE DEF H
<1>5. CASE H = {}
  <2>1. ~First(V, NotFound, 1..n).found
    BY <1>4, <1>5 DEF NotFound
  <2> QED BY <1>1, <1>2, <1>3, <1>5, <2>1
<1>6. CASE H # {}
  <2>1. Min(H) \in H /\ \A l \in H : Min(H) <= l
    BY <1>1, <1>6, LeastExists, LeastIsLeast
  <2>2. First(V, NotFound, 1..n) = V[Min(H)]
    BY <1>4, <1>6
  <2> QED BY <1>1, <1>2, <1>3, <2>1, <2>2
<1> QED BY <1>5, <1>6

(* Two functions with a fold's equation agree on what the fold returns.    *)
LEMMA SameUpTo ==
    ASSUME NEW n \in Nat, NEW f, NEW g, f[{}] = g[{}],
           \A k \in 1..n : f[1..(k - 1)] = g[1..(k - 1)] => f[1..k] = g[1..k]
    PROVE  f[1..n] = g[1..n]
<1> DEFINE S == {k \in 0..n : f[1..k] = g[1..k]}
<1>1. 0 \in S
  <2>1. 1..0 = {}
    OBVIOUS
  <2> QED BY <2>1
<1>2. ASSUME NEW k \in 1..n, k - 1 \in S PROVE k \in S
  BY <1>2
<1> HIDE DEF S
<1>3. n \in S
  <2>1. \A k \in 0..n : k \in S
    BY <1>1, <1>2, Upward
  <2> QED BY <2>1
<1> QED BY <1>3 DEF S

LEMMA UpToStep ==
    ASSUME NEW n \in Nat, NEW k \in 1..n
    PROVE  /\ 1..k \in SUBSET (1..n) /\ 1..k # {} /\ Max(1..k) = k
           /\ (1..k) \ {k} = 1..(k - 1) /\ 1..(k - 1) \in SUBSET (1..n)
<1>1. 1..k \in SUBSET (1..n) /\ k \in 1..k /\ \A y \in 1..k : y <= k
  OBVIOUS
<1>2. Max(1..k) = k
  BY <1>1, GreatestUnique
<1>3. (1..k) \ {k} = 1..(k - 1) /\ 1..(k - 1) \in SUBSET (1..n)
  OBVIOUS
<1> QED BY <1>1, <1>2, <1>3

-----------------------------------------------------------------------------
(* The innermost fold, over the elements of a list.                        *)

Uuids(list, part) == {k \in part : list[k].dtd = "uuid"}

(* The protocol that the elements of `s' leave the walk with.              *)
ProtoOf(list, part) ==
    IF Uuids(list, part) = {} THEN 0 ELSE list[Max(Uuids(list, part))].val

Spots(list, part) ==
    {k \in part : list[k].dtd = "uint8" /\ ProtoOf(list, {i \in part : i < k}) = RFCOMM_UUID}

(* Where the walk is after the elements of `s'.                            *)
After(list, base, part) ==
    IF base.found THEN [answer |-> base, proto |-> 0]
    ELSE IF Spots(list, part) = {}
         THEN [answer |-> base, proto |-> ProtoOf(list, part)]
    ELSE [answer |-> [found |-> TRUE, channel |-> Int8(list[Min(Spots(list, part))].val)],
          proto |-> RFCOMM_UUID]

LEMMA ProtoStep ==
    ASSUME NEW list \in Seq(Element), NEW part \in SUBSET (1..Len(list)),
           NEW m \in part, \A y \in part : y <= m
    PROVE  /\ list[m].dtd = "uuid" => ProtoOf(list, part) = list[m].val
           /\ list[m].dtd # "uuid" => ProtoOf(list, part) = ProtoOf(list, part \ {m})
<1>1. CASE list[m].dtd = "uuid"
  <2>1. /\ Uuids(list, part) \in SUBSET (1..Len(list)) /\ m \in Uuids(list, part)
        /\ \A y \in Uuids(list, part) : y <= m
    BY <1>1 DEF Uuids
  <2>2. Max(Uuids(list, part)) = m
    BY <2>1, GreatestUnique, LenProperties
  <2> QED BY <1>1, <2>1, <2>2 DEF ProtoOf
<1>2. CASE list[m].dtd # "uuid"
  <2>1. Uuids(list, part) = Uuids(list, part \ {m})
    BY <1>2 DEF Uuids
  <2> QED BY <1>2, <2>1 DEF ProtoOf
<1> QED BY <1>1, <1>2

LEMMA ProtoType ==
    ASSUME NEW list \in Seq(Element), NEW part \in SUBSET (1..Len(list))
    PROVE  ProtoOf(list, part) \in Int
<1>1. CASE Uuids(list, part) # {}
  <2>1. Uuids(list, part) \in SUBSET (1..Len(list)) /\ Len(list) \in Nat
    BY LenProperties DEF Uuids
  <2>2. Max(Uuids(list, part)) \in 1..Len(list)
    BY <1>1, <2>1, GreatestIsGreatest
  <2>3. list[Max(Uuids(list, part))] \in Element
    BY <2>2
  <2> QED BY <1>1, <2>3 DEF ProtoOf, Element
<1>2. CASE Uuids(list, part) = {}
  BY <1>2 DEF ProtoOf
<1> QED BY <1>1, <1>2

LEMMA SpotsStep ==
    ASSUME NEW n \in Nat, NEW list, NEW part \in SUBSET (1..n),
           NEW m \in part, \A y \in part : y <= m
    PROVE  /\ \A k \in part \ {m} : k \in Spots(list, part) <=> k \in Spots(list, part \ {m})
           /\ m \in Spots(list, part)
                <=> list[m].dtd = "uint8" /\ ProtoOf(list, part \ {m}) = RFCOMM_UUID
<1>1. ASSUME NEW k \in part \ {m}
      PROVE  {i \in part : i < k} = {i \in part \ {m} : i < k}
  BY <1>1
<1>2. {i \in part : i < m} = part \ {m}
  <2>1. ASSUME NEW i \in part PROVE i < m <=> i # m
    <3>1. i <= m /\ i \in Int /\ m \in Int
      OBVIOUS
    <3> QED BY <3>1
  <2> QED BY <2>1
<1>3. \A k \in part : k \in Spots(list, part)
          <=> list[k].dtd = "uint8" /\ ProtoOf(list, {i \in part : i < k}) = RFCOMM_UUID
  BY DEF Spots
<1>4. \A k \in part \ {m} : k \in Spots(list, part \ {m})
          <=> list[k].dtd = "uint8" /\ ProtoOf(list, {i \in part \ {m} : i < k}) = RFCOMM_UUID
  BY DEF Spots
<1> QED BY <1>1, <1>2, <1>3, <1>4

LEMMA NotFoundYet ==
    ASSUME NEW base \in Answer, ~base.found, NEW p \in Int, NEW d \in Element
    PROVE  LET next == AtElement([answer |-> base, proto |-> p], d) IN
           /\ d.dtd = "uuid" => next = [answer |-> base, proto |-> d.val]
           /\ d.dtd # "uuid" /\ d.dtd = "uint8" /\ p = RFCOMM_UUID =>
                 next = [answer |-> [found |-> TRUE, channel |-> Int8(d.val)], proto |-> p]
           /\ d.dtd # "uuid" /\ ~(d.dtd = "uint8" /\ p = RFCOMM_UUID) =>
                 next = [answer |-> base, proto |-> p]
<1> DEFINE acc == [answer |-> base, proto |-> p]
           new == [found |-> TRUE, channel |-> Int8(d.val)]
<1>1. ~acc.answer.found /\ acc.proto = p
  OBVIOUS
<1>2. [acc EXCEPT !.proto = d.val] = [answer |-> base, proto |-> d.val]
  OBVIOUS
<1>3. [acc EXCEPT !.answer = new] = [answer |-> new, proto |-> p]
  <2> HIDE DEF new
  <2> QED OBVIOUS
<1> HIDE DEF acc
<1>4. AtElement(acc, d) = IF d.dtd = "uuid" THEN [acc EXCEPT !.proto = d.val]
                          ELSE IF d.dtd = "uint8" /\ p = RFCOMM_UUID
                               THEN [acc EXCEPT !.answer = new]
                          ELSE acc
  BY <1>1 DEF AtElement
<1> HIDE DEF new
<1> QED BY <1>2, <1>3, <1>4 DEF acc, new

LEMMA AfterStep ==
    ASSUME NEW list \in Seq(Element), NEW base \in Answer,
           NEW part \in SUBSET (1..Len(list)), part # {}
    PROVE  After(list, base, part) =
              AtElement(After(list, base, part \ {Max(part)}), list[Max(part)])
<1> DEFINE n == Len(list)
           m == Max(part)
           t == part \ {m}
<1>0. n \in Nat
  BY LenProperties
<1>1. m \in part /\ (\A y \in part : y <= m) /\ m \in 1..n
  BY <1>0, GreatestIsGreatest
<1> HIDE DEF m
<1>2. /\ \A k \in t : k \in Spots(list, part) <=> k \in Spots(list, t)
      /\ m \in Spots(list, part) <=> list[m].dtd = "uint8" /\ ProtoOf(list, t) = RFCOMM_UUID
  BY <1>0, <1>1, SpotsStep
<1>3. /\ list[m].dtd = "uuid" => ProtoOf(list, part) = list[m].val
      /\ list[m].dtd # "uuid" => ProtoOf(list, part) = ProtoOf(list, t)
  BY <1>1, ProtoStep
<1>4. /\ Spots(list, part) \subseteq part /\ Spots(list, t) \subseteq t
      /\ Spots(list, part) \subseteq Nat /\ Spots(list, t) \subseteq Nat
  <2>1. /\ Spots(list, part) \subseteq part /\ Spots(list, t) \subseteq t
        /\ t \subseteq part
    BY DEF Spots
  <2>2. Spots(list, part) \in SUBSET part /\ Spots(list, t) \in SUBSET part
    BY <2>1, Zenon
  <2> QED BY <2>1, <2>2, SubsetsOfNat
<1>5. list[m] \in Element /\ ProtoOf(list, t) \in Int
  <2>1. t \in SUBSET (1..Len(list))
    OBVIOUS
  <2> QED BY <1>1, <2>1, ProtoType
<1>6. SUFFICES After(list, base, part) = AtElement(After(list, base, t), list[m])
  BY DEF m
<1>7. CASE base.found
  BY <1>7 DEF After, AtElement
<1>8. CASE ~base.found /\ Spots(list, t) # {}
  <2> DEFINE l == Min(Spots(list, t))
  <2>1. l \in Spots(list, t) /\ \A y \in Spots(list, t) : l <= y
    BY <1>4, <1>8, LeastExists, LeastIsLeast
  <2> HIDE DEF l
  <2>2. l \in Spots(list, part)
    BY <1>2, <1>4, <2>1
  <2>3. \A y \in Spots(list, part) : l <= y
    BY <1>1, <1>2, <1>4, <2>1
  <2>4. Min(Spots(list, part)) = l
    BY <1>4, <2>2, <2>3, LeastUnique
  <2>5. After(list, base, part) = After(list, base, t)
    BY <1>8, <2>2, <2>4 DEF After, l
  <2>6. After(list, base, t).answer.found
    BY <1>8 DEF After
  <2> QED BY <2>5, <2>6 DEF AtElement
<1>9. CASE ~base.found /\ Spots(list, t) = {}
  <2>1. After(list, base, t) = [answer |-> base, proto |-> ProtoOf(list, t)]
    BY <1>9 DEF After
  <2>2. CASE m \in Spots(list, part)
    <3>1. Spots(list, part) = {m} /\ m \in Nat
      BY <1>1, <1>2, <1>4, <1>9, <2>2
    <3>2. \A y \in Spots(list, part) : m <= y
      BY <3>1
    <3>3. Min(Spots(list, part)) = m
      BY <1>4, <2>2, <3>2, LeastUnique
    <3>4. After(list, base, part) =
             [answer |-> [found |-> TRUE, channel |-> Int8(list[m].val)],
              proto |-> RFCOMM_UUID]
      BY <1>9, <2>2, <3>3 DEF After
    <3>5. list[m].dtd = "uint8" /\ ProtoOf(list, t) = RFCOMM_UUID
      BY <1>2, <2>2
    <3>6. list[m].dtd # "uuid"
      BY <3>5
    <3>7. AtElement([answer |-> base, proto |-> RFCOMM_UUID], list[m]) =
             [answer |-> [found |-> TRUE, channel |-> Int8(list[m].val)],
              proto |-> RFCOMM_UUID]
      BY <1>9, <1>5, <3>5, <3>6, NotFoundYet
    <3> HIDE DEF t
    <3> QED BY <2>1, <3>4, <3>5, <3>7
  <2>3. CASE m \notin Spots(list, part)
    <3>1. Spots(list, part) = {}
      BY <1>2, <1>4, <1>9, <2>3
    <3>2. After(list, base, part) = [answer |-> base, proto |-> ProtoOf(list, part)]
      BY <1>9, <3>1 DEF After
    <3>3. ~(list[m].dtd = "uint8" /\ ProtoOf(list, t) = RFCOMM_UUID)
      BY <1>2, <2>3
    <3> DEFINE p == ProtoOf(list, t)
    <3>4. AtElement([answer |-> base, proto |-> p], list[m]) =
             [answer |-> base, proto |-> ProtoOf(list, part)]
      <4>1. CASE list[m].dtd = "uuid"
        <5>1. ProtoOf(list, part) = list[m].val
          BY <1>3, <4>1
        <5>2. AtElement([answer |-> base, proto |-> p], list[m])
                 = [answer |-> base, proto |-> list[m].val]
          BY <1>5, <1>9, <4>1, NotFoundYet
        <5> QED BY <5>1, <5>2
      <4>2. CASE list[m].dtd # "uuid"
        <5>1. ProtoOf(list, part) = p
          BY <1>3, <4>2
        <5>2. AtElement([answer |-> base, proto |-> p], list[m]) = [answer |-> base, proto |-> p]
          BY <1>5, <1>9, <3>3, <4>2, NotFoundYet
        <5> QED BY <5>1, <5>2
      <4> QED BY <4>1, <4>2
    <3> QED BY <2>1, <3>2, <3>4
  <2> QED BY <2>2, <2>3
<1> QED BY <1>7, <1>8, <1>9

LEMMA ListIsWalked ==
    ASSUME NEW answer \in Answer, NEW list \in Seq(Element)
    PROVE  InList(answer, list) = After(list, answer, DOMAIN list).answer
<1> DEFINE n == Len(list)
           base == [answer |-> answer, proto |-> 0]
           Body(f) == [part \in SUBSET (1..n) |->
                          IF part = {} THEN base ELSE AtElement(f[part \ {Max(part)}], list[Max(part)])]
           iter == CHOOSE f : f = Body(f)
           g == [part \in SUBSET (1..n) |-> After(list, answer, part)]
<1>1. n \in Nat /\ DOMAIN list = 1..n
  BY LenProperties
<1>2. FoldLeft(AtElement, base, list) = iter[1..n]
  BY <1>1 DEF FoldLeft, MapThenFoldSet
<1>3. g = Body(g)
  <2> SUFFICES ASSUME NEW part \in SUBSET (1..n)
               PROVE  After(list, answer, part) =
                         IF part = {} THEN base
                         ELSE AtElement(g[part \ {Max(part)}], list[Max(part)])
    OBVIOUS
  <2>1. CASE part = {}
    <3>1. Spots(list, part) = {} /\ ProtoOf(list, part) = 0
      BY <2>1 DEF Spots, ProtoOf, Uuids
    <3> QED BY <2>1, <3>1 DEF After
  <2>2. CASE part # {}
    <3>1. part \ {Max(part)} \in SUBSET (1..n)
      OBVIOUS
    <3>2. g[part \ {Max(part)}] = After(list, answer, part \ {Max(part)})
      BY <3>1
    <3> HIDE DEF g
    <3> QED BY <2>2, <3>2, AfterStep
  <2> QED BY <2>1, <2>2
<1> HIDE DEF n, base
<1>4. iter = Body(iter)
  <2>1. \E f : f = Body(f)
    BY <1>3
  <2> HIDE DEF g
  <2> QED BY <2>1
<1> HIDE DEF iter, g
<1>5. iter[1..n] = g[1..n]
  <2>1. {} \in SUBSET (1..n)
    OBVIOUS
  <2>2. iter[{}] = base /\ g[{}] = base
    BY <1>3, <1>4, <2>1
  <2>3. ASSUME NEW k \in 1..n, iter[1..(k - 1)] = g[1..(k - 1)]
        PROVE  iter[1..k] = g[1..k]
    <3>1. /\ 1..k \in SUBSET (1..n) /\ 1..k # {} /\ Max(1..k) = k
          /\ (1..k) \ {k} = 1..(k - 1)
      BY <1>1, UpToStep
    <3>2. iter[1..k] = AtElement(iter[1..(k - 1)], list[k])
      BY <1>4, <3>1
    <3>3. g[1..k] = AtElement(g[1..(k - 1)], list[k])
      BY <1>3, <3>1
    <3> QED BY <2>3, <3>2, <3>3
  <2> QED BY <1>1, <2>2, <2>3, SameUpTo
<1> QED BY <1>1, <1>2, <1>5 DEF InList, g, base

(* The places of a list as ChannelOf has them.                             *)
IsSpot(list, k) ==
    /\ k \in DOMAIN list /\ list[k].dtd = "uint8"
    /\ \E i \in 1..k - 1 :
          /\ list[i] = [dtd |-> "uuid", val |-> RFCOMM_UUID]
          /\ \A j \in i + 1..k - 1 : list[j].dtd # "uuid"

LEMMA SpotsOfList ==
    ASSUME NEW list \in Seq(Element), NEW k
    PROVE  k \in Spots(list, DOMAIN list) <=> IsSpot(list, k)
<1>1. /\ Len(list) \in Nat /\ DOMAIN list = 1..Len(list)
      /\ \A i \in 1..Len(list) : list[i] = [dtd |-> list[i].dtd, val |-> list[i].val]
  <2>1. Len(list) \in Nat /\ \A i \in 1..Len(list) : list[i] \in Element
    BY LenProperties
  <2>2. \A d \in Element : d = [dtd |-> d.dtd, val |-> d.val]
    BY DEF Element
  <2> QED BY <2>1, <2>2, LenProperties
<1> SUFFICES ASSUME k \in DOMAIN list, list[k].dtd = "uint8"
             PROVE  ProtoOf(list, {i \in DOMAIN list : i < k}) = RFCOMM_UUID <=>
                       \E i \in 1..k - 1 :
                          /\ list[i] = [dtd |-> "uuid", val |-> RFCOMM_UUID]
                          /\ \A j \in i + 1..k - 1 : list[j].dtd # "uuid"
  BY DEF Spots, IsSpot
<1> DEFINE n == Len(list)
           U == Uuids(list, {i \in DOMAIN list : i < k})
<1>2. /\ k \in 1..n /\ n \in Nat /\ U \in SUBSET (1..n)
      /\ \A i \in Int : i \in U <=> i \in 1..k - 1 /\ list[i].dtd = "uuid"
  BY <1>1 DEF Uuids
<1>3. ProtoOf(list, {i \in DOMAIN list : i < k}) = IF U = {} THEN 0 ELSE list[Max(U)].val
  BY DEF ProtoOf
<1> HIDE DEF U, n
<1>4. ASSUME NEW i \in 1..k - 1, list[i] = [dtd |-> "uuid", val |-> RFCOMM_UUID],
             \A j \in i + 1..k - 1 : list[j].dtd # "uuid"
      PROVE  U # {} /\ list[Max(U)].val = RFCOMM_UUID
  <2>1. i \in U
    BY <1>2, <1>4
  <2>2. ASSUME NEW y \in U PROVE y <= i
    BY <1>2, <1>4
  <2>3. Max(U) = i
    BY <1>2, <2>1, <2>2, GreatestUnique
  <2> QED BY <1>4, <2>1, <2>3
<1>5. ASSUME U # {}, list[Max(U)].val = RFCOMM_UUID
      PROVE  \E i \in 1..k - 1 :
                /\ list[i] = [dtd |-> "uuid", val |-> RFCOMM_UUID]
                /\ \A j \in i + 1..k - 1 : list[j].dtd # "uuid"
  <2> DEFINE i == Max(U)
  <2>1. i \in U /\ \A y \in U : y <= i
    BY <1>2, <1>5, GreatestIsGreatest
  <2> HIDE DEF i
  <2>2. i \in 1..k - 1 /\ list[i].dtd = "uuid" /\ i \in 1..n
    <3>1. i \in 1..n
      BY <1>2, <2>1
    <3>2. i \in Int
      BY <1>2, <3>1
    <3> QED BY <1>2, <2>1, <3>1, <3>2
  <2>3. list[i] = [dtd |-> "uuid", val |-> RFCOMM_UUID]
    BY <1>1, <1>5, <2>2 DEF i, n
  <2>4. ASSUME NEW j \in i + 1..k - 1 PROVE list[j].dtd # "uuid"
    <3>1. j \in 1..k - 1 /\ ~(j <= i)
      BY <2>2
    <3> QED BY <1>2, <2>1, <3>1
  <2> QED BY <2>2, <2>3, <2>4
<1>6. RFCOMM_UUID # 0
  BY DEF RFCOMM_UUID
<1> QED BY <1>3, <1>4, <1>5, <1>6

(* What InList returns: an answer that was there, or the number at the     *)
(* first spot of the list.                                                 *)
LEMMA InListIs ==
    ASSUME NEW answer \in Answer, NEW list \in Seq(Element)
    PROVE  /\ InList(answer, list) \in Answer
           /\ InList(answer, list) = IF answer.found THEN answer ELSE InList(NotFound, list)
           /\ InList(NotFound, list).found <=> \E k \in Int : IsSpot(list, k)
           /\ InList(NotFound, list).found =>
                 \E k \in Int :
                    /\ IsSpot(list, k)
                    /\ \A l \in Int : IsSpot(list, l) => k <= l
                    /\ InList(NotFound, list) =
                          [found |-> TRUE, channel |-> Int8(list[k].val)]
<1> DEFINE S == Spots(list, DOMAIN list)
<1>1. NotFound \in Answer /\ ~NotFound.found
  BY DEF NotFound, Answer
<1>2. ASSUME NEW a \in Answer
      PROVE  InList(a, list) = IF a.found \/ S = {} THEN a
                               ELSE [found |-> TRUE, channel |-> Int8(list[Min(S)].val)]
  <2>1. InList(a, list) = After(list, a, DOMAIN list).answer
    BY ListIsWalked
  <2> QED BY <2>1 DEF After
<1>3. ASSUME NEW k PROVE k \in S <=> IsSpot(list, k)
  BY SpotsOfList
<1>4. S \subseteq 1..Len(list) /\ S \subseteq Nat /\ S \subseteq Int
  <2>1. DOMAIN list = 1..Len(list)
    BY LenProperties
  <2> QED BY <2>1 DEF Spots
<1> HIDE DEF S
<1>5. CASE S = {}
  <2>1. \A k \in Int : ~IsSpot(list, k)
    BY <1>3, <1>5
  <2>2. InList(NotFound, list) = NotFound /\ InList(answer, list) = answer
    BY <1>1, <1>2, <1>5
  <2>3. ~answer.found => answer = NotFound
    BY DEF Answer
  <2> QED BY <1>1, <2>1, <2>2, <2>3
<1>6. CASE S # {}
  <2> DEFINE k == Min(S)
             here == [found |-> TRUE, channel |-> Int8(list[k].val)]
  <2>1. k \in S /\ \A l \in S : k <= l
    BY <1>4, <1>6, LeastExists, LeastIsLeast
  <2>2. InList(NotFound, list) = here
    BY <1>1, <1>2, <1>6
  <2>3. InList(answer, list) = IF answer.found THEN answer ELSE here
    BY <1>2, <1>6
  <2> HIDE DEF k
  <2>4. k \in 1..Len(list) /\ k \in Int
    BY <1>4, <2>1
  <2>5. list[k].val \in Int
    <3>1. list[k] \in Element
      BY <2>4
    <3> QED BY <3>1 DEF Element
  <2>6. here \in Answer
    BY <2>5 DEF Answer, Int8
  <2>7. IsSpot(list, k) /\ \A l \in Int : IsSpot(list, l) => k <= l
    BY <1>3, <2>1
  <2> HIDE DEF here
  <2>8. here.found
    BY DEF here
  <2> QED BY <2>2, <2>3, <2>4, <2>6, <2>7, <2>8 DEF here
<1> QED BY <1>5, <1>6

(* InList over the lists of a protocol sequence: what it says of each member when *)
(* nothing was found before it; the fold is the first of these.            *)
AskedSequence(seq) == [k \in DOMAIN seq |-> InList(NotFound, seq[k])]

LEMMA FirstSequence ==
    ASSUME NEW seq \in Seq(Seq(Element)), NEW base \in Answer,
           \A a \in Answer, x \in Seq(Element) :
               /\ InList(a, x) \in Answer
               /\ InList(a, x) = IF a.found THEN a ELSE InList(NotFound, x)
    PROVE  FoldLeft(InList, base, seq) = First(AskedSequence(seq), base, DOMAIN seq)
<1> DEFINE n == Len(seq)
           V == AskedSequence(seq)
           Body(f) == [part \in SUBSET (1..n) |->
                          IF part = {} THEN base ELSE InList(f[part \ {Max(part)}], seq[Max(part)])]
           iter == CHOOSE f : f = Body(f)
           g == [part \in SUBSET (1..n) |-> First(V, base, part)]
<1>1. n \in Nat /\ DOMAIN seq = 1..n /\ \A k \in 1..n : seq[k] \in Seq(Element)
  BY LenProperties
<1>2. FoldLeft(InList, base, seq) = iter[1..n]
  BY <1>1 DEF FoldLeft, MapThenFoldSet
<1>3. /\ V \in [1..n -> Answer]
      /\ \A k \in 1..n : V[k] = InList(NotFound, seq[k])
  <2>1. NotFound \in Answer
    BY DEF NotFound, Answer
  <2> QED BY <1>1, <2>1 DEF AskedSequence
<1> HIDE DEF n, V
<1>4. g = Body(g)
  <2> SUFFICES ASSUME NEW part \in SUBSET (1..n)
               PROVE  First(V, base, part) =
                         IF part = {} THEN base
                         ELSE InList(g[part \ {Max(part)}], seq[Max(part)])
    OBVIOUS
  <2>1. CASE part = {}
    BY <2>1 DEF First, Hits
  <2>2. CASE part # {}
    <3> DEFINE m == Max(part)
               a == First(V, base, part \ {m})
    <3>1. m \in 1..n /\ part \ {m} \in SUBSET (1..n)
      BY <1>1, <2>2, GreatestIsGreatest
    <3>2. a \in Answer
      BY <1>1, <1>3, <3>1, FirstType
    <3>3. First(V, base, part) = IF a.found THEN a ELSE V[m]
      BY <1>1, <1>3, <2>2, FirstStep
    <3>4. g[part \ {m}] = a
      BY <3>1
    <3> HIDE DEF m, a, g
    <3>5. InList(a, seq[m]) = IF a.found THEN a ELSE InList(NotFound, seq[m])
      BY <1>1, <3>1, <3>2
    <3>6. First(V, base, part) = InList(g[part \ {m}], seq[m])
      BY <1>3, <3>1, <3>3, <3>4, <3>5
    <3> QED BY <2>2, <3>6 DEF m
  <2> QED BY <2>1, <2>2
<1>5. iter = Body(iter)
  <2>1. \E f : f = Body(f)
    BY <1>4
  <2> HIDE DEF g
  <2> QED BY <2>1
<1> HIDE DEF iter, g
<1>6. iter[1..n] = g[1..n]
  <2>1. {} \in SUBSET (1..n)
    OBVIOUS
  <2>2. iter[{}] = base /\ g[{}] = base
    BY <1>4, <1>5, <2>1
  <2>3. ASSUME NEW k \in 1..n, iter[1..(k - 1)] = g[1..(k - 1)]
        PROVE  iter[1..k] = g[1..k]
    <3>1. /\ 1..k \in SUBSET (1..n) /\ 1..k # {} /\ Max(1..k) = k
          /\ (1..k) \ {k} = 1..(k - 1)
      BY <1>1, UpToStep
    <3>2. iter[1..k] = InList(iter[1..(k - 1)], seq[k])
      BY <1>5, <3>1
    <3>3. g[1..k] = InList(g[1..(k - 1)], seq[k])
      BY <1>4, <3>1
    <3> QED BY <2>3, <3>2, <3>3
  <2> QED BY <1>1, <2>2, <2>3, SameUpTo
<1> QED BY <1>1, <1>2, <1>6 DEF g, V

LEMMA SequenceIs ==
    ASSUME NEW seq \in Seq(Seq(Element)), NEW base \in Answer,
           \A a \in Answer, x \in Seq(Element) :
               /\ InList(a, x) \in Answer
               /\ InList(a, x) = IF a.found THEN a ELSE InList(NotFound, x)
    PROVE  /\ FoldLeft(InList, base, seq) \in Answer
           /\ base.found => FoldLeft(InList, base, seq) = base
           /\ ~base.found => base = NotFound
           /\ FoldLeft(InList, NotFound, seq).found <=>
                 \E k \in DOMAIN seq : InList(NotFound, seq[k]).found
           /\ FoldLeft(InList, NotFound, seq).found =>
                 \E k \in DOMAIN seq :
                    /\ InList(NotFound, seq[k]).found
                    /\ \A l \in DOMAIN seq : InList(NotFound, seq[l]).found => k <= l
                    /\ FoldLeft(InList, NotFound, seq) = InList(NotFound, seq[k])
<1> DEFINE V == AskedSequence(seq)
           n == Len(seq)
<1>1. NotFound \in Answer
  BY DEF NotFound, Answer
<1>2. n \in Nat /\ DOMAIN seq = 1..n /\ \A k \in 1..n : seq[k] \in Seq(Element)
  BY LenProperties
<1>3. /\ FoldLeft(InList, base, seq) = First(V, base, 1..n)
      /\ FoldLeft(InList, NotFound, seq) = First(V, NotFound, 1..n)
  BY <1>1, <1>2, FirstSequence
<1>4. V \in [1..n -> Answer] /\ \A k \in 1..n : V[k] = InList(NotFound, seq[k])
  BY <1>1, <1>2 DEF AskedSequence
<1> HIDE DEF V, n
<1>5. /\ First(V, base, 1..n) \in Answer
      /\ base.found => First(V, base, 1..n) = base
      /\ ~base.found => base = NotFound
      /\ First(V, NotFound, 1..n).found <=> \E k \in 1..n : V[k].found
      /\ First(V, NotFound, 1..n).found =>
            \E k \in 1..n : /\ V[k].found
                            /\ \A l \in 1..n : V[l].found => k <= l
                            /\ First(V, NotFound, 1..n) = V[k]
  BY <1>2, <1>4, FirstIs
<1>6. /\ FoldLeft(InList, base, seq) \in Answer
      /\ base.found => FoldLeft(InList, base, seq) = base
      /\ ~base.found => base = NotFound
  BY <1>3, <1>5
<1> DEFINE all == FoldLeft(InList, NotFound, seq)
<1>7. all = First(V, NotFound, 1..n)
  BY <1>3
<1> HIDE DEF all
<1>8. all.found <=> \E k \in DOMAIN seq : InList(NotFound, seq[k]).found
  BY <1>2, <1>4, <1>5, <1>7
<1>9. ASSUME all.found
      PROVE  \E k \in DOMAIN seq :
                /\ InList(NotFound, seq[k]).found
                /\ \A l \in DOMAIN seq : InList(NotFound, seq[l]).found => k <= l
                /\ all = InList(NotFound, seq[k])
  <2>1. PICK k \in 1..n : /\ V[k].found
                         /\ \A l \in 1..n : V[l].found => k <= l
                         /\ all = V[k]
    BY <1>5, <1>7, <1>9
  <2> QED BY <1>2, <1>4, <2>1
<1> QED BY <1>6, <1>8, <1>9 DEF all

LEMMA InSequenceIs ==
    ASSUME NEW answer \in Answer, NEW lists \in Seq(Seq(Element))
    PROVE  /\ InSequence(answer, lists) \in Answer
           /\ InSequence(answer, lists) = IF answer.found THEN answer ELSE InSequence(NotFound, lists)
           /\ InSequence(NotFound, lists).found <=>
                 \E k \in DOMAIN lists : InList(NotFound, lists[k]).found
           /\ InSequence(NotFound, lists).found =>
                 \E k \in DOMAIN lists :
                    /\ InList(NotFound, lists[k]).found
                    /\ \A l \in DOMAIN lists : InList(NotFound, lists[l]).found => k <= l
                    /\ InSequence(NotFound, lists) = InList(NotFound, lists[k])
<1>1. \A a \in Answer, x \in Seq(Element) :
          /\ InList(a, x) \in Answer
          /\ InList(a, x) = IF a.found THEN a ELSE InList(NotFound, x)
  BY InListIs
<1>2. /\ FoldLeft(InList, answer, lists) \in Answer
      /\ answer.found => FoldLeft(InList, answer, lists) = answer
      /\ ~answer.found => answer = NotFound
      /\ FoldLeft(InList, NotFound, lists).found <=>
            \E k \in DOMAIN lists : InList(NotFound, lists[k]).found
      /\ FoldLeft(InList, NotFound, lists).found =>
            \E k \in DOMAIN lists :
               /\ InList(NotFound, lists[k]).found
               /\ \A l \in DOMAIN lists : InList(NotFound, lists[l]).found => k <= l
               /\ FoldLeft(InList, NotFound, lists) = InList(NotFound, lists[k])
  BY <1>1, SequenceIs
<1>3. \A a : InSequence(a, lists) = FoldLeft(InList, a, lists)
  BY DEF InSequence
<1> QED BY <1>2, <1>3, Zenon

(* InSequence over the protocol sequences of a record: what it says of each member when *)
(* nothing was found before it; the fold is the first of these.            *)
AskedRecord(seq) == [k \in DOMAIN seq |-> InSequence(NotFound, seq[k])]

LEMMA FirstRecord ==
    ASSUME NEW seq \in Seq(Seq(Seq(Element))), NEW base \in Answer,
           \A a \in Answer, x \in Seq(Seq(Element)) :
               /\ InSequence(a, x) \in Answer
               /\ InSequence(a, x) = IF a.found THEN a ELSE InSequence(NotFound, x)
    PROVE  FoldLeft(InSequence, base, seq) = First(AskedRecord(seq), base, DOMAIN seq)
<1> DEFINE n == Len(seq)
           V == AskedRecord(seq)
           Body(f) == [part \in SUBSET (1..n) |->
                          IF part = {} THEN base ELSE InSequence(f[part \ {Max(part)}], seq[Max(part)])]
           iter == CHOOSE f : f = Body(f)
           g == [part \in SUBSET (1..n) |-> First(V, base, part)]
<1>1. n \in Nat /\ DOMAIN seq = 1..n /\ \A k \in 1..n : seq[k] \in Seq(Seq(Element))
  BY LenProperties
<1>2. FoldLeft(InSequence, base, seq) = iter[1..n]
  BY <1>1 DEF FoldLeft, MapThenFoldSet
<1>3. /\ V \in [1..n -> Answer]
      /\ \A k \in 1..n : V[k] = InSequence(NotFound, seq[k])
  <2>1. NotFound \in Answer
    BY DEF NotFound, Answer
  <2> QED BY <1>1, <2>1 DEF AskedRecord
<1> HIDE DEF n, V
<1>4. g = Body(g)
  <2> SUFFICES ASSUME NEW part \in SUBSET (1..n)
               PROVE  First(V, base, part) =
                         IF part = {} THEN base
                         ELSE InSequence(g[part \ {Max(part)}], seq[Max(part)])
    OBVIOUS
  <2>1. CASE part = {}
    BY <2>1 DEF First, Hits
  <2>2. CASE part # {}
    <3> DEFINE m == Max(part)
               a == First(V, base, part \ {m})
    <3>1. m \in 1..n /\ part \ {m} \in SUBSET (1..n)
      BY <1>1, <2>2, GreatestIsGreatest
    <3>2. a \in Answer
      BY <1>1, <1>3, <3>1, FirstType
    <3>3. First(V, base, part) = IF a.found THEN a ELSE V[m]
      BY <1>1, <1>3, <2>2, FirstStep
    <3>4. g[part \ {m}] = a
      BY <3>1
    <3> HIDE DEF m, a, g
    <3>5. InSequence(a, seq[m]) = IF a.found THEN a ELSE InSequence(NotFound, seq[m])
      BY <1>1, <3>1, <3>2
    <3>6. First(V, base, part) = InSequence(g[part \ {m}], seq[m])
      BY <1>3, <3>1, <3>3, <3>4, <3>5
    <3> QED BY <2>2, <3>6 DEF m
  <2> QED BY <2>1, <2>2
<1>5. iter = Body(iter)
  <2>1. \E f : f = Body(f)
    BY <1>4
  <2> HIDE DEF g
  <2> QED BY <2>1
<1> HIDE DEF iter, g
<1>6. iter[1..n] = g[1..n]
  <2>1. {} \in SUBSET (1..n)
    OBVIOUS
  <2>2. iter[{}] = base /\ g[{}] = base
    BY <1>4, <1>5, <2>1
  <2>3. ASSUME NEW k \in 1..n, iter[1..(k - 1)] = g[1..(k - 1)]
        PROVE  iter[1..k] = g[1..k]
    <3>1. /\ 1..k \in SUBSET (1..n) /\ 1..k # {} /\ Max(1..k) = k
          /\ (1..k) \ {k} = 1..(k - 1)
      BY <1>1, UpToStep
    <3>2. iter[1..k] = InSequence(iter[1..(k - 1)], seq[k])
      BY <1>5, <3>1
    <3>3. g[1..k] = InSequence(g[1..(k - 1)], seq[k])
      BY <1>4, <3>1
    <3> QED BY <2>3, <3>2, <3>3
  <2> QED BY <1>1, <2>2, <2>3, SameUpTo
<1> QED BY <1>1, <1>2, <1>6 DEF g, V

LEMMA RecordIs ==
    ASSUME NEW seq \in Seq(Seq(Seq(Element))), NEW base \in Answer,
           \A a \in Answer, x \in Seq(Seq(Element)) :
               /\ InSequence(a, x) \in Answer
               /\ InSequence(a, x) = IF a.found THEN a ELSE InSequence(NotFound, x)
    PROVE  /\ FoldLeft(InSequence, base, seq) \in Answer
           /\ base.found => FoldLeft(InSequence, base, seq) = base
           /\ ~base.found => base = NotFound
           /\ FoldLeft(InSequence, NotFound, seq).found <=>
                 \E k \in DOMAIN seq : InSequence(NotFound, seq[k]).found
           /\ FoldLeft(InSequence, NotFound, seq).found =>
                 \E k \in DOMAIN seq :
                    /\ InSequence(NotFound, seq[k]).found
                    /\ \A l \in DOMAIN seq : InSequence(NotFound, seq[l]).found => k <= l
                    /\ FoldLeft(InSequence, NotFound, seq) = InSequence(NotFound, seq[k])
<1> DEFINE V == AskedRecord(seq)
           n == Len(seq)
<1>1. NotFound \in Answer
  BY DEF NotFound, Answer
<1>2. n \in Nat /\ DOMAIN seq = 1..n /\ \A k \in 1..n : seq[k] \in Seq(Seq(Element))
  BY LenProperties
<1>3. /\ FoldLeft(InSequence, base, seq) = First(V, base, 1..n)
      /\ FoldLeft(InSequence, NotFound, seq) = First(V, NotFound, 1..n)
  BY <1>1, <1>2, FirstRecord
<1>4. V \in [1..n -> Answer] /\ \A k \in 1..n : V[k] = InSequence(NotFound, seq[k])
  BY <1>1, <1>2 DEF AskedRecord
<1> HIDE DEF V, n
<1>5. /\ First(V, base, 1..n) \in Answer
      /\ base.found => First(V, base, 1..n) = base
      /\ ~base.found => base = NotFound
      /\ First(V, NotFound, 1..n).found <=> \E k \in 1..n : V[k].found
      /\ First(V, NotFound, 1..n).found =>
            \E k \in 1..n : /\ V[k].found
                            /\ \A l \in 1..n : V[l].found => k <= l
                            /\ First(V, NotFound, 1..n) = V[k]
  BY <1>2, <1>4, FirstIs
<1>6. /\ FoldLeft(InSequence, base, seq) \in Answer
      /\ base.found => FoldLeft(InSequence, base, seq) = base
      /\ ~base.found => base = NotFound
  BY <1>3, <1>5
<1> DEFINE all == FoldLeft(InSequence, NotFound, seq)
<1>7. all = First(V, NotFound, 1..n)
  BY <1>3
<1> HIDE DEF all
<1>8. all.found <=> \E k \in DOMAIN seq : InSequence(NotFound, seq[k]).found
  BY <1>2, <1>4, <1>5, <1>7
<1>9. ASSUME all.found
      PROVE  \E k \in DOMAIN seq :
                /\ InSequence(NotFound, seq[k]).found
                /\ \A l \in DOMAIN seq : InSequence(NotFound, seq[l]).found => k <= l
                /\ all = InSequence(NotFound, seq[k])
  <2>1. PICK k \in 1..n : /\ V[k].found
                         /\ \A l \in 1..n : V[l].found => k <= l
                         /\ all = V[k]
    BY <1>5, <1>7, <1>9
  <2> QED BY <1>2, <1>4, <2>1
<1> QED BY <1>6, <1>8, <1>9 DEF all

LEMMA InRecordIs ==
    ASSUME NEW answer \in Answer, NEW record \in ServiceRecord
    PROVE  /\ InRecord(answer, record) \in Answer
           /\ InRecord(answer, record) =
                 IF answer.found THEN answer ELSE InRecord(NotFound, record)
           /\ InRecord(NotFound, record).found <=>
                 /\ record.ok
                 /\ \E k \in DOMAIN record.protos :
                       InSequence(NotFound, record.protos[k]).found
           /\ InRecord(NotFound, record).found =>
                 \E k \in DOMAIN record.protos :
                    /\ InSequence(NotFound, record.protos[k]).found
                    /\ \A l \in DOMAIN record.protos :
                          InSequence(NotFound, record.protos[l]).found => k <= l
                    /\ InRecord(NotFound, record) = InSequence(NotFound, record.protos[k])
<1>1. \A a \in Answer, x \in Seq(Seq(Element)) :
          /\ InSequence(a, x) \in Answer
          /\ InSequence(a, x) = IF a.found THEN a ELSE InSequence(NotFound, x)
  BY InSequenceIs
<1>2. record.protos \in Seq(Seq(Seq(Element))) /\ record.ok \in BOOLEAN
  BY DEF ServiceRecord
<1>3. CASE record.ok
  <2>1. \A a : InRecord(a, record) = FoldLeft(InSequence, a, record.protos)
    BY <1>3 DEF InRecord
  <2>2. /\ FoldLeft(InSequence, answer, record.protos) \in Answer
        /\ answer.found => FoldLeft(InSequence, answer, record.protos) = answer
        /\ ~answer.found => answer = NotFound
        /\ FoldLeft(InSequence, NotFound, record.protos).found <=>
              \E k \in DOMAIN record.protos : InSequence(NotFound, record.protos[k]).found
        /\ FoldLeft(InSequence, NotFound, record.protos).found =>
              \E k \in DOMAIN record.protos :
                 /\ InSequence(NotFound, record.protos[k]).found
                 /\ \A l \in DOMAIN record.protos :
                       InSequence(NotFound, record.protos[l]).found => k <= l
                 /\ FoldLeft(InSequence, NotFound, record.protos)
                       = InSequence(NotFound, record.protos[k])
    BY <1>1, <1>2, RecordIs
  <2> QED BY <1>3, <2>1, <2>2, Zenon
<1>4. CASE ~record.ok
  <2>1. \A a : InRecord(a, record) = a
    BY <1>4 DEF InRecord
  <2>2. ~NotFound.found /\ (~answer.found => answer = NotFound)
    BY DEF NotFound, Answer
  <2> QED BY <1>4, <2>1, <2>2
<1> QED BY <1>2, <1>3, <1>4

(* InRecord over the records of a response: what it says of each member when *)
(* nothing was found before it; the fold is the first of these.            *)
AskedResponse(seq) == [k \in DOMAIN seq |-> InRecord(NotFound, seq[k])]

LEMMA FirstResponse ==
    ASSUME NEW seq \in Seq(ServiceRecord), NEW base \in Answer,
           \A a \in Answer, x \in ServiceRecord :
               /\ InRecord(a, x) \in Answer
               /\ InRecord(a, x) = IF a.found THEN a ELSE InRecord(NotFound, x)
    PROVE  FoldLeft(InRecord, base, seq) = First(AskedResponse(seq), base, DOMAIN seq)
<1> DEFINE n == Len(seq)
           V == AskedResponse(seq)
           Body(f) == [part \in SUBSET (1..n) |->
                          IF part = {} THEN base ELSE InRecord(f[part \ {Max(part)}], seq[Max(part)])]
           iter == CHOOSE f : f = Body(f)
           g == [part \in SUBSET (1..n) |-> First(V, base, part)]
<1>1. n \in Nat /\ DOMAIN seq = 1..n /\ \A k \in 1..n : seq[k] \in ServiceRecord
  BY LenProperties
<1>2. FoldLeft(InRecord, base, seq) = iter[1..n]
  BY <1>1 DEF FoldLeft, MapThenFoldSet
<1>3. /\ V \in [1..n -> Answer]
      /\ \A k \in 1..n : V[k] = InRecord(NotFound, seq[k])
  <2>1. NotFound \in Answer
    BY DEF NotFound, Answer
  <2> QED BY <1>1, <2>1 DEF AskedResponse
<1> HIDE DEF n, V
<1>4. g = Body(g)
  <2> SUFFICES ASSUME NEW part \in SUBSET (1..n)
               PROVE  First(V, base, part) =
                         IF part = {} THEN base
                         ELSE InRecord(g[part \ {Max(part)}], seq[Max(part)])
    OBVIOUS
  <2>1. CASE part = {}
    BY <2>1 DEF First, Hits
  <2>2. CASE part # {}
    <3> DEFINE m == Max(part)
               a == First(V, base, part \ {m})
    <3>1. m \in 1..n /\ part \ {m} \in SUBSET (1..n)
      BY <1>1, <2>2, GreatestIsGreatest
    <3>2. a \in Answer
      BY <1>1, <1>3, <3>1, FirstType
    <3>3. First(V, base, part) = IF a.found THEN a ELSE V[m]
      BY <1>1, <1>3, <2>2, FirstStep
    <3>4. g[part \ {m}] = a
      BY <3>1
    <3> HIDE DEF m, a, g
    <3>5. InRecord(a, seq[m]) = IF a.found THEN a ELSE InRecord(NotFound, seq[m])
      BY <1>1, <3>1, <3>2
    <3>6. First(V, base, part) = InRecord(g[part \ {m}], seq[m])
      BY <1>3, <3>1, <3>3, <3>4, <3>5
    <3> QED BY <2>2, <3>6 DEF m
  <2> QED BY <2>1, <2>2
<1>5. iter = Body(iter)
  <2>1. \E f : f = Body(f)
    BY <1>4
  <2> HIDE DEF g
  <2> QED BY <2>1
<1> HIDE DEF iter, g
<1>6. iter[1..n] = g[1..n]
  <2>1. {} \in SUBSET (1..n)
    OBVIOUS
  <2>2. iter[{}] = base /\ g[{}] = base
    BY <1>4, <1>5, <2>1
  <2>3. ASSUME NEW k \in 1..n, iter[1..(k - 1)] = g[1..(k - 1)]
        PROVE  iter[1..k] = g[1..k]
    <3>1. /\ 1..k \in SUBSET (1..n) /\ 1..k # {} /\ Max(1..k) = k
          /\ (1..k) \ {k} = 1..(k - 1)
      BY <1>1, UpToStep
    <3>2. iter[1..k] = InRecord(iter[1..(k - 1)], seq[k])
      BY <1>5, <3>1
    <3>3. g[1..k] = InRecord(g[1..(k - 1)], seq[k])
      BY <1>4, <3>1
    <3> QED BY <2>3, <3>2, <3>3
  <2> QED BY <1>1, <2>2, <2>3, SameUpTo
<1> QED BY <1>1, <1>2, <1>6 DEF g, V

LEMMA ResponseIs ==
    ASSUME NEW seq \in Seq(ServiceRecord), NEW base \in Answer,
           \A a \in Answer, x \in ServiceRecord :
               /\ InRecord(a, x) \in Answer
               /\ InRecord(a, x) = IF a.found THEN a ELSE InRecord(NotFound, x)
    PROVE  /\ FoldLeft(InRecord, base, seq) \in Answer
           /\ base.found => FoldLeft(InRecord, base, seq) = base
           /\ ~base.found => base = NotFound
           /\ FoldLeft(InRecord, NotFound, seq).found <=>
                 \E k \in DOMAIN seq : InRecord(NotFound, seq[k]).found
           /\ FoldLeft(InRecord, NotFound, seq).found =>
                 \E k \in DOMAIN seq :
                    /\ InRecord(NotFound, seq[k]).found
                    /\ \A l \in DOMAIN seq : InRecord(NotFound, seq[l]).found => k <= l
                    /\ FoldLeft(InRecord, NotFound, seq) = InRecord(NotFound, seq[k])
<1> DEFINE V == AskedResponse(seq)
           n == Len(seq)
<1>1. NotFound \in Answer
  BY DEF NotFound, Answer
<1>2. n \in Nat /\ DOMAIN seq = 1..n /\ \A k \in 1..n : seq[k] \in ServiceRecord
  BY LenProperties
<1>3. /\ FoldLeft(InRecord, base, seq) = First(V, base, 1..n)
      /\ FoldLeft(InRecord, NotFound, seq) = First(V, NotFound, 1..n)
  BY <1>1, <1>2, FirstResponse
<1>4. V \in [1..n -> Answer] /\ \A k \in 1..n : V[k] = InRecord(NotFound, seq[k])
  BY <1>1, <1>2 DEF AskedResponse
<1> HIDE DEF V, n
<1>5. /\ First(V, base, 1..n) \in Answer
      /\ base.found => First(V, base, 1..n) = base
      /\ ~base.found => base = NotFound
      /\ First(V, NotFound, 1..n).found <=> \E k \in 1..n : V[k].found
      /\ First(V, NotFound, 1..n).found =>
            \E k \in 1..n : /\ V[k].found
                            /\ \A l \in 1..n : V[l].found => k <= l
                            /\ First(V, NotFound, 1..n) = V[k]
  BY <1>2, <1>4, FirstIs
<1>6. /\ FoldLeft(InRecord, base, seq) \in Answer
      /\ base.found => FoldLeft(InRecord, base, seq) = base
      /\ ~base.found => base = NotFound
  BY <1>3, <1>5
<1> DEFINE all == FoldLeft(InRecord, NotFound, seq)
<1>7. all = First(V, NotFound, 1..n)
  BY <1>3
<1> HIDE DEF all
<1>8. all.found <=> \E k \in DOMAIN seq : InRecord(NotFound, seq[k]).found
  BY <1>2, <1>4, <1>5, <1>7
<1>9. ASSUME all.found
      PROVE  \E k \in DOMAIN seq :
                /\ InRecord(NotFound, seq[k]).found
                /\ \A l \in DOMAIN seq : InRecord(NotFound, seq[l]).found => k <= l
                /\ all = InRecord(NotFound, seq[k])
  <2>1. PICK k \in 1..n : /\ V[k].found
                         /\ \A l \in 1..n : V[l].found => k <= l
                         /\ all = V[k]
    BY <1>5, <1>7, <1>9
  <2> QED BY <1>2, <1>4, <2>1
<1> QED BY <1>6, <1>8, <1>9 DEF all

-----------------------------------------------------------------------------
(* The first place of a response, record by record.                        *)

LEMMA PlaceIs ==
    ASSUME NEW response, NEW r, NEW i, NEW j, NEW k
    PROVE  IsPlace(response, <<r, i, j, k>>) <=>
              /\ r \in DOMAIN response /\ response[r].ok
              /\ i \in DOMAIN response[r].protos
              /\ j \in DOMAIN response[r].protos[i]
              /\ IsSpot(response[r].protos[i][j], k)
BY DEF IsPlace, IsSpot

(* Before is the lexicographic order.                                      *)
LEMMA BeforeIs ==
    ASSUME NEW a \in Nat \X Nat \X Nat \X Nat, NEW b \in Nat \X Nat \X Nat \X Nat
    PROVE  Before(a, b) <=>
              \/ a[1] < b[1]
              \/ a[1] = b[1] /\ a[2] < b[2]
              \/ a[1] = b[1] /\ a[2] = b[2] /\ a[3] < b[3]
              \/ a[1] = b[1] /\ a[2] = b[2] /\ a[3] = b[3] /\ a[4] < b[4]
<1>1. Before(a, b) <=>
          \/ a[1] < b[1] /\ \A j \in 1..0 : a[j] = b[j]
          \/ a[2] < b[2] /\ \A j \in 1..1 : a[j] = b[j]
          \/ a[3] < b[3] /\ \A j \in 1..2 : a[j] = b[j]
          \/ a[4] < b[4] /\ \A j \in 1..3 : a[j] = b[j]
  <2>1. 1..4 = {1, 2, 3, 4} /\ 1 - 1 = 0 /\ 2 - 1 = 1 /\ 3 - 1 = 2 /\ 4 - 1 = 3
    OBVIOUS
  <2> QED BY <2>1 DEF Before
<1>2. 1..0 = {} /\ 1..1 = {1} /\ 1..2 = {1, 2} /\ 1..3 = {1, 2, 3}
  OBVIOUS
<1> QED BY <1>1, <1>2

LEMMA NotFoundIs == NotFound \in Answer /\ ~NotFound.found
BY DEF NotFound, Answer

LEMMA WalkFinds ==
    ASSUME NEW response \in Responses
    PROVE  Walk(response) = ChannelOf(response, MaxLength)
<1> DEFINE n == 1..MaxLength
           places == {at \in n \X n \X n \X n : IsPlace(response, at)}
<1>1. response \in Seq(ServiceRecord) /\ MaxLength \in Nat
  BY ResponsesAssumption
<1>2. ASSUME NEW r \in DOMAIN response
      PROVE  /\ response[r] \in ServiceRecord
             /\ response[r].protos \in Seq(Seq(Seq(Element)))
             /\ \A i \in DOMAIN response[r].protos :
                   /\ response[r].protos[i] \in Seq(Seq(Element))
                   /\ \A j \in DOMAIN response[r].protos[i] :
                         response[r].protos[i][j] \in Seq(Element)
  <2>1. response[r] \in ServiceRecord
    BY <1>1
  <2> DEFINE protos == response[r].protos
  <2>2. protos \in Seq(Seq(Seq(Element)))
    BY <2>1 DEF ServiceRecord
  <2> HIDE DEF protos
  <2>3. ASSUME NEW i \in DOMAIN protos
        PROVE  /\ protos[i] \in Seq(Seq(Element))
               /\ \A j \in DOMAIN protos[i] : protos[i][j] \in Seq(Element)
    <3>1. protos[i] \in Seq(Seq(Element))
      BY <2>2
    <3> QED BY <3>1
  <2> QED BY <2>1, <2>2, <2>3 DEF protos
<1>3. ASSUME NEW r, NEW i, NEW j, NEW k, IsPlace(response, <<r, i, j, k>>)
      PROVE  /\ <<r, i, j, k>> \in places
             /\ InRecord(NotFound, response[r]).found
             /\ InSequence(NotFound, response[r].protos[i]).found
             /\ InList(NotFound, response[r].protos[i][j]).found
  <2>1. /\ r \in DOMAIN response /\ response[r].ok
        /\ i \in DOMAIN response[r].protos
        /\ j \in DOMAIN response[r].protos[i]
        /\ IsSpot(response[r].protos[i][j], k)
    BY <1>3, PlaceIs
  <2> DEFINE protos == response[r].protos
             list == protos[i][j]
  <2>2. /\ list \in Seq(Element) /\ protos[i] \in Seq(Seq(Element))
        /\ protos \in Seq(Seq(Seq(Element))) /\ response[r] \in ServiceRecord
    BY <1>2, <2>1
  <2>3. k \in DOMAIN list
    BY <2>1 DEF IsSpot
  <2>4. /\ Len(response) <= MaxLength /\ Len(protos) <= MaxLength
        /\ Len(protos[i]) <= MaxLength /\ Len(list) <= MaxLength
    BY <2>1, ResponsesAssumption
  <2>5. r \in n /\ i \in n /\ j \in n /\ k \in n
    <3>1. /\ DOMAIN response = 1..Len(response) /\ Len(response) \in Nat
          /\ DOMAIN protos = 1..Len(protos) /\ Len(protos) \in Nat
          /\ DOMAIN protos[i] = 1..Len(protos[i]) /\ Len(protos[i]) \in Nat
          /\ DOMAIN list = 1..Len(list) /\ Len(list) \in Nat
      BY <1>1, <2>2, LenProperties
    <3> HIDE DEF list, protos
    <3>2. i \in DOMAIN protos /\ j \in DOMAIN protos[i]
      BY <2>1 DEF protos
    <3> QED BY <1>1, <2>1, <2>3, <2>4, <3>1, <3>2
  <2>6. <<r, i, j, k>> \in places
    BY <1>3, <2>5
  <2>7. InList(NotFound, list).found
    <3>1. k \in Int
      BY <2>5
    <3> QED BY <2>1, <2>2, <3>1, InListIs, NotFoundIs
  <2>8. InSequence(NotFound, protos[i]).found
    BY <2>1, <2>2, <2>7, InSequenceIs, NotFoundIs
  <2>9. InRecord(NotFound, response[r]).found
    BY <2>1, <2>2, <2>8, InRecordIs, NotFoundIs
  <2> QED BY <2>6, <2>7, <2>8, <2>9
<1>4. ASSUME NEW at \in places
      PROVE  \E r, i, j, k \in n : at = <<r, i, j, k>> /\ IsPlace(response, <<r, i, j, k>>)
  <2> HIDE DEF n
  <2>1. at \in n \X n \X n \X n /\ IsPlace(response, at)
    BY <1>4
  <2>2. PICK r, i, j, k \in n : at = <<r, i, j, k>>
    BY <2>1
  <2> QED BY <2>1, <2>2
<1>5. \A a \in Answer, x \in ServiceRecord :
          /\ InRecord(a, x) \in Answer
          /\ InRecord(a, x) = IF a.found THEN a ELSE InRecord(NotFound, x)
  BY InRecordIs
<1>6. /\ Walk(response) \in Answer
      /\ Walk(response).found <=>
            \E r \in DOMAIN response : InRecord(NotFound, response[r]).found
      /\ Walk(response).found =>
            \E r \in DOMAIN response :
               /\ InRecord(NotFound, response[r]).found
               /\ \A l \in DOMAIN response : InRecord(NotFound, response[l]).found => r <= l
               /\ Walk(response) = InRecord(NotFound, response[r])
  BY <1>1, <1>5, ResponseIs, NotFoundIs DEF Walk
<1>7. CASE ~Walk(response).found
  <2>1. places = {}
    <3> SUFFICES ASSUME NEW at \in places PROVE FALSE
      OBVIOUS
    <3>1. PICK r, i, j, k \in n : IsPlace(response, <<r, i, j, k>>)
      BY <1>4
    <3>2. r \in DOMAIN response /\ InRecord(NotFound, response[r]).found
      BY <1>3, <3>1, PlaceIs
    <3> QED BY <1>6, <1>7, <3>2
  <2>2. Walk(response) = NotFound
    BY <1>6, <1>7 DEF Answer
  <2> QED BY <2>1, <2>2 DEF ChannelOf
<1>8. CASE Walk(response).found
  <2>1. PICK r \in DOMAIN response :
            /\ InRecord(NotFound, response[r]).found
            /\ \A l \in DOMAIN response : InRecord(NotFound, response[l]).found => r <= l
            /\ Walk(response) = InRecord(NotFound, response[r])
    BY <1>6, <1>8
  <2> DEFINE protos == response[r].protos
  <2>2. response[r] \in ServiceRecord /\ protos \in Seq(Seq(Seq(Element)))
    BY <1>2
  <2> HIDE DEF protos
  <2>3. response[r].ok
    BY <2>1, <2>2, InRecordIs, NotFoundIs
  <2>4. PICK i \in DOMAIN protos :
            /\ InSequence(NotFound, protos[i]).found
            /\ \A l \in DOMAIN protos : InSequence(NotFound, protos[l]).found => i <= l
            /\ Walk(response) = InSequence(NotFound, protos[i])
    BY <2>1, <2>2, InRecordIs, NotFoundIs DEF protos
  <2>5. protos[i] \in Seq(Seq(Element))
    BY <2>2, LenProperties
  <2>6. PICK j \in DOMAIN protos[i] :
            /\ InList(NotFound, protos[i][j]).found
            /\ \A l \in DOMAIN protos[i] : InList(NotFound, protos[i][l]).found => j <= l
            /\ Walk(response) = InList(NotFound, protos[i][j])
    BY <2>4, <2>5, InSequenceIs, NotFoundIs
  <2>7. protos[i][j] \in Seq(Element)
    BY <2>5, LenProperties
  <2>8. PICK k \in Int :
            /\ IsSpot(protos[i][j], k)
            /\ \A l \in Int : IsSpot(protos[i][j], l) => k <= l
            /\ Walk(response) = [found |-> TRUE, channel |-> Int8(protos[i][j][k].val)]
    BY <2>6, <2>7, InListIs, NotFoundIs
  <2> DEFINE first == <<r, i, j, k>>
  <2>9. first \in places
    <3>1. IsPlace(response, first)
      BY <2>3, <2>4, <2>6, <2>8, PlaceIs DEF protos
    <3> QED BY <1>3, <3>1
  <2>10. ASSUME NEW b \in places, b # first PROVE Before(first, b)
    <3>1. PICK w, x, y, z \in n : b = <<w, x, y, z>> /\ IsPlace(response, <<w, x, y, z>>)
      BY <1>4
    <3>2. /\ w \in DOMAIN response /\ x \in DOMAIN response[w].protos
          /\ y \in DOMAIN response[w].protos[x] /\ IsSpot(response[w].protos[x][y], z)
          /\ InRecord(NotFound, response[w]).found
          /\ InSequence(NotFound, response[w].protos[x]).found
          /\ InList(NotFound, response[w].protos[x][y]).found
      BY <1>3, <3>1, PlaceIs
    <3>3. r <= w
      BY <2>1, <3>2
    <3>4. w = r => i <= x
      BY <2>4, <3>2 DEF protos
    <3>5. w = r /\ x = i => j <= y
      BY <2>6, <3>2 DEF protos
    <3>6. w = r /\ x = i /\ y = j => k <= z
      BY <2>8, <3>1, <3>2 DEF protos
    <3>7. r \in n /\ i \in n /\ j \in n /\ k \in n
      BY <2>9
    <3>8. w # r \/ x # i \/ y # j \/ z # k
      BY <2>10, <3>1
    <3>9. \/ r < w \/ (r = w /\ i < x) \/ (r = w /\ i = x /\ j < y)
          \/ (r = w /\ i = x /\ j = y /\ k < z)
      BY <1>1, <3>1, <3>3, <3>4, <3>5, <3>6, <3>7, <3>8
    <3>10. first \in Nat \X Nat \X Nat \X Nat /\ b \in Nat \X Nat \X Nat \X Nat
      BY <1>1, <3>1, <3>7
    <3> QED BY <3>1, <3>9, <3>10, BeforeIs
  <2>11. ASSUME NEW a \in places, \A b \in places \ {a} : Before(a, b)
         PROVE  a = first
    <3> SUFFICES ASSUME a # first PROVE FALSE
      OBVIOUS
    <3>1. Before(a, first) /\ Before(first, a)
      BY <2>9, <2>10, <2>11
    <3>2. a \in Nat \X Nat \X Nat \X Nat /\ first \in Nat \X Nat \X Nat \X Nat
      BY <1>1, <2>9
    <3> HIDE DEF first, places
    <3>3. /\ a[1] \in Nat /\ a[2] \in Nat /\ a[3] \in Nat /\ a[4] \in Nat
          /\ first[1] \in Nat /\ first[2] \in Nat /\ first[3] \in Nat /\ first[4] \in Nat
      BY <3>2
    <3> QED BY <3>1, <3>2, <3>3, BeforeIs
  <2> DEFINE chosen == CHOOSE a \in places : \A b \in places \ {a} : Before(a, b)
  <2>12. chosen = first
    <3> HIDE DEF first, places
    <3> QED BY <2>9, <2>10, <2>11
  <2>13. places # {}
    BY <2>9
  <2>14. ChannelOf(response, MaxLength) =
            [found |-> TRUE,
             channel |-> Int8(response[chosen[1]].protos[chosen[2]][chosen[3]][chosen[4]].val)]
    BY <2>13 DEF ChannelOf
  <2> HIDE DEF chosen
  <2> QED BY <2>8, <2>12, <2>14 DEF protos
<1> QED BY <1>7, <1>8

(* SdpSearch returns the first 8-bit number that follows an RFCOMM UUID in *)
(* the same list of a response, for records, protocols, lists and elements *)
(* of any number and in any order (DeviceINQ.cc:134-179): an answer that   *)
(* was found is never replaced, and a UUID of one list says nothing of the *)
(* next.                                                                   *)
THEOREM ChannelIsFound == Spec => []FindsChannel
<1>1. JobFits => FindsChannel
  <2> SUFFICES ASSUME JobFits, ctl.at = "answered", job.call = "searching"
               PROVE  job.answer = ChannelOf(job.input, MaxLength)
    BY DEF FindsChannel
  <2>1. job.input \in Responses /\ job.answer = Walk(job.input)
    BY DEF JobFits
  <2> QED BY <2>1, WalkFinds
<1> QED BY <1>1, JobInvariant, PTL

=============================================================================
