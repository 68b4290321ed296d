---------------------------- MODULE WindowsProofs ----------------------------
(***************************************************************************)
(* Theorems about WindowsProgram, for any objects, handles and items.      *)
(***************************************************************************)
EXTENDS WindowsProgram, FiniteSetTheorems, SequenceTheorems, TLAPS

Live     == {o \in Objects : object[o] # "none"}
Looking  == {i \in Inquiries : look[i].at = "next"}

(* Only a live binding has a handle, and unless its Connect failed the     *)
(* handle is its own.                                                      *)
SocketsOwned ==
    \A b \in Bindings :
        s[b] # Invalid => object[b] = "live" /\ (b \in failed \/ handle[s[b]] = b)

(* The record of a call.                                                   *)
LookType == [at : {"none", "next", "done"}, call : {"none", "inquire", "sdp"},
             all : Seq(Item), left : Seq(Item), size : Nat,
             got : Seq(STRING), cut : BOOLEAN]

IInv == TypeOK /\ StartUpsCounted /\ LookupsEnded

(* One more or one less of a finite set.                                   *)
LEMMA OneMore ==
    ASSUME NEW S, IsFiniteSet(S), NEW x, x \notin S, NEW T, T = S \cup {x}
    PROVE  Cardinality(T) = Cardinality(S) + 1 /\ Cardinality(S) \in Nat
BY FS_AddElement, FS_CardinalityType, Zenon

LEMMA OneLess ==
    ASSUME NEW S, IsFiniteSet(S), NEW x \in S, NEW T, T = S \ {x}
    PROVE  Cardinality(T) = Cardinality(S) - 1 /\ Cardinality(T) \in Nat
<1>1. IsFiniteSet(T) /\ Cardinality(T) = Cardinality(S) - 1
  BY FS_RemoveElement, Zenon
<1> QED BY <1>1, FS_CardinalityType, Zenon

LEMMA Finite == IsFiniteSet(Live) /\ IsFiniteSet(Looking)
<1>1. IsFiniteSet(Objects) /\ Live \subseteq Objects
      /\ Inquiries \subseteq Objects /\ Looking \subseteq Objects
  BY ObjectsAssumption DEF Live, Looking, Objects
<1> QED BY <1>1, FS_Subset, Zenon

LEMMA NoLookType == NoLook \in LookType
BY DEF NoLook, LookType

-----------------------------------------------------------------------------
(* Objects come and go: the count of start-ups follows them.               *)

(* What TypeOK says of the bindings, and that it is all that a look-up     *)
(* leaves alone.                                                           *)
BindingType ==
    /\ started \in Nat
    /\ object \in [Objects -> {"none", "starting", "live"}]
    /\ handle \in [Handles -> Bindings \cup {Invalid}]
    /\ s \in [Bindings -> Handles \cup {Invalid}]
    /\ failed \subseteq Bindings

LookupType ==
    /\ look \in [Inquiries -> LookType]
    /\ lookups \in Nat
    /\ \A i \in Inquiries : look[i].at # "none" => object[i] = "live"

LEMMA TypeParts == TypeOK <=> BindingType /\ LookupType
BY DEF TypeOK, BindingType, LookupType, LookType

LEMMA StartUpCounts ==
    ASSUME BindingType, StartUpsCounted, NEW o \in Objects, StartUp(o)
    PROVE  BindingType' /\ StartUpsCounted'
<1>1. Live' = Live \cup {o} /\ o \notin Live
  BY DEF BindingType, StartUp, Live
<1>2. Cardinality(Live') = Cardinality(Live) + 1
  BY <1>1, Finite, OneMore, Zenon
<1>3. StartUpsCounted'
  BY <1>2 DEF StartUp, StartUpsCounted, Live
<1>4. BindingType'
  BY DEF BindingType, StartUp
<1> QED BY <1>3, <1>4

LEMMA GoneCounts ==
    ASSUME BindingType, StartUpsCounted, NEW o \in Objects,
           object[o] # "none", Gone(o, 1)
    PROVE  /\ BindingType' /\ StartUpsCounted'
           /\ started' = 0 => \A p \in Objects : object'[p] = "none"
<1>1. Live' = Live \ {o} /\ o \in Live
  BY DEF BindingType, Gone, Live
<1>2. Cardinality(Live') = Cardinality(Live) - 1 /\ Cardinality(Live') \in Nat
  BY <1>1, Finite, OneLess, Zenon
<1>3. started' = Cardinality(Live') /\ started' \in Nat
  BY <1>2 DEF Gone, StartUpsCounted, Live
<1>4. BindingType'
  <2>1. handle' \in [Handles -> Bindings \cup {Invalid}]
    BY DEF BindingType, Gone
  <2>2. s' \in [Bindings -> Handles \cup {Invalid}] /\ failed' \subseteq Bindings
    BY DEF BindingType, Gone
  <2>3. object' \in [Objects -> {"none", "starting", "live"}]
    BY DEF BindingType, Gone
  <2> QED BY <1>3, <2>1, <2>2, <2>3 DEF BindingType
<1>5. ASSUME started' = 0 PROVE \A p \in Objects : object'[p] = "none"
  <2>1. IsFiniteSet(Live')
    BY <1>1, Finite, FS_RemoveElement, Zenon
  <2>2. Live' = {}
    BY <1>3, <1>5, <2>1, FS_EmptySet, Zenon
  <2> QED BY <2>2 DEF Live
<1> QED BY <1>3, <1>4, <1>5 DEF StartUpsCounted, Live

(* A call on a live object changes neither the objects nor the count.      *)
LEMMA CallsKeepCount ==
    ASSUME BindingType, StartUpsCounted, UNCHANGED <<started, object>>
    PROVE  StartUpsCounted'
BY DEF StartUpsCounted

LEMMA SocketCallsType ==
    ASSUME BindingType, NEW b \in Bindings, SocketCalls(b)
    PROVE  BindingType' /\ UNCHANGED <<started, object>>
<1>0. AfterClose(b) \in [Handles -> Bindings \cup {Invalid}]
  BY DEF AfterClose, BindingType
<1>1. CASE Close(b) \/ ConnectWithoutSocket(b)
  BY <1>0, <1>1 DEF Close, ConnectWithoutSocket, BindingType
<1>2. CASE ConnectKeepsSocket(b)
  BY <1>0, <1>2 DEF ConnectKeepsSocket, Free, BindingType
<1>3. CASE ConnectFails(b)
  BY <1>0, <1>3 DEF ConnectFails, Free, BindingType
<1> QED BY <1>1, <1>2, <1>3 DEF SocketCalls

LEMMA BindingPart ==
    ASSUME IInv,
           \/ \E o \in Objects : Constructors(o)
           \/ \E b \in Bindings : Destroy(b) \/ SocketCalls(b),
           UNCHANGED <<look, lookups>>
    PROVE  IInv'
<1>0. BindingType /\ LookupType /\ StartUpsCounted /\ LookupsEnded
  BY TypeParts DEF IInv
<1>1. LookupsEnded'
  BY <1>0 DEF LookupsEnded
<1>2. ASSUME NEW o \in Objects, StartUp(o) PROVE IInv'
  <2>1. BindingType' /\ StartUpsCounted'
    BY <1>0, <1>2, StartUpCounts
  <2>2. LookupType'
    BY <1>0, <1>2 DEF LookupType, StartUp, BindingType, Objects
  <2> QED BY <1>1, <2>1, <2>2, TypeParts DEF IInv, TypeOK, BindingType, LookupType, LookType
<1>3. ASSUME NEW o \in Objects, Initialized(o) PROVE IInv'
  <2>1. BindingType'
    BY <1>0, <1>3 DEF Initialized, BindingType
  <2>2. Live' = Live
    BY <1>0, <1>3 DEF Initialized, Live, BindingType
  <2>3. StartUpsCounted'
    BY <1>0, <1>3, <2>2 DEF StartUpsCounted, Initialized, Live
  <2>4. LookupType'
    BY <1>0, <1>3 DEF LookupType, Initialized, BindingType, Objects
  <2> QED BY <1>1, <2>1, <2>3, <2>4 DEF IInv, TypeOK, BindingType, LookupType, LookType
<1>4. ASSUME NEW o \in Objects, WrongVersion(o) PROVE IInv'
  <2>1. BindingType' /\ StartUpsCounted'
    BY <1>0, <1>4, GoneCounts DEF WrongVersion
  <2>2. LookupType'
    BY <1>0, <1>4 DEF LookupType, WrongVersion, Gone, BindingType, Objects
  <2> QED BY <1>1, <2>1, <2>2 DEF IInv, TypeOK, BindingType, LookupType, LookType
<1>5. ASSUME NEW b \in Bindings, Destroy(b) PROVE IInv'
  <2>0. b \in Objects
    BY DEF Objects
  <2>1. BindingType' /\ StartUpsCounted'
    BY <1>0, <1>5, <2>0, GoneCounts DEF Destroy
  <2>2. LookupType'
    BY <1>0, <1>5, <2>0, ObjectsAssumption DEF LookupType, Destroy, Gone, BindingType, Objects
  <2> QED BY <1>1, <2>1, <2>2 DEF IInv, TypeOK, BindingType, LookupType, LookType
<1>6. ASSUME NEW b \in Bindings, SocketCalls(b) PROVE IInv'
  <2>1. BindingType' /\ UNCHANGED <<started, object>>
    BY <1>0, <1>6, SocketCallsType
  <2>2. StartUpsCounted' /\ LookupType'
    BY <1>0, <2>1 DEF LookupType, StartUpsCounted
  <2> QED BY <1>1, <2>1, <2>2 DEF IInv, TypeOK, BindingType, LookupType, LookType
<1> QED BY <1>2, <1>3, <1>4, <1>5, <1>6 DEF Constructors

-----------------------------------------------------------------------------
(* Look-ups begin, go on and end.                                          *)

LEMMA Kept ==
    ASSUME IInv, UNCHANGED bindingVars
    PROVE  BindingType' /\ StartUpsCounted'
BY TypeParts DEF IInv, bindingVars, BindingType, StartUpsCounted

LEMMA EndsEnds ==
    ASSUME IInv, NEW i \in Inquiries, NEW update \in LookType,
           look[i].at = "next", update.at # "next", Ends(i, update)
    PROVE  IInv'
<1>0. BindingType /\ LookupType /\ LookupsEnded
  BY TypeParts DEF IInv
<1>1. Looking' = Looking \ {i} /\ i \in Looking
  BY <1>0 DEF Ends, Looking, LookupType
<1>2. Cardinality(Looking') = Cardinality(Looking) - 1 /\ Cardinality(Looking') \in Nat
  BY <1>1, Finite, OneLess, Zenon
<1>3. LookupsEnded' /\ lookups' \in Nat
  BY <1>0, <1>2 DEF LookupsEnded, Looking, Ends
<1>4. LookupType'
  BY <1>0, <1>3 DEF LookupType, Ends, bindingVars
<1> QED BY <1>3, <1>4, Kept DEF Ends, IInv, TypeOK, BindingType, LookupType, LookType

LEMMA LookupPart ==
    ASSUME IInv, NEW i \in Inquiries,
           \/ \E call \in {"inquire", "sdp"}, items \in ItemLists : Begin(i, call, items)
           \/ Loop(i) \/ OutOfMemory(i) \/ OtherError(i)
           \/ Returned(i)
    PROVE  IInv'
<1>0. BindingType /\ LookupType /\ LookupsEnded
  BY TypeParts DEF IInv
<1>a. look[i] \in LookType
  BY <1>0 DEF LookupType
<1>b. ASSUME look[i].left # <<>>
      PROVE  /\ Head(look[i].left) \in Item /\ Tail(look[i].left) \in Seq(Item)
             /\ Head(look[i].left).size \in Nat /\ Head(look[i].left).id \in STRING
  <2>1. look[i].left \in Seq(Item)
    BY <1>a DEF LookType
  <2>2. Head(look[i].left) \in Item /\ Tail(look[i].left) \in Seq(Item)
    BY <1>b, <2>1, HeadTailProperties, Zenon
  <2> QED BY <2>2 DEF Item
<1>1. ASSUME NEW call \in {"inquire", "sdp"}, NEW items \in ItemLists, Begin(i, call, items)
      PROVE  IInv'
  <2>1. Looking' = Looking \cup {i} /\ i \notin Looking
    BY <1>0, <1>1, NoLookType DEF Begin, Looking, LookupType, LookType
  <2>2. Cardinality(Looking') = Cardinality(Looking) + 1
    BY <2>1, Finite, OneMore, Zenon
  <2>3. lookups' = lookups + 1 /\ lookups \in Nat /\ lookups = Cardinality(Looking)
    BY <1>0, <1>1 DEF Begin, LookupsEnded, Looking, LookupType
  <2>4. lookups' = Cardinality(Looking') /\ lookups' \in Nat
    BY <2>2, <2>3
  <2>5. LookupsEnded'
    BY <2>4 DEF LookupsEnded, Looking
  <2>6. LookupType'
    BY <1>0, <1>1, <2>4, NoLookType, ItemsAssumption DEF LookupType, Begin, LookType, bindingVars
  <2> QED BY <1>1, <2>5, <2>6, Kept DEF Begin, IInv, TypeOK, BindingType, LookupType, LookType
<1>2. ASSUME NEW r \in LookType, r.at = look[i].at, look' = [look EXCEPT ![i] = r],
             UNCHANGED <<bindingVars, lookups>>
      PROVE  IInv'
  <2>1. Looking' = Looking
    BY <1>0, <1>2 DEF Looking, LookupType
  <2>2. LookupsEnded'
    BY <1>0, <1>2, <2>1 DEF LookupsEnded, Looking
  <2>3. LookupType'
    BY <1>0, <1>2 DEF LookupType, bindingVars
  <2> QED BY <1>2, <2>2, <2>3, Kept DEF IInv, TypeOK, BindingType, LookupType, LookType
<1>3. CASE NextDevice(i)
  <2> DEFINE r == [look[i] EXCEPT !.left = Tail(@),
                       !.got = IF Head(look[i].left).text
                               THEN Append(@, Head(look[i].left).id) ELSE @]
  <2>1. look' = [look EXCEPT ![i] = r] /\ r.at = look[i].at
    BY <1>0, <1>a, <1>3 DEF NextDevice, LookupType, LookType
  <2>2. r \in LookType
    <3>1. /\ Tail(look[i].left) \in Seq(Item)
          /\ Append(look[i].got, Head(look[i].left).id) \in Seq(STRING)
      BY <1>a, <1>b, <1>3 DEF NextDevice, Fits, LookType
    <3> QED BY <1>a, <3>1 DEF LookType
  <2> HIDE DEF r
  <2> QED BY <1>2, <1>3, <2>1, <2>2 DEF NextDevice
<1>4. CASE Grow(i)
  <2> DEFINE r == [look[i] EXCEPT !.size = Head(look[i].left).size]
  <2>1. look' = [look EXCEPT ![i] = r] /\ r.at = look[i].at
    BY <1>0, <1>a, <1>4 DEF Grow, LookupType, LookType
  <2>2. r \in LookType
    <3>1. Head(look[i].left).size \in Nat
      BY <1>b, <1>4 DEF Grow, TooSmall
    <3> QED BY <1>a, <3>1 DEF LookType
  <2> HIDE DEF r
  <2> QED BY <1>2, <1>4, <2>1, <2>2 DEF Grow
<1>5. CASE NextChannel(i)
  <2> DEFINE r == [look[i] EXCEPT !.at = "done", !.got = <<Head(look[i].left).id>>]
  <2>1. r \in LookType /\ r.at # "next"
    <3>1. <<Head(look[i].left).id>> \in Seq(STRING)
      BY <1>b, <1>5 DEF NextChannel, Fits
    <3> QED BY <1>a, <3>1 DEF LookType
  <2>2. look[i].at = "next" /\ Ends(i, r)
    BY <1>5 DEF NextChannel
  <2> HIDE DEF r
  <2> QED BY <2>1, <2>2, EndsEnds
<1>6. CASE NoMore(i) \/ OtherError(i)
  <2> DEFINE r == [look[i] EXCEPT !.at = "done"]
             q == [look[i] EXCEPT !.at = "done", !.cut = TRUE]
  <2>1. r \in LookType /\ r.at # "next" /\ q \in LookType /\ q.at # "next"
    BY <1>a DEF LookType
  <2>2. look[i].at = "next" /\ (Ends(i, r) \/ Ends(i, q))
    BY <1>6 DEF NoMore, OtherError
  <2> HIDE DEF r, q
  <2> QED BY <2>1, <2>2, EndsEnds
<1>7. CASE OutOfMemory(i)
  <2>1. NoLook.at # "next" /\ look[i].at = "next" /\ Ends(i, NoLook)
    BY <1>7 DEF OutOfMemory, NoLook
  <2> QED BY <2>1, NoLookType, EndsEnds
<1>8. CASE Returned(i)
  <2>1. Looking' = Looking
    BY <1>0, <1>8 DEF Returned, Looking, LookupType, NoLook
  <2>2. LookupsEnded'
    BY <1>0, <1>8, <2>1 DEF LookupsEnded, Looking, Returned
  <2>3. LookupType'
    BY <1>0, <1>8, NoLookType DEF LookupType, Returned, bindingVars, NoLook
  <2> QED BY <1>8, <2>2, <2>3, Kept DEF Returned, IInv, TypeOK, BindingType, LookupType, LookType
<1> QED BY <1>1, <1>3, <1>4, <1>5, <1>6, <1>7, <1>8 DEF Loop

LEMMA InquiryGone ==
    ASSUME IInv, NEW i \in Inquiries, DestroyInquiry(i)
    PROVE  IInv'
<1>0. BindingType /\ LookupType /\ StartUpsCounted /\ LookupsEnded /\ i \in Objects
  BY TypeParts DEF IInv, Objects
<1>1. BindingType' /\ StartUpsCounted'
  BY <1>0, GoneCounts DEF DestroyInquiry, Destroy
<1>2. LookupType' /\ LookupsEnded'
  BY <1>0 DEF LookupType, LookupsEnded, DestroyInquiry, Destroy, Gone, BindingType, Objects
<1> QED BY <1>1, <1>2 DEF IInv, TypeOK, BindingType, LookupType, LookType

LEMMA InitHolds == ProgramInit => IInv
<1> SUFFICES ASSUME ProgramInit PROVE IInv
  OBVIOUS
<1>1. Live = {} /\ Looking = {}
  BY DEF ProgramInit, Init, Live, Looking, NoLook
<1>2. started = Cardinality(Live) /\ lookups = Cardinality(Looking)
  BY <1>1, FS_EmptySet DEF ProgramInit, Init
<1>3. BindingType
  BY DEF BindingType, ProgramInit, Init
<1>4. LookupType
  BY NoLookType DEF LookupType, ProgramInit, NoLook
<1> QED BY <1>2, <1>3, <1>4, TypeParts DEF IInv, StartUpsCounted, LookupsEnded, Live, Looking

LEMMA StepHolds == IInv /\ [Next]_vars => IInv'
<1> SUFFICES ASSUME IInv, [Next]_vars PROVE IInv'
  OBVIOUS
<1>1. CASE UNCHANGED vars
  BY <1>1 DEF vars, bindingVars, IInv, TypeOK, StartUpsCounted, LookupsEnded
<1>2. CASE Next
  BY <1>2, BindingPart, LookupPart, InquiryGone DEF Next
<1> QED BY <1>1, <1>2

(* The inductive invariant: neither count can fall below 0, because each   *)
(* is the number of those that are still to take it down.                  *)
THEOREM Invariant == Spec => []IInv
<1> QED BY InitHolds, StepHolds, PTL DEF Spec

(* Types (WindowsProgram!TypeOK), for BluetoothHelpers, the binding and    *)
(* DeviceINQ of src/windows.                                               *)
THEOREM TypeCorrect == Spec => []TypeOK
<1>1. IInv => TypeOK
  BY DEF IInv
<1> QED BY <1>1, Invariant, PTL

(* Winsock is started exactly as often as objects use it.                  *)
THEOREM StartUpsAreCounted == Spec => []StartUpsCounted
<1>1. IInv => StartUpsCounted
  BY DEF IInv
<1> QED BY <1>1, Invariant, PTL

(* Every look-up that was begun and is not in its loop was ended.          *)
THEOREM LookupsAreEnded == Spec => []LookupsEnded
<1>1. IInv => LookupsEnded
  BY DEF IInv
<1> QED BY <1>1, Invariant, PTL

-----------------------------------------------------------------------------
(* Sockets.                                                                *)

LEMMA GoneKeepsOwners ==
    ASSUME IInv, SocketsOwned, NEW o \in Objects, object[o] # "none", Gone(o, 1)
    PROVE  SocketsOwned'
<1>0. BindingType /\ StartUpsCounted
  BY TypeParts DEF IInv
<1>1. BindingType' /\ (started' = 0 => \A p \in Objects : object'[p] = "none")
  BY <1>0, GoneCounts
<1> SUFFICES ASSUME NEW b \in Bindings, s'[b] # Invalid
             PROVE  object'[b] = "live" /\ (b \in failed' \/ handle'[s'[b]] = b)
  BY DEF SocketsOwned
<1>2. b # o /\ s'[b] = s[b] /\ object'[b] = object[b] /\ b \in Objects
  BY <1>0 DEF Gone, BindingType, Objects
<1>3. object[b] = "live" /\ (b \in failed \/ handle[s[b]] = b)
  BY <1>2 DEF SocketsOwned
<1>4. started' # 0 /\ started' \in Nat
  BY <1>1, <1>2, <1>3 DEF BindingType
<1>5. handle' = handle
  BY <1>0, <1>4 DEF Gone, BindingType
<1> QED BY <1>2, <1>3, <1>5 DEF Gone

(* The handle that b closes is its own, so it is nobody else's.            *)
LEMMA CallsKeepOwners ==
    ASSUME ~CallAfterFailure, IInv, SocketsOwned, NEW b \in Bindings, SocketCalls(b)
    PROVE  SocketsOwned'
<1>0. BindingType /\ Invalid \notin Handles /\ Invalid \notin Bindings
  BY TypeParts, ObjectsAssumption DEF IInv
<1>1. object[b] = "live" /\ b \notin failed /\ object' = object
  BY DEF SocketCalls, Close, ConnectWithoutSocket, ConnectKeepsSocket, ConnectFails, Callable
<1>2. ASSUME NEW c \in Bindings, c # b, c \notin failed, s[c] # Invalid
      PROVE  AfterClose(b)[s[c]] = c /\ s[c] \in Handles
  <2>1. handle[s[c]] = c /\ s[c] \in Handles
    BY <1>0, <1>2 DEF SocketsOwned, BindingType
  <2>2. s[c] # s[b]
    BY <1>1, <1>2, <2>1 DEF SocketsOwned
  <2> QED BY <2>1, <2>2 DEF AfterClose
<1>3. CASE Close(b) \/ ConnectWithoutSocket(b)
  BY <1>0, <1>1, <1>2, <1>3
     DEF Close, ConnectWithoutSocket, SocketsOwned, BindingType
<1>4. CASE ConnectKeepsSocket(b)
  <2>1. PICK h \in Free(b) : handle' = [AfterClose(b) EXCEPT ![h] = b]
                              /\ s' = [s EXCEPT ![b] = h]
    BY <1>4 DEF ConnectKeepsSocket
  <2>2. h \in Handles /\ AfterClose(b)[h] = Invalid /\ failed' = failed \ {b}
    BY <1>4 DEF Free, ConnectKeepsSocket
  <2>3. AfterClose(b) \in [Handles -> Bindings \cup {Invalid}]
    BY <1>0 DEF AfterClose, BindingType
  <2>4. handle'[h] = b /\ s'[b] = h
    BY <1>0, <2>1, <2>2, <2>3 DEF BindingType
  <2>5. ASSUME NEW c \in Bindings, c # b, s'[c] # Invalid
        PROVE  object'[c] = "live" /\ (c \in failed' \/ handle'[s'[c]] = c)
    <3>1. s'[c] = s[c] /\ object[c] = "live"
      BY <1>0, <2>1, <2>5 DEF BindingType, SocketsOwned
    <3>2. c \notin failed => AfterClose(b)[s[c]] = c /\ s[c] \in Handles /\ s[c] # h
      BY <1>0, <1>2, <2>2, <2>5, <3>1
    <3> QED BY <1>1, <2>1, <2>2, <2>3, <2>5, <3>1, <3>2
  <2> QED BY <1>1, <2>4, <2>5 DEF SocketsOwned
<1>5. CASE ConnectFails(b)
  <2>1. handle' = AfterClose(b) /\ failed' = failed \cup {b}
        /\ \E h \in Free(b) : s' = [s EXCEPT ![b] = h]
    BY <1>5 DEF ConnectFails
  <2> QED BY <1>0, <1>1, <1>2, <2>1 DEF SocketsOwned, BindingType
<1> QED BY <1>3, <1>4, <1>5 DEF SocketCalls

LEMMA StepKeepsOwners ==
    ASSUME ~CallAfterFailure, IInv, SocketsOwned, [Next]_vars
    PROVE  SocketsOwned'
<1>0. BindingType
  BY TypeParts DEF IInv
<1>1. CASE UNCHANGED bindingVars
  BY <1>1 DEF bindingVars, SocketsOwned
<1>2. ASSUME NEW o \in Objects, StartUp(o) \/ Initialized(o) PROVE SocketsOwned'
  BY <1>0, <1>2 DEF StartUp, Initialized, SocketsOwned, BindingType, Objects
<1>3. ASSUME NEW o \in Objects, WrongVersion(o) \/ Destroy(o) PROVE SocketsOwned'
  BY <1>3, GoneKeepsOwners DEF WrongVersion, Destroy
<1>4. ASSUME NEW b \in Bindings, SocketCalls(b) PROVE SocketsOwned'
  BY <1>4, CallsKeepOwners
<1>5. ASSUME NEW i \in Inquiries,
             \/ \E call \in {"inquire", "sdp"}, items \in ItemLists : Begin(i, call, items)
             \/ Loop(i) \/ OutOfMemory(i) \/ OtherError(i) \/ Returned(i)
      PROVE  UNCHANGED bindingVars
  BY <1>5 DEF Begin, Loop, NextDevice, NextChannel, Grow, NoMore, Ends,
              OutOfMemory, OtherError, Returned
<1>6. CASE UNCHANGED vars
  BY <1>1, <1>6 DEF vars
<1> QED
  BY <1>1, <1>2, <1>3, <1>4, <1>5, <1>6 DEF Next, Constructors, DestroyInquiry, Objects

(* While a binding has a socket nobody else closes it or puts another in   *)
(* its place, in any program that gives a binding up when its Connect      *)
(* failed.  Owners are kept apart because a handle is given out only while *)
(* it is free, and a live binding keeps Winsock's count above 0.           *)
THEOREM SocketsAreKept == ~CallAfterFailure => (Spec => []SocketsKept)
<1> SUFFICES ASSUME ~CallAfterFailure PROVE Spec => []SocketsKept
  OBVIOUS
<1>1. ProgramInit => SocketsOwned
  BY DEF ProgramInit, Init, SocketsOwned
<1>2. IInv /\ SocketsOwned /\ [Next]_vars => SocketsOwned'
  BY StepKeepsOwners
<1>3. SocketsOwned => SocketsKept
  BY DEF SocketsOwned, SocketsKept
<1> QED BY <1>1, <1>2, <1>3, Invariant, PTL DEF Spec

-----------------------------------------------------------------------------
(* Look-ups: what was found so far are the names of the items before n.    *)

ReadUpTo(r, n) ==
    /\ Len(r.left) = Len(r.all) - n
    /\ \A k \in 1..Len(r.left) : r.left[k] = r.all[n + k]
    /\ r.call = "sdp" => n = 0
    /\ InOrder(r.got, r.all, {k \in 1..n : r.all[k].text})

Complete(r) ==
    InOrder(r.got, r.all,
            {k \in DOMAIN r.all : IF r.call = "inquire" THEN r.all[k].text ELSE k = 1})

LookFits(r) ==
    /\ r.at = "next" => r.call # "none" /\ \E n \in Nat : ReadUpTo(r, n)
    /\ r.at = "done" /\ ~r.cut => Complete(r)

LooksFit == \A i \in Inquiries : LookFits(look[i])

LEMMA NothingInOrder == ASSUME NEW all PROVE InOrder(<<>>, all, {})
<1>1. DOMAIN <<>> = {}
  OBVIOUS
<1> DEFINE at == [k \in {} |-> 0]
<1>2. at \in [DOMAIN <<>> -> {}]
  BY <1>1
<1> QED BY <1>1, <1>2 DEF InOrder

LEMMA OneMoreInOrder ==
    ASSUME NEW all, NEW got \in Seq(STRING), NEW n \in Nat, NEW id \in STRING,
           NEW places \in SUBSET (1..n), all[n + 1].id = id,
           InOrder(got, all, places)
    PROVE  InOrder(Append(got, id), all, places \cup {n + 1})
<1> DEFINE m == Len(got)
           more == Append(got, id)
<1>1. PICK at \in [DOMAIN got -> places] :
          /\ \A k \in DOMAIN got : got[k] = all[at[k]].id
          /\ \A j, k \in DOMAIN got : j < k => at[j] < at[k]
          /\ \A place \in places : \E k \in DOMAIN got : at[k] = place
  BY DEF InOrder
<1>2. /\ m \in Nat /\ DOMAIN got = 1..m /\ DOMAIN more = 1..m + 1
      /\ more[m + 1] = id /\ \A k \in 1..m : more[k] = got[k]
  BY AppendProperties, LenProperties
<1> HIDE DEF m, more
<1> DEFINE to == [k \in 1..m + 1 |-> IF k = m + 1 THEN n + 1 ELSE at[k]]
<1>3. /\ to[m + 1] = n + 1
      /\ \A k \in 1..m : k \in 1..m + 1 /\ to[k] = at[k] /\ at[k] \in places
                                       /\ at[k] \in 1..n
  <2>1. m + 1 \in 1..m + 1
    BY <1>2
  <2>2. ASSUME NEW k \in 1..m
        PROVE  k \in 1..m + 1 /\ k # m + 1 /\ at[k] \in places /\ at[k] \in 1..n
    <3>1. k \in 1..m + 1 /\ k # m + 1
      BY <1>2
    <3>2. at \in [1..m -> places]
      BY <1>1, <1>2
    <3>3. at[k] \in places
      BY <3>2
    <3>4. places \subseteq 1..n
      OBVIOUS
    <3> QED BY <3>1, <3>3, <3>4
  <2> QED BY <2>1, <2>2
<1>4. to \in [1..m + 1 -> places \cup {n + 1}]
  BY <1>2, <1>3
<1> HIDE DEF to
<1>5. \A k \in 1..m + 1 : more[k] = all[to[k]].id
  <2> SUFFICES ASSUME NEW k \in 1..m + 1 PROVE more[k] = all[to[k]].id
    OBVIOUS
  <2>1. CASE k = m + 1
    BY <1>2, <1>3, <2>1
  <2>2. CASE k # m + 1
    <3>1. k \in 1..m
      BY <1>2, <2>2
    <3> QED BY <1>1, <1>2, <1>3, <3>1
  <2> QED BY <2>1, <2>2
<1>6. \A j, k \in 1..m + 1 : j < k => to[j] < to[k]
  <2> SUFFICES ASSUME NEW j \in 1..m + 1, NEW k \in 1..m + 1, j < k
               PROVE  to[j] < to[k]
    OBVIOUS
  <2>1. j \in 1..m
    BY <1>2
  <2>4. to[j] = at[j] /\ at[j] \in 1..n
    BY <1>3, <2>1
  <2>2. CASE k = m + 1
    BY <1>3, <2>2, <2>4
  <2>3. CASE k # m + 1
    <3>1. k \in 1..m
      BY <1>2, <2>3
    <3>2. j \in DOMAIN got /\ k \in DOMAIN got
      BY <1>2, <2>1, <3>1
    <3> QED BY <1>1, <1>3, <2>4, <3>1, <3>2
  <2> QED BY <2>2, <2>3
<1>7. \A place \in places \cup {n + 1} : \E k \in 1..m + 1 : to[k] = place
  <2>1. m + 1 \in 1..m + 1
    BY <1>2
  <2>2. ASSUME NEW place \in places PROVE \E k \in 1..m + 1 : to[k] = place
    BY <1>1, <1>2, <1>3
  <2> QED BY <1>3, <2>1, <2>2
<1> QED BY <1>2, <1>4, <1>5, <1>6, <1>7 DEF InOrder, more

(* A look-up is changed by its own loop only.                              *)
LEMMA LookKept ==
    ASSUME IInv, LooksFit, NEW i \in Inquiries, NEW r, LookFits(r),
           look' = [look EXCEPT ![i] = r]
    PROVE  LooksFit'
<1>1. \A j \in Inquiries : look'[j] = IF j = i THEN r ELSE look[j]
  BY TypeParts DEF IInv, LookupType
<1> QED BY <1>1 DEF LooksFit

LEMMA NextDeviceFits ==
    ASSUME IInv, LooksFit, NEW i \in Inquiries, NextDevice(i)
    PROVE  LooksFit'
<1> DEFINE q == look[i]
           item == Head(q.left)
           r == [q EXCEPT !.left = Tail(@),
                          !.got = IF item.text THEN Append(@, item.id) ELSE @]
<1>0. look \in [Inquiries -> LookType]
  BY TypeParts DEF IInv, LookupType
<1>1. q \in LookType /\ q.at = "next" /\ q.call = "inquire" /\ q.left # <<>>
  BY <1>0 DEF NextDevice, Fits
<1>2. look' = [look EXCEPT ![i] = r]
  BY <1>0, <1>1 DEF NextDevice, LookType
<1> HIDE DEF q
<1>3. PICK n \in Nat : ReadUpTo(q, n)
  BY <1>1 DEF LooksFit, LookFits, q
<1>4. q.left \in Seq(Item) /\ q.all \in Seq(Item) /\ q.got \in Seq(STRING)
  BY <1>1 DEF LookType
<1>5. /\ item = q.left[1] /\ item \in Item /\ Len(q.left) \in Nat \ {0}
      /\ Len(Tail(q.left)) = Len(q.left) - 1
      /\ \A k \in 1..Len(Tail(q.left)) : Tail(q.left)[k] = q.left[k + 1]
  BY <1>1, <1>4, HeadTailProperties, LenProperties, EmptySeq
<1>6. item = q.all[n + 1] /\ item.id \in STRING
  BY <1>3, <1>5 DEF ReadUpTo, Item
<1>7. /\ r.at = "next" /\ r.call = "inquire" /\ r.all = q.all /\ r.left = Tail(q.left)
      /\ r.got = IF item.text THEN Append(q.got, item.id) ELSE q.got
  BY <1>1 DEF LookType
<1> DEFINE before == {k \in 1..n : q.all[k].text}
           now == {k \in 1..n + 1 : q.all[k].text}
<1>8. InOrder(r.got, r.all, now)
  <2>1. InOrder(q.got, q.all, before) /\ before \in SUBSET (1..n)
    BY <1>3 DEF ReadUpTo
  <2>2. CASE item.text
    <3>1. now = before \cup {n + 1}
      BY <1>6, <2>2
    <3>2. InOrder(Append(q.got, item.id), q.all, before \cup {n + 1})
      <4> HIDE DEF before, item
      <4> QED BY <1>4, <1>6, <2>1, OneMoreInOrder
    <3> QED BY <1>7, <2>2, <3>1, <3>2
  <2>3. CASE ~item.text
    <3>1. now = before
      BY <1>6, <2>3
    <3> QED BY <1>7, <2>1, <2>3, <3>1
  <2> QED BY <2>2, <2>3
<1> HIDE DEF r, item
<1>9. ReadUpTo(r, n + 1)
  <2>1. Len(q.all) \in Nat /\ Len(q.left) = Len(q.all) - n
    BY <1>3, <1>4, LenProperties DEF ReadUpTo
  <2>2. Len(r.left) = Len(r.all) - (n + 1)
    BY <1>5, <1>7, <2>1
  <2>3. \A k \in 1..Len(r.left) : r.left[k] = r.all[(n + 1) + k]
    <3> SUFFICES ASSUME NEW k \in 1..Len(r.left) PROVE r.left[k] = r.all[(n + 1) + k]
      OBVIOUS
    <3>1. r.left[k] = q.left[k + 1] /\ k + 1 \in 1..Len(q.left)
      BY <1>5, <1>7
    <3>2. q.left[k + 1] = q.all[n + (k + 1)] /\ n + (k + 1) = (n + 1) + k
      BY <1>3, <3>1 DEF ReadUpTo
    <3> QED BY <1>7, <3>1, <3>2
  <2> QED BY <1>7, <1>8, <2>2, <2>3 DEF ReadUpTo
<1>10. LookFits(r)
  BY <1>7, <1>9 DEF LookFits
<1> QED BY <1>2, <1>10, LookKept

LEMMA NextChannelFits ==
    ASSUME IInv, LooksFit, NEW i \in Inquiries, NextChannel(i)
    PROVE  LooksFit'
<1> DEFINE q == look[i]
           r == [q EXCEPT !.at = "done", !.got = <<Head(q.left).id>>]
<1>0. look \in [Inquiries -> LookType]
  BY TypeParts DEF IInv, LookupType
<1>1. /\ q \in LookType /\ q.at = "next" /\ q.call = "sdp" /\ q.left # <<>>
      /\ look' = [look EXCEPT ![i] = r]
  BY <1>0 DEF NextChannel, Fits, Ends
<1> HIDE DEF q
<1>2. q.left \in Seq(Item) /\ q.all \in Seq(Item)
  BY <1>1 DEF LookType
<1>3. /\ ReadUpTo(q, 0) /\ Len(q.left) \in Nat \ {0} /\ Len(q.all) \in Nat
      /\ Head(q.left) = q.left[1] /\ DOMAIN q.all = 1..Len(q.all)
  <2>1. PICK n \in Nat : ReadUpTo(q, n)
    BY <1>1 DEF LooksFit, LookFits, q
  <2>2. n = 0
    BY <1>1, <2>1 DEF ReadUpTo
  <2> QED BY <1>1, <1>2, <2>1, <2>2, LenProperties, EmptySeq, HeadTailProperties
<1>4. Head(q.left) = q.all[1] /\ 1 \in DOMAIN q.all
  BY <1>3 DEF ReadUpTo
<1>5. /\ r.at = "done" /\ r.call = "sdp" /\ r.all = q.all
      /\ r.got = <<q.all[1].id>>
  BY <1>1, <1>4 DEF LookType
<1>6. InOrder(<<q.all[1].id>>, q.all, {1})
  <2> DEFINE at == [k \in {1} |-> 1]
  <2> DEFINE id == q.all[1].id
  <2>1. DOMAIN <<id>> = {1} /\ at \in [{1} -> {1}] /\ <<id>>[1] = id /\ at[1] = 1
    OBVIOUS
  <2> HIDE DEF at
  <2>2. /\ \A k \in {1} : <<id>>[k] = q.all[at[k]].id
        /\ \A j, k \in {1} : j < k => at[j] < at[k]
        /\ \A place \in {1} : \E k \in {1} : at[k] = place
    BY <2>1
  <2> QED BY <2>1, <2>2 DEF InOrder
<1>7. {k \in DOMAIN r.all : IF r.call = "inquire" THEN r.all[k].text ELSE k = 1} = {1}
  BY <1>4, <1>5
<1> HIDE DEF r
<1>8. LookFits(r)
  BY <1>5, <1>6, <1>7 DEF LookFits, Complete
<1> QED BY <1>1, <1>8, LookKept

LEMMA NoMoreFits ==
    ASSUME IInv, LooksFit, NEW i \in Inquiries, NoMore(i)
    PROVE  LooksFit'
<1> DEFINE q == look[i]
           r == [q EXCEPT !.at = "done"]
<1>0. look \in [Inquiries -> LookType]
  BY TypeParts DEF IInv, LookupType
<1>1. q \in LookType /\ q.at = "next" /\ q.left = <<>> /\ look' = [look EXCEPT ![i] = r]
  BY <1>0 DEF NoMore, Ends
<1> HIDE DEF q
<1>2. q.call \in {"inquire", "sdp"}
  BY <1>1 DEF LooksFit, LookFits, LookType, q
<1>3. PICK n \in Nat : ReadUpTo(q, n)
  BY <1>1 DEF LooksFit, LookFits, q
<1>4. n = Len(q.all) /\ DOMAIN q.all = 1..n
  <2>1. q.all \in Seq(Item) /\ Len(q.left) = 0
    BY <1>1 DEF LookType
  <2>2. Len(q.all) \in Nat /\ DOMAIN q.all = 1..Len(q.all)
    BY <2>1, LenProperties
  <2> QED BY <1>3, <2>1, <2>2 DEF ReadUpTo
<1>5. r.at = "done" /\ r.call = q.call /\ r.all = q.all /\ r.got = q.got
  BY <1>1 DEF LookType
<1>6. {k \in DOMAIN r.all : IF r.call = "inquire" THEN r.all[k].text ELSE k = 1}
        = {k \in 1..n : q.all[k].text}
  <2>1. CASE q.call = "inquire"
    BY <1>4, <1>5, <2>1
  <2>2. CASE q.call = "sdp"
    <3>1. n = 0
      BY <1>3, <2>2 DEF ReadUpTo
    <3> QED BY <1>4, <1>5, <3>1
  <2> QED BY <1>2, <2>1, <2>2
<1> HIDE DEF r
<1>7. LookFits(r)
  BY <1>3, <1>5, <1>6 DEF LookFits, Complete, ReadUpTo
<1> QED BY <1>1, <1>7, LookKept

LEMMA LookStep ==
    ASSUME IInv, LooksFit, [Next]_vars
    PROVE  LooksFit'
<1>0. look \in [Inquiries -> LookType]
  BY TypeParts DEF IInv, LookupType
<1>1. CASE UNCHANGED look
  BY <1>1 DEF LooksFit, LookFits, ReadUpTo, Complete
<1>2. LookFits(NoLook)
  BY DEF LookFits, NoLook
<1>3. ASSUME NEW i \in Inquiries, NEW call \in {"inquire", "sdp"},
             NEW items \in ItemLists, Begin(i, call, items)
      PROVE  LooksFit'
  <2> DEFINE r == [NoLook EXCEPT !.at = "next", !.call = call,
                                 !.all = items, !.left = items, !.size = FirstSize]
  <2>1. /\ r.at = "next" /\ r.call = call /\ r.all = items /\ r.left = items
        /\ r.got = <<>> /\ look' = [look EXCEPT ![i] = r]
    BY <1>3 DEF Begin, NoLook
  <2>2. Len(items) \in Nat /\ {k \in 1..0 : items[k].text} = {}
    BY ItemsAssumption, LenProperties
  <2> HIDE DEF r
  <2>3. ReadUpTo(r, 0)
    <3>1. InOrder(r.got, r.all, {k \in 1..0 : r.all[k].text})
      BY <2>1, <2>2, NothingInOrder
    <3> QED BY <2>1, <2>2, <3>1 DEF ReadUpTo
  <2>4. LookFits(r)
    BY <2>1, <2>3 DEF LookFits
  <2> QED BY <2>1, <2>4, LookKept
<1>4. ASSUME NEW i \in Inquiries, Grow(i) PROVE LooksFit'
  <2> DEFINE r == [look[i] EXCEPT !.size = Head(look[i].left).size]
  <2>1. /\ r.at = look[i].at /\ r.call = look[i].call /\ r.all = look[i].all
        /\ r.left = look[i].left /\ r.got = look[i].got /\ r.cut = look[i].cut
        /\ look' = [look EXCEPT ![i] = r]
    BY <1>0, <1>4 DEF Grow, LookType
  <2> HIDE DEF r
  <2>2. LookFits(look[i])
    BY DEF LooksFit
  <2>3. LookFits(r)
    BY <2>1, <2>2 DEF LookFits, ReadUpTo, Complete
  <2> QED BY <2>1, <2>3, LookKept
<1>5. ASSUME NEW i \in Inquiries, OtherError(i) PROVE LooksFit'
  <2> DEFINE r == [look[i] EXCEPT !.at = "done", !.cut = TRUE]
  <2>1. r.at = "done" /\ r.cut /\ look' = [look EXCEPT ![i] = r]
    BY <1>0, <1>5 DEF OtherError, Ends, LookType
  <2> HIDE DEF r
  <2>2. LookFits(r)
    BY <2>1 DEF LookFits
  <2> QED BY <2>1, <2>2, LookKept
<1>6. ASSUME NEW i \in Inquiries, OutOfMemory(i) \/ Returned(i) PROVE LooksFit'
  BY <1>2, <1>6, LookKept DEF OutOfMemory, Ends, Returned
<1>7. CASE UNCHANGED vars
  BY <1>1, <1>7 DEF vars
<1> QED
  BY <1>1, <1>3, <1>4, <1>5, <1>6, <1>7, NextDeviceFits, NextChannelFits, NoMoreFits
     DEF Next, Loop, DestroyInquiry

(* A look-up that was not cut short returns every item it should, once and *)
(* in the order found, however many items there are and however often the  *)
(* buffer was too small (src/windows/DeviceINQ.cc).                        *)
THEOREM NothingIsSkipped == Spec => []NothingSkipped
<1>1. ProgramInit => LooksFit
  BY DEF ProgramInit, LooksFit, LookFits, NoLook
<1>2. IInv /\ LooksFit /\ [Next]_vars => LooksFit'
  BY LookStep
<1>3. LooksFit => NothingSkipped
  BY DEF LooksFit, LookFits, Complete, NothingSkipped
<1> QED BY <1>1, <1>2, <1>3, Invariant, PTL DEF Spec

=============================================================================
