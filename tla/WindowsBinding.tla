--------------------------- MODULE WindowsBinding ---------------------------
(***************************************************************************)
(* Objects on Windows: the count of WSAStartup calls that every            *)
(* BTSerialPortBinding and DeviceINQ raises while it lives                 *)
(* (src/windows/BluetoothHelpers.cc), and the sockets of the bindings      *)
(* (src/windows/BTSerialPortBinding.cc).                                   *)
(*                                                                         *)
(* External is Winsock: a closed handle may be given to whoever asks next, *)
(* and the WSACleanup that takes the count to 0 closes every socket.       *)
(* Threads own an object each and call it without overlap, so a call is    *)
(* one step, but for Create, where another thread may come in after        *)
(* WSAStartup.                                                             *)
(***************************************************************************)
EXTENDS Integers, FiniteSets

CONSTANTS
    Bindings, Inquiries,    \* objects that may be created, again and again
    Handles,                \* socket handles
    Invalid,                \* INVALID_SOCKET; the owner of a free handle
    CallAfterFailure        \* a program may Close or Connect a binding whose
                            \* Connect failed; otherwise it deletes it

Objects == Bindings \cup Inquiries

ASSUME ObjectsAssumption ==
    /\ IsFiniteSet(Objects) /\ Bindings \cap Inquiries = {}
    /\ Invalid \notin Handles \cup Bindings
    /\ CallAfterFailure \in BOOLEAN

VARIABLES
    started,    \* WSAStartup calls not yet cleaned up
    object,     \* each object: "none", "starting" (in its constructor), "live"
    handle,     \* each handle: the binding it was opened for, or Invalid
    s,          \* data->s of each binding
    failed      \* bindings whose last Connect closed the socket it had opened

bindingVars == <<started, object, handle, s, failed>>

-----------------------------------------------------------------------------
Init ==
    /\ started = 0
    /\ object = [o \in Objects |-> "none"]
    /\ handle = [h \in Handles |-> Invalid]
    /\ s = [b \in Bindings |-> Invalid]
    /\ failed = {}

StartUp(o) ==
    /\ object[o] = "none"
    /\ started' = started + 1
    /\ object' = [object EXCEPT ![o] = "starting"]
    /\ UNCHANGED <<handle, s, failed>>

Initialized(o) ==
    /\ object[o] = "starting"
    /\ object' = [object EXCEPT ![o] = "live"]
    /\ UNCHANGED <<started, handle, s, failed>>

(* Finalize; the object and what it kept are gone, its socket is not.      *)
Gone(o, cleanups) ==
    /\ started' = started - cleanups
    /\ object' = [object EXCEPT ![o] = "none"]
    /\ handle' = [h \in Handles |-> IF started - cleanups <= 0 THEN Invalid ELSE handle[h]]
    /\ s' = [b \in Bindings |-> IF b = o THEN Invalid ELSE s[b]]
    /\ failed' = failed \ {o}

(* Faulty variant: the destructor finalizes once more.                     *)
WrongVersionTwice(o) == object[o] = "starting" /\ Gone(o, 2)

(* Initialize takes its start-up back, and Create deletes the object, whose *)
(* destructor does not, as initialized is false.                           *)
WrongVersion(o) == object[o] = "starting" /\ Gone(o, 1)

(* Faulty variant: the destructor does not finalize.                       *)
DestroyUncounted(o) == object[o] = "live" /\ Gone(o, 0)

Destroy(o) == object[o] = "live" /\ Gone(o, 1)

-----------------------------------------------------------------------------
Callable(b) == object[b] = "live" /\ (CallAfterFailure \/ b \notin failed)

(* closesocket of whatever the handle is by now.                           *)
AfterClose(b) == [h \in Handles |-> IF h = s[b] THEN Invalid ELSE handle[h]]

Close(b) ==
    /\ Callable(b)
    /\ handle' = AfterClose(b)
    /\ s' = [s EXCEPT ![b] = Invalid]
    /\ failed' = failed \ {b}
    /\ UNCHANGED <<started, object>>

Free(b) == {h \in Handles : AfterClose(b)[h] = Invalid}

(* socket() fails after Connect's Close: there is nothing more to close.    *)
ConnectWithoutSocket(b) == Close(b)

(* It is connected, or the address is too long and Connect throws at once: *)
(* either way the socket stays open in data->s.                            *)
ConnectKeepsSocket(b) ==
    /\ Callable(b)
    /\ \E h \in Free(b) :
          /\ handle' = [AfterClose(b) EXCEPT ![h] = b]
          /\ s' = [s EXCEPT ![b] = h]
    /\ failed' = failed \ {b}
    /\ UNCHANGED <<started, object>>

(* The address is no address or connect fails: the socket is closed and    *)
(* data->s keeps its handle.                                               *)
ConnectFails(b) ==
    /\ Callable(b)
    /\ \E h \in Free(b) : s' = [s EXCEPT ![b] = h]
    /\ handle' = AfterClose(b)
    /\ failed' = failed \cup {b}
    /\ UNCHANGED <<started, object>>

-----------------------------------------------------------------------------
Constructors(o) == StartUp(o) \/ Initialized(o) \/ WrongVersion(o)

SocketCalls(b) ==
    Close(b) \/ ConnectWithoutSocket(b) \/ ConnectKeepsSocket(b) \/ ConnectFails(b)

(* Winsock is up exactly as often as there are objects that use it, through *)
(* constructors that fail and objects that come and go in any order.       *)
StartUpsCounted == started = Cardinality({o \in Objects : object[o] # "none"})

(* Closes and cleanups are each object's own affair: while a binding has a *)
(* socket, nobody else's Close, Connect, failed constructor or destructor  *)
(* closes it or puts another in its place.                                 *)
SocketsKept == \A b \in Bindings \ failed : s[b] # Invalid => handle[s[b]] = b

=============================================================================
