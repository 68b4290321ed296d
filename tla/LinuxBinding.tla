---------------------------- MODULE LinuxBinding ----------------------------
(***************************************************************************)
(* BTSerialPortBinding of src/linux/BTSerialPortBinding.cc, step by step,  *)
(* over the descriptor table of its process.  Two threads share one        *)
(* binding: the controller calls Connect and Close, the user calls Read    *)
(* and Write.  Close may come at any time; Connect and the user's calls do *)
(* not overlap ("needs to be called before any Read/Write calls",          *)
(* README.md:112).                                                         *)
(*                                                                         *)
(* `file' is the descriptor table: what each number stands for.  A number  *)
(* given back is handed out again, lowest first; when the table is full,   *)
(* pipe and socket fail.  0 is the terminal.  External are the kernel and  *)
(* the remote device: the link comes up or not, carries data, hangs up.    *)
(***************************************************************************)
EXTENDS Integers, FiniteSets, FiniteSetsExt

CONSTANT MaxFd      \* the last descriptor a process may have (a bound)

ASSUME MaxFdAssumption == MaxFd \in Nat /\ MaxFd >= 3

Fds   == 0..MaxFd
Kinds == {"free", "terminal", "pipe", "pipe_in", "socket", "hci", "session"}

VARIABLES
    file,       \* descriptor -> its kind; "pipe" is the end to read from
    told,       \* the pipes that "close" was written to
    link,       \* the socket's link: "none", "up", "hungup"
    unread,     \* whether the socket has bytes to read
    s, rep,     \* data->s and data->rep
    ctl,        \* the controller: where it is, and what follows a Close
    user        \* the user: where it is, pselect's set, the descriptor, the result

kernel == <<file, told, link, unread>>
data   == <<s, rep>>
vars   == <<kernel, data, ctl, user>>

-----------------------------------------------------------------------------
Free        == {f \in Fds : file[f] = "free"}
Lowest      == Min(Free)
Next2       == Min(Free \ {Lowest})
IsFree(f)   == f \in Fds => file[f] = "free"
IsSocket(f) == f \in Fds /\ file[f] = "socket"

Idle == [at |-> "idle", set |-> {}, fd |-> -1, got |-> "nothing"]

Init ==
    /\ file = [f \in Fds |-> IF f = 0 THEN "terminal" ELSE "free"]
    /\ told = {}
    /\ link = "none" /\ unread = FALSE
    /\ s = 0 /\ rep = <<-1, -1>>
    /\ ctl = [at |-> "idle", then |-> "idle"]
    /\ user = Idle

-----------------------------------------------------------------------------
(* Close: close(s), tell the reader, s = 0.  A data->s of 0 is closed.     *)

Connecting == ctl.at = "pipe" \/ ctl.at = "socket" \/ ctl.then = "pipe"

(* Faulty variant: data->s is cleared before it is closed.                 *)
CloseForgetsFirst ==
    /\ ctl.at = "idle" /\ s # 0
    /\ ctl' = [at |-> "close", then |-> "idle"]
    /\ s' = 0
    /\ UNCHANGED <<kernel, rep, user>>

CloseCalled ==
    /\ ctl.at = "idle" /\ s # 0
    /\ ctl' = [at |-> "close", then |-> "idle"]
    /\ UNCHANGED <<kernel, data, user>>

CloseSocket ==
    /\ ctl.at = "close"
    /\ file' = [f \in Fds |-> IF f = s THEN "free" ELSE file[f]]
    /\ link' = "none" /\ unread' = FALSE
    /\ ctl' = [ctl EXCEPT !.at = "tell"]
    /\ UNCHANGED <<told, data, user>>

(* Faulty variant: nobody writes to the pipe.                              *)
TellNobody ==
    /\ ctl.at = "tell"
    /\ ctl' = [ctl EXCEPT !.at = "forget"]
    /\ UNCHANGED <<kernel, data, user>>

TellReader ==
    /\ ctl.at = "tell"
    /\ told' = told \cup {rep[1]}
    /\ ctl' = [ctl EXCEPT !.at = "forget"]
    /\ UNCHANGED <<file, link, unread, data, user>>

(* Faulty variant: data->s stays.                                          *)
ForgetNothing ==
    /\ ctl.at = "forget"
    /\ ctl' = [at |-> ctl.then, then |-> "idle"]
    /\ UNCHANGED <<kernel, data, user>>

ForgetSocket ==
    /\ ctl.at = "forget"
    /\ s' = 0
    /\ ctl' = [at |-> ctl.then, then |-> "idle"]
    /\ UNCHANGED <<kernel, rep, user>>

-----------------------------------------------------------------------------
(* Connect: Close, then a new pipe, then a socket and its link.            *)

(* Faulty variant: Connect does not close first.                           *)
ConnectCalledOverOpen ==
    /\ ctl.at = "idle" /\ user.at = "idle"
    /\ ctl' = [at |-> "pipe", then |-> "idle"]
    /\ UNCHANGED <<kernel, data, user>>

ConnectCalled ==
    /\ ctl.at = "idle" /\ user.at = "idle"
    /\ ctl' = IF s = 0 THEN [at |-> "pipe", then |-> "idle"]
                       ELSE [at |-> "close", then |-> "pipe"]
    /\ UNCHANGED <<kernel, data, user>>

(* Faulty variant: the pipe of an earlier Connect is used again.           *)
OpenPipeOnce ==
    /\ ctl.at = "pipe"
    /\ IF rep[1] # -1
       THEN ctl' = [ctl EXCEPT !.at = "socket"] /\ UNCHANGED <<file, rep>>
       ELSE /\ rep' = <<Lowest, Next2>>
            /\ file' = [file EXCEPT ![Lowest] = "pipe", ![Next2] = "pipe_in"]
            /\ ctl' = [ctl EXCEPT !.at = "socket"]
    /\ UNCHANGED <<told, link, unread, s, user>>

OpenPipe ==
    /\ ctl.at = "pipe"
    /\ IF Cardinality(Free) < 2
       THEN ctl' = [ctl EXCEPT !.at = "idle"] /\ UNCHANGED <<file, rep>>
       ELSE /\ rep' = <<Lowest, Next2>>
            /\ file' = [file EXCEPT ![Lowest] = "pipe", ![Next2] = "pipe_in"]
            /\ ctl' = [ctl EXCEPT !.at = "socket"]
    /\ UNCHANGED <<told, link, unread, s, user>>

OpenSocket ==
    /\ ctl.at = "socket"
    /\ IF Free = {}
       THEN s' = -1 /\ UNCHANGED <<file, link>>
       ELSE /\ s' = Lowest
            /\ file' = [file EXCEPT ![Lowest] = "socket"]
            /\ link' \in {"up", "none"}
    /\ ctl' = [ctl EXCEPT !.at = "idle"]
    /\ UNCHANGED <<told, unread, rep, user>>

-----------------------------------------------------------------------------
(* The remote device.                                                      *)

DataArrives ==
    /\ link = "up" /\ ~unread
    /\ unread' = TRUE
    /\ UNCHANGED <<file, told, link, data, ctl, user>>

HangsUp ==
    /\ link = "up"
    /\ link' = "hungup"
    /\ UNCHANGED <<file, told, unread, data, ctl, user>>

-----------------------------------------------------------------------------
(* Read: test s, fill the set, pselect, FD_ISSET, read.  FD_SET of -1 sets *)
(* a bit that pselect does not look at.  After FD_SET and after FD_ISSET   *)
(* the compiler may keep data->s or load it again.                         *)

Returns(result) == user' = [Idle EXCEPT !.got = result]

ReadCalled ==
    /\ user.at = "idle" /\ ~Connecting /\ s # 0
    /\ user' = [Idle EXCEPT !.at = "set"]
    /\ UNCHANGED <<kernel, data, ctl>>

ReadNothing ==
    /\ user.at = "idle" /\ ~Connecting /\ s # 0
    /\ Returns("end")
    /\ UNCHANGED <<kernel, data, ctl>>

FillSet ==
    /\ user.at = "set"
    /\ user' = [user EXCEPT !.at = "select", !.set = {s, rep[1]} \ {-1}, !.fd = s]
    /\ UNCHANGED <<kernel, data, ctl>>

(* nfds is made from data->s, tested and then used, so Close may come      *)
(* between the two.  pselect looks at what is not above nfds, and at       *)
(* nothing when that is 0; EBADF if a descriptor it looks at is closed.    *)
Nfds(tested, used) == IF tested > rep[1] THEN used ELSE rep[1]

SelectBegins ==
    /\ user.at = "select"
    /\ \E tested, used \in {user.fd, s} :
          LET looked == {f \in user.set : f <= Nfds(tested, used)} IN
          IF \E f \in looked : IsFree(f)
          THEN Returns("error")
          ELSE user' = [user EXCEPT !.at = "asleep", !.set = looked, !.fd = -1]
    /\ UNCHANGED <<kernel, data, ctl>>

(* What pselect must report, and what it may: a descriptor closed under    *)
(* it, a socket without a link, a file of somebody else's.                 *)
Readable(f) ==
    \/ file[f] = "pipe" /\ f \in told
    \/ file[f] = "socket" /\ (unread \/ link = "hungup")

MayReport(f) ==
    \/ Readable(f)
    \/ file[f] = "socket" /\ link = "none"
    \/ file[f] \in {"free", "terminal", "hci", "session"}

SelectReturns ==
    /\ user.at = "asleep"
    /\ \E reported \in SUBSET {f \in user.set : MayReport(f)} :
          /\ reported # {}
          /\ {f \in user.set : Readable(f)} \subseteq reported
          /\ user' = [user EXCEPT !.at = "isset", !.set = reported]
    /\ UNCHANGED <<kernel, data, ctl>>

Interrupted ==
    /\ user.at = "asleep"
    /\ Returns("error")
    /\ UNCHANGED <<kernel, data, ctl>>

TestSet ==
    /\ user.at = "isset"
    /\ IF s \in user.set
       THEN user' = [Idle EXCEPT !.at = "read", !.fd = s]
       ELSE Returns("end")
    /\ UNCHANGED <<kernel, data, ctl>>

GoesAstray(f) ==
    /\ ~IsSocket(f) /\ ~IsFree(f)
    /\ user' = [user EXCEPT !.at = "astray", !.fd = f]

FromSocket ==
    \/ unread /\ Returns("data") /\ unread' \in BOOLEAN
    \/ ~unread /\ link = "hungup" /\ Returns("end") /\ UNCHANGED unread
    \/ ~unread /\ link # "hungup" /\ Returns("error") /\ UNCHANGED unread

ReadCalls ==
    /\ user.at = "read"
    /\ \E f \in {user.fd, s} :
          \/ IsSocket(f) /\ FromSocket
          \/ IsFree(f) /\ Returns("error") /\ UNCHANGED unread
          \/ GoesAstray(f) /\ UNCHANGED unread
    /\ UNCHANGED <<file, told, link, data, ctl>>

-----------------------------------------------------------------------------
(* Write: test s, write.  A socket takes all the bytes or fewer.           *)

WriteCalled ==
    /\ user.at = "idle" /\ ~Connecting /\ s # 0
    /\ user' = [Idle EXCEPT !.at = "write", !.fd = s]
    /\ UNCHANGED <<kernel, data, ctl>>

WriteCalls ==
    /\ user.at = "write"
    /\ \E f \in {user.fd, s} :
          \/ IsSocket(f) /\ link = "up" /\ Returns("written")
          \/ (IsSocket(f) \/ IsFree(f)) /\ Returns("error")
          \/ GoesAstray(f)
    /\ UNCHANGED <<kernel, data, ctl>>

(* A call on somebody else's file ends when that file lets it.             *)
ComesBack ==
    /\ user.at = "astray"
    /\ \E result \in {"data", "end", "written", "error"} : Returns(result)
    /\ UNCHANGED <<kernel, data, ctl>>

-----------------------------------------------------------------------------
Controller == CloseSocket \/ TellReader \/ ForgetSocket \/ OpenPipe \/ OpenSocket

User == FillSet \/ SelectBegins \/ TestSet \/ ReadCalls \/ WriteCalls

BindingNext ==
    \/ CloseCalled \/ ConnectCalled \/ ReadCalled \/ ReadNothing \/ WriteCalled
    \/ Controller \/ User \/ SelectReturns \/ Interrupted \/ ComesBack
    \/ DataArrives \/ HangsUp

=============================================================================
