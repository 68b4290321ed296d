---------------------------- MODULE LinuxProgram ----------------------------
(***************************************************************************)
(* A program on Linux: the binding, and DeviceINQ of                       *)
(* src/linux/DeviceINQ.cc called by the controller between its other calls *)
(* and from the same descriptors.  The user may still be in Read or Write. *)
(***************************************************************************)
EXTENDS LinuxBinding, LinuxInquiry, DeviceClasses

CONSTANTS
    Seen,       \* what hci_inquiry returns: sequences of dev_class bytes
    Responses,  \* what the SDP server answers
    MaxLength   \* of any sequence in a response

ASSUME SeenAssumption == Seen \subseteq Seq(Byte \X Byte \X Byte)

ASSUME ResponsesAssumption ==
    /\ MaxLength \in Nat
    /\ \A response \in Responses :
          /\ response \in Seq(ServiceRecord) /\ Len(response) <= MaxLength
          /\ \A r \in DOMAIN response :
                LET protos == response[r].protos IN
                /\ Len(protos) <= MaxLength
                /\ \A i \in DOMAIN protos :
                      /\ Len(protos[i]) <= MaxLength
                      /\ \A j \in DOMAIN protos[i] : Len(protos[i][j]) <= MaxLength

VARIABLE job    \* the call of DeviceINQ: its descriptor, input and answer

NoJob == [call |-> "none", fd |-> -1, input |-> <<>>, answer |-> <<>>]

programVars == <<vars, job>>

ProgramInit == Init /\ job = NoJob

-----------------------------------------------------------------------------
Opens(kind, at, input) ==
    /\ ctl.at = "idle" /\ Free # {}
    /\ file' = [file EXCEPT ![Lowest] = kind]
    /\ job' = [call |-> at, fd |-> Lowest, input |-> input, answer |-> <<>>]
    /\ ctl' = [ctl EXCEPT !.at = at]
    /\ UNCHANGED <<told, link, unread, data, user>>

Answers(answer, closes) ==
    /\ file' = IF closes THEN [file EXCEPT ![job.fd] = "free"] ELSE file
    /\ job' = [job EXCEPT !.answer = answer]
    /\ ctl' = [ctl EXCEPT !.at = "answered"]
    /\ UNCHANGED <<told, link, unread, data, user>>

(* Inquire: without a device or a descriptor it throws and nothing changed. *)
InquireCalled == \E seen \in Seen : Opens("hci", "inquiring", seen)

InquireReturns ==
    /\ ctl.at = "inquiring"
    /\ Answers([i \in DOMAIN job.input |-> Decoded(ClassOfDevice(job.input[i]))], TRUE)

(* SdpSearch: the session is left open when a channel is found.            *)
SdpSearchCalled == \E response \in Responses : Opens("session", "searching", response)

SdpSearchReturns ==
    /\ ctl.at = "searching"
    /\ LET answer == Walk(job.input) IN Answers(answer, ~answer.found)

AnswerUsed ==
    /\ ctl.at = "answered"
    /\ job' = NoJob
    /\ ctl' = [ctl EXCEPT !.at = "idle"]
    /\ UNCHANGED <<kernel, data, user>>

-----------------------------------------------------------------------------
Discovery ==
    InquireCalled \/ InquireReturns \/ SdpSearchCalled \/ SdpSearchReturns \/ AnswerUsed

Next == Discovery \/ (BindingNext /\ UNCHANGED job)

Spec == ProgramInit /\ [][Next]_programVars

(* Calls that were begun go on; pselect returns when it has something to   *)
(* report.  A call that went astray may stay there.                        *)
FairSpec ==
    /\ Spec
    /\ WF_programVars(Controller /\ UNCHANGED job)
    /\ WF_programVars(User /\ UNCHANGED job)
    /\ WF_programVars((\E f \in user.set : Readable(f)) /\ SelectReturns /\ UNCHANGED job)

-----------------------------------------------------------------------------
TypeOK ==
    /\ file \in [Fds -> Kinds]
    /\ told \subseteq Fds
    /\ link \in {"none", "up", "hungup"} /\ unread \in BOOLEAN
    /\ s \in Fds \cup {-1}
    /\ \A i \in 1..2 : rep[i] \in Fds \cup {-1}
    /\ user.set \subseteq Fds /\ user.fd \in Fds \cup {-1}
    /\ link # "none" => IsSocket(s)

Closed == s = 0 \/ ctl.at \in {"tell", "forget"}

(* "when no data is read from rfcomm the connection has been closed"       *)
(* (BTSerialPortBinding.cc:126): a Read that waited in pselect returns 0   *)
(* only if Close was called or the device hung up, whatever an earlier     *)
(* connection left in a pipe.  A Read of no bytes (line 111) returns 0 at  *)
(* any time, and one that went astray returns what that file says.         *)
EndMeansClosed ==
    [][user.at \in {"isset", "read"} /\ user'.got = "end"
          => Closed \/ link = "hungup"]_programVars

(* The end of a connection reaches a call in progress, wherever Close      *)
(* overtakes it - unless the call went astray on somebody else's file, or  *)
(* Close came between the two loads of data->s in line 119: pselect then   *)
(* looks at neither the socket nor the pipe.                               *)
Deaf == user.at = "asleep" /\ user.set = {}

EndReachesUser ==
    user.at # "idle" /\ (Closed \/ link = "hungup")
        ~> user.at \in {"idle", "astray"} \/ Deaf

(* Close closes the binding's own socket, if it has one, and never a       *)
(* number that was given back and may be another file by now.              *)
ClosesOwn == ctl.at = "close" => s = -1 \/ IsSocket(s)

(* Neither a failed Connect nor a second one nor an inquiry that threw     *)
(* leaves a socket behind.                                                 *)
NothingLeftOpen ==
    \A f \in Fds :
        /\ file[f] = "socket" => s = f
        /\ file[f] = "hci" => ctl.at = "inquiring" /\ job.fd = f

(* SdpSearch returns the first 8-bit number that follows an RFCOMM UUID in *)
(* the same protocol list: a number after another list's UUID is not a     *)
(* channel.                                                                *)
FindsChannel ==
    ctl.at = "answered" /\ job.call = "searching"
        => job.answer = ChannelOf(job.input, MaxLength)

(* Inquire takes minor class, major class and services from their own bits *)
(* of the three bytes, and where a class has a name so has its major class. *)
DecodesClass ==
    ctl.at = "answered" /\ job.call = "inquiring" =>
        \A i \in DOMAIN job.input :
            LET p == job.input[i]
                d == job.answer[i]
            IN  /\ d.deviceClass = d.majorDeviceClass + 4 * (p[1] \div 4)
                /\ d.majorDeviceClass = 256 * (p[2] % 32)
                /\ d.serviceClass = p[2] \div 32 + 8 * p[3]
                /\ HasName(d.deviceClass) => HasName(d.majorDeviceClass)
                /\ ServiceNames(d.serviceClass) = {} => p[2] \div 32 % 2 = 0 /\ p[3] = 0

(* "Reads data from the device" (README.md:120), "Writes data to the       *)
(* device" (README.md:127): Read and Write use the binding's own socket.   *)
NeverAstray == user.at # "astray"

=============================================================================
