--------------------------- MODULE MCLinuxProgram ---------------------------
(* LinuxProgram for TLC: what devices answer.                              *)
EXTENDS LinuxProgram, TLC

(* A phone, a smart phone, a toy figure, an unknown class; services in     *)
(* both bytes.                                                             *)
SomeSeen == {<<>>, <<<<12, 66, 90>>, <<14, 8, 0>>>>, <<<<255, 255, 255>>>>}

Rfcomm    == [dtd |-> "uuid", val |-> RFCOMM_UUID]
L2cap     == [dtd |-> "uuid", val |-> 256]
Psm       == [dtd |-> "uint16", val |-> 3]
Number(n) == [dtd |-> "uint8", val |-> n]

(* Every list of up to three elements stands alone; pairs and records come *)
(* from lists a walk may trip over: a number without its UUID, a number of *)
(* another protocol, a UUID alone.                                         *)
AnyList  == UNION {[1..n -> {Rfcomm, L2cap, Psm, Number(2)}] : n \in 0..3}
SomeList == {<<L2cap, Psm>>, <<Rfcomm, Number(2)>>, <<Number(1)>>,
             <<Rfcomm, L2cap, Number(3)>>, <<Rfcomm>>, <<Rfcomm, Psm, Number(200)>>}

Record(protos) == [ok |-> TRUE, protos |-> protos]
NoAccessProtos == [ok |-> FALSE, protos |-> <<<<<<Rfcomm, Number(9)>>>>>>]

SomeResponses ==
    {<<>>} \cup {<<Record(<<<<list>>>>)>> : list \in AnyList}
           \cup {<<Record(<<<<a, b>>>>)>> : a, b \in SomeList}
           \cup {<<NoAccessProtos, Record(<<<<a>>, <<b>>>>)>> : a, b \in SomeList}
           \cup {<<Record(<<<<a>>>>), Record(<<<<b>>>>)>> : a, b \in SomeList}
=============================================================================
