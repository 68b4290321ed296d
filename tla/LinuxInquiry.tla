---------------------------- MODULE LinuxInquiry ----------------------------
(***************************************************************************)
(* The walk of DeviceINQ::SdpSearch, src/linux/DeviceINQ.cc, over the      *)
(* service records of a device.  A response is a sequence of records; a    *)
(* record has its access protocols (or sdp_get_access_protos fails), a     *)
(* sequence of protocol sequences, each a sequence of lists of elements.   *)
(* An element is a UUID, an 8-bit number or something else.                *)
(***************************************************************************)
EXTENDS Integers, Sequences, SequencesExt

Element == [dtd : STRING, val : Int]

ServiceRecord == [ok : BOOLEAN, protos : Seq(Seq(Seq(Element)))]

RFCOMM_UUID == 3

NotFound == [found |-> FALSE, channel |-> -1]

Int8(n) == IF n < 128 THEN n ELSE n - 256

(* The switch over d->dtd; once a channel is found nothing is looked at.   *)
AtElement(acc, d) ==
    IF acc.answer.found THEN acc
    ELSE IF d.dtd = "uuid" THEN [acc EXCEPT !.proto = d.val]
    ELSE IF d.dtd = "uint8" /\ acc.proto = RFCOMM_UUID
         THEN [acc EXCEPT !.answer = [found |-> TRUE, channel |-> Int8(d.val)]]
    ELSE acc

InList(answer, list) ==
    FoldLeft(AtElement, [answer |-> answer, proto |-> 0], list).answer

InSequence(answer, lists) == FoldLeft(InList, answer, lists)

InRecord(answer, record) ==
    IF record.ok THEN FoldLeft(InSequence, answer, record.protos) ELSE answer

(* Faulty variant: proto is not reset for each list.                       *)
WalkAcrossLists(response) ==
    LET Lists(record) == IF record.ok THEN FlattenSeq(record.protos) ELSE <<>>
        all == FlattenSeq([r \in DOMAIN response |-> FlattenSeq(Lists(response[r]))])
    IN  InList(NotFound, all)

Walk(response) == FoldLeft(InRecord, NotFound, response)

-----------------------------------------------------------------------------
(* What the walk looks for: the places of 8-bit numbers whose last UUID    *)
(* before them in their own list is RFCOMM, and the first such place.      *)
IsPlace(response, at) ==
    /\ at[1] \in DOMAIN response /\ response[at[1]].ok
    /\ at[2] \in DOMAIN response[at[1]].protos
    /\ at[3] \in DOMAIN response[at[1]].protos[at[2]]
    /\ LET list == response[at[1]].protos[at[2]][at[3]] IN
       /\ at[4] \in DOMAIN list /\ list[at[4]].dtd = "uint8"
       /\ \E i \in 1..at[4] - 1 :
             /\ list[i] = [dtd |-> "uuid", val |-> RFCOMM_UUID]
             /\ \A j \in i + 1..at[4] - 1 : list[j].dtd # "uuid"

Before(a, b) == \E k \in 1..4 : a[k] < b[k] /\ \A j \in 1..k - 1 : a[j] = b[j]

ChannelOf(response, maxLength) ==
    LET n      == 1..maxLength
        places == {at \in n \X n \X n \X n : IsPlace(response, at)}
    IN  IF places = {} THEN NotFound
        ELSE LET at == CHOOSE a \in places : \A b \in places \ {a} : Before(a, b)
             IN  [found |-> TRUE,
                  channel |-> Int8(response[at[1]].protos[at[2]][at[3]][at[4]].val)]

=============================================================================
