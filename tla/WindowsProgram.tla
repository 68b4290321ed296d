--------------------------- MODULE WindowsProgram ---------------------------
(***************************************************************************)
(* A program on Windows: the objects of WindowsBinding, and the look-ups   *)
(* of DeviceINQ, src/windows/DeviceINQ.cc.  Inquire and SdpSearch share    *)
(* one loop: WSALookupServiceNext gives an item, asks for a larger buffer, *)
(* is at the end, or fails.                                                *)
(***************************************************************************)
EXTENDS WindowsBinding, Sequences

CONSTANTS
    ItemLists,      \* sequences of items that look-ups may find
    FirstSize       \* sizeof(WSAQUERYSET)

(* Its name, the buffer it needs, and whether its address can be printed.  *)
Item == [id : STRING, size : Nat, text : BOOLEAN]

ASSUME ItemsAssumption ==
    FirstSize \in Nat /\ ItemLists \subseteq Seq(Item)

VARIABLES
    look,       \* each DeviceINQ: its call
    lookups     \* look-ups begun and not ended

vars == <<bindingVars, look, lookups>>

-----------------------------------------------------------------------------
NoLook == [at |-> "none", call |-> "none", all |-> <<>>, left |-> <<>>,
           size |-> 0, got |-> <<>>, cut |-> FALSE]

ProgramInit ==
    /\ Init
    /\ look = [i \in Inquiries |-> NoLook]
    /\ lookups = 0

(* A WSALookupServiceBegin that fails changes nothing.                     *)
Begin(i, call, items) ==
    /\ object[i] = "live" /\ look[i].at = "none"
    /\ look' = [look EXCEPT ![i] = [NoLook EXCEPT !.at = "next", !.call = call,
                                       !.all = items, !.left = items, !.size = FirstSize]]
    /\ lookups' = lookups + 1
    /\ UNCHANGED bindingVars

Ends(i, update) ==
    /\ look' = [look EXCEPT ![i] = update]
    /\ lookups' = lookups - 1
    /\ UNCHANGED bindingVars

Fits(i)     == look[i].left # <<>> /\ Head(look[i].left).size <= look[i].size
TooSmall(i) == look[i].left # <<>> /\ Head(look[i].left).size > look[i].size

NextDevice(i) ==
    /\ look[i].at = "next" /\ look[i].call = "inquire" /\ Fits(i)
    /\ LET item == Head(look[i].left) IN
       look' = [look EXCEPT ![i].left = Tail(@),
                            ![i].got = IF item.text THEN Append(@, item.id) ELSE @]
    /\ UNCHANGED <<bindingVars, lookups>>

NextChannel(i) ==
    /\ look[i].at = "next" /\ look[i].call = "sdp" /\ Fits(i)
    /\ Ends(i, [look[i] EXCEPT !.at = "done", !.got = <<Head(look[i].left).id>>])

(* Faulty variants: the item that did not fit is passed over; the buffer   *)
(* is made anew at its old size.                                           *)
GrowSkipping(i) ==
    /\ look[i].at = "next" /\ TooSmall(i)
    /\ look' = [look EXCEPT ![i].size = Head(look[i].left).size, ![i].left = Tail(@)]
    /\ UNCHANGED <<bindingVars, lookups>>

GrowToSameSize(i) ==
    /\ look[i].at = "next" /\ TooSmall(i)
    /\ UNCHANGED vars

Grow(i) ==
    /\ look[i].at = "next" /\ TooSmall(i)
    /\ look' = [look EXCEPT ![i].size = Head(look[i].left).size]
    /\ UNCHANGED <<bindingVars, lookups>>

(* Faulty variant: out of memory, Inquire throws with the look-up begun.   *)
OutOfMemoryInside(i) ==
    /\ look[i].at = "next" /\ TooSmall(i)
    /\ look' = [look EXCEPT ![i] = NoLook]
    /\ UNCHANGED <<bindingVars, lookups>>

OutOfMemory(i) ==
    /\ look[i].at = "next" /\ TooSmall(i)
    /\ Ends(i, NoLook)

NoMore(i) ==
    /\ look[i].at = "next" /\ look[i].left = <<>>
    /\ Ends(i, [look[i] EXCEPT !.at = "done"])

(* Any other error ends the loop as if there were no more.                 *)
OtherError(i) ==
    /\ look[i].at = "next"
    /\ Ends(i, [look[i] EXCEPT !.at = "done", !.cut = TRUE])

Returned(i) ==
    /\ look[i].at = "done"
    /\ look' = [look EXCEPT ![i] = NoLook]
    /\ UNCHANGED <<bindingVars, lookups>>

DestroyInquiry(i) ==
    /\ look[i].at = "none"
    /\ Destroy(i)
    /\ UNCHANGED <<look, lookups>>

-----------------------------------------------------------------------------
Loop(i) == NextDevice(i) \/ NextChannel(i) \/ Grow(i) \/ NoMore(i)

Next ==
    \/ /\ \/ \E o \in Objects : Constructors(o)
          \/ \E b \in Bindings : Destroy(b) \/ SocketCalls(b)
       /\ UNCHANGED <<look, lookups>>
    \/ \E i \in Inquiries :
          \/ \E call \in {"inquire", "sdp"}, items \in ItemLists : Begin(i, call, items)
          \/ Loop(i) \/ OutOfMemory(i) \/ OtherError(i)
          \/ Returned(i) \/ DestroyInquiry(i)

Spec == ProgramInit /\ [][Next]_vars

(* A look-up that was begun goes on.                                       *)
FairSpec == Spec /\ \A i \in Inquiries : WF_vars(Loop(i))

-----------------------------------------------------------------------------
TypeOK ==
    /\ started \in Nat
    /\ object \in [Objects -> {"none", "starting", "live"}]
    /\ handle \in [Handles -> Bindings \cup {Invalid}]
    /\ s \in [Bindings -> Handles \cup {Invalid}]
    /\ failed \subseteq Bindings
    /\ look \in [Inquiries -> [at : {"none", "next", "done"},
                               call : {"none", "inquire", "sdp"},
                               all : Seq(Item), left : Seq(Item), size : Nat,
                               got : Seq(STRING), cut : BOOLEAN]]
    /\ lookups \in Nat
    /\ \A i \in Inquiries : look[i].at # "none" => object[i] = "live"

(* Every look-up begun is ended, on each way the loop is left in the code  *)
(* itself, a failed malloc included (DeviceINQ.cc:199-220).  A             *)
(* std::bad_alloc out of the strings and lists of its body, which would    *)
(* leave without WSALookupServiceEnd, is not modelled.                     *)
LookupsEnded == lookups = Cardinality({i \in Inquiries : look[i].at = "next"})

(* `got' names the items at `places' of `all', each once and in order.     *)
InOrder(got, all, places) ==
    \E at \in [DOMAIN got -> places] :
        /\ \A k \in DOMAIN got : got[k] = all[at[k]].id
        /\ \A j, k \in DOMAIN got : j < k => at[j] < at[k]
        /\ \A place \in places : \E k \in DOMAIN got : at[k] = place

(* Inquire returns every device whose address it could print, in the order *)
(* found, however often the buffer had to grow; SdpSearch returns the      *)
(* first service's port, and none only when there is none.  Look-ups that  *)
(* another error cut short are left out.                                   *)
NothingSkipped ==
    \A i \in Inquiries :
        look[i].at = "done" /\ ~look[i].cut =>
            LET all == look[i].all
            IN  InOrder(look[i].got, all,
                        {k \in DOMAIN all : IF look[i].call = "inquire" THEN all[k].text
                                                                        ELSE k = 1})

(* The loop ends: a buffer that was too small is not too small again for   *)
(* the same item.                                                          *)
LookupsEnd ==
    \A i \in Inquiries : look[i].at = "next" ~> look[i].at # "next"

=============================================================================
