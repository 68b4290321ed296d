------------------------------ MODULE FifoPipe ------------------------------
(***************************************************************************)
(* What pipe.h promises of a pipe, with no buffer, lock or thread in       *)
(* sight: bytes leave in the order they came in, each exactly once, a      *)
(* producer's bytes in the order it pushed them, never more than `Bound'   *)
(* of them inside, and once a consumer has been told that the pipe ended   *)
(* nothing comes in any more.  Pipe.tla is shown to implement it.          *)
(***************************************************************************)
EXTENDS Integers, Sequences

CONSTANTS
    Producers,
    MaxBytes,      \* how many bytes a producer pushes at most
    Bound          \* how many bytes the pipe holds at most

VARIABLES
    sent,          \* how many of its bytes each producer has put in
    queue,         \* the bytes inside, oldest first
    received,      \* the bytes taken out so far, by any consumer
    ended          \* a consumer was told that no more bytes come

vars == <<sent, queue, received, ended>>

Init ==
    /\ sent = [p \in Producers |-> 0]
    /\ queue = <<>>
    /\ received = <<>>
    /\ ended = FALSE

Put(p) ==
    /\ ~ended
    /\ \E n \in 1..(MaxBytes - sent[p]) :
        /\ Len(queue) + n <= Bound
        /\ queue' = queue \o [i \in 1..n |-> <<p, sent[p] + i>>]
        /\ sent' = [sent EXCEPT ![p] = @ + n]
    /\ UNCHANGED <<received, ended>>

Take ==
    /\ \E n \in 1..Len(queue) :
        /\ received' = received \o SubSeq(queue, 1, n)
        /\ queue' = SubSeq(queue, n + 1, Len(queue))
    /\ UNCHANGED <<sent, ended>>

End ==
    /\ queue = <<>>
    /\ ended' = TRUE
    /\ UNCHANGED <<sent, queue, received>>

Next == (\E p \in Producers : Put(p)) \/ Take \/ End

Spec == Init /\ [][Next]_vars
=============================================================================
