------------------------------ MODULE PipeRing ------------------------------
(***************************************************************************)
(* The pointer arithmetic of src/osx/pipe.c: a circular buffer of bytes    *)
(* whose first element after `begin' is the oldest one, the element at     *)
(* `begin' itself being a sentinel that holds nothing.                     *)
(*                                                                         *)
(* Pointers are offsets from p->buffer, so p->buffer is 0; a snapshot_t is *)
(* a record [bufend, begin, end].  All sizes are in bytes, as in pipe.c.   *)
(***************************************************************************)
EXTENDS Integers

CONSTANTS
    ElemSize,      \* p->elem_size, bytes per element
    Powers,        \* the powers of two that fit in a size_t...
    TopBit         \* ...and the greatest of them

ASSUME ElemSizeAssumption == ElemSize \in Nat \ {0}

ASSUME PowersAssumption ==
    /\ TopBit \in Nat /\ Powers \subseteq 1..TopBit
    /\ 1 \in Powers /\ TopBit \in Powers
    /\ \A m \in Powers \ {TopBit} : 2 * m \in Powers
    /\ \A m \in Powers \ {1} : \E k \in Powers : m = 2 * k

(* ~(size_t)0 *)
SizeMax == 2 * TopBit - 1

Least(a, b) == IF a <= b THEN a ELSE b

Greatest(a, b) == IF a >= b THEN a ELSE b

-----------------------------------------------------------------------------
(* What a snapshot says.                                                   *)

Capacity(s) == s.bufend - ElemSize

(* Faulty variant: a full buffer is not told from an empty one.            *)
WrapsAroundStrict(s) == s.begin > s.end

WrapsAround(s) == s.begin >= s.end

BytesInUse(s) ==
    (IF WrapsAround(s) THEN s.end + (s.bufend - s.begin)
                       ELSE s.end - s.begin) - ElemSize

(* The k-th byte from the sentinel on, however the buffer wraps.           *)
Around(s, k) ==
    IF s.begin + k >= s.bufend THEN s.begin + k - s.bufend ELSE s.begin + k

WrapPtr(s, ptr) == IF ptr = s.bufend THEN 0 ELSE ptr

-----------------------------------------------------------------------------
(* process_push: where the i-th byte copied in (from 0) goes, which byte   *)
(* goes to a cell, and the new end.  Only a buffer that does not wrap yet  *)
(* is filled in two pieces.                                                *)

(* Faulty variant: every copy is made in one piece.                        *)
PushCellStraight(s, i) == s.end + i

PushCell(s, i) ==
    IF ~WrapsAround(s) /\ s.end + i >= s.bufend
    THEN s.end + i - s.bufend
    ELSE s.end + i

(* Faulty variant: the second piece starts from the first byte again.      *)
PushIndexRestarts(s, cell) ==
    IF cell >= s.end THEN cell - s.end ELSE cell

PushIndex(s, cell) ==
    IF cell >= s.end THEN cell - s.end ELSE cell - s.end + s.bufend

PushEnd(s, n) ==
    WrapPtr(s, IF ~WrapsAround(s) /\ s.end + n > s.bufend
               THEN s.end + n - s.bufend
               ELSE s.end + n)

(* pop_without_locking: what is left of the sentinel's right is copied     *)
(* first; if more is wanted it comes from the start of the buffer.  The    *)
(* size_t subtraction never goes below 0 while `begin' is an element's     *)
(* start.                                                                  *)

AtRight(s) == s.bufend - s.begin - ElemSize

PopCell(s, i) ==
    IF i < AtRight(s) THEN s.begin + ElemSize + i ELSE i - AtRight(s)

PopBegin(s, n) ==
    WrapPtr(s, IF n <= AtRight(s)
               THEN s.begin + n
               ELSE n - AtRight(s) - ElemSize)

-----------------------------------------------------------------------------
(* copy_pipe_into_new_buf: where the j-th byte of the new buffer, counted  *)
(* from the sentinel, was in the old one.                                  *)

(* Faulty variant: a buffer that wraps is copied as one that does not.     *)
OldCellStraight(s, j) == s.begin + j

OldCell(s, j) ==
    IF WrapsAround(s) /\ s.begin + j >= s.bufend
    THEN s.begin + j - s.bufend
    ELSE s.begin + j

(* The snapshot after resize_buffer has moved the bytes to a new buffer.   *)

Moved(s, size) ==
    [begin |-> 0, end |-> BytesInUse(s) + ElemSize, bufend |-> size + ElemSize]

-----------------------------------------------------------------------------
(* next_pow2: sizes whose top bit is set are returned as they are.         *)

(* Faulty variant: a power of two is rounded up to the next one.           *)
NextPow2Strict(n) ==
    IF n >= TopBit
    THEN n
    ELSE CHOOSE m \in Powers : /\ m > n
                               /\ \A k \in Powers : k > n => m <= k

NextPow2(n) ==
    IF n >= TopBit
    THEN n
    ELSE CHOOSE m \in Powers : /\ m >= n
                               /\ \A k \in Powers : k >= n => m <= k
=============================================================================
