--------------------------- MODULE PipeRingProofs ---------------------------
(***************************************************************************)
(* The ring buffer, for a pipe whose elements have a power of two of       *)
(* bytes, on which nobody calls pipe_reserve: BTSerialPortBinding's, which *)
(* calls pipe_new(sizeof(unsigned char), 0), is one.  Pushes, pops,        *)
(* growing and trimming overlap as Pipe lets them; the threads, the sizes  *)
(* and the limit are any.                                                  *)
(***************************************************************************)
EXTENDS PipeProofs

(* next_pow2 returns what it is given when the top bit of size_t is set,   *)
(* and half of that, or ~(size_t)0, is no whole number of elements.  So    *)
(* for larger elements either the limit is below the top bit or no push    *)
(* ever needs as much.                                                     *)
AlignedPipe ==
    /\ ElemSize \in Powers /\ ReserveSizes = {}
    /\ \/ ElemSize = 1
       \/ Limit > 0 /\ Greatest(Limit * ElemSize, MinCap * ElemSize) <= TopBit
       \/ Cardinality(Producers) * MaxBytes + MaxBytes * ElemSize <= TopBit

-----------------------------------------------------------------------------
(* Whole numbers of elements, in bytes.                                    *)

Whole == {ElemSize * k : k \in Int}

LEMMA WholeNumbers ==
    /\ ElemSize \in Nat \ {0} /\ Whole \subseteq Int
    /\ 0 \in Whole /\ ElemSize \in Whole
    /\ \A x, y \in Whole : x + y \in Whole /\ x - y \in Whole
    /\ \A x \in Whole : x > 0 => x >= ElemSize
<1>1. ElemSize \in Nat \ {0}
  BY ElemSizeAssumption
<1>2. Whole \subseteq Int
  BY <1>1 DEF Whole
<1>3. 0 \in Whole /\ ElemSize \in Whole
  <2>1. 0 = ElemSize * 0 /\ ElemSize = ElemSize * 1
    BY <1>1
  <2>2. ElemSize * 0 \in Whole /\ ElemSize * 1 \in Whole
    BY DEF Whole
  <2> QED BY <2>1, <2>2
<1>4. ASSUME NEW x \in Whole, NEW y \in Whole
      PROVE  x + y \in Whole /\ x - y \in Whole
  <2>1. PICK k \in Int, l \in Int : x = ElemSize * k /\ y = ElemSize * l
    BY DEF Whole
  <2>2. x + y = ElemSize * (k + l) /\ x - y = ElemSize * (k - l)
    BY <1>1, <2>1
  <2> QED BY <2>2 DEF Whole
<1>5. ASSUME NEW x \in Whole, x > 0
      PROVE  x >= ElemSize
  <2>1. PICK k \in Int : x = ElemSize * k
    BY DEF Whole
  <2>2. k >= 1
    BY <1>1, <1>5, <2>1
  <2> QED BY <1>1, <2>1, <2>2
<1> QED BY <1>1, <1>2, <1>3, <1>4, <1>5

(* A set of numbers that has every number all smaller ones of which it     *)
(* has, has them all.                                                      *)
LEMMA AllNumbers ==
    ASSUME NEW S,
           \A n \in Nat : (\A m \in 0..(n - 1) : m \in S) => n \in S
    PROVE  Nat \subseteq S
<1> DEFINE Bad == {n \in Nat : n \notin S}
<1>1. SUFFICES ASSUME Bad # {} PROVE FALSE
  OBVIOUS
<1>2. PICK n \in Bad : \A m \in Bad : ~(<<m, n>> \in OpToRel(<, Nat))
  BY <1>1, NatLessThanWellFounded, WFMin
<1>3. ASSUME NEW m \in 0..(n - 1), m \notin S
      PROVE  FALSE
  <2>1. m \in Bad /\ m \in Nat /\ n \in Nat /\ m < n
    BY <1>3
  <2>2. <<m, n>> \in OpToRel(<, Nat)
    BY <2>1 DEF OpToRel
  <2> QED BY <1>2, <2>1, <2>2
<1> QED BY <1>2, <1>3

(* There is no power of two between one and its double.                    *)
LEMMA PowersApart ==
    \A a, b \in Powers : a < b => 2 * a <= b
<1> DEFINE S == {n \in Nat : \A a, b \in Powers : b = n /\ a < b => 2 * a <= b}
<1>1. ASSUME NEW n \in Nat, \A m \in 0..(n - 1) : m \in S
      PROVE  n \in S
  <2> SUFFICES ASSUME NEW a \in Powers, NEW b \in Powers, b = n, a < b
               PROVE  2 * a <= b
    OBVIOUS
  <2>1. a \in Nat /\ b \in Nat /\ a >= 1 /\ b >= 1
    BY PowersAssumption
  <2>2. PICK k \in Powers : b = 2 * k
    <3>1. b \in Powers \ {1}
      BY <2>1
    <3> QED BY <3>1, PowersAssumption
  <2>3. k \in Nat /\ k >= 1
    BY PowersAssumption
  <2>4. CASE a = 1
    BY <2>2, <2>3, <2>4
  <2>5. CASE a # 1
    <3>1. PICK j \in Powers : a = 2 * j
      BY <2>5, PowersAssumption
    <3>2. j \in Nat /\ j < k
      BY <2>1, <2>2, <2>3, <3>1, PowersType
    <3>3. k \in S
      BY <1>1, <2>2, <2>3
    <3>4. 2 * j <= k
      BY <3>2, <3>3
    <3> QED BY <2>2, <2>3, <3>1, <3>2, <3>4
  <2> QED BY <2>4, <2>5
<1>2. Nat \subseteq S
  <2> HIDE DEF S
  <2> QED BY <1>1, AllNumbers
<1> QED BY <1>2, PowersType

(* A power of two that is no less than an element is a whole number of     *)
(* them.                                                                   *)
LEMMA PowersAreWhole ==
    ASSUME AlignedPipe
    PROVE  \A m \in Powers : m >= ElemSize => m \in Whole
<1> DEFINE S == {n \in Nat : n \in Powers /\ n >= ElemSize => n \in Whole}
<1>1. ASSUME NEW n \in Nat, \A m \in 0..(n - 1) : m \in S
      PROVE  n \in S
  <2> SUFFICES ASSUME n \in Powers, n >= ElemSize PROVE n \in Whole
    OBVIOUS
  <2>1. CASE n = ElemSize
    BY <2>1, WholeNumbers
  <2>2. CASE n # ElemSize
    <3>1. ElemSize \in Nat \ {0} /\ ElemSize \in Powers /\ n > ElemSize
      BY <2>2, WholeNumbers DEF AlignedPipe
    <3>2. PICK k \in Powers : n = 2 * k
      <4>1. n # 1
        BY <3>1
      <4> QED BY <4>1, PowersAssumption
    <3>3. k \in Nat /\ k < n
      BY <3>1, <3>2, PowersType
    <3>4. k >= ElemSize
      <4>1. 2 * ElemSize <= n
        BY <3>1, PowersApart
      <4> QED BY <3>1, <3>2, <3>3, <4>1
    <3>5. k \in Whole
      BY <1>1, <3>3, <3>4
    <3>6. n = k + k
      BY <3>2, <3>3
    <3> QED BY <3>5, <3>6, WholeNumbers
  <2> QED BY <2>1, <2>2
<1>2. Nat \subseteq S
  <2> HIDE DEF S
  <2> QED BY <1>1, AllNumbers
<1> QED BY <1>2, PowersType

-----------------------------------------------------------------------------
(* The arithmetic of a snapshot whose pointers are inside the buffer, at   *)
(* starts of elements.                                                     *)

Fits(s) ==
    /\ s.bufend \in Nat
    /\ s.begin \in 0..(s.bufend - 1) /\ s.end \in 0..(s.bufend - 1)
    /\ s.bufend \in Whole /\ s.begin \in Whole /\ s.end \in Whole

LEMMA FitsApart ==
    ASSUME NEW s, Fits(s)
    PROVE  /\ ElemSize \in Nat \ {0} /\ s.bufend \in Nat
           /\ s.begin \in Nat /\ s.end \in Nat
           /\ s.begin + ElemSize <= s.bufend /\ s.end + ElemSize <= s.bufend
           /\ s.begin < s.end => s.begin + ElemSize <= s.end
           /\ s.end < s.begin => s.end + ElemSize <= s.begin
<1>0. ElemSize \in Nat \ {0}
  BY ElemSizeAssumption
<1>1. /\ s.bufend \in Nat /\ s.begin \in Nat /\ s.end \in Nat
      /\ s.begin < s.bufend /\ s.end < s.bufend
  BY DEF Fits
<1>2. /\ s.bufend - s.begin \in Whole /\ s.bufend - s.end \in Whole
      /\ s.end - s.begin \in Whole /\ s.begin - s.end \in Whole
  BY WholeNumbers DEF Fits
<1>3. \A x \in Whole : x > 0 => x >= ElemSize
  BY WholeNumbers
<1>4. /\ s.bufend - s.begin >= ElemSize /\ s.bufend - s.end >= ElemSize
  BY <1>1, <1>2, <1>3
<1>5. s.begin < s.end => s.end - s.begin >= ElemSize
  BY <1>1, <1>2, <1>3
<1>6. s.end < s.begin => s.begin - s.end >= ElemSize
  BY <1>1, <1>2, <1>3
<1> QED BY <1>0, <1>1, <1>4, <1>5, <1>6

(* The bytes in use fit beside the sentinel.                               *)
LEMMA UseFits ==
    ASSUME NEW s, Fits(s)
    PROVE  /\ s.bufend \in Nat /\ s.begin \in Nat /\ s.end \in Nat
           /\ Capacity(s) = s.bufend - ElemSize
           /\ BytesInUse(s) = IF s.begin >= s.end
                              THEN s.end + (s.bufend - s.begin) - ElemSize
                              ELSE s.end - s.begin - ElemSize
           /\ BytesInUse(s) \in 0..Capacity(s)
           /\ Capacity(s) \in Nat /\ BytesInUse(s) \in Nat
           /\ Capacity(s) \in Whole /\ BytesInUse(s) \in Whole
<1>1. /\ s.bufend \in Nat /\ s.begin \in Nat /\ s.end \in Nat
      /\ Capacity(s) = s.bufend - ElemSize
      /\ BytesInUse(s) = IF s.begin >= s.end
                         THEN s.end + (s.bufend - s.begin) - ElemSize
                         ELSE s.end - s.begin - ElemSize
      /\ BytesInUse(s) \in 0..Capacity(s)
      /\ Capacity(s) \in Nat /\ BytesInUse(s) \in Nat
  BY FitsApart DEF BytesInUse, WrapsAround, Capacity
<1>2. Capacity(s) \in Whole
  BY <1>1, WholeNumbers DEF Fits
<1>3. /\ s.end - s.begin \in Whole /\ s.bufend - s.begin \in Whole
  BY WholeNumbers DEF Fits
<1>4. /\ (s.bufend - s.begin) - ElemSize \in Whole
      /\ s.end - s.begin - ElemSize \in Whole
  BY <1>3, WholeNumbers
<1>5. s.end + (s.bufend - s.begin) - ElemSize \in Whole
  BY <1>4, WholeNumbers DEF Fits
<1> QED BY <1>1, <1>2, <1>4, <1>5

(* Where the i-th byte inside is, behind the sentinel.                     *)
At(s, i) == Around(s, ElemSize + i - 1)

LEMMA AtFits ==
    ASSUME NEW s, Fits(s), NEW i \in 1..Capacity(s)
    PROVE  At(s, i) \in 0..(s.bufend - 1)
BY FitsApart DEF At, Around, Capacity

(* Two places of the ring are two cells of the buffer.                     *)
LEMMA AtApart ==
    ASSUME NEW s, Fits(s), NEW i \in 1..Capacity(s), NEW j \in 1..Capacity(s),
           At(s, i) = At(s, j)
    PROVE  i = j
BY FitsApart DEF At, Around, Capacity

(* A push works from a snapshot `s' of a pipe that looks like `t' by now:  *)
(* `end' is the same and there may be less inside.  It puts its bytes      *)
(* behind the last one of `t'.                                             *)
Behind(s, t) ==
    /\ Fits(s) /\ Fits(t)
    /\ s.bufend = t.bufend /\ s.end = t.end
    /\ BytesInUse(t) <= BytesInUse(s)

LEMMA PushGoesBehind ==
    ASSUME NEW s, NEW t, Behind(s, t),
           NEW n \in Nat, BytesInUse(s) + n <= Capacity(s),
           NEW k \in 0..(n - 1)
    PROVE  /\ PushCell(s, k) = At(t, BytesInUse(t) + 1 + k)
           /\ PushIndex(s, PushCell(s, k)) = k
<1>0. Fits(s) /\ Fits(t)
  BY DEF Behind
<1> USE FitsApart, <1>0 DEF Behind, BytesInUse, WrapsAround, Capacity
<1>1. CASE WrapsAround(s)
  <2>1. PushCell(s, k) = s.end + k
    BY <1>1 DEF PushCell
  <2>2. At(t, BytesInUse(t) + 1 + k) = s.end + k
    BY <1>1 DEF At, Around
  <2> QED BY <2>1, <2>2 DEF PushIndex
<1>2. CASE ~WrapsAround(s)
  <2>1. PushCell(s, k) = IF s.end + k >= s.bufend
                         THEN s.end + k - s.bufend ELSE s.end + k
    BY <1>2 DEF PushCell
  <2>2. At(t, BytesInUse(t) + 1 + k) = PushCell(s, k)
    BY <1>2, <2>1 DEF At, Around
  <2>3. s.end + k - s.bufend < s.end
    BY <1>2
  <2> QED BY <2>1, <2>2, <2>3 DEF PushIndex
<1> QED BY <1>1, <1>2

LEMMA PushEndFits ==
    ASSUME NEW s, NEW t, Behind(s, t),
           NEW n \in Nat, n \in Whole, BytesInUse(s) + n <= Capacity(s),
           NEW u, u.bufend = t.bufend, u.begin = t.begin,
           u.end = PushEnd(s, n)
    PROVE  /\ Fits(u) /\ BytesInUse(u) = BytesInUse(t) + n
<1>0. Fits(s) /\ Fits(t)
  BY DEF Behind
<1>1. s.end + n \in Whole /\ s.end + n - s.bufend \in Whole /\ 0 \in Whole
  BY <1>0, WholeNumbers DEF Fits
<1>2. u.end \in Whole
  BY <1>1 DEF PushEnd, WrapPtr
<1>3. /\ u.end \in 0..(u.bufend - 1)
      /\ BytesInUse(u) = BytesInUse(t) + n
  <2> USE FitsApart, <1>0 DEF Behind, BytesInUse, WrapsAround, Capacity
  <2>1. CASE WrapsAround(s)
    <3>1. u.end = s.end + n
      BY <2>1 DEF PushEnd, WrapPtr
    <3> QED BY <2>1, <3>1
  <2>2. CASE ~WrapsAround(s)
    <3>1. CASE s.end + n >= s.bufend
      <4>1. u.end = s.end + n - s.bufend
        BY <2>2, <3>1 DEF PushEnd, WrapPtr
      <4> QED BY <2>2, <3>1, <4>1
    <3>2. CASE s.end + n < s.bufend
      <4>1. u.end = s.end + n
        BY <2>2, <3>2 DEF PushEnd, WrapPtr
      <4> QED BY <2>2, <3>2, <4>1
    <3> QED BY <3>1, <3>2
  <2> QED BY <2>1, <2>2
<1> QED BY <1>0, <1>2, <1>3 DEF Fits

(* A pop works from a snapshot `s' of a pipe that looks like `t' by now:   *)
(* `begin' is the same and there may be more inside.  It takes the oldest  *)
(* bytes of `t'.                                                           *)
Before(s, t) ==
    /\ Fits(s) /\ Fits(t)
    /\ s.bufend = t.bufend /\ s.begin = t.begin
    /\ BytesInUse(s) <= BytesInUse(t)

LEMMA PopTakesOldest ==
    ASSUME NEW s, NEW t, Before(s, t),
           NEW n \in Nat, n <= BytesInUse(s), NEW i \in 0..(n - 1)
    PROVE  PopCell(s, i) = At(t, i + 1)
<1>1. Fits(s) /\ Fits(t)
  BY DEF Before
<1> QED BY <1>1, FitsApart DEF Before, PopCell, AtRight, At, Around, BytesInUse,
   WrapsAround

LEMMA PopBeginFits ==
    ASSUME NEW s, NEW t, Before(s, t),
           NEW n \in Nat, n \in Whole, n <= BytesInUse(s),
           NEW u, u.bufend = t.bufend, u.end = t.end,
           u.begin = PopBegin(s, n)
    PROVE  /\ Fits(u) /\ BytesInUse(u) = BytesInUse(t) - n
           /\ \A i \in 1..BytesInUse(u) : At(u, i) = At(t, n + i)
<1>0. Fits(s) /\ Fits(t)
  BY DEF Before
<1>1. s.begin + n \in Whole /\ s.begin + n - s.bufend \in Whole /\ 0 \in Whole
  BY <1>0, WholeNumbers DEF Fits
<1>2. s.begin + n < s.bufend => s.begin + n + ElemSize <= s.bufend
  <2>1. s.bufend - (s.begin + n) \in Whole /\ s.bufend - (s.begin + n) \in Int
    BY <1>0, <1>1, WholeNumbers DEF Fits
  <2>2. s.bufend - (s.begin + n) > 0 => s.bufend - (s.begin + n) >= ElemSize
    BY <2>1, WholeNumbers
  <2> QED BY <1>0, <2>1, <2>2, FitsApart
<1> USE FitsApart, <1>0 DEF Before, BytesInUse, WrapsAround
<1>3. u.begin = IF n <= s.bufend - s.begin - ElemSize THEN s.begin + n
                ELSE s.begin + n - s.bufend
  BY DEF PopBegin, WrapPtr, AtRight
<1>4. u.begin \in Whole
  BY <1>1, <1>3
<1>5. u.begin \in 0..(u.bufend - 1) /\ BytesInUse(u) = BytesInUse(t) - n
  <2>1. CASE n <= s.bufend - s.begin - ElemSize
    BY <1>3, <2>1
  <2>2. CASE n > s.bufend - s.begin - ElemSize
    <3>1. u.begin = s.begin + n - s.bufend
      BY <1>3, <2>2
    <3>2. BytesInUse(t) = t.end + t.bufend - t.begin - ElemSize
      BY <2>2
    <3>3. u.begin < u.end /\ u.begin >= 0
      BY <1>2, <2>2, <3>1, <3>2
    <3> QED BY <2>2, <3>1, <3>2, <3>3
  <2> QED BY <2>1, <2>2
<1>6. ASSUME NEW i \in 1..BytesInUse(u)
      PROVE  At(u, i) = At(t, n + i)
  BY <1>3, <1>5, <1>6 DEF At, Around
<1> QED BY <1>4, <1>5, <1>6 DEF Fits

(* Moving the bytes to a buffer with room for one more than there are.     *)
LEMMA MovedFits ==
    ASSUME NEW s, Fits(s), NEW size \in Whole, BytesInUse(s) < size
    PROVE  /\ Fits(Moved(s, size))
           /\ BytesInUse(Moved(s, size)) = BytesInUse(s)
           /\ Capacity(Moved(s, size)) = size
           /\ \A j \in 1..BytesInUse(s) :
                 /\ OldCell(s, ElemSize + j - 1) = At(s, j)
                 /\ At(Moved(s, size), j) = ElemSize + j - 1
<1> DEFINE m == Moved(s, size)
<1>1. /\ m.begin = 0 /\ m.end = BytesInUse(s) + ElemSize
      /\ m.bufend = size + ElemSize
  BY DEF Moved
<1>2. /\ BytesInUse(s) \in Nat /\ BytesInUse(s) \in Whole
      /\ size \in Int /\ ElemSize \in Nat \ {0}
  BY UseFits, WholeNumbers
<1> HIDE DEF m
<1>3. Fits(m)
  <2>1. /\ m.bufend \in Nat
        /\ m.begin \in 0..(m.bufend - 1) /\ m.end \in 0..(m.bufend - 1)
    BY <1>1, <1>2
  <2>2. m.begin \in Whole /\ m.end \in Whole /\ m.bufend \in Whole
    BY <1>1, <1>2, WholeNumbers
  <2> QED BY <2>1, <2>2 DEF Fits
<1>4. BytesInUse(m) = BytesInUse(s) /\ Capacity(m) = size
  BY <1>1, <1>2, <1>3, UseFits
<1>5. ASSUME NEW j \in 1..BytesInUse(s)
      PROVE  /\ OldCell(s, ElemSize + j - 1) = At(s, j)
             /\ At(m, j) = ElemSize + j - 1
  <2>1. At(m, j) = ElemSize + j - 1
    BY <1>1, <1>2 DEF At, Around
  <2>2. OldCell(s, ElemSize + j - 1) = At(s, j)
    <3>1. CASE WrapsAround(s)
      BY <3>1 DEF OldCell, At, Around
    <3>2. CASE ~WrapsAround(s)
      <4>1. s.begin + (ElemSize + j - 1) < s.bufend
        BY <3>2, FitsApart DEF WrapsAround, BytesInUse
      <4> QED BY <1>2, <3>2, <4>1, FitsApart DEF OldCell, At, Around
    <3> QED BY <3>1, <3>2
  <2> QED BY <2>1, <2>2
<1> QED BY <1>3, <1>4, <1>5 DEF m

-----------------------------------------------------------------------------
(* The bytes inside, oldest first: what Contents reads when the pointers   *)
(* of snapshot `s' are inside the buffer whose memory is `m'.              *)

Inside(s, m) == [i \in 1..BytesInUse(s) |-> m[At(s, i)]]

Holds(s, m) == Fits(s) /\ m \in [0..(s.bufend - 1) -> Bytes]

LEMMA InsideType ==
    ASSUME NEW s, NEW m, Holds(s, m)
    PROVE  /\ BytesInUse(s) \in Nat
           /\ \A i \in 1..BytesInUse(s) :
                 At(s, i) \in 0..(s.bufend - 1)
           /\ Inside(s, m) \in Seq(Bytes)
           /\ Len(Inside(s, m)) = BytesInUse(s)
           /\ \A i \in 1..BytesInUse(s) : Inside(s, m)[i] = m[At(s, i)]
<1>1. BytesInUse(s) \in 0..Capacity(s) /\ Capacity(s) \in Nat
  BY UseFits DEF Holds
<1>2. \A i \in 1..BytesInUse(s) : At(s, i) \in 0..(s.bufend - 1)
  BY <1>1, AtFits DEF Holds
<1>3. \A i \in 1..BytesInUse(s) : m[At(s, i)] \in Bytes
  BY <1>2 DEF Holds
<1>4. Inside(s, m) \in [1..BytesInUse(s) -> Bytes]
  BY <1>3 DEF Inside
<1>5. Inside(s, m) \in Seq(Bytes)
  BY <1>1, <1>4
<1>6. Len(Inside(s, m)) = BytesInUse(s)
  BY <1>1, <1>4, <1>5, LenProperties
<1> QED BY <1>1, <1>2, <1>5, <1>6 DEF Inside

LEMMA ContentsInside ==
    ASSUME Holds(snapshot, memory)
    PROVE  Contents = Inside(snapshot, memory)
<1>1. \A i \in 1..BytesInUse(snapshot) :
          At(snapshot, i) \in DOMAIN memory
  BY InsideType DEF Holds
<1>2. \A i \in 1..BytesInUse(snapshot) :
          Read(At(snapshot, i)) = memory[At(snapshot, i)]
  BY <1>1 DEF Read
<1> QED BY <1>2 DEF Contents, Inside, At

LEMMA ContentsInsideNext ==
    ASSUME Holds(snapshot', memory')
    PROVE  Contents' = Inside(snapshot', memory')
<1>1. \A i \in 1..BytesInUse(snapshot') :
          At(snapshot', i) \in DOMAIN memory'
  BY InsideType DEF Holds
<1>2. \A i \in 1..BytesInUse(snapshot') :
          Read(At(snapshot, i))' = memory'[At(snapshot', i)]
  BY <1>1 DEF Read
<1> QED BY <1>2 DEF Contents, Inside, At

(* A copy leaves the bytes inside as they are if it writes other cells.    *)
LEMMA InsideKept ==
    ASSUME NEW s, NEW m, NEW n, Holds(s, m), Holds(s, n),
           \A i \in 1..BytesInUse(s) : n[At(s, i)] = m[At(s, i)]
    PROVE  Inside(s, n) = Inside(s, m)
BY DEF Inside

(* What a push has put behind the last byte is inside once `end' says so.  *)
LEMMA InsideGrows ==
    ASSUME NEW s, NEW u, NEW m, Holds(s, m), Holds(u, m),
           u.bufend = s.bufend, u.begin = s.begin,
           NEW n \in Nat, BytesInUse(u) = BytesInUse(s) + n,
           NEW f \in [1..n -> Bytes],
           \A k \in 1..n : m[At(s, BytesInUse(s) + k)] = f[k]
    PROVE  Inside(u, m) = Inside(s, m) \o f
<1>1. /\ Inside(s, m) \in Seq(Bytes) /\ Inside(u, m) \in Seq(Bytes)
      /\ Len(Inside(s, m)) = BytesInUse(s)
      /\ Len(Inside(u, m)) = BytesInUse(s) + n
      /\ BytesInUse(s) \in Nat
      /\ \A i \in 1..BytesInUse(s) : Inside(s, m)[i] = m[At(s, i)]
      /\ \A i \in 1..(BytesInUse(s) + n) : Inside(u, m)[i] = m[At(u, i)]
  BY InsideType
<1>2. f \in Seq(Bytes) /\ Len(f) = n
  BY LenProperties
<1>3. /\ Inside(s, m) \o f \in Seq(Bytes)
      /\ Len(Inside(s, m) \o f) = BytesInUse(s) + n
      /\ \A i \in 1..(BytesInUse(s) + n) :
            (Inside(s, m) \o f)[i] = IF i <= BytesInUse(s)
                                     THEN Inside(s, m)[i]
                                     ELSE f[i - BytesInUse(s)]
  BY <1>1, <1>2, ConcatProperties
<1>4. ASSUME NEW i \in 1..(BytesInUse(s) + n)
      PROVE  Inside(u, m)[i] = (Inside(s, m) \o f)[i]
  <2>1. At(u, i) = At(s, i)
    BY DEF At, Around
  <2>2. CASE i <= BytesInUse(s)
    BY <1>1, <1>3, <2>1, <2>2
  <2>3. CASE ~(i <= BytesInUse(s))
    <3>1. i - BytesInUse(s) \in 1..n
          /\ BytesInUse(s) + (i - BytesInUse(s)) = i
      BY <1>1, <2>3
    <3>2. m[At(s, i)] = f[i - BytesInUse(s)]
      BY <3>1
    <3> QED BY <1>1, <1>3, <2>1, <2>3, <3>2
  <2> QED BY <2>2, <2>3
<1> QED BY <1>1, <1>3, <1>4, SeqEqual

(* What a pop took are the first of the bytes inside.                      *)
LEMMA InsideShrinks ==
    ASSUME NEW s, NEW u, NEW m, Holds(s, m), Holds(u, m),
           NEW n \in Nat, BytesInUse(u) = BytesInUse(s) - n,
           NEW f \in [1..n -> Bytes],
           \A k \in 1..n : f[k] = m[At(s, k)],
           \A i \in 1..BytesInUse(u) : At(u, i) = At(s, n + i)
    PROVE  Inside(s, m) = f \o Inside(u, m)
<1>1. /\ Inside(s, m) \in Seq(Bytes) /\ Inside(u, m) \in Seq(Bytes)
      /\ Len(Inside(s, m)) = BytesInUse(s)
      /\ Len(Inside(u, m)) = BytesInUse(u)
      /\ BytesInUse(s) \in Nat /\ BytesInUse(u) \in Nat
      /\ \A i \in 1..BytesInUse(s) : Inside(s, m)[i] = m[At(s, i)]
      /\ \A i \in 1..BytesInUse(u) : Inside(u, m)[i] = m[At(u, i)]
  BY InsideType
<1>2. f \in Seq(Bytes) /\ Len(f) = n
  BY LenProperties
<1>3. n + BytesInUse(u) = BytesInUse(s)
  BY <1>1
<1>4. /\ f \o Inside(u, m) \in Seq(Bytes)
      /\ Len(f \o Inside(u, m)) = n + BytesInUse(u)
      /\ \A i \in 1..(n + BytesInUse(u)) :
            (f \o Inside(u, m))[i] = IF i <= n THEN f[i]
                                     ELSE Inside(u, m)[i - n]
  BY <1>1, <1>2, ConcatProperties
<1>5. ASSUME NEW i \in 1..BytesInUse(s)
      PROVE  Inside(s, m)[i] = (f \o Inside(u, m))[i]
  <2>1. i \in 1..(n + BytesInUse(u))
    BY <1>3
  <2>2. CASE i <= n
    <3>1. i \in 1..n /\ f[i] = m[At(s, i)]
      BY <2>2
    <3> QED BY <1>1, <1>4, <2>1, <2>2, <3>1
  <2>3. CASE ~(i <= n)
    <3>1. i - n \in 1..BytesInUse(u) /\ n + (i - n) = i
      BY <1>1, <2>1, <2>3
    <3>2. Inside(u, m)[i - n] = m[At(s, i)]
      BY <1>1, <3>1
    <3> QED BY <1>1, <1>4, <2>1, <2>3, <3>2
  <2> QED BY <2>2, <2>3
<1> QED BY <1>1, <1>3, <1>4, <1>5, SeqEqual

-----------------------------------------------------------------------------
(* The invariant.  The pointers are inside the buffer and the capacity is  *)
(* between the floor, which nobody moves, and the limit.  Once a buffer of *)
(* larger elements was resized its capacity is a power of two, so that     *)
(* half of it is a whole number of them...                                 *)

Floor == MinCap * ElemSize

RingFits ==
    /\ Fits(snapshot)
    /\ min_cap = Floor
    /\ Floor <= Capacity(snapshot) /\ Capacity(snapshot) <= max_cap
    /\ \/ ElemSize = 1
       \/ Capacity(snapshot) \in Powers \cup {Floor}

(* ...a call that goes on has something left to move...                    *)

Pushing == {"grow", "copy_in", "publish"}

Moving == Pushing \cup {"push", "room_gap", "room_sleep",
                        "pop", "elems_gap", "elems_sleep", "copy_out"}

LeftFits ==
    /\ \A t \in Threads : /\ pc[t] # "reserve"
                          /\ pc[t] \in Moving => left[t] > 0
    /\ \A p \in Producers : sent[p] + left[p] <= MaxBytes

LeftWhole == \A t \in Threads : left[t] \in Whole

(* ...and what a push and a pop saw when they began still holds of their   *)
(* own pointer and errs on the safe side of the other's.                   *)

PushFits ==
    \A p \in Producers : pc[p] \in Pushing =>
        /\ Behind(snap[p], snapshot)
        /\ BytesInUse(snap[p]) < max_cap
        /\ pc[p] # "grow" =>
            BytesInUse(snap[p]) + Pushed(p) <= Capacity(snapshot)
        /\ pc[p] = "publish" => moved[p] = Pushed(p)

PopFits ==
    \A c \in Consumers : pc[c] = "copy_out" =>
        /\ Before(snap[c], snapshot)
        /\ BytesInUse(snap[c]) > 0

(* The bytes inside are those published and not yet popped, and each       *)
(* producer published each of its bytes once: there are never more of them *)
(* than the producers push.                                                *)

StreamFits ==
    /\ Len(stream) = Len(out) + BytesInUse(snapshot)
    /\ \A p \in Producers : sent[p] \in Nat
    /\ \A i \in 1..Len(stream) :
          stream[i][1] \in Producers /\ stream[i][2] \in 1..sent[stream[i][1]]
    /\ \A i, j \in 1..Len(stream) : stream[i] = stream[j] => i = j

RingInv ==
    RingFits /\ LeftFits /\ LeftWhole /\ PushFits /\ PopFits /\ StreamFits

-----------------------------------------------------------------------------
(* Seven actions move bytes, pointers or snapshots.  All the others are    *)
(* calm: they begin no copy, and a thread they send on has bytes left.     *)

CalmThread(t) ==
    /\ pc'[t] \in Pushing \cup {"copy_out"}
        => pc'[t] = pc[t] /\ left'[t] = left[t]
    /\ pc'[t] # "reserve"
    /\ pc'[t] \in Moving => left'[t] > 0

Calm ==
    /\ UNCHANGED <<memory, bufend, begin, end, min_cap, snap, moved, sent,
                   stream, out>>
    /\ \A t \in Threads : CalmThread(t)
    /\ \A p \in Producers : sent[p] + left'[p] <= MaxBytes

LEMMA WakeIsCalm ==
    ASSUME IInv, LeftFits, NEW woken \in SUBSET Asleep, NEW t, NEW label,
           Wake(woken, t, label), UNCHANGED left,
           label \notin Pushing \cup {"copy_out", "reserve"},
           label \in Moving => left[t] > 0
    PROVE  \A u \in Threads : CalmThread(u)
<1> SUFFICES ASSUME NEW u \in Threads PROVE CalmThread(u)
  OBVIOUS
<1>1. pc'[u] = IF u = t THEN label
               ELSE IF u \in woken /\ u \in Producers THEN "push"
               ELSE IF u \in woken THEN "pop"
               ELSE pc[u]
  BY DEF Wake
<1>2. u \in woken => pc[u] \in {"room_sleep", "elems_sleep"}
  BY DEF Asleep, JustPushed, JustPopped
<1>3. left'[u] = left[u] /\ pc[u] # "reserve"
      /\ (pc[u] \in Moving => left[u] > 0)
  BY DEF LeftFits
<1> QED BY <1>1, <1>2, <1>3 DEF CalmThread, Moving, Pushing

LEMMA GotoIsCalm ==
    ASSUME IInv, LeftFits, NEW t \in Threads, NEW label, Goto(t, label),
           label \notin Pushing \cup {"copy_out", "reserve"},
           label \in Moving => left'[t] > 0,
           \A u \in Threads \ {t} : left'[u] = left[u]
    PROVE  \A u \in Threads : CalmThread(u)
<1> SUFFICES ASSUME NEW u \in Threads PROVE CalmThread(u)
  OBVIOUS
<1>1. pc'[u] = IF u = t THEN label ELSE pc[u]
  BY DEF Goto, IInv, TypeOK
<1>2. u # t => left'[u] = left[u]
  OBVIOUS
<1>3. pc[u] # "reserve" /\ (pc[u] \in Moving => left[u] > 0)
  BY DEF LeftFits
<1> QED BY <1>1, <1>2, <1>3 DEF CalmThread

LEMMA NotifyIsCalm ==
    ASSUME IInv, LeftFits, NEW cond \in SUBSET Asleep,
           NEW t \in Threads, NEW label,
           Notify(cond, t, label), UNCHANGED left,
           label \notin Pushing \cup {"copy_out", "reserve"},
           label \in Moving => left[t] > 0
    PROVE  \A u \in Threads : CalmThread(u)
<1>1. CASE Goto(t, label)
  BY <1>1, GotoIsCalm
<1>2. CASE \E u \in cond : Wake({u}, t, label)
  <2>1. PICK u \in cond : Wake({u}, t, label)
    BY <1>2
  <2>2. {u} \in SUBSET Asleep
    OBVIOUS
  <2> QED BY <2>1, <2>2, WakeIsCalm
<1>3. CASE Wake(cond, t, label)
  BY <1>3, WakeIsCalm
<1> QED BY <1>1, <1>2, <1>3 DEF Notify, Signal

Copies ==
    \/ \E p \in Producers : RoomFound(p) \/ Grow(p) \/ CopyIn(p) \/ Publish(p)
    \/ \E c \in Consumers : ElementsFound(c) \/ CopyOut(c) \/ Trim(c)

LEMMA ProducersAreCalm ==
    ASSUME IInv, LeftFits, NEW p \in Producers,
           ProducerCall(p) \/ ProducerStep(p)
    PROVE  Calm \/ Copies
<1> USE DEF Moving, Pushing
<1>0. /\ p \in Threads
      /\ \A q \in Producers : q \in Threads /\ sent[q] + left[q] <= MaxBytes
  BY DEF LeftFits, Threads
<1>1. CASE ProducerNew(p)
  <2>1. \A u \in Threads : CalmThread(u)
    BY <1>0, <1>1, GotoIsCalm DEF ProducerNew, locals
  <2> QED BY <1>0, <1>1, <2>1 DEF Calm, ProducerNew, ring, locals, histories
<1>2. CASE ProducerFree(p)
  <2>1. \A u \in Threads : CalmThread(u)
    <3>1. PICK label \in {"last", "gone"} : Goto(p, label)
      BY <1>2 DEF ProducerFree
    <3> QED BY <1>0, <1>2, <3>1, GotoIsCalm DEF ProducerFree, locals
  <2> QED BY <1>0, <1>2, <2>1 DEF Calm, ProducerFree, ring, locals, histories
<1>3. CASE Push(p)
  <2>1. PICK n \in PushSizes \ {0} :
            /\ sent[p] + n * ElemSize <= MaxBytes
            /\ left' = [left EXCEPT ![p] = n * ElemSize]
    BY <1>3 DEF Push
  <2>2. n * ElemSize \in Nat \ {0}
    BY SizesType, SizesAssumption
  <2>3. left'[p] = n * ElemSize /\ \A u \in Threads \ {p} : left'[u] = left[u]
    BY <1>0, <2>1 DEF IInv, TypeOK
  <2>4. \A u \in Threads : CalmThread(u)
    BY <1>0, <1>3, <2>2, <2>3, GotoIsCalm DEF Push
  <2>5. \A q \in Producers : sent[q] + left'[q] <= MaxBytes
    BY <1>0, <2>1, <2>3
  <2> QED BY <1>3, <2>4, <2>5 DEF Calm, Push, ring, histories
<1>4. CASE NoConsumers(p)
  <2>1. left' = [left EXCEPT ![p] = 0] /\ Goto(p, "idle")
    BY <1>4 DEF NoConsumers
  <2>2. left'[p] = 0 /\ \A u \in Threads \ {p} : left'[u] = left[u]
    BY <1>0, <2>1 DEF IInv, TypeOK
  <2>3. \A u \in Threads : CalmThread(u)
    BY <1>0, <2>1, <2>2, GotoIsCalm
  <2>4. \A q \in Producers : sent[q] + left'[q] <= MaxBytes
    <3>1. sent[p] \in Int /\ left[p] \in Nat /\ MaxBytes \in Nat
      BY <1>0, SizesAssumption DEF IInv, TypeOK
    <3> QED BY <1>0, <2>2, <3>1
  <2> QED BY <1>4, <2>3, <2>4 DEF Calm, NoConsumers, ring, histories
<1>5. CASE RoomMissing(p)
  <2>1. \A u \in Threads : CalmThread(u)
    BY <1>0, <1>5, GotoIsCalm DEF RoomMissing, locals, LeftFits
  <2> QED BY <1>0, <1>5, <2>1 DEF Calm, RoomMissing, ring, locals, histories
<1>6. CASE SleepForRoom(p)
  <2>1. \A u \in Threads : CalmThread(u)
    BY <1>0, <1>6, GotoIsCalm DEF SleepForRoom, locals, LeftFits
  <2> QED BY <1>0, <1>6, <2>1 DEF Calm, SleepForRoom, ring, locals, histories
<1>7. CASE NotifyPushed(p)
  <2>1. \A u \in Threads : CalmThread(u)
    <3>1. PICK label \in {"push", "idle"} :
              Notify(JustPushed, p, label) /\ (label = "push" => left[p] > 0)
      BY <1>7 DEF NotifyPushed
    <3>2. JustPushed \in SUBSET Asleep
      BY DEF Asleep
    <3> QED BY <1>0, <1>7, <3>1, <3>2, NotifyIsCalm DEF NotifyPushed, locals
  <2> QED BY <1>0, <1>7, <2>1 DEF Calm, NotifyPushed, ring, locals, histories
<1>8. CASE LastProducerLooks(p)
  <2>1. \A u \in Threads : CalmThread(u)
    BY <1>0, <1>8, GotoIsCalm DEF LastProducerLooks, locals
  <2> QED
    BY <1>0, <1>8, <2>1 DEF Calm, LastProducerLooks, ring, locals, histories
<1>9. CASE RoomFound(p) \/ Grow(p) \/ CopyIn(p) \/ Publish(p)
  BY <1>9 DEF Copies
<1> QED
  BY <1>1, <1>2, <1>3, <1>4, <1>5, <1>6, <1>7, <1>8, <1>9
     DEF ProducerCall, ProducerStep

LEMMA ConsumersAreCalm ==
    ASSUME IInv, LeftFits, NEW c \in Consumers,
           ConsumerCall(c) \/ ConsumerStep(c)
    PROVE  Calm \/ Copies
<1> USE DEF Moving, Pushing
<1>0. /\ c \in Threads /\ c \notin Producers
      /\ \A q \in Producers : q \in Threads /\ sent[q] + left[q] <= MaxBytes
  BY ThreadsAssumption DEF LeftFits, Threads
<1>1. CASE ConsumerNew(c)
  <2>1. \A u \in Threads : CalmThread(u)
    BY <1>0, <1>1, GotoIsCalm DEF ConsumerNew, locals
  <2> QED BY <1>0, <1>1, <2>1 DEF Calm, ConsumerNew, ring, locals, histories
<1>2. CASE ConsumerFree(c)
  <2>1. \A u \in Threads : CalmThread(u)
    <3>1. PICK label \in {"last", "gone"} : Goto(c, label)
      BY <1>2 DEF ConsumerFree
    <3> QED BY <1>0, <1>2, <3>1, GotoIsCalm DEF ConsumerFree, locals
  <2> QED BY <1>0, <1>2, <2>1 DEF Calm, ConsumerFree, ring, locals, histories
<1>3. CASE Pop(c)
  <2>1. PICK n \in PopSizes :
            /\ left' = [left EXCEPT ![c] = n * ElemSize]
            /\ Goto(c, IF n = 0 THEN "idle" ELSE "pop")
    BY <1>3 DEF Pop
  <2>2. n * ElemSize \in Nat /\ (n # 0 => n * ElemSize > 0)
    BY SizesType, SizesAssumption
  <2>3. left'[c] = n * ElemSize /\ \A u \in Threads \ {c} : left'[u] = left[u]
    BY <1>0, <2>1 DEF IInv, TypeOK
  <2>4. \A u \in Threads : CalmThread(u)
    <3>1. PICK label \in {"idle", "pop"} :
              Goto(c, label) /\ (label = "pop" => left'[c] > 0)
      BY <2>1, <2>2, <2>3
    <3> QED BY <1>0, <2>3, <3>1, GotoIsCalm
  <2>5. \A q \in Producers : sent[q] + left'[q] <= MaxBytes
    BY <1>0, <2>3
  <2> QED BY <1>3, <2>4, <2>5 DEF Calm, Pop, ring
<1>4. CASE ElementsMissing(c)
  <2>1. \A u \in Threads : CalmThread(u)
    BY <1>0, <1>4, GotoIsCalm DEF ElementsMissing, locals, LeftFits
  <2> QED
    BY <1>0, <1>4, <2>1 DEF Calm, ElementsMissing, ring, locals, histories
<1>5. CASE SleepForElements(c)
  <2>1. \A u \in Threads : CalmThread(u)
    BY <1>0, <1>5, GotoIsCalm DEF SleepForElements, locals, LeftFits
  <2> QED
    BY <1>0, <1>5, <2>1 DEF Calm, SleepForElements, ring, locals, histories
<1>6. CASE EndOfStream(c)
  <2>1. \A u \in Threads : CalmThread(u)
    BY <1>0, <1>6, GotoIsCalm DEF EndOfStream, locals
  <2> QED BY <1>0, <1>6, <2>1 DEF Calm, EndOfStream, ring, locals
<1>7. CASE TrimLocksEnd(c)
  <2>1. \A u \in Threads : CalmThread(u)
    BY <1>0, <1>7, GotoIsCalm DEF TrimLocksEnd, locals
  <2> QED BY <1>0, <1>7, <2>1 DEF Calm, TrimLocksEnd, ring, locals, histories
<1>8. CASE NotifyPopped(c)
  <2>1. \A u \in Threads : CalmThread(u)
    <3>1. PICK label \in {"pop", "idle"} :
              Notify(JustPopped, c, label) /\ (label = "pop" => left[c] > 0)
      BY <1>8 DEF NotifyPopped
    <3>2. JustPopped \in SUBSET Asleep
      BY DEF Asleep
    <3> QED BY <1>0, <1>8, <3>1, <3>2, NotifyIsCalm DEF NotifyPopped, locals
  <2> QED BY <1>0, <1>8, <2>1 DEF Calm, NotifyPopped, ring, locals, histories
<1>9. CASE LastConsumerLooks(c)
  <2>1. \A u \in Threads : CalmThread(u)
    BY <1>0, <1>9, GotoIsCalm DEF LastConsumerLooks, locals
  <2> QED
    BY <1>0, <1>9, <2>1 DEF Calm, LastConsumerLooks, ring, locals, histories
<1>10. CASE ElementsFound(c) \/ CopyOut(c) \/ Trim(c)
  BY <1>10 DEF Copies
<1> QED
  BY <1>1, <1>2, <1>3, <1>4, <1>5, <1>6, <1>7, <1>8, <1>9, <1>10
     DEF ConsumerCall, ConsumerStep

LEMMA ReleasesAreCalm ==
    ASSUME IInv, LeftFits, FreeProducers \/ OwnerStep
    PROVE  Calm
<1> USE DEF Moving, Pushing
<1>0. /\ Owner \in Threads
      /\ \A q \in Producers : q \in Threads /\ sent[q] + left[q] <= MaxBytes
      /\ JustPushed \in SUBSET Asleep /\ JustPopped \in SUBSET Asleep
  BY DEF LeftFits, Threads, Asleep
<1>1. CASE FreeProducers
  <2>1. \A u \in Threads : CalmThread(u)
    BY <1>0, <1>1, GotoIsCalm DEF FreeProducers, locals
  <2> QED BY <1>0, <1>1, <2>1 DEF Calm, FreeProducers, ring, locals, histories
<1>2. CASE FreeConsumers
  <2>1. \A u \in Threads : CalmThread(u)
    <3>1. PICK label \in {"free_buffer", "free_wakes", "gone"} :
              Goto(Owner, label)
      BY <1>2 DEF FreeConsumers
    <3> QED BY <1>0, <1>2, <3>1, GotoIsCalm DEF FreeConsumers, locals
  <2> QED BY <1>0, <1>2, <2>1 DEF Calm, FreeConsumers, ring, locals, histories
<1>3. CASE FreeBuffer
  <2>1. \A u \in Threads : CalmThread(u)
    BY <1>0, <1>3, GotoIsCalm, WakeIsCalm DEF FreeBuffer, Deallocate, locals
  <2> QED
    BY <1>0, <1>3, <2>1 DEF Calm, FreeBuffer, Deallocate, locals, histories
<1>4. CASE FreeWakes
  <2>1. \A u \in Threads : CalmThread(u)
    BY <1>0, <1>4, WakeIsCalm DEF FreeWakes, locals
  <2> QED BY <1>0, <1>4, <2>1 DEF Calm, FreeWakes, ring, locals, histories
<1> QED BY <1>1, <1>2, <1>3, <1>4 DEF OwnerStep

LEMMA HandlesAreCalm ==
    ASSUME AlignedPipe, IInv, LeftFits, NEW t \in Threads,
           ReserveLocksEnd(t) \/ HandleStep(t) \/ SpuriousWakeup(t)
    PROVE  Calm
<1> USE DEF Moving, Pushing
<1>0. /\ \A q \in Producers : q \in Threads /\ sent[q] + left[q] <= MaxBytes
      /\ JustPushed \in SUBSET Asleep /\ JustPopped \in SUBSET Asleep
  BY DEF LeftFits, Threads, Asleep
<1>1. ~ReserveLocksEnd(t) /\ ~Reserve(t)
  BY DEF ReserveLocksEnd, Reserve, LeftFits, AlignedPipe
<1>2. CASE LastHandleWakes(t)
  <2>1. \A u \in Threads : CalmThread(u)
    BY <1>0, <1>2, WakeIsCalm DEF LastHandleWakes, locals
  <2> QED
    BY <1>0, <1>2, <2>1 DEF Calm, LastHandleWakes, ring, locals, histories
<1>3. CASE LastHandleDeallocates(t)
  <2>1. \A u \in Threads : CalmThread(u)
    BY <1>0, <1>3, GotoIsCalm DEF LastHandleDeallocates, Deallocate, locals
  <2> QED
    BY <1>0, <1>3, <2>1 DEF Calm, LastHandleDeallocates, Deallocate, ring,
       locals, histories
<1>4. CASE SpuriousWakeup(t)
  <2>1. \A u \in Threads : CalmThread(u)
    <3>1. t \in Asleep /\ {t} \in SUBSET Asleep /\ pc[t] \in Moving
      BY <1>4 DEF SpuriousWakeup, Asleep, JustPushed, JustPopped
    <3>2. left[t] > 0
      BY <3>1 DEF LeftFits
    <3>3. PICK label \in {"push", "pop"} : Wake({t}, t, label)
      BY <1>4 DEF SpuriousWakeup
    <3> QED BY <1>4, <3>1, <3>2, <3>3, WakeIsCalm DEF SpuriousWakeup, locals
  <2> QED
    BY <1>0, <1>4, <2>1 DEF Calm, SpuriousWakeup, ring, locals, histories
<1> QED BY <1>1, <1>2, <1>3, <1>4 DEF HandleStep

LEMMA CalmOrCopies ==
    ASSUME AlignedPipe, IInv, LeftFits, [Next]_vars
    PROVE  Calm \/ Copies
<1>1. CASE UNCHANGED vars
  <2>1. \A q \in Producers : q \in Threads
    BY DEF Threads
  <2>2. \A u \in Threads : CalmThread(u)
    BY <1>1 DEF vars, locals, CalmThread, LeftFits
  <2> QED
    BY <1>1, <2>1, <2>2 DEF Calm, vars, ring, locals, histories, LeftFits
<1>2. CASE Next
  BY <1>2, ProducersAreCalm, ConsumersAreCalm, ReleasesAreCalm, HandlesAreCalm
     DEF Next
<1> QED BY <1>1, <1>2

-----------------------------------------------------------------------------
(* What the invariant says of a thread that is copying.                    *)

LEMMA SizesFit ==
    /\ Floor \in Nat \ {0} /\ ElemSize <= Floor /\ Floor \in Whole
    /\ max_cap \in Nat /\ Floor <= max_cap
<1>1. MinCap \in Nat /\ MinCap >= 1 /\ ElemSize \in Nat /\ ElemSize >= 1
  BY SizesType, SizesAssumption
<1>2. MinCap * ElemSize >= ElemSize /\ MinCap * ElemSize \in Nat
  BY <1>1
<1>3. MinCap * ElemSize \in Whole
  <2>1. MinCap * ElemSize = ElemSize * MinCap /\ MinCap \in Int
    BY <1>1
  <2>2. ElemSize * MinCap \in Whole
    BY <2>1 DEF Whole
  <2> QED BY <2>1, <2>2
<1> QED BY <1>1, <1>2, <1>3, SizesType DEF Floor

(* The bytes inside are at most those the producers push.                  *)
LEMMA StreamIsBounded ==
    ASSUME IInv, LeftFits, StreamFits
    PROVE  /\ Len(stream) \in Nat
           /\ Len(stream) <= Cardinality(Producers) * MaxBytes
<1>1. Len(stream) \in Nat
  BY LenProperties DEF IInv, TypeOK
<1> DEFINE Sent == Producers \X (1..MaxBytes)
<1>2. stream \in [1..Len(stream) -> Sent]
  <2>1. ASSUME NEW i \in 1..Len(stream)
        PROVE  stream[i] \in Sent
    <3>1. stream[i] \in Producers \X Int
      BY <1>1, ElementOfSeq DEF IInv, TypeOK
    <3>2. PICK p \in Producers, n \in Int : stream[i] = <<p, n>>
      BY <3>1
    <3>3. n \in 1..sent[p] /\ sent[p] \in Nat
      BY <3>2 DEF StreamFits
    <3>4. sent[p] + left[p] <= MaxBytes /\ left[p] \in Nat /\ MaxBytes \in Nat
      BY SizesAssumption DEF LeftFits, IInv, TypeOK, Threads
    <3>5. n \in 1..MaxBytes
      BY <3>3, <3>4
    <3> QED BY <3>2, <3>5
  <2>2. stream \in Seq(Producers \X Int)
    BY DEF IInv, TypeOK
  <2>3. stream = [i \in 1..Len(stream) |-> stream[i]]
    BY <2>2, LenProperties
  <2> HIDE DEF Sent
  <2> QED BY <2>1, <2>3
<1>3. IsFiniteSet(Producers) /\ IsFiniteSet(1..MaxBytes)
      /\ Cardinality(1..MaxBytes) = MaxBytes /\ MaxBytes \in Nat
  BY FS_Interval, ThreadsAssumption, SizesAssumption
<1>4. IsFiniteSet(Sent)
      /\ Cardinality(Sent) = Cardinality(Producers) * MaxBytes
  BY <1>3, FS_Product
<1>5. IsFiniteSet(1..Len(stream)) /\ Cardinality(1..Len(stream)) = Len(stream)
  BY <1>1, FS_Interval
<1>6. Cardinality(Sent) \in Nat
  BY <1>4, FS_CardinalityType
<1> HIDE DEF Sent
<1>7. ~(Cardinality(Sent) < Len(stream))
  <2> SUFFICES ASSUME Cardinality(Sent) < Len(stream) PROVE FALSE
    OBVIOUS
  <2>1. \E x, y \in 1..Len(stream) : x # y /\ stream[x] = stream[y]
    BY <1>2, <1>4, <1>5, FS_PigeonHole
  <2> QED BY <2>1 DEF StreamFits
<1> QED BY <1>1, <1>4, <1>6, <1>7

(* A size that a buffer may be resized to.                                 *)
Round(n) == n \in Whole /\ (ElemSize = 1 \/ n \in Powers)

LEMMA SizesAreRound ==
    ASSUME AlignedPipe, NEW n \in Int, n > Floor, ElemSize = 1 \/ n \in Powers
    PROVE  Round(n)
<1>1. CASE ElemSize = 1
  <2>1. n = ElemSize * n
    BY <1>1
  <2>2. ElemSize * n \in Whole
    BY DEF Whole
  <2> QED BY <1>1, <2>1, <2>2 DEF Round
<1>2. CASE n \in Powers
  <2>1. n >= ElemSize
    BY SizesFit, WholeNumbers
  <2> QED BY <1>2, <2>1, PowersAreWhole DEF Round
<1> QED BY <1>1, <1>2

LEMMA SnapshotFields ==
    /\ snapshot.bufend = bufend /\ snapshot.begin = begin
    /\ snapshot.end = end
BY DEF snapshot

LEMMA OnlyOnePushes ==
    ASSUME IInv, NEW t \in Threads, pc[t] \in HoldsEnd
    PROVE  /\ end_lock = t
           /\ \A u \in Threads : pc[u] \in HoldsEnd => u = t
           /\ \A p \in Producers : pc[p] \in Pushing => p = t
BY DEF IInv, MutexesHeld, HoldsEnd, Pushing, Threads

LEMMA OnlyOnePops ==
    ASSUME IInv, NEW t \in Threads, pc[t] \in HoldsBegin
    PROVE  \A c \in Consumers : pc[c] = "copy_out" => c = t
BY DEF IInv, MutexesHeld, HoldsBegin, Threads

LEMMA NobodyPushes ==
    ASSUME IInv, end_lock = NoThread
    PROVE  \A p \in Producers : pc[p] \notin Pushing
BY ThreadsAssumption DEF IInv, MutexesHeld, HoldsEnd, Pushing, Threads

LEMMA NobodyPops ==
    ASSUME IInv, begin_lock = NoThread
    PROVE  \A c \in Consumers : pc[c] # "copy_out"
BY ThreadsAssumption DEF IInv, MutexesHeld, HoldsBegin, Threads

LEMMA PushedFits ==
    ASSUME AlignedPipe, IInv, RingInv, NEW p \in Producers, pc[p] \in Pushing
    PROVE  /\ Behind(snap[p], snapshot)
           /\ left[p] \in Nat \ {0} /\ BytesInUse(snap[p]) \in Nat
           /\ Pushed(p) \in Nat \ {0} /\ Pushed(p) <= left[p]
           /\ BytesInUse(snapshot) \in Nat
           /\ BytesInUse(snapshot) <= BytesInUse(snap[p])
           /\ Pushed(p) <= max_cap - BytesInUse(snap[p])
<1>1. p \in Threads
  BY DEF Threads
<1>2. left[p] \in Nat \ {0}
  <2>1. pc[p] \in Moving
    BY DEF Moving
  <2>2. left[p] \in Nat
    BY <1>1 DEF IInv, TypeOK
  <2> QED BY <1>1, <2>1, <2>2 DEF RingInv, LeftFits
<1>3. Behind(snap[p], snapshot) /\ BytesInUse(snap[p]) < max_cap
  BY DEF RingInv, PushFits
<1>4. /\ BytesInUse(snap[p]) \in Nat /\ BytesInUse(snapshot) \in Nat
      /\ BytesInUse(snapshot) <= BytesInUse(snap[p])
  BY <1>3, UseFits DEF Behind
<1> QED BY <1>2, <1>3, <1>4, SizesFit DEF Pushed, Least

LEMMA PoppedFits ==
    ASSUME AlignedPipe, IInv, RingInv, NEW c \in Consumers, pc[c] = "copy_out"
    PROVE  /\ Before(snap[c], snapshot)
           /\ Popped(c) \in Nat \ {0} /\ Popped(c) <= BytesInUse(snap[c])
           /\ Popped(c) <= left[c] /\ left[c] \in Nat
           /\ BytesInUse(snap[c]) \in Nat /\ BytesInUse(snapshot) \in Nat
           /\ BytesInUse(snap[c]) <= BytesInUse(snapshot)
<1>1. c \in Threads
  BY DEF Threads
<1>2. left[c] \in Nat \ {0}
  <2>1. pc[c] \in Moving
    BY DEF Moving
  <2>2. left[c] \in Nat
    BY <1>1 DEF IInv, TypeOK
  <2> QED BY <1>1, <2>1, <2>2 DEF RingInv, LeftFits
<1>3. Before(snap[c], snapshot) /\ BytesInUse(snap[c]) > 0
  BY DEF RingInv, PopFits
<1>4. /\ BytesInUse(snap[c]) \in Nat /\ BytesInUse(snapshot) \in Nat
      /\ BytesInUse(snap[c]) <= BytesInUse(snapshot)
  BY <1>3, UseFits DEF Before
<1> QED BY <1>2, <1>3, <1>4 DEF Popped, Least

(* Whole elements move: if the limit cuts a push short the buffer is as    *)
(* large as the limit.                                                     *)
LEMMA PushedWhole ==
    ASSUME AlignedPipe, IInv, RingInv, NEW p \in Producers,
           pc[p] \in {"copy_in", "publish"}
    PROVE  Pushed(p) \in Whole
<1>1. /\ Behind(snap[p], snapshot) /\ BytesInUse(snap[p]) \in Nat
      /\ left[p] \in Nat /\ left[p] \in Whole
  BY PushedFits DEF Pushing, RingInv, LeftWhole, Threads
<1>2. BytesInUse(snap[p]) + Pushed(p) <= Capacity(snapshot)
  BY DEF RingInv, PushFits, Pushing
<1>3. /\ Capacity(snapshot) <= max_cap /\ max_cap \in Nat
      /\ Capacity(snapshot) \in Nat /\ Capacity(snapshot) \in Whole
      /\ BytesInUse(snap[p]) \in Whole
  BY <1>1, SizesFit, UseFits DEF RingInv, RingFits, Behind
<1>4. CASE Pushed(p) = left[p]
  BY <1>1, <1>4
<1>5. CASE Pushed(p) = max_cap - BytesInUse(snap[p])
  <2>1. max_cap = Capacity(snapshot)
    BY <1>1, <1>2, <1>3, <1>5
  <2> QED BY <1>3, <1>5, <2>1, WholeNumbers
<1> QED BY <1>4, <1>5 DEF Pushed, Least

LEMMA PoppedWhole ==
    ASSUME AlignedPipe, IInv, RingInv, NEW c \in Consumers, pc[c] = "copy_out"
    PROVE  Popped(c) \in Whole
<1>1. BytesInUse(snap[c]) \in Whole
  BY PoppedFits, UseFits DEF Before
<1>2. left[c] \in Whole
  BY DEF RingInv, LeftWhole, Threads
<1> QED BY <1>1, <1>2 DEF Popped, Least

-----------------------------------------------------------------------------
(* Resizing to a size that leaves room beside the bytes inside keeps them  *)
(* all, in their order.                                                    *)

LEMMA MemoryHolds ==
    ASSUME IInv, RingFits
    PROVE  Holds(snapshot, memory)
BY SnapshotFields DEF IInv, TypeOK, RingFits, Holds

LEMMA MoveKeepsInside ==
    ASSUME IInv, RingFits, NEW size \in Whole,
           BytesInUse(snapshot) < size, MoveTo(size)
    PROVE  /\ snapshot' = Moved(snapshot, size)
           /\ Holds(snapshot', memory')
           /\ Inside(snapshot', memory') = Inside(snapshot, memory)
<1>1. snapshot' = Moved(snapshot, size)
  BY DEF MoveTo, Moved, snapshot
<1>2. /\ Fits(snapshot') /\ BytesInUse(snapshot') = BytesInUse(snapshot)
      /\ \A j \in 1..BytesInUse(snapshot) :
            /\ OldCell(snapshot, ElemSize + j - 1) = At(snapshot, j)
            /\ At(snapshot', j) = ElemSize + j - 1
  BY <1>1, MovedFits DEF RingFits
<1>3. /\ BytesInUse(snapshot) \in Nat /\ Holds(snapshot, memory)
      /\ size \in Int /\ ElemSize \in Nat \ {0}
      /\ \A i \in 1..BytesInUse(snapshot) :
            At(snapshot, i) \in 0..(bufend - 1)
  BY MemoryHolds, InsideType, SnapshotFields, WholeNumbers
<1>4. /\ bufend' = size + ElemSize
      /\ memory' = [j \in 0..(bufend' - 1) |->
                       IF j < BytesInUse(snapshot) + ElemSize
                       THEN Read(OldCell(snapshot, j)) ELSE Junk]
  BY DEF MoveTo, Moved
<1>5. Holds(snapshot', memory')
  <2>1. memory' \in [0..(bufend' - 1) -> Bytes]
    BY <1>4, ReadType DEF IInv, Bytes
  <2>2. snapshot'.bufend = bufend'
    BY DEF snapshot
  <2> QED BY <1>2, <2>1, <2>2 DEF Holds
<1>6. ASSUME NEW i \in 1..BytesInUse(snapshot)
      PROVE  memory'[At(snapshot', i)] = memory[At(snapshot, i)]
  <2> DEFINE j == ElemSize + i - 1
  <2>1. At(snapshot', i) = j /\ OldCell(snapshot, j) = At(snapshot, i)
    BY <1>2, <1>3
  <2>2. j \in 0..(bufend' - 1) /\ j < BytesInUse(snapshot) + ElemSize
    BY <1>3, <1>4
  <2> HIDE DEF j
  <2>3. memory'[j] = Read(At(snapshot, i))
    BY <1>4, <2>1, <2>2
  <2>4. Read(At(snapshot, i)) = memory[At(snapshot, i)]
    BY <1>3 DEF Read, IInv, TypeOK
  <2> QED BY <2>1, <2>3, <2>4
<1>7. Inside(snapshot', memory') = Inside(snapshot, memory)
  BY <1>2, <1>6 DEF Inside
<1> QED BY <1>1, <1>5, <1>7

(* What the invariant says of a capacity.                                  *)
SizeFits(s) ==
    /\ Floor <= Capacity(s) /\ Capacity(s) <= max_cap
    /\ ElemSize = 1 \/ Capacity(s) \in Powers \cup {Floor}

LEMMA ResizeFits ==
    ASSUME AlignedPipe, IInv, RingFits, NEW size \in Int,
           ResizeBuffer(size, min_cap),
           Least(size, max_cap) > min_cap
               => /\ BytesInUse(snapshot) < Least(size, max_cap)
                  /\ Round(Least(size, max_cap))
    PROVE  /\ Fits(snapshot') /\ BytesInUse(snapshot') = BytesInUse(snapshot)
           /\ Capacity(snapshot') = IF Least(size, max_cap) <= min_cap
                                    THEN Capacity(snapshot)
                                    ELSE Least(size, max_cap)
           /\ SizeFits(snapshot')
           /\ Holds(snapshot', memory')
           /\ Inside(snapshot', memory') = Inside(snapshot, memory)
<1> DEFINE n == Least(size, max_cap)
<1>1. n \in Int /\ n <= max_cap /\ min_cap \in Nat /\ min_cap = Floor
  BY SizesFit DEF Least, IInv, TypeOK, RingFits
<1>2. CASE n <= min_cap
  <2>1. snapshot' = snapshot /\ memory' = memory
    BY <1>2 DEF ResizeBuffer, snapshot
  <2> QED BY <1>2, <2>1, MemoryHolds DEF RingFits, SizeFits
<1>3. CASE ~(n <= min_cap)
  <2>1. MoveTo(n)
    BY <1>3 DEF ResizeBuffer
  <2>2. BytesInUse(snapshot) < n /\ n \in Whole
        /\ (ElemSize = 1 \/ n \in Powers)
    BY <1>1, <1>3 DEF Round
  <2> HIDE DEF n
  <2>0. /\ snapshot' = Moved(snapshot, n) /\ Holds(snapshot', memory')
        /\ Inside(snapshot', memory') = Inside(snapshot, memory)
    BY <1>1, <2>1, <2>2, MoveKeepsInside
  <2>3. /\ Fits(snapshot') /\ BytesInUse(snapshot') = BytesInUse(snapshot)
        /\ Capacity(snapshot') = n
    BY <1>1, <2>0, <2>2, MovedFits DEF RingFits
  <2>4. SizeFits(snapshot')
    BY <1>1, <1>3, <2>2, <2>3 DEF n, SizeFits
  <2> QED BY <1>1, <1>3, <2>0, <2>3, <2>4 DEF n
<1> QED BY <1>2, <1>3

(* validate_size_impl asks for at least what is left.                      *)
LEMMA NeededFits ==
    ASSUME NEW p \in Producers, left[p] \in Nat, BytesInUse(snapshot) \in Nat
    PROVE  /\ BytesNeeded(p) \in Nat
           /\ BytesNeeded(p) >= BytesInUse(snapshot) + left[p]
<1>1. left[p] * ElemSize \in Nat /\ left[p] * ElemSize >= left[p]
  BY SizesType
<1> QED BY <1>1 DEF BytesNeeded

(* If the limit is below the top bit it is a power of two.                 *)
LEMMA LimitIsPower ==
    ASSUME Limit > 0, Greatest(Limit * ElemSize, MinCap * ElemSize) <= TopBit
    PROVE  max_cap \in Powers
<1>1. Limit # 0
  BY SizesAssumption
<1>2. Greatest(Limit * ElemSize, MinCap * ElemSize) \in Int
  BY SizesType DEF Greatest
<1> QED BY <1>1, <1>2, NextPow2Type DEF max_cap

(* So is any limit below the top bit; ~(size_t)0 is not below it.          *)
LEMMA MaxIsPower == max_cap < TopBit => max_cap \in Powers
<1> SUFFICES ASSUME max_cap < TopBit PROVE max_cap \in Powers
  OBVIOUS
<1> DEFINE g == Greatest(Limit * ElemSize, MinCap * ElemSize)
<1>1. TopBit \in Nat /\ TopBit >= 1 /\ SizeMax = 2 * TopBit - 1
  BY PowersType, PowersAssumption DEF SizeMax
<1>2. Limit # 0 /\ max_cap = NextPow2(g)
  BY <1>1 DEF max_cap
<1>3. g \in Int
  BY SizesType DEF Greatest
<1> HIDE DEF g
<1>4. NextPow2(g) \in Nat /\ NextPow2(g) >= g
      /\ (g <= TopBit => NextPow2(g) \in Powers)
  BY <1>3, NextPow2Type
<1> QED BY <1>1, <1>2, <1>3, <1>4

(* It asks for no more than the top bit where no limit keeps it below.     *)
LEMMA NeededIsBounded ==
    ASSUME IInv, RingInv, NEW p \in Producers,
           Cardinality(Producers) * MaxBytes + MaxBytes * ElemSize <= TopBit
    PROVE  BytesNeeded(p) <= TopBit
<1>1. /\ Len(stream) \in Nat
      /\ Len(stream) <= Cardinality(Producers) * MaxBytes
  BY StreamIsBounded DEF RingInv
<1>2. Len(stream) = Len(out) + BytesInUse(snapshot) /\ Len(out) \in Nat
  BY LenProperties DEF RingInv, StreamFits, IInv, TypeOK
<1>3. BytesInUse(snapshot) \in Nat
  BY UseFits DEF RingInv, RingFits
<1>4. left[p] \in Nat /\ left[p] <= MaxBytes /\ MaxBytes \in Nat
  <2>1. left[p] \in Nat /\ sent[p] \in Nat /\ sent[p] + left[p] <= MaxBytes
    BY DEF RingInv, StreamFits, LeftFits, IInv, TypeOK, Threads
  <2> QED BY <2>1, SizesAssumption
<1>5. /\ left[p] * ElemSize <= MaxBytes * ElemSize
      /\ left[p] * ElemSize \in Nat /\ MaxBytes * ElemSize \in Nat
  BY <1>4, SizesType
<1>6. Cardinality(Producers) * MaxBytes \in Nat /\ TopBit \in Nat
  <2>1. Cardinality(Producers) \in Nat
    BY ThreadsAssumption, FS_CardinalityType
  <2> QED BY <1>4, <2>1, PowersType
<1>7. BytesInUse(snapshot) <= Cardinality(Producers) * MaxBytes
  BY <1>1, <1>2, <1>3, <1>6
<1> DEFINE a == Cardinality(Producers) * MaxBytes
           b == MaxBytes * ElemSize
           d == left[p] * ElemSize
<1>8. a \in Nat /\ b \in Nat /\ d \in Nat /\ d <= b /\ a + b <= TopBit
      /\ BytesInUse(snapshot) <= a
  BY <1>5, <1>6, <1>7
<1> HIDE DEF a, b, d
<1>9. BytesInUse(snapshot) + d <= TopBit
  BY <1>3, <1>6, <1>8
<1> QED BY <1>9 DEF d, BytesNeeded

(* What next_pow2 makes of it is a size of whole elements.                 *)
LEMMA GrownIsRound ==
    ASSUME AlignedPipe, IInv, RingInv, NEW p \in Producers,
           BytesNeeded(p) \in Nat,
           Least(NextPow2(BytesNeeded(p)), max_cap) > Floor
    PROVE  Round(Least(NextPow2(BytesNeeded(p)), max_cap))
<1> DEFINE need == BytesNeeded(p)
           n    == Least(NextPow2(need), max_cap)
<1>1. /\ NextPow2(need) \in Nat /\ NextPow2(need) >= need
      /\ need <= TopBit => NextPow2(need) \in Powers
      /\ max_cap \in Nat /\ TopBit \in Nat
  BY NextPow2Type, SizesFit, PowersType
<1>2. n = NextPow2(need) \/ n = max_cap
  BY DEF Least
<1>3. n \in Int /\ n <= max_cap /\ n <= NextPow2(need)
  BY <1>1 DEF Least
<1>4. CASE ElemSize = 1
  BY <1>3, <1>4, SizesAreRound
<1>5. CASE max_cap \in Powers
  <2>1. max_cap <= TopBit
    BY <1>5, PowersAssumption
  <2>2. n \in Powers
    <3>1. CASE need <= TopBit
      BY <1>1, <1>2, <1>5, <3>1
    <3>2. CASE need > TopBit
      <4>1. NextPow2(need) > max_cap
        BY <1>1, <2>1, <3>2
      <4>2. n = max_cap
        BY <1>1, <1>2, <1>3, <4>1
      <4> QED BY <1>5, <4>2
    <3> QED BY <1>1, <3>1, <3>2
  <2> QED BY <1>3, <2>2, SizesAreRound
<1>6. CASE need <= TopBit
  <2>1. CASE NextPow2(need) <= max_cap
    <3>1. n \in Powers
      BY <1>1, <1>6, <2>1 DEF Least
    <3> QED BY <1>3, <3>1, SizesAreRound
  <2>2. CASE NextPow2(need) > max_cap
    <3>1. NextPow2(need) <= TopBit
      BY <1>1, <1>6, PowersAssumption
    <3>2. max_cap < TopBit
      BY <1>1, <2>2, <3>1
    <3>3. max_cap \in Powers
      BY <3>2, MaxIsPower
    <3> QED BY <1>5, <3>3
  <2> QED BY <1>1, <2>1, <2>2
<1>7. max_cap \in Powers \/ ElemSize = 1 \/ need <= TopBit
  BY LimitIsPower, NeededIsBounded DEF AlignedPipe
<1> QED BY <1>4, <1>5, <1>6, <1>7

(* Growing makes room for the rest of the push, or for as much of it as    *)
(* the limit allows.                                                       *)
LEMMA GrowFits ==
    ASSUME AlignedPipe, IInv, RingInv, NEW p \in Producers, Grow(p)
    PROVE  /\ Fits(snapshot') /\ BytesInUse(snapshot') = BytesInUse(snapshot)
           /\ SizeFits(snapshot')
           /\ BytesInUse(snapshot')
              + Least(left[p], max_cap - BytesInUse(snapshot'))
                  <= Capacity(snapshot')
           /\ BytesInUse(snapshot') < max_cap
           /\ Holds(snapshot', memory')
           /\ Inside(snapshot', memory') = Inside(snapshot, memory)
<1>1. /\ Behind(snap[p], snapshot) /\ BytesInUse(snap[p]) < max_cap
      /\ left[p] \in Nat \ {0} /\ BytesInUse(snapshot) \in Nat
      /\ BytesInUse(snapshot) <= BytesInUse(snap[p])
      /\ BytesInUse(snap[p]) \in Nat
  <2>1. pc[p] \in Pushing
    BY DEF Grow, Pushing
  <2> QED BY <2>1, PushedFits DEF RingInv, PushFits
<1>2. /\ BytesNeeded(p) \in Nat
      /\ BytesNeeded(p) >= BytesInUse(snapshot) + left[p]
  BY <1>1, NeededFits
<1>3. Capacity(snap[p]) = Capacity(snapshot)
  BY <1>1 DEF Behind, Capacity
<1>4. /\ max_cap \in Nat /\ min_cap \in Nat /\ Capacity(snapshot) \in Nat
      /\ min_cap <= Capacity(snapshot) /\ Capacity(snapshot) <= max_cap
      /\ min_cap = Floor
  BY SizesFit, UseFits DEF RingInv, RingFits
<1> DEFINE need == BytesNeeded(p)
           pow  == NextPow2(need)
<1>5. CASE need > Capacity(snap[p])
  <2>1. pow \in Int /\ pow >= need /\ need \in Int
    BY <1>1, <1>2, NextPow2Type
  <2>2. ResizeBuffer(pow, min_cap)
    BY <1>5 DEF Grow
  <2>3. need >= BytesInUse(snapshot) + left[p] /\ need > Capacity(snapshot)
    BY <1>2, <1>3, <1>5
  <2>0. Least(pow, max_cap) > min_cap => Round(Least(pow, max_cap))
    BY <1>2, <1>4, GrownIsRound
  <2> HIDE DEF need, pow
  <2>4. Least(pow, max_cap) = pow \/ Least(pow, max_cap) = max_cap
    BY DEF Least
  <2>5. BytesInUse(snapshot) < Least(pow, max_cap)
    BY <1>1, <1>4, <2>1, <2>3, <2>4
  <2>6. /\ Fits(snapshot') /\ BytesInUse(snapshot') = BytesInUse(snapshot)
        /\ Capacity(snapshot') = IF Least(pow, max_cap) <= min_cap
                                 THEN Capacity(snapshot)
                                 ELSE Least(pow, max_cap)
        /\ SizeFits(snapshot')
        /\ Holds(snapshot', memory')
        /\ Inside(snapshot', memory') = Inside(snapshot, memory)
    BY <2>0, <2>1, <2>2, <2>5, ResizeFits DEF RingInv
  <2>7. BytesInUse(snapshot)
        + Least(left[p], max_cap - BytesInUse(snapshot))
            <= Capacity(snapshot')
    <3>1. CASE Least(pow, max_cap) <= min_cap
      <4>1. Capacity(snapshot) = max_cap
        BY <1>4, <2>1, <2>3, <2>4, <3>1
      <4> QED BY <1>1, <1>4, <2>6, <3>1, <4>1 DEF Least
    <3>2. CASE ~(Least(pow, max_cap) <= min_cap)
      BY <1>1, <1>4, <2>1, <2>3, <2>4, <2>6, <3>2 DEF Least
    <3> QED BY <3>1, <3>2
  <2>8. BytesInUse(snapshot) < max_cap
    BY <1>1, <1>4
  <2>9. BytesInUse(snapshot') = BytesInUse(snapshot)
    BY <2>6
  <2> QED BY <2>6, <2>7, <2>8, <2>9, Zenon
<1>6. CASE ~(need > Capacity(snap[p]))
  <2>1. snapshot' = snapshot /\ memory' = memory
    BY <1>6 DEF Grow, snapshot
  <2>2. BytesInUse(snapshot) + left[p] <= Capacity(snapshot)
    BY <1>1, <1>2, <1>3, <1>4, <1>6
  <2>3. BytesInUse(snapshot)
        + Least(left[p], max_cap - BytesInUse(snapshot))
            <= Capacity(snapshot)
    BY <1>1, <1>4, <2>2 DEF Least
  <2>4. SizeFits(snapshot)
    BY DEF RingInv, RingFits, SizeFits
  <2> QED BY <1>1, <1>4, <2>1, <2>3, <2>4, MemoryHolds DEF RingInv, RingFits
<1> QED BY <1>5, <1>6

(* Trimming halves a buffer that is at most a quarter full and above the   *)
(* floor, so there is room left.                                           *)
LEMMA TrimFits ==
    ASSUME AlignedPipe, IInv, RingInv, NEW c \in Consumers, Trim(c)
    PROVE  /\ Fits(snapshot') /\ BytesInUse(snapshot') = BytesInUse(snapshot)
           /\ SizeFits(snapshot')
           /\ Holds(snapshot', memory')
           /\ Inside(snapshot', memory') = Inside(snapshot, memory)
<1> DEFINE cap == Capacity(snapshot)
           half == cap \div 2
<1>1. /\ max_cap \in Nat /\ min_cap \in Nat /\ min_cap >= 1 /\ cap \in Nat
      /\ min_cap = Floor /\ cap <= max_cap /\ BytesInUse(snapshot) \in Nat
      /\ (ElemSize = 1 \/ cap \in Powers \cup {Floor})
  BY SizesFit, UseFits DEF RingInv, RingFits
<1>2. CASE BytesInUse(snapshot) <= cap \div 4
  <2>1. ResizeBuffer(half, min_cap)
    BY <1>2 DEF Trim
  <2>2. half \in Int /\ half <= max_cap
    <3> HIDE DEF cap
    <3> QED BY <1>1
  <2>3. Least(half, max_cap) = half
    <3> HIDE DEF half
    <3> QED BY <2>2 DEF Least
  <2>4. half > min_cap => BytesInUse(snapshot) < half
    <3> DEFINE use == BytesInUse(snapshot)
    <3>1. use \in Nat /\ use <= cap \div 4
      BY <1>1, <1>2
    <3> HIDE DEF cap, use
    <3>2. half > min_cap => use < half
      BY <1>1, <3>1
    <3> QED BY <3>2 DEF use
  <2>5. half > min_cap => Round(half)
    <3> HIDE DEF cap
    <3> SUFFICES ASSUME half > min_cap PROVE Round(half)
      OBVIOUS
    <3>1. half \in Int /\ half > Floor
      BY <1>1
    <3>2. CASE ElemSize = 1
      <4> HIDE DEF half
      <4> QED BY <3>1, <3>2, SizesAreRound
    <3>3. CASE ElemSize # 1
      <4>1. cap \in Powers /\ cap # 1
        BY <1>1, <3>1, <3>3, SizesFit
      <4>2. PICK k \in Powers : cap = 2 * k
        BY <4>1, PowersAssumption
      <4>3. half = k
        BY <4>2, PowersType
      <4> HIDE DEF half
      <4> QED BY <3>1, <4>3, SizesAreRound
    <3> QED BY <3>2, <3>3
  <2> HIDE DEF half
  <2> QED BY <2>1, <2>2, <2>3, <2>4, <2>5, ResizeFits DEF RingInv
<1>3. CASE ~(BytesInUse(snapshot) <= cap \div 4)
  <2>1. snapshot' = snapshot /\ memory' = memory
    BY <1>3 DEF Trim, snapshot
  <2>2. SizeFits(snapshot)
    BY DEF RingInv, RingFits, SizeFits
  <2> QED BY <2>1, <2>2, MemoryHolds DEF RingInv, RingFits
<1> QED BY <1>2, <1>3

-----------------------------------------------------------------------------
(* Each step keeps the invariant.                                          *)

LEMMA InitRingInv == Init => RingInv
<1> SUFFICES ASSUME Init PROVE RingInv
  OBVIOUS
<1>1. bufend = Floor + ElemSize /\ begin = 0 /\ end = ElemSize
      /\ min_cap = Floor
  BY DEF Init, Floor
<1>2. /\ Floor \in Nat \ {0} /\ ElemSize <= Floor /\ Floor \in Whole
      /\ max_cap \in Nat /\ Floor <= max_cap /\ ElemSize \in Nat \ {0}
  BY SizesFit, WholeNumbers
<1>3. Fits(snapshot)
  <2>1. bufend \in Whole /\ begin \in Whole /\ end \in Whole
    BY <1>1, <1>2, WholeNumbers
  <2> QED BY <1>1, <1>2, <2>1, SnapshotFields DEF Fits
<1>4. Capacity(snapshot) = Floor /\ BytesInUse(snapshot) = 0
  BY <1>1, <1>2, <1>3, UseFits, SnapshotFields
<1>5. RingFits
  BY <1>1, <1>2, <1>3, <1>4 DEF RingFits
<1>6. \A t \in Threads : pc[t] \in {"idle", "unborn"} /\ left[t] = 0
  BY DEF Init
<1>7. \A t \in Producers \cup Consumers : t \in Threads
  BY DEF Threads
<1>8. LeftFits
  <2>1. \A p \in Producers : sent[p] + left[p] <= MaxBytes
    BY <1>7, SizesAssumption DEF Init
  <2> QED BY <1>6, <2>1 DEF LeftFits, Moving, Pushing
<1>9. LeftWhole
  BY <1>6, WholeNumbers DEF LeftWhole
<1>10. PushFits /\ PopFits
  BY <1>6, <1>7 DEF PushFits, PopFits, Pushing
<1>11. StreamFits
  <2>1. stream = <<>> /\ out = <<>> /\ \A p \in Producers : sent[p] = 0
    BY DEF Init
  <2>2. Len(stream) = 0 /\ Len(out) = 0
    BY <2>1
  <2> QED BY <1>4, <2>1, <2>2 DEF StreamFits
<1> QED BY <1>5, <1>8, <1>9, <1>10, <1>11 DEF RingInv

LEMMA CalmKeepsRing ==
    ASSUME IInv, RingInv, Calm
    PROVE  RingFits' /\ LeftFits' /\ PushFits' /\ PopFits'
<1>1. snapshot' = snapshot
  BY DEF Calm, snapshot
<1>2. RingFits'
  BY <1>1 DEF Calm, RingInv, RingFits, max_cap
<1>3. LeftFits'
  BY DEF Calm, CalmThread, LeftFits
<1>4. PushFits'
  <2> SUFFICES ASSUME NEW p \in Producers, pc'[p] \in Pushing
               PROVE  /\ Behind(snap'[p], snapshot')
                      /\ BytesInUse(snap'[p]) < max_cap
                      /\ pc'[p] # "grow" =>
                          BytesInUse(snap'[p]) + Pushed(p)'
                              <= Capacity(snapshot')
                      /\ pc'[p] = "publish" => moved'[p] = Pushed(p)'
    BY DEF PushFits, max_cap
  <2>1. pc'[p] = pc[p] /\ left'[p] = left[p]
    BY DEF Calm, CalmThread, Threads
  <2>2. snap'[p] = snap[p] /\ moved'[p] = moved[p]
    BY DEF Calm
  <2>3. Pushed(p)' = Pushed(p)
    BY <2>1, <2>2 DEF Pushed, max_cap
  <2> QED BY <1>1, <2>1, <2>2, <2>3 DEF RingInv, PushFits
<1>5. PopFits'
  <2> SUFFICES ASSUME NEW c \in Consumers, pc'[c] = "copy_out"
               PROVE  /\ Before(snap'[c], snapshot')
                      /\ BytesInUse(snap'[c]) > 0
    BY DEF PopFits
  <2>1. pc'[c] = pc[c]
    BY DEF Calm, CalmThread, Threads
  <2>2. snap'[c] = snap[c]
    BY DEF Calm
  <2> QED BY <1>1, <2>1, <2>2 DEF RingInv, PopFits
<1> QED BY <1>2, <1>3, <1>4, <1>5

(* What a thread has left, over the actions that are not calm.             *)
LEMMA CopiesKeepLeft ==
    ASSUME AlignedPipe, IInv, RingInv, Copies
    PROVE  LeftFits'
<1> USE DEF Moving, Pushing
<1>0. /\ \A p \in Producers : p \in Threads /\ p \notin Consumers
      /\ \A c \in Consumers : c \in Threads
      /\ pc \in [Threads -> Labels] /\ left \in [Threads -> Nat]
      /\ sent \in [Producers -> Int]
  BY ThreadsAssumption DEF Threads, IInv, TypeOK
<1>1. LeftFits
  BY DEF RingInv
<1>2. ASSUME NEW p \in Producers, RoomFound(p) \/ Grow(p) \/ CopyIn(p)
      PROVE  LeftFits'
  <2>1. /\ pc[p] \in Moving /\ left' = left /\ sent' = sent
        /\ \E label \in Pushing : pc' = [pc EXCEPT ![p] = label]
    BY <1>2 DEF RoomFound, Grow, CopyIn, Goto
  <2> QED BY <1>0, <1>1, <2>1 DEF LeftFits
<1>3. ASSUME NEW p \in Producers, Publish(p)
      PROVE  LeftFits'
  <2>1. /\ pc' = [pc EXCEPT ![p] = "pushed"]
        /\ left' = [left EXCEPT ![p] = left[p] - moved[p]]
        /\ sent' = [sent EXCEPT ![p] = sent[p] + moved[p]]
    BY <1>3 DEF Publish, Goto
  <2>2. \A t \in Threads : /\ pc'[t] # "reserve"
                           /\ pc'[t] \in Moving => left'[t] > 0
    BY <1>0, <1>1, <2>1 DEF LeftFits
  <2>3. \A q \in Producers : sent'[q] + left'[q] = sent[q] + left[q]
    <3>1. moved[p] \in Int /\ sent[p] \in Int /\ left[p] \in Int
      BY <1>0 DEF IInv, TypeOK
    <3>2. /\ left'[p] = left[p] - moved[p] /\ sent'[p] = sent[p] + moved[p]
          /\ \A q \in Producers \ {p} : left'[q] = left[q] /\ sent'[q] = sent[q]
      BY <1>0, <2>1
    <3> QED BY <3>1, <3>2
  <2> QED BY <1>1, <2>2, <2>3 DEF LeftFits
<1>4. ASSUME NEW c \in Consumers, ElementsFound(c) \/ Trim(c)
      PROVE  LeftFits'
  <2>1. /\ left' = left /\ sent' = sent
        /\ \E label \in {"copy_out", "popped"} :
              /\ pc' = [pc EXCEPT ![c] = label]
              /\ label = "copy_out" => pc[c] = "pop"
    BY <1>4 DEF ElementsFound, Trim, Goto, locals
  <2> QED BY <1>0, <1>1, <2>1 DEF LeftFits
<1>5. ASSUME NEW c \in Consumers, CopyOut(c)
      PROVE  LeftFits'
  <2>1. /\ sent' = sent /\ left' = [left EXCEPT ![c] = left[c] - Popped(c)]
        /\ \E label \in {"trim_end", "popped"} :
              pc' = [pc EXCEPT ![c] = label]
    BY <1>5 DEF CopyOut, Goto
  <2>2. \A p \in Producers : left'[p] = left[p]
    BY <1>0, <2>1
  <2> QED BY <1>0, <1>1, <2>1, <2>2 DEF LeftFits
<1> QED BY <1>2, <1>3, <1>4, <1>5 DEF Copies

LEMMA RoomFoundKeepsRing ==
    ASSUME AlignedPipe, IInv, RingInv, NEW p \in Producers, RoomFound(p)
    PROVE  RingFits' /\ PushFits' /\ PopFits'
<1>0. /\ p \in Threads /\ snap \in [Threads -> Snapshots]
      /\ pc \in [Threads -> Labels] /\ left[p] \in Nat
      /\ \A c \in Consumers : c \in Threads /\ c # p
      /\ \A q \in Producers : q \in Threads
  BY ThreadsAssumption DEF IInv, TypeOK, Threads
<1>1. snapshot' = snapshot /\ Fits(snapshot)
  BY DEF RoomFound, ring, snapshot, RingInv, RingFits
<1>2. /\ BytesInUse(snapshot) \in Nat /\ max_cap \in Nat
      /\ BytesInUse(snapshot) < max_cap /\ Capacity(snapshot) \in Nat
  <2>1. /\ BytesInUse(snapshot) \in 0..Capacity(snapshot)
        /\ Capacity(snapshot) \in Nat /\ BytesInUse(snapshot) \in Nat
    BY <1>1, UseFits
  <2>2. Capacity(snapshot) <= max_cap /\ max_cap \in Nat
    BY SizesFit DEF RingInv, RingFits
  <2>3. BytesInUse(snapshot) # max_cap
    BY DEF RoomFound
  <2> QED BY <2>1, <2>2, <2>3
<1>3. RingFits'
  BY <1>1 DEF RoomFound, ring, RingInv, RingFits, max_cap
<1>4. /\ snap' = [snap EXCEPT ![p] = snapshot] /\ left' = left
      /\ pc' = [pc EXCEPT ![p] = IF BytesNeeded(p) > Capacity(snapshot)
                                 THEN "grow" ELSE "copy_in"]
  BY DEF RoomFound, Goto
<1>5. PushFits'
  <2> SUFFICES ASSUME NEW q \in Producers, pc'[q] \in Pushing
               PROVE  /\ Behind(snap'[q], snapshot')
                      /\ BytesInUse(snap'[q]) < max_cap
                      /\ pc'[q] # "grow" =>
                          BytesInUse(snap'[q]) + Pushed(q)'
                              <= Capacity(snapshot')
                      /\ pc'[q] # "publish"
    BY DEF PushFits, max_cap
  <2>1. q = p
    <3>1. end_lock = NoThread
      BY DEF RoomFound
    <3>2. pc[q] \notin Pushing
      BY <3>1, NobodyPushes
    <3> QED BY <1>0, <1>4, <3>2
  <2>2. snap'[p] = snapshot /\ pc'[p] \in {"grow", "copy_in"}
    BY <1>0, <1>4
  <2>3. Behind(snapshot, snapshot)
    BY <1>1, <1>2 DEF Behind
  <2>4. pc'[p] # "grow" =>
            BytesInUse(snapshot) + Pushed(p)' <= Capacity(snapshot)
    <3>1. pc'[p] # "grow" =>
              BytesInUse(snapshot) + left[p] <= Capacity(snapshot)
      <4>1. /\ BytesNeeded(p) \in Nat
            /\ BytesNeeded(p) >= BytesInUse(snapshot) + left[p]
        BY <1>0, <1>2, NeededFits
      <4> QED BY <1>0, <1>2, <1>4, <4>1
    <3>2. Pushed(p)' = Least(left[p], max_cap - BytesInUse(snapshot))
      BY <1>4, <2>2 DEF Pushed, max_cap
    <3> QED BY <1>0, <1>2, <3>1, <3>2 DEF Least
  <2> QED BY <1>1, <1>2, <2>1, <2>2, <2>3, <2>4
<1>6. PopFits'
  <2>1. \A c \in Consumers : snap'[c] = snap[c] /\ pc'[c] = pc[c]
    BY <1>0, <1>4
  <2> QED BY <1>1, <2>1 DEF RingInv, PopFits
<1> QED BY <1>3, <1>5, <1>6

LEMMA GrowKeepsRing ==
    ASSUME AlignedPipe, IInv, RingInv, NEW p \in Producers, Grow(p)
    PROVE  RingFits' /\ PushFits' /\ PopFits'
<1>0. /\ p \in Threads /\ snap \in [Threads -> Snapshots]
      /\ pc \in [Threads -> Labels]
      /\ \A c \in Consumers : c \in Threads /\ c # p
      /\ \A q \in Producers : q \in Threads
  BY ThreadsAssumption DEF IInv, TypeOK, Threads
<1>1. /\ Fits(snapshot') /\ BytesInUse(snapshot') = BytesInUse(snapshot)
      /\ SizeFits(snapshot')
      /\ BytesInUse(snapshot')
         + Least(left[p], max_cap - BytesInUse(snapshot'))
             <= Capacity(snapshot')
      /\ BytesInUse(snapshot') < max_cap
  BY GrowFits
<1>2. RingFits'
  BY <1>1 DEF Grow, RingInv, RingFits, SizeFits, max_cap
<1>3. /\ snap' = [snap EXCEPT ![p] = snapshot'] /\ left' = left
      /\ pc' = [pc EXCEPT ![p] = "copy_in"] /\ pc[p] = "grow"
      /\ begin_lock = NoThread
  BY DEF Grow, Goto
<1>4. PushFits'
  <2> SUFFICES ASSUME NEW q \in Producers, pc'[q] \in Pushing
               PROVE  /\ Behind(snap'[q], snapshot')
                      /\ BytesInUse(snap'[q]) < max_cap
                      /\ BytesInUse(snap'[q]) + Pushed(q)'
                              <= Capacity(snapshot')
                      /\ pc'[q] # "publish"
    BY DEF PushFits, max_cap
  <2>1. q = p
    <3>1. pc[q] \in Pushing => q = p
      BY <1>0, <1>3, OnlyOnePushes DEF HoldsEnd
    <3> QED BY <1>0, <1>3, <3>1
  <2>2. snap'[p] = snapshot' /\ pc'[p] = "copy_in"
    BY <1>0, <1>3
  <2>3. Behind(snapshot', snapshot')
    <3>1. BytesInUse(snapshot') \in Nat
      BY <1>1, UseFits
    <3> QED BY <1>1, <3>1 DEF Behind
  <2>4. Pushed(p)' = Least(left[p], max_cap - BytesInUse(snapshot'))
    BY <1>3, <2>2 DEF Pushed, max_cap
  <2> QED BY <1>1, <2>1, <2>2, <2>3, <2>4
<1>5. PopFits'
  <2>1. \A c \in Consumers : pc'[c] # "copy_out"
    BY <1>0, <1>3, NobodyPops
  <2> QED BY <2>1 DEF PopFits
<1> QED BY <1>2, <1>4, <1>5

LEMMA CopyInKeepsRing ==
    ASSUME AlignedPipe, IInv, RingInv, NEW p \in Producers, CopyIn(p)
    PROVE  RingFits' /\ PushFits' /\ PopFits'
<1>0. /\ p \in Threads /\ moved \in [Threads -> Int]
      /\ pc \in [Threads -> Labels]
      /\ \A c \in Consumers : c \in Threads /\ c # p
      /\ \A q \in Producers : q \in Threads
  BY ThreadsAssumption DEF IInv, TypeOK, Threads
<1>1. /\ moved' = [moved EXCEPT ![p] = Pushed(p)]
      /\ pc' = [pc EXCEPT ![p] = "publish"] /\ pc[p] = "copy_in"
      /\ snap' = snap /\ left' = left /\ snapshot' = snapshot
  BY DEF CopyIn, Goto, snapshot
<1>2. RingFits'
  BY <1>1 DEF CopyIn, RingInv, RingFits, max_cap
<1>3. PushFits'
  <2> SUFFICES ASSUME NEW q \in Producers, pc'[q] \in Pushing
               PROVE  /\ Behind(snap'[q], snapshot')
                      /\ BytesInUse(snap'[q]) < max_cap
                      /\ BytesInUse(snap'[q]) + Pushed(q)'
                              <= Capacity(snapshot')
                      /\ moved'[q] = Pushed(q)'
    BY DEF PushFits, max_cap
  <2>1. q = p
    <3>1. pc[q] \in Pushing => q = p
      BY <1>0, <1>1, OnlyOnePushes DEF HoldsEnd
    <3> QED BY <1>0, <1>1, <3>1
  <2>2. Pushed(p)' = Pushed(p) /\ moved'[p] = Pushed(p)
    BY <1>0, <1>1 DEF Pushed, max_cap
  <2> QED BY <1>1, <2>1, <2>2 DEF RingInv, PushFits, Pushing
<1>4. PopFits'
  <2>1. \A c \in Consumers : pc'[c] = pc[c]
    BY <1>0, <1>1
  <2> QED BY <1>1, <2>1 DEF RingInv, PopFits
<1> QED BY <1>2, <1>3, <1>4

LEMMA PublishFitsRing ==
    ASSUME AlignedPipe, IInv, RingInv, NEW p \in Producers, Publish(p)
    PROVE  /\ Fits(snapshot') /\ Capacity(snapshot') = Capacity(snapshot)
           /\ BytesInUse(snapshot') = BytesInUse(snapshot) + moved[p]
           /\ moved[p] = Pushed(p) /\ moved[p] \in Nat \ {0}
           /\ BytesInUse(snap[p]) + moved[p] <= Capacity(snapshot)
           /\ Behind(snap[p], snapshot)
<1>1. pc[p] = "publish" /\ pc[p] \in Pushing
  BY DEF Publish, Pushing
<1>2. /\ Behind(snap[p], snapshot) /\ moved[p] = Pushed(p)
      /\ BytesInUse(snap[p]) + moved[p] <= Capacity(snapshot)
      /\ moved[p] \in Nat \ {0} /\ moved[p] \in Whole
  BY <1>1, PushedFits, PushedWhole DEF RingInv, PushFits
<1>3. /\ snapshot'.bufend = snapshot.bufend
      /\ snapshot'.begin = snapshot.begin
      /\ snapshot'.end = PushEnd(snap[p], moved[p])
  BY DEF Publish, snapshot
<1>4. Capacity(snap[p]) = Capacity(snapshot)
      /\ Capacity(snapshot') = Capacity(snapshot)
  BY <1>2, <1>3 DEF Behind, Capacity
<1>5. /\ Fits(snapshot')
      /\ BytesInUse(snapshot') = BytesInUse(snapshot) + moved[p]
  BY <1>2, <1>3, <1>4, PushEndFits
<1> QED BY <1>2, <1>4, <1>5

LEMMA PublishKeepsRing ==
    ASSUME AlignedPipe, IInv, RingInv, NEW p \in Producers, Publish(p)
    PROVE  RingFits' /\ PushFits' /\ PopFits'
<1>0. /\ p \in Threads /\ pc \in [Threads -> Labels]
      /\ \A c \in Consumers : c \in Threads /\ c # p
      /\ \A q \in Producers : q \in Threads
  BY ThreadsAssumption DEF IInv, TypeOK, Threads
<1>1. /\ Fits(snapshot') /\ Capacity(snapshot') = Capacity(snapshot)
      /\ BytesInUse(snapshot') = BytesInUse(snapshot) + moved[p]
      /\ moved[p] \in Nat
  BY PublishFitsRing
<1>2. pc' = [pc EXCEPT ![p] = "pushed"] /\ pc[p] = "publish" /\ snap' = snap
  BY DEF Publish, Goto
<1>3. RingFits'
  BY <1>1 DEF Publish, RingInv, RingFits, max_cap
<1>4. PushFits'
  <2>1. \A q \in Producers : pc'[q] \notin Pushing
    <3>1. \A q \in Producers : pc[q] \in Pushing => q = p
      BY <1>0, <1>2, OnlyOnePushes DEF HoldsEnd
    <3> QED BY <1>0, <1>2, <3>1 DEF Pushing
  <2> QED BY <2>1 DEF PushFits
<1>5. PopFits'
  <2> SUFFICES ASSUME NEW c \in Consumers, pc'[c] = "copy_out"
               PROVE  Before(snap[c], snapshot') /\ BytesInUse(snap[c]) > 0
    BY <1>2 DEF PopFits
  <2>1. pc[c] = "copy_out"
    BY <1>0, <1>2
  <2>2. Before(snap[c], snapshot) /\ BytesInUse(snap[c]) > 0
        /\ BytesInUse(snap[c]) \in Nat /\ BytesInUse(snapshot) \in Nat
    BY <2>1, PoppedFits DEF RingInv, PopFits
  <2>3. /\ snapshot'.bufend = snapshot.bufend
        /\ snapshot'.begin = snapshot.begin
    BY DEF Publish, snapshot
  <2> QED BY <1>1, <2>2, <2>3 DEF Before
<1> QED BY <1>3, <1>4, <1>5

LEMMA ElementsFoundKeepsRing ==
    ASSUME AlignedPipe, IInv, RingInv, NEW c \in Consumers, ElementsFound(c)
    PROVE  RingFits' /\ PushFits' /\ PopFits'
<1>0. /\ c \in Threads /\ snap \in [Threads -> Snapshots]
      /\ pc \in [Threads -> Labels]
      /\ \A p \in Producers : p \in Threads /\ p # c
      /\ \A d \in Consumers : d \in Threads
  BY ThreadsAssumption DEF IInv, TypeOK, Threads
<1>1. /\ snap' = [snap EXCEPT ![c] = snapshot] /\ left' = left
      /\ pc' = [pc EXCEPT ![c] = "copy_out"] /\ snapshot' = snapshot
      /\ moved' = moved /\ begin_lock = NoThread
      /\ BytesInUse(snapshot) # 0
  BY DEF ElementsFound, Goto, snapshot, ring
<1>2. RingFits'
  BY <1>1 DEF ElementsFound, ring, RingInv, RingFits, max_cap
<1>3. PushFits'
  <2>1. \A p \in Producers : snap'[p] = snap[p] /\ pc'[p] = pc[p]
    BY <1>0, <1>1
  <2>2. \A p \in Producers : Pushed(p)' = Pushed(p)
    BY <1>1, <2>1 DEF Pushed, max_cap
  <2> QED BY <1>1, <2>1, <2>2 DEF RingInv, PushFits, max_cap
<1>4. PopFits'
  <2> SUFFICES ASSUME NEW d \in Consumers, pc'[d] = "copy_out"
               PROVE  /\ Before(snap'[d], snapshot')
                      /\ BytesInUse(snap'[d]) > 0
    BY DEF PopFits
  <2>1. d = c
    <3>1. pc[d] # "copy_out"
      BY <1>1, NobodyPops
    <3> QED BY <1>0, <1>1, <3>1
  <2>2. snap'[c] = snapshot
    BY <1>0, <1>1
  <2>3. Fits(snapshot) /\ BytesInUse(snapshot) \in Nat
    BY UseFits DEF RingInv, RingFits
  <2>4. Before(snapshot, snapshot) /\ BytesInUse(snapshot) > 0
    BY <1>1, <2>3 DEF Before
  <2> QED BY <1>1, <2>1, <2>2, <2>4
<1> QED BY <1>2, <1>3, <1>4

LEMMA CopyOutFits ==
    ASSUME AlignedPipe, IInv, RingInv, NEW c \in Consumers, CopyOut(c)
    PROVE  /\ Before(snap[c], snapshot)
           /\ Popped(c) \in Nat \ {0} /\ Popped(c) <= BytesInUse(snap[c])
           /\ Fits(snapshot') /\ Capacity(snapshot') = Capacity(snapshot)
           /\ BytesInUse(snapshot') = BytesInUse(snapshot) - Popped(c)
           /\ \A i \in 1..BytesInUse(snapshot') :
                 At(snapshot', i) = At(snapshot, Popped(c) + i)
<1>1. pc[c] = "copy_out" /\ snap[c] \in Snapshots
  BY DEF CopyOut, IInv, TypeOK, Threads
<1>2. /\ Before(snap[c], snapshot) /\ Popped(c) \in Nat \ {0}
      /\ Popped(c) <= BytesInUse(snap[c]) /\ Popped(c) \in Whole
  BY <1>1, PoppedFits, PoppedWhole
<1>3. /\ snapshot'.bufend = snapshot.bufend
      /\ snapshot'.end = snapshot.end
      /\ snapshot'.begin = PopBegin(snap[c], Popped(c))
  <2>1. begin' = PopBegin(snap[c], Popped(c))
    BY <1>1 DEF CopyOut, Snapshots
  <2> QED BY <2>1 DEF CopyOut, snapshot
<1>4. Capacity(snapshot') = Capacity(snapshot)
  BY <1>3 DEF Capacity
<1>5. /\ Fits(snapshot')
      /\ BytesInUse(snapshot') = BytesInUse(snapshot) - Popped(c)
      /\ \A i \in 1..BytesInUse(snapshot') :
            At(snapshot', i) = At(snapshot, Popped(c) + i)
  <2> DEFINE u == snapshot'
  <2>1. u.bufend = snapshot.bufend /\ u.end = snapshot.end
        /\ u.begin = PopBegin(snap[c], Popped(c))
    BY <1>3
  <2> HIDE DEF u
  <2>2. /\ Fits(u) /\ BytesInUse(u) = BytesInUse(snapshot) - Popped(c)
        /\ \A i \in 1..BytesInUse(u) :
              At(u, i) = At(snapshot, Popped(c) + i)
    BY <1>2, <2>1, PopBeginFits
  <2> QED BY <2>2 DEF u
<1> QED BY <1>2, <1>4, <1>5

LEMMA CopyOutKeepsRing ==
    ASSUME AlignedPipe, IInv, RingInv, NEW c \in Consumers, CopyOut(c)
    PROVE  RingFits' /\ PushFits' /\ PopFits'
<1>0. /\ c \in Threads /\ pc \in [Threads -> Labels]
      /\ left \in [Threads -> Nat] /\ moved \in [Threads -> Int]
      /\ \A p \in Producers : p \in Threads /\ p # c
      /\ \A d \in Consumers : d \in Threads
  BY ThreadsAssumption DEF IInv, TypeOK, Threads
<1>1. /\ Fits(snapshot') /\ Capacity(snapshot') = Capacity(snapshot)
      /\ BytesInUse(snapshot') = BytesInUse(snapshot) - Popped(c)
      /\ Popped(c) \in Nat
  BY CopyOutFits
<1>2. /\ \E label \in {"popped", "trim_end"} :
            pc' = [pc EXCEPT ![c] = label]
      /\ pc[c] = "copy_out" /\ snap' = snap
      /\ left' = [left EXCEPT ![c] = left[c] - Popped(c)]
      /\ moved' = [moved EXCEPT ![c] = Popped(c)]
  BY DEF CopyOut, Goto
<1>3. RingFits'
  BY <1>1 DEF CopyOut, RingInv, RingFits, max_cap
<1>4. PushFits'
  <2> SUFFICES ASSUME NEW p \in Producers, pc'[p] \in Pushing
               PROVE  /\ Behind(snap'[p], snapshot')
                      /\ BytesInUse(snap'[p]) < max_cap
                      /\ pc'[p] # "grow" =>
                          BytesInUse(snap'[p]) + Pushed(p)'
                              <= Capacity(snapshot')
                      /\ pc'[p] = "publish" => moved'[p] = Pushed(p)'
    BY DEF PushFits, max_cap
  <2>1. pc'[p] = pc[p] /\ snap'[p] = snap[p] /\ moved'[p] = moved[p]
        /\ left'[p] = left[p]
    BY <1>0, <1>2
  <2>2. Pushed(p)' = Pushed(p)
    BY <2>1 DEF Pushed, max_cap
  <2>3. Behind(snap[p], snapshot')
    <3>1. /\ Behind(snap[p], snapshot) /\ BytesInUse(snap[p]) \in Nat
          /\ BytesInUse(snapshot) \in Nat
      BY <2>1, PushedFits
    <3>2. /\ snapshot'.bufend = snapshot.bufend
          /\ snapshot'.end = snapshot.end
      BY DEF CopyOut, snapshot
    <3>3. BytesInUse(snapshot') <= BytesInUse(snapshot)
      BY <1>1, <3>1
    <3>4. BytesInUse(snapshot') \in Nat
      BY <1>1, UseFits
    <3> QED BY <1>1, <3>1, <3>2, <3>3, <3>4 DEF Behind
  <2> QED BY <1>1, <2>1, <2>2, <2>3 DEF RingInv, PushFits
<1>5. PopFits'
  <2>1. \A d \in Consumers : pc'[d] # "copy_out"
    <3>1. \A d \in Consumers : pc[d] = "copy_out" => d = c
      BY <1>0, <1>2, OnlyOnePops DEF HoldsBegin
    <3> QED BY <1>0, <1>2, <3>1
  <2> QED BY <2>1 DEF PopFits
<1> QED BY <1>3, <1>4, <1>5

LEMMA TrimKeepsRing ==
    ASSUME AlignedPipe, IInv, RingInv, NEW c \in Consumers, Trim(c)
    PROVE  RingFits' /\ PushFits' /\ PopFits'
<1>0. /\ c \in Threads /\ pc \in [Threads -> Labels]
      /\ \A p \in Producers : p \in Threads /\ p # c
      /\ \A d \in Consumers : d \in Threads
  BY ThreadsAssumption DEF IInv, TypeOK, Threads
<1>1. /\ Fits(snapshot') /\ BytesInUse(snapshot') = BytesInUse(snapshot)
      /\ SizeFits(snapshot')
  BY TrimFits
<1>2. /\ pc' = [pc EXCEPT ![c] = "popped"] /\ pc[c] = "trim_begin"
      /\ begin_lock = NoThread
  BY DEF Trim, Goto
<1>3. RingFits'
  BY <1>1 DEF Trim, RingInv, RingFits, SizeFits, max_cap
<1>4. PushFits'
  <2>1. \A p \in Producers : pc'[p] \notin Pushing
    <3>1. \A p \in Producers : pc[p] \in Pushing => p = c
      BY <1>0, <1>2, OnlyOnePushes DEF HoldsEnd
    <3> QED BY <1>0, <1>2, <3>1
  <2> QED BY <2>1 DEF PushFits
<1>5. PopFits'
  <2>1. \A d \in Consumers : pc'[d] # "copy_out"
    BY <1>0, <1>2, NobodyPops
  <2> QED BY <2>1 DEF PopFits
<1> QED BY <1>3, <1>4, <1>5

(* Whole elements are asked for and whole elements move.                   *)
LEMMA LeftWholeStep ==
    ASSUME AlignedPipe, IInv, RingInv, [Next]_vars
    PROVE  LeftWhole'
<1>1. SUFFICES \/ left' = left
               \/ \E t \in Threads, x \in Whole :
                      left' = [left EXCEPT ![t] = x]
  BY DEF RingInv, LeftWhole, IInv, TypeOK
<1>2. /\ \A p \in Producers : p \in Threads
      /\ \A c \in Consumers : c \in Threads
      /\ \A t \in Threads : left[t] \in Whole
  BY DEF Threads, RingInv, LeftWhole
<1>3. ASSUME NEW n \in Nat
      PROVE  n * ElemSize \in Whole
  <2>1. n * ElemSize = ElemSize * n /\ n \in Int
    BY SizesType
  <2>2. ElemSize * n \in Whole
    BY <2>1 DEF Whole
  <2> QED BY <2>1, <2>2
<1>4. ASSUME NEW p \in Producers, ProducerCall(p) \/ ProducerStep(p)
      PROVE  \/ left' = left
             \/ \E x \in Whole : left' = [left EXCEPT ![p] = x]
  <2>1. CASE Push(p)
    <3>1. PICK n \in PushSizes : left' = [left EXCEPT ![p] = n * ElemSize]
      BY <2>1 DEF Push
    <3>2. n * ElemSize \in Whole
      BY <1>3, SizesAssumption
    <3> QED BY <3>1, <3>2
  <2>2. CASE NoConsumers(p)
    BY <2>2, WholeNumbers DEF NoConsumers
  <2>3. CASE Publish(p)
    <3>1. left' = [left EXCEPT ![p] = left[p] - moved[p]]
      BY <2>3 DEF Publish
    <3>2. moved[p] \in Whole
      BY <2>3, PushedWhole DEF Publish, RingInv, PushFits, Pushing
    <3>3. left[p] - moved[p] \in Whole
      BY <1>2, <3>2, WholeNumbers
    <3> QED BY <3>1, <3>3
  <2>4. CASE ~Push(p) /\ ~NoConsumers(p) /\ ~Publish(p)
    BY <1>4, <2>4 DEF ProducerCall, ProducerStep, ProducerNew, ProducerFree,
       RoomMissing, SleepForRoom, RoomFound, Grow, CopyIn, NotifyPushed,
       LastProducerLooks, locals
  <2> QED BY <2>1, <2>2, <2>3, <2>4
<1>5. ASSUME NEW c \in Consumers, ConsumerCall(c) \/ ConsumerStep(c)
      PROVE  \/ left' = left
             \/ \E x \in Whole : left' = [left EXCEPT ![c] = x]
  <2>1. CASE Pop(c)
    <3>1. PICK n \in PopSizes : left' = [left EXCEPT ![c] = n * ElemSize]
      BY <2>1 DEF Pop
    <3>2. n * ElemSize \in Whole
      BY <1>3, SizesAssumption
    <3> QED BY <3>1, <3>2
  <2>2. CASE CopyOut(c)
    <3>1. left' = [left EXCEPT ![c] = left[c] - Popped(c)]
      BY <2>2 DEF CopyOut
    <3>2. Popped(c) \in Whole
      BY <2>2, PoppedWhole DEF CopyOut
    <3>3. left[c] - Popped(c) \in Whole
      BY <1>2, <3>2, WholeNumbers
    <3> QED BY <3>1, <3>3
  <2>3. CASE ~Pop(c) /\ ~CopyOut(c)
    BY <1>5, <2>3 DEF ConsumerCall, ConsumerStep, ConsumerNew, ConsumerFree,
       ElementsFound, ElementsMissing, SleepForElements, EndOfStream,
       TrimLocksEnd, Trim, NotifyPopped, LastConsumerLooks, locals
  <2> QED BY <2>1, <2>2, <2>3
<1>6. ASSUME FreeProducers \/ OwnerStep
      PROVE  left' = left
  BY <1>6 DEF FreeProducers, OwnerStep, FreeConsumers, FreeBuffer, FreeWakes,
     Deallocate, locals
<1>7. ASSUME NEW t \in Threads,
             ReserveLocksEnd(t) \/ HandleStep(t) \/ SpuriousWakeup(t)
      PROVE  left' = left
  <2>1. ~ReserveLocksEnd(t) /\ ~Reserve(t)
    BY DEF ReserveLocksEnd, Reserve, RingInv, LeftFits, AlignedPipe
  <2> QED
    BY <1>7, <2>1 DEF HandleStep, LastHandleWakes, LastHandleDeallocates,
       Deallocate, SpuriousWakeup, locals
<1>8. CASE UNCHANGED vars
  BY <1>8 DEF vars, locals
<1>9. CASE Next
  <2>1. CASE \E p \in Producers : ProducerCall(p) \/ ProducerStep(p)
    BY <1>2, <1>4, <2>1
  <2>2. CASE \E c \in Consumers : ConsumerCall(c) \/ ConsumerStep(c)
    BY <1>2, <1>5, <2>2
  <2> QED BY <1>6, <1>7, <1>9, <2>1, <2>2 DEF Next
<1> QED BY <1>8, <1>9

(* A publication adds to both, a copy out takes from what is inside, and   *)
(* nothing else changes either.                                            *)
LEMMA PublishKeepsStream ==
    ASSUME IInv, RingInv, NEW p \in Producers, Publish(p),
           BytesInUse(snapshot') = BytesInUse(snapshot) + moved[p],
           moved[p] \in Nat
    PROVE  StreamFits'
<1> DEFINE n   == moved[p]
           add == [i \in 1..n |-> <<p, sent[p] + i>>]
           l   == Len(stream)
<1>1. /\ stream' = stream \o add /\ out' = out
      /\ sent' = [sent EXCEPT ![p] = sent[p] + n]
  BY DEF Publish
<1>2. /\ sent \in [Producers -> Int] /\ sent[p] \in Nat /\ n \in Nat
      /\ stream \in Seq(Producers \X Int) /\ out \in Seq(Bytes)
      /\ l \in Nat /\ Len(out) \in Nat /\ BytesInUse(snapshot) \in Nat
  <2>1. BytesInUse(snapshot) \in Nat
    BY UseFits DEF RingInv, RingFits
  <2> QED BY <2>1, LenProperties DEF IInv, TypeOK, RingInv, StreamFits
<1>3. add \in Seq(Producers \X Int) /\ Len(add) = n
      /\ \A i \in 1..n : add[i] = <<p, sent[p] + i>>
  <2>1. add \in [1..n -> Producers \X Int]
    BY <1>2
  <2>2. \A i \in 1..n : add[i] = <<p, sent[p] + i>>
    OBVIOUS
  <2> HIDE DEF add, n
  <2>3. add \in Seq(Producers \X Int) /\ Len(add) = n
    BY <1>2, <2>1, LenProperties
  <2> QED BY <2>2, <2>3
<1>4. StreamFits
  BY DEF RingInv
<1> HIDE DEF n, add, l
<1>5. /\ Len(stream \o add) = l + n
      /\ \A i \in 1..(l + n) : (stream \o add)[i] = IF i <= l THEN stream[i]
                                                  ELSE add[i - l]
  BY <1>2, <1>3, ConcatProperties DEF l
<1>6. /\ Len(stream') = l + n /\ \A i \in 1..l : stream'[i] = stream[i]
      /\ \A i \in 1..(l + n) : i > l => stream'[i] = <<p, sent[p] + (i - l)>>
  <2>1. Len(stream') = l + n /\ \A i \in 1..l : stream'[i] = stream[i]
    BY <1>1, <1>2, <1>5
  <2>2. ASSUME NEW i \in 1..(l + n), i > l
        PROVE  stream'[i] = <<p, sent[p] + (i - l)>>
    <3>1. i - l \in 1..n /\ ~(i <= l)
      BY <1>2, <2>2
    <3>2. stream'[i] = add[i - l]
      BY <1>1, <1>5, <3>1
    <3> QED BY <1>3, <3>1, <3>2
  <2> QED BY <2>1, <2>2
<1>7. /\ \A q \in Producers : sent[q] \in Nat
      /\ \A q \in Producers : sent'[q] \in Nat /\ sent'[q] >= sent[q]
      /\ sent'[p] = sent[p] + n
  BY <1>1, <1>2, <1>4 DEF StreamFits
<1>8. ASSUME NEW i \in 1..(l + n)
      PROVE  /\ stream'[i][1] \in Producers
             /\ stream'[i][2] \in 1..sent'[stream'[i][1]]
  <2>1. CASE i <= l
    <3>1. /\ stream[i][1] \in Producers
          /\ stream[i][2] \in 1..sent[stream[i][1]]
      BY <1>2, <1>4, <2>1 DEF StreamFits, l
    <3>2. stream'[i] = stream[i]
      BY <1>2, <1>6, <2>1
    <3> QED BY <1>7, <3>1, <3>2
  <2>2. CASE i > l
    <3>1. stream'[i] = <<p, sent[p] + (i - l)>>
      BY <1>6, <2>2
    <3>2. sent[p] + (i - l) \in 1..sent'[p]
      BY <1>2, <1>7, <2>2
    <3> QED BY <3>1, <3>2
  <2> QED BY <1>2, <2>1, <2>2
<1>9. ASSUME NEW i \in 1..(l + n), NEW j \in 1..(l + n), i > l, j <= l
      PROVE  stream'[i] # stream'[j]
  <2>1. stream'[i] = <<p, sent[p] + (i - l)>> /\ sent[p] + (i - l) > sent[p]
    BY <1>2, <1>6, <1>9
  <2>2. stream'[j] = stream[j] /\ stream[j][2] \in 1..sent[stream[j][1]]
    BY <1>2, <1>4, <1>6, <1>9 DEF StreamFits, l
  <2> QED BY <1>2, <2>1, <2>2
<1>10. ASSUME NEW i \in 1..(l + n), NEW j \in 1..(l + n),
              stream'[i] = stream'[j]
       PROVE  i = j
  <2>1. CASE i <= l /\ j <= l
    <3>1. stream[i] = stream[j] /\ i \in 1..l /\ j \in 1..l
      BY <1>2, <1>6, <1>10, <2>1
    <3> QED BY <1>4, <3>1 DEF StreamFits, l
  <2>2. CASE i > l /\ j > l
    <3>1. <<p, sent[p] + (i - l)>> = <<p, sent[p] + (j - l)>>
      BY <1>6, <1>10, <2>2
    <3>2. sent[p] + (i - l) = sent[p] + (j - l)
      BY <3>1
    <3> QED BY <1>2, <3>2
  <2> QED BY <1>2, <1>9, <1>10, <2>1, <2>2
<1>11. Len(stream') = Len(out') + BytesInUse(snapshot')
  BY <1>1, <1>2, <1>4, <1>6 DEF StreamFits, l, n
<1> QED BY <1>6, <1>7, <1>8, <1>10, <1>11 DEF StreamFits

LEMMA StreamFitsStep ==
    ASSUME AlignedPipe, IInv, RingInv, [Next]_vars
    PROVE  StreamFits'
<1>1. ASSUME UNCHANGED <<stream, out, sent>>,
             BytesInUse(snapshot') = BytesInUse(snapshot)
      PROVE  StreamFits'
  BY <1>1 DEF RingInv, StreamFits
<1>2. CASE Calm
  <2>1. snapshot' = snapshot
    BY <1>2 DEF Calm, snapshot
  <2> QED BY <1>1, <1>2, <2>1 DEF Calm
<1>3. ASSUME NEW p \in Producers, RoomFound(p) \/ CopyIn(p)
      PROVE  StreamFits'
  <2>1. snapshot' = snapshot /\ UNCHANGED <<stream, out, sent>>
    BY <1>3 DEF RoomFound, CopyIn, ring, histories, snapshot
  <2> QED BY <1>1, <2>1
<1>4. ASSUME NEW p \in Producers, Grow(p)
      PROVE  StreamFits'
  BY <1>1, <1>4, GrowFits DEF Grow, histories
<1>5. ASSUME NEW p \in Producers, Publish(p)
      PROVE  StreamFits'
  BY <1>5, PublishFitsRing, PublishKeepsStream
<1>6. ASSUME NEW c \in Consumers, ElementsFound(c)
      PROVE  StreamFits'
  <2>1. snapshot' = snapshot /\ UNCHANGED <<stream, out, sent>>
    BY <1>6 DEF ElementsFound, ring, histories, snapshot
  <2> QED BY <1>1, <2>1
<1>7. ASSUME NEW c \in Consumers, CopyOut(c)
      PROVE  StreamFits'
  <2> DEFINE n    == Popped(c)
             took == [i \in 1..n |-> Read(PopCell(snap[c], i - 1))]
  <2>1. /\ BytesInUse(snapshot') = BytesInUse(snapshot) - n /\ n \in Nat
        /\ BytesInUse(snapshot) \in Nat
    BY <1>7, CopyOutFits, UseFits DEF RingInv, RingFits
  <2>2. out' = out \o took /\ UNCHANGED <<stream, sent>>
    BY <1>7 DEF CopyOut
  <2>3. took \in Seq(Bytes) /\ Len(took) = n
    <3>1. took \in [1..n -> Bytes]
      BY ReadType DEF IInv
    <3> HIDE DEF took, n
    <3> QED BY <2>1, <3>1, LenProperties
  <2>4. out \in Seq(Bytes) /\ Len(out) \in Nat /\ Len(stream) \in Nat
    BY LenProperties DEF IInv, TypeOK
  <2> HIDE DEF took, n
  <2>5. Len(out') = Len(out) + n
    BY <2>2, <2>3, <2>4, ConcatProperties
  <2>6. Len(stream') = Len(out') + BytesInUse(snapshot')
    BY <2>1, <2>2, <2>4, <2>5 DEF RingInv, StreamFits
  <2> QED BY <2>2, <2>6 DEF RingInv, StreamFits
<1>8. ASSUME NEW c \in Consumers, Trim(c)
      PROVE  StreamFits'
  BY <1>1, <1>8, TrimFits DEF Trim, locals, histories
<1> QED
  BY <1>2, <1>3, <1>4, <1>5, <1>6, <1>7, <1>8, CalmOrCopies DEF Copies, RingInv

LEMMA RingInvStep ==
    ASSUME AlignedPipe, IInv, RingInv, [Next]_vars
    PROVE  RingInv'
<1>0. LeftWhole' /\ StreamFits'
  BY LeftWholeStep, StreamFitsStep
<1>1. CASE Calm
  BY <1>0, <1>1, CalmKeepsRing DEF RingInv
<1>2. CASE Copies
  <2>1. LeftFits'
    BY <1>2, CopiesKeepLeft
  <2>2. RingFits' /\ PushFits' /\ PopFits'
    BY <1>2, RoomFoundKeepsRing, GrowKeepsRing, CopyInKeepsRing,
       PublishKeepsRing, ElementsFoundKeepsRing, CopyOutKeepsRing,
       TrimKeepsRing DEF Copies
  <2> QED BY <1>0, <2>1, <2>2 DEF RingInv
<1> QED BY <1>1, <1>2, CalmOrCopies DEF RingInv

THEOREM RingInvariant == AlignedPipe => (Spec => []RingInv)
<1> SUFFICES ASSUME AlignedPipe PROVE Spec => []RingInv
  OBVIOUS
<1>1. Init => RingInv
  BY InitRingInv
<1>2. IInv /\ RingInv /\ [Next]_vars => RingInv'
  BY RingInvStep
<1> QED BY <1>1, <1>2, Invariant, PTL DEF Spec

-----------------------------------------------------------------------------
(* What follows from it.                                                   *)

(* Pushes, pops, growing and trimming may overlap in any way, over any     *)
(* number of rounds: the pointers stay inside the buffer and the bytes in  *)
(* use fit in it (check_invariants, pipe.c:483-498).                       *)
THEOREM PointersAreInOrder == AlignedPipe => (Spec => []PointersInOrder)
<1> SUFFICES ASSUME AlignedPipe PROVE Spec => []PointersInOrder
  OBVIOUS
<1>1. RingInv => PointersInOrder
  <2> SUFFICES ASSUME RingInv PROVE PointersInOrder
    OBVIOUS
  <2>1. Fits(snapshot)
    BY DEF RingInv, RingFits
  <2>2. /\ bufend \in Nat /\ begin \in 0..bufend /\ end \in 0..bufend
        /\ Capacity(snapshot) = bufend - ElemSize
        /\ BytesInUse(snapshot) \in 0..Capacity(snapshot)
    BY <2>1, UseFits, SnapshotFields DEF Fits
  <2>3. begin = end => BytesInUse(snapshot) = Capacity(snapshot)
    BY <2>1, FitsApart, SnapshotFields DEF BytesInUse, WrapsAround, Capacity
  <2> QED BY <2>2, <2>3 DEF PointersInOrder
<1> QED BY <1>1, RingInvariant, PTL

(* Growing never passes the limit and trimming never goes below the floor, *)
(* for any limit and any floor (check_invariants, pipe.c:500-501).         *)
THEOREM CapacityIsInOrder == AlignedPipe => (Spec => []CapacityInOrder)
<1> SUFFICES ASSUME AlignedPipe PROVE Spec => []CapacityInOrder
  OBVIOUS
<1>1. RingInv => CapacityInOrder
  BY SizesFit DEF RingInv, RingFits, CapacityInOrder, Floor
<1> QED BY <1>1, RingInvariant, PTL

(* The snapshot a push or a pop works from may be behind the other side's  *)
(* pointer: its own pointer is exact and the other errs on the safe side,  *)
(* whatever the other threads did meanwhile (pipe.c:282-289).              *)
THEOREM SnapshotsAreSafe == AlignedPipe => (Spec => []SnapshotsSafe)
<1> SUFFICES ASSUME AlignedPipe PROVE Spec => []SnapshotsSafe
  OBVIOUS
<1>1. IInv /\ RingInv => SnapshotsSafe
  <2> SUFFICES ASSUME IInv, RingInv PROVE SnapshotsSafe
    OBVIOUS
  <2>1. \A p \in Producers : pc[p] \in {"copy_in", "publish"} =>
            Behind(snap[p], snapshot)
    BY DEF RingInv, PushFits, Pushing
  <2>2. \A c \in Consumers : pc[c] = "copy_out" => Before(snap[c], snapshot)
    BY DEF RingInv, PopFits
  <2> QED BY <2>1, <2>2, SnapshotFields DEF SnapshotsSafe, Behind, Before
<1> QED BY <1>1, Invariant, RingInvariant, PTL

(* The cells a push writes, as places of the ring as it is now.            *)
LEMMA PushedPlaces ==
    ASSUME AlignedPipe, IInv, RingInv, NEW p \in Producers,
           pc[p] \in {"copy_in", "publish"}, NEW k \in 0..(Pushed(p) - 1)
    PROVE  /\ BytesInUse(snapshot) + 1 + k \in 1..Capacity(snapshot)
           /\ PushCell(snap[p], k)
                = At(snapshot, BytesInUse(snapshot) + 1 + k)
           /\ PushCell(snap[p], k) \in 0..(bufend - 1)
           /\ PushIndex(snap[p], PushCell(snap[p], k)) = k
<1>1. /\ Behind(snap[p], snapshot) /\ Pushed(p) \in Nat
      /\ BytesInUse(snapshot) \in Nat /\ BytesInUse(snap[p]) \in Nat
      /\ BytesInUse(snapshot) <= BytesInUse(snap[p])
  BY PushedFits DEF Pushing
<1>2. BytesInUse(snap[p]) + Pushed(p) <= Capacity(snapshot)
  BY DEF RingInv, PushFits, Pushing
<1>3. /\ Capacity(snapshot) \in Nat
      /\ Capacity(snap[p]) = Capacity(snapshot)
  BY <1>1, UseFits DEF Behind, Capacity
<1>4. BytesInUse(snapshot) + 1 + k \in 1..Capacity(snapshot)
  BY <1>1, <1>2, <1>3
<1>5. /\ PushCell(snap[p], k)
           = At(snapshot, BytesInUse(snapshot) + 1 + k)
      /\ PushIndex(snap[p], PushCell(snap[p], k)) = k
  BY <1>1, <1>2, <1>3, PushGoesBehind
<1>6. At(snapshot, BytesInUse(snapshot) + 1 + k) \in 0..(bufend - 1)
  BY <1>1, <1>4, AtFits, SnapshotFields DEF Behind
<1> QED BY <1>4, <1>5, <1>6

(* None of them holds a byte that is inside.                               *)
LEMMA PushedAreFree ==
    ASSUME AlignedPipe, IInv, RingInv, NEW p \in Producers,
           pc[p] \in {"copy_in", "publish"}, NEW k \in 0..(Pushed(p) - 1),
           NEW i \in 1..BytesInUse(snapshot)
    PROVE  PushCell(snap[p], k) # At(snapshot, i)
<1> SUFFICES ASSUME PushCell(snap[p], k) = At(snapshot, i) PROVE FALSE
  OBVIOUS
<1>1. /\ BytesInUse(snapshot) + 1 + k \in 1..Capacity(snapshot)
      /\ At(snapshot, BytesInUse(snapshot) + 1 + k) = At(snapshot, i)
  BY PushedPlaces
<1>2. Fits(snapshot) /\ BytesInUse(snapshot) \in Nat
      /\ Pushed(p) \in Nat
  BY PushedFits DEF Pushing, Behind
<1>3. i \in 1..Capacity(snapshot)
  <2>1. /\ BytesInUse(snapshot) \in 0..Capacity(snapshot)
        /\ Capacity(snapshot) \in Nat
    BY <1>2, UseFits
  <2> QED BY <1>2, <2>1
<1>4. BytesInUse(snapshot) + 1 + k = i
  BY <1>1, <1>2, <1>3, AtApart
<1> QED BY <1>2, <1>4

(* A push writes while a pop reads, without a common mutex: no cell of the *)
(* one is a cell of the other, or holds a byte not yet read, or is outside *)
(* the buffer (process_push, pop_without_locking).                         *)
THEOREM CopiesAreDisjoint == AlignedPipe => (Spec => []CopiesDisjoint)
<1> SUFFICES ASSUME AlignedPipe PROVE Spec => []CopiesDisjoint
  OBVIOUS
<1>1. IInv /\ RingInv => CopiesDisjoint
  <2> SUFFICES ASSUME IInv, RingInv, NEW p \in Producers, pc[p] = "copy_in"
               PROVE  /\ PushedCells(p) \subseteq 0..(bufend - 1)
                      /\ PushedCells(p) \cap UnreadCells = {}
                      /\ \A c \in Consumers : pc[c] = "copy_out" =>
                          PushedCells(p) \cap PoppedCells(c) = {}
    BY DEF CopiesDisjoint
  <2>1. PushedCells(p) \subseteq 0..(bufend - 1)
    BY PushedPlaces DEF PushedCells
  <2>2. \A k \in 0..(BytesInUse(snapshot) - 1) :
            /\ Around(snapshot, ElemSize + k) = At(snapshot, k + 1)
            /\ k + 1 \in 1..BytesInUse(snapshot)
    <3>1. BytesInUse(snapshot) \in Nat
      BY PushedFits DEF Pushing
    <3>2. \A k \in Int : ElemSize + (k + 1) - 1 = ElemSize + k
      BY WholeNumbers
    <3> QED BY <3>1, <3>2 DEF At
  <2>3. PushedCells(p) \cap UnreadCells = {}
    BY <2>2, PushedAreFree DEF PushedCells, UnreadCells
  <2>4. ASSUME NEW c \in Consumers, pc[c] = "copy_out"
        PROVE  PoppedCells(c) \subseteq UnreadCells
    <3>1. /\ Before(snap[c], snapshot) /\ Popped(c) \in Nat
          /\ Popped(c) <= BytesInUse(snap[c])
          /\ BytesInUse(snap[c]) \in Nat /\ BytesInUse(snapshot) \in Nat
          /\ BytesInUse(snap[c]) <= BytesInUse(snapshot)
      BY <2>4, PoppedFits
    <3>2. ASSUME NEW k \in 0..(Popped(c) - 1)
          PROVE  /\ k \in 0..(BytesInUse(snapshot) - 1)
                 /\ PopCell(snap[c], k) = Around(snapshot, ElemSize + k)
      <4>1. k \in 0..(BytesInUse(snapshot) - 1)
        BY <3>1
      <4>2. PopCell(snap[c], k) = At(snapshot, k + 1)
        BY <3>1, PopTakesOldest
      <4> QED BY <2>2, <4>1, <4>2
    <3> QED BY <3>2 DEF PoppedCells, UnreadCells
  <2> QED BY <2>1, <2>3, <2>4
<1> QED BY <1>1, Invariant, RingInvariant, PTL

LEMMA PowersStay ==
    ASSUME NEW n \in Powers
    PROVE  NextPow2(n) = n
<1>1. n \in Int /\ TopBit \in Int /\ Powers \subseteq Int
  BY PowersType
<1>2. CASE n >= TopBit
  BY <1>2 DEF NextPow2
<1>3. CASE ~(n >= TopBit)
  <2> DEFINE P(m) == m >= n /\ \A k \in Powers : k >= n => m <= k
  <2>1. NextPow2(n) = CHOOSE m \in Powers : P(m)
    BY <1>3 DEF NextPow2
  <2>2. P(n)
    BY <1>1
  <2>3. NextPow2(n) \in Powers /\ P(NextPow2(n))
    <3> HIDE DEF P
    <3> QED BY <2>1, <2>2, Zenon
  <2>4. NextPow2(n) >= n /\ NextPow2(n) <= n
    BY <1>1, <2>3
  <2>5. NextPow2(n) \in Int
    BY <1>1, <2>3
  <2> QED BY <1>1, <2>4, <2>5
<1> QED BY <1>2, <1>3

(* Every cell a push writes was asked of malloc (pipe.c:315-316): pipe_new *)
(* asks for elem_size * cap and uses cap + elem_size, which is no more if  *)
(* an element has two bytes or more; a resize asks for what it uses.       *)
THEOREM CopiesAreInside ==
    AlignedPipe /\ ElemSize > 1 => (Spec => []CopiesInsideAllocation)
<1> SUFFICES ASSUME AlignedPipe, ElemSize > 1
             PROVE  Spec => []CopiesInsideAllocation
  OBVIOUS
<1> DEFINE Asked == bufend <= allocated
<1>1. Init => Asked
  <2> SUFFICES ASSUME Init PROVE Asked
    OBVIOUS
  <2>1. /\ bufend = Floor + ElemSize /\ allocated = ElemSize * Floor
        /\ Floor \in Nat /\ ElemSize \in Nat /\ ElemSize <= Floor
    BY SizesFit, WholeNumbers DEF Init, Floor
  <2>2. 2 * Floor <= ElemSize * Floor
    BY <2>1
  <2> QED BY <2>1, <2>2
<1>2. ASSUME IInv', Asked, [Next]_vars
      PROVE  Asked'
  <2>1. SUFFICES \/ UNCHANGED <<bufend, allocated>>
                 \/ \E size : MoveTo(size)
    BY <1>2 DEF MoveTo, Moved, IInv, TypeOK
  <2>2. ASSUME NEW size, NEW floor, ResizeBuffer(size, floor)
        PROVE  \/ UNCHANGED <<bufend, allocated>>
               \/ \E n : MoveTo(n)
    BY <2>2 DEF ResizeBuffer
  <2>3. ASSUME NEW p \in Producers, ProducerCall(p) \/ ProducerStep(p)
        PROVE  \/ UNCHANGED <<bufend, allocated>>
               \/ \E size : MoveTo(size)
    BY <2>2, <2>3 DEF ProducerCall, ProducerStep, ProducerNew, Push,
       ProducerFree, NoConsumers, RoomMissing, SleepForRoom, RoomFound, Grow,
       CopyIn, Publish, NotifyPushed, LastProducerLooks, ring
  <2>4. ASSUME NEW c \in Consumers, ConsumerCall(c) \/ ConsumerStep(c)
        PROVE  \/ UNCHANGED <<bufend, allocated>>
               \/ \E size : MoveTo(size)
    BY <2>2, <2>4 DEF ConsumerCall, ConsumerStep, ConsumerNew, Pop,
       ConsumerFree, ElementsFound, ElementsMissing, SleepForElements,
       EndOfStream, CopyOut, TrimLocksEnd, Trim, NotifyPopped,
       LastConsumerLooks, ring
  <2>5. ASSUME FreeProducers \/ OwnerStep
        PROVE  UNCHANGED <<bufend, allocated>>
    BY <2>5 DEF FreeProducers, OwnerStep, FreeConsumers, FreeBuffer, FreeWakes,
       Deallocate, ring
  <2>6. ASSUME NEW t \in Threads,
               ReserveLocksEnd(t) \/ HandleStep(t) \/ SpuriousWakeup(t)
        PROVE  \/ UNCHANGED <<bufend, allocated>>
               \/ \E size : MoveTo(size)
    BY <2>2, <2>6 DEF ReserveLocksEnd, HandleStep, Reserve, LastHandleWakes,
       LastHandleDeallocates, Deallocate, SpuriousWakeup, ring
  <2>7. CASE UNCHANGED vars
    BY <2>7 DEF vars, ring
  <2> QED BY <1>2, <2>3, <2>4, <2>5, <2>6, <2>7 DEF Next
<1>3. IInv /\ RingInv /\ Asked => CopiesInsideAllocation
  <2> SUFFICES ASSUME IInv, RingInv, Asked,
                      NEW p \in Producers, pc[p] = "copy_in",
                      NEW k \in 0..(Pushed(p) - 1)
               PROVE  PushCell(snap[p], k) < allocated
    BY DEF CopiesInsideAllocation, PushedCells
  <2>1. PushCell(snap[p], k) \in 0..(bufend - 1)
    BY PushedPlaces
  <2> QED BY <2>1 DEF IInv, TypeOK
<1> HIDE DEF Asked
<1>4. Spec => []Asked
  BY <1>1, <1>2, Invariant, PTL DEF Spec
<1> QED BY <1>3, <1>4, Invariant, RingInvariant, PTL

(* The product of two powers of two is one, unless it is too large.        *)
LEMMA PowersMultiply ==
    ASSUME NEW a \in Powers, NEW b \in Powers, a * b <= TopBit
    PROVE  a * b \in Powers
<1> DEFINE S == {n \in Nat : n \in Powers /\ n * b <= TopBit => n * b \in Powers}
<1>0. a \in Nat /\ b \in Nat \ {0} /\ TopBit \in Nat
  BY PowersAssumption
<1>1. ASSUME NEW n \in Nat, \A m \in 0..(n - 1) : m \in S
      PROVE  n \in S
  <2> SUFFICES ASSUME n \in Powers, n * b <= TopBit PROVE n * b \in Powers
    OBVIOUS
  <2>1. CASE n = 1
    BY <1>0, <2>1
  <2>2. CASE n # 1
    <3>1. PICK k \in Powers : n = 2 * k
      BY <2>2, PowersAssumption
    <3>2. k \in Nat /\ k >= 1 /\ k < n
      BY <3>1, PowersAssumption
    <3>3. n * b = 2 * (k * b) /\ k * b \in Nat /\ k * b >= 1
      BY <1>0, <3>1, <3>2
    <3>4. k * b \in Powers /\ k * b # TopBit
      <4>1. k \in S
        BY <1>1, <3>2
      <4>2. k * b < TopBit
        BY <1>0, <3>3
      <4> QED BY <1>0, <3>3, <4>1, <4>2
    <3>5. 2 * (k * b) \in Powers
      BY <3>4, PowersAssumption
    <3> QED BY <3>3, <3>5
  <2> QED BY <2>1, <2>2
<1>2. Nat \subseteq S
  <2> HIDE DEF S
  <2> QED BY <1>1, AllNumbers
<1> QED BY <1>0, <1>2

(* "it will never have more than `limit' elements in it at any time"       *)
(* (pipe.h:149-150), for a limit that is a power of two and not below the  *)
(* least capacity; pipe_new rounds any other up.                           *)
THEOREM LimitIsKept ==
    AlignedPipe /\ Limit \in Powers /\ MinCap <= Limit
        /\ Limit * ElemSize <= TopBit
        => (Spec => []AtMostLimit)
<1> SUFFICES ASSUME AlignedPipe, Limit \in Powers, MinCap <= Limit,
                    Limit * ElemSize <= TopBit
             PROVE  Spec => []AtMostLimit
  OBVIOUS
<1>1. max_cap = Limit * ElemSize
  <2>1. /\ Limit # 0 /\ Limit \in Nat /\ MinCap \in Nat /\ ElemSize \in Nat
        /\ ElemSize \in Powers
    BY SizesType, SizesAssumption, PowersAssumption DEF AlignedPipe
  <2>2. MinCap * ElemSize <= Limit * ElemSize /\ Limit * ElemSize \in Nat
        /\ MinCap * ElemSize \in Nat
    BY <2>1
  <2>3. Greatest(Limit * ElemSize, MinCap * ElemSize) = Limit * ElemSize
    BY <2>2 DEF Greatest
  <2>4. Limit * ElemSize \in Powers
    BY <2>1, PowersMultiply
  <2> QED BY <2>1, <2>3, <2>4, PowersStay DEF max_cap
<1>2. RingInv => AtMostLimit
  <2> SUFFICES ASSUME RingInv PROVE BytesInUse(snapshot) <= Limit * ElemSize
    BY DEF AtMostLimit
  <2>1. /\ BytesInUse(snapshot) \in 0..Capacity(snapshot)
        /\ Capacity(snapshot) <= Limit * ElemSize /\ Capacity(snapshot) \in Nat
    BY <1>1, UseFits DEF RingInv, RingFits
  <2> QED BY <2>1, SizesType
<1> QED BY <1>2, RingInvariant, PTL
=============================================================================
