----------------------------- MODULE HeapProofs -----------------------------
(***************************************************************************)
(* Proofs about Heap, for any layouts whose padding fits its field: the    *)
(* blocks tile the heap, data is where it was asked for, and no size       *)
(* underflows.  The inductive invariant speaks of pairs of blocks and of   *)
(* single bytes, so that a step concerns only the blocks it changes.       *)
(***************************************************************************)
EXTENDS Heap, FiniteSetTheorems, SequenceTheorems, WellFoundedInduction, TLAPS

-----------------------------------------------------------------------------
(* Quotients, remainders and least elements. *)

\* Quotient and remainder exist.
LEMMA DivisionExists ==
  ASSUME NEW c \in Nat \ {0}, NEW a \in Int
  PROVE  a = (a \div c) * c + (a % c) /\ a % c \in 0..(c - 1) /\ a \div c \in Int
  OBVIOUS

\* Quotient and remainder are unique.
LEMMA DivisionUnique ==
  ASSUME NEW c \in Nat \ {0}, NEW q \in Int, NEW r \in 0..(c - 1)
  PROVE  (q * c + r) % c = r /\ (q * c + r) \div c = q
  OBVIOUS

\* The remainder of a sum needs only the remainder of its parts.
LEMMA RemainderAdd ==
  ASSUME NEW c \in Nat \ {0}, NEW a \in Int, NEW b \in Int
  PROVE  ((a % c) + b) % c = (a + b) % c
  <1> DEFINE q == a \div c
             r == a % c
             q2 == (r + b) \div c
             r2 == (r + b) % c
  <1>1. a = q * c + r /\ q \in Int /\ r \in Int
    BY DivisionExists
  <1> HIDE DEF q, r
  <1>2. r + b \in Int
    BY <1>1
  <1>3. r + b = q2 * c + r2 /\ q2 \in Int /\ r2 \in 0..(c - 1)
    BY <1>2, DivisionExists
  <1> HIDE DEF q2, r2
  <1>4. a + b = (q + q2) * c + r2 /\ q + q2 \in Int
    BY <1>1, <1>3
  <1>5. ((q + q2) * c + r2) % c = r2
    BY <1>3, <1>4, DivisionUnique
  <1> QED
    BY <1>4, <1>5 DEF r, r2

\* Numbers less than c apart differ modulo c.
LEMMA RemainderApart ==
  ASSUME NEW c \in Nat \ {0}, NEW a \in Int, NEW b \in Int,
         a % c = b % c, a - b < c, b - a < c
  PROVE  a = b
  <1> DEFINE q == a \div c
             r == a % c
             q2 == b \div c
  <1>1. a = q * c + r /\ q \in Int /\ r \in Int
    BY DivisionExists
  <1>2. b = q2 * c + r /\ q2 \in Int
    BY DivisionExists
  <1> HIDE DEF q, r, q2
  <1>3. a - b = (q - q2) * c
    BY <1>1, <1>2
  <1>4. q - q2 = 0
    BY <1>1, <1>2, <1>3
  <1> QED
    BY <1>1, <1>2, <1>4

\* A small number is its own remainder.
LEMMA RemainderSmall ==
  ASSUME NEW c \in Nat \ {0}, NEW a \in 0..(c - 1)
  PROVE  a % c = a
  OBVIOUS

\* A set of naturals that is not empty has a least element.
LEMMA LeastElement ==
  ASSUME NEW N, N \subseteq Nat, N # {}
  PROVE  \E i \in N : \A j \in N : i <= j
  <1> DEFINE R == OpToRel(<, Nat)
  <1>1. PICK x \in N : \A y \in N : <<y, x>> \notin R
    BY NatLessThanWellFounded, WFMin
  <1>2. \A y \in N : y < x => <<y, x>> \in R
    BY DEF OpToRel
  <1> HIDE DEF R
  <1>3. \A y \in N : ~(y < x)
    BY <1>1, <1>2, Zenon
  <1>4. \A y \in N : x <= y
    BY <1>3
  <1> QED
    BY <1>4

-----------------------------------------------------------------------------
Block == [addr : Nat, size : Nat]

\* A block where a free header can be written, below n.
Fits(b, n) ==
  /\ b \in Block /\ b.addr % Word = 0 /\ b.size % Word = 0
  /\ b.size >= FreeHeaderSize /\ EndOf(b) <= n

\* Two blocks have no byte in common.
Apart(b, d) == EndOf(b) <= d.addr \/ EndOf(d) <= b.addr

\* The byte a is in the block b, in a block of the list.
Holds(b, a) == b.addr <= a /\ a < EndOf(b)
ListHolds(list, a) == \E i \in 1..Len(list) : Holds(list[i], a)

\* The list is sorted by address and its blocks are apart.
Sorted(list) == \A i, j \in 1..Len(list) : i < j => EndOf(list[i]) <= list[j].addr

Moving == {c \in Contexts : ctx[c].at = "add"}

\* Calls are at one of their sections, with what it needs.
CallsInv ==
  /\ DOMAIN ctx = Contexts
  /\ \A c \in Contexts :
       /\ ctx[c].at \in {"idle", "find", "add", "grow"}
       /\ ctx[c].at \in {"find", "grow"} => ctx[c].layout \in Layouts
       /\ ctx[c].at = "add" => /\ ctx[c].then \in {"idle", "find"}
                               /\ ctx[c].then = "find" => ctx[c].layout \in Layouts
                               /\ Fits(ctx[c].block, size)

SizeInv == size \in Nat /\ size <= MaxHeap /\ size % Word = 0 /\ size >= FreeHeaderSize

\* The free list is a sorted list of blocks.
FreeInv ==
  /\ free \in Seq(Block) /\ Sorted(free)
  /\ \A i \in 1..Len(free) : Fits(free[i], size)

\* The data of an allocated block lies in the block that its header names.
DataOK(x) ==
  /\ x.data \in Nat /\ x.padding \in Nat /\ x.layout \in Layouts
  /\ x.data % x.layout.align = 0
  /\ x.data + x.layout.size <= EndOf(BlockOf(x))
LiveInv == \A x \in live : Fits(BlockOf(x), size) /\ DataOK(x)

\* No byte is in two blocks.
ApartInv ==
  /\ \A x \in live, y \in live : x # y => Apart(BlockOf(x), BlockOf(y))
  /\ \A c \in Moving, d \in Moving : c # d => Apart(ctx[c].block, ctx[d].block)
  /\ \A i \in 1..Len(free), x \in live : Apart(free[i], BlockOf(x))
  /\ \A i \in 1..Len(free), c \in Moving : Apart(free[i], ctx[c].block)
  /\ \A x \in live, c \in Moving : Apart(BlockOf(x), ctx[c].block)

\* Every byte is in a block.
CoverInv ==
  \A a \in 0..size - 1 : \/ ListHolds(free, a)
                         \/ \E x \in live : Holds(BlockOf(x), a)
                         \/ \E c \in Moving : Holds(ctx[c].block, a)

KernelInv == kernel \in {"running", "spinning", "panicked"}

IInv == SizeInv /\ KernelInv /\ CallsInv /\ FreeInv /\ LiveInv /\ ApartInv /\ CoverInv

-----------------------------------------------------------------------------
(* Multiples of a word, and rounding. *)

LEMMA Constants ==
  /\ Word \in Nat \ {0} /\ PAGE_SIZE \in Nat \ {0} /\ MaxHeap \in Nat
  /\ PAGE_SIZE % Word = 0
  /\ \A l \in Layouts : l.size \in Nat \ {0} /\ l.align \in Nat \ {0}
  /\ HeaderSize = Word /\ FreeHeaderSize = 3 * Word
  BY HeapAssumption DEF HeaderSize, FreeHeaderSize

\* What is left when a multiple is added.
LEMMA MultipleAdd ==
  ASSUME NEW c \in Nat \ {0}, NEW a \in Int, NEW b \in Int, a % c = 0
  PROVE  (a + b) % c = b % c
  <1>1. ((a % c) + b) % c = (a + b) % c
    BY RemainderAdd
  <1> QED
    BY <1>1

\* Differences of multiples are multiples.
LEMMA MultipleSub ==
  ASSUME NEW c \in Nat \ {0}, NEW a \in Int, NEW b \in Int, a % c = 0, b % c = 0
  PROVE  (a - b) % c = 0
  <1>1. a - b \in Int /\ b + (a - b) = a
    OBVIOUS
  <1>2. (b + (a - b)) % c = (a - b) % c
    BY <1>1, MultipleAdd
  <1> QED
    BY <1>1, <1>2

\* A product with a multiple is a multiple.
LEMMA MultipleTimes ==
  ASSUME NEW c \in Nat \ {0}, NEW p \in Nat, p % c = 0, NEW q \in Int
  PROVE  (q * p) % c = 0
  <1> DEFINE k == p \div c
  <1>1. p = k * c + (p % c) /\ k \in Int
    BY DivisionExists
  <1>2. p = k * c
    BY <1>1
  <1> HIDE DEF k
  <1>3. q * p = (q * k) * c + 0 /\ q * k \in Int
    BY <1>1, <1>2
  <1>4. 0 \in 0..(c - 1)
    OBVIOUS
  <1>5. ((q * k) * c + 0) % c = 0
    BY <1>3, <1>4, DivisionUnique
  <1> QED
    BY <1>3, <1>5

\* align_offset leads to the next multiple.
LEMMA AlignOffsetRounds ==
  ASSUME NEW a \in Nat, NEW n \in Nat \ {0}
  PROVE  AlignOffset(a, n) \in 0..(n - 1) /\ (a + AlignOffset(a, n)) % n = 0
  <1> DEFINE q == a \div n
             r == a % n
  <1>1. a = q * n + r /\ q \in Int /\ r \in 0..(n - 1)
    BY DivisionExists
  <1> HIDE DEF q, r
  <1>2. AlignOffset(a, n) = (n - r) % n
    BY DEF AlignOffset, r
  <1>3. CASE r = 0
    <2>1. (1 * n + 0) % n = 0
      BY DivisionUnique
    <2>2. AlignOffset(a, n) = 0
      BY <1>2, <1>3, <2>1
    <2>3. (q * n + 0) % n = 0
      BY <1>1, DivisionUnique
    <2> QED
      BY <1>1, <1>3, <2>2, <2>3
  <1>4. CASE r # 0
    <2>1. n - r \in 0..(n - 1)
      BY <1>1, <1>4
    <2>2. AlignOffset(a, n) = n - r
      BY <1>2, <2>1, RemainderSmall
    <2> DEFINE q1 == q + 1
    <2>3. a + AlignOffset(a, n) = q1 * n + 0 /\ q1 \in Int
      BY <1>1, <2>2
    <2> HIDE DEF q1
    <2>4. 0 \in 0..(n - 1)
      OBVIOUS
    <2>5. (q1 * n + 0) % n = 0
      BY <2>3, <2>4, DivisionUnique
    <2> QED
      BY <2>1, <2>2, <2>3, <2>5
  <1> QED
    BY <1>3, <1>4

\* ... and past no multiple.
LEMMA AlignOffsetLeast ==
  ASSUME NEW a \in Nat, NEW n \in Nat \ {0}, NEW m \in Nat, a <= m, m % n = 0
  PROVE  a + AlignOffset(a, n) <= m
  <1> DEFINE o == AlignOffset(a, n)
             u == a + o
  <1>1. o \in 0..(n - 1) /\ u % n = 0
    BY AlignOffsetRounds
  <1>2. u \in Nat /\ u - a < n
    BY <1>1
  <1> HIDE DEF o, u
  <1>3. CASE u <= m
    BY <1>3 DEF u, o
  <1>4. CASE m < u
    <2>1. u - m < n /\ m - u < n /\ u \in Int /\ m \in Int /\ u % n = m % n
      BY <1>1, <1>2, <1>4
    <2>2. u = m
      BY <2>1, RemainderApart
    <2> QED
      BY <1>4, <2>2
  <1> QED
    BY <1>2, <1>3, <1>4

\* The larger of two sizes.
LEMMA MaxOfTwo ==
  ASSUME NEW a \in Nat, NEW b \in Nat
  PROVE  Max({a, b}) \in {a, b} /\ Max({a, b}) >= a /\ Max({a, b}) >= b
  <1>1. \E x \in {a, b} : \A y \in {a, b} : x >= y
    <2>1. CASE a >= b
      BY <2>1
    <2>2. CASE b >= a
      BY <2>2
    <2> QED
      BY <2>1, <2>2
  <1> QED
    BY <1>1 DEF Max

\* The heap grows by whole pages, by at least what is asked.
LEMMA GrowthFacts ==
  ASSUME NEW total \in Nat, total >= FreeHeaderSize, NEW l \in Layouts
  PROVE  /\ Growth(total, l) \in Nat /\ Growth(total, l) >= FreeHeaderSize
         /\ Growth(total, l) % Word = 0
  <1> DEFINE half == total \div 2
             m == Max({total + half, l.size})
             q == (m + PAGE_SIZE - 1) \div PAGE_SIZE
             r == (m + PAGE_SIZE - 1) % PAGE_SIZE
  <1>1. half \in Nat
    OBVIOUS
  <1>2. total + half \in Nat /\ total + half >= total /\ l.size \in Nat
    BY <1>1, Constants
  <1>3. m \in Nat /\ m >= total
    BY <1>2, MaxOfTwo
  <1>4. Growth(total, l) = q * PAGE_SIZE
    BY DEF Growth
  <1> HIDE DEF half, m
  <1>5. m + PAGE_SIZE - 1 \in Int
    BY <1>3, Constants
  <1>6. /\ m + PAGE_SIZE - 1 = q * PAGE_SIZE + r
        /\ q \in Int /\ r \in 0..(PAGE_SIZE - 1)
    BY <1>5, DivisionExists, Constants
  <1> HIDE DEF q, r
  <1>7. q * PAGE_SIZE \in Int
    BY <1>6, Constants
  <1>8. q * PAGE_SIZE >= m
    BY <1>3, <1>6, <1>7, Constants
  <1>9. (q * PAGE_SIZE) % Word = 0
    BY <1>6, MultipleTimes, Constants
  <1> QED
    BY <1>3, <1>4, <1>7, <1>8, <1>9, Constants

-----------------------------------------------------------------------------
(* The free list. *)

\* Min is the least element.
LEMMA MinIsLeast ==
  ASSUME NEW N, N \subseteq Nat, N # {}
  PROVE  Min(N) \in N /\ \A j \in N : Min(N) <= j
  BY LeastElement DEF Min

\* RemoveAt leaves the other elements in their order.
LEMMA RemoveAtFacts ==
  ASSUME NEW S, NEW s \in Seq(S), NEW i \in 1..Len(s)
  PROVE  /\ RemoveAt(s, i) \in Seq(S) /\ Len(RemoveAt(s, i)) = Len(s) - 1
         /\ \A j \in 1..Len(s) - 1 : RemoveAt(s, i)[j] = IF j < i THEN s[j] ELSE s[j + 1]
  <1> DEFINE p == SubSeq(s, 1, i - 1)
             q == SubSeq(s, i + 1, Len(s))
  <1>1. Len(s) \in Nat /\ \A j \in 1..Len(s) : s[j] \in S
    OBVIOUS
  <1>2. \A j \in 1..(i - 1) : s[j] \in S
    BY <1>1
  <1>3. \A j \in (i + 1)..Len(s) : s[j] \in S
    BY <1>1
  <1>4. /\ p \in Seq(S) /\ Len(p) = i - 1
        /\ \A j \in 1..(i - 1) : p[j] = s[j]
    BY <1>1, <1>2, SubSeqProperties
  <1>5. /\ q \in Seq(S) /\ Len(q) = Len(s) - i
        /\ \A j \in 1..(Len(s) - i) : q[j] = s[i + j]
    <2>1. /\ q \in Seq(S) /\ Len(q) = IF i + 1 <= Len(s) THEN Len(s) - (i + 1) + 1 ELSE 0
          /\ \A j \in 1..(Len(s) - (i + 1) + 1) : q[j] = s[(i + 1) + j - 1]
      BY <1>1, <1>3, SubSeqProperties
    <2> HIDE DEF q
    <2> QED
      BY <1>1, <2>1
  <1>6. RemoveAt(s, i) = p \o q
    BY DEF RemoveAt
  <1> HIDE DEF p, q
  <1>7. /\ p \o q \in Seq(S) /\ Len(p \o q) = Len(p) + Len(q)
        /\ \A j \in 1..Len(p) + Len(q) : (p \o q)[j] = IF j <= Len(p) THEN p[j] ELSE q[j - Len(p)]
    BY <1>4, <1>5, ConcatProperties
  <1> DEFINE r == p \o q
  <1> HIDE DEF r
  <1>8. ASSUME NEW j \in 1..Len(s) - 1
        PROVE  r[j] = IF j < i THEN s[j] ELSE s[j + 1]
    <2>1. /\ j \in 1..Len(p) + Len(q)
          /\ r[j] = IF j <= Len(p) THEN p[j] ELSE q[j - Len(p)]
      BY <1>1, <1>4, <1>5, <1>7 DEF r
    <2>2. CASE j < i
      BY <1>4, <2>1, <2>2
    <2>3. CASE ~(j < i)
      <3> DEFINE d == j - (i - 1)
      <3>1. d \in 1..(Len(s) - i) /\ i + d = j + 1 /\ ~(j <= Len(p)) /\ j - Len(p) = d
        BY <1>1, <1>4, <2>3
      <3> HIDE DEF d
      <3>2. q[d] = s[j + 1]
        BY <1>5, <3>1
      <3> QED
        BY <2>1, <2>3, <3>1, <3>2
    <2> QED
      BY <2>2, <2>3
  <1> QED
    BY <1>1, <1>4, <1>5, <1>6, <1>7, <1>8 DEF r

\* InsertAt moves the elements from i on by one.
LEMMA InsertAtFacts ==
  ASSUME NEW S, NEW s \in Seq(S), NEW i \in 1..Len(s), NEW e \in S
  PROVE  /\ InsertAt(s, i, e) \in Seq(S) /\ Len(InsertAt(s, i, e)) = Len(s) + 1
         /\ \A j \in 1..Len(s) + 1 :
              InsertAt(s, i, e)[j] = IF j < i THEN s[j] ELSE IF j = i THEN e ELSE s[j - 1]
  <1> DEFINE p == SubSeq(s, 1, i - 1)
             one == <<e>>
             q == SubSeq(s, i, Len(s))
  <1>1. Len(s) \in Nat /\ \A j \in 1..Len(s) : s[j] \in S
    OBVIOUS
  <1>2. \A j \in 1..(i - 1) : s[j] \in S
    BY <1>1
  <1>3. \A j \in i..Len(s) : s[j] \in S
    BY <1>1
  <1>4. /\ p \in Seq(S) /\ Len(p) = i - 1
        /\ \A j \in 1..(i - 1) : p[j] = s[j]
    BY <1>1, <1>2, SubSeqProperties
  <1>5. /\ q \in Seq(S) /\ Len(q) = Len(s) - i + 1
        /\ \A j \in 1..(Len(s) - i + 1) : q[j] = s[i + j - 1]
    BY <1>1, <1>3, SubSeqProperties
  <1>6. one \in Seq(S) /\ Len(one) = 1 /\ one[1] = e
    OBVIOUS
  <1>7. InsertAt(s, i, e) = (p \o one) \o q
    BY DEF InsertAt
  <1> HIDE DEF p, one, q
  <1> DEFINE u == p \o one
  <1>8. /\ u \in Seq(S) /\ Len(u) = i
        /\ \A j \in 1..i : u[j] = IF j < i THEN s[j] ELSE e
    <2>1. /\ u \in Seq(S) /\ Len(u) = Len(p) + Len(one)
          /\ \A j \in 1..Len(p) + Len(one) : u[j] = IF j <= Len(p) THEN p[j] ELSE one[j - Len(p)]
      BY <1>4, <1>6, ConcatProperties
    <2> HIDE DEF u
    <2> QED
      BY <1>1, <1>4, <1>6, <2>1
  <1> HIDE DEF u
  <1> DEFINE r == u \o q
  <1>9. /\ r \in Seq(S) /\ Len(r) = Len(u) + Len(q)
        /\ \A j \in 1..Len(u) + Len(q) : r[j] = IF j <= Len(u) THEN u[j] ELSE q[j - Len(u)]
    BY <1>5, <1>8, ConcatProperties
  <1>10. InsertAt(s, i, e) = r
    BY <1>7 DEF u
  <1> HIDE DEF r
  <1>11. ASSUME NEW j \in 1..Len(s) + 1
         PROVE  r[j] = IF j < i THEN s[j] ELSE IF j = i THEN e ELSE s[j - 1]
    <2>1. /\ j \in 1..Len(u) + Len(q)
          /\ r[j] = IF j <= Len(u) THEN u[j] ELSE q[j - Len(u)]
      BY <1>1, <1>5, <1>8, <1>9
    <2>2. CASE j <= i
      BY <1>8, <2>1, <2>2
    <2>3. CASE ~(j <= i)
      <3> DEFINE d == j - i
      <3>1. d \in 1..(Len(s) - i + 1) /\ i + d - 1 = j - 1 /\ ~(j <= Len(u)) /\ j - Len(u) = d
        BY <1>1, <1>8, <2>3
      <3> HIDE DEF d
      <3>2. q[d] = s[j - 1]
        BY <1>5, <3>1
      <3> QED
        BY <2>1, <2>3, <3>1, <3>2
    <2> QED
      BY <2>2, <2>3
  <1> QED
    BY <1>1, <1>5, <1>8, <1>9, <1>10, <1>11

\* A block of a list below n, in numbers.
LEMMA FitsFacts ==
  ASSUME NEW n \in Nat, NEW b, Fits(b, n)
  PROVE  /\ b \in Block /\ b.addr \in Nat /\ b.size \in Nat /\ b.size > 0
         /\ EndOf(b) = b.addr + b.size /\ EndOf(b) \in Nat /\ EndOf(b) > b.addr /\ EndOf(b) <= n
         /\ EndOf(b) % Word = 0
  <1>1. /\ b \in Block /\ b.addr \in Nat /\ b.size \in Nat /\ b.addr % Word = 0 /\ b.size % Word = 0
        /\ b.size >= 3 * Word
    BY Constants DEF Fits, Block
  <1>2. (b.addr + b.size) % Word = 0
    <2> DEFINE a == b.addr
               z == b.size
    <2>1. a \in Int /\ z \in Int /\ a % Word = 0 /\ z % Word = 0 /\ Word \in Nat \ {0}
      BY <1>1, Constants
    <2> HIDE DEF a, z
    <2>2. (a + z) % Word = 0
      BY <2>1, MultipleAdd
    <2> QED
      BY <2>2 DEF a, z
  <1> QED
    BY <1>1, <1>2, Constants DEF Fits, EndOf

\* What adding a block to a list must achieve.
Joins(r, list, new, n) ==
  /\ r \in Seq(Block) /\ Sorted(r) /\ \A i \in 1..Len(r) : Fits(r[i], n)
  /\ \A a \in Int : ListHolds(r, a) <=> ListHolds(list, a) \/ Holds(new, a)

\* A block above all others.
LEMMA AppendJoins ==
  ASSUME NEW n \in Nat, NEW list \in Seq(Block), Sorted(list), \A i \in 1..Len(list) : Fits(list[i], n),
         NEW new, Fits(new, n), \A i \in 1..Len(list) : EndOf(list[i]) <= new.addr
  PROVE  Joins(Append(list, new), list, new, n)
  <1> DEFINE r == Append(list, new)
  <1>1. new \in Block
    BY DEF Fits
  <1>2. /\ r \in Seq(Block) /\ Len(r) = Len(list) + 1 /\ r[Len(list) + 1] = new
        /\ \A i \in 1..Len(list) : r[i] = list[i]
    BY <1>1, AppendProperties
  <1>3. Len(list) \in Nat
    OBVIOUS
  <1> HIDE DEF r
  <1>4. Sorted(r)
    BY <1>2, <1>3 DEF Sorted
  <1>5. \A i \in 1..Len(r) : Fits(r[i], n)
    BY <1>2, <1>3
  <1>6. \A a \in Int : ListHolds(r, a) <=> ListHolds(list, a) \/ Holds(new, a)
    BY <1>2, <1>3 DEF ListHolds
  <1> QED
    BY <1>2, <1>4, <1>5, <1>6 DEF Joins, r

\* A block between two others.
LEMMA InsertJoins ==
  ASSUME NEW n \in Nat, NEW list \in Seq(Block), Sorted(list), \A i \in 1..Len(list) : Fits(list[i], n),
         NEW new, Fits(new, n), NEW k \in 1..Len(list),
         \A i \in 1..Len(list) : i < k => EndOf(list[i]) <= new.addr,
         \A i \in 1..Len(list) : i >= k => EndOf(new) <= list[i].addr
  PROVE  Joins(InsertAt(list, k, new), list, new, n)
  <1> DEFINE r == InsertAt(list, k, new)
  <1>1. new \in Block
    BY DEF Fits
  <1>2. /\ r \in Seq(Block) /\ Len(r) = Len(list) + 1
        /\ \A j \in 1..Len(list) + 1 : r[j] = IF j < k THEN list[j] ELSE IF j = k THEN new ELSE list[j - 1]
    BY <1>1, InsertAtFacts
  <1>3. Len(list) \in Nat /\ k \in Nat
    OBVIOUS
  <1> HIDE DEF r
  <1>4. /\ \A j \in 1..Len(list) : j < k => r[j] = list[j]
        /\ r[k] = new
        /\ \A j \in 1..Len(list) : j >= k => r[j + 1] = list[j]
    BY <1>2, <1>3
  <1>5. \A j \in 1..Len(r) : \/ j < k /\ r[j] = list[j]
                             \/ j = k /\ r[j] = new
                             \/ j > k /\ j - 1 \in 1..Len(list) /\ r[j] = list[j - 1]
    BY <1>2, <1>3
  <1>6. ASSUME NEW i \in 1..Len(r), NEW j \in 1..Len(r), i < j
        PROVE  EndOf(r[i]) <= r[j].addr
    <2>1. CASE j < k
      <3>1. i \in 1..Len(list) /\ j \in 1..Len(list) /\ r[i] = list[i] /\ r[j] = list[j]
        BY <1>2, <1>3, <1>4, <1>6, <2>1
      <3> QED
        BY <1>6, <3>1 DEF Sorted
    <2>2. CASE j = k
      BY <1>2, <1>3, <1>6, <2>2
    <2>3. CASE j > k
      <3>1. j - 1 \in 1..Len(list) /\ r[j] = list[j - 1] /\ j - 1 >= k
        BY <1>2, <1>3, <2>3
      <3>2. CASE i < k
        <4>1. i \in 1..Len(list) /\ r[i] = list[i] /\ i < j - 1
          BY <1>2, <1>3, <1>4, <3>1, <3>2
        <4> QED
          BY <3>1, <4>1 DEF Sorted
      <3>3. CASE i = k
        BY <1>4, <3>1, <3>3
      <3>4. CASE i > k
        <4>1. i - 1 \in 1..Len(list) /\ r[i] = list[i - 1] /\ i - 1 < j - 1
          BY <1>2, <1>3, <1>6, <3>4
        <4> QED
          BY <3>1, <4>1 DEF Sorted
      <3> QED
        BY <3>2, <3>3, <3>4, <1>3
    <2> QED
      BY <2>1, <2>2, <2>3, <1>3
  <1>7. \A i \in 1..Len(r) : Fits(r[i], n)
    BY <1>2, <1>3, <1>5
  <1>8. ASSUME NEW a \in Int
        PROVE  ListHolds(r, a) <=> ListHolds(list, a) \/ Holds(new, a)
    <2>1. ASSUME ListHolds(r, a) PROVE ListHolds(list, a) \/ Holds(new, a)
      <3>1. PICK j \in 1..Len(r) : Holds(r[j], a)
        BY <2>1 DEF ListHolds
      <3>2. CASE j < k
        <4>1. j \in 1..Len(list) /\ r[j] = list[j]
          BY <1>3, <1>4, <3>2
        <4> QED
          BY <3>1, <4>1 DEF ListHolds
      <3>3. CASE j = k
        BY <1>4, <3>1, <3>3
      <3>4. CASE j > k
        BY <1>3, <1>5, <3>1, <3>4 DEF ListHolds
      <3> QED
        BY <3>2, <3>3, <3>4, <1>3
    <2>2. ASSUME Holds(new, a) PROVE ListHolds(r, a)
      <3>1. k \in 1..Len(r)
        BY <1>2, <1>3
      <3> QED
        BY <2>2, <3>1, <1>4 DEF ListHolds
    <2>3. ASSUME ListHolds(list, a) PROVE ListHolds(r, a)
      <3>1. PICK i \in 1..Len(list) : Holds(list[i], a)
        BY <2>3 DEF ListHolds
      <3>2. i \in 1..Len(r) /\ i + 1 \in 1..Len(r)
        BY <1>2, <1>3
      <3> QED
        BY <3>1, <3>2, <1>3, <1>4 DEF ListHolds
    <2> QED
      BY <2>1, <2>2, <2>3
  <1> QED
    BY <1>2, <1>6, <1>7, <1>8 DEF Joins, Sorted, r

\* A block merged with one of the list.
LEMMA MergeJoins ==
  ASSUME NEW n \in Nat, NEW list \in Seq(Block), Sorted(list), \A i \in 1..Len(list) : Fits(list[i], n),
         NEW new, NEW k \in 1..Len(list), NEW m, Fits(m, n),
         \A i \in 1..Len(list) : i < k => EndOf(list[i]) <= m.addr,
         \A i \in 1..Len(list) : i > k => EndOf(m) <= list[i].addr,
         \A a \in Int : Holds(m, a) <=> Holds(list[k], a) \/ Holds(new, a)
  PROVE  Joins([list EXCEPT ![k] = m], list, new, n)
  <1> DEFINE r == [list EXCEPT ![k] = m]
  <1>1. m \in Block
    BY DEF Fits
  <1>2. /\ r \in Seq(Block) /\ Len(r) = Len(list) /\ r[k] = m
        /\ \A i \in 1..Len(list) : i # k => r[i] = list[i]
    BY <1>1
  <1>3. Len(list) \in Nat /\ k \in Nat
    OBVIOUS
  <1> HIDE DEF r
  <1>4. Sorted(r)
    BY <1>2, <1>3 DEF Sorted
  <1>5. \A i \in 1..Len(r) : Fits(r[i], n)
    BY <1>2, <1>3
  <1>6. \A a \in Int : ListHolds(r, a) <=> ListHolds(list, a) \/ Holds(new, a)
    BY <1>2, <1>3 DEF ListHolds
  <1> QED
    BY <1>2, <1>4, <1>5, <1>6 DEF Joins, r

\* add_free_block stops at the first block that is adjacent or higher.
LEMMA AddFreeIndex ==
  ASSUME NEW list \in Seq(Block), NEW new
  PROVE  LET Stop(b) == EndOf(new) = b.addr \/ new.addr = EndOf(b) \/ new.addr < b.addr
             i == SelectInSeq(list, LAMBDA b : EndOf(new) = b.addr \/ new.addr = EndOf(b)
                                               \/ new.addr < b.addr)
         IN  /\ i = 0 => \A j \in 1..Len(list) : ~Stop(list[j])
             /\ i # 0 => /\ i \in 1..Len(list) /\ Stop(list[i])
                         /\ \A j \in 1..Len(list) : j < i => ~Stop(list[j])
  <1> DEFINE Stop(b) == EndOf(new) = b.addr \/ new.addr = EndOf(b) \/ new.addr < b.addr
             N == {j \in 1..Len(list) : Stop(list[j])}
             i == SelectInSeq(list, LAMBDA b : EndOf(new) = b.addr \/ new.addr = EndOf(b)
                                               \/ new.addr < b.addr)
  <1>1. i = IF N # {} THEN Min(N) ELSE 0
    BY DEF SelectInSeq
  <1>2. N \subseteq Nat /\ Len(list) \in Nat
    OBVIOUS
  <1>3. N # {} => Min(N) \in N /\ \A j \in N : Min(N) <= j
    <2> HIDE DEF N
    <2> QED
      BY <1>2, MinIsLeast
  <1> HIDE DEF i
  <1>4. CASE N = {}
    <2>1. i = 0
      BY <1>1, <1>4
    <2>2. \A j \in 1..Len(list) : ~Stop(list[j])
      BY <1>4
    <2> QED
      BY <2>1, <2>2 DEF i
  <1>5. CASE N # {}
    <2>1. i \in N /\ \A j \in N : i <= j
      BY <1>1, <1>3, <1>5
    <2>2. i \in 1..Len(list) /\ Stop(list[i])
      BY <2>1
    <2>3. \A j \in 1..Len(list) : j < i => ~Stop(list[j])
      BY <2>1, <2>2, <1>2
    <2>4. i # 0
      BY <2>2, <1>2
    <2> QED
      BY <2>2, <2>3, <2>4 DEF i
  <1> QED
    BY <1>4, <1>5

\* A block that is apart from those of a sorted list is added to it: what the
\* list holds is what it held and the block, whatever was merged.
LEMMA AddFreeJoins ==
  ASSUME NEW n \in Nat, NEW list \in Seq(Block), Sorted(list), \A i \in 1..Len(list) : Fits(list[i], n),
         NEW new, Fits(new, n), \A i \in 1..Len(list) : Apart(list[i], new)
  PROVE  Joins(AddFreeBlock(list, new), list, new, n)
  <1> DEFINE Stop(b) == EndOf(new) = b.addr \/ new.addr = EndOf(b) \/ new.addr < b.addr
             i == SelectInSeq(list, LAMBDA b : EndOf(new) = b.addr \/ new.addr = EndOf(b)
                                               \/ new.addr < b.addr)
  <1>1. /\ i = 0 => \A j \in 1..Len(list) : ~Stop(list[j])
        /\ i # 0 => /\ i \in 1..Len(list) /\ Stop(list[i])
                    /\ \A j \in 1..Len(list) : j < i => ~Stop(list[j])
    BY AddFreeIndex
  <1>2. AddFreeBlock(list, new) =
          IF i = 0 THEN Append(list, new)
          ELSE IF EndOf(new) = list[i].addr
            THEN [list EXCEPT ![i] = [addr |-> new.addr, size |-> new.size + list[i].size]]
          ELSE IF new.addr = EndOf(list[i])
            THEN [list EXCEPT ![i] = [list[i] EXCEPT !.size = list[i].size + new.size]]
          ELSE InsertAt(list, i, new)
    BY DEF AddFreeBlock
  <1> HIDE DEF i
  <1>3. /\ new.addr \in Nat /\ new.size \in Nat /\ new.size > 0
        /\ EndOf(new) = new.addr + new.size /\ EndOf(new) \in Nat /\ EndOf(new) > new.addr /\ EndOf(new) <= n
    BY FitsFacts
  <1>4. \A j \in 1..Len(list) :
          /\ list[j] \in Block /\ list[j].addr \in Nat /\ list[j].size \in Nat /\ list[j].size > 0
          /\ EndOf(list[j]) = list[j].addr + list[j].size /\ EndOf(list[j]) \in Nat
          /\ EndOf(list[j]) > list[j].addr /\ EndOf(list[j]) <= n
    BY FitsFacts
  <1>5. \A j \in 1..Len(list) : ~Stop(list[j]) => EndOf(list[j]) <= new.addr
    BY <1>3, <1>4 DEF Apart
  <1>6. CASE i = 0
    BY <1>1, <1>2, <1>5, <1>6, AppendJoins
  <1>7. CASE i # 0 /\ EndOf(new) = list[i].addr
    <2> DEFINE m == [addr |-> new.addr, size |-> new.size + list[i].size]
    <2>1. i \in 1..Len(list) /\ \A j \in 1..Len(list) : j < i => EndOf(list[j]) <= new.addr
      BY <1>1, <1>5, <1>7
    <2>2. m.addr = new.addr /\ m.size = new.size + list[i].size /\ m \in Block /\ EndOf(m) = EndOf(list[i])
      <3>1. m.addr = new.addr /\ m.size = new.size + list[i].size
        OBVIOUS
      <3>2. new.size + list[i].size \in Nat
        BY <1>3, <1>4, <2>1
      <3>3. m \in Block
        BY <1>3, <3>2 DEF Block
      <3> HIDE DEF m
      <3>4. EndOf(m) = new.addr + (new.size + list[i].size)
        BY <3>1 DEF EndOf
      <3>5. EndOf(m) = EndOf(list[i])
        BY <1>3, <1>4, <1>7, <2>1, <3>4
      <3> QED
        BY <3>1, <3>3, <3>5
    <2> HIDE DEF m
    <2>3. m.addr % Word = 0 /\ m.size % Word = 0
      <3> DEFINE z1 == new.size
                 z2 == list[i].size
      <3>1. z1 \in Int /\ z2 \in Int /\ z1 % Word = 0 /\ z2 % Word = 0
        BY <1>3, <1>4, <2>1 DEF Fits
      <3> HIDE DEF z1, z2
      <3>2. (z1 + z2) % Word = 0
        BY <3>1, MultipleAdd, Constants
      <3> QED
        BY <2>2, <3>2 DEF z1, z2, Fits
    <2>4. new.size >= FreeHeaderSize /\ FreeHeaderSize \in Nat
      BY Constants DEF Fits
    <2>5. Fits(m, n)
      BY <1>3, <1>4, <2>1, <2>2, <2>3, <2>4 DEF Fits
    <2>6. \A j \in 1..Len(list) : j > i => EndOf(m) <= list[j].addr
      BY <2>1, <2>2 DEF Sorted
    <2>7. \A a \in Int : Holds(m, a) <=> Holds(list[i], a) \/ Holds(new, a)
      BY <1>3, <1>4, <1>7, <2>1, <2>2 DEF Holds
    <2>8. AddFreeBlock(list, new) = [list EXCEPT ![i] = m]
      BY <1>2, <1>7 DEF m
    <2>9. \A j \in 1..Len(list) : j < i => EndOf(list[j]) <= m.addr
      BY <2>1, <2>2
    <2>10. Joins([list EXCEPT ![i] = m], list, new, n)
      BY <2>1, <2>5, <2>6, <2>7, <2>9, MergeJoins
    <2> QED
      BY <2>8, <2>10
  <1>8. CASE i # 0 /\ EndOf(new) # list[i].addr /\ new.addr = EndOf(list[i])
    <2> DEFINE m == [list[i] EXCEPT !.size = list[i].size + new.size]
    <2>1. i \in 1..Len(list) /\ \A j \in 1..Len(list) : j < i => EndOf(list[j]) <= list[i].addr
      BY <1>1, <1>8 DEF Sorted
    <2>2. m.addr = list[i].addr /\ m.size = list[i].size + new.size /\ m \in Block /\ EndOf(m) = EndOf(new)
      <3> DEFINE b == list[i]
                 z == list[i].size + new.size
      <3>1. b \in Block /\ z \in Nat
        BY <1>3, <1>4, <2>1
      <3>2. m = [b EXCEPT !.size = z]
        OBVIOUS
      <3> HIDE DEF b, z, m
      <3>3. m.addr = b.addr /\ m.size = z /\ m \in Block
        BY <3>1, <3>2 DEF Block
      <3>4. b.addr + z = EndOf(new)
        BY <1>3, <1>4, <1>8, <2>1 DEF b, z
      <3> QED
        BY <3>3, <3>4 DEF b, z, EndOf
    <2> HIDE DEF m
    <2>3. m.addr % Word = 0 /\ m.size % Word = 0
      <3> DEFINE z1 == list[i].size
                 z2 == new.size
      <3>1. z1 \in Int /\ z2 \in Int /\ z1 % Word = 0 /\ z2 % Word = 0
        BY <1>3, <1>4, <2>1 DEF Fits
      <3> HIDE DEF z1, z2
      <3>2. (z1 + z2) % Word = 0
        BY <3>1, MultipleAdd, Constants
      <3> QED
        BY <2>1, <2>2, <3>2 DEF z1, z2, Fits
    <2>4. new.size >= FreeHeaderSize /\ FreeHeaderSize \in Nat
      BY Constants DEF Fits
    <2>5. Fits(m, n)
      BY <1>3, <1>4, <2>1, <2>2, <2>3, <2>4 DEF Fits
    <2>6. \A j \in 1..Len(list) : j > i => EndOf(m) <= list[j].addr
      BY <1>3, <1>4, <1>8, <2>1, <2>2 DEF Sorted, Apart
    <2>7. \A a \in Int : Holds(m, a) <=> Holds(list[i], a) \/ Holds(new, a)
      BY <1>3, <1>4, <1>8, <2>1, <2>2 DEF Holds
    <2>8. AddFreeBlock(list, new) = [list EXCEPT ![i] = m]
      BY <1>2, <1>8 DEF m
    <2>9. \A j \in 1..Len(list) : j < i => EndOf(list[j]) <= m.addr
      BY <2>1, <2>2
    <2>10. Joins([list EXCEPT ![i] = m], list, new, n)
      BY <2>1, <2>5, <2>6, <2>7, <2>9, MergeJoins
    <2> QED
      BY <2>8, <2>10
  <1>9. CASE i # 0 /\ EndOf(new) # list[i].addr /\ new.addr # EndOf(list[i])
    <2>1. i \in 1..Len(list) /\ new.addr < list[i].addr
      BY <1>1, <1>9
    <2>2. \A j \in 1..Len(list) : j < i => EndOf(list[j]) <= new.addr
      BY <1>1, <1>5, <1>9
    <2>3. EndOf(new) <= list[i].addr
      BY <1>3, <1>4, <2>1 DEF Apart
    <2>4. \A j \in 1..Len(list) : j >= i => EndOf(new) <= list[j].addr
      BY <1>3, <1>4, <2>1, <2>3 DEF Sorted
    <2> QED
      BY <1>2, <1>9, <2>1, <2>2, <2>4, InsertJoins
  <1> QED
    BY <1>6, <1>7, <1>8, <1>9

\* A block apart from what was joined is apart from the result.
LEMMA JoinsApart ==
  ASSUME NEW n \in Nat, NEW list \in Seq(Block), NEW new, NEW r, Joins(r, list, new, n),
         \A i \in 1..Len(list) : Fits(list[i], n), Fits(new, n),
         NEW b, Fits(b, n), \A i \in 1..Len(list) : Apart(list[i], b), Apart(new, b)
  PROVE  \A i \in 1..Len(r) : Apart(r[i], b)
  <1> SUFFICES ASSUME NEW i \in 1..Len(r), ~Apart(r[i], b) PROVE FALSE
    OBVIOUS
  <1>1. /\ b.addr \in Nat /\ b.size \in Nat /\ b.size > 0
        /\ EndOf(b) = b.addr + b.size /\ EndOf(b) \in Nat /\ EndOf(b) > b.addr
    BY FitsFacts
  <1>2. Fits(r[i], n)
    BY DEF Joins
  <1>3. /\ r[i].addr \in Nat /\ EndOf(r[i]) \in Nat /\ EndOf(r[i]) > r[i].addr
    BY <1>2, FitsFacts
  <1>4. PICK a \in Int : Holds(r[i], a) /\ Holds(b, a)
    <2>1. CASE r[i].addr <= b.addr
      <3>1. Holds(r[i], b.addr) /\ Holds(b, b.addr) /\ b.addr \in Int
        BY <1>1, <1>3, <2>1 DEF Holds, Apart
      <3> QED
        BY <3>1
    <2>2. CASE b.addr <= r[i].addr
      <3>1. Holds(r[i], r[i].addr) /\ Holds(b, r[i].addr) /\ r[i].addr \in Int
        BY <1>1, <1>3, <2>2 DEF Holds, Apart
      <3> QED
        BY <3>1
    <2> QED
      BY <2>1, <2>2, <1>1, <1>3
  <1>5. ListHolds(list, a) \/ Holds(new, a)
    BY <1>4 DEF Joins, ListHolds
  <1>6. ASSUME NEW d, Fits(d, n), Apart(d, b) PROVE ~Holds(d, a)
    <2>1. d.addr \in Nat /\ EndOf(d) \in Nat
      BY <1>6, FitsFacts
    <2> QED
      BY <1>1, <1>4, <1>6, <2>1 DEF Apart, Holds
  <1>7. ~Holds(new, a)
    BY <1>6
  <1>8. ~ListHolds(list, a)
    BY <1>6 DEF ListHolds
  <1> QED
    BY <1>5, <1>7, <1>8

\* Taking a block off a sorted list.
LEMMA RemoveLeaves ==
  ASSUME NEW n \in Nat, NEW list \in Seq(Block), Sorted(list), \A i \in 1..Len(list) : Fits(list[i], n),
         NEW k \in 1..Len(list)
  PROVE  /\ RemoveAt(list, k) \in Seq(Block) /\ Sorted(RemoveAt(list, k))
         /\ \A i \in 1..Len(RemoveAt(list, k)) :
              /\ \E j \in 1..Len(list) : RemoveAt(list, k)[i] = list[j]
              /\ Apart(RemoveAt(list, k)[i], list[k])
         /\ \A a : ListHolds(list, a) => ListHolds(RemoveAt(list, k), a) \/ Holds(list[k], a)
  <1> DEFINE r == RemoveAt(list, k)
  <1>1. /\ r \in Seq(Block) /\ Len(r) = Len(list) - 1
        /\ \A j \in 1..Len(list) - 1 : r[j] = IF j < k THEN list[j] ELSE list[j + 1]
    BY RemoveAtFacts
  <1>2. Len(list) \in Nat /\ k \in Nat
    OBVIOUS
  <1> HIDE DEF r
  <1>3. \A j \in 1..Len(r) : \/ j < k /\ j \in 1..Len(list) /\ r[j] = list[j]
                             \/ j >= k /\ j + 1 \in 1..Len(list) /\ r[j] = list[j + 1]
    BY <1>1, <1>2
  <1>4. ASSUME NEW i \in 1..Len(r), NEW j \in 1..Len(r), i < j
        PROVE  EndOf(r[i]) <= r[j].addr
    <2> DEFINE u == IF i < k THEN i ELSE i + 1
               v == IF j < k THEN j ELSE j + 1
    <2>1. u \in 1..Len(list) /\ r[i] = list[u]
      BY <1>1, <1>2
    <2>2. v \in 1..Len(list) /\ r[j] = list[v]
      BY <1>1, <1>2
    <2>3. u < v
      BY <1>1, <1>2, <1>4, <2>1, <2>2
    <2> QED
      BY <2>1, <2>2, <2>3 DEF Sorted
  <1>5. ASSUME NEW i \in 1..Len(r)
        PROVE  (\E j \in 1..Len(list) : r[i] = list[j]) /\ Apart(r[i], list[k])
    <2>1. PICK u \in 1..Len(list) : r[i] = list[u] /\ u # k
      <3>1. CASE i < k
        BY <1>2, <1>3, <3>1
      <3>2. CASE i >= k
        <4>1. i + 1 \in 1..Len(list) /\ r[i] = list[i + 1] /\ i + 1 # k
          BY <1>1, <1>2, <1>3, <3>2
        <4> QED
          BY <4>1
      <3>3. i \in Nat /\ (i < k \/ i >= k)
        BY <1>1, <1>2
      <3> QED
        BY <3>1, <3>2, <3>3
    <2> QED
      BY <1>2, <2>1 DEF Sorted, Apart
  <1>6. ASSUME NEW a, ListHolds(list, a) PROVE ListHolds(r, a) \/ Holds(list[k], a)
    <2>1. PICK j \in 1..Len(list) : Holds(list[j], a)
      BY <1>6 DEF ListHolds
    <2>2. CASE j < k
      <3>1. j \in 1..Len(r) /\ r[j] = list[j]
        BY <1>1, <1>2, <2>2
      <3> QED
        BY <2>1, <3>1 DEF ListHolds
    <2>3. CASE j = k
      BY <2>1, <2>3
    <2>4. CASE j > k
      <3>1. j - 1 \in 1..Len(r) /\ r[j - 1] = list[j]
        <4>1. j - 1 \in 1..Len(list) - 1 /\ ~(j - 1 < k) /\ (j - 1) + 1 = j
          BY <1>2, <2>4
        <4> QED
          BY <1>1, <1>2, <4>1
      <3> QED
        BY <2>1, <3>1 DEF ListHolds
    <2> QED
      BY <2>2, <2>3, <2>4, <1>2
  <1> QED
    BY <1>1, <1>4, <1>5, <1>6 DEF r, Sorted

-----------------------------------------------------------------------------
(* Cutting a block. *)

\* find_suitable_free_block returns a block that holds header, padding, data.
LEMMA SuitableHolds ==
  ASSUME NEW list \in Seq(Block), NEW l, NEW i, i = SuitableIndex(list, l), i # 0
  PROVE  i \in 1..Len(list) /\ list[i].size >= l.size + HeaderSize + Padding(list[i], l)
  <1> DEFINE N == {j \in 1..Len(list) : list[j].size >= l.size + HeaderSize + Padding(list[j], l)}
  <1>1. i = IF N # {} THEN Min(N) ELSE 0
    BY DEF SuitableIndex, SelectInSeq
  <1>2. N \subseteq Nat
    OBVIOUS
  <1>3. N # {} => Min(N) \in N
    <2> HIDE DEF N
    <2> QED
      BY <1>2, MinIsLeast
  <1>4. i \in N
    <2> HIDE DEF N
    <2> QED
      BY <1>1, <1>3
  <1> QED
    BY <1>4

\* The padding is less than the alignment and aligns the data.
LEMMA PaddingFacts ==
  ASSUME NEW b \in Block, NEW l \in Layouts
  PROVE  /\ Padding(b, l) \in Nat /\ Padding(b, l) < l.align
         /\ (b.addr + Padding(b, l) + HeaderSize) % l.align = 0
         /\ Padding(b, l) % 2 ^ PaddingBits = Padding(b, l)
  <1> DEFINE a == b.addr + HeaderSize
             n == l.align
             p == AlignOffset(a, n)
  <1>1. a \in Nat /\ n \in Nat \ {0} /\ b.addr \in Nat /\ HeaderSize \in Nat
    BY Constants DEF Block
  <1>2. Padding(b, l) = p
    BY DEF Padding
  <1> HIDE DEF n
  <1>3. p \in 0..(n - 1) /\ (a + p) % n = 0
    <2> HIDE DEF a
    <2> QED
      BY <1>1, AlignOffsetRounds
  <1> HIDE DEF p
  <1>4. p \in Nat /\ p < n
    BY <1>1, <1>3
  <1>5. b.addr + p + HeaderSize = a + p
    BY <1>1, <1>4
  <1>6. p % 2 ^ PaddingBits = p
    <2> DEFINE w == 2 ^ PaddingBits
    <2>1. w \in Nat /\ n <= w
      BY PaddingAssumption DEF n
    <2> HIDE DEF w
    <2>2. w \in Nat \ {0} /\ p \in 0..(w - 1)
      BY <1>1, <1>4, <2>1
    <2>3. p % w = p
      BY <2>2, RemainderSmall
    <2> QED
      BY <2>3 DEF w
  <1> QED
    BY <1>2, <1>3, <1>4, <1>5, <1>6 DEF n

\* The size of an allocated block: room for all it must hold, aligned, and
\* never more than the block that was found, although find_suitable_free_block
\* knows nothing of the two roundings.
LEMMA BlockSizeFacts ==
  ASSUME NEW n \in Nat, NEW b, Fits(b, n), NEW l \in Layouts,
         b.size >= l.size + HeaderSize + Padding(b, l)
  PROVE  /\ BlockSize(b, l) \in Nat /\ BlockSize(b, l) <= b.size
         /\ BlockSize(b, l) >= HeaderSize + Padding(b, l) + l.size
         /\ BlockSize(b, l) >= FreeHeaderSize
         /\ BlockSize(b, l) % Word = 0
         /\ (b.addr + BlockSize(b, l)) % Word = 0
  <1> DEFINE p == HeaderSize + Padding(b, l) + l.size
             r == Max({p, FreeHeaderSize})
             a == b.addr + r
             o == AlignOffset(a, Word)
             s == BlockSize(b, l)
  <1>1. /\ b \in Block /\ b.addr \in Nat /\ b.size \in Nat /\ EndOf(b) = b.addr + b.size
        /\ EndOf(b) \in Nat /\ EndOf(b) % Word = 0 /\ b.addr % Word = 0 /\ b.size >= FreeHeaderSize
    BY FitsFacts DEF Fits
  <1>2. Padding(b, l) \in Nat /\ l.size \in Nat /\ HeaderSize \in Nat /\ FreeHeaderSize \in Nat
    BY <1>1, PaddingFacts, Constants
  <1>3. p \in Nat /\ p <= b.size
    BY <1>1, <1>2
  <1>4. r \in Nat /\ r >= p /\ r >= FreeHeaderSize /\ r <= b.size
    <2> HIDE DEF p
    <2> QED
      BY <1>1, <1>2, <1>3, MaxOfTwo
  <1>5. s = r + o
    BY DEF BlockSize
  <1> HIDE DEF r, s
  <1>6. a \in Nat /\ a <= EndOf(b)
    BY <1>1, <1>4
  <1>7. o \in 0..(Word - 1) /\ (a + o) % Word = 0 /\ a + o <= EndOf(b)
    <2> HIDE DEF a
    <2> QED
      BY <1>1, <1>6, AlignOffsetRounds, AlignOffsetLeast, Constants
  <1> HIDE DEF o
  <1>8. o \in Nat
    BY <1>7, Constants
  <1>9. a + o = b.addr + s
    BY <1>1, <1>4, <1>5, <1>8
  <1>10. s \in Nat /\ s >= r /\ s <= b.size
    BY <1>1, <1>4, <1>5, <1>7, <1>8, <1>9
  <1>11. (b.addr + s) % Word = 0
    BY <1>7, <1>9
  <1>12. s % Word = 0
    <2> DEFINE d == b.addr
    <2>1. d \in Int /\ s \in Int /\ d % Word = 0 /\ (d + s) % Word = 0
      BY <1>1, <1>10, <1>11
    <2> HIDE DEF d
    <2> QED
      BY <2>1, MultipleAdd, Constants
  <1>13. s >= p /\ s >= FreeHeaderSize
    BY <1>2, <1>3, <1>4, <1>10
  <1> QED
    BY <1>10, <1>11, <1>12, <1>13 DEF s

\* An allocated block, its data and the rest of the block it was cut from.
LEMMA AllocatedFacts ==
  ASSUME NEW n \in Nat, NEW b, Fits(b, n), NEW l \in Layouts,
         b.size >= l.size + HeaderSize + Padding(b, l)
  PROVE  /\ ~Overflows(b, l)
         /\ DataOK(Allocated(b, l)) /\ Fits(BlockOf(Allocated(b, l)), n)
         /\ BlockOf(Allocated(b, l)).addr = b.addr
         /\ Splits(b, l) => /\ Fits(Remainder(b, l), n)
                            /\ EndOf(BlockOf(Allocated(b, l))) = Remainder(b, l).addr
                            /\ EndOf(Remainder(b, l)) = EndOf(b)
         /\ ~Splits(b, l) => EndOf(BlockOf(Allocated(b, l))) = EndOf(b)
  <1> DEFINE x == Allocated(b, l)
             s == BlockSize(b, l)
             p == Padding(b, l)
             z == IF Splits(b, l) THEN s ELSE b.size
  <1>1. /\ b \in Block /\ b.addr \in Nat /\ b.size \in Nat /\ EndOf(b) = b.addr + b.size
        /\ EndOf(b) \in Nat /\ EndOf(b) <= n /\ b.addr % Word = 0 /\ b.size % Word = 0
        /\ b.size >= FreeHeaderSize /\ EndOf(b) % Word = 0
    BY FitsFacts DEF Fits
  <1>2. /\ s \in Nat /\ s <= b.size /\ s >= HeaderSize + p + l.size /\ s >= FreeHeaderSize
        /\ s % Word = 0 /\ (b.addr + s) % Word = 0
    BY BlockSizeFacts
  <1>3. p \in Nat /\ (b.addr + p + HeaderSize) % l.align = 0 /\ p % 2 ^ PaddingBits = p
    BY <1>1, PaddingFacts
  <1>4. HeaderSize \in Nat /\ FreeHeaderSize \in Nat /\ l.size \in Nat
    BY Constants
  <1>5. x.data = b.addr + p + HeaderSize /\ x.size = z /\ x.padding = p /\ x.layout = l
    BY <1>3 DEF Allocated
  <1>6. Splits(b, l) <=> b.size - s > FreeHeaderSize
    BY DEF Splits
  <1>7. ~Overflows(b, l)
    BY <1>1, <1>2 DEF Overflows
  <1>8. Remainder(b, l) = [addr |-> b.addr + s, size |-> b.size - s]
    BY DEF Remainder
  <1> HIDE DEF x, s, p
  <1>9. z \in Nat /\ z <= b.size /\ z >= HeaderSize + p + l.size /\ z >= FreeHeaderSize /\ z % Word = 0
    BY <1>1, <1>2, <1>3, <1>4
  <1>10. BlockOf(x).addr = b.addr /\ BlockOf(x).size = z /\ BlockOf(x) \in Block
    <2>1. x.data - HeaderSize - x.padding = b.addr
      BY <1>1, <1>3, <1>4, <1>5
    <2> QED
      BY <1>1, <1>5, <1>9, <2>1 DEF BlockOf, Block
  <1> HIDE DEF z
  <1>11. EndOf(BlockOf(x)) = b.addr + z
    BY <1>10 DEF EndOf
  <1>12. Fits(BlockOf(x), n)
    BY <1>1, <1>4, <1>9, <1>10, <1>11 DEF Fits
  <1>13. DataOK(x)
    <2>1. b.addr + p + HeaderSize + l.size <= b.addr + z /\ b.addr + p + HeaderSize \in Nat
      BY <1>1, <1>3, <1>4, <1>9
    <2> QED
      BY <1>3, <1>5, <1>11, <2>1 DEF DataOK
  <1>14. ASSUME Splits(b, l)
         PROVE  /\ Fits(Remainder(b, l), n) /\ EndOf(BlockOf(x)) = Remainder(b, l).addr
                /\ EndOf(Remainder(b, l)) = EndOf(b)
    <2> DEFINE m == Remainder(b, l)
    <2>1. m.addr = b.addr + s /\ m.size = b.size - s
      BY <1>8
    <2>2. m \in Block
      BY <1>1, <1>2, <1>8 DEF Block
    <2>3. (b.size - s) % Word = 0
      <3> DEFINE y == b.size
      <3>1. y \in Int /\ s \in Int /\ y % Word = 0 /\ s % Word = 0
        BY <1>1, <1>2
      <3> HIDE DEF y
      <3>2. (y - s) % Word = 0
        BY <3>1, MultipleSub, Constants
      <3> QED
        BY <3>2 DEF y
    <2>4. EndOf(m) = EndOf(b)
      BY <1>1, <1>2, <2>1 DEF EndOf
    <2>5. b.size - s >= FreeHeaderSize
      BY <1>1, <1>2, <1>4, <1>6, <1>14
    <2>6. z = s
      BY <1>14 DEF z
    <2> HIDE DEF m
    <2>7. Fits(m, n)
      BY <1>1, <1>2, <2>1, <2>2, <2>3, <2>4, <2>5 DEF Fits
    <2> QED
      BY <1>11, <2>1, <2>4, <2>6, <2>7 DEF m
  <1>15. ASSUME ~Splits(b, l) PROVE EndOf(BlockOf(x)) = EndOf(b)
    BY <1>1, <1>11, <1>15 DEF z
  <1> QED
    BY <1>7, <1>10, <1>12, <1>13, <1>14, <1>15 DEF x

-----------------------------------------------------------------------------
(* The invariant holds at the start and is kept by every step. *)

\* One free block is the whole heap.
LEMMA InitInv == ASSUME HeapInit PROVE IInv
  <1> DEFINE z == INIT_SIZE * PAGE_SIZE
             b == [addr |-> 0, size |-> z]
  <1>1. z \in Nat /\ z >= 3 * Word /\ z <= MaxHeap /\ INIT_SIZE \in Nat
    BY HeapAssumption
  <1>2. z % Word = 0
    <2>1. INIT_SIZE \in Int /\ PAGE_SIZE \in Nat /\ PAGE_SIZE % Word = 0 /\ Word \in Nat \ {0}
      BY <1>1, Constants
    <2> QED
      BY <2>1, MultipleTimes
  <1>3. 0 % Word = 0
    BY RemainderSmall, Constants
  <1>4. free = <<b>> /\ size = z /\ live = {} /\ kernel = "running"
        /\ ctx = [c \in Contexts |-> [at |-> "idle"]]
    BY DEF HeapInit
  <1> HIDE DEF z
  <1>5. b \in Block /\ b.addr = 0 /\ b.size = z /\ EndOf(b) = z
    BY <1>1 DEF Block, EndOf
  <1> HIDE DEF b
  <1>6. Fits(b, size)
    BY <1>1, <1>2, <1>3, <1>4, <1>5, Constants DEF Fits
  <1>7. free \in Seq(Block) /\ Len(free) = 1 /\ free[1] = b
    BY <1>4, <1>5
  <1>8. SizeInv
    BY <1>1, <1>2, <1>4, Constants DEF SizeInv
  <1>9. CallsInv
    BY <1>4 DEF CallsInv
  <1>10. FreeInv
    BY <1>6, <1>7 DEF FreeInv, Sorted
  <1>11. Moving = {}
    BY <1>4 DEF Moving
  <1>12. LiveInv /\ ApartInv
    BY <1>4, <1>11 DEF LiveInv, ApartInv
  <1>13. CoverInv
    BY <1>1, <1>4, <1>5, <1>7 DEF CoverInv, ListHolds, Holds
  <1> QED
    BY <1>4, <1>8, <1>9, <1>10, <1>12, <1>13 DEF IInv, KernelInv

\* A step that only moves a call between sections without a block in hand.
LEMMA CallMoves ==
  ASSUME IInv, NEW c \in Contexts, ctx[c].at # "add", NEW r, ctx' = [ctx EXCEPT ![c] = r],
         r.at \in {"idle", "find", "grow"}, r.at \in {"find", "grow"} => r.layout \in Layouts,
         UNCHANGED <<free, size, live, kernel>>
  PROVE  IInv'
  <1> USE DEF IInv
  <1>1. DOMAIN ctx' = Contexts /\ ctx'[c] = r /\ \A d \in Contexts : d # c => ctx'[d] = ctx[d]
    BY DEF CallsInv
  <1>2. Moving' = Moving /\ \A d \in Moving : ctx'[d] = ctx[d]
    BY <1>1 DEF Moving
  <1>3. SizeInv' /\ KernelInv' /\ FreeInv' /\ LiveInv'
    BY DEF SizeInv, KernelInv, FreeInv, LiveInv
  <1>4. CallsInv'
    BY <1>1 DEF CallsInv
  <1>5. ApartInv'
    BY <1>2 DEF ApartInv
  <1>6. CoverInv'
    BY <1>2 DEF CoverInv
  <1> QED
    BY <1>3, <1>4, <1>5, <1>6

\* alloc begins.
LEMMA BeginAllocInv ==
  ASSUME IInv, NEW c \in Contexts, NEW l \in Layouts, BeginAlloc(c, l) PROVE IInv'
  <1> DEFINE r == [at |-> "find", layout |-> l]
  <1>1. /\ ctx[c].at # "add" /\ ctx' = [ctx EXCEPT ![c] = r] /\ UNCHANGED <<free, size, live, kernel>>
    BY DEF BeginAlloc
  <1>2. r.at = "find" /\ r.layout = l
    OBVIOUS
  <1> HIDE DEF r
  <1> QED
    BY <1>1, <1>2, CallMoves

\* dealloc begins: the block of x goes from the allocated ones to the call.
LEMMA BeginFreeInv ==
  ASSUME IInv, NEW c \in Contexts, NEW x \in live, BeginFree(c, x) PROVE IInv'
  <1> USE DEF IInv
  <1> DEFINE b == BlockOf(x)
             r == [at |-> "add", then |-> "idle", block |-> b]
  <1>1. /\ ctx[c].at = "idle" /\ ctx' = [ctx EXCEPT ![c] = r] /\ UNCHANGED <<free, size, kernel>>
        /\ live' = live \ {x}
    BY DEF BeginFree
  <1>2. r.at = "add" /\ r.then = "idle" /\ r.block = b
    OBVIOUS
  <1>3. Fits(b, size)
    BY DEF LiveInv
  <1> HIDE DEF r
  <1>4. DOMAIN ctx' = Contexts /\ ctx'[c] = r /\ \A d \in Contexts : d # c => ctx'[d] = ctx[d]
    BY <1>1 DEF CallsInv
  <1>5. Moving' = Moving \cup {c} /\ c \notin Moving /\ \A d \in Moving : d # c /\ ctx'[d] = ctx[d]
    BY <1>1, <1>2, <1>4 DEF Moving
  <1>6. SizeInv' /\ KernelInv' /\ FreeInv' /\ LiveInv'
    BY <1>1 DEF SizeInv, KernelInv, FreeInv, LiveInv
  <1>7. CallsInv'
    BY <1>1, <1>2, <1>3, <1>4 DEF CallsInv
  <1>8. ApartInv'
    <2>1. \A y \in live', w \in live' : y # w => Apart(BlockOf(y), BlockOf(w))
      BY <1>1 DEF ApartInv
    <2>2. \A d \in Moving', e \in Moving' : d # e => Apart(ctx'[d].block, ctx'[e].block)
      BY <1>2, <1>4, <1>5 DEF ApartInv, Apart
    <2>3. \A i \in 1..Len(free), y \in live' : Apart(free[i], BlockOf(y))
      BY <1>1 DEF ApartInv
    <2>4. \A i \in 1..Len(free), d \in Moving' : Apart(free[i], ctx'[d].block)
      BY <1>2, <1>4, <1>5 DEF ApartInv
    <2>5. \A y \in live', d \in Moving' : Apart(BlockOf(y), ctx'[d].block)
      BY <1>1, <1>2, <1>4, <1>5 DEF ApartInv
    <2> QED
      BY <1>1, <2>1, <2>2, <2>3, <2>4, <2>5 DEF ApartInv
  <1>9. CoverInv'
    <2> SUFFICES ASSUME NEW a \in 0..size - 1
                 PROVE  \/ ListHolds(free, a)
                        \/ \E y \in live' : Holds(BlockOf(y), a)
                        \/ \E d \in Moving' : Holds(ctx'[d].block, a)
      BY <1>1 DEF CoverInv
    <2>1. \/ ListHolds(free, a)
          \/ \E y \in live : Holds(BlockOf(y), a)
          \/ \E d \in Moving : Holds(ctx[d].block, a)
      BY DEF CoverInv
    <2> QED
      BY <1>1, <1>2, <1>4, <1>5, <2>1
  <1> QED
    BY <1>6, <1>7, <1>8, <1>9

\* add_free_block: the block of the call goes to the free list.
LEMMA AddInv ==
  ASSUME IInv, NEW c \in Contexts, Add(c) PROVE IInv'
  <1> USE DEF IInv
  <1> DEFINE b == ctx[c].block
             r == IF ctx[c].then = "idle" THEN [at |-> "idle"]
                  ELSE [at |-> "find", layout |-> ctx[c].layout]
             f == AddFreeBlock(free, b)
  <1>1. /\ ctx[c].at = "add" /\ ctx' = [ctx EXCEPT ![c] = r] /\ UNCHANGED <<size, live, kernel>>
        /\ free' = f
    BY DEF Add, Section
  <1>2. r.at \in {"idle", "find"} /\ (r.at = "find" => r.layout \in Layouts)
    BY <1>1 DEF CallsInv
  <1>3. Fits(b, size) /\ size \in Nat /\ c \in Moving
    BY <1>1 DEF CallsInv, SizeInv, Moving
  <1> HIDE DEF r, f
  <1>4. /\ free \in Seq(Block) /\ Sorted(free)
        /\ \A i \in 1..Len(free) : Fits(free[i], size) /\ Apart(free[i], b)
    BY <1>3 DEF FreeInv, ApartInv
  <1>5. Joins(f, free, b, size)
    BY <1>3, <1>4, AddFreeJoins DEF f
  <1>6. DOMAIN ctx' = Contexts /\ ctx'[c] = r /\ \A d \in Contexts : d # c => ctx'[d] = ctx[d]
    BY <1>1 DEF CallsInv
  <1>7. Moving' = Moving \ {c} /\ \A d \in Moving' : ctx'[d] = ctx[d]
    BY <1>1, <1>2, <1>6 DEF Moving
  <1>8. SizeInv' /\ KernelInv' /\ LiveInv'
    BY <1>1 DEF SizeInv, KernelInv, LiveInv
  <1>9. CallsInv'
    BY <1>1, <1>2, <1>6 DEF CallsInv
  <1>10. FreeInv'
    BY <1>1, <1>5 DEF FreeInv, Joins
  <1>11. ASSUME NEW m, Fits(m, size), \A i \in 1..Len(free) : Apart(free[i], m), Apart(b, m)
         PROVE  \A i \in 1..Len(f) : Apart(f[i], m)
    BY <1>3, <1>4, <1>5, <1>11, JoinsApart
  <1>12. ApartInv'
    <2>1. \A i \in 1..Len(f), x \in live : Apart(f[i], BlockOf(x))
      <3> TAKE i \in 1..Len(f), x \in live
      <3>1. Fits(BlockOf(x), size) /\ Apart(b, BlockOf(x)) /\ \A j \in 1..Len(free) : Apart(free[j], BlockOf(x))
        BY <1>3 DEF LiveInv, ApartInv, Apart
      <3> QED
        BY <1>11, <3>1
    <2>2. \A i \in 1..Len(f), d \in Moving' : Apart(f[i], ctx'[d].block)
      <3> TAKE i \in 1..Len(f), d \in Moving'
      <3>1. d \in Moving /\ d # c /\ ctx'[d] = ctx[d]
        BY <1>7
      <3>2. Fits(ctx[d].block, size)
        BY <3>1 DEF CallsInv, Moving
      <3>3. Apart(b, ctx[d].block) /\ \A j \in 1..Len(free) : Apart(free[j], ctx[d].block)
        BY <1>3, <3>1 DEF ApartInv
      <3> QED
        BY <1>11, <3>1, <3>2, <3>3
    <2> QED
      BY <1>1, <1>7, <2>1, <2>2 DEF ApartInv
  <1>13. CoverInv'
    <2> SUFFICES ASSUME NEW a \in 0..size - 1
                 PROVE  \/ ListHolds(f, a)
                        \/ \E x \in live : Holds(BlockOf(x), a)
                        \/ \E d \in Moving' : Holds(ctx'[d].block, a)
      BY <1>1 DEF CoverInv
    <2>1. \/ ListHolds(free, a)
          \/ \E x \in live : Holds(BlockOf(x), a)
          \/ \E d \in Moving : Holds(ctx[d].block, a)
      BY DEF CoverInv
    <2>2. a \in Int
      BY <1>3
    <2>3. ListHolds(free, a) \/ Holds(b, a) => ListHolds(f, a)
      BY <1>5, <2>2 DEF Joins
    <2> QED
      BY <1>7, <2>1, <2>3
  <1> QED
    BY <1>8, <1>9, <1>10, <1>12, <1>13

\* A heap that grows keeps its blocks below its end.
LEMMA FitsMore ==
  ASSUME NEW n \in Nat, NEW m \in Nat, n <= m, NEW b, Fits(b, n)
  PROVE  Fits(b, m)
  BY FitsFacts DEF Fits

\* increase_heap_size: the new memory is in the hands of the call.
LEMMA GrowInv ==
  ASSUME IInv, NEW c \in Contexts, Grow(c) PROVE IInv'
  <1> USE DEF IInv
  <1> DEFINE l == ctx[c].layout
             g == Growth(size, l)
             b == [addr |-> size, size |-> g]
             r == [at |-> "add", then |-> "find", layout |-> l, block |-> b]
  <1>1. CASE size + g > MaxHeap
    <2>1. kernel' = "panicked" /\ UNCHANGED <<free, size, live, ctx>>
      BY <1>1 DEF Grow
    <2> QED
      BY <2>1 DEF SizeInv, KernelInv, CallsInv, FreeInv, LiveInv, ApartInv, CoverInv, Moving
  <1>2. CASE ~(size + g > MaxHeap)
    <2>1. /\ ctx[c].at = "grow" /\ size' = size + g /\ UNCHANGED <<free, live, kernel>>
          /\ ctx' = [ctx EXCEPT ![c] = r]
      BY <1>2 DEF Grow, Section
    <2>2. l \in Layouts
      BY <2>1 DEF CallsInv
    <2>3. size \in Nat /\ size <= MaxHeap /\ size % Word = 0 /\ size >= FreeHeaderSize
      BY DEF SizeInv
    <2>4. g \in Nat /\ g >= FreeHeaderSize /\ g % Word = 0
      BY <2>2, <2>3, GrowthFacts
    <2>5. r.at = "add" /\ r.then = "find" /\ r.layout = l /\ r.block = b
      OBVIOUS
    <2> HIDE DEF g, l, r
    <2>6. size' \in Nat /\ size <= size' /\ size' >= FreeHeaderSize /\ size' <= MaxHeap
      BY <1>2, <2>1, <2>3, <2>4, Constants
    <2>7. size' % Word = 0
      <3>0. size \in Int /\ g \in Int /\ Word \in Nat \ {0}
        BY <2>3, <2>4, Constants
      <3>1. (size + g) % Word = 0
        BY <3>0, <2>3, <2>4, MultipleAdd
      <3> QED
        BY <2>1, <3>1
    <2>8. b \in Block /\ b.addr = size /\ b.size = g /\ EndOf(b) = size'
      BY <2>1, <2>3, <2>4 DEF Block, EndOf
    <2> HIDE DEF b
    <2>9. Fits(b, size')
      BY <2>3, <2>4, <2>6, <2>8 DEF Fits
    <2>10. \A m : Fits(m, size) => Fits(m, size') /\ EndOf(m) <= b.addr
      BY <2>3, <2>6, <2>8, FitsMore, FitsFacts
    <2>11. DOMAIN ctx' = Contexts /\ ctx'[c] = r /\ \A d \in Contexts : d # c => ctx'[d] = ctx[d]
      BY <2>1 DEF CallsInv
    <2>12. Moving' = Moving \cup {c} /\ c \notin Moving /\ \A d \in Moving : d # c /\ ctx'[d] = ctx[d]
      BY <2>1, <2>5, <2>11 DEF Moving
    <2>13. SizeInv' /\ KernelInv'
      BY <2>1, <2>6, <2>7 DEF SizeInv, KernelInv
    <2>14. FreeInv' /\ LiveInv'
      BY <2>1, <2>10 DEF FreeInv, LiveInv
    <2>15. CallsInv'
      BY <2>2, <2>5, <2>9, <2>10, <2>11 DEF CallsInv
    <2>16. ApartInv'
      <3>1. \A m : Fits(m, size) => Apart(m, b) /\ Apart(b, m)
        BY <2>10 DEF Apart
      <3>2. \A d \in Moving : Fits(ctx[d].block, size)
        BY DEF CallsInv, Moving
      <3>3. ctx'[c].block = b
        BY <2>5, <2>11
      <3>4. \A d \in Moving', e \in Moving' : d # e => Apart(ctx'[d].block, ctx'[e].block)
        BY <2>12, <3>1, <3>2, <3>3 DEF ApartInv
      <3>5. \A i \in 1..Len(free), d \in Moving' : Apart(free[i], ctx'[d].block)
        BY <2>12, <3>1, <3>3 DEF ApartInv, FreeInv
      <3>6. \A y \in live, d \in Moving' : Apart(BlockOf(y), ctx'[d].block)
        BY <2>12, <3>1, <3>3 DEF ApartInv, LiveInv
      <3> QED
        BY <2>1, <3>4, <3>5, <3>6 DEF ApartInv
    <2>17. CoverInv'
      <3> SUFFICES ASSUME NEW a \in 0..size' - 1
                   PROVE  \/ ListHolds(free, a)
                          \/ \E x \in live : Holds(BlockOf(x), a)
                          \/ \E d \in Moving' : Holds(ctx'[d].block, a)
        BY <2>1 DEF CoverInv
      <3>1. CASE a \in 0..size - 1
        <4>1. \/ ListHolds(free, a)
              \/ \E x \in live : Holds(BlockOf(x), a)
              \/ \E d \in Moving : Holds(ctx[d].block, a)
          BY <3>1 DEF CoverInv
        <4> QED
          BY <4>1, <2>12
      <3>2. CASE a \notin 0..size - 1
        <4> DEFINE n == size'
        <4>0. n \in Nat /\ a \in 0..n - 1
          BY <2>6
        <4> HIDE DEF n
        <4>1. Holds(b, a)
          <5>1. size <= a /\ a < n
            BY <4>0, <2>3, <3>2
          <5> QED
            BY <5>1, <2>8 DEF Holds, n
        <4>2. ctx'[c].block = b
          BY <2>5, <2>11
        <4> QED
          BY <4>1, <4>2, <2>12
      <3> QED
        BY <3>1, <3>2
    <2> QED
      BY <2>13, <2>14, <2>15, <2>16, <2>17
  <1> QED
    BY <1>1, <1>2

\* find_suitable_free_block and what alloc does with the block: it becomes an
\* allocated block, and the rest of it is in the hands of the call.
LEMMA FindInv ==
  ASSUME IInv, NEW c \in Contexts, Find(c) PROVE IInv'
  <1> USE DEF IInv
  <1> DEFINE l == ctx[c].layout
             i == SuitableIndex(free, l)
             b == free[i]
             x == Allocated(b, l)
             rest == Remainder(b, l)
             r == IF Splits(b, l) THEN [at |-> "add", then |-> "idle", block |-> rest] ELSE [at |-> "idle"]
             f == RemoveAt(free, i)
  <1>1. ctx[c].at = "find" /\ size' = size
    BY DEF Find, Section
  <1>2. l \in Layouts /\ size \in Nat
    BY <1>1 DEF CallsInv, SizeInv
  <1>3. CASE i = 0
    <2> DEFINE u == [at |-> "grow", layout |-> l]
    <2>1. ctx' = [ctx EXCEPT ![c] = u] /\ UNCHANGED <<free, live, kernel>>
      BY <1>3 DEF Find
    <2>2. u.at = "grow" /\ u.layout = l
      OBVIOUS
    <2> HIDE DEF u
    <2> QED
      BY <1>1, <1>2, <2>1, <2>2, CallMoves
  <1>4. CASE i # 0
    <2>1. /\ free' = f /\ live' = live \cup {x} /\ ctx' = [ctx EXCEPT ![c] = r]
          /\ kernel' = IF Overflows(b, l) THEN "overflow" ELSE kernel
      BY <1>4 DEF Find
    <2>2. free \in Seq(Block) /\ Sorted(free) /\ \A j \in 1..Len(free) : Fits(free[j], size)
      BY DEF FreeInv
    <2>3. i \in 1..Len(free) /\ b.size >= l.size + HeaderSize + Padding(b, l)
      <3> HIDE DEF l
      <3> QED
        BY <1>4, <2>2, SuitableHolds
    <2>4. /\ Fits(b, size) /\ \A y \in live : Apart(b, BlockOf(y))
          /\ \A d \in Moving : Apart(b, ctx[d].block)
      <3> HIDE DEF i, l
      <3> QED
        BY <2>2, <2>3 DEF ApartInv
    <2>5. /\ f \in Seq(Block) /\ Sorted(f)
          /\ \A j \in 1..Len(f) : (\E k \in 1..Len(free) : f[j] = free[k]) /\ Apart(f[j], b)
          /\ \A a : ListHolds(free, a) => ListHolds(f, a) \/ Holds(b, a)
      <3> HIDE DEF i, l
      <3> QED
        BY <1>2, <2>2, <2>3, RemoveLeaves
    <2> HIDE DEF b, i, f, l
    <2>6. /\ ~Overflows(b, l) /\ DataOK(x) /\ Fits(BlockOf(x), size) /\ BlockOf(x).addr = b.addr
          /\ Splits(b, l) => /\ Fits(rest, size) /\ EndOf(BlockOf(x)) = rest.addr
                             /\ EndOf(rest) = EndOf(b)
          /\ ~Splits(b, l) => EndOf(BlockOf(x)) = EndOf(b)
      BY <1>2, <2>3, <2>4, AllocatedFacts
    <2>7. IF Splits(b, l) THEN r.at = "add" /\ r.then = "idle" /\ r.block = rest ELSE r.at = "idle"
      OBVIOUS
    <2> HIDE DEF x, rest, r
    <2>8. DOMAIN ctx' = Contexts /\ ctx'[c] = r /\ \A d \in Contexts : d # c => ctx'[d] = ctx[d]
      BY <2>1 DEF CallsInv
    <2>9. /\ c \notin Moving /\ \A d \in Moving : d \in Moving' /\ d # c /\ ctx'[d] = ctx[d]
          /\ \A d \in Moving' : d \in Moving \/ d = c
          /\ c \in Moving' <=> Splits(b, l)
      BY <1>1, <2>7, <2>8 DEF Moving
    <2>10. c \in Moving' => ctx'[c].block = rest
      BY <2>7, <2>8, <2>9
    <2>11. /\ b.addr \in Nat /\ EndOf(b) \in Nat /\ BlockOf(x).addr \in Nat /\ EndOf(BlockOf(x)) \in Nat
           /\ EndOf(BlockOf(x)) > b.addr /\ EndOf(BlockOf(x)) <= EndOf(b)
           /\ Splits(b, l) => rest.addr \in Nat /\ EndOf(rest) \in Nat
      <3>1. b.addr \in Nat /\ EndOf(b) \in Nat
        BY <1>2, <2>4, FitsFacts
      <3>2. BlockOf(x).addr \in Nat /\ EndOf(BlockOf(x)) \in Nat /\ EndOf(BlockOf(x)) > BlockOf(x).addr
        BY <1>2, <2>6, FitsFacts
      <3>3. Splits(b, l) => rest.addr \in Nat /\ EndOf(rest) \in Nat /\ EndOf(rest) > rest.addr
        BY <1>2, <2>6, FitsFacts
      <3> QED
        BY <2>6, <3>1, <3>2, <3>3
    <2>12. ASSUME NEW m, Fits(m, size), Apart(b, m) \/ Apart(m, b)
           PROVE  /\ Apart(BlockOf(x), m) /\ Apart(m, BlockOf(x))
                  /\ Splits(b, l) => Apart(rest, m) /\ Apart(m, rest)
      <3>1. m.addr \in Nat /\ EndOf(m) \in Nat
        BY <1>2, <2>12, FitsFacts
      <3> QED
        BY <2>6, <2>11, <2>12, <3>1 DEF Apart
    <2>13. SizeInv' /\ KernelInv'
      BY <1>1, <2>1, <2>6 DEF SizeInv, KernelInv
    <2>14. CallsInv'
      BY <1>1, <2>6, <2>7, <2>8 DEF CallsInv
    <2>15. FreeInv'
      BY <1>1, <2>1, <2>2, <2>5 DEF FreeInv
    <2>16. LiveInv'
      BY <1>1, <2>1, <2>6 DEF LiveInv
    <2>17. ApartInv'
      <3>1. \A y \in live : Fits(BlockOf(y), size)
        BY DEF LiveInv
      <3>2. \A d \in Moving : Fits(ctx[d].block, size)
        BY DEF CallsInv, Moving
      <3>3. \A j \in 1..Len(f) : Fits(f[j], size)
        BY <2>2, <2>5
      <3>4. \A y \in live, w \in live' : y # w => Apart(BlockOf(y), BlockOf(w)) /\ Apart(BlockOf(w), BlockOf(y))
        <4> TAKE y \in live, w \in live'
        <4>1. CASE w = x
          BY <2>4, <2>12, <3>1, <4>1
        <4>2. CASE w # x
          BY <2>1, <4>2 DEF ApartInv
        <4> QED
          BY <4>1, <4>2
      <3>5. \A y \in live', w \in live' : y # w => Apart(BlockOf(y), BlockOf(w))
        BY <2>1, <3>4
      <3>6. \A d \in Moving', e \in Moving' : d # e => Apart(ctx'[d].block, ctx'[e].block)
        <4> TAKE d \in Moving', e \in Moving'
        <4> HAVE d # e
        <4>1. CASE d = c
          <5>1. e \in Moving /\ ctx'[e] = ctx[e]
            BY <2>9, <4>1
          <5> QED
            BY <2>4, <2>9, <2>10, <2>12, <3>2, <4>1, <5>1
        <4>2. CASE e = c
          <5>1. d \in Moving /\ ctx'[d] = ctx[d]
            BY <2>9, <4>2
          <5> QED
            BY <2>4, <2>9, <2>10, <2>12, <3>2, <4>2, <5>1
        <4>3. CASE d # c /\ e # c
          BY <2>9, <4>3 DEF ApartInv
        <4> QED
          BY <4>1, <4>2, <4>3
      <3>7. \A j \in 1..Len(f), y \in live' : Apart(f[j], BlockOf(y))
        <4> TAKE j \in 1..Len(f), y \in live'
        <4>1. CASE y = x
          BY <2>5, <2>12, <3>3, <4>1
        <4>2. CASE y # x
          BY <2>1, <2>5, <4>2 DEF ApartInv
        <4> QED
          BY <4>1, <4>2
      <3>8. \A j \in 1..Len(f), d \in Moving' : Apart(f[j], ctx'[d].block)
        <4> TAKE j \in 1..Len(f), d \in Moving'
        <4>1. CASE d = c
          BY <2>5, <2>9, <2>10, <2>12, <3>3, <4>1
        <4>2. CASE d # c
          BY <2>5, <2>9, <4>2 DEF ApartInv
        <4> QED
          BY <4>1, <4>2
      <3>9. \A y \in live', d \in Moving' : Apart(BlockOf(y), ctx'[d].block)
        <4> TAKE y \in live', d \in Moving'
        <4>1. CASE y # x /\ d # c
          BY <2>1, <2>9, <4>1 DEF ApartInv
        <4>2. CASE y # x /\ d = c
          BY <2>1, <2>4, <2>9, <2>10, <2>12, <3>1, <4>2
        <4>3. CASE y = x /\ d # c
          BY <2>4, <2>9, <2>12, <3>2, <4>3
        <4>4. CASE y = x /\ d = c
          BY <2>6, <2>9, <2>10, <2>11, <4>4 DEF Apart
        <4> QED
          BY <4>1, <4>2, <4>3, <4>4
      <3> QED
        BY <2>1, <3>5, <3>6, <3>7, <3>8, <3>9 DEF ApartInv
    <2>18. CoverInv'
      <3> SUFFICES ASSUME NEW a \in 0..size - 1
                   PROVE  \/ ListHolds(f, a)
                          \/ \E y \in live' : Holds(BlockOf(y), a)
                          \/ \E d \in Moving' : Holds(ctx'[d].block, a)
        BY <1>1, <2>1 DEF CoverInv
      <3>1. \/ ListHolds(free, a)
            \/ \E y \in live : Holds(BlockOf(y), a)
            \/ \E d \in Moving : Holds(ctx[d].block, a)
        BY DEF CoverInv
      <3>2. a \in Int
        BY <1>2
      <3>3. CASE ListHolds(free, a)
        <4>1. ListHolds(f, a) \/ Holds(b, a)
          BY <2>5, <3>3
        <4>2. Holds(b, a) => Holds(BlockOf(x), a) \/ (Splits(b, l) /\ Holds(rest, a))
          BY <2>6, <2>11, <3>2 DEF Holds
        <4> QED
          BY <2>1, <2>9, <2>10, <4>1, <4>2
      <3>4. CASE \E y \in live : Holds(BlockOf(y), a)
        BY <2>1, <3>4
      <3>5. CASE \E d \in Moving : Holds(ctx[d].block, a)
        BY <2>9, <3>5
      <3> QED
        BY <3>1, <3>3, <3>4, <3>5
    <2> QED
      BY <2>13, <2>14, <2>15, <2>16, <2>17, <2>18
  <1> QED
    BY <1>3, <1>4

\* Every step keeps the invariant.
LEMMA StepInv == IInv /\ [HeapNext]_heapVars => IInv'
  <1> SUFFICES ASSUME IInv, [HeapNext]_heapVars PROVE IInv'
    OBVIOUS
  <1>1. ASSUME NEW c \in Contexts, NEW l \in Layouts, BeginAlloc(c, l) PROVE IInv'
    BY <1>1, BeginAllocInv
  <1>2. ASSUME NEW c \in Contexts, NEW x \in live, BeginFree(c, x) PROVE IInv'
    BY <1>2, BeginFreeInv
  <1>3. ASSUME NEW c \in Contexts, Find(c) \/ Add(c) \/ Grow(c) PROVE IInv'
    BY <1>3, FindInv, AddInv, GrowInv
  <1>4. CASE Lock \/ Spin \/ UNCHANGED heapVars
    <2>1. UNCHANGED <<free, size, live, ctx>> /\ kernel' \in {kernel, "spinning"}
      BY <1>4 DEF Lock, Spin, heapVars
    <2> QED
      BY <2>1 DEF IInv, SizeInv, KernelInv, CallsInv, FreeInv, LiveInv, ApartInv, CoverInv, Moving
  <1> QED
    BY <1>1, <1>2, <1>3, <1>4 DEF HeapNext

\* The invariant of the heap.
THEOREM Invariant == HeapSpec => []IInv
  BY InitInv, StepInv, PTL DEF HeapSpec

-----------------------------------------------------------------------------
(* The properties. *)

\* The heap stays within what physical memory can give, and its free list and
\* the calls of alloc and dealloc are well formed.
THEOREM TypeCorrect == HeapSpec => []HeapTypeOK
  <1>1. IInv => HeapTypeOK
    <2> SUFFICES ASSUME IInv PROVE HeapTypeOK
      OBVIOUS
    <2> USE DEF IInv
    <2>1. size \in Nat /\ size <= MaxHeap
      BY DEF SizeInv
    <2>2. DOMAIN free = 1..Len(free) /\ \A i \in 1..Len(free) : Fits(free[i], size)
      BY DEF FreeInv
    <2>3. \A i \in DOMAIN free : free[i].addr \in Nat /\ free[i].size \in Nat \ {0}
      BY <2>1, <2>2, FitsFacts
    <2> QED
      BY <2>1, <2>3 DEF HeapTypeOK, CallsInv, KernelInv
  <1> QED
    BY <1>1, Invariant, PTL

\* A block that find_suitable_free_block accepts is large enough for the size
\* that alloc computes: the subtraction never underflows.
THEOREM NeverUnderflows == HeapSpec => []SizesNeverOverflow
  <1>1. IInv => SizesNeverOverflow
    BY DEF IInv, KernelInv, SizesNeverOverflow
  <1> QED
    BY <1>1, Invariant, PTL

\* Data is aligned, inside its block, and its header leads back to the block.
THEOREM DataFits == HeapSpec => []DataFitsBlock
  <1>1. IInv => DataFitsBlock
    BY DEF IInv, LiveInv, DataOK, Fits, DataFitsBlock
  <1> QED
    BY <1>1, Invariant, PTL

\* Blocks that hold a common byte are not apart.
LEMMA CommonByte ==
  ASSUME NEW n \in Nat, NEW a \in Int, NEW b, NEW d, Fits(b, n), Fits(d, n), Holds(b, a), Holds(d, a)
  PROVE  ~Apart(b, d)
  <1>1. b.addr \in Nat /\ EndOf(b) \in Nat /\ d.addr \in Nat /\ EndOf(d) \in Nat
    BY FitsFacts
  <1> QED
    BY <1>1 DEF Apart, Holds

\* Each kind of block, by itself and against the others.
LEMMA OneHolder ==
  ASSUME IInv, NEW a \in 0..size - 1,
         NEW p \in AllBlocks, NEW q \in AllBlocks, Holds(p[2], a), Holds(q[2], a)
  PROVE  p = q
  <1> USE DEF IInv
  <1>1. size \in Nat /\ a \in Int
    BY DEF SizeInv
  <1>2. DOMAIN free = 1..Len(free) /\ Len(free) \in Nat /\ \A i \in 1..Len(free) : Fits(free[i], size)
    BY DEF FreeInv
  <1>3. \A x \in live : Fits(BlockOf(x), size)
    BY DEF LiveInv
  <1>4. \A c \in Moving : Fits(ctx[c].block, size)
    BY DEF CallsInv, Moving
  <1>5. ASSUME NEW s \in AllBlocks
        PROVE  \/ \E i \in 1..Len(free) : s = <<"free", free[i]>>
               \/ \E x \in live : s = <<"live", BlockOf(x)>>
               \/ \E c \in Moving : s = <<c, ctx[c].block>>
    BY <1>2 DEF AllBlocks, Moving
  <1>6. \A b, d : Fits(b, size) /\ Fits(d, size) /\ Holds(b, a) /\ Holds(d, a) => ~Apart(b, d) /\ ~Apart(d, b)
    BY <1>1, CommonByte
  <1>7. ASSUME NEW i \in 1..Len(free), p = <<"free", free[i]>>
        PROVE  p = q
    <2>1. p[2] = free[i]
      BY <1>7
    <2>2. ASSUME NEW j \in 1..Len(free), q = <<"free", free[j]>> PROVE p = q
      <3>1. q[2] = free[j]
        BY <2>2
      <3>2. ~Apart(free[i], free[j])
        BY <1>2, <1>6, <2>1, <3>1
      <3>3. i = j
        BY <3>2, <1>2 DEF FreeInv, Sorted, Apart
      <3> QED
        BY <3>3, <1>7, <2>2
    <2>3. ASSUME NEW x \in live, q = <<"live", BlockOf(x)>> PROVE FALSE
      <3>1. q[2] = BlockOf(x)
        BY <2>3
      <3> QED
        BY <1>2, <1>3, <1>6, <2>1, <3>1 DEF ApartInv
    <2>4. ASSUME NEW c \in Moving, q = <<c, ctx[c].block>> PROVE FALSE
      <3>1. q[2] = ctx[c].block
        BY <2>4
      <3> QED
        BY <1>2, <1>4, <1>6, <2>1, <3>1 DEF ApartInv
    <2> QED
      BY <1>5, <2>2, <2>3, <2>4
  <1>8. ASSUME NEW x \in live, p = <<"live", BlockOf(x)>>
        PROVE  p = q
    <2>1. p[2] = BlockOf(x)
      BY <1>8
    <2>2. ASSUME NEW j \in 1..Len(free), q = <<"free", free[j]>> PROVE FALSE
      <3>1. q[2] = free[j]
        BY <2>2
      <3> QED
        BY <1>2, <1>3, <1>6, <2>1, <3>1 DEF ApartInv
    <2>3. ASSUME NEW y \in live, q = <<"live", BlockOf(y)>> PROVE p = q
      <3>1. q[2] = BlockOf(y)
        BY <2>3
      <3>2. x = y
        BY <1>3, <1>6, <2>1, <3>1 DEF ApartInv
      <3> QED
        BY <3>2, <1>8, <2>3
    <2>4. ASSUME NEW c \in Moving, q = <<c, ctx[c].block>> PROVE FALSE
      <3>1. q[2] = ctx[c].block
        BY <2>4
      <3> QED
        BY <1>3, <1>4, <1>6, <2>1, <3>1 DEF ApartInv
    <2> QED
      BY <1>5, <2>2, <2>3, <2>4
  <1>9. ASSUME NEW c \in Moving, p = <<c, ctx[c].block>>
        PROVE  p = q
    <2>1. p[2] = ctx[c].block
      BY <1>9
    <2>2. ASSUME NEW j \in 1..Len(free), q = <<"free", free[j]>> PROVE FALSE
      <3>1. q[2] = free[j]
        BY <2>2
      <3> QED
        BY <1>2, <1>4, <1>6, <2>1, <3>1 DEF ApartInv
    <2>3. ASSUME NEW y \in live, q = <<"live", BlockOf(y)>> PROVE FALSE
      <3>1. q[2] = BlockOf(y)
        BY <2>3
      <3> QED
        BY <1>3, <1>4, <1>6, <2>1, <3>1 DEF ApartInv
    <2>4. ASSUME NEW d \in Moving, q = <<d, ctx[d].block>> PROVE p = q
      <3>1. q[2] = ctx[d].block
        BY <2>4
      <3>2. c = d
        BY <1>4, <1>6, <2>1, <3>1 DEF ApartInv
      <3> QED
        BY <3>2, <1>9, <2>4
    <2> QED
      BY <1>5, <2>2, <2>3, <2>4
  <1> QED
    BY <1>5, <1>7, <1>8, <1>9

\* The blocks tile the heap, through splits, merges, growth and interrupts,
\* and the free list stays sorted, aligned and large enough for its headers.
THEOREM HeapTiled == HeapSpec => []HeapIsTiled
  <1>1. IInv => HeapIsTiled
    <2> SUFFICES ASSUME IInv PROVE HeapIsTiled
      OBVIOUS
    <2> USE DEF IInv
    <2>1. size \in Nat
      BY DEF SizeInv
    <2>2. /\ DOMAIN free = 1..Len(free) /\ Len(free) \in Nat /\ Sorted(free)
          /\ \A i \in 1..Len(free) : Fits(free[i], size)
      BY DEF FreeInv
    <2>3. ASSUME NEW a \in 0..size - 1
          PROVE  Cardinality({b \in AllBlocks : b[2].addr <= a /\ a < EndOf(b[2])}) = 1
      <3> DEFINE B == {b \in AllBlocks : b[2].addr <= a /\ a < EndOf(b[2])}
      <3>1. \E b \in AllBlocks : Holds(b[2], a)
        <4>1. CASE ListHolds(free, a)
          <5>1. PICK i \in 1..Len(free) : Holds(free[i], a)
            BY <4>1 DEF ListHolds
          <5>2. <<"free", free[i]>> \in AllBlocks
            BY <2>2 DEF AllBlocks
          <5> QED
            BY <5>1, <5>2
        <4>2. CASE \E x \in live : Holds(BlockOf(x), a)
          <5>1. PICK x \in live : Holds(BlockOf(x), a)
            BY <4>2
          <5>2. <<"live", BlockOf(x)>> \in AllBlocks
            BY DEF AllBlocks
          <5> QED
            BY <5>1, <5>2
        <4>3. CASE \E c \in Moving : Holds(ctx[c].block, a)
          <5>1. PICK c \in Moving : Holds(ctx[c].block, a)
            BY <4>3
          <5>2. <<c, ctx[c].block>> \in AllBlocks
            BY DEF AllBlocks, Moving
          <5> QED
            BY <5>1, <5>2
        <4> QED
          BY <4>1, <4>2, <4>3 DEF CoverInv
      <3>2. PICK p \in AllBlocks : Holds(p[2], a)
        BY <3>1
      <3>3. B = {p}
        <4>1. p \in B
          BY <3>2 DEF Holds
        <4>2. ASSUME NEW q \in B PROVE q = p
          <5>1. q \in AllBlocks /\ Holds(q[2], a)
            BY DEF Holds
          <5> QED
            BY <3>2, <5>1, OneHolder
        <4> HIDE DEF B
        <4> QED
          BY <4>1, <4>2
      <3> HIDE DEF B
      <3>4. Cardinality(B) = 1
        BY <3>3, FS_Singleton
      <3> QED
        BY <3>4 DEF B
    <2>4. \A b \in AllBlocks : EndOf(b[2]) <= size
      <3> TAKE b \in AllBlocks
      <3>1. \/ \E i \in 1..Len(free) : b[2] = free[i]
            \/ \E x \in live : b[2] = BlockOf(x)
            \/ \E c \in Moving : b[2] = ctx[c].block
        BY <2>2 DEF AllBlocks, Moving
      <3>2. Fits(b[2], size)
        BY <2>2, <3>1 DEF LiveInv, CallsInv, Moving
      <3> QED
        BY <3>2 DEF Fits
    <2>5. \A i \in 2 .. Len(free) : EndOf(free[i - 1]) <= free[i].addr
      <3> TAKE i \in 2 .. Len(free)
      <3>1. i - 1 \in 1..Len(free) /\ i \in 1..Len(free) /\ i - 1 < i
        BY <2>2
      <3> QED
        BY <2>2, <3>1 DEF Sorted
    <2>6. \A i \in DOMAIN free : free[i].addr % Word = 0 /\ free[i].size >= FreeHeaderSize
      BY <2>2 DEF Fits
    <2> QED
      BY <2>3, <2>4, <2>5, <2>6 DEF HeapIsTiled
  <1> QED
    BY <1>1, Invariant, PTL
=============================================================================
