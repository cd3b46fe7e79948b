-------------------------- MODULE ArrayQueueProofs --------------------------
(***************************************************************************)
(* Proofs about ArrayQueue, for any capacity, width of a usize and number  *)
(* of posters and pollers.                                                 *)
(***************************************************************************)
EXTENDS ArrayQueue, Integers, FiniteSetTheorems, TLAPS

-----------------------------------------------------------------------------
(* Quotients and remainders. *)

\* A product grows with its factor.
LEMMA ProductGrows ==
  ASSUME NEW a \in Int, NEW b \in Int, NEW c \in Nat, a <= b
  PROVE  a * c <= b * c /\ a * c \in Int /\ b * c \in Int
  OBVIOUS

\* Quotient and remainder exist.
LEMMA DivisionExists ==
  ASSUME NEW c \in Nat \ {0}, NEW a \in Int
  PROVE  a = (a \div c) * c + (a % c) /\ a % c \in 0..(c - 1) /\ a \div c \in Int
  OBVIOUS

\* Quotient and remainder are unique.
LEMMA DivisionUnique ==
  ASSUME NEW c \in Nat \ {0}, NEW q \in Int, NEW r \in 0..(c - 1)
  PROVE  (q * c + r) % c = r /\ (q * c + r) \div c = q
  OBVIOUS

\* The remainder of a sum needs only the remainder of its parts.
LEMMA RemainderAdd ==
  ASSUME NEW c \in Nat \ {0}, NEW a \in Int, NEW b \in Int
  PROVE  ((a % c) + b) % c = (a + b) % c
  <1> DEFINE q == a \div c
             r == a % c
             q2 == (r + b) \div c
             r2 == (r + b) % c
  <1>1. a = q * c + r /\ q \in Int /\ r \in Int
    BY DivisionExists
  <1> HIDE DEF q, r
  <1>2. r + b \in Int
    BY <1>1
  <1>3. r + b = q2 * c + r2 /\ q2 \in Int /\ r2 \in 0..(c - 1)
    BY <1>2, DivisionExists
  <1> HIDE DEF q2, r2
  <1>4. a + b = (q + q2) * c + r2 /\ q + q2 \in Int
    BY <1>1, <1>3
  <1>5. ((q + q2) * c + r2) % c = r2
    BY <1>3, <1>4, DivisionUnique
  <1> QED
    BY <1>4, <1>5 DEF r, r2

\* Numbers less than c apart differ modulo c.
LEMMA RemainderApart ==
  ASSUME NEW c \in Nat \ {0}, NEW a \in Int, NEW b \in Int,
         a % c = b % c, a - b < c, b - a < c
  PROVE  a = b
  <1> DEFINE q == a \div c
             r == a % c
             q2 == b \div c
  <1>1. a = q * c + r /\ q \in Int /\ r \in Int
    BY DivisionExists
  <1>2. b = q2 * c + r /\ q2 \in Int
    BY DivisionExists
  <1> HIDE DEF q, r, q2
  <1>3. a - b = (q - q2) * c
    BY <1>1, <1>2
  <1>4. q - q2 = 0
    BY <1>1, <1>2, <1>3
  <1> QED
    BY <1>1, <1>2, <1>4

\* A small number is its own remainder.
LEMMA RemainderSmall ==
  ASSUME NEW c \in Nat \ {0}, NEW a \in 0..(c - 1)
  PROVE  a % c = a
  OBVIOUS

\* Adding the divisor changes nothing.
LEMMA RemainderTurn ==
  ASSUME NEW c \in Nat \ {0}, NEW a \in Int
  PROVE  (a + c) % c = a % c
  <1> DEFINE q == a \div c
             r == a % c
  <1>1. a = q * c + r /\ q \in Int /\ r \in 0..(c - 1)
    BY DivisionExists
  <1> HIDE DEF q, r
  <1>2. a + c = (q + 1) * c + r
    BY <1>1
  <1>3. ((q + 1) * c + r) % c = r
    BY <1>1, DivisionUnique
  <1> QED
    BY <1>2, <1>3 DEF r

-----------------------------------------------------------------------------
(***************************************************************************)
(* The positions that a counter goes through are numbered by ordinals that *)
(* never wrap: P(k) is the k-th, counted from position 0 of lap 0, and     *)
(* Slot(k) the slot it is in.                                              *)
(***************************************************************************)
M == Laps * Capacity
Q(o) == (o \div Capacity) * OneLap + (o % Capacity)
P(k) == Q(k % M)
Slot(k) == k % Capacity

\* What the assumptions say about the numbers of the queue.
LEMMA Sizes ==
  /\ Capacity \in Nat \ {0} /\ M \in Nat \ {0} /\ Capacity < M
  /\ OneLap \in Nat \ {0} /\ Capacity < OneLap /\ Laps \in Nat \ {0}
  /\ Laps * OneLap \in Nat \ {0}
  BY CapacityAssumption, LapsAssumption, OneLapAssumption, WidthAssumption, BoundsAssumption DEF M

\* The ordinal and the position at index i of lap l.
OrdinalAt(l, i) == l * Capacity + i
PositionIn(l, i) == l * OneLap + i

\* A position is made of a lap and an index, and gives both back.
LEMMA LapAndIndex ==
  ASSUME NEW l \in 0..(Laps - 1), NEW i \in 0..(Capacity - 1)
  PROVE  /\ OrdinalAt(l, i) \in 0..(M - 1)
         /\ Q(OrdinalAt(l, i)) = PositionIn(l, i)
         /\ PositionIn(l, i) \in Positions /\ PositionIn(l, i) + 1 \in Usize
         /\ Index(PositionIn(l, i)) = i /\ LapOf(PositionIn(l, i)) = PositionIn(l, 0)
         /\ PositionIn(l, i) \div OneLap = l
         /\ Index(PositionIn(l, i) + 1) = i + 1
  <1> USE Sizes DEF OrdinalAt, PositionIn
  <1>1. l * Capacity + Capacity <= M
    <2>1. (l + 1) * Capacity <= Laps * Capacity
      BY ProductGrows
    <2> QED
      BY <2>1 DEF M
  <1>2. l * Capacity + i \in 0..(M - 1)
    BY <1>1
  <1>3. (l * Capacity + i) \div Capacity = l /\ (l * Capacity + i) % Capacity = i
    BY DivisionUnique
  <1>4. Q(l * Capacity + i) = l * OneLap + i
    BY <1>3 DEF Q
  <1>5. l * OneLap + OneLap <= Laps * OneLap
    <2>1. (l + 1) * OneLap <= Laps * OneLap
      BY ProductGrows
    <2> QED
      BY <2>1
  <1>6. l * OneLap + i \in Usize /\ l * OneLap + i + 1 \in Usize
    BY <1>5 DEF Usize
  <1>7. Index(l * OneLap + i) = i /\ (l * OneLap + i) \div OneLap = l
    BY DivisionUnique DEF Index
  <1>8. l * OneLap + i \in Positions /\ LapOf(l * OneLap + i) = l * OneLap
    <2>1. i < Capacity /\ l * OneLap \in Int /\ i \in Int
      OBVIOUS
    <2>2. l * OneLap + i \in Positions
      BY <1>6, <1>7, <2>1 DEF Positions
    <2>3. LapOf(l * OneLap + i) = (l * OneLap + i) - i
      BY <1>7 DEF LapOf
    <2>4. ASSUME NEW x \in Int PROVE (x + i) - i = x
      BY <2>1
    <2> QED
      BY <2>1, <2>2, <2>3, <2>4
  <1>9. Index(l * OneLap + i + 1) = i + 1
    <2>1. \A j \in 0..(OneLap - 1) : (l * OneLap + j) % OneLap = j
      BY DivisionUnique
    <2>2. i + 1 \in 0..(OneLap - 1) /\ l * OneLap + i + 1 = l * OneLap + (i + 1)
      OBVIOUS
    <2> QED
      BY <2>1, <2>2 DEF Index
  <1> QED
    BY <1>2, <1>4, <1>6, <1>7, <1>8, <1>9

\* From one index to the next, and from one lap to the next.
LEMMA LapStep ==
  ASSUME NEW l \in 0..(Laps - 1), NEW i \in 0..(Capacity - 1)
  PROVE  /\ OrdinalAt(l, i + 1) = OrdinalAt(l, i) + 1
         /\ PositionIn(l, i + 1) = PositionIn(l, i) + 1
         /\ PositionIn(l, 0) + i = PositionIn(l, i)
         /\ OrdinalAt(l + 1, i) = OrdinalAt(l, i) + Capacity
         /\ PositionIn(l + 1, i) = PositionIn(l, i) + OneLap
         /\ OrdinalAt(l, Capacity - 1) + 1 = OrdinalAt(l, 0) + Capacity
         /\ OrdinalAt(Laps, i) = i + M /\ PositionIn(Laps, i) = i + Laps * OneLap
         /\ OrdinalAt(0, i) = i /\ PositionIn(0, i) = i
  BY Sizes DEF OrdinalAt, PositionIn, M

\* Every ordinal below M has a lap and an index.
LEMMA OrdinalSplit ==
  ASSUME NEW o \in 0..(M - 1)
  PROVE  \E l \in 0..(Laps - 1), i \in 0..(Capacity - 1) : o = OrdinalAt(l, i)
  <1> USE Sizes DEF OrdinalAt
  <1> DEFINE l == o \div Capacity
             i == o % Capacity
  <1>1. o = l * Capacity + i /\ i \in 0..(Capacity - 1) /\ l \in Int
    BY DivisionExists
  <1> HIDE DEF l, i
  <1>2. l >= 0
    <2>1. CASE l <= -1
      <3>1. l * Capacity <= (-1) * Capacity
        BY <1>1, <2>1, ProductGrows
      <3> QED
        BY <1>1, <3>1
    <2> QED
      BY <1>1, <2>1
  <1>3. l <= Laps - 1
    <2>1. CASE l >= Laps
      <3>1. Laps * Capacity <= l * Capacity
        BY <1>1, <2>1, ProductGrows
      <3> QED
        BY <1>1, <3>1 DEF M
    <2> QED
      BY <1>1, <2>1
  <1> QED
    BY <1>1, <1>2, <1>3

\* Every position has an ordinal.
LEMMA PositionOrdinal ==
  ASSUME NEW n \in Positions
  PROVE  \E l \in 0..(Laps - 1), i \in 0..(Capacity - 1) :
            n = PositionIn(l, i) /\ Ordinal(n) = OrdinalAt(l, i)
  <1> USE Sizes DEF PositionIn, OrdinalAt
  <1> DEFINE l == n \div OneLap
             i == n % OneLap
  <1>0. n \in 0..(Laps * OneLap - 1) /\ i < Capacity
    BY DEF Positions, Usize, Index
  <1>1. n = l * OneLap + i /\ i \in 0..(OneLap - 1) /\ l \in Int
    BY <1>0, DivisionExists
  <1>2. Ordinal(n) = l * Capacity + i
    BY DEF Ordinal, Index
  <1> HIDE DEF l, i
  <1>3. l >= 0
    <2>1. CASE l <= -1
      <3>1. l * OneLap <= (-1) * OneLap
        BY <1>1, <2>1, ProductGrows
      <3> QED
        BY <1>0, <1>1, <3>1
    <2> QED
      BY <1>1, <2>1
  <1>4. l <= Laps - 1
    <2>1. CASE l >= Laps
      <3>1. Laps * OneLap <= l * OneLap
        BY <1>1, <2>1, ProductGrows
      <3> QED
        BY <1>0, <1>1, <3>1
    <2> QED
      BY <1>1, <2>1
  <1>5. l \in 0..(Laps - 1) /\ i \in 0..(Capacity - 1)
    BY <1>0, <1>1, <1>3, <1>4
  <1>6. n = PositionIn(l, i) /\ Ordinal(n) = OrdinalAt(l, i)
    BY <1>1, <1>2
  <1> QED
    BY <1>5, <1>6

-----------------------------------------------------------------------------
\* From here on the remainders are hidden behind these facts.
LEMMA ModM ==
  /\ \A a \in 0..(M - 1) : a % M = a /\ (a + M) % M = a
  /\ \A a, b \in Nat : ((a % M) + b) % M = (a + b) % M
  /\ \A a \in Nat : a % M \in 0..(M - 1)
  /\ \A a, b \in Nat : a % M = b % M /\ a - b < M /\ b - a < M => a = b
  <1>0. M \in Nat \ {0}
    BY Sizes
  <1>1. ASSUME NEW a \in 0..(M - 1)
        PROVE  a % M = a /\ (a + M) % M = a
    <2>1. a % M = a
      BY <1>0, RemainderSmall
    <2>2. (a + M) % M = a % M
      <3>1. a \in Int
        BY <1>0
      <3> QED
        BY <1>0, <3>1, RemainderTurn, Zenon
    <2> QED
      BY <2>1, <2>2
  <1>2. ASSUME NEW a \in Nat, NEW b \in Nat
        PROVE  ((a % M) + b) % M = (a + b) % M
    <2>1. a \in Int /\ b \in Int
      OBVIOUS
    <2> QED
      BY <1>0, <2>1, RemainderAdd, Zenon
  <1>3. ASSUME NEW a \in Nat
        PROVE  a % M \in 0..(M - 1)
    <2>1. a \in Int
      OBVIOUS
    <2> QED
      BY <1>0, <2>1, DivisionExists, Zenon
  <1>4. ASSUME NEW a \in Nat, NEW b \in Nat, a % M = b % M, a - b < M, b - a < M
        PROVE  a = b
    <2>1. a \in Int /\ b \in Int
      OBVIOUS
    <2> QED
      BY <1>0, <1>4, <2>1, RemainderApart, Zenon
  <1> QED
    BY <1>1, <1>2, <1>3, <1>4

\* wrapping_add, on a usize and past its end.
LEMMA WrapFacts == \A a \in Usize : Wrap(a) = a /\ Wrap(a + Laps * OneLap) = a
  <1> DEFINE C == Laps * OneLap
  <1>0. C \in Nat \ {0}
    BY Sizes
  <1>1. Usize = 0..(C - 1) /\ \A n : Wrap(n) = n % C
    BY DEF Usize, Wrap
  <1> HIDE DEF C
  <1>2. ASSUME NEW a \in Usize
        PROVE  Wrap(a) = a /\ Wrap(a + C) = a
    <2>1. a % C = a
      BY <1>0, <1>1, RemainderSmall
    <2>2. (a + C) % C = a % C
      <3>1. a \in Int
        BY <1>0, <1>1
      <3> QED
        BY <1>0, <3>1, RemainderTurn, Zenon
    <2> QED
      BY <1>1, <2>1, <2>2
  <1> QED
    BY <1>2 DEF C

\* The lap and the index of ordinal k.
LEMMA PositionSplit ==
  ASSUME NEW k \in Nat
  PROVE  \E l \in 0..(Laps - 1), i \in 0..(Capacity - 1) :
           k % M = OrdinalAt(l, i) /\ P(k) = PositionIn(l, i) /\ Slot(k) = i
  <1> USE Sizes
  <1> DEFINE q == k \div M
             r == k % M
  <1>1. k = q * M + r /\ r \in 0..(M - 1) /\ q \in Int
    BY DivisionExists
  <1> HIDE DEF q, r
  <1>2. PICK l \in 0..(Laps - 1), i \in 0..(Capacity - 1) : r = OrdinalAt(l, i)
    BY <1>1, OrdinalSplit
  <1>3. P(k) = PositionIn(l, i)
    BY <1>2, LapAndIndex DEF P, r
  <1>4. k = (q * Laps + l) * Capacity + i /\ q * Laps + l \in Int
    BY <1>1, <1>2 DEF M, OrdinalAt
  <1>5. Slot(k) = i
    <2>1. ((q * Laps + l) * Capacity + i) % Capacity = i
      BY <1>4, DivisionUnique
    <2> QED
      BY <1>4, <2>1 DEF Slot
  <1> QED
    BY <1>2, <1>3, <1>5 DEF r

\* A position and its slot.
LEMMA PositionType ==
  ASSUME NEW k \in Nat
  PROVE  /\ P(k) \in Positions /\ P(k) \in Usize /\ P(k) \in Nat /\ P(k) + 1 \in Usize
         /\ Index(P(k)) = Slot(k) /\ Slot(k) \in Slots
         /\ Ordinal(P(k)) = k % M
  <1> USE Sizes
  <1>1. PICK l \in 0..(Laps - 1), i \in 0..(Capacity - 1) :
           k % M = OrdinalAt(l, i) /\ P(k) = PositionIn(l, i) /\ Slot(k) = i
    BY PositionSplit
  <1>2. /\ P(k) \in Positions /\ P(k) + 1 \in Usize /\ Index(P(k)) = i
        /\ P(k) \div OneLap = l
    BY <1>1, LapAndIndex
  <1> QED
    BY <1>1, <1>2 DEF Positions, Usize, Slots, Ordinal, OrdinalAt

\* Positions less than M apart are different.
LEMMA PositionApart ==
  ASSUME NEW j \in Nat, NEW k \in Nat, P(j) = P(k), j - k < M, k - j < M
  PROVE  j = k
  <1>1. j % M = k % M
    BY PositionType
  <1> QED
    BY <1>1, ModM

\* The stamp of a published element is not the position of any lap of its slot.
LEMMA PublishedIsNoPosition ==
  ASSUME NEW j \in Nat, NEW k \in Nat, Slot(j) = Slot(k)
  PROVE  P(j) + 1 # P(k)
  <1> USE Sizes
  <1>1. PICK l \in 0..(Laps - 1), i \in 0..(Capacity - 1) :
           P(j) = PositionIn(l, i) /\ Slot(j) = i
    BY PositionSplit
  <1>2. Index(P(j) + 1) = i + 1
    BY <1>1, LapAndIndex
  <1>3. Index(P(k)) = i
    BY <1>1, PositionType
  <1> QED
    BY <1>2, <1>3

\* The next lap of a position, and of the start of its lap.
LEMMA NextLap ==
  ASSUME NEW l \in 0..(Laps - 1), NEW i \in 0..(Capacity - 1)
  PROVE  /\ Wrap(PositionIn(l, i) + OneLap) = Q((OrdinalAt(l, i) + Capacity) % M)
         /\ Wrap(PositionIn(l, 0) + OneLap) + i = Q((OrdinalAt(l, i) + Capacity) % M)
  <1>0. Capacity \in Nat \ {0} /\ Laps \in Nat \ {0}
    BY Sizes
  <1>1. CASE l < Laps - 1
    <2>1. l + 1 \in 0..(Laps - 1) /\ 0 \in 0..(Capacity - 1)
      BY <1>0, <1>1
    <2>2. /\ Q(OrdinalAt(l + 1, i)) = PositionIn(l + 1, i)
          /\ OrdinalAt(l + 1, i) \in 0..(M - 1) /\ PositionIn(l + 1, i) \in Usize
          /\ PositionIn(l + 1, 0) \in Usize
      BY <2>1, LapAndIndex DEF Positions
    <2>3. OrdinalAt(l + 1, i) % M = OrdinalAt(l + 1, i)
      BY <2>2, ModM
    <2>4. Wrap(PositionIn(l + 1, i)) = PositionIn(l + 1, i) /\ Wrap(PositionIn(l + 1, 0)) = PositionIn(l + 1, 0)
      BY <2>2, WrapFacts
    <2>5. /\ OrdinalAt(l, i) + Capacity = OrdinalAt(l + 1, i)
          /\ PositionIn(l, i) + OneLap = PositionIn(l + 1, i)
          /\ PositionIn(l, 0) + OneLap = PositionIn(l + 1, 0)
      BY <2>1, LapStep
    <2>6. PositionIn(l + 1, 0) + i = PositionIn(l + 1, i)
      BY <2>1, LapStep
    <2> QED
      BY <2>2, <2>3, <2>4, <2>5, <2>6
  <1>2. CASE l = Laps - 1
    <2>1. /\ 0 \in 0..(Laps - 1) /\ 0 \in 0..(Capacity - 1) /\ l + 1 = Laps
      BY <1>0, <1>2
    <2>2. /\ OrdinalAt(l, i) + Capacity = i + M
          /\ PositionIn(l, i) + OneLap = i + Laps * OneLap
          /\ PositionIn(l, 0) + OneLap = 0 + Laps * OneLap
      BY <2>1, LapStep
    <2>3. Q(i) = i /\ i \in 0..(M - 1) /\ i \in Usize /\ 0 \in Usize
      BY <2>1, LapStep, LapAndIndex DEF Positions
    <2>4. (i + M) % M = i
      BY <2>3, ModM
    <2>5. Wrap(i + Laps * OneLap) = i /\ Wrap(0 + Laps * OneLap) = 0
      BY <2>3, WrapFacts
    <2> QED
      BY <2>2, <2>3, <2>4, <2>5
  <1> QED
    BY <1>0, <1>1, <1>2

\* The stamp that pop leaves is the position of the next lap.
LEMMA PositionNextLap ==
  ASSUME NEW k \in Nat
  PROVE  Wrap(P(k) + OneLap) = P(k + Capacity)
  <1>1. PICK l \in 0..(Laps - 1), i \in 0..(Capacity - 1) :
           k % M = OrdinalAt(l, i) /\ P(k) = PositionIn(l, i)
    BY PositionSplit
  <1>2. (k + Capacity) % M = ((k % M) + Capacity) % M
    BY ModM, Sizes
  <1> QED
    BY <1>1, <1>2, NextLap DEF P

\* Advance goes from one ordinal to the next.
LEMMA PositionAdvance ==
  ASSUME NEW k \in Nat
  PROVE  Advance(P(k)) = P(k + 1)
  <1>0. Capacity \in Nat \ {0} /\ Laps \in Nat \ {0} /\ OneLap \in Nat
    BY Sizes
  <1>1. PICK l \in 0..(Laps - 1), i \in 0..(Capacity - 1) :
           k % M = OrdinalAt(l, i) /\ P(k) = PositionIn(l, i)
    BY PositionSplit
  <1>2. Index(P(k)) = i /\ LapOf(P(k)) = PositionIn(l, 0)
    BY <1>1, LapAndIndex
  <1>3. P(k + 1) = Q((OrdinalAt(l, i) + 1) % M)
    <2>1. (k + 1) % M = ((k % M) + 1) % M
      BY ModM
    <2> QED
      BY <1>1, <2>1 DEF P
  <1>4. CASE i + 1 < Capacity
    <2>1. i + 1 \in 0..(Capacity - 1)
      BY <1>0, <1>4
    <2>2. Q(OrdinalAt(l, i + 1)) = PositionIn(l, i + 1) /\ OrdinalAt(l, i + 1) \in 0..(M - 1)
      BY <2>1, LapAndIndex
    <2>3. OrdinalAt(l, i + 1) % M = OrdinalAt(l, i + 1)
      BY <2>2, ModM
    <2>4. OrdinalAt(l, i) + 1 = OrdinalAt(l, i + 1) /\ PositionIn(l, i) + 1 = PositionIn(l, i + 1)
      BY LapStep
    <2> QED
      BY <1>1, <1>2, <1>3, <1>4, <2>2, <2>3, <2>4 DEF Advance
  <1>5. CASE i + 1 = Capacity
    <2>1. 0 \in 0..(Capacity - 1)
      BY <1>0
    <2>2. Wrap(PositionIn(l, 0) + OneLap) + 0 = Q((OrdinalAt(l, 0) + Capacity) % M)
      BY <2>1, NextLap
    <2>3. OrdinalAt(l, i) + 1 = OrdinalAt(l, 0) + Capacity
      <3>1. i = Capacity - 1
        BY <1>0, <1>5
      <3> QED
        BY <3>1, LapStep
    <2>4. Wrap(PositionIn(l, 0) + OneLap) \in Int
      BY <1>0, Sizes DEF Wrap, PositionIn
    <2> QED
      BY <1>2, <1>3, <1>5, <2>2, <2>3, <2>4 DEF Advance
  <1> QED
    BY <1>0, <1>4, <1>5

\* A position is that of its ordinal.
LEMMA PositionOfOrdinal ==
  ASSUME NEW n \in Positions
  PROVE  Ordinal(n) \in Nat /\ P(Ordinal(n)) = n
  <1>1. PICK l \in 0..(Laps - 1), i \in 0..(Capacity - 1) :
            n = PositionIn(l, i) /\ Ordinal(n) = OrdinalAt(l, i)
    BY PositionOrdinal
  <1>2. OrdinalAt(l, i) \in 0..(M - 1) /\ Q(OrdinalAt(l, i)) = n
    BY <1>1, LapAndIndex
  <1>3. OrdinalAt(l, i) % M = OrdinalAt(l, i)
    BY <1>2, ModM
  <1> QED
    BY <1>1, <1>2, <1>3 DEF P

\* Slots of ordinals.
LEMMA SlotFacts ==
  /\ \A k \in Nat : Slot(k + Capacity) = Slot(k) /\ Slot(k) \in Slots
  /\ \A j, k \in Nat : Slot(j) = Slot(k) /\ j - k < Capacity /\ k - j < Capacity => j = k
  <1>0. Capacity \in Nat \ {0}
    BY Sizes
  <1>1. ASSUME NEW k \in Nat
        PROVE  Slot(k + Capacity) = Slot(k) /\ Slot(k) \in Slots
    <2>1. k \in Int
      OBVIOUS
    <2> QED
      BY <1>0, <2>1, RemainderTurn, PositionType, Zenon DEF Slot
  <1>2. ASSUME NEW j \in Nat, NEW k \in Nat,
               Slot(j) = Slot(k), j - k < Capacity, k - j < Capacity
        PROVE  j = k
    <2>1. j \in Int /\ k \in Int
      OBVIOUS
    <2> QED
      BY <1>0, <1>2, <2>1, RemainderApart, Zenon DEF Slot
  <1> QED
    BY <1>1, <1>2

-----------------------------------------------------------------------------
(***************************************************************************)
(* The inductive invariant.  b is the ordinal at which the queue started,  *)
(* H and T are the ordinals of head and tail, and O[p] is that of the copy *)
(* of a counter that p holds.                                              *)
(***************************************************************************)
PostAt == {"post_stamp", "post_cas", "post_full", "post_write", "post_publish"}
PollAt == {"poll_stamp", "poll_cas", "poll_empty", "poll_read", "poll_release"}

Writer(p) == pc[p] \in {"post_write", "post_publish"}
Reader(p) == pc[p] \in {"poll_read", "poll_release"}

\* The posts that may still move tail.
MayMoveTail == {"post_load", "post_stamp", "post_cas", "post_full"}
Posting == {p \in Procs : pc[p] \in MayMoveTail}

\* head and tail are at most a capacity apart, and every move of tail is paid
\* for by a call.
Counters(b, H, T) ==
  /\ head = P(H) /\ tail = P(T)
  /\ b <= H /\ H <= T /\ T <= H + Capacity
  /\ T - b + Cardinality(Posting) <= calls

\* A copy lags behind its counter; the slot of one that does not is still as
\* it was seen.
Copy(b, H, T, O, p) ==
  /\ pc[p] \in PostAt \cup PollAt => pos[p] = P(O[p]) /\ b <= O[p]
  /\ pc[p] \in PostAt => O[p] <= T
  /\ pc[p] \in PollAt => O[p] <= H
  /\ pc[p] = "post_cas" /\ O[p] = T => stamp[Slot(T)] = P(T)
  /\ pc[p] = "poll_cas" /\ O[p] = H => stamp[Slot(H)] = P(H) + 1

Copies(b, H, T, O) == \A p \in Procs : Copy(b, H, T, O, p)

\* A claimed slot is the claimant's until it stores the stamp.
Claims(H, T, O) ==
  /\ \A p \in Procs : Writer(p) =>
       /\ H <= O[p] /\ O[p] < T /\ stamp[Slot(O[p])] = P(O[p])
       /\ pc[p] = "post_publish" => value[Slot(O[p])] = arg[p]
  /\ \A p \in Procs : Reader(p) =>
       /\ O[p] < H /\ T <= O[p] + Capacity /\ stamp[Slot(O[p])] = P(O[p]) + 1
       /\ pc[p] = "poll_read" => value[Slot(O[p])] \in Values
  /\ \A p, q \in Procs :
       (Writer(p) /\ Writer(q)) \/ (Reader(p) /\ Reader(q)) => (O[p] = O[q] => p = q)

\* From head to tail a slot is published or claimed by a post, and the others
\* are free for the next lap or claimed by a poll.
Ring(H, T, O) ==
  /\ \A k \in Nat : H <= k /\ k < T =>
       \/ stamp[Slot(k)] = P(k) + 1 /\ value[Slot(k)] \in Values
       \/ \E p \in Procs : Writer(p) /\ O[p] = k
  /\ \A k \in Nat : T <= k /\ k < H + Capacity =>
       \/ stamp[Slot(k)] = P(k)
       \/ \E p \in Procs : Reader(p) /\ O[p] + Capacity = k

\* What a process posts and is answered.
InCall(p) ==
  /\ pc[p] \in PostAt \cup {"post_load"} => arg[p] \in Values
  /\ pc[p] \in PollAt \cup {"poll_load", "idle"} => arg[p] = Nil
  /\ pc[p] = "poll_release" => res[p] \in Values
  /\ pc[p] = "done" => res[p] \in Values \cup {"ok", "full", "empty"}

CallInv == \A p \in Procs : InCall(p)

Good(b, H, T, O) ==
  TypeOK /\ Counters(b, H, T) /\ Copies(b, H, T, O) /\ Claims(H, T, O) /\ Ring(H, T, O) /\ CallInv

IInv == \E b, H, T \in Nat, O \in [Procs -> Nat] : Good(b, H, T, O)

-----------------------------------------------------------------------------
\* The facts about ordinals that the steps use; from here on P and Slot stay
\* folded.
LEMMA OrdinalFacts ==
  /\ Capacity \in Nat \ {0} /\ M \in Nat
  /\ \A k \in Nat : /\ P(k) \in Positions /\ P(k) \in Usize /\ P(k) \in Nat /\ P(k) + 1 \in Usize
                    /\ Index(P(k)) = Slot(k) /\ Slot(k) \in Slots
                    /\ Slot(k + Capacity) = Slot(k)
                    /\ Advance(P(k)) = P(k + 1) /\ Wrap(P(k) + OneLap) = P(k + Capacity)
  BY Sizes, PositionType, SlotFacts, PositionAdvance, PositionNextLap

\* The copies that a step can meet are less than a turn of the counters apart.
LEMMA InWindow ==
  ASSUME NEW b \in Nat, NEW H \in Nat, NEW T \in Nat, TypeOK, Counters(b, H, T)
  PROVE  /\ H + Capacity < b + M /\ T < b + M
         /\ \A j, k \in Nat : b <= j /\ j <= H + Capacity /\ b <= k /\ k <= H + Capacity
                                /\ P(j) = P(k) => j = k
  <1>1. IsFiniteSet(Procs)
    BY ProcsAssumption, FS_Union DEF Procs
  <1>2. Posting \in SUBSET Procs
    BY DEF Posting
  <1>3. IsFiniteSet(Posting)
    BY <1>1, <1>2, FS_Subset
  <1>4. Cardinality(Posting) \in Nat
    BY <1>3, FS_CardinalityType
  <1>5. calls \in Nat /\ calls <= MaxCalls /\ MaxCalls + Capacity < M
    BY WidthAssumption, BoundsAssumption DEF TypeOK, M
  <1>6. H + Capacity < b + M /\ T < b + M
    BY <1>4, <1>5, OrdinalFacts, BoundsAssumption DEF Counters
  <1>7. ASSUME NEW j \in Nat, NEW k \in Nat, b <= j, j <= H + Capacity, b <= k, k <= H + Capacity,
               P(j) = P(k)
        PROVE  j = k
    <2>1. j - k < M /\ k - j < M
      BY <1>6, <1>7, OrdinalFacts
    <2> QED
      BY <1>7, <2>1, PositionApart
  <1> QED
    BY <1>6, <1>7

\* Every claimed slot has a seat of its own on the ring of the Capacity
\* ordinals from head on.
Seat(O, p) == IF Writer(p) THEN O[p] ELSE O[p] + Capacity

\* The slots that calls are in belong to different ordinals of the window.
LEMMA Seats ==
  ASSUME NEW H \in Nat, NEW T \in Nat, NEW O \in [Procs -> Nat], Claims(H, T, O),
         H <= T, T <= H + Capacity
  PROVE  /\ \A p \in Procs : InSlot(p) =>
              /\ Seat(O, p) \in Nat /\ H <= Seat(O, p) /\ Seat(O, p) < H + Capacity
              /\ Slot(Seat(O, p)) = Slot(O[p])
              /\ Writer(p) <=> Seat(O, p) < T
         /\ \A p, q \in Procs : InSlot(p) /\ InSlot(q) /\ Slot(O[p]) = Slot(O[q]) => p = q
         /\ \A p \in Procs, k \in Nat :
              InSlot(p) /\ H <= k /\ k < H + Capacity /\ Slot(k) = Slot(O[p]) => k = Seat(O, p)
  <1>1. ASSUME NEW p \in Procs, InSlot(p)
        PROVE  /\ Seat(O, p) \in Nat /\ H <= Seat(O, p) /\ Seat(O, p) < H + Capacity
               /\ Slot(Seat(O, p)) = Slot(O[p])
               /\ Writer(p) <=> Seat(O, p) < T
    <2>1. O[p] \in Nat
      OBVIOUS
    <2>2. CASE Writer(p)
      <3>1. H <= O[p] /\ O[p] < T
        BY <2>2 DEF Claims
      <3> QED
        BY <2>1, <2>2, <3>1, OrdinalFacts DEF Seat
    <2>3. CASE ~Writer(p)
      <3>1. Reader(p)
        BY <1>1, <2>3 DEF InSlot, Writer, Reader
      <3>2. O[p] < H /\ T <= O[p] + Capacity
        BY <3>1 DEF Claims
      <3> QED
        BY <2>1, <2>3, <3>2, OrdinalFacts DEF Seat
    <2> QED
      BY <2>2, <2>3
  <1>2. ASSUME NEW p \in Procs, NEW k \in Nat,
               InSlot(p), H <= k, k < H + Capacity, Slot(k) = Slot(O[p])
        PROVE  k = Seat(O, p)
    <2>1. /\ Seat(O, p) \in Nat /\ H <= Seat(O, p) /\ Seat(O, p) < H + Capacity
          /\ Slot(Seat(O, p)) = Slot(k)
      BY <1>1, <1>2
    <2>2. k - Seat(O, p) < Capacity /\ Seat(O, p) - k < Capacity
      BY <1>2, <2>1, OrdinalFacts
    <2> QED
      BY <2>1, <2>2, SlotFacts
  <1>3. ASSUME NEW p \in Procs, NEW q \in Procs, InSlot(p), InSlot(q), Slot(O[p]) = Slot(O[q])
        PROVE  p = q
    <2>1. Seat(O, p) = Seat(O, q)
      BY <1>1, <1>2, <1>3
    <2>2. (Writer(p) /\ Writer(q)) \/ (Reader(p) /\ Reader(q))
      BY <1>1, <1>3, <2>1 DEF InSlot, Writer, Reader
    <2>3. O[p] \in Nat /\ O[q] \in Nat /\ (Reader(p) => ~Writer(p)) /\ (Reader(q) => ~Writer(q))
      BY DEF Reader, Writer
    <2>4. O[p] = O[q]
      <3>1. CASE Writer(p) /\ Writer(q)
        BY <2>1, <3>1 DEF Seat
      <3>2. CASE Reader(p) /\ Reader(q)
        <4>1. O[p] + Capacity = O[q] + Capacity /\ Capacity \in Nat
          BY <2>1, <2>3, <3>2, Sizes DEF Seat
        <4> QED
          BY <2>3, <4>1
      <3> QED
        BY <2>2, <3>1, <3>2
    <2> QED
      BY <2>2, <2>4 DEF Claims
  <1> QED
    BY <1>1, <1>2, <1>3

\* Two slots on the ring are different.
LEMMA RingApart ==
  ASSUME NEW H \in Nat, NEW j \in Nat, NEW k \in Nat,
         H <= j, j < H + Capacity, H <= k, k < H + Capacity, Slot(j) = Slot(k)
  PROVE  j = k
  <1>1. j - k < Capacity /\ k - j < Capacity
    BY OrdinalFacts
  <1> QED
    BY <1>1, SlotFacts

-----------------------------------------------------------------------------
\* The empty queue: every slot is free for the lap in which tail reaches it.
LEMMA StartStamps ==
  ASSUME NEW n \in Positions, NEW j \in Slots
  PROVE  \E k \in Nat :
           /\ Ordinal(n) <= k /\ k < Ordinal(n) + Capacity /\ Slot(k) = j
           /\ P(k) = IF j < Index(n) THEN Wrap(LapOf(n) + OneLap) + j ELSE LapOf(n) + j
  <1>0. Capacity \in Nat \ {0} /\ Laps \in Nat \ {0} /\ j \in 0..(Capacity - 1) /\ j \in Nat
    BY Sizes DEF Slots
  <1>1. PICK l \in 0..(Laps - 1), i \in 0..(Capacity - 1) :
           n = PositionIn(l, i) /\ Ordinal(n) = OrdinalAt(l, i)
    BY PositionOrdinal
  <1>2. Index(n) = i /\ LapOf(n) = PositionIn(l, 0)
    BY <1>1, LapAndIndex
  <1> DEFINE k == OrdinalAt(l, j)
  <1>3. k \in 0..(M - 1) /\ Q(k) = PositionIn(l, j) /\ PositionIn(l, 0) + j = PositionIn(l, j)
    BY <1>0, LapAndIndex, LapStep
  <1>4. Slot(k) = j
    <2>1. l \in Int
      BY <1>0
    <2> QED
      BY <1>0, <2>1, DivisionUnique DEF Slot, OrdinalAt
  <1>5. k = (OrdinalAt(l, i) - i) + j /\ OrdinalAt(l, i) \in Nat /\ k \in Nat
    <2>1. l * Capacity \in Nat
      BY <1>0
    <2> QED
      BY <1>0, <2>1 DEF OrdinalAt
  <1> HIDE DEF k
  <1>6. CASE j < i
    <2>1. k + Capacity \in Nat /\ OrdinalAt(l, i) <= k + Capacity
                 /\ k + Capacity < OrdinalAt(l, i) + Capacity
      BY <1>0, <1>5, <1>6
    <2>2. Slot(k + Capacity) = j
      BY <1>4, <1>5, SlotFacts
    <2>3. P(k + Capacity) = Wrap(PositionIn(l, 0) + OneLap) + j
      BY <1>0, NextLap DEF P, k
    <2> QED
      BY <1>1, <1>2, <1>6, <2>1, <2>2, <2>3
  <1>7. CASE ~(j < i)
    <2>1. OrdinalAt(l, i) <= k /\ k < OrdinalAt(l, i) + Capacity
      BY <1>0, <1>5, <1>7
    <2>2. k % M = k
      BY <1>3, ModM
    <2>3. P(k) = PositionIn(l, 0) + j
      BY <1>3, <2>2 DEF P
    <2> QED
      BY <1>1, <1>2, <1>4, <1>5, <1>7, <2>1, <2>3
  <1> QED
    BY <1>6, <1>7

\* The queue starts at a position.
LEMMA ZeroIsPosition == 0 \in Positions
  <1>1. 0 \in 0..(Laps - 1) /\ 0 \in 0..(Capacity - 1)
    BY Sizes
  <1> QED
    BY <1>1, LapAndIndex, LapStep

\* The invariant holds in a queue that has just been made.
LEMMA InitInv == Init => IInv
  <1> SUFFICES ASSUME Init PROVE IInv
    OBVIOUS
  <1>1. PICK n \in Starts :
          /\ head = n /\ tail = n
          /\ stamp = [i \in Slots |->
                        IF i < Index(n) THEN Wrap(LapOf(n) + OneLap) + i ELSE LapOf(n) + i]
          /\ value = [i \in Slots |-> Nil]
          /\ pc = [p \in Procs |-> "idle"]
          /\ arg = [p \in Procs |-> Nil] /\ res = [p \in Procs |-> Nil]
          /\ pos = [p \in Procs |-> 0]
          /\ calls = 0 /\ spurious = 0
    BY DEF Init
  <1>2. n \in Positions
    BY StartsAssumption
  <1> DEFINE b == Ordinal(n)
  <1>3. b \in Nat /\ P(b) = n
    BY <1>2, PositionOfOrdinal
  <1> HIDE DEF b
  <1>4. ASSUME NEW j \in Slots
        PROVE  \E k \in Nat : b <= k /\ k < b + Capacity /\ Slot(k) = j /\ stamp[j] = P(k)
    BY <1>1, <1>2, StartStamps DEF b
  <1>5. TypeOK
    <2>1. stamp \in [Slots -> Usize]
      <3>1. \A j \in Slots : stamp[j] \in Usize
        BY <1>4, OrdinalFacts
      <3>2. stamp = [i \in Slots |-> stamp[i]]
        BY <1>1
      <3> QED
        BY <3>1, <3>2
    <2>3. pos \in [Procs -> Positions]
      BY <1>1, ZeroIsPosition
    <2>4. value \in [Slots -> Values \cup {Nil}] /\ arg \in [Procs -> Values \cup {Nil}]
      BY <1>1
    <2>5. pc \in [Procs -> Labels] /\ res \in [Procs -> Values \cup {Nil, "ok", "full", "empty"}]
      BY <1>1 DEF Labels
    <2> QED
      BY <1>1, <1>2, <2>1, <2>3, <2>4, <2>5, BoundsAssumption DEF TypeOK
  <1>6. Counters(b, b, b)
    <2>1. Posting = {}
      BY <1>1 DEF Posting, MayMoveTail
    <2>2. Cardinality(Posting) = 0
      BY <2>1, FS_EmptySet
    <2> QED
      BY <1>1, <1>3, <2>2, OrdinalFacts DEF Counters
  <1> DEFINE O == [p \in Procs |-> 0]
  <1>7. \A p \in Procs : pc[p] = "idle" /\ arg[p] = Nil
    BY <1>1
  <1>8. Copies(b, b, b, O) /\ Claims(b, b, O) /\ CallInv
    BY <1>7 DEF Copies, Copy, Claims, CallInv, InCall, Writer, Reader, PostAt, PollAt
  <1>9. Ring(b, b, O)
    <2>1. ASSUME NEW k \in Nat, b <= k, k < b + Capacity
          PROVE  stamp[Slot(k)] = P(k)
      <3>1. PICK i \in Nat : b <= i /\ i < b + Capacity /\ Slot(i) = Slot(k) /\ stamp[Slot(k)] = P(i)
        BY <1>4, OrdinalFacts
      <3>2. i = k
        BY <1>3, <2>1, <3>1, RingApart
      <3> QED
        BY <3>1, <3>2
    <2>2. \A k \in Nat : ~(b <= k /\ k < b)
      BY <1>3
    <2> QED
      BY <2>1, <2>2 DEF Ring
  <1>10. O \in [Procs -> Nat]
    OBVIOUS
  <1> QED
    BY <1>3, <1>5, <1>6, <1>8, <1>9, <1>10 DEF IInv, Good

-----------------------------------------------------------------------------
\* How a step of p changes the number of posts that may still move tail.
LEMMA PostingStep ==
  ASSUME pc \in [Procs -> Labels], NEW p \in Procs, NEW l, pc' = [pc EXCEPT ![p] = l]
  PROVE  /\ Cardinality(Posting) \in Nat /\ Cardinality(Posting)' \in Nat
         /\ pc[p] \in MayMoveTail \/ l \notin MayMoveTail
              => Cardinality(Posting)' <= Cardinality(Posting)
         /\ pc[p] \in MayMoveTail /\ l \notin MayMoveTail
              => Cardinality(Posting)' = Cardinality(Posting) - 1
         /\ Cardinality(Posting)' <= Cardinality(Posting) + 1
  <1>1. IsFiniteSet(Procs)
    BY ProcsAssumption, FS_Union DEF Procs
  <1>2. Posting \in SUBSET Procs
    BY DEF Posting
  <1>3. IsFiniteSet(Posting)
    BY <1>1, <1>2, FS_Subset
  <1>4. Cardinality(Posting) \in Nat
    BY <1>3, FS_CardinalityType
  <1>5. CASE pc[p] \in MayMoveTail /\ l \in MayMoveTail
    <2>1. Posting' = Posting
      BY <1>5 DEF Posting
    <2>2. Cardinality(Posting)' = Cardinality(Posting)
      BY <2>1
    <2> QED
      BY <1>4, <1>5, <2>2
  <1>6. CASE pc[p] \notin MayMoveTail /\ l \notin MayMoveTail
    <2>1. Posting' = Posting
      BY <1>6 DEF Posting
    <2>2. Cardinality(Posting)' = Cardinality(Posting)
      BY <2>1
    <2> QED
      BY <1>4, <1>6, <2>2
  <1>7. CASE pc[p] \in MayMoveTail /\ l \notin MayMoveTail
    <2>1. Posting' = Posting \ {p} /\ p \in Posting
      BY <1>7 DEF Posting
    <2>2. Cardinality(Posting)' = Cardinality(Posting) - 1 /\ IsFiniteSet(Posting)'
      BY <1>3, <2>1, FS_RemoveElement
    <2>3. Cardinality(Posting)' \in Nat
      BY <2>2, FS_CardinalityType
    <2> QED
      BY <1>4, <1>7, <2>2, <2>3
  <1>8. CASE pc[p] \notin MayMoveTail /\ l \in MayMoveTail
    <2>1. Posting' = Posting \cup {p} /\ p \notin Posting
      BY <1>8 DEF Posting
    <2>2. Cardinality(Posting)' = Cardinality(Posting) + 1
      BY <1>3, <2>1, FS_AddElement
    <2> QED
      BY <1>4, <1>8, <2>2
  <1> QED
    BY <1>5, <1>6, <1>7, <1>8

\* What a step of p leaves alone: the other processes.
Others(p, l) ==
  /\ pc' = [pc EXCEPT ![p] = l] /\ l \in Labels
  /\ \A q \in Procs \ {p} : arg'[q] = arg[q] /\ pos'[q] = pos[q] /\ res'[q] = res[q]

\* A step that touches neither the counters nor the ring.
LEMMA QuietStep ==
  ASSUME NEW b \in Nat, NEW H \in Nat, NEW T \in Nat, NEW O \in [Procs -> Nat], Good(b, H, T, O),
         NEW p \in Procs, NEW l, NEW o \in Nat,
         UNCHANGED <<head, tail, stamp, value>>, Others(p, l), TypeOK',
         ~InSlot(p), ~InSlot(p)',
         \/ calls' = calls /\ (pc[p] \in MayMoveTail \/ l \notin MayMoveTail)
         \/ calls' = calls + 1,
         Copy(b, H, T, [O EXCEPT ![p] = o], p)', InCall(p)'
  PROVE  IInv'
  <1> DEFINE N == [O EXCEPT ![p] = o]
  <1>0. N \in [Procs -> Nat] /\ N[p] = o /\ \A q \in Procs \ {p} : N[q] = O[q]
    OBVIOUS
  <1>1. Copy(b, H, T, N, p)'
    OBVIOUS
  <1> HIDE DEF N
  <1>2. \A q \in Procs \ {p} : pc'[q] = pc[q]
    BY DEF Others, Good, TypeOK
  <1>3. Counters(b, H, T)'
    <2>0. pc \in [Procs -> Labels] /\ pc' = [pc EXCEPT ![p] = l]
      BY DEF Good, TypeOK, Others
    <2>3. Cardinality(Posting) \in Nat /\ Cardinality(Posting)' \in Nat
      BY <2>0, PostingStep
    <2>1. T - b + Cardinality(Posting) <= calls /\ calls \in Nat
      BY BoundsAssumption DEF Good, TypeOK, Counters
    <2>2. T - b + Cardinality(Posting)' <= calls'
      <3>1. CASE calls' = calls /\ (pc[p] \in MayMoveTail \/ l \notin MayMoveTail)
        <4>1. Cardinality(Posting)' <= Cardinality(Posting)
          BY <2>0, <3>1, PostingStep
        <4> QED
          BY <2>3, <2>1, <3>1, <4>1
      <3>2. CASE calls' = calls + 1
        <4>1. Cardinality(Posting)' <= Cardinality(Posting) + 1
          BY <2>0, <3>2, PostingStep
        <4> QED
          BY <2>3, <2>1, <3>2, <4>1
      <3> QED
        BY <3>1, <3>2
    <2> QED
      BY <2>2 DEF Good, Counters
  <1>4. Copies(b, H, T, N)'
    <2>1. ASSUME NEW q \in Procs \ {p}
          PROVE  Copy(b, H, T, N, q)'
      <3>1. Copy(b, H, T, O, q) /\ pos'[q] = pos[q]
        BY DEF Good, Copies, Others
      <3> QED
        BY <1>0, <1>2, <3>1 DEF Copy
    <2> QED
      BY <1>1, <2>1 DEF Copies
  <1>5. \A q \in Procs : (Writer(q)' <=> Writer(q)) /\ (Reader(q)' <=> Reader(q))
    BY <1>2 DEF Writer, Reader, InSlot
  <1>6. \A q \in Procs : Writer(q) \/ Reader(q) =>
            N[q] = O[q] /\ pc'[q] = pc[q] /\ arg'[q] = arg[q]
    BY <1>0, <1>2 DEF Writer, Reader, InSlot, Others
  <1>7. Claims(H, T, N)'
    <2>1. Claims(H, T, O)
      BY DEF Good
    <2>2. \A q \in Procs : Writer(q)' =>
            /\ H <= N[q] /\ N[q] < T /\ stamp'[Slot(N[q])] = P(N[q])
            /\ pc'[q] = "post_publish" => value'[Slot(N[q])] = arg'[q]
      BY <1>5, <1>6, <2>1 DEF Claims
    <2>3. \A q \in Procs : Reader(q)' =>
            /\ N[q] < H /\ T <= N[q] + Capacity /\ stamp'[Slot(N[q])] = P(N[q]) + 1
            /\ pc'[q] = "poll_read" => value'[Slot(N[q])] \in Values
      BY <1>5, <1>6, <2>1 DEF Claims
    <2>4. \A q, r \in Procs :
            (Writer(q)' /\ Writer(r)') \/ (Reader(q)' /\ Reader(r)') => (N[q] = N[r] => q = r)
      BY <1>5, <1>6, <2>1 DEF Claims
    <2> QED
      BY <2>2, <2>3, <2>4 DEF Claims
  <1>8. Ring(H, T, N)'
    BY <1>5, <1>6 DEF Good, Ring
  <1>9. CallInv'
    <2>1. ASSUME NEW q \in Procs \ {p}
          PROVE  InCall(q)'
      BY <1>2 DEF Good, CallInv, InCall, Others
    <2> QED
      BY <2>1 DEF CallInv
  <1> QED
    BY <1>0, <1>3, <1>4, <1>7, <1>8, <1>9 DEF IInv, Good

-----------------------------------------------------------------------------
\* Calls, returns, and the loads of a counter.

\* A call of post begins.
LEMMA CallPostInv ==
  ASSUME NEW b \in Nat, NEW H \in Nat, NEW T \in Nat, NEW O \in [Procs -> Nat], Good(b, H, T, O),
         NEW p \in Procs, NEW v \in Values, CallPost(p, v)
  PROVE  IInv'
  <1> USE DEF CallPost, Goto
  <1>1. Others(p, "post_load") /\ UNCHANGED <<head, tail, stamp, value>>
    BY DEF Others, Labels, Good, TypeOK
  <1>2. TypeOK'
    BY <1>1, BoundsAssumption, ZeroIsPosition DEF Others, Good, TypeOK
  <1>3. pc'[p] = "post_load" /\ ~InSlot(p) /\ ~InSlot(p)'
    BY DEF InSlot, Good, TypeOK
  <1>4. Copy(b, H, T, [O EXCEPT ![p] = O[p]], p)'
    BY <1>3, OrdinalFacts DEF Copy, PostAt, PollAt, Good, Counters, TypeOK
  <1>5. InCall(p)'
    BY <1>3 DEF InCall, PostAt, PollAt, Good, CallInv, TypeOK
  <1>6. O[p] \in Nat /\ calls' = calls + 1
    OBVIOUS
  <1>7. pc[p] \in MayMoveTail \/ "post_load" \notin MayMoveTail \/ calls' = calls + 1
    BY DEF MayMoveTail
  <1> QED
    BY <1>1, <1>2, <1>3, <1>4, <1>5, <1>6, <1>7, QuietStep

\* A call of poll begins.
LEMMA CallPollInv ==
  ASSUME NEW b \in Nat, NEW H \in Nat, NEW T \in Nat, NEW O \in [Procs -> Nat], Good(b, H, T, O),
         NEW p \in Procs, CallPoll(p)
  PROVE  IInv'
  <1> USE DEF CallPoll, Goto
  <1>1. Others(p, "poll_load") /\ UNCHANGED <<head, tail, stamp, value>>
    BY DEF Others, Labels, Good, TypeOK
  <1>2. TypeOK'
    BY <1>1, BoundsAssumption, ZeroIsPosition DEF Others, Good, TypeOK
  <1>3. pc'[p] = "poll_load" /\ ~InSlot(p) /\ ~InSlot(p)'
    BY DEF InSlot, Good, TypeOK
  <1>4. Copy(b, H, T, [O EXCEPT ![p] = O[p]], p)'
    BY <1>3, OrdinalFacts DEF Copy, PostAt, PollAt, Good, Counters, TypeOK
  <1>5. InCall(p)'
    BY <1>3 DEF InCall, PostAt, PollAt, Good, CallInv, TypeOK
  <1>6. O[p] \in Nat /\ calls' = calls + 1
    OBVIOUS
  <1>7. pc[p] \in MayMoveTail \/ "poll_load" \notin MayMoveTail \/ calls' = calls + 1
    BY DEF MayMoveTail
  <1> QED
    BY <1>1, <1>2, <1>3, <1>4, <1>5, <1>6, <1>7, QuietStep

\* A call returns.
LEMMA ReturnInv ==
  ASSUME NEW b \in Nat, NEW H \in Nat, NEW T \in Nat, NEW O \in [Procs -> Nat], Good(b, H, T, O),
         NEW p \in Procs, Return(p)
  PROVE  IInv'
  <1> USE DEF Return, Goto
  <1>1. Others(p, "idle") /\ UNCHANGED <<head, tail, stamp, value>>
    BY DEF Others, Labels, Good, TypeOK
  <1>2. TypeOK'
    BY <1>1, BoundsAssumption, ZeroIsPosition DEF Others, Good, TypeOK
  <1>3. pc'[p] = "idle" /\ ~InSlot(p) /\ ~InSlot(p)'
    BY DEF InSlot, Good, TypeOK
  <1>4. Copy(b, H, T, [O EXCEPT ![p] = O[p]], p)'
    BY <1>3, OrdinalFacts DEF Copy, PostAt, PollAt, Good, Counters, TypeOK
  <1>5. InCall(p)'
    BY <1>3 DEF InCall, PostAt, PollAt, Good, CallInv, TypeOK
  <1>6. O[p] \in Nat /\ calls' = calls
    OBVIOUS
  <1>7. pc[p] \in MayMoveTail \/ "idle" \notin MayMoveTail \/ calls' = calls + 1
    BY DEF MayMoveTail
  <1> QED
    BY <1>1, <1>2, <1>3, <1>4, <1>5, <1>6, <1>7, QuietStep

\* post loads the tail.
LEMMA PostLoadTailInv ==
  ASSUME NEW b \in Nat, NEW H \in Nat, NEW T \in Nat, NEW O \in [Procs -> Nat], Good(b, H, T, O),
         NEW p \in Procs, PostLoadTail(p)
  PROVE  IInv'
  <1> USE DEF PostLoadTail, Goto
  <1>1. Others(p, "post_stamp") /\ UNCHANGED <<head, tail, stamp, value>>
    BY DEF Others, Labels, Good, TypeOK
  <1>2. TypeOK'
    BY <1>1, BoundsAssumption, ZeroIsPosition DEF Others, Good, TypeOK
  <1>3. pc'[p] = "post_stamp" /\ ~InSlot(p) /\ ~InSlot(p)'
    BY DEF InSlot, Good, TypeOK
  <1>4. Copy(b, H, T, [O EXCEPT ![p] = T], p)'
    BY <1>3, OrdinalFacts DEF Copy, PostAt, PollAt, Good, Counters, TypeOK
  <1>5. InCall(p)'
    BY <1>3 DEF InCall, PostAt, PollAt, Good, CallInv, TypeOK
  <1>6. O[p] \in Nat /\ calls' = calls
    OBVIOUS
  <1>7. pc[p] \in MayMoveTail \/ "post_stamp" \notin MayMoveTail \/ calls' = calls + 1
    BY DEF MayMoveTail
  <1> QED
    BY <1>1, <1>2, <1>3, <1>4, <1>5, <1>6, <1>7, QuietStep

\* poll loads the head.
LEMMA PollLoadHeadInv ==
  ASSUME NEW b \in Nat, NEW H \in Nat, NEW T \in Nat, NEW O \in [Procs -> Nat], Good(b, H, T, O),
         NEW p \in Procs, PollLoadHead(p)
  PROVE  IInv'
  <1> USE DEF PollLoadHead, Goto
  <1>1. Others(p, "poll_stamp") /\ UNCHANGED <<head, tail, stamp, value>>
    BY DEF Others, Labels, Good, TypeOK
  <1>2. TypeOK'
    BY <1>1, BoundsAssumption, ZeroIsPosition DEF Others, Good, TypeOK
  <1>3. pc'[p] = "poll_stamp" /\ ~InSlot(p) /\ ~InSlot(p)'
    BY DEF InSlot, Good, TypeOK
  <1>4. Copy(b, H, T, [O EXCEPT ![p] = H], p)'
    BY <1>3, OrdinalFacts DEF Copy, PostAt, PollAt, Good, Counters, TypeOK
  <1>5. InCall(p)'
    BY <1>3 DEF InCall, PostAt, PollAt, Good, CallInv, TypeOK
  <1>6. O[p] \in Nat /\ calls' = calls
    OBVIOUS
  <1>7. pc[p] \in MayMoveTail \/ "poll_stamp" \notin MayMoveTail \/ calls' = calls + 1
    BY DEF MayMoveTail
  <1> QED
    BY <1>1, <1>2, <1>3, <1>4, <1>5, <1>6, <1>7, QuietStep

\* The exchange of the tail fails, and post starts again.
LEMMA PostCasFailInv ==
  ASSUME NEW b \in Nat, NEW H \in Nat, NEW T \in Nat, NEW O \in [Procs -> Nat], Good(b, H, T, O),
         NEW p \in Procs, PostCasFail(p)
  PROVE  IInv'
  <1> USE DEF PostCasFail, FailedCas, Goto
  <1>1. Others(p, "post_stamp") /\ UNCHANGED <<head, tail, stamp, value>>
    BY DEF Others, Labels, Good, TypeOK
  <1>2. TypeOK'
    BY <1>1, BoundsAssumption, ZeroIsPosition DEF Others, Good, TypeOK
  <1>3. pc'[p] = "post_stamp" /\ ~InSlot(p) /\ ~InSlot(p)'
    BY DEF InSlot, Good, TypeOK
  <1>4. Copy(b, H, T, [O EXCEPT ![p] = T], p)'
    BY <1>3, OrdinalFacts DEF Copy, PostAt, PollAt, Good, Counters, TypeOK
  <1>5. InCall(p)'
    BY <1>3 DEF InCall, PostAt, PollAt, Good, CallInv, TypeOK
  <1>6. O[p] \in Nat /\ calls' = calls
    OBVIOUS
  <1>7. pc[p] \in MayMoveTail \/ "post_stamp" \notin MayMoveTail \/ calls' = calls + 1
    BY DEF MayMoveTail
  <1> QED
    BY <1>1, <1>2, <1>3, <1>4, <1>5, <1>6, <1>7, QuietStep

\* The exchange of the head fails, and poll starts again.
LEMMA PollCasFailInv ==
  ASSUME NEW b \in Nat, NEW H \in Nat, NEW T \in Nat, NEW O \in [Procs -> Nat], Good(b, H, T, O),
         NEW p \in Procs, PollCasFail(p)
  PROVE  IInv'
  <1> USE DEF PollCasFail, FailedCas, Goto
  <1>1. Others(p, "poll_stamp") /\ UNCHANGED <<head, tail, stamp, value>>
    BY DEF Others, Labels, Good, TypeOK
  <1>2. TypeOK'
    BY <1>1, BoundsAssumption, ZeroIsPosition DEF Others, Good, TypeOK
  <1>3. pc'[p] = "poll_stamp" /\ ~InSlot(p) /\ ~InSlot(p)'
    BY DEF InSlot, Good, TypeOK
  <1>4. Copy(b, H, T, [O EXCEPT ![p] = H], p)'
    BY <1>3, OrdinalFacts DEF Copy, PostAt, PollAt, Good, Counters, TypeOK
  <1>5. InCall(p)'
    BY <1>3 DEF InCall, PostAt, PollAt, Good, CallInv, TypeOK
  <1>6. O[p] \in Nat /\ calls' = calls
    OBVIOUS
  <1>7. pc[p] \in MayMoveTail \/ "poll_stamp" \notin MayMoveTail \/ calls' = calls + 1
    BY DEF MayMoveTail
  <1> QED
    BY <1>1, <1>2, <1>3, <1>4, <1>5, <1>6, <1>7, QuietStep

\* Where a stamp leads.
LEMMA PostLoadStampInv ==
  ASSUME NEW b \in Nat, NEW H \in Nat, NEW T \in Nat, NEW O \in [Procs -> Nat], Good(b, H, T, O),
         NEW p \in Procs, PostLoadStamp(p)
  PROVE  IInv'
  <1> DEFINE l == PostBranch(pos[p], stamp[Index(pos[p])])
  <1> USE DEF PostLoadStamp, Goto
  <1>1. l \in {"post_cas", "post_full", "post_load"} /\ (l = "post_cas" => pos[p] = stamp[Index(pos[p])])
    BY DEF PostBranch
  <1>2. pc' = [pc EXCEPT ![p] = l]
    OBVIOUS
  <1> HIDE DEF l
  <1>3. Others(p, l) /\ UNCHANGED <<head, tail, stamp, value>>
    BY <1>1, <1>2 DEF Others, Labels
  <1>4. TypeOK'
    BY <1>2, <1>3 DEF Others, Good, TypeOK
  <1>5. pc'[p] = l /\ pc[p] = "post_stamp" /\ ~InSlot(p) /\ ~InSlot(p)'
    BY <1>1, <1>2 DEF InSlot, Good, TypeOK
  <1>6. pos[p] = P(O[p]) /\ b <= O[p] /\ O[p] <= T /\ O[p] \in Nat /\ Index(pos[p]) = Slot(O[p])
    BY <1>5, OrdinalFacts DEF Good, Copies, Copy, PostAt
  <1>7. Copy(b, H, T, [O EXCEPT ![p] = O[p]], p)'
    BY <1>1, <1>3, <1>5, <1>6 DEF Copy, PostAt, PollAt
  <1>8. InCall(p)'
    BY <1>1, <1>5 DEF InCall, PostAt, PollAt, Good, CallInv
  <1>9. calls' = calls /\ pc[p] \in MayMoveTail
    BY DEF MayMoveTail
  <1> QED
    BY <1>3, <1>4, <1>5, <1>6, <1>7, <1>8, <1>9, QuietStep

\* poll loads the stamp of its slot.
LEMMA PollLoadStampInv ==
  ASSUME NEW b \in Nat, NEW H \in Nat, NEW T \in Nat, NEW O \in [Procs -> Nat], Good(b, H, T, O),
         NEW p \in Procs, PollLoadStamp(p)
  PROVE  IInv'
  <1> DEFINE l == PollBranch(pos[p], stamp[Index(pos[p])])
  <1> USE DEF PollLoadStamp, Goto
  <1>1. /\ l \in {"poll_cas", "poll_empty", "poll_load"}
        /\ l = "poll_cas" => pos[p] + 1 = stamp[Index(pos[p])]
    BY DEF PollBranch
  <1>2. pc' = [pc EXCEPT ![p] = l]
    OBVIOUS
  <1> HIDE DEF l
  <1>3. Others(p, l) /\ UNCHANGED <<head, tail, stamp, value>>
    BY <1>1, <1>2 DEF Others, Labels
  <1>4. TypeOK'
    BY <1>2, <1>3 DEF Others, Good, TypeOK
  <1>5. pc'[p] = l /\ pc[p] = "poll_stamp" /\ ~InSlot(p) /\ ~InSlot(p)'
    BY <1>1, <1>2 DEF InSlot, Good, TypeOK
  <1>6. pos[p] = P(O[p]) /\ b <= O[p] /\ O[p] <= H /\ O[p] \in Nat /\ Index(pos[p]) = Slot(O[p])
    BY <1>5, OrdinalFacts DEF Good, Copies, Copy, PollAt
  <1>7. Copy(b, H, T, [O EXCEPT ![p] = O[p]], p)'
    BY <1>1, <1>3, <1>5, <1>6 DEF Copy, PostAt, PollAt
  <1>8. InCall(p)'
    BY <1>1, <1>5 DEF InCall, PostAt, PollAt, Good, CallInv
  <1>9. calls' = calls /\ l \notin MayMoveTail
    BY <1>1 DEF MayMoveTail
  <1> QED
    BY <1>3, <1>4, <1>5, <1>6, <1>7, <1>8, <1>9, QuietStep

\* The answers full and empty.
LEMMA PostCheckFullInv ==
  ASSUME NEW b \in Nat, NEW H \in Nat, NEW T \in Nat, NEW O \in [Procs -> Nat], Good(b, H, T, O),
         NEW p \in Procs, PostCheckFull(p)
  PROVE  IInv'
  <1> USE DEF PostCheckFull, Goto, Finish
  <1>1. PICK l \in {"done", "post_load"} : /\ pc' = [pc EXCEPT ![p] = l]
                                           /\ l = "done" => res' = [res EXCEPT ![p] = "full"]
                                           /\ l = "post_load" => res' = res
    OBVIOUS
  <1>2. Others(p, l) /\ UNCHANGED <<head, tail, stamp, value>>
    BY <1>1 DEF Others, Labels, Good, TypeOK
  <1>3. res' \in [Procs -> Values \cup {Nil, "ok", "full", "empty"}]
    BY <1>1 DEF Good, TypeOK
  <1>4. TypeOK'
    BY <1>1, <1>2, <1>3 DEF Others, Good, TypeOK
  <1>5. pc'[p] = l /\ pc[p] = "post_full" /\ ~InSlot(p) /\ ~InSlot(p)'
    BY <1>1 DEF InSlot, Good, TypeOK
  <1>6. Copy(b, H, T, [O EXCEPT ![p] = O[p]], p)' /\ O[p] \in Nat
    BY <1>5 DEF Copy, PostAt, PollAt
  <1>7. InCall(p)'
    BY <1>1, <1>5 DEF InCall, PostAt, PollAt, Good, CallInv, TypeOK
  <1>8. calls' = calls /\ pc[p] \in MayMoveTail
    BY DEF MayMoveTail
  <1> QED
    BY <1>2, <1>4, <1>5, <1>6, <1>7, <1>8, QuietStep

\* poll compares head and tail to find the queue empty.
LEMMA PollCheckEmptyInv ==
  ASSUME NEW b \in Nat, NEW H \in Nat, NEW T \in Nat, NEW O \in [Procs -> Nat], Good(b, H, T, O),
         NEW p \in Procs, PollCheckEmpty(p)
  PROVE  IInv'
  <1> USE DEF PollCheckEmpty, Goto, Finish
  <1>1. PICK l \in {"done", "poll_load"} : /\ pc' = [pc EXCEPT ![p] = l]
                                           /\ l = "done" => res' = [res EXCEPT ![p] = "empty"]
                                           /\ l = "poll_load" => res' = res
    OBVIOUS
  <1>2. Others(p, l) /\ UNCHANGED <<head, tail, stamp, value>>
    BY <1>1 DEF Others, Labels, Good, TypeOK
  <1>3. res' \in [Procs -> Values \cup {Nil, "ok", "full", "empty"}]
    BY <1>1 DEF Good, TypeOK
  <1>4. TypeOK'
    BY <1>1, <1>2, <1>3 DEF Others, Good, TypeOK
  <1>5. pc'[p] = l /\ pc[p] = "poll_empty" /\ ~InSlot(p) /\ ~InSlot(p)'
    BY <1>1 DEF InSlot, Good, TypeOK
  <1>6. Copy(b, H, T, [O EXCEPT ![p] = O[p]], p)' /\ O[p] \in Nat
    BY <1>5 DEF Copy, PostAt, PollAt
  <1>7. InCall(p)'
    BY <1>1, <1>5 DEF InCall, PostAt, PollAt, Good, CallInv, TypeOK
  <1>8. calls' = calls /\ l \notin MayMoveTail
    BY <1>1 DEF MayMoveTail
  <1> QED
    BY <1>2, <1>4, <1>5, <1>6, <1>7, <1>8, QuietStep

-----------------------------------------------------------------------------
\* The steps of a claimant in its slot.

\* The arithmetic of the slot a process has claimed.
Claimed(b, H, T, O, p) ==
  /\ O[p] \in Nat /\ b <= O[p] /\ O[p] <= T /\ pos[p] = P(O[p])
  /\ Index(pos[p]) = Slot(O[p]) /\ Slot(O[p]) \in Slots /\ pos[p] + 1 \in Usize
  /\ Wrap(pos[p] + OneLap) = P(O[p] + Capacity) /\ P(O[p] + Capacity) \in Usize
  /\ H <= T /\ T <= H + Capacity

\* What a claimant knows.
LEMMA Claimant ==
  ASSUME NEW b \in Nat, NEW H \in Nat, NEW T \in Nat, NEW O \in [Procs -> Nat], Good(b, H, T, O),
         NEW p \in Procs, InSlot(p)
  PROVE  Claimed(b, H, T, O, p)
  <1>1. pos[p] = P(O[p]) /\ b <= O[p] /\ (pc[p] \in PostAt \/ pc[p] \in PollAt)
    BY DEF Good, Copies, Copy, InSlot, PostAt, PollAt
  <1>2. H <= T /\ T <= H + Capacity
    BY DEF Good, Counters
  <1>3. O[p] \in Nat /\ O[p] <= T
    BY <1>1, <1>2 DEF Good, Copies, Copy
  <1>4. O[p] + Capacity \in Nat
    BY <1>3, Sizes
  <1> QED
    BY <1>1, <1>2, <1>3, <1>4, OrdinalFacts DEF Claimed

\* It leaves the counters alone.
LEMMA SameCounters ==
  ASSUME NEW b \in Nat, NEW H \in Nat, NEW T \in Nat, NEW O \in [Procs -> Nat], Good(b, H, T, O),
         NEW p \in Procs, InSlot(p), NEW l, l \notin MayMoveTail, Others(p, l),
         UNCHANGED <<head, tail, calls>>
  PROVE  Counters(b, H, T)'
  <1>1. pc \in [Procs -> Labels] /\ pc' = [pc EXCEPT ![p] = l] /\ pc[p] \notin MayMoveTail
    BY DEF Good, TypeOK, Others, InSlot, MayMoveTail
  <1>2. /\ Cardinality(Posting) \in Nat /\ Cardinality(Posting)' \in Nat
        /\ Cardinality(Posting)' <= Cardinality(Posting)
    BY <1>1, PostingStep
  <1>3. T - b + Cardinality(Posting) <= calls /\ calls \in Nat
    BY BoundsAssumption DEF Good, TypeOK, Counters
  <1> QED
    BY <1>2, <1>3 DEF Good, Counters

\* A claimant that stores its stamp spoils no copy that is up to date.
LEMMA CopiesKept ==
  ASSUME NEW b \in Nat, NEW H \in Nat, NEW T \in Nat, NEW O \in [Procs -> Nat], Good(b, H, T, O),
         NEW p \in Procs, InSlot(p), NEW l \in Labels, Others(p, l),
         \A k \in Nat : Slot(k) # Slot(O[p]) => stamp'[Slot(k)] = stamp[Slot(k)],
         Copy(b, H, T, O, p)'
  PROVE  Copies(b, H, T, O)'
  <1>1. ASSUME NEW q \in Procs \ {p}
        PROVE  Copy(b, H, T, O, q)'
    <2>1. Copy(b, H, T, O, q) /\ pc'[q] = pc[q] /\ pos'[q] = pos[q]
      BY DEF Good, Copies, Others, TypeOK
    <2>2. O[q] \in Nat /\ O[p] \in Nat /\ b <= O[p] /\ O[p] <= T /\ T <= H + Capacity
          /\ b <= H /\ H <= T /\ b <= T
      BY Claimant DEF Claimed, Good, Counters
    <2>3. ASSUME stamp[Slot(T)] = P(T)
          PROVE  stamp'[Slot(T)] = P(T)
      <3>1. CASE Slot(T) = Slot(O[p])
        <4>1. CASE Writer(p)
          <5>1. P(O[p]) = P(T) /\ O[p] < T
            BY <2>3, <3>1, <4>1 DEF Good, Claims
          <5> QED
            BY <2>2, <5>1, InWindow, Sizes DEF Good
        <4>2. CASE Reader(p)
          <5>1. P(O[p]) + 1 = P(T)
            BY <2>3, <3>1, <4>2 DEF Good, Claims
          <5> QED
            BY <2>2, <3>1, <5>1, PublishedIsNoPosition
        <4> QED
          BY <4>1, <4>2 DEF InSlot, Writer, Reader
      <3> QED
        BY <2>3, <3>1
    <2>4. ASSUME stamp[Slot(H)] = P(H) + 1
          PROVE  stamp'[Slot(H)] = P(H) + 1
      <3>1. CASE Slot(H) = Slot(O[p])
        <4>1. CASE Writer(p)
          <5>1. P(O[p]) = P(H) + 1
            BY <2>4, <3>1, <4>1 DEF Good, Claims
          <5> QED
            BY <2>2, <3>1, <5>1, PublishedIsNoPosition
        <4>2. CASE Reader(p)
          <5>1. P(O[p]) + 1 = P(H) + 1 /\ O[p] < H
            BY <2>4, <3>1, <4>2 DEF Good, Claims
          <5>2. P(O[p]) \in Nat /\ P(H) \in Nat
            BY <2>2, OrdinalFacts
          <5>3. P(O[p]) = P(H)
            BY <5>1, <5>2
          <5> QED
            BY <2>2, <5>1, <5>3, InWindow, Sizes DEF Good
        <4> QED
          BY <4>1, <4>2 DEF InSlot, Writer, Reader
      <3> QED
        BY <2>4, <3>1
    <2> QED
      BY <2>1, <2>3, <2>4 DEF Copy
  <1> QED
    BY <1>1 DEF Copies

\* A step of one call leaves the others as they are.
LEMMA OtherCalls ==
  ASSUME CallInv, NEW p \in Procs, NEW l \in Labels, pc \in [Procs -> Labels], Others(p, l), InCall(p)'
  PROVE  CallInv'
  <1>1. ASSUME NEW q \in Procs \ {p}
        PROVE  InCall(q)'
    BY DEF CallInv, InCall, Others
  <1> QED
    BY <1>1 DEF CallInv

\* The element is moved into the slot.
LEMMA PostWriteInv ==
  ASSUME NEW b \in Nat, NEW H \in Nat, NEW T \in Nat, NEW O \in [Procs -> Nat], Good(b, H, T, O),
         NEW p \in Procs, PostWrite(p)
  PROVE  IInv'
  <1>0. InSlot(p) /\ Writer(p) /\ pc[p] = "post_write"
    BY DEF PostWrite, Goto, InSlot, Writer
  <1>claimed. Claimed(b, H, T, O, p)
    BY <1>0, Claimant
  <1> DEFINE s == Slot(O[p])
  <1>1. /\ O[p] \in Nat /\ pos[p] = P(O[p]) /\ Index(pos[p]) = s /\ s \in Slots
        /\ H <= T /\ T <= H + Capacity
    BY <1>claimed DEF Claimed
  <1> USE DEF PostWrite, Goto
  <1>2. Others(p, "post_publish") /\ pc'[p] = "post_publish" /\ \A q \in Procs \ {p} : pc'[q] = pc[q]
    BY DEF Others, Labels, Good, TypeOK
  <1>3. /\ value' = [value EXCEPT ![s] = arg[p]] /\ value \in [Slots -> Values \cup {Nil}]
        /\ arg[p] \in Values
    BY <1>0, <1>1 DEF Good, TypeOK, CallInv, InCall, PostAt
  <1>4. value'[s] = arg[p] /\ \A i \in Slots : i # s => value'[i] = value[i]
    BY <1>1, <1>3
  <1> HIDE DEF s
  <1>5. TypeOK'
    BY <1>2, <1>3 DEF Others, Good, TypeOK
  <1>6. Counters(b, H, T)'
    BY <1>0, <1>2, SameCounters DEF MayMoveTail
  <1>7. Copies(b, H, T, O)'
    <2>1. Copy(b, H, T, O, p)'
      BY <1>0, <1>2 DEF Good, Copies, Copy, PostAt, PollAt
    <2> QED
      BY <1>0, <1>2, <2>1, CopiesKept DEF Labels
  <1>8. \A q \in Procs : (Writer(q)' <=> Writer(q)) /\ (Reader(q)' <=> Reader(q))
    BY <1>0, <1>2 DEF Writer, Reader
  <1>9. \A q \in Procs \ {p} : Writer(q) \/ Reader(q) => value'[Slot(O[q])] = value[Slot(O[q])]
    <2>1. ASSUME NEW q \in Procs \ {p}, Writer(q) \/ Reader(q)
          PROVE  Slot(O[q]) # s /\ Slot(O[q]) \in Slots
      <3>1. InSlot(q)
        BY <2>1 DEF Writer, Reader, InSlot
      <3>2. Slot(O[q]) # Slot(O[p])
        BY <1>0, <1>1, <3>1, Seats DEF Good
      <3> QED
        BY <3>1, <3>2, Claimant DEF Claimed, s
    <2> QED
      BY <1>4, <2>1
  <1>10. Claims(H, T, O)'
    <2>1. Claims(H, T, O)
      BY DEF Good
    <2>2. \A q \in Procs : Writer(q)' =>
            /\ H <= O[q] /\ O[q] < T /\ stamp'[Slot(O[q])] = P(O[q])
            /\ pc'[q] = "post_publish" => value'[Slot(O[q])] = arg'[q]
      BY <1>2, <1>4, <1>8, <1>9, <2>1 DEF Claims, s
    <2>3. \A q \in Procs : Reader(q)' =>
            /\ O[q] < H /\ T <= O[q] + Capacity /\ stamp'[Slot(O[q])] = P(O[q]) + 1
            /\ pc'[q] = "poll_read" => value'[Slot(O[q])] \in Values
      <3>1. ~Reader(p)
        BY <1>0 DEF Reader
      <3> QED
        BY <1>2, <1>8, <1>9, <2>1, <3>1 DEF Claims
    <2>4. \A q, r \in Procs :
            (Writer(q)' /\ Writer(r)') \/ (Reader(q)' /\ Reader(r)') => (O[q] = O[r] => q = r)
      BY <1>8, <2>1 DEF Claims
    <2> QED
      BY <2>2, <2>3, <2>4 DEF Claims
  <1>11. Ring(H, T, O)'
    <2>1. \A k \in Nat : value[Slot(k)] \in Values => value'[Slot(k)] \in Values
      BY <1>3, <1>4, OrdinalFacts
    <2> QED
      BY <1>8, <2>1 DEF Good, Ring
  <1>12. CallInv'
    <2>1. InCall(p)'
      BY <1>0, <1>2, <1>3 DEF InCall, PostAt, PollAt
    <2> QED
      BY <1>2, <2>1, OtherCalls DEF Good, TypeOK, Labels
  <1> QED
    BY <1>5, <1>6, <1>7, <1>10, <1>11, <1>12 DEF IInv, Good

\* The element is moved out of the slot.
LEMMA PollReadInv ==
  ASSUME NEW b \in Nat, NEW H \in Nat, NEW T \in Nat, NEW O \in [Procs -> Nat], Good(b, H, T, O),
         NEW p \in Procs, PollRead(p)
  PROVE  IInv'
  <1>0. InSlot(p) /\ Reader(p) /\ pc[p] = "poll_read"
    BY DEF PollRead, Goto, InSlot, Reader
  <1>claimed. Claimed(b, H, T, O, p)
    BY <1>0, Claimant
  <1>1. O[p] \in Nat /\ pos[p] = P(O[p]) /\ Index(pos[p]) = Slot(O[p])
    BY <1>claimed DEF Claimed
  <1> USE DEF PollRead, Goto
  <1>2. Others(p, "poll_release") /\ pc'[p] = "poll_release" /\ \A q \in Procs \ {p} : pc'[q] = pc[q]
    BY DEF Others, Labels, Good, TypeOK
  <1>3. value[Index(pos[p])] \in Values
    BY <1>0, <1>1 DEF Good, Claims
  <1>4. TypeOK'
    BY <1>2, <1>3 DEF Others, Good, TypeOK
  <1>5. Counters(b, H, T)'
    BY <1>0, <1>2, SameCounters DEF MayMoveTail
  <1>6. Copies(b, H, T, O)'
    <2>1. Copy(b, H, T, O, p)'
      BY <1>0, <1>2 DEF Good, Copies, Copy, PostAt, PollAt
    <2> QED
      BY <1>0, <1>2, <2>1, CopiesKept DEF Labels
  <1>7. \A q \in Procs : (Writer(q)' <=> Writer(q)) /\ (Reader(q)' <=> Reader(q))
    BY <1>0, <1>2 DEF Writer, Reader
  <1>8. Claims(H, T, O)'
    <2>1. Claims(H, T, O)
      BY DEF Good
    <2>2. \A q \in Procs : Writer(q)' =>
            /\ H <= O[q] /\ O[q] < T /\ stamp'[Slot(O[q])] = P(O[q])
            /\ pc'[q] = "post_publish" => value'[Slot(O[q])] = arg'[q]
      BY <1>2, <1>7, <2>1 DEF Claims
    <2>3. \A q \in Procs : Reader(q)' =>
            /\ O[q] < H /\ T <= O[q] + Capacity /\ stamp'[Slot(O[q])] = P(O[q]) + 1
            /\ pc'[q] = "poll_read" => value'[Slot(O[q])] \in Values
      BY <1>2, <1>7, <2>1 DEF Claims
    <2>4. \A q, r \in Procs :
            (Writer(q)' /\ Writer(r)') \/ (Reader(q)' /\ Reader(r)') => (O[q] = O[r] => q = r)
      BY <1>7, <2>1 DEF Claims
    <2> QED
      BY <2>2, <2>3, <2>4 DEF Claims
  <1>9. Ring(H, T, O)'
    BY <1>7 DEF Good, Ring
  <1>10. CallInv'
    <2>1. InCall(p)'
      <3>1. res'[p] \in Values
        BY <1>3 DEF Good, TypeOK
      <3> QED
        BY <1>0, <1>2, <3>1 DEF InCall, PostAt, PollAt, Good, CallInv
    <2> QED
      BY <1>2, <2>1, OtherCalls DEF Good, TypeOK, Labels
  <1> QED
    BY <1>4, <1>5, <1>6, <1>8, <1>9, <1>10 DEF IInv, Good

\* The stamp is stored: the slot is published, or free for the next lap.
LEMMA PostPublishInv ==
  ASSUME NEW b \in Nat, NEW H \in Nat, NEW T \in Nat, NEW O \in [Procs -> Nat], Good(b, H, T, O),
         NEW p \in Procs, PostPublish(p)
  PROVE  IInv'
  <1>0. InSlot(p) /\ Writer(p) /\ pc[p] = "post_publish"
    BY DEF PostPublish, Goto, Finish, InSlot, Writer
  <1>claimed. Claimed(b, H, T, O, p)
    BY <1>0, Claimant
  <1> DEFINE s == Slot(O[p])
  <1>1. /\ O[p] \in Nat /\ pos[p] = P(O[p]) /\ Index(pos[p]) = s /\ s \in Slots
        /\ H <= T /\ T <= H + Capacity /\ pos[p] + 1 \in Usize
    BY <1>claimed DEF Claimed
  <1> USE DEF PostPublish, Goto, Finish
  <1>2. Others(p, "done") /\ pc'[p] = "done" /\ \A q \in Procs \ {p} : pc'[q] = pc[q]
    BY DEF Others, Labels, Good, TypeOK
  <1>3. stamp' = [stamp EXCEPT ![s] = P(O[p]) + 1] /\ stamp \in [Slots -> Usize]
    BY <1>1 DEF Good, TypeOK
  <1>4. stamp'[s] = P(O[p]) + 1 /\ \A i \in Slots : i # s => stamp'[i] = stamp[i]
    BY <1>1, <1>3
  <1>5. value[s] \in Values
    BY <1>0 DEF Good, Claims, CallInv, InCall, PostAt
  <1> HIDE DEF s
  <1>6. TypeOK'
    BY <1>1, <1>2, <1>3 DEF Others, Good, TypeOK
  <1>7. Counters(b, H, T)'
    BY <1>0, <1>2, SameCounters DEF MayMoveTail
  <1>8. Copies(b, H, T, O)'
    <2>1. Copy(b, H, T, O, p)'
      BY <1>2 DEF Copy, PostAt, PollAt
    <2>2. \A k \in Nat : Slot(k) # Slot(O[p]) => stamp'[Slot(k)] = stamp[Slot(k)]
      BY <1>4, OrdinalFacts DEF s
    <2> QED
      BY <1>0, <1>2, <2>1, <2>2, CopiesKept DEF Labels
  <1>9. \A q \in Procs : (Writer(q)' <=> Writer(q) /\ q # p) /\ (Reader(q)' <=> Reader(q) /\ q # p)
    BY <1>0, <1>2 DEF Writer, Reader
  <1>10. \A q \in Procs \ {p} : Writer(q) \/ Reader(q) => stamp'[Slot(O[q])] = stamp[Slot(O[q])]
    <2>1. ASSUME NEW q \in Procs \ {p}, Writer(q) \/ Reader(q)
          PROVE  Slot(O[q]) # s /\ Slot(O[q]) \in Slots
      <3>1. InSlot(q)
        BY <2>1 DEF Writer, Reader, InSlot
      <3>2. Slot(O[q]) # Slot(O[p])
        BY <1>0, <1>1, <3>1, Seats DEF Good
      <3> QED
        BY <3>1, <3>2, Claimant DEF Claimed, s
    <2> QED
      BY <1>4, <2>1
  <1>11. Claims(H, T, O)'
    <2>1. Claims(H, T, O)
      BY DEF Good
    <2>2. \A q \in Procs : Writer(q)' =>
            /\ H <= O[q] /\ O[q] < T /\ stamp'[Slot(O[q])] = P(O[q])
            /\ pc'[q] = "post_publish" => value'[Slot(O[q])] = arg'[q]
      BY <1>2, <1>9, <1>10, <2>1 DEF Claims
    <2>3. \A q \in Procs : Reader(q)' =>
            /\ O[q] < H /\ T <= O[q] + Capacity /\ stamp'[Slot(O[q])] = P(O[q]) + 1
            /\ pc'[q] = "poll_read" => value'[Slot(O[q])] \in Values
      BY <1>2, <1>9, <1>10, <2>1 DEF Claims
    <2>4. \A q, r \in Procs :
            (Writer(q)' /\ Writer(r)') \/ (Reader(q)' /\ Reader(r)') => (O[q] = O[r] => q = r)
      BY <1>9, <2>1 DEF Claims
    <2> QED
      BY <2>2, <2>3, <2>4 DEF Claims
  <1>12. \A k \in Nat : H <= k /\ k < H + Capacity /\ k # O[p] => stamp'[Slot(k)] = stamp[Slot(k)]
    <2>1. ASSUME NEW k \in Nat, H <= k, k < H + Capacity, k # O[p]
          PROVE  Slot(k) # s /\ Slot(k) \in Slots
      <3>1. Seat(O, p) = O[p]
        BY <1>0 DEF Seat
      <3>2. Slot(k) # Slot(O[p])
        BY <1>0, <1>1, <2>1, <3>1, Seats DEF Good
      <3> QED
        BY <3>2, OrdinalFacts DEF s
    <2> QED
      BY <1>4, <2>1
  <1>13. Ring(H, T, O)'
    <2>1. ASSUME NEW k \in Nat, H <= k, k < T
          PROVE  \/ stamp'[Slot(k)] = P(k) + 1 /\ value'[Slot(k)] \in Values
                 \/ \E q \in Procs : Writer(q)' /\ O[q] = k
      <3>1. CASE k = O[p]
        BY <1>4, <1>5, <3>1 DEF s
      <3>2. CASE k # O[p]
        <4>1. stamp'[Slot(k)] = stamp[Slot(k)]
          BY <1>1, <1>12, <2>1, <3>2, Sizes
        <4> QED
          BY <1>9, <2>1, <3>2, <4>1 DEF Good, Ring
      <3> QED
        BY <3>1, <3>2
    <2>2. ASSUME NEW k \in Nat, T <= k, k < H + Capacity
          PROVE  \/ stamp'[Slot(k)] = P(k)
                 \/ \E q \in Procs : Reader(q)' /\ O[q] + Capacity = k
      <3>1. O[p] < T /\ ~Reader(p)
        BY <1>0 DEF Good, Claims, Reader
      <3>2. stamp'[Slot(k)] = stamp[Slot(k)]
        BY <1>1, <1>12, <2>2, <3>1, Sizes
      <3> QED
        BY <1>9, <2>2, <3>1, <3>2 DEF Good, Ring
    <2> QED
      BY <2>1, <2>2 DEF Ring
  <1>14. CallInv'
    <2>1. InCall(p)'
      BY <1>2 DEF InCall, PostAt, PollAt, Good, TypeOK
    <2> QED
      BY <1>2, <2>1, OtherCalls DEF Good, TypeOK, Labels
  <1> QED
    BY <1>6, <1>7, <1>8, <1>11, <1>13, <1>14 DEF IInv, Good

\* poll gives the slot to the next lap.
LEMMA PollReleaseInv ==
  ASSUME NEW b \in Nat, NEW H \in Nat, NEW T \in Nat, NEW O \in [Procs -> Nat], Good(b, H, T, O),
         NEW p \in Procs, PollRelease(p)
  PROVE  IInv'
  <1>0. InSlot(p) /\ Reader(p) /\ ~Writer(p) /\ pc[p] = "poll_release"
    BY DEF PollRelease, Goto, InSlot, Reader, Writer
  <1>claimed. Claimed(b, H, T, O, p)
    BY <1>0, Claimant
  <1> DEFINE s == Slot(O[p])
  <1>1. /\ O[p] \in Nat /\ pos[p] = P(O[p]) /\ Index(pos[p]) = s /\ s \in Slots
        /\ H <= T /\ T <= H + Capacity
        /\ Wrap(pos[p] + OneLap) = P(O[p] + Capacity) /\ P(O[p] + Capacity) \in Usize
    BY <1>claimed DEF Claimed
  <1> USE DEF PollRelease, Goto
  <1>2. Others(p, "done") /\ pc'[p] = "done" /\ \A q \in Procs \ {p} : pc'[q] = pc[q]
    BY DEF Others, Labels, Good, TypeOK
  <1>3. stamp' = [stamp EXCEPT ![s] = P(O[p] + Capacity)] /\ stamp \in [Slots -> Usize]
    BY <1>1 DEF Good, TypeOK
  <1>4. stamp'[s] = P(O[p] + Capacity) /\ \A i \in Slots : i # s => stamp'[i] = stamp[i]
    BY <1>1, <1>3
  <1> HIDE DEF s
  <1>6. TypeOK'
    BY <1>1, <1>2, <1>3 DEF Others, Good, TypeOK
  <1>7. Counters(b, H, T)'
    BY <1>0, <1>2, SameCounters DEF MayMoveTail
  <1>8. Copies(b, H, T, O)'
    <2>1. Copy(b, H, T, O, p)'
      BY <1>2 DEF Copy, PostAt, PollAt
    <2>2. \A k \in Nat : Slot(k) # Slot(O[p]) => stamp'[Slot(k)] = stamp[Slot(k)]
      BY <1>4, OrdinalFacts DEF s
    <2> QED
      BY <1>0, <1>2, <2>1, <2>2, CopiesKept DEF Labels
  <1>9. \A q \in Procs : (Writer(q)' <=> Writer(q) /\ q # p) /\ (Reader(q)' <=> Reader(q) /\ q # p)
    BY <1>0, <1>2 DEF Writer, Reader
  <1>10. \A q \in Procs \ {p} : Writer(q) \/ Reader(q) => stamp'[Slot(O[q])] = stamp[Slot(O[q])]
    <2>1. ASSUME NEW q \in Procs \ {p}, Writer(q) \/ Reader(q)
          PROVE  Slot(O[q]) # s /\ Slot(O[q]) \in Slots
      <3>1. InSlot(q)
        BY <2>1 DEF Writer, Reader, InSlot
      <3>2. Slot(O[q]) # Slot(O[p])
        BY <1>0, <1>1, <3>1, Seats DEF Good
      <3> QED
        BY <3>1, <3>2, Claimant DEF Claimed, s
    <2> QED
      BY <1>4, <2>1
  <1>11. Claims(H, T, O)'
    <2>1. Claims(H, T, O)
      BY DEF Good
    <2>2. \A q \in Procs : Writer(q)' =>
            /\ H <= O[q] /\ O[q] < T /\ stamp'[Slot(O[q])] = P(O[q])
            /\ pc'[q] = "post_publish" => value'[Slot(O[q])] = arg'[q]
      BY <1>2, <1>9, <1>10, <2>1 DEF Claims
    <2>3. \A q \in Procs : Reader(q)' =>
            /\ O[q] < H /\ T <= O[q] + Capacity /\ stamp'[Slot(O[q])] = P(O[q]) + 1
            /\ pc'[q] = "poll_read" => value'[Slot(O[q])] \in Values
      BY <1>2, <1>9, <1>10, <2>1 DEF Claims
    <2>4. \A q, r \in Procs :
            (Writer(q)' /\ Writer(r)') \/ (Reader(q)' /\ Reader(r)') => (O[q] = O[r] => q = r)
      BY <1>9, <2>1 DEF Claims
    <2> QED
      BY <2>2, <2>3, <2>4 DEF Claims
  <1>12. \A k \in Nat : H <= k /\ k < H + Capacity /\ k # O[p] + Capacity
             => stamp'[Slot(k)] = stamp[Slot(k)]
    <2>1. ASSUME NEW k \in Nat, H <= k, k < H + Capacity, k # O[p] + Capacity
          PROVE  Slot(k) # s /\ Slot(k) \in Slots
      <3>1. Seat(O, p) = O[p] + Capacity
        BY <1>0 DEF Seat
      <3>2. Slot(k) # Slot(O[p])
        BY <1>0, <1>1, <2>1, <3>1, Seats DEF Good
      <3> QED
        BY <3>2, OrdinalFacts DEF s
    <2> QED
      BY <1>4, <2>1
  <1>13. Ring(H, T, O)'
    <2>1. ASSUME NEW k \in Nat, H <= k, k < T
          PROVE  \/ stamp'[Slot(k)] = P(k) + 1 /\ value'[Slot(k)] \in Values
                 \/ \E q \in Procs : Writer(q)' /\ O[q] = k
      <3>1. T <= O[p] + Capacity
        BY <1>0 DEF Good, Claims
      <3>2. stamp'[Slot(k)] = stamp[Slot(k)]
        BY <1>1, <1>12, <2>1, <3>1, Sizes
      <3> QED
        BY <1>0, <1>9, <2>1, <3>2 DEF Good, Ring
    <2>2. ASSUME NEW k \in Nat, T <= k, k < H + Capacity
          PROVE  \/ stamp'[Slot(k)] = P(k)
                 \/ \E q \in Procs : Reader(q)' /\ O[q] + Capacity = k
      <3>1. CASE k = O[p] + Capacity
        <4>1. Slot(k) = s
          BY <1>1, <3>1, OrdinalFacts DEF s
        <4> QED
          BY <1>4, <3>1, <4>1
      <3>2. CASE k # O[p] + Capacity
        <4>1. stamp'[Slot(k)] = stamp[Slot(k)]
          BY <1>1, <1>12, <2>2, <3>2, Sizes
        <4> QED
          BY <1>9, <2>2, <3>2, <4>1 DEF Good, Ring
      <3> QED
        BY <3>1, <3>2
    <2> QED
      BY <2>1, <2>2 DEF Ring
  <1>14. CallInv'
    <2>1. InCall(p)'
      BY <1>0, <1>2 DEF InCall, PostAt, PollAt, Good, CallInv
    <2> QED
      BY <1>2, <2>1, OtherCalls DEF Good, TypeOK, Labels
  <1> QED
    BY <1>6, <1>7, <1>8, <1>11, <1>13, <1>14 DEF IInv, Good

-----------------------------------------------------------------------------
\* The compare-exchange that claims a slot: its copy is up to date.
LEMMA PostClaims ==
  ASSUME NEW b \in Nat, NEW H \in Nat, NEW T \in Nat, NEW O \in [Procs -> Nat], Good(b, H, T, O),
         NEW p \in Procs, PostCasTail(p)
  PROVE  /\ O[p] = T /\ pos[p] = P(T) /\ stamp[Slot(T)] = P(T) /\ T < H + Capacity
         /\ \A q \in Procs : Reader(q) => T + 1 <= O[q] + Capacity
  <1> USE DEF PostCasTail
  <1>1. /\ pos[p] = P(O[p]) /\ b <= O[p] /\ O[p] <= T /\ O[p] \in Nat
        /\ O[p] = T => stamp[Slot(T)] = P(T)
    BY DEF Good, Copies, Copy, PostAt
  <1>2. tail = P(T) /\ b <= H /\ H <= T /\ T <= H + Capacity /\ Capacity \in Nat \ {0}
    BY Sizes DEF Good, Counters
  <1>3. O[p] = T
    <2>1. P(O[p]) = P(T) /\ b <= T /\ O[p] <= H + Capacity
      BY <1>1, <1>2
    <2> QED
      BY <1>1, <1>2, <2>1, InWindow DEF Good
  <1>4. stamp[Slot(T)] = P(T) /\ pos[p] = P(T)
    BY <1>1, <1>3
  <1>5. T # H + Capacity
    <2> SUFFICES ASSUME T = H + Capacity PROVE FALSE
      OBVIOUS
    <2>1. Slot(T) = Slot(H) /\ H < T /\ stamp[Slot(H)] = P(T)
      BY <1>2, <1>4, OrdinalFacts
    <2>2. P(H) # P(T)
      BY <1>2, <2>1, InWindow DEF Good
    <2>3. P(H) + 1 # P(T)
      BY <2>1, PublishedIsNoPosition
    <2>4. \/ stamp[Slot(H)] = P(H) + 1
          \/ \E q \in Procs : Writer(q) /\ O[q] = H
      BY <2>1 DEF Good, Ring
    <2>5. \A q \in Procs : Writer(q) /\ O[q] = H => stamp[Slot(H)] = P(H)
      BY DEF Good, Claims
    <2> QED
      BY <2>1, <2>2, <2>3, <2>4, <2>5
  <1>6. ASSUME NEW q \in Procs, Reader(q)
        PROVE  T + 1 <= O[q] + Capacity
    <2>1. T <= O[q] + Capacity /\ stamp[Slot(O[q])] = P(O[q]) + 1 /\ O[q] \in Nat
      BY <1>6 DEF Good, Claims
    <2>2. CASE T = O[q] + Capacity
      <3>1. Slot(T) = Slot(O[q])
        BY <2>1, <2>2, OrdinalFacts
      <3>2. P(O[q]) + 1 # P(T)
        BY <2>1, <3>1, PublishedIsNoPosition
      <3> QED
        BY <1>4, <2>1, <3>1, <3>2
    <2> QED
      BY <1>2, <2>1, <2>2
  <1> QED
    BY <1>2, <1>3, <1>4, <1>5, <1>6

\* post claims a position.
LEMMA PostCasTailInv ==
  ASSUME NEW b \in Nat, NEW H \in Nat, NEW T \in Nat, NEW O \in [Procs -> Nat], Good(b, H, T, O),
         NEW p \in Procs, PostCasTail(p)
  PROVE  Good(b, H, T + 1, O)'
  <1>1. /\ O[p] = T /\ pos[p] = P(T) /\ stamp[Slot(T)] = P(T) /\ T < H + Capacity
        /\ \A q \in Procs : Reader(q) => T + 1 <= O[q] + Capacity
    BY PostClaims
  <1> USE DEF PostCasTail, Goto
  <1>2. Others(p, "post_write") /\ pc'[p] = "post_write" /\ \A q \in Procs \ {p} : pc'[q] = pc[q]
    BY DEF Others, Labels, Good, TypeOK
  <1>3. tail' = P(T + 1) /\ T + 1 \in Nat /\ P(T + 1) \in Positions
    <2>1. T + 1 \in Nat
      OBVIOUS
    <2> QED
      BY <1>1, <2>1, OrdinalFacts
  <1>4. TypeOK'
    BY <1>2, <1>3 DEF Others, Good, TypeOK
  <1>5. Counters(b, H, T + 1)'
    <2>0. pc \in [Procs -> Labels] /\ pc[p] \in MayMoveTail /\ "post_write" \notin MayMoveTail
      BY DEF Good, TypeOK, MayMoveTail
    <2>1. Cardinality(Posting)' = Cardinality(Posting) - 1 /\ Cardinality(Posting) \in Nat
      BY <2>0, PostingStep
    <2>2. T - b + Cardinality(Posting) <= calls /\ calls \in Nat
      BY BoundsAssumption DEF Good, TypeOK, Counters
    <2>3. (T + 1) - b + Cardinality(Posting)' <= calls'
      BY <2>1, <2>2
    <2>4. head' = P(H) /\ b <= H /\ H <= T + 1 /\ T + 1 <= H + Capacity
      BY <1>1, Sizes DEF Good, Counters
    <2> QED
      BY <1>3, <2>3, <2>4 DEF Counters
  <1>6. Copies(b, H, T + 1, O)'
    <2>1. ASSUME NEW q \in Procs \ {p}
          PROVE  Copy(b, H, T + 1, O, q)'
      <3>1. Copy(b, H, T, O, q) /\ pc'[q] = pc[q] /\ pos'[q] = pos[q] /\ O[q] \in Nat
        BY <1>2 DEF Good, Copies
      <3>2. pc[q] = "post_cas" => pc[q] \in PostAt
        BY DEF PostAt
      <3> QED
        BY <3>1, <3>2 DEF Copy
    <2>2. Copy(b, H, T + 1, O, p)'
      BY <1>1, <1>2 DEF Copy, Good, Counters, PostAt, PollAt
    <2> QED
      BY <2>1, <2>2 DEF Copies
  <1>7. \A q \in Procs : (Writer(q)' <=> Writer(q) \/ q = p) /\ (Reader(q)' <=> Reader(q))
    BY <1>2 DEF Writer, Reader
  <1>8. ~Reader(p) /\ ~Writer(p) /\ H <= T
    BY DEF Writer, Reader, Good, Counters
  <1>9. Claims(H, T + 1, O)'
    <2>1. Claims(H, T, O) /\ \A q \in Procs : O[q] \in Nat
      BY DEF Good
    <2>2. \A q \in Procs : Writer(q)' =>
            /\ H <= O[q] /\ O[q] < T + 1 /\ stamp'[Slot(O[q])] = P(O[q])
            /\ pc'[q] = "post_publish" => value'[Slot(O[q])] = arg'[q]
      BY <1>1, <1>2, <1>7, <1>8, <2>1 DEF Claims
    <2>3. \A q \in Procs : Reader(q)' =>
            /\ O[q] < H /\ T + 1 <= O[q] + Capacity /\ stamp'[Slot(O[q])] = P(O[q]) + 1
            /\ pc'[q] = "poll_read" => value'[Slot(O[q])] \in Values
      BY <1>1, <1>2, <1>7, <1>8, <2>1 DEF Claims
    <2>4. \A q, r \in Procs :
            (Writer(q)' /\ Writer(r)') \/ (Reader(q)' /\ Reader(r)') => (O[q] = O[r] => q = r)
      <3>1. \A q \in Procs : Writer(q) => O[q] < T
        BY <2>1 DEF Claims
      <3> QED
        BY <1>1, <1>7, <1>8, <2>1, <3>1 DEF Claims
    <2> QED
      BY <2>2, <2>3, <2>4 DEF Claims
  <1>10. Ring(H, T + 1, O)'
    <2>1. ASSUME NEW k \in Nat, H <= k, k < T + 1
          PROVE  \/ stamp'[Slot(k)] = P(k) + 1 /\ value'[Slot(k)] \in Values
                 \/ \E q \in Procs : Writer(q)' /\ O[q] = k
      <3>1. CASE k = T
        BY <1>1, <1>7, <3>1
      <3>2. CASE k < T
        BY <1>7, <2>1, <3>2 DEF Good, Ring
      <3> QED
        BY <2>1, <3>1, <3>2
    <2>2. ASSUME NEW k \in Nat, T + 1 <= k, k < H + Capacity
          PROVE  \/ stamp'[Slot(k)] = P(k)
                 \/ \E q \in Procs : Reader(q)' /\ O[q] + Capacity = k
      <3>1. T <= k
        BY <2>2
      <3> QED
        BY <1>7, <2>2, <3>1 DEF Good, Ring
    <2> QED
      BY <2>1, <2>2 DEF Ring
  <1>11. CallInv'
    <2>1. InCall(p)'
      BY <1>2 DEF InCall, PostAt, PollAt, Good, CallInv
    <2> QED
      BY <1>2, <2>1, OtherCalls DEF Good, TypeOK, Labels
  <1> QED
    BY <1>4, <1>5, <1>6, <1>9, <1>10, <1>11 DEF Good

\* A poll that moves the head takes an element that has been published.
LEMMA PollClaims ==
  ASSUME NEW b \in Nat, NEW H \in Nat, NEW T \in Nat, NEW O \in [Procs -> Nat], Good(b, H, T, O),
         NEW p \in Procs, PollCasHead(p)
  PROVE  /\ O[p] = H /\ pos[p] = P(H) /\ stamp[Slot(H)] = P(H) + 1 /\ H < T
         /\ value[Slot(H)] \in Values
         /\ \A q \in Procs : Writer(q) => O[q] # H
  <1> USE DEF PollCasHead
  <1>1. /\ pos[p] = P(O[p]) /\ b <= O[p] /\ O[p] <= H /\ O[p] \in Nat
        /\ O[p] = H => stamp[Slot(H)] = P(H) + 1
    BY DEF Good, Copies, Copy, PollAt
  <1>2. head = P(H) /\ b <= H /\ H <= T /\ T <= H + Capacity /\ Capacity \in Nat \ {0}
    BY Sizes DEF Good, Counters
  <1>3. O[p] = H
    <2>1. P(O[p]) = P(H) /\ O[p] <= H + Capacity /\ H <= H + Capacity
      BY <1>1, <1>2
    <2> QED
      BY <1>1, <1>2, <2>1, InWindow DEF Good
  <1>4. stamp[Slot(H)] = P(H) + 1 /\ pos[p] = P(H) /\ P(H) \in Nat
    BY <1>1, <1>3, OrdinalFacts
  <1>5. H # T
    <2> SUFFICES ASSUME H = T PROVE FALSE
      OBVIOUS
    <2>1. \/ stamp[Slot(H)] = P(H)
          \/ \E q \in Procs : Reader(q) /\ O[q] + Capacity = H
      BY <1>2 DEF Good, Ring
    <2>2. PICK q \in Procs : Reader(q) /\ O[q] + Capacity = H
      BY <1>4, <2>1
    <2>3. stamp[Slot(O[q])] = P(O[q]) + 1 /\ O[q] \in Nat /\ b <= O[q]
      BY <2>2 DEF Good, Claims, Copies, Copy, Reader, PollAt
    <2>4. P(O[q]) = P(H)
      <3>1. Slot(H) = Slot(O[q]) /\ P(O[q]) \in Nat
        BY <2>2, <2>3, OrdinalFacts
      <3> QED
        BY <1>4, <2>3, <3>1
    <2>5. O[q] = H
      BY <1>2, <2>2, <2>3, <2>4, InWindow DEF Good
    <2> QED
      BY <1>2, <2>2, <2>5
  <1>6. \A q \in Procs : Writer(q) => O[q] # H
    <2>1. \A q \in Procs : Writer(q) => stamp[Slot(O[q])] = P(O[q])
      BY DEF Good, Claims
    <2> QED
      BY <1>4, <2>1
  <1>7. value[Slot(H)] \in Values
    BY <1>2, <1>5, <1>6 DEF Good, Ring
  <1> QED
    BY <1>2, <1>3, <1>4, <1>5, <1>6, <1>7

\* poll claims a position.
LEMMA PollCasHeadInv ==
  ASSUME NEW b \in Nat, NEW H \in Nat, NEW T \in Nat, NEW O \in [Procs -> Nat], Good(b, H, T, O),
         NEW p \in Procs, PollCasHead(p)
  PROVE  Good(b, H + 1, T, O)'
  <1>1. /\ O[p] = H /\ pos[p] = P(H) /\ stamp[Slot(H)] = P(H) + 1 /\ H < T
        /\ value[Slot(H)] \in Values
        /\ \A q \in Procs : Writer(q) => O[q] # H
    BY PollClaims
  <1> USE DEF PollCasHead, Goto
  <1>2. Others(p, "poll_read") /\ pc'[p] = "poll_read" /\ \A q \in Procs \ {p} : pc'[q] = pc[q]
    BY DEF Others, Labels, Good, TypeOK
  <1>3. head' = P(H + 1) /\ H + 1 \in Nat /\ P(H + 1) \in Positions
    <2>1. H + 1 \in Nat
      OBVIOUS
    <2> QED
      BY <1>1, <2>1, OrdinalFacts
  <1>4. TypeOK'
    BY <1>2, <1>3 DEF Others, Good, TypeOK
  <1>5. Counters(b, H + 1, T)'
    <2>0. pc \in [Procs -> Labels] /\ pc[p] \notin MayMoveTail /\ "poll_read" \notin MayMoveTail
      BY DEF Good, TypeOK, MayMoveTail
    <2>1. /\ Cardinality(Posting)' <= Cardinality(Posting)
          /\ Cardinality(Posting) \in Nat /\ Cardinality(Posting)' \in Nat
      BY <2>0, PostingStep
    <2>2. T - b + Cardinality(Posting) <= calls /\ calls \in Nat
      BY BoundsAssumption DEF Good, TypeOK, Counters
    <2>3. T - b + Cardinality(Posting)' <= calls'
      BY <2>1, <2>2
    <2>4. tail' = P(T) /\ b <= H + 1 /\ H + 1 <= T /\ T <= H + 1 + Capacity
      BY <1>1, Sizes DEF Good, Counters
    <2> QED
      BY <1>3, <2>3, <2>4 DEF Counters
  <1>6. Copies(b, H + 1, T, O)'
    <2>1. ASSUME NEW q \in Procs \ {p}
          PROVE  Copy(b, H + 1, T, O, q)'
      <3>1. Copy(b, H, T, O, q) /\ pc'[q] = pc[q] /\ pos'[q] = pos[q] /\ O[q] \in Nat
        BY <1>2 DEF Good, Copies
      <3>2. pc[q] = "poll_cas" => pc[q] \in PollAt
        BY DEF PollAt
      <3> QED
        BY <3>1, <3>2 DEF Copy
    <2>2. Copy(b, H + 1, T, O, p)'
      BY <1>1, <1>2 DEF Copy, Good, Counters, PostAt, PollAt
    <2> QED
      BY <2>1, <2>2 DEF Copies
  <1>7. \A q \in Procs : (Reader(q)' <=> Reader(q) \/ q = p) /\ (Writer(q)' <=> Writer(q))
    BY <1>2 DEF Writer, Reader
  <1>8. ~Reader(p) /\ ~Writer(p) /\ T <= H + Capacity /\ Capacity \in Nat
    BY Sizes DEF Writer, Reader, Good, Counters
  <1>9. Claims(H + 1, T, O)'
    <2>1. Claims(H, T, O) /\ \A q \in Procs : O[q] \in Nat
      BY DEF Good
    <2>2. \A q \in Procs : Writer(q)' =>
            /\ H + 1 <= O[q] /\ O[q] < T /\ stamp'[Slot(O[q])] = P(O[q])
            /\ pc'[q] = "post_publish" => value'[Slot(O[q])] = arg'[q]
      BY <1>1, <1>2, <1>7, <1>8, <2>1 DEF Claims
    <2>3. \A q \in Procs : Reader(q)' =>
            /\ O[q] < H + 1 /\ T <= O[q] + Capacity /\ stamp'[Slot(O[q])] = P(O[q]) + 1
            /\ pc'[q] = "poll_read" => value'[Slot(O[q])] \in Values
      BY <1>1, <1>2, <1>7, <1>8, <2>1 DEF Claims
    <2>4. \A q, r \in Procs :
            (Writer(q)' /\ Writer(r)') \/ (Reader(q)' /\ Reader(r)') => (O[q] = O[r] => q = r)
      <3>1. \A q \in Procs : Reader(q) => O[q] < H
        BY <2>1 DEF Claims
      <3> QED
        BY <1>1, <1>7, <1>8, <2>1, <3>1 DEF Claims
    <2> QED
      BY <2>2, <2>3, <2>4 DEF Claims
  <1>10. Ring(H + 1, T, O)'
    <2>1. ASSUME NEW k \in Nat, H + 1 <= k, k < T
          PROVE  \/ stamp'[Slot(k)] = P(k) + 1 /\ value'[Slot(k)] \in Values
                 \/ \E q \in Procs : Writer(q)' /\ O[q] = k
      <3>1. H <= k
        BY <2>1
      <3> QED
        BY <1>7, <2>1, <3>1 DEF Good, Ring
    <2>2. ASSUME NEW k \in Nat, T <= k, k < H + 1 + Capacity
          PROVE  \/ stamp'[Slot(k)] = P(k)
                 \/ \E q \in Procs : Reader(q)' /\ O[q] + Capacity = k
      <3>1. CASE k = H + Capacity
        BY <1>1, <1>7, <3>1
      <3>2. CASE k < H + Capacity
        BY <1>7, <2>2, <3>2 DEF Good, Ring
      <3> QED
        BY <1>8, <2>2, <3>1, <3>2
    <2> QED
      BY <2>1, <2>2 DEF Ring
  <1>11. CallInv'
    <2>1. InCall(p)'
      BY <1>2 DEF InCall, PostAt, PollAt, Good, CallInv
    <2> QED
      BY <1>2, <2>1, OtherCalls DEF Good, TypeOK, Labels
  <1> QED
    BY <1>4, <1>5, <1>6, <1>9, <1>10, <1>11 DEF Good

-----------------------------------------------------------------------------
\* Every step keeps the invariant.
LEMMA NextInv == IInv /\ [Next]_vars => IInv'
  <1> SUFFICES ASSUME IInv, [Next]_vars PROVE IInv'
    OBVIOUS
  <1>0. PICK b \in Nat, H \in Nat, T \in Nat, O \in [Procs -> Nat] : Good(b, H, T, O)
    BY DEF IInv
  <1>1. ASSUME NEW p \in Posters, NEW v \in Values, CallPost(p, v)
        PROVE  IInv'
    BY <1>0, <1>1, CallPostInv DEF Procs
  <1>2. ASSUME NEW p \in Pollers, CallPoll(p)
        PROVE  IInv'
    BY <1>0, <1>2, CallPollInv DEF Procs
  <1>3. ASSUME NEW p \in Procs, Step(p)
        PROVE  IInv'
    <2>1. CASE PostLoadTail(p)
      BY <1>0, <2>1, PostLoadTailInv
    <2>2. CASE PostLoadStamp(p)
      BY <1>0, <2>2, PostLoadStampInv
    <2>3. CASE PostCasTail(p)
      <3>1. Good(b, H, T + 1, O)' /\ T + 1 \in Nat
        BY <1>0, <2>3, PostCasTailInv
      <3> QED
        BY <3>1 DEF IInv
    <2>4. CASE PostCasFail(p)
      BY <1>0, <2>4, PostCasFailInv
    <2>5. CASE PostWrite(p)
      BY <1>0, <2>5, PostWriteInv
    <2>6. CASE PostPublish(p)
      BY <1>0, <2>6, PostPublishInv
    <2>7. CASE PostCheckFull(p)
      BY <1>0, <2>7, PostCheckFullInv
    <2>8. CASE PollLoadHead(p)
      BY <1>0, <2>8, PollLoadHeadInv
    <2>9. CASE PollLoadStamp(p)
      BY <1>0, <2>9, PollLoadStampInv
    <2>10. CASE PollCasHead(p)
      <3>1. Good(b, H + 1, T, O)' /\ H + 1 \in Nat
        BY <1>0, <2>10, PollCasHeadInv
      <3> QED
        BY <3>1 DEF IInv
    <2>11. CASE PollCasFail(p)
      BY <1>0, <2>11, PollCasFailInv
    <2>12. CASE PollRead(p)
      BY <1>0, <2>12, PollReadInv
    <2>13. CASE PollRelease(p)
      BY <1>0, <2>13, PollReleaseInv
    <2>14. CASE PollCheckEmpty(p)
      BY <1>0, <2>14, PollCheckEmptyInv
    <2>15. CASE Return(p)
      BY <1>0, <2>15, ReturnInv
    <2> QED
      BY <1>3, <2>1, <2>2, <2>3, <2>4, <2>5, <2>6, <2>7, <2>8, <2>9, <2>10, <2>11, <2>12, <2>13,
         <2>14, <2>15 DEF Step
  <1>4. CASE UNCHANGED vars
    <2>1. Good(b, H, T, O)'
      <3>1. /\ head' = head /\ tail' = tail /\ stamp' = stamp /\ value' = value /\ pc' = pc
            /\ arg' = arg /\ pos' = pos /\ res' = res /\ calls' = calls /\ spurious' = spurious
        BY <1>4 DEF vars
      <3>2. \A p \in Procs : (Writer(p)' <=> Writer(p)) /\ (Reader(p)' <=> Reader(p))
        BY <3>1 DEF Writer, Reader
      <3>3. Ring(H, T, O)' /\ Claims(H, T, O)'
        BY <1>0, <3>1, <3>2 DEF Good, Ring, Claims
      <3>4. Counters(b, H, T)'
        BY <1>0, <3>1 DEF Good, Counters, Posting
      <3>5. TypeOK' /\ CallInv' /\ Copies(b, H, T, O)'
        BY <1>0, <3>1 DEF Good, TypeOK, CallInv, InCall, Copies, Copy
      <3> QED
        BY <3>3, <3>4, <3>5 DEF Good
    <2> QED
      BY <2>1 DEF IInv
  <1> QED
    BY <1>1, <1>2, <1>3, <1>4 DEF Next

\* The invariant IInv holds in every reachable state: the counters of queue.rs
\* stay in order, and every slot is in one of its four states.
THEOREM Invariant == Spec => []IInv
  BY InitInv, NextInv, PTL DEF Spec

\* Indices stay below the capacity, and head + 1 and tail + 1, which push_or_else
\* and poll compute without wrapping_add, never overflow.
THEOREM TypeCorrect == Spec => []TypeOK
  <1>1. IInv => TypeOK
    BY DEF IInv, Good
  <1> QED
    BY <1>1, Invariant, PTL

\* No slot has two owners.
LEMMA ExclusiveSlots == IInv => SlotExclusive
  <1> SUFFICES ASSUME IInv PROVE SlotExclusive
    OBVIOUS
  <1>0. PICK b \in Nat, H \in Nat, T \in Nat, O \in [Procs -> Nat] : Good(b, H, T, O)
    BY DEF IInv
  <1>1. ASSUME NEW p \in Procs, NEW q \in Procs, InSlot(p), InSlot(q), Index(pos[p]) = Index(pos[q])
        PROVE  p = q
    <2>1. Slot(O[p]) = Slot(O[q]) /\ H <= T /\ T <= H + Capacity
      BY <1>0, <1>1, Claimant DEF Claimed
    <2> QED
      BY <1>0, <1>1, <2>1, Seats DEF Good
  <1>2. ASSUME NEW p \in Procs, pc[p] = "poll_read"
        PROVE  value[Index(pos[p])] # Nil
    <2>1. InSlot(p) /\ Reader(p)
      BY <1>2 DEF InSlot, Reader
    <2>2. Index(pos[p]) = Slot(O[p])
      BY <1>0, <2>1, Claimant DEF Claimed
    <2>3. value[Slot(O[p])] \in Values
      BY <1>0, <1>2, <2>1 DEF Good, Claims
    <2> QED
      BY <2>2, <2>3, ValuesAssumption
  <1> QED
    BY <1>1, <1>2 DEF SlotExclusive

\* The accesses of post and poll to a slot's UnsafeCell never race, and poll
\* reads no slot that has not been written.
THEOREM SlotsExclusive == Spec => []SlotExclusive
  BY ExclusiveSlots, Invariant, PTL

-----------------------------------------------------------------------------
(***************************************************************************)
(* The refinement.  In ordinals, the elements of the queue are those from  *)
(* H to T - 1.                                                             *)
(***************************************************************************)
ElementIn(pcs, poss, args, vals, n) ==
  IF \E p \in Procs : pcs[p] = "post_write" /\ poss[p] = n
  THEN args[CHOOSE p \in Procs : pcs[p] = "post_write" /\ poss[p] = n]
  ELSE vals[Index(n)]

Elements(pcs, poss, args, vals, H, T) ==
  [k \in 1..(T - H) |-> ElementIn(pcs, poss, args, vals, P(H + k - 1))]

\* Size and PositionAt, whose operands wrap, in ordinals.
LEMMA SizeInOrdinals ==
  ASSUME NEW H \in Nat, NEW T \in Nat, H <= T, T <= H + Capacity
  PROVE  (Ordinal(P(T)) + Laps * Capacity - Ordinal(P(H))) % (Laps * Capacity) = T - H
  <1> DEFINE d == T - H
             h == H % M
  <1>0. M \in Nat \ {0} /\ d \in 0..(M - 1) /\ h \in 0..(M - 1) /\ T = H + d /\ d \in Nat /\ h \in Nat
    BY Sizes, ModM
  <1>1. Ordinal(P(H)) = h /\ Ordinal(P(T)) = T % M
    BY PositionType
  <1>2. T % M = (h + d) % M
    <2> HIDE DEF d
    <2>1. ((H % M) + d) % M = (H + d) % M
      BY <1>0, ModM
    <2> QED
      BY <1>0, <2>1
  <1> HIDE DEF d, h
  <1>3. CASE h + d < M
    <2>1. h + d \in 0..(M - 1)
      BY <1>0, <1>3
    <2>2. T % M = h + d
      BY <1>2, <2>1, ModM
    <2>3. Ordinal(P(T)) + M - Ordinal(P(H)) = d + M
      BY <1>0, <1>1, <2>2
    <2>4. (d + M) % M = d
      BY <1>0, ModM
    <2> QED
      BY <2>3, <2>4 DEF M, d
  <1>4. CASE ~(h + d < M)
    <2>1. (h + d) - M \in 0..(M - 1) /\ h + d = ((h + d) - M) + M
      BY <1>0, <1>4
    <2>2. T % M = (h + d) - M
      BY <1>2, <2>1, ModM
    <2>3. Ordinal(P(T)) + M - Ordinal(P(H)) = d
      BY <1>0, <1>1, <2>2
    <2>4. d % M = d
      BY <1>0, ModM
    <2> QED
      BY <2>3, <2>4 DEF M, d
  <1> QED
    BY <1>3, <1>4

\* The positions behind the head, in the order in which they are read.
LEMMA PositionAtOrdinal ==
  ASSUME NEW H \in Nat, NEW k \in Nat \ {0}
  PROVE  Q((Ordinal(P(H)) + k - 1) % (Laps * Capacity)) = P(H + k - 1)
  <1> DEFINE i == k - 1
  <1>1. i \in Nat /\ H + k - 1 = H + i
    OBVIOUS
  <1>2. Ordinal(P(H)) = H % M /\ H % M \in Nat
    BY PositionType, ModM, Sizes
  <1>3. (Ordinal(P(H)) + k - 1) = (H % M) + i
    BY <1>2
  <1> HIDE DEF i
  <1>4. ((H % M) + i) % M = (H + i) % M
    BY <1>1, ModM
  <1> QED
    BY <1>1, <1>3, <1>4 DEF M, P

ContentsInOrdinals ==
  \A H, T \in Nat : head = P(H) /\ tail = P(T) /\ H <= T /\ T <= H + Capacity
                      => Contents = Elements(pc, pos, arg, value, H, T)

\* The elements of the abstract queue, as the elements at ordinals.
LEMMA ContentsAre == ContentsInOrdinals
  <1> SUFFICES ASSUME NEW H \in Nat, NEW T \in Nat,
                      head = P(H), tail = P(T), H <= T, T <= H + Capacity
               PROVE  Contents = Elements(pc, pos, arg, value, H, T)
    BY DEF ContentsInOrdinals
  <1>1. Size = T - H
    BY SizeInOrdinals DEF Size
  <1>2. \A k \in 1..(T - H) : PositionAt(k) = P(H + k - 1)
    BY PositionAtOrdinal DEF PositionAt, Q
  <1> QED
    BY <1>1, <1>2 DEF Contents, Elements, Element, ElementIn

\* What an element is.
LEMMA ElementClaimed ==
  ASSUME NEW pcs, NEW poss, NEW args, NEW vals, NEW n, NEW p \in Procs,
         pcs[p] = "post_write", poss[p] = n,
         \A q \in Procs : pcs[q] = "post_write" /\ poss[q] = n => q = p
  PROVE  ElementIn(pcs, poss, args, vals, n) = args[p]
  BY DEF ElementIn

\* An element depends on its slot and on the post that has claimed it.
LEMMA ElementSame ==
  ASSUME NEW pcs, NEW poss, NEW args, NEW vals, NEW n,
         NEW pcs2, NEW poss2, NEW args2, NEW vals2,
         \A p \in Procs : (pcs[p] = "post_write" /\ poss[p] = n) <=> (pcs2[p] = "post_write" /\ poss2[p] = n),
         \A p, q \in Procs : pcs[p] = "post_write" /\ pcs[q] = "post_write" /\ poss[p] = n /\ poss[q] = n
                               => p = q,
         \A p \in Procs : pcs[p] = "post_write" => args[p] = args2[p],
         vals[Index(n)] = vals2[Index(n)]
  PROVE  ElementIn(pcs, poss, args, vals, n) = ElementIn(pcs2, poss2, args2, vals2, n)
  <1>1. CASE \E p \in Procs : pcs[p] = "post_write" /\ poss[p] = n
    <2>1. PICK p \in Procs : pcs[p] = "post_write" /\ poss[p] = n
      BY <1>1
    <2>2. ElementIn(pcs, poss, args, vals, n) = args[p]
      BY <2>1 DEF ElementIn
    <2>3. ElementIn(pcs2, poss2, args2, vals2, n) = args2[p]
      BY <2>1 DEF ElementIn
    <2> QED
      BY <2>1, <2>2, <2>3
  <1>2. CASE ~\E p \in Procs : pcs[p] = "post_write" /\ poss[p] = n
    BY <1>2 DEF ElementIn
  <1> QED
    BY <1>1, <1>2

\* The same after a step.
LEMMA ContentsPrime == ContentsInOrdinals'
  BY ContentsAre, PTL

\* At most one post is between the claim of a position and its write.
LEMMA OneWriter ==
  ASSUME NEW b \in Nat, NEW H \in Nat, NEW T \in Nat, NEW O \in [Procs -> Nat], Good(b, H, T, O)
  PROVE  /\ \A p, q \in Procs : pc[p] = "post_write" /\ pc[q] = "post_write" /\ pos[p] = pos[q] => p = q
         /\ \A p \in Procs, k \in Nat :
              H <= k /\ k <= T /\ pc[p] = "post_write" /\ pos[p] = P(k) => O[p] = k
  <1>1. TypeOK /\ Counters(b, H, T) /\ b <= H /\ H <= T /\ T <= H + Capacity /\ Capacity \in Nat
    BY Sizes DEF Good, Counters
  <1>2. ASSUME NEW p \in Procs, pc[p] = "post_write"
        PROVE  Writer(p) /\ O[p] \in Nat /\ pos[p] = P(O[p]) /\ b <= O[p] /\ O[p] <= H + Capacity
    <2>1. InSlot(p) /\ Writer(p)
      BY <1>2 DEF InSlot, Writer
    <2>2. O[p] \in Nat /\ pos[p] = P(O[p]) /\ b <= O[p] /\ O[p] <= T
      BY <2>1, Claimant DEF Claimed
    <2> QED
      BY <1>1, <2>1, <2>2
  <1>3. ASSUME NEW p \in Procs, NEW k \in Nat, H <= k, k <= T, pc[p] = "post_write", pos[p] = P(k)
        PROVE  O[p] = k
    <2>1. O[p] \in Nat /\ P(O[p]) = P(k) /\ b <= O[p] /\ O[p] <= H + Capacity
      BY <1>2, <1>3
    <2>2. b <= k /\ k <= H + Capacity
      BY <1>1, <1>3
    <2> QED
      BY <1>1, <2>1, <2>2, InWindow
  <1>4. ASSUME NEW p \in Procs, NEW q \in Procs, pc[p] = "post_write", pc[q] = "post_write", pos[p] = pos[q]
        PROVE  p = q
    <2>1. /\ O[p] \in Nat /\ pos[p] = P(O[p]) /\ b <= O[p] /\ O[p] <= H + Capacity /\ Writer(p)
          /\ O[q] \in Nat /\ pos[q] = P(O[q]) /\ b <= O[q] /\ O[q] <= H + Capacity /\ Writer(q)
      BY <1>2, <1>4
    <2>2. O[p] = O[q]
      BY <1>1, <1>4, <2>1, InWindow
    <2> QED
      BY <2>1, <2>2 DEF Good, Claims
  <1> QED
    BY <1>3, <1>4

\* The elements of the abstract queue, by the counters of the invariant.
LEMMA ContentsNow ==
  ASSUME NEW b \in Nat, NEW H \in Nat, NEW T \in Nat, NEW O \in [Procs -> Nat], Good(b, H, T, O)
  PROVE  /\ Contents = Elements(pc, pos, arg, value, H, T)
         /\ H <= T /\ T <= H + Capacity /\ head = P(H) /\ tail = P(T)
  BY ContentsAre DEF ContentsInOrdinals, Good, Counters

\* A step that moves no counter and writes no element changes no content.
LEMMA ContentsSame ==
  ASSUME NEW b \in Nat, NEW H \in Nat, NEW T \in Nat, NEW O \in [Procs -> Nat], Good(b, H, T, O),
         NEW p \in Procs, NEW l, Others(p, l), UNCHANGED <<head, tail, value>>,
         pc[p] # "post_write", l # "post_write"
  PROVE  Contents' = Contents
  <1>1. Contents = Elements(pc, pos, arg, value, H, T)
    BY ContentsNow
  <1>2. Contents' = Elements(pc', pos', arg', value', H, T)
    BY ContentsNow, ContentsPrime DEF ContentsInOrdinals
  <1>3. \A q \in Procs \ {p} : pc'[q] = pc[q] /\ pos'[q] = pos[q] /\ arg'[q] = arg[q]
    BY DEF Others, Good, TypeOK
  <1>4. pc'[p] # "post_write"
    BY DEF Others, Good, TypeOK
  <1>5. ASSUME NEW n
        PROVE  ElementIn(pc, pos, arg, value, n) = ElementIn(pc', pos', arg', value', n)
    <2>1. \A q \in Procs :
            (pc[q] = "post_write" /\ pos[q] = n) <=> (pc'[q] = "post_write" /\ pos'[q] = n)
      BY <1>3, <1>4
    <2>2. \A q, r \in Procs :
            pc[q] = "post_write" /\ pc[r] = "post_write" /\ pos[q] = n /\ pos[r] = n => q = r
      BY OneWriter
    <2>3. \A q \in Procs : pc[q] = "post_write" => arg[q] = arg'[q]
      BY <1>3
    <2> QED
      BY <2>1, <2>2, <2>3, ElementSame
  <1> QED
    BY <1>1, <1>2, <1>5 DEF Elements

\* The call of each process, from where it is.
Rec(o, a, r) == [op |-> o, arg |-> a, res |-> r]
Calls == [p \in Procs |-> CallOf(p)]
MayMoveHead == {"poll_load", "poll_stamp", "poll_cas", "poll_empty"}

CallForms ==
  \A p \in Procs :
    /\ pc[p] = "idle" /\ arg[p] = Nil => CallOf(p) = Rec("none", Nil, "pending")
    /\ pc[p] # "idle" /\ arg[p] \in Values =>
         /\ pc[p] \in MayMoveTail => CallOf(p) = Rec("post", arg[p], "pending")
         /\ Writer(p) => CallOf(p) = Rec("post", arg[p], "ok")
         /\ pc[p] = "done" => CallOf(p) = Rec("post", arg[p], res[p])
    /\ pc[p] # "idle" /\ arg[p] = Nil =>
         /\ pc[p] \in MayMoveHead => CallOf(p) = Rec("poll", Nil, "pending")
         /\ pc[p] = "poll_read" => CallOf(p) = Rec("poll", Nil, value[Index(pos[p])])
         /\ pc[p] \in {"poll_release", "done"} => CallOf(p) = Rec("poll", Nil, res[p])

\* What a call has answered, by where it is.
LEMMA CallFormsNow == CallForms
  <1>1. ASSUME NEW p \in Procs
        PROVE  \E o, r :
          /\ CallOf(p) = Rec(o, arg[p], r)
          /\ o = IF pc[p] = "idle" THEN "none" ELSE IF arg[p] # Nil THEN "post" ELSE "poll"
          /\ Writer(p) => r = "ok"
          /\ pc[p] = "poll_read" => r = value[Index(pos[p])]
          /\ pc[p] \in {"poll_release", "done"} => r = res[p]
          /\ ~InSlot(p) /\ pc[p] # "done" => r = "pending"
    <2> DEFINE o == IF pc[p] = "idle" THEN "none" ELSE IF arg[p] # Nil THEN "post" ELSE "poll"
               r == CASE pc[p] \in {"post_write", "post_publish"} -> "ok"
                      [] pc[p] = "poll_read" -> value[Index(pos[p])]
                      [] pc[p] \in {"poll_release", "done"} -> res[p]
                      [] OTHER -> "pending"
    <2>1. CallOf(p) = Rec(o, arg[p], r)
      BY DEF CallOf, Rec
    <2>2. Writer(p) => r = "ok"
      BY DEF Writer
    <2>3. pc[p] = "poll_read" => r = value[Index(pos[p])]
      OBVIOUS
    <2>4. pc[p] \in {"poll_release", "done"} => r = res[p]
      OBVIOUS
    <2>5. ~InSlot(p) /\ pc[p] # "done" => r = "pending"
      BY DEF InSlot
    <2> HIDE DEF r
    <2> QED
      BY <2>1, <2>2, <2>3, <2>4, <2>5
  <1> QED
    BY <1>1, ValuesAssumption DEF CallForms, MayMoveTail, MayMoveHead, Writer, InSlot

\* The same after a step.
LEMMA CallFormsPrime == CallForms'
  BY CallFormsNow, PTL

\* A step of p that leaves alone what the others are about to read.
LEMMA CallStep ==
  ASSUME NEW p \in Procs, NEW l, pc \in [Procs -> Labels], Others(p, l), NEW c, CallOf(p)' = c,
         \A q \in Procs \ {p} : pc[q] = "poll_read" => value'[Index(pos[q])] = value[Index(pos[q])]
  PROVE  Calls' = [Calls EXCEPT ![p] = c]
  <1>1. ASSUME NEW q \in Procs \ {p}
        PROVE  CallOf(q)' = CallOf(q)
    <2>1. pc'[q] = pc[q] /\ arg'[q] = arg[q] /\ pos'[q] = pos[q] /\ res'[q] = res[q]
      BY DEF Others
    <2>2. pc[q] = "poll_read" => value'[Index(pos[q])] = value[Index(pos[q])]
      OBVIOUS
    <2> QED
      BY <2>1, <2>2 DEF CallOf
  <1> QED
    BY <1>1 DEF Calls

\* A step that the callers cannot see.
LEMMA Unseen ==
  ASSUME NEW b \in Nat, NEW H \in Nat, NEW T \in Nat, NEW O \in [Procs -> Nat], Good(b, H, T, O),
         NEW p \in Procs, NEW l, Others(p, l), UNCHANGED <<head, tail, value>>,
         pc[p] # "post_write", l # "post_write", CallOf(p)' = CallOf(p)
  PROVE  UNCHANGED Fifo!vars
  <1>1. Contents' = Contents
    BY ContentsSame
  <1>2. Calls' = [Calls EXCEPT ![p] = CallOf(p)]
    BY CallStep DEF Good, TypeOK
  <1>3. Calls' = Calls
    BY <1>2 DEF Calls
  <1> QED
    BY <1>1, <1>3 DEF Fifo!vars, Calls

\* A step that answers a call, or starts or ends one, and moves nothing.
LEMMA Seen ==
  ASSUME NEW b \in Nat, NEW H \in Nat, NEW T \in Nat, NEW O \in [Procs -> Nat], Good(b, H, T, O),
         NEW p \in Procs, NEW l, Others(p, l), UNCHANGED <<head, tail, value>>,
         pc[p] # "post_write", l # "post_write", NEW c, CallOf(p)' = c
  PROVE  Contents' = Contents /\ Calls' = [Calls EXCEPT ![p] = c] /\ Calls[p] = CallOf(p)
  <1>1. Contents' = Contents
    BY ContentsSame
  <1>2. Calls' = [Calls EXCEPT ![p] = c]
    BY CallStep DEF Good, TypeOK
  <1> QED
    BY <1>1, <1>2 DEF Calls

\* The actions of the abstract queue, on the mapped state.
LEMMA FifoInvoke ==
  ASSUME NEW p \in Procs, NEW a, NEW o, Contents' = Contents,
         Calls[p] = Rec("none", Nil, "pending"),
         Calls' = [Calls EXCEPT ![p] = Rec(o, a, "pending")]
  PROVE  Fifo!Invoke(p, o, a)
  BY DEF Fifo!Invoke, Fifo!NoCall, Calls, Rec

\* A return of the abstract queue.
LEMMA FifoReturn ==
  ASSUME NEW p \in Procs, NEW a, NEW o, NEW r, r # "pending", Contents' = Contents,
         Calls[p] = Rec(o, a, r),
         Calls' = [Calls EXCEPT ![p] = Rec("none", Nil, "pending")]
  PROVE  Fifo!Return(p)
  BY DEF Fifo!Return, Fifo!NoCall, Calls, Rec

\* An answer of the abstract queue.
LEMMA FifoAnswer ==
  ASSUME NEW p \in Procs, NEW o, NEW a, NEW r, Calls[p] = Rec(o, a, "pending"),
         Calls' = [Calls EXCEPT ![p] = Rec(o, a, r)]
  PROVE  Fifo!Pending(p, o) /\ Fifo!Answer(p, r)
  <1>1. Fifo!Pending(p, o)
    BY DEF Fifo!Pending, Calls, Rec
  <1>2. [Calls[p] EXCEPT !.res = r] = Rec(o, a, r)
    BY DEF Rec
  <1>3. Calls' = [Calls EXCEPT ![p].res = r]
    BY <1>2
  <1>4. Fifo!Answer(p, r)
    BY <1>3 DEF Fifo!Answer, Calls
  <1> QED
    BY <1>1, <1>4

\* Steps within a call, before it takes effect and after.
LEMMA StillPosting ==
  ASSUME NEW b \in Nat, NEW H \in Nat, NEW T \in Nat, NEW O \in [Procs -> Nat], Good(b, H, T, O),
         NEW p \in Procs, NEW l \in MayMoveTail, pc[p] \in MayMoveTail,
         Others(p, l), UNCHANGED <<head, tail, value, arg>>
  PROVE  UNCHANGED Fifo!vars
  <1>1. pc'[p] = l /\ pc[p] # "idle" /\ l # "idle" /\ pc[p] # "post_write" /\ l # "post_write"
    BY DEF Others, Good, TypeOK, MayMoveTail
  <1>2. arg[p] \in Values /\ arg'[p] = arg[p]
    BY DEF Good, CallInv, InCall, MayMoveTail, PostAt
  <1>3. CallOf(p) = Rec("post", arg[p], "pending")
    BY <1>1, <1>2, CallFormsNow DEF CallForms
  <1>4. CallOf(p)' = Rec("post", arg[p], "pending")
    BY <1>1, <1>2, CallFormsPrime DEF CallForms
  <1> QED
    BY <1>1, <1>3, <1>4, Unseen

\* A poll that has not claimed anything changes nothing the queue shows.
LEMMA StillPolling ==
  ASSUME NEW b \in Nat, NEW H \in Nat, NEW T \in Nat, NEW O \in [Procs -> Nat], Good(b, H, T, O),
         NEW p \in Procs, NEW l \in MayMoveHead, pc[p] \in MayMoveHead,
         Others(p, l), UNCHANGED <<head, tail, value, arg>>
  PROVE  UNCHANGED Fifo!vars
  <1>1. pc'[p] = l /\ pc[p] # "idle" /\ l # "idle" /\ pc[p] # "post_write" /\ l # "post_write"
    BY DEF Others, Good, TypeOK, MayMoveHead
  <1>2. arg[p] = Nil /\ arg'[p] = arg[p]
    BY DEF Good, CallInv, InCall, MayMoveHead, PollAt
  <1>3. CallOf(p) = Rec("poll", Nil, "pending")
    BY <1>1, <1>2, CallFormsNow DEF CallForms
  <1>4. CallOf(p)' = Rec("poll", Nil, "pending")
    BY <1>1, <1>2, CallFormsPrime DEF CallForms
  <1> QED
    BY <1>1, <1>3, <1>4, Unseen

\* Loads and failed exchanges change nothing the queue shows.
LEMMA LoadsAreUnseen ==
  ASSUME NEW b \in Nat, NEW H \in Nat, NEW T \in Nat, NEW O \in [Procs -> Nat], Good(b, H, T, O),
         NEW p \in Procs,
         \/ PostLoadTail(p) \/ PostLoadStamp(p) \/ PostCasFail(p)
         \/ PollLoadHead(p) \/ PollLoadStamp(p) \/ PollCasFail(p)
  PROVE  UNCHANGED Fifo!vars
  <1>1. CASE PostLoadTail(p) \/ PostLoadStamp(p) \/ PostCasFail(p)
    <2>1. pc[p] \in MayMoveTail /\ UNCHANGED <<head, tail, value, arg>>
      BY <1>1 DEF PostLoadTail, PostLoadStamp, PostCasFail, MayMoveTail
    <2>2. PICK l \in MayMoveTail : pc' = [pc EXCEPT ![p] = l]
      BY <1>1 DEF PostLoadTail, PostLoadStamp, PostCasFail, MayMoveTail, Goto, PostBranch
    <2>3. \A q \in Procs \ {p} : pos'[q] = pos[q] /\ res'[q] = res[q]
      BY <1>1 DEF PostLoadTail, PostLoadStamp, PostCasFail, Good, TypeOK
    <2>4. Others(p, l)
      BY <2>1, <2>2, <2>3 DEF Others, MayMoveTail, Labels
    <2> QED
      BY <2>1, <2>4, StillPosting
  <1>2. CASE PollLoadHead(p) \/ PollLoadStamp(p) \/ PollCasFail(p)
    <2>1. pc[p] \in MayMoveHead /\ UNCHANGED <<head, tail, value, arg>>
      BY <1>2 DEF PollLoadHead, PollLoadStamp, PollCasFail, MayMoveHead
    <2>2. PICK l \in MayMoveHead : pc' = [pc EXCEPT ![p] = l]
      BY <1>2 DEF PollLoadHead, PollLoadStamp, PollCasFail, MayMoveHead, Goto, PollBranch
    <2>3. \A q \in Procs \ {p} : pos'[q] = pos[q] /\ res'[q] = res[q]
      BY <1>2 DEF PollLoadHead, PollLoadStamp, PollCasFail, Good, TypeOK
    <2>4. Others(p, l)
      BY <2>1, <2>2, <2>3 DEF Others, MayMoveHead, Labels
    <2> QED
      BY <2>1, <2>4, StillPolling
  <1> QED
    BY <1>1, <1>2

\* Neither do the stores to a slot that is owned.
LEMMA StoresAreUnseen ==
  ASSUME NEW b \in Nat, NEW H \in Nat, NEW T \in Nat, NEW O \in [Procs -> Nat], Good(b, H, T, O),
         NEW p \in Procs, PostPublish(p) \/ PollRead(p) \/ PollRelease(p)
  PROVE  UNCHANGED Fifo!vars
  <1> USE DEF PostPublish, PollRead, PollRelease, Goto, Finish
  <1>1. PICK l \in {"done", "poll_release"} : pc' = [pc EXCEPT ![p] = l]
    OBVIOUS
  <1>2. Others(p, l) /\ pc'[p] = l /\ UNCHANGED <<head, tail, value, arg, pos>>
    BY <1>1 DEF Others, Labels, Good, TypeOK
  <1>3. pc[p] \in {"post_publish", "poll_read", "poll_release"}
    OBVIOUS
  <1>4. CallOf(p)' = CallOf(p)
    <2>1. CASE PostPublish(p)
      <3>1. arg[p] \in Values /\ arg'[p] = arg[p] /\ pc'[p] = "done" /\ res'[p] = "ok"
        BY <2>1 DEF Good, TypeOK, CallInv, InCall, PostAt
      <3>2. CallOf(p) = Rec("post", arg[p], "ok")
        BY <2>1, <3>1, CallFormsNow DEF CallForms, Writer
      <3>3. CallOf(p)' = Rec("post", arg[p], "ok")
        BY <3>1, CallFormsPrime DEF CallForms
      <3> QED
        BY <3>2, <3>3
    <2>2. CASE PollRead(p)
      <3>1. /\ arg[p] = Nil /\ arg'[p] = arg[p] /\ pc'[p] = "poll_release"
            /\ res'[p] = value[Index(pos[p])]
        BY <2>2 DEF Good, TypeOK, CallInv, InCall, PollAt
      <3>2. CallOf(p) = Rec("poll", Nil, value[Index(pos[p])])
        BY <2>2, <3>1, CallFormsNow DEF CallForms
      <3>3. CallOf(p)' = Rec("poll", Nil, value[Index(pos[p])])
        BY <3>1, CallFormsPrime DEF CallForms
      <3> QED
        BY <3>2, <3>3
    <2>3. CASE PollRelease(p)
      <3>1. arg[p] = Nil /\ arg'[p] = arg[p] /\ pc'[p] = "done" /\ res'[p] = res[p]
        BY <2>3 DEF Good, TypeOK, CallInv, InCall, PollAt
      <3>2. CallOf(p) = Rec("poll", Nil, res[p])
        BY <2>3, <3>1, CallFormsNow DEF CallForms
      <3>3. CallOf(p)' = Rec("poll", Nil, res[p])
        BY <3>1, CallFormsPrime DEF CallForms
      <3> QED
        BY <3>2, <3>3
    <2> QED
      BY <2>1, <2>2, <2>3
  <1>5. pc[p] # "post_write" /\ l # "post_write" /\ UNCHANGED <<head, tail, value>>
    BY <1>1, <1>2, <1>3
  <1> QED
    BY <1>2, <1>4, <1>5, Unseen

\* The element is the post's until it is written, and the slot's from then on.
LEMMA WriteIsUnseen ==
  ASSUME NEW b \in Nat, NEW H \in Nat, NEW T \in Nat, NEW O \in [Procs -> Nat], Good(b, H, T, O),
         NEW p \in Procs, PostWrite(p)
  PROVE  UNCHANGED Fifo!vars
  <1>0. pc[p] = "post_write" /\ InSlot(p) /\ Writer(p) /\ pc'[p] = "post_publish"
    BY DEF PostWrite, Goto, InSlot, Writer, Good, TypeOK
  <1>1. Others(p, "post_publish") /\ \A q \in Procs \ {p} : pc'[q] = pc[q]
    BY DEF PostWrite, Goto, Others, Labels, Good, TypeOK
  <1>claimed. Claimed(b, H, T, O, p)
    BY <1>0, Claimant
  <1>2. /\ O[p] \in Nat /\ pos[p] = P(O[p]) /\ Index(pos[p]) = Slot(O[p]) /\ Slot(O[p]) \in Slots
        /\ H <= T /\ T <= H + Capacity
    BY <1>claimed DEF Claimed
  <1>writer. /\ \A q, r \in Procs : pc[q] = "post_write" /\ pc[r] = "post_write" /\ pos[q] = pos[r] => q = r
             /\ \A k \in Nat : H <= k /\ k <= T /\ pos[p] = P(k) => O[p] = k
    BY <1>0, OneWriter
  <1> USE DEF PostWrite, Goto
  <1>3. /\ value'[Slot(O[p])] = arg[p]
        /\ \A i \in Slots : i # Slot(O[p]) => value'[i] = value[i]
    BY <1>2 DEF Good, TypeOK
  <1>4. Contents' = Contents
    <2>1. Contents = Elements(pc, pos, arg, value, H, T)
      BY ContentsNow
    <2>2. Contents' = Elements(pc', pos', arg', value', H, T)
      BY ContentsNow, ContentsPrime DEF ContentsInOrdinals
    <2>3. ASSUME NEW k \in Nat, H <= k, k < T
          PROVE  ElementIn(pc, pos, arg, value, P(k)) = ElementIn(pc', pos', arg', value', P(k))
      <3>1. Index(P(k)) = Slot(k) /\ Slot(k) \in Slots
        BY OrdinalFacts
      <3>2. CASE k = O[p]
        <4>1. ElementIn(pc, pos, arg, value, P(k)) = arg[p]
          <5>1. \A q \in Procs : pc[q] = "post_write" /\ pos[q] = P(k) => q = p
            BY <1>0, <1>2, <3>2, <1>writer
          <5> QED
            BY <1>0, <1>2, <3>2, <5>1 DEF ElementIn
        <4>2. \A q \in Procs : ~(pc'[q] = "post_write" /\ pos'[q] = P(k))
          BY <1>0, <1>1, <1>2, <3>2, <1>writer
        <4>3. ElementIn(pc', pos', arg', value', P(k)) = value'[Slot(k)]
          BY <3>1, <4>2 DEF ElementIn
        <4> QED
          BY <1>3, <3>2, <4>1, <4>3
      <3>3. CASE k # O[p]
        <4>1. pos[p] # P(k)
          <5>1. H <= k /\ k <= T
            BY <2>3
          <5> QED
            BY <3>3, <5>1, <1>writer
        <4>2. \A q \in Procs :
                (pc[q] = "post_write" /\ pos[q] = P(k)) <=> (pc'[q] = "post_write" /\ pos'[q] = P(k))
          BY <1>0, <1>1, <4>1
        <4>3. \A q, r \in Procs :
                pc[q] = "post_write" /\ pc[r] = "post_write" /\ pos[q] = P(k) /\ pos[r] = P(k) => q = r
          BY OneWriter
        <4>4. Slot(k) # Slot(O[p])
          <5>1. k < H + Capacity /\ Seat(O, p) = O[p]
            BY <1>0, <1>2, <2>3, Sizes DEF Seat
          <5> QED
            BY <1>0, <1>2, <2>3, <3>3, <5>1, Seats DEF Good
        <4>5. value[Index(P(k))] = value'[Index(P(k))]
          BY <1>3, <3>1, <4>4
        <4>6. \A q \in Procs : pc[q] = "post_write" => arg[q] = arg'[q]
          OBVIOUS
        <4> HIDE DEF PostWrite, Goto
        <4> QED
          BY <4>2, <4>3, <4>5, <4>6, ElementSame
      <3> QED
        BY <3>2, <3>3
    <2>4. \A i \in 1..(T - H) : H + i - 1 \in Nat /\ H <= H + i - 1 /\ H + i - 1 < T
      BY <1>2
    <2> QED
      BY <2>1, <2>2, <2>3, <2>4 DEF Elements
  <1>5. CallOf(p)' = CallOf(p)
    <2>1. arg[p] \in Values /\ arg'[p] = arg[p]
      BY <1>0 DEF Good, CallInv, InCall, PostAt
    <2>2. CallOf(p) = Rec("post", arg[p], "ok")
      BY <1>0, <2>1, CallFormsNow DEF CallForms
    <2>3. CallOf(p)' = Rec("post", arg[p], "ok")
      BY <1>0, <2>1, CallFormsPrime DEF CallForms, Writer
    <2> QED
      BY <2>2, <2>3
  <1>6. ASSUME NEW q \in Procs \ {p}, pc[q] = "poll_read"
        PROVE  value'[Index(pos[q])] = value[Index(pos[q])]
    <2>1. InSlot(q)
      BY <1>6 DEF InSlot
    <2>2. Index(pos[q]) = Slot(O[q]) /\ Slot(O[q]) \in Slots
      BY <2>1, Claimant DEF Claimed
    <2>3. Slot(O[q]) # Slot(O[p])
      BY <1>0, <1>2, <2>1, Seats DEF Good
    <2> QED
      BY <1>3, <2>2, <2>3
  <1>7. Calls' = [Calls EXCEPT ![p] = CallOf(p)]
    BY <1>1, <1>5, <1>6, CallStep DEF Good, TypeOK
  <1>8. Calls' = Calls
    BY <1>7 DEF Calls
  <1> QED
    BY <1>4, <1>8 DEF Fifo!vars, Calls

\* Calls, returns, and the answers full and empty.
LEMMA CallPostFifo ==
  ASSUME NEW b \in Nat, NEW H \in Nat, NEW T \in Nat, NEW O \in [Procs -> Nat], Good(b, H, T, O),
         NEW p \in Procs, NEW v \in Values, CallPost(p, v)
  PROVE  Fifo!Invoke(p, "post", v)
  <1> USE DEF CallPost, Goto
  <1>1. Others(p, "post_load") /\ pc'[p] = "post_load" /\ arg'[p] = v /\ UNCHANGED <<head, tail, value>>
    BY DEF Others, Labels, Good, TypeOK
  <1>2. pc[p] = "idle" /\ arg[p] = Nil
    BY DEF Good, CallInv, InCall
  <1>3. CallOf(p)' = Rec("post", v, "pending")
    BY <1>1, CallFormsPrime DEF CallForms, MayMoveTail
  <1>4. CallOf(p) = Rec("none", Nil, "pending")
    BY <1>2, CallFormsNow DEF CallForms
  <1>5. Contents' = Contents /\ Calls' = [Calls EXCEPT ![p] = Rec("post", v, "pending")] /\ Calls[p] = CallOf(p)
    BY <1>1, <1>2, <1>3, Seen
  <1> QED
    BY <1>4, <1>5, FifoInvoke

\* A call of poll is one of the abstract queue.
LEMMA CallPollFifo ==
  ASSUME NEW b \in Nat, NEW H \in Nat, NEW T \in Nat, NEW O \in [Procs -> Nat], Good(b, H, T, O),
         NEW p \in Procs, CallPoll(p)
  PROVE  Fifo!Invoke(p, "poll", Nil)
  <1> USE DEF CallPoll, Goto
  <1>1. Others(p, "poll_load") /\ pc'[p] = "poll_load" /\ UNCHANGED <<head, tail, value>>
    BY DEF Others, Labels, Good, TypeOK
  <1>2. pc[p] = "idle" /\ arg[p] = Nil /\ arg'[p] = Nil
    BY DEF Good, CallInv, InCall
  <1>3. CallOf(p)' = Rec("poll", Nil, "pending")
    BY <1>1, <1>2, CallFormsPrime DEF CallForms, MayMoveHead
  <1>4. CallOf(p) = Rec("none", Nil, "pending")
    BY <1>2, CallFormsNow DEF CallForms
  <1>5. Contents' = Contents /\ Calls' = [Calls EXCEPT ![p] = Rec("poll", Nil, "pending")] /\ Calls[p] = CallOf(p)
    BY <1>1, <1>2, <1>3, Seen
  <1> QED
    BY <1>4, <1>5, FifoInvoke

\* A return is one of the abstract queue.
LEMMA ReturnFifo ==
  ASSUME NEW b \in Nat, NEW H \in Nat, NEW T \in Nat, NEW O \in [Procs -> Nat], Good(b, H, T, O),
         NEW p \in Procs, Return(p)
  PROVE  Fifo!Return(p)
  <1> USE DEF Return, Goto
  <1>1. Others(p, "idle") /\ pc'[p] = "idle" /\ arg'[p] = Nil /\ UNCHANGED <<head, tail, value>>
    BY DEF Others, Labels, Good, TypeOK
  <1>2. /\ pc[p] = "done" /\ res[p] \in Values \cup {"ok", "full", "empty"}
        /\ arg[p] \in Values \cup {Nil}
    BY DEF Good, CallInv, InCall, TypeOK
  <1>3. CallOf(p)' = Rec("none", Nil, "pending")
    BY <1>1, CallFormsPrime DEF CallForms
  <1>4. PICK o \in {"post", "poll"} : CallOf(p) = Rec(o, arg[p], res[p])
    BY <1>2, CallFormsNow DEF CallForms
  <1>5. Contents' = Contents /\ Calls' = [Calls EXCEPT ![p] = Rec("none", Nil, "pending")] /\ Calls[p] = CallOf(p)
    BY <1>1, <1>2, <1>3, Seen
  <1>6. res[p] # "pending"
    BY <1>2, ValuesAssumption
  <1> QED
    BY <1>4, <1>5, <1>6, FifoReturn

\* The length of a sequence given by a rule for its elements.
LEMMA SeqLength ==
  ASSUME NEW n \in Nat, NEW e(_)
  PROVE  Len([k \in 1..n |-> e(k)]) = n
  OBVIOUS

\* An answer that the queue is full is right at this step.
LEMMA CheckFullFifo ==
  ASSUME NEW b \in Nat, NEW H \in Nat, NEW T \in Nat, NEW O \in [Procs -> Nat], Good(b, H, T, O),
         NEW p \in Procs, PostCheckFull(p)
  PROVE  Fifo!PostFull(p) \/ UNCHANGED Fifo!vars
  <1>0. pc[p] = "post_full" /\ UNCHANGED <<head, tail, value, arg, pos>> /\ arg'[p] = arg[p]
    BY DEF PostCheckFull
  <1>1. arg[p] \in Values
    BY <1>0 DEF Good, CallInv, InCall, PostAt
  <1>2. CASE Wrap(head + OneLap) = pos[p]
    <2>1. pc' = [pc EXCEPT ![p] = "done"] /\ res' = [res EXCEPT ![p] = "full"]
      BY <1>2 DEF PostCheckFull, Finish, Goto
    <2>2. Others(p, "done") /\ pc'[p] = "done" /\ res'[p] = "full"
      BY <1>0, <2>1 DEF Others, Labels, Good, TypeOK
    <2>3. CallOf(p)' = Rec("post", arg[p], "full")
      BY <1>0, <1>1, <2>2, CallFormsPrime DEF CallForms
    <2>4. CallOf(p) = Rec("post", arg[p], "pending")
      BY <1>0, <1>1, CallFormsNow DEF CallForms, MayMoveTail
    <2>5. /\ Contents' = Contents /\ Calls[p] = CallOf(p)
          /\ Calls' = [Calls EXCEPT ![p] = Rec("post", arg[p], "full")]
      BY <1>0, <2>2, <2>3, Seen
    <2>6. Len(Contents) = Capacity
      <3>1. /\ head = P(H) /\ H <= T /\ T <= H + Capacity /\ b <= H /\ Capacity \in Nat \ {0}
            /\ Contents = Elements(pc, pos, arg, value, H, T)
        BY ContentsNow, Sizes DEF Good, Counters
      <3>2. pos[p] = P(O[p]) /\ b <= O[p] /\ O[p] <= T /\ O[p] \in Nat
        BY <1>0 DEF Good, Copies, Copy, PostAt
      <3>3. P(O[p]) = P(H + Capacity)
        BY <1>2, <3>1, <3>2, OrdinalFacts
      <3>4. H + Capacity \in Nat /\ b <= H + Capacity /\ O[p] <= H + Capacity
        BY <3>1, <3>2
      <3>5. O[p] = H + Capacity
        BY <3>2, <3>3, <3>4, InWindow DEF Good
      <3>6. T - H = Capacity
        BY <3>1, <3>2, <3>5
      <3> QED
        BY <3>1, <3>6, SeqLength DEF Elements
    <2> QED
      BY <2>4, <2>5, <2>6, FifoAnswer DEF Fifo!PostFull
  <1>3. CASE Wrap(head + OneLap) # pos[p]
    <2>1. pc' = [pc EXCEPT ![p] = "post_load"] /\ res' = res
      BY <1>3 DEF PostCheckFull, Goto
    <2>2. Others(p, "post_load") /\ "post_load" \in MayMoveTail /\ pc[p] \in MayMoveTail
      BY <1>0, <2>1 DEF Others, Labels, MayMoveTail
    <2> QED
      BY <1>0, <2>2, StillPosting
  <1> QED
    BY <1>2, <1>3

\* An answer that the queue is empty is right at this step.
LEMMA CheckEmptyFifo ==
  ASSUME NEW b \in Nat, NEW H \in Nat, NEW T \in Nat, NEW O \in [Procs -> Nat], Good(b, H, T, O),
         NEW p \in Procs, PollCheckEmpty(p)
  PROVE  Fifo!PollNone(p) \/ UNCHANGED Fifo!vars
  <1>0. pc[p] = "poll_empty" /\ UNCHANGED <<head, tail, value, arg, pos>> /\ arg'[p] = arg[p]
    BY DEF PollCheckEmpty
  <1>1. arg[p] = Nil
    BY <1>0 DEF Good, CallInv, InCall, PollAt
  <1>2. CASE tail = pos[p]
    <2>1. pc' = [pc EXCEPT ![p] = "done"] /\ res' = [res EXCEPT ![p] = "empty"]
      BY <1>2 DEF PollCheckEmpty, Finish, Goto
    <2>2. Others(p, "done") /\ pc'[p] = "done" /\ res'[p] = "empty"
      BY <1>0, <2>1 DEF Others, Labels, Good, TypeOK
    <2>3. CallOf(p)' = Rec("poll", Nil, "empty")
      BY <1>0, <1>1, <2>2, CallFormsPrime DEF CallForms
    <2>4. CallOf(p) = Rec("poll", Nil, "pending")
      BY <1>0, <1>1, CallFormsNow DEF CallForms, MayMoveHead
    <2>5. /\ Contents' = Contents /\ Calls[p] = CallOf(p)
          /\ Calls' = [Calls EXCEPT ![p] = Rec("poll", Nil, "empty")]
      BY <1>0, <2>2, <2>3, Seen
    <2>6. Contents = <<>>
      <3>1. /\ tail = P(T) /\ H <= T /\ T <= H + Capacity /\ b <= H /\ Capacity \in Nat \ {0}
            /\ Contents = Elements(pc, pos, arg, value, H, T)
        BY ContentsNow, Sizes DEF Good, Counters
      <3>2. pos[p] = P(O[p]) /\ b <= O[p] /\ O[p] <= H /\ O[p] \in Nat
        BY <1>0 DEF Good, Copies, Copy, PollAt
      <3>3. b <= T /\ O[p] <= H + Capacity
        BY <3>1, <3>2
      <3>4. O[p] = T
        BY <1>2, <3>1, <3>2, <3>3, InWindow DEF Good
      <3>5. T - H = 0
        BY <3>1, <3>2, <3>4
      <3> QED
        BY <3>1, <3>5 DEF Elements
    <2> QED
      BY <2>4, <2>5, <2>6, FifoAnswer DEF Fifo!PollNone
  <1>3. CASE tail # pos[p]
    <2>1. pc' = [pc EXCEPT ![p] = "poll_load"] /\ res' = res
      BY <1>3 DEF PollCheckEmpty, Goto
    <2>2. Others(p, "poll_load") /\ "poll_load" \in MayMoveHead /\ pc[p] \in MayMoveHead
      BY <1>0, <2>1 DEF Others, Labels, MayMoveHead
    <2> QED
      BY <1>0, <2>2, StillPolling
  <1> QED
    BY <1>2, <1>3

\* A post takes effect when it moves tail.
LEMMA PostCasTailFifo ==
  ASSUME NEW b \in Nat, NEW H \in Nat, NEW T \in Nat, NEW O \in [Procs -> Nat], Good(b, H, T, O),
         NEW p \in Procs, PostCasTail(p)
  PROVE  Fifo!PostOk(p)
  <1>1. O[p] = T /\ pos[p] = P(T) /\ T < H + Capacity
    BY PostClaims
  <1>2. Good(b, H, T + 1, O)'
    BY PostCasTailInv
  <1>3. /\ pc[p] = "post_cas" /\ pc' = [pc EXCEPT ![p] = "post_write"]
        /\ UNCHANGED <<head, stamp, value, arg, pos, res>>
    BY DEF PostCasTail, Goto
  <1>4. Others(p, "post_write") /\ pc'[p] = "post_write" /\ \A q \in Procs \ {p} : pc'[q] = pc[q]
    BY <1>3 DEF Others, Labels, Good, TypeOK
  <1>5. arg[p] \in Values /\ arg'[p] = arg[p]
    BY <1>3 DEF Good, CallInv, InCall, PostAt
  <1>6. H <= T /\ T <= H + Capacity /\ Contents = Elements(pc, pos, arg, value, H, T)
    BY ContentsNow
  <1>7. Contents' = Elements(pc', pos', arg', value', H, T + 1)
    <2>1. head' = P(H) /\ tail' = P(T + 1) /\ H <= T + 1 /\ T + 1 <= H + Capacity /\ T + 1 \in Nat
      BY <1>2 DEF Good, Counters
    <2> QED
      BY <2>1, ContentsPrime DEF ContentsInOrdinals
  <1>8. ASSUME NEW k \in Nat, H <= k, k < T
        PROVE  ElementIn(pc, pos, arg, value, P(k)) = ElementIn(pc', pos', arg', value', P(k))
    <2>1. pos[p] # P(k)
      <3>1. /\ b <= H /\ T <= H + Capacity /\ TypeOK /\ Counters(b, H, T) /\ Capacity \in Nat
        BY Sizes DEF Good, Counters
      <3>2. b <= k /\ k <= H + Capacity /\ b <= T /\ k # T
        BY <1>6, <1>8, <3>1
      <3> QED
        BY <1>1, <3>1, <3>2, InWindow
    <2>2. \A q \in Procs :
            (pc[q] = "post_write" /\ pos[q] = P(k)) <=> (pc'[q] = "post_write" /\ pos'[q] = P(k))
      BY <1>3, <1>4, <2>1
    <2>3. \A q, r \in Procs :
            pc[q] = "post_write" /\ pc[r] = "post_write" /\ pos[q] = P(k) /\ pos[r] = P(k) => q = r
      BY OneWriter
    <2>4. (\A q \in Procs : pc[q] = "post_write" => arg[q] = arg'[q])
             /\ value[Index(P(k))] = value'[Index(P(k))]
      BY <1>3
    <2> QED
      BY <2>2, <2>3, <2>4, ElementSame
  <1>9. ElementIn(pc', pos', arg', value', P(T)) = arg[p]
    <2>1. \A q \in Procs : pc'[q] = "post_write" /\ pos'[q] = P(T) => q = p
      <3>1. \A q \in Procs : pc[q] = "post_write" => O[q] < T
        BY DEF Good, Claims, Writer
      <3>2. \A q \in Procs : pc[q] = "post_write" /\ pos[q] = P(T) => O[q] = T
        BY <1>6, OneWriter
      <3>3. \A q \in Procs : O[q] \in Nat
        OBVIOUS
      <3> QED
        BY <1>3, <1>4, <3>1, <3>2, <3>3
    <2>2. pc'[p] = "post_write" /\ pos'[p] = P(T)
      BY <1>1, <1>3, <1>4
    <2> QED
      BY <1>5, <2>1, <2>2 DEF ElementIn
  <1>10. Contents' = Append(Contents, arg[p])
    <2> DEFINE e(k) == ElementIn(pc, pos, arg, value, P(H + k - 1))
               f(k) == ElementIn(pc', pos', arg', value', P(H + k - 1))
               n == T - H
    <2>1. n \in Nat /\ (T + 1) - H = n + 1 /\ H + (n + 1) - 1 = T
      BY <1>6
    <2>2. Contents = [k \in 1..n |-> e(k)] /\ Contents' = [k \in 1..(n + 1) |-> f(k)]
      BY <1>6, <1>7, <2>1 DEF Elements
    <2>3. \A k \in 1..n : f(k) = e(k)
      <3>1. \A k \in 1..n : H + k - 1 \in Nat /\ H <= H + k - 1 /\ H + k - 1 < T
        BY <1>6
      <3> QED
        BY <1>8, <3>1
    <2>4. f(n + 1) = arg[p]
      BY <1>9, <2>1
    <2> HIDE DEF e, f, n
    <2>5. Append([k \in 1..n |-> e(k)], arg[p]) = [k \in 1..(n + 1) |-> IF k = n + 1 THEN arg[p] ELSE e(k)]
      BY <2>1
    <2>6. \A k \in 1..(n + 1) : f(k) = IF k = n + 1 THEN arg[p] ELSE e(k)
      BY <2>1, <2>3, <2>4
    <2> QED
      BY <2>2, <2>5, <2>6
  <1>11. Len(Contents) < Capacity
    <2>1. T - H \in Nat /\ T - H < Capacity
      BY <1>1, <1>6, Sizes
    <2> QED
      BY <1>6, <2>1, SeqLength DEF Elements
  <1>12. CallOf(p) = Rec("post", arg[p], "pending")
    BY <1>3, <1>5, CallFormsNow DEF CallForms, MayMoveTail
  <1>13. CallOf(p)' = Rec("post", arg[p], "ok")
    BY <1>4, <1>5, CallFormsPrime DEF CallForms, Writer
  <1>14. Calls' = [Calls EXCEPT ![p] = Rec("post", arg[p], "ok")] /\ Calls[p] = CallOf(p)
    <2>1. \A q \in Procs \ {p} : pc[q] = "poll_read" => value'[Index(pos[q])] = value[Index(pos[q])]
      BY <1>3
    <2>2. pc \in [Procs -> Labels]
      BY DEF Good, TypeOK
    <2>3. Calls' = [Calls EXCEPT ![p] = Rec("post", arg[p], "ok")]
      BY <1>4, <1>13, <2>1, <2>2, CallStep
    <2> QED
      BY <2>3 DEF Calls
  <1>15. Fifo!Pending(p, "post") /\ Fifo!Answer(p, "ok")
    BY <1>12, <1>14, FifoAnswer
  <1>16. [q \in Procs |-> CallOf(q)][p].arg = arg[p]
    BY <1>12 DEF Rec
  <1> QED
    BY <1>10, <1>11, <1>15, <1>16 DEF Fifo!PostOk

\* A poll takes effect when it moves head.
LEMMA PollCasHeadFifo ==
  ASSUME NEW b \in Nat, NEW H \in Nat, NEW T \in Nat, NEW O \in [Procs -> Nat], Good(b, H, T, O),
         NEW p \in Procs, PollCasHead(p)
  PROVE  Fifo!PollSome(p)
  <1>1. O[p] = H /\ pos[p] = P(H) /\ H < T /\ \A q \in Procs : Writer(q) => O[q] # H
    BY PollClaims
  <1>2. Good(b, H + 1, T, O)'
    BY PollCasHeadInv
  <1>3. /\ pc[p] = "poll_cas" /\ pc' = [pc EXCEPT ![p] = "poll_read"]
        /\ UNCHANGED <<tail, stamp, value, arg, pos, res>>
    BY DEF PollCasHead, Goto
  <1>4. Others(p, "poll_read") /\ pc'[p] = "poll_read" /\ \A q \in Procs \ {p} : pc'[q] = pc[q]
    BY <1>3 DEF Others, Labels, Good, TypeOK
  <1>5. arg[p] = Nil /\ arg'[p] = Nil
    BY <1>3 DEF Good, CallInv, InCall, PollAt
  <1>6. H <= T /\ T <= H + Capacity /\ Contents = Elements(pc, pos, arg, value, H, T)
    BY ContentsNow
  <1>7. Contents' = Elements(pc', pos', arg', value', H + 1, T)
    <2>1. head' = P(H + 1) /\ tail' = P(T) /\ H + 1 <= T /\ T <= H + 1 + Capacity /\ H + 1 \in Nat
      BY <1>2 DEF Good, Counters
    <2> QED
      BY <2>1, ContentsPrime DEF ContentsInOrdinals
  <1>8. ASSUME NEW k \in Nat
        PROVE  ElementIn(pc, pos, arg, value, P(k)) = ElementIn(pc', pos', arg', value', P(k))
    <2>2. \A q \in Procs :
            (pc[q] = "post_write" /\ pos[q] = P(k)) <=> (pc'[q] = "post_write" /\ pos'[q] = P(k))
      BY <1>3, <1>4
    <2>3. \A q, r \in Procs :
            pc[q] = "post_write" /\ pc[r] = "post_write" /\ pos[q] = P(k) /\ pos[r] = P(k) => q = r
      BY OneWriter
    <2>4. (\A q \in Procs : pc[q] = "post_write" => arg[q] = arg'[q])
             /\ value[Index(P(k))] = value'[Index(P(k))]
      BY <1>3
    <2> QED
      BY <2>2, <2>3, <2>4, ElementSame
  <1>9. ElementIn(pc, pos, arg, value, P(H)) = value[Index(pos[p])]
    <2>1. \A q \in Procs : ~(pc[q] = "post_write" /\ pos[q] = P(H))
      <3>1. H <= H /\ H <= T
        BY <1>6
      <3>2. \A q \in Procs : pc[q] = "post_write" /\ pos[q] = P(H) => O[q] = H
        BY <3>1, OneWriter
      <3> QED
        BY <1>1, <3>2 DEF Writer
    <2> QED
      BY <1>1, <2>1 DEF ElementIn
  <1>10. /\ Contents' = Tail(Contents) /\ Head(Contents) = value[Index(pos[p])]
         /\ Contents # <<>>
    <2> DEFINE e(k) == ElementIn(pc, pos, arg, value, P(H + k - 1))
               f(k) == ElementIn(pc', pos', arg', value', P(H + 1 + k - 1))
               n == T - H
    <2>1. n \in Nat \ {0} /\ T - (H + 1) = n - 1 /\ H + 1 - 1 = H
      BY <1>1, <1>6
    <2>2. Contents = [k \in 1..n |-> e(k)] /\ Contents' = [k \in 1..(n - 1) |-> f(k)]
      BY <1>6, <1>7, <2>1 DEF Elements
    <2>3. \A k \in 1..(n - 1) : f(k) = e(k + 1)
      <3>1. \A k \in 1..(n - 1) : H + 1 + k - 1 \in Nat /\ H + 1 + k - 1 = H + (k + 1) - 1
        BY <2>1
      <3> QED
        BY <1>8, <3>1
    <2>4. e(1) = value[Index(pos[p])]
      BY <1>9, <2>1
    <2> HIDE DEF e, f, n
    <2>5. /\ Tail([k \in 1..n |-> e(k)]) = [k \in 1..(n - 1) |-> e(k + 1)]
          /\ Head([k \in 1..n |-> e(k)]) = e(1)
          /\ [k \in 1..n |-> e(k)] # <<>>
      BY <2>1
    <2> QED
      BY <2>2, <2>3, <2>4, <2>5
  <1>11. CallOf(p) = Rec("poll", Nil, "pending")
    BY <1>3, <1>5, CallFormsNow DEF CallForms, MayMoveHead
  <1>12. CallOf(p)' = Rec("poll", Nil, value[Index(pos[p])])
    BY <1>3, <1>4, <1>5, CallFormsPrime DEF CallForms
  <1>13. Calls' = [Calls EXCEPT ![p] = Rec("poll", Nil, value[Index(pos[p])])] /\ Calls[p] = CallOf(p)
    <2>1. \A q \in Procs \ {p} : pc[q] = "poll_read" => value'[Index(pos[q])] = value[Index(pos[q])]
      BY <1>3
    <2>2. pc \in [Procs -> Labels]
      BY DEF Good, TypeOK
    <2>3. Calls' = [Calls EXCEPT ![p] = Rec("poll", Nil, value[Index(pos[p])])]
      BY <1>4, <1>12, <2>1, <2>2, CallStep
    <2> QED
      BY <2>3 DEF Calls
  <1>14. Fifo!Pending(p, "poll") /\ Fifo!Answer(p, value[Index(pos[p])])
    BY <1>11, <1>13, FifoAnswer
  <1> QED
    BY <1>10, <1>14 DEF Fifo!PollSome

-----------------------------------------------------------------------------
\* A queue that has just been made is an empty abstract one.
LEMMA FifoInit == Init => Fifo!Init
  <1> SUFFICES ASSUME Init PROVE Fifo!Init
    OBVIOUS
  <1>1. PICK n \in Starts : head = n /\ tail = n
    BY DEF Init
  <1>2. /\ pc = [p \in Procs |-> "idle"] /\ arg = [p \in Procs |-> Nil]
    BY DEF Init
  <1>3. n \in Positions /\ Ordinal(n) \in Nat /\ P(Ordinal(n)) = n
    BY StartsAssumption, PositionOfOrdinal
  <1>4. Contents = Elements(pc, pos, arg, value, Ordinal(n), Ordinal(n))
    <2>1. Ordinal(n) <= Ordinal(n) /\ Ordinal(n) <= Ordinal(n) + Capacity
      BY <1>3, Sizes
    <2> QED
      BY <1>1, <1>3, <2>1, ContentsAre DEF ContentsInOrdinals
  <1>5. Ordinal(n) - Ordinal(n) = 0
    BY <1>3
  <1>6. Contents = <<>>
    BY <1>4, <1>5 DEF Elements
  <1>7. \A p \in Procs : CallOf(p) = Rec("none", Nil, "pending")
    BY <1>2, CallFormsNow DEF CallForms
  <1> QED
    BY <1>6, <1>7 DEF Fifo!Init, Fifo!NoCall, Rec

\* Every step is one of the abstract queue or changes nothing it shows.
LEMMA FifoNext == IInv /\ [Next]_vars => [Fifo!Next]_(Fifo!vars)
  <1> SUFFICES ASSUME IInv, [Next]_vars
               PROVE  Fifo!Next \/ UNCHANGED Fifo!vars
    OBVIOUS
  <1>0. PICK b \in Nat, H \in Nat, T \in Nat, O \in [Procs -> Nat] : Good(b, H, T, O)
    BY DEF IInv
  <1>1. ASSUME NEW p \in Posters, NEW v \in Values, CallPost(p, v)
        PROVE  Fifo!Next
    <2>1. p \in Procs
      BY DEF Procs
    <2>2. Fifo!Invoke(p, "post", v)
      BY <1>0, <1>1, <2>1, CallPostFifo
    <2> QED
      BY <2>1, <2>2 DEF Fifo!Next
  <1>2. ASSUME NEW p \in Pollers, CallPoll(p)
        PROVE  Fifo!Next
    <2>1. p \in Procs
      BY DEF Procs
    <2>2. Fifo!Invoke(p, "poll", Nil)
      BY <1>0, <1>2, <2>1, CallPollFifo
    <2> QED
      BY <2>1, <2>2 DEF Fifo!Next
  <1>3. ASSUME NEW p \in Procs, Step(p)
        PROVE  Fifo!Next \/ UNCHANGED Fifo!vars
    <2>1. CASE PostLoadTail(p) \/ PostLoadStamp(p) \/ PostCasFail(p)
                 \/ PollLoadHead(p) \/ PollLoadStamp(p) \/ PollCasFail(p)
      BY <1>0, <2>1, LoadsAreUnseen
    <2>2. CASE PostPublish(p) \/ PollRead(p) \/ PollRelease(p)
      BY <1>0, <2>2, StoresAreUnseen
    <2>3. CASE PostWrite(p)
      BY <1>0, <2>3, WriteIsUnseen
    <2>4. CASE PostCasTail(p)
      <3>1. Fifo!PostOk(p)
        BY <1>0, <2>4, PostCasTailFifo
      <3> QED
        BY <3>1 DEF Fifo!Next
    <2>5. CASE PostCheckFull(p)
      <3>1. Fifo!PostFull(p) \/ UNCHANGED Fifo!vars
        BY <1>0, <2>5, CheckFullFifo
      <3> QED
        BY <3>1 DEF Fifo!Next
    <2>6. CASE PollCasHead(p)
      <3>1. Fifo!PollSome(p)
        BY <1>0, <2>6, PollCasHeadFifo
      <3> QED
        BY <3>1 DEF Fifo!Next
    <2>7. CASE PollCheckEmpty(p)
      <3>1. Fifo!PollNone(p) \/ UNCHANGED Fifo!vars
        BY <1>0, <2>7, CheckEmptyFifo
      <3> QED
        BY <3>1 DEF Fifo!Next
    <2>8. CASE Return(p)
      <3>1. Fifo!Return(p)
        BY <1>0, <2>8, ReturnFifo
      <3> QED
        BY <3>1 DEF Fifo!Next
    <2> QED
      BY <1>3, <2>1, <2>2, <2>3, <2>4, <2>5, <2>6, <2>7, <2>8 DEF Step
  <1>4. CASE UNCHANGED vars
    BY <1>4 DEF vars, Fifo!vars, Contents, CallOf, Size, Element, PositionAt
  <1> QED
    BY <1>1, <1>2, <1>3, <1>4 DEF Next

\* The ring of queue.rs is a first-in first-out queue: every step is a step of
\* BoundedFifo or one its callers cannot see, whatever the interleaving, the
\* capacity and the number of callers.
THEOREM Refinement == Spec => IsFifo
  <1>1. Spec => Fifo!Init
    BY FifoInit, PTL DEF Spec
  <1>2. Spec => [][Fifo!Next]_(Fifo!vars)
    BY FifoNext, Invariant, PTL DEF Spec
  <1> QED
    BY <1>1, <1>2, PTL DEF IsFifo, Fifo!Spec
=============================================================================
