---------------------------- MODULE MemoryProofs ----------------------------
(***************************************************************************)
(* What the operators of AddressSpace and of the modules it composes       *)
(* (PageTables, VirtualAddresses, PhysicalMemory) compute, for every size  *)
(* of memory, fan-out of the tables, page size, binary and set of sizes    *)
(* asked for. AddressSpaceProofs proves the theorems from these lemmas.    *)
(*                                                                         *)
(* The loops of the code are folds. IterSteps unrolls a fold into the      *)
(* states of its rounds, and Induction carries a fact from round to round. *)
(* What each loop does is then a lemma: MapRangeFacts, UnmapRangeFacts,    *)
(* AllocLoopFacts, LoadBinaryPhysical, GiveBackFacts, CopyFacts.           *)
(***************************************************************************)
EXTENDS AddressSpace, FiniteSetTheorems, SequenceTheorems, WellFoundedInduction, TLAPS

-----------------------------------------------------------------------------
(* Quotients, remainders and least elements. *)

\* Quotient and remainder exist.
LEMMA DivisionExists ==
  ASSUME NEW c \in Nat \ {0}, NEW a \in Int
  PROVE  a = (a \div c) * c + (a % c) /\ a % c \in 0..(c - 1) /\ a \div c \in Int
  OBVIOUS

\* Quotient and remainder are unique.
LEMMA DivisionUnique ==
  ASSUME NEW c \in Nat \ {0}, NEW q \in Int, NEW r \in 0..(c - 1)
  PROVE  (q * c + r) % c = r /\ (q * c + r) \div c = q
  OBVIOUS

\* A set of naturals that is not empty has a least element.
LEMMA LeastElement ==
  ASSUME NEW N, N \subseteq Nat, N # {}
  PROVE  \E i \in N : \A j \in N : i <= j
  <1> DEFINE R == OpToRel(<, Nat)
  <1>1. PICK x \in N : \A y \in N : <<y, x>> \notin R
    BY NatLessThanWellFounded, WFMin
  <1>2. \A y \in N : y < x => <<y, x>> \in R
    BY DEF OpToRel
  <1> HIDE DEF R
  <1>3. \A y \in N : ~(y < x)
    BY <1>1, <1>2, Zenon
  <1>4. \A y \in N : x <= y
    BY <1>3
  <1> QED
    BY <1>4

-----------------------------------------------------------------------------
(* The loops, round by round. *)

\* The rounds of the five loops of the model, as functions of the state of the loop and of
\* its parameters p: map_range, unmap_range, alloc_memory, load_binary, mapped_copy_from.
MapTurn(p, s) ==
  IF s.next >= p.n \/ s.state # "ok" THEN s
  ELSE MapStep(s, p.phys + s.next, p.va \div PAGE_SIZE + s.next, p.n - s.next)

\* A round of unmap_range.
UnmapTurn(p, s) ==
  LET v == p.va \div PAGE_SIZE + s.next
      l == WalkLevel(s.pt, v)
      e == EntryAt(l, v)
  IN  IF s.next >= p.n \/ s.state # "ok" THEN s
      ELSE IF l = 0 THEN [s EXCEPT !.state = "panic"]
      ELSE [s EXCEPT !.pt = Restrict(@, DOMAIN @ \ {e}), !.next = @ + Span(l),
                     !.regions = @ \cup (IF e \notin DOMAIN s.pt THEN {}
                                         ELSE {PagesFrom(s.pt[e].page, Span(l))})]

\* A round of alloc_memory.
AllocTurn(p, t) ==
  LET q == TryAllocContig(t.used, p.n - t.off)
      r == MapRange(t.pt, t.used \cup PagesFrom(q.base, q.count), q.base, t.addr + Bytes(t.off), q.count)
  IN  IF t.off >= p.n \/ t.state # "ok" THEN t
      ELSE IF ~q.ok THEN [t EXCEPT !.state = "error"]
      ELSE [t EXCEPT !.used = r.used, !.pt = r.pt, !.state = r.state, !.off = @ + q.count]

\* A round of mapped_copy_from.
CopyTurn(p, s) ==
  LET e == FirstRegion(p.pt, s.next)
      left == p.len - Len(s.out)
  IN  IF ~s.more THEN s
      ELSE IF RegionsFrom(p.pt, s.next) = {} THEN [s EXCEPT !.more = FALSE]
      ELSE IF left = 0 THEN [s EXCEPT !.ok = TRUE, !.more = FALSE]
      ELSE IF BaseOf(e) # s.next THEN [s EXCEPT !.more = FALSE]
      ELSE [s EXCEPT !.out = @ \o [i \in 1..CopyLength(e, 0, left) |-> Bytes(p.pt[e].page) + 0 + i - 1],
                     !.next = BaseOf(e) + Span(e[1])]

\* A round of any of them.
Turn(loop, p, s, k) ==
  CASE loop = "map" -> MapTurn(p, s)
    [] loop = "unmap" -> UnmapTurn(p, s)
    [] loop = "alloc" -> AllocTurn(p, s)
    [] loop = "load" -> LoadSegment(s, Segments[k])
    [] loop = "copy" -> CopyTurn(p, s)

\* What a fold over 1..n computes, as a function on the subsets of 1..n.
Iter(loop, p, start, n, f) ==
  [S \in SUBSET (1..n) |-> IF S = {} THEN start ELSE Turn(loop, p, f[S \ {Max(S)}], Max(S))]

\* The maximum of a set of indices is its greatest element.
LEMMA MaxIsGreatest ==
  ASSUME NEW n \in Nat, NEW S, S \subseteq 1..n, S # {}
  PROVE  Max(S) \in S /\ \A x \in S : x <= Max(S)
  <1> DEFINE N == {n - x : x \in S}
  <1>1. N \subseteq Nat /\ N # {}
    <2>1. \A x \in S : n - x \in Nat
      OBVIOUS
    <2> QED
      BY <2>1
  <1>2. PICK i \in N : \A j \in N : i <= j
    <2> HIDE DEF N
    <2> QED
      BY <1>1, LeastElement
  <1>3. PICK m \in S : i = n - m
    BY <1>2
  <1>4. \A x \in S : m >= x
    <2> TAKE x \in S
    <2>1. n - x \in N
      OBVIOUS
    <2> QED
      BY <1>2, <1>3, <2>1
  <1> QED
    BY <1>3, <1>4 DEF Max

\* Induction over the rounds of a loop: the least round outside G cannot exist.
LEMMA Induction ==
  ASSUME NEW n \in Nat, NEW G, 0 \in G, \A k \in 0..(n - 1) : k \in G => k + 1 \in G
  PROVE  \A k \in 0..n : k \in G
  <1> DEFINE W == {k \in 0..n : k \notin G}
  <1> SUFFICES ASSUME W # {} PROVE FALSE
    OBVIOUS
  <1>1. W \subseteq Nat
    OBVIOUS
  <1>2. PICK i \in W : \A j \in W : i <= j
    <2> HIDE DEF W
    <2> QED
      BY <1>1, LeastElement
  <1>3. i \in 0..n /\ i \notin G /\ i # 0
    BY <1>2
  <1>4. i - 1 \in 0..(n - 1) /\ ~(i <= i - 1) /\ i - 1 \in 0..n /\ (i - 1) + 1 = i
    BY <1>3
  <1>5. i - 1 \in G
    BY <1>2, <1>4
  <1> QED
    BY <1>3, <1>4, <1>5

\* The function that the folds of the loops define exists.
LEMMA IterExists ==
  ASSUME NEW loop, NEW p, NEW start, NEW n \in Nat
  PROVE  \E f : f = Iter(loop, p, start, n, f)
  <1> DEFINE G == {k \in 0..n : \E f : f = Iter(loop, p, start, k, f)}
  <1>1. 0 \in G
    <2> DEFINE f == [S \in SUBSET (1..0) |-> start]
    <2>1. \A S \in SUBSET (1..0) : S = {}
      OBVIOUS
    <2>2. f = Iter(loop, p, start, 0, f)
      BY <2>1 DEF Iter
    <2> QED
      BY <2>2
  <1>2. ASSUME NEW k \in 0..(n - 1), k \in G PROVE k + 1 \in G
    <2>1. PICK f : f = Iter(loop, p, start, k, f)
      BY <1>2
    <2>2. \A S \in SUBSET (1..k) : f[S] = IF S = {} THEN start ELSE Turn(loop, p, f[S \ {Max(S)}], Max(S))
      BY <2>1 DEF Iter
    <2> DEFINE g == [S \in SUBSET (1..k + 1) |->
                       IF S \in SUBSET (1..k) THEN f[S] ELSE Turn(loop, p, f[S \ {k + 1}], k + 1)]
    <2>3. ASSUME NEW S \in SUBSET (1..k + 1)
          PROVE  g[S] = IF S = {} THEN start ELSE Turn(loop, p, g[S \ {Max(S)}], Max(S))
      <3>1. CASE S = {}
        BY <2>2, <3>1
      <3>2. CASE S # {} /\ S \in SUBSET (1..k)
        <4>1. S \ {Max(S)} \in SUBSET (1..k)
          BY <3>2
        <4>2. g[S] = f[S] /\ g[S \ {Max(S)}] = f[S \ {Max(S)}]
          BY <3>2, <4>1
        <4> HIDE DEF g
        <4> QED
          BY <2>2, <3>2, <4>2
      <3>3. CASE S \notin SUBSET (1..k)
        <4>1. PICK x \in S : x \notin 1..k
          BY <3>3
        <4>2. x = k + 1
          BY <4>1
        <4>3. k + 1 \in Nat /\ S \subseteq 1..k + 1 /\ S # {}
          BY <4>1
        <4>7. Max(S) \in S /\ \A y \in S : y <= Max(S)
          BY <4>3, MaxIsGreatest
        <4>4. Max(S) = k + 1
          <5>1. k + 1 <= Max(S) /\ Max(S) \in 1..k + 1
            BY <4>1, <4>2, <4>3, <4>7
          <5> DEFINE m == Max(S)
          <5> HIDE DEF m
          <5>2. m = k + 1
            BY <5>1 DEF m
          <5> QED
            BY <5>2 DEF m
        <4>5. S \ {k + 1} \in SUBSET (1..k)
          OBVIOUS
        <4>6. g[S] = Turn(loop, p, f[S \ {k + 1}], k + 1) /\ g[S \ {k + 1}] = f[S \ {k + 1}]
          BY <3>3, <4>5
        <4> HIDE DEF g
        <4> QED
          BY <3>3, <4>1, <4>4, <4>6
      <3> QED
        BY <3>1, <3>2, <3>3
    <2>4. g = Iter(loop, p, start, k + 1, g)
      BY <2>3 DEF Iter
    <2>5. k + 1 \in 0..n
      OBVIOUS
    <2> QED
      BY <2>4, <2>5
  <1>3. n \in G
    <2> HIDE DEF G
    <2>1. \A k \in 0..n : k \in G
      BY <1>1, <1>2, Induction
    <2> QED
      BY <2>1
  <1> QED
    BY <1>3

\* The first k rounds.
Upto(k) == 1..k

\* Its values are the states of the loop, one round after the other.
LEMMA IterSteps ==
  ASSUME NEW loop, NEW p, NEW start, NEW n \in Nat, NEW f, f = Iter(loop, p, start, n, f)
  PROVE  \E h : /\ h[0] = start /\ f[Upto(n)] = h[n]
                /\ \A k \in 1..n : h[k] = Turn(loop, p, h[k - 1], k)
  <1>0. f[Upto(0)] = start /\ \A k \in 1..n : f[Upto(k)] = Turn(loop, p, f[Upto(k - 1)], k)
    <2>1. \A S \in SUBSET (1..n) : f[S] = IF S = {} THEN start ELSE Turn(loop, p, f[S \ {Max(S)}], Max(S))
      BY DEF Iter
    <2>2. 1..0 = {}
      OBVIOUS
    <2>3. ASSUME NEW k \in 1..n PROVE f[Upto(k)] = Turn(loop, p, f[Upto(k - 1)], k)
      <3>1. 1..k \in SUBSET (1..n) /\ k \in 1..k /\ (1..k) \ {k} = 1..(k - 1)
        OBVIOUS
      <3>2. Max(1..k) \in 1..k /\ \A y \in 1..k : y <= Max(1..k)
        BY <3>1, MaxIsGreatest
      <3>3. Max(1..k) = k
        BY <3>1, <3>2
      <3> QED
        BY <2>1, <3>1, <3>3 DEF Upto
    <2> QED
      BY <2>1, <2>2, <2>3 DEF Upto
  <1> DEFINE h == [k \in 0..n |-> f[Upto(k)]]
  <1>1. h[0] = start /\ f[Upto(n)] = h[n]
    BY <1>0
  <1>2. ASSUME NEW k \in 1..n PROVE h[k] = Turn(loop, p, h[k - 1], k)
    <2>1. k \in 0..n /\ k - 1 \in 0..n
      OBVIOUS
    <2>2. h[k] = f[Upto(k)] /\ h[k - 1] = f[Upto(k - 1)]
      BY <2>1
    <2>4. f[Upto(k)] = Turn(loop, p, f[Upto(k - 1)], k)
      BY <1>0
    <2> HIDE DEF h
    <2> QED
      BY <2>2, <2>4
  <1> QED
    BY <1>1, <1>2

\* map_range is the last of its rounds.
LEMMA MapRangeTurns ==
  ASSUME NEW pt, NEW U, NEW phys, NEW va, NEW n \in Nat, va % PAGE_SIZE = 0
  PROVE  \E h : /\ h[0] = [pt |-> pt, used |-> U, next |-> 0, state |-> "ok"]
                /\ MapRange(pt, U, phys, va, n) = h[n]
                /\ \A k \in 1..n : h[k] = MapTurn([phys |-> phys, va |-> va, n |-> n], h[k - 1])
  <1> DEFINE p == [phys |-> phys, va |-> va, n |-> n]
             start == [pt |-> pt, used |-> U, next |-> 0, state |-> "ok"]
             T(s) == IF s.next >= n \/ s.state # "ok" THEN s
                     ELSE MapStep(s, phys + s.next, va \div PAGE_SIZE + s.next, n - s.next)
             B(f) == [S \in SUBSET (1..n) |-> IF S = {} THEN start ELSE T(f[S \ {Max(S)}])]
  <1>1. MapRange(pt, U, phys, va, n) = (CHOOSE f : f = B(f))[1..n]
    BY DEF MapRange, FoldLeft, MapThenFoldSet
  <1>2. \A s, k : T(s) = Turn("map", p, s, k) /\ MapTurn(p, s) = Turn("map", p, s, k)
    BY DEF Turn, MapTurn
  <1> HIDE DEF T, p, start
  <1>3. \A f : B(f) = Iter("map", p, start, n, f)
    BY <1>2 DEF Iter
  <1>4. PICK g : g = Iter("map", p, start, n, g)
    BY IterExists
  <1> DEFINE f0 == CHOOSE f : f = B(f)
  <1>5. f0 = B(f0)
    <2>1. g = B(g)
      BY <1>3, <1>4
    <2> HIDE DEF B
    <2> QED
      BY <2>1
  <1> HIDE DEF f0, B
  <1>6. f0 = Iter("map", p, start, n, f0)
    BY <1>3, <1>5
  <1>7. PICK h : /\ h[0] = start /\ f0[Upto(n)] = h[n]
                 /\ \A k \in 1..n : h[k] = Turn("map", p, h[k - 1], k)
    BY <1>6, IterSteps
  <1>8. \A k \in 1..n : h[k] = MapTurn(p, h[k - 1])
    BY <1>2, <1>7
  <1> QED
    BY <1>1, <1>7, <1>8 DEF Upto, f0, p, start

\* unmap_range is the last of its rounds.
LEMMA UnmapRangeTurns ==
  ASSUME NEW pt, NEW va, NEW n \in Nat
  PROVE  \E h : /\ h[0] = [pt |-> pt, next |-> 0, regions |-> {}, state |-> "ok"]
                /\ UnmapRange(pt, va, n) = h[n]
                /\ \A k \in 1..n : h[k] = UnmapTurn([va |-> va, n |-> n], h[k - 1])
  <1> DEFINE p == [va |-> va, n |-> n]
             start == [pt |-> pt, next |-> 0, regions |-> {}, state |-> "ok"]
             T(s) ==
               LET v == va \div PAGE_SIZE + s.next
                   l == WalkLevel(s.pt, v)
                   e == EntryAt(l, v)
               IN  IF s.next >= n \/ s.state # "ok" THEN s
                   ELSE IF l = 0 THEN [s EXCEPT !.state = "panic"]
                   ELSE [s EXCEPT !.pt = Restrict(@, DOMAIN @ \ {e}), !.next = @ + Span(l),
                                  !.regions = @ \cup (IF e \notin DOMAIN s.pt THEN {}
                                                      ELSE {PagesFrom(s.pt[e].page, Span(l))})]
             B(f) == [S \in SUBSET (1..n) |-> IF S = {} THEN start ELSE T(f[S \ {Max(S)}])]
  <1>1. UnmapRange(pt, va, n) = (CHOOSE f : f = B(f))[1..n]
    BY DEF UnmapRange, FoldLeft, MapThenFoldSet
  <1>2. \A s, k : T(s) = Turn("unmap", p, s, k) /\ UnmapTurn(p, s) = Turn("unmap", p, s, k)
    BY DEF Turn, UnmapTurn
  <1> HIDE DEF T, p, start
  <1>3. \A f : B(f) = Iter("unmap", p, start, n, f)
    BY <1>2 DEF Iter
  <1>4. PICK g : g = Iter("unmap", p, start, n, g)
    BY IterExists
  <1> DEFINE f0 == CHOOSE f : f = B(f)
  <1>5. f0 = B(f0)
    <2>1. g = B(g)
      BY <1>3, <1>4
    <2> HIDE DEF B
    <2> QED
      BY <2>1
  <1> HIDE DEF f0, B
  <1>6. f0 = Iter("unmap", p, start, n, f0)
    BY <1>3, <1>5
  <1>7. PICK h : /\ h[0] = start /\ f0[Upto(n)] = h[n]
                 /\ \A k \in 1..n : h[k] = Turn("unmap", p, h[k - 1], k)
    BY <1>6, IterSteps
  <1>8. \A k \in 1..n : h[k] = UnmapTurn(p, h[k - 1])
    BY <1>2, <1>7
  <1> QED
    BY <1>1, <1>7, <1>8 DEF Upto, f0, p, start

\* The loop of alloc_memory is the last of its rounds.
LEMMA AllocLoopTurns ==
  ASSUME NEW start, NEW n \in Nat
  PROVE  \E h : /\ h[0] = start
                /\ AllocLoop(start, n) = h[n]
                /\ \A k \in 1..n : h[k] = AllocTurn([n |-> n], h[k - 1])
  <1> DEFINE p == [n |-> n]
             T(t) ==
               LET q == TryAllocContig(t.used, n - t.off)
                   r == MapRange(t.pt, t.used \cup PagesFrom(q.base, q.count), q.base,
                                 t.addr + Bytes(t.off), q.count)
               IN  IF t.off >= n \/ t.state # "ok" THEN t
                   ELSE IF ~q.ok THEN [t EXCEPT !.state = "error"]
                   ELSE [t EXCEPT !.used = r.used, !.pt = r.pt, !.state = r.state, !.off = @ + q.count]
             B(f) == [S \in SUBSET (1..n) |-> IF S = {} THEN start ELSE T(f[S \ {Max(S)}])]
  <1>1. AllocLoop(start, n) = (CHOOSE f : f = B(f))[1..n]
    BY DEF AllocLoop, FoldLeft, MapThenFoldSet
  <1>2. \A s, k : T(s) = Turn("alloc", p, s, k) /\ AllocTurn(p, s) = Turn("alloc", p, s, k)
    BY DEF Turn, AllocTurn
  <1> HIDE DEF T, p
  <1>3. \A f : B(f) = Iter("alloc", p, start, n, f)
    BY <1>2 DEF Iter
  <1>4. PICK g : g = Iter("alloc", p, start, n, g)
    BY IterExists
  <1> DEFINE f0 == CHOOSE f : f = B(f)
  <1>5. f0 = B(f0)
    <2>1. g = B(g)
      BY <1>3, <1>4
    <2> HIDE DEF B
    <2> QED
      BY <2>1
  <1> HIDE DEF f0, B
  <1>6. f0 = Iter("alloc", p, start, n, f0)
    BY <1>3, <1>5
  <1>7. PICK h : /\ h[0] = start /\ f0[Upto(n)] = h[n]
                 /\ \A k \in 1..n : h[k] = Turn("alloc", p, h[k - 1], k)
    BY <1>6, IterSteps
  <1>8. \A k \in 1..n : h[k] = AllocTurn(p, h[k - 1])
    BY <1>2, <1>7
  <1> QED
    BY <1>1, <1>7, <1>8 DEF Upto, f0, p

\* Loading a binary is loading its segments one after the other.
LEMMA LoadBinaryTurns ==
  ASSUME NEW file, NEW top
  PROVE  \E h : /\ h[0] = [mem |-> [file EXCEPT !.used = @ \cup {top.base}], pt |-> NoEntries,
                            list |-> NewList(PAGE_SIZE, VaPages)]
                /\ LoadBinary(file, top) = h[Len(Segments)]
                /\ \A k \in 1..Len(Segments) : h[k] = LoadSegment(h[k - 1], Segments[k])
  <1> DEFINE p == 0
             n == Len(Segments)
             start == [mem |-> [file EXCEPT !.used = @ \cup {top.base}], pt |-> NoEntries,
                       list |-> NewList(PAGE_SIZE, VaPages)]
             T(s, k) == LoadSegment(s, Segments[k])
             B(f) == [S \in SUBSET (1..n) |-> IF S = {} THEN start ELSE T(f[S \ {Max(S)}], Max(S))]
  <1>9. n \in Nat /\ DOMAIN Segments = 1..n
    BY AddressSpaceAssumption
  <1>1. LoadBinary(file, top) = (CHOOSE f : f = B(f))[1..n]
    BY <1>9 DEF LoadBinary, FoldLeft, MapThenFoldSet
  <1>2. \A s, k : T(s, k) = Turn("load", p, s, k) /\ LoadSegment(s, Segments[k]) = Turn("load", p, s, k)
    BY DEF Turn
  <1> HIDE DEF T, p, start, n
  <1>3. \A f : B(f) = Iter("load", p, start, n, f)
    BY <1>2 DEF Iter
  <1>4. PICK g : g = Iter("load", p, start, n, g)
    BY <1>9, IterExists
  <1> DEFINE f0 == CHOOSE f : f = B(f)
  <1>5. f0 = B(f0)
    <2>1. g = B(g)
      BY <1>3, <1>4
    <2> HIDE DEF B
    <2> QED
      BY <2>1
  <1> HIDE DEF f0, B
  <1>6. f0 = Iter("load", p, start, n, f0)
    BY <1>3, <1>5
  <1>7. PICK h : /\ h[0] = start /\ f0[Upto(n)] = h[n]
                 /\ \A k \in 1..n : h[k] = Turn("load", p, h[k - 1], k)
    BY <1>6, <1>9, IterSteps
  <1>8. \A k \in 1..n : h[k] = LoadSegment(h[k - 1], Segments[k])
    BY <1>2, <1>7
  <1> QED
    BY <1>1, <1>7, <1>8 DEF Upto, f0, p, start, n

-----------------------------------------------------------------------------
(* Entries of page tables. *)

\* An entry of a table: its level, and its number among the entries of that level.
Entry == (0..3) \X Nat

\* The entry that points to the table in which e stands.
Parent(e) == <<e[1] - 1, e[2] \div Fan>>

\* A table is a tree: an entry is reached through tables.
PtOK(pt) ==
  /\ DOMAIN pt \subseteq Entry
  /\ \A e \in DOMAIN pt :
       /\ pt[e].kind \in {"table", "map"} /\ pt[e].page \in Pages
       /\ pt[e].kind = "table" => e[1] < 3
       /\ pt[e].kind = "map" => e[1] > 0
       /\ e[1] > 0 => IsTable(pt, Parent(e))

\* The spans of the levels.
LEMMA SpanFacts ==
  /\ \A l \in 0..3 : Span(l) \in Nat \ {0}
  /\ Span(3) = 1
  /\ \A l \in 1..3 : Span(l - 1) = Fan * Span(l)
  <1>1. Fan \in Nat \ {0}
    BY PageTablesAssumption
  <1>2. Fan * Fan \in Nat \ {0} /\ Fan * Fan * Fan \in Nat \ {0}
    BY <1>1
  <1>3. Span(0) = Fan * Fan * Fan /\ Span(1) = Fan * Fan /\ Span(2) = Fan /\ Span(3) = 1
    BY DEF Span
  <1>4. Fan * (Fan * Fan) = Fan * Fan * Fan /\ Fan * 1 = Fan
    BY <1>1
  <1>5. \A l \in 0..3 : l = 0 \/ l = 1 \/ l = 2 \/ l = 3
    OBVIOUS
  <1>6. \A l \in 0..3 : Span(l) \in Nat \ {0}
    BY <1>1, <1>2, <1>3, <1>5
  <1>7. \A l \in 1..3 : (l = 1 /\ l - 1 = 0) \/ (l = 2 /\ l - 1 = 1) \/ (l = 3 /\ l - 1 = 2)
    OBVIOUS
  <1>8. \A l \in 1..3 : Span(l - 1) = Fan * Span(l)
    BY <1>3, <1>4, <1>7
  <1> QED
    BY <1>3, <1>6, <1>8

\* A quotient of a quotient.
LEMMA NestedDivision ==
  ASSUME NEW x \in Nat, NEW f \in Nat \ {0}, NEW s \in Nat \ {0}
  PROVE  (x \div s) \div f = x \div (f * s)
  OBVIOUS

\* The entry of a page at one level lies under the one of the level above.
LEMMA EntryFacts ==
  ASSUME NEW l \in 0..3, NEW v \in Nat
  PROVE  /\ EntryAt(l, v) \in Entry /\ EntryAt(l, v)[1] = l /\ EntryAt(l, v)[2] = v \div Span(l)
         /\ l > 0 => Parent(EntryAt(l, v)) = EntryAt(l - 1, v)
  <1>1. Span(l) \in Nat \ {0} /\ Fan \in Nat \ {0}
    BY SpanFacts, PageTablesAssumption
  <1>2. v \div Span(l) \in Nat
    BY <1>1
  <1>3. ASSUME l > 0 PROVE Parent(EntryAt(l, v)) = EntryAt(l - 1, v)
    <2>1. Span(l - 1) = Fan * Span(l)
      BY <1>3, SpanFacts
    <2>2. (v \div Span(l)) \div Fan = v \div (Fan * Span(l))
      BY <1>1, NestedDivision
    <2> QED
      BY <2>1, <2>2 DEF Parent, EntryAt
  <1> QED
    BY <1>2, <1>3 DEF EntryAt, Entry

\* The minimum of a set of naturals is its least element.
LEMMA MinIsLeast ==
  ASSUME NEW N, N \subseteq Nat, N # {}
  PROVE  Min(N) \in N /\ \A j \in N : Min(N) <= j
  BY LeastElement DEF Min

\* Below the level at which a walk ends there are no entries, above it tables.
LEMMA WalkFacts ==
  ASSUME NEW pt, PtOK(pt), NEW v \in Nat
  PROVE  /\ WalkLevel(pt, v) \in 0..3
         /\ ~IsTable(pt, EntryAt(WalkLevel(pt, v), v))
         /\ \A l \in 0..3 : l < WalkLevel(pt, v) => IsTable(pt, EntryAt(l, v))
         /\ \A l \in 0..3 : l > WalkLevel(pt, v) => EntryAt(l, v) \notin DOMAIN pt
  <1> DEFINE N == {l \in 0..3 : ~IsTable(pt, EntryAt(l, v))}
             top == WalkLevel(pt, v)
  <1>1. 3 \in N
    BY EntryFacts DEF PtOK, IsTable
  <1>2. N \subseteq Nat
    OBVIOUS
  <1>3. top = Min(N)
    BY DEF WalkLevel
  <1>4. Min(N) \in N /\ \A j \in N : Min(N) <= j
    <2> HIDE DEF N
    <2> QED
      BY <1>1, <1>2, MinIsLeast
  <1> HIDE DEF top
  <1>5. top \in 0..3 /\ ~IsTable(pt, EntryAt(top, v))
    BY <1>3, <1>4
  <1>6. \A l \in 0..3 : l < top => IsTable(pt, EntryAt(l, v))
    <2> TAKE l \in 0..3
    <2>1. ASSUME l < top, ~IsTable(pt, EntryAt(l, v)) PROVE FALSE
      <3>1. l \in N
        BY <2>1
      <3>2. top <= l
        BY <3>1, <1>3, <1>4
      <3> QED
        BY <2>1, <3>2, <1>5
    <2> QED
      BY <2>1
  <1> HIDE DEF N
  <1>7. \A l \in 0..3 : l > 0 /\ EntryAt(l, v) \in DOMAIN pt => IsTable(pt, EntryAt(l - 1, v))
    BY EntryFacts DEF PtOK
  <1>8. \A l \in 0..3 : IsTable(pt, EntryAt(l, v)) => EntryAt(l, v) \in DOMAIN pt
    BY DEF IsTable
  <1> DEFINE D(l) == EntryAt(l, v) \in DOMAIN pt
             T(l) == IsTable(pt, EntryAt(l, v))
  <1>9. \A l \in 0..3 : (l > 0 /\ D(l) => T(l - 1)) /\ (T(l) => D(l))
    BY <1>7, <1>8
  <1>10. ~T(top)
    BY <1>5
  <1> HIDE DEF D, T
  <1>11. \A l \in 0..3 : l > top => ~D(l)
    <2>1. (D(1) => T(0)) /\ (D(2) => T(1)) /\ (D(3) => T(2)) /\ (T(1) => D(1)) /\ (T(2) => D(2))
      BY <1>9
    <2>2. \A l \in 0..3 : l = 0 \/ l = 1 \/ l = 2 \/ l = 3
      OBVIOUS
    <2> QED
      BY <2>1, <2>2, <1>5, <1>10
  <1> QED
    BY <1>5, <1>6, <1>11 DEF D, top

-----------------------------------------------------------------------------
(* The bitmap of physical pages. *)

\* Memory is finite, and so is the part of it that is free.
LEMMA PagesFinite ==
  ASSUME NEW U
  PROVE  IsFiniteSet(Pages \ U) /\ Cardinality(Pages \ U) \in Nat /\ Pages \ U \subseteq Nat /\ IsFiniteSet(Pages)
  <1>1. 0 \in Int /\ PageCount - 1 \in Int
    BY PhysicalMemoryAssumption
  <1>2. IsFiniteSet(Pages)
    BY <1>1, FS_Interval DEF Pages
  <1>3. IsFiniteSet(Pages \ U)
    BY <1>2, FS_Subset
  <1>4. Cardinality(Pages \ U) \in Nat
    BY <1>3, FS_CardinalityType
  <1> QED
    BY <1>2, <1>3, <1>4, <1>1 DEF Pages

\* In a finite set of numbers there is one with any smaller number below it.
LEMMA NthExists ==
  ASSUME NEW F, F \subseteq Nat, IsFiniteSet(F), NEW k \in Nat, k + 1 <= Cardinality(F)
  PROVE  \E p \in F : Cardinality({q \in F : q < p}) = k
  <1> DEFINE Below(p) == {q \in F : q < p}
             Above(p) == {q \in F : q > p}
             n == Cardinality(F) - 1
             G == {j \in 0..n : \E p \in F : Cardinality(Below(p)) = j}
  <1>1. Cardinality(F) \in Nat
    BY FS_CardinalityType
  <1>2. n \in Nat /\ k \in 0..n
    BY <1>1
  <1>3. F # {}
    <2>1. Cardinality({}) = 0
      BY FS_EmptySet
    <2> QED
      BY <2>1
  <1>4. 0 \in G
    <2>1. PICK p \in F : \A q \in F : p <= q
      BY <1>3, LeastElement
    <2>2. Below(p) = {}
      <3>1. ASSUME NEW q \in Below(p) PROVE FALSE
        <4>1. q \in F /\ q < p /\ q \in Nat /\ p \in Nat
          OBVIOUS
        <4> QED
          BY <2>1, <4>1
      <3> HIDE DEF Below
      <3> QED
        BY <3>1
    <2>3. Cardinality(Below(p)) = 0
      BY <2>2, FS_EmptySet
    <2>4. 0 \in 0..n
      BY <1>2
    <2> HIDE DEF Below
    <2> QED
      BY <2>3, <2>4
  <1>5. ASSUME NEW j \in 0..(n - 1), j \in G PROVE j + 1 \in G
    <2>1. PICK p \in F : Cardinality(Below(p)) = j
      BY <1>5
    <2>2. IsFiniteSet(Below(p)) /\ p \notin Below(p)
      BY FS_Subset
    <2>3. Cardinality(Below(p) \cup {p}) = j + 1 /\ IsFiniteSet(Below(p) \cup {p})
      BY <2>1, <2>2, FS_AddElement
    <2>4. Above(p) # {}
      <3>1. F = (Below(p) \cup {p}) \cup Above(p)
        <4>1. \A q \in F : q \in Nat /\ p \in Nat /\ (q < p \/ q = p \/ q > p)
          OBVIOUS
        <4> QED
          BY <4>1
      <3>2. ASSUME Above(p) = {} PROVE FALSE
        <4>1. F = Below(p) \cup {p}
          BY <3>1, <3>2
        <4>2. Cardinality(F) = j + 1
          BY <2>3, <4>1
        <4> QED
          BY <4>2, <1>1
      <3> QED
        BY <3>2
    <2>5. PICK r \in Above(p) : \A q \in Above(p) : r <= q
      <3>1. Above(p) \subseteq Nat
        OBVIOUS
      <3> HIDE DEF Above
      <3> QED
        BY <2>4, <3>1, LeastElement
    <2>6. r \in F /\ r > p
      BY <2>5
    <2>7. Below(r) = Below(p) \cup {p}
      <3>1. ASSUME NEW q \in Below(r) PROVE q \in Below(p) \cup {p}
        <4>1. q \in F /\ q < r /\ q \in Nat /\ r \in Nat /\ p \in Nat
          BY <2>6
        <4>2. ~(q > p)
          BY <2>5, <4>1
        <4> QED
          BY <4>1, <4>2
      <3>2. ASSUME NEW q \in Below(p) \cup {p} PROVE q \in Below(r)
        BY <2>6
      <3> QED
        BY <3>1, <3>2
    <2>8. Cardinality(Below(r)) = j + 1
      BY <2>3, <2>7
    <2>9. j + 1 \in 0..n
      BY <1>2
    <2> QED
      BY <2>6, <2>8, <2>9
  <1>6. k \in G
    <2> HIDE DEF G, n
    <2>1. \A j \in 0..n : j \in G
      BY <1>2, <1>4, <1>5, Induction
    <2> QED
      BY <1>2, <2>1
  <1> QED
    BY <1>6

\* alloc, called again and again, returns different clear pages.
LEMMA NthFreeFacts ==
  ASSUME NEW U
  PROVE  /\ \A k \in 1..Cardinality(Pages \ U) : NthFree(U, k) \in Pages \ U
         /\ \A j, k \in 1..Cardinality(Pages \ U) : NthFree(U, j) = NthFree(U, k) => j = k
  <1> DEFINE F == Pages \ U
             Rank(p) == Cardinality({q \in F : q < p})
  <1>1. IsFiniteSet(F) /\ Cardinality(F) \in Nat /\ F \subseteq Nat
    BY PagesFinite
  <1>2. ASSUME NEW k \in 1..Cardinality(F) PROVE NthFree(U, k) \in F /\ Rank(NthFree(U, k)) = k - 1
    <2>1. k - 1 \in Nat /\ (k - 1) + 1 <= Cardinality(F)
      BY <1>1
    <2>2. \E p \in F : Rank(p) = k - 1
      <3> HIDE DEF F
      <3> QED
        BY <1>1, <2>1, NthExists
    <2>3. NthFree(U, k) = CHOOSE p \in F : Rank(p) = k - 1
      BY DEF NthFree
    <2> HIDE DEF F, Rank
    <2> QED
      BY <2>2, <2>3
  <1> HIDE DEF Rank
  <1>3. ASSUME NEW j \in 1..Cardinality(F), NEW k \in 1..Cardinality(F), NthFree(U, j) = NthFree(U, k)
        PROVE  j = k
    <2>1. j - 1 = k - 1
      BY <1>2, <1>3
    <2> QED
      BY <1>1, <2>1
  <1> QED
    BY <1>2, <1>3

\* alloc_contig returns clear pages of the memory.
LEMMA AllocContigFacts ==
  ASSUME NEW U, NEW n \in Nat \ {0}, AllocContig(U, n).ok
  PROVE  LET p == AllocContig(U, n)
         IN  /\ p.base \in Pages /\ p.count = n
             /\ PagesFrom(p.base, n) \subseteq Pages \ U
  <1> DEFINE starts == {p \in Pages : PagesFrom(p, n) \subseteq Pages \ U}
  <1>1. starts # {}
    BY DEF AllocContig, Failed
  <1>2. starts \subseteq Nat
    BY PhysicalMemoryAssumption DEF Pages
  <1>3. AllocContig(U, n) = [ok |-> TRUE, base |-> Min(starts), count |-> n]
    BY <1>1 DEF AllocContig, Granted
  <1>4. Min(starts) \in starts
    <2> HIDE DEF starts
    <2> QED
      BY <1>1, <1>2, MinIsLeast
  <1> QED
    BY <1>3, <1>4

\* try_alloc_contig returns at most n clear pages of the memory, and some.
LEMMA TryAllocContigFacts ==
  ASSUME NEW U, U \subseteq Pages, NEW n \in Nat \ {0}, TryAllocContig(U, n).ok
  PROVE  LET p == TryAllocContig(U, n)
         IN  /\ p.base \in Pages /\ p.count \in 1..n
             /\ PagesFrom(p.base, p.count) \subseteq Pages \ U
  <1> DEFINE F == Pages \ U
             b == Min(F)
             taken == U \cap PagesFrom(b, n)
             m == Min(taken)
  <1>0. PageCount \in Nat \ {0} /\ Pages = 0..PageCount - 1 /\ Pages \subseteq Nat
    BY PhysicalMemoryAssumption DEF Pages
  <1>1. PageCount \in Nat \ {0} /\ Pages = 0..PageCount - 1 /\ F \subseteq Nat /\ taken \subseteq Nat
    <2>1. F \subseteq Pages /\ taken \subseteq Pages
      OBVIOUS
    <2> HIDE DEF F, taken
    <2> QED
      BY <1>0, <2>1
  <1>2. F # {}
    BY DEF TryAllocContig, Failed
  <1>3. b \in F
    <2> HIDE DEF F
    <2> QED
      BY <1>1, <1>2, MinIsLeast
  <1> HIDE DEF b
  <1>4. CASE taken # {}
    <2>1. m \in taken /\ \A j \in taken : m <= j
      <3> HIDE DEF taken
      <3> QED
        BY <1>1, <1>4, MinIsLeast
    <2>2. TryAllocContig(U, n) = [ok |-> TRUE, base |-> b, count |-> m - b]
      BY <1>2, <1>4 DEF TryAllocContig, Granted, b
    <2> HIDE DEF m
    <2>3. m \in b..b + n - 1 /\ m \in U /\ b \in Nat /\ m \in Nat /\ m < PageCount
      BY <1>1, <1>3, <2>1 DEF PagesFrom
    <2>4. m # b
      BY <1>3, <2>3
    <2>5. m - b \in 1..n
      BY <2>3, <2>4
    <2>6. ASSUME NEW x \in PagesFrom(b, m - b) PROVE x \in Pages \ U
      <3>1. x \in b..m - 1 /\ x \in Nat
        BY <2>3, <2>5 DEF PagesFrom
      <3>2. x \in Pages
        BY <1>1, <2>3, <3>1
      <3>3. x \in PagesFrom(b, n)
        BY <2>3, <3>1 DEF PagesFrom
      <3>4. x \notin taken
        BY <2>1, <2>3, <3>1
      <3> QED
        BY <3>2, <3>3, <3>4
    <2> QED
      BY <1>3, <2>2, <2>5, <2>6
  <1>5. CASE taken = {}
    <2>1. TryAllocContig(U, n) = IF b + n <= PageCount THEN [ok |-> TRUE, base |-> b, count |-> n] ELSE [ok |-> FALSE]
      BY <1>2, <1>5 DEF TryAllocContig, Granted, Failed, b
    <2>2. b + n <= PageCount /\ TryAllocContig(U, n) = [ok |-> TRUE, base |-> b, count |-> n]
      BY <2>1
    <2>3. ASSUME NEW x \in PagesFrom(b, n) PROVE x \in Pages \ U
      BY <1>1, <1>3, <1>5, <2>2 DEF PagesFrom
    <2> QED
      BY <1>3, <2>2, <2>3
  <1> QED
    BY <1>4, <1>5

-----------------------------------------------------------------------------
(* map_range. *)

\* The state of map_range.
IsMapState(s) ==
  s = [pt |-> s.pt, used |-> s.used, next |-> s.next, state |-> s.state]

\* A round adds tables of pages that were clear and the entries X, which map
\* phys; nothing else changes.
Extended(s, r, phys, X) ==
  /\ PtOK(r.pt) /\ s.used \subseteq r.used /\ r.used \subseteq Pages
  /\ DOMAIN s.pt \subseteq DOMAIN r.pt
  /\ \A e \in DOMAIN s.pt \ X : r.pt[e] = s.pt[e]
  /\ \A e \in DOMAIN r.pt \ (X \cup DOMAIN s.pt) :
       r.pt[e].kind = "table" /\ r.pt[e].page \in r.used \ s.used
  /\ \A e, f \in DOMAIN r.pt \ (X \cup DOMAIN s.pt) : r.pt[e].page = r.pt[f].page => e = f
  /\ \A p \in r.used \ s.used : \E e \in DOMAIN r.pt \ (X \cup DOMAIN s.pt) : r.pt[e].page = p
  /\ \A e \in X : /\ e \in DOMAIN r.pt /\ r.pt[e] = [kind |-> "map", page |-> phys]
                  /\ e \in DOMAIN s.pt => e[1] = 3 /\ s.pt[e].kind = "map"

\* The table with new entries has these, and the old ones elsewhere.
LEMMA MergeFacts ==
  ASSUME NEW f, NEW g
  PROVE  /\ DOMAIN WithEntries(f, g) = DOMAIN f \cup DOMAIN g
         /\ \A x \in DOMAIN f : WithEntries(f, g)[x] = f[x]
         /\ \A x \in DOMAIN g : x \notin DOMAIN f => WithEntries(f, g)[x] = g[x]
  BY DEF WithEntries

\* r is s with m tables for page v written from level top on, and the entries X.
Written(s, r, phys, v, top, m, leaf, new, X) ==
  /\ top \in 0..3 /\ top = WalkLevel(s.pt, v) /\ m \in Nat /\ leaf \in 1..3 /\ top + m <= leaf
  /\ top < 3 => EntryAt(top, v) \notin DOMAIN s.pt
  /\ \A l \in top..(top + m - 1) : new[l] \in Pages \ s.used
  /\ \A j, l \in top..(top + m - 1) : new[j] = new[l] => j = l
  /\ X = {} \/ (X = {EntryAt(leaf, v)} /\ top + m = leaf)
  /\ r.used = s.used \cup {new[l] : l \in top..(top + m - 1)}
  /\ DOMAIN r.pt = X \cup {EntryAt(l, v) : l \in top..(top + m - 1)} \cup DOMAIN s.pt
  /\ \A e \in X : r.pt[e] = [kind |-> "map", page |-> phys]
  /\ \A l \in top..(top + m - 1) : r.pt[EntryAt(l, v)] = [kind |-> "table", page |-> new[l]]
  /\ \A e \in DOMAIN s.pt \ (X \cup {EntryAt(l, v) : l \in top..(top + m - 1)}) : r.pt[e] = s.pt[e]

\* Writing the entries of a mapping only adds tables and one mapping.
LEMMA WrittenExtends ==
  ASSUME NEW s, PtOK(s.pt), s.used \subseteq Pages, NEW phys \in Pages, NEW v \in Nat,
         NEW r, NEW top, NEW m, NEW leaf, NEW new, NEW X, Written(s, r, phys, v, top, m, leaf, new, X)
  PROVE  Extended(s, r, phys, X)
  <1> USE DEF Written
  <1> DEFINE L == top..(top + m - 1)
             D == {EntryAt(l, v) : l \in L}
  <1>1. \A l \in L : l \in 0..3 /\ l < leaf /\ l < 3
    OBVIOUS
  <1>2. \A l \in L : /\ EntryAt(l, v) \in Entry /\ EntryAt(l, v)[1] = l
                     /\ l > 0 => Parent(EntryAt(l, v)) = EntryAt(l - 1, v)
    BY <1>1, EntryFacts
  <1>3. /\ ~IsTable(s.pt, EntryAt(top, v))
        /\ \A l \in 0..3 : l < top => IsTable(s.pt, EntryAt(l, v))
        /\ \A l \in 0..3 : l > top => EntryAt(l, v) \notin DOMAIN s.pt
    BY WalkFacts
  <1>4. \A l \in L : EntryAt(l, v) \notin DOMAIN s.pt
    <2> TAKE l \in L
    <2>1. CASE l = top
      BY <1>1, <2>1
    <2>2. CASE l # top
      <3>1. l > top /\ l \in 0..3
        BY <2>2, <1>1
      <3> QED
        BY <1>3, <3>1
    <2> QED
      BY <2>1, <2>2
  <1>5. D \cap DOMAIN s.pt = {}
    BY <1>4
  <1>6. \A e \in X : /\ e = EntryAt(leaf, v) /\ e \in Entry /\ e[1] = leaf
                     /\ Parent(e) = EntryAt(leaf - 1, v)
    BY EntryFacts
  <1>7. X \cap D = {}
    <2>1. ASSUME NEW e \in X, NEW l \in L, e = EntryAt(l, v) PROVE FALSE
      <3>1. e[1] = leaf /\ e[1] = l
        BY <1>2, <1>6, <2>1
      <3> QED
        BY <1>1, <3>1
    <2> HIDE DEF L
    <2> QED
      BY <2>1
  <1>21. \A l \in L : r.pt[EntryAt(l, v)].kind = "table" /\ r.pt[EntryAt(l, v)].page = new[l]
    <2> TAKE l \in L
    <2>1. r.pt[EntryAt(l, v)] = [kind |-> "table", page |-> new[l]]
      OBVIOUS
    <2> QED
      BY <2>1
  <1>8. ASSUME NEW e \in X, e \in DOMAIN s.pt PROVE e[1] = 3 /\ s.pt[e].kind = "map"
    <2>1. ~(leaf > top)
      BY <1>3, <1>6, <1>8
    <2>2. leaf = top
      BY <2>1
    <2>3. top = 3
      BY <1>6, <1>8, <2>2
    <2>4. s.pt[e].kind # "table"
      BY <1>3, <1>6, <1>8, <2>2 DEF IsTable
    <2> QED
      BY <1>6, <1>8, <2>2, <2>3, <2>4 DEF PtOK
  <1>9. \A e \in DOMAIN s.pt \ X : r.pt[e] = s.pt[e]
    BY <1>5
  <1>10. \A e \in DOMAIN r.pt \ (X \cup DOMAIN s.pt) : \E l \in L : e = EntryAt(l, v)
    OBVIOUS
  <1>11. \A l \in L : EntryAt(l, v) \in DOMAIN r.pt \ (X \cup DOMAIN s.pt)
    BY <1>5, <1>7
  <1>12. \A e : IsTable(s.pt, e) => IsTable(r.pt, e)
    <2> SUFFICES ASSUME NEW e, IsTable(s.pt, e) PROVE IsTable(r.pt, e)
      OBVIOUS
    <2>1. e \in DOMAIN s.pt /\ s.pt[e].kind = "table"
      BY DEF IsTable
    <2>2. e \notin X
      BY <1>8, <2>1
    <2> QED
      BY <1>9, <2>1, <2>2 DEF IsTable
  <1>13. \A l \in L : IsTable(r.pt, EntryAt(l, v))
    BY <1>11, <1>21 DEF IsTable
  <1>14. ASSUME NEW l \in 0..3, l < top + m PROVE IsTable(r.pt, EntryAt(l, v))
    <2>1. CASE l < top
      BY <1>3, <1>12, <2>1
    <2>2. CASE l >= top
      <3>1. l \in L
        BY <1>14, <2>2
      <3> QED
        BY <1>13, <3>1
    <2> QED
      BY <2>1, <2>2
  <1>15. PtOK(r.pt)
    <2> SUFFICES ASSUME NEW e \in DOMAIN r.pt
                 PROVE  /\ e \in Entry
                        /\ r.pt[e].kind \in {"table", "map"} /\ r.pt[e].page \in Pages
                        /\ r.pt[e].kind = "table" => e[1] < 3
                        /\ r.pt[e].kind = "map" => e[1] > 0
                        /\ e[1] > 0 => IsTable(r.pt, Parent(e))
      BY DEF PtOK
    <2>1. CASE e \in X
      <3>1. e[1] = leaf /\ e \in Entry /\ Parent(e) = EntryAt(leaf - 1, v)
        BY <1>6, <2>1
      <3>2. leaf - 1 \in 0..3 /\ leaf - 1 < top + m
        BY <2>1
      <3>3. IsTable(r.pt, EntryAt(leaf - 1, v))
        BY <1>14, <3>2
      <3>4. r.pt[e].kind = "map" /\ r.pt[e].page = phys
        BY <2>1
      <3> QED
        BY <3>1, <3>3, <3>4
    <2>2. CASE e \in DOMAIN s.pt \ X
      <3>1. r.pt[e] = s.pt[e]
        BY <1>9, <2>2
      <3> QED
        BY <1>12, <2>2, <3>1 DEF PtOK
    <2>3. CASE e \notin X \cup DOMAIN s.pt
      <3>1. PICK l \in L : e = EntryAt(l, v)
        BY <1>10, <2>3
      <3>2. r.pt[e].kind = "table" /\ r.pt[e].page = new[l] /\ new[l] \in Pages
        BY <1>21, <3>1
      <3>3. e \in Entry /\ e[1] = l /\ l < 3 /\ (l > 0 => Parent(e) = EntryAt(l - 1, v))
        BY <1>1, <1>2, <3>1
      <3>4. l > 0 => IsTable(r.pt, EntryAt(l - 1, v))
        BY <1>14
      <3> QED
        BY <3>2, <3>3, <3>4
    <2> QED
      BY <2>1, <2>2, <2>3
  <1>16. s.used \subseteq r.used /\ r.used \subseteq Pages /\ DOMAIN s.pt \subseteq DOMAIN r.pt
    OBVIOUS
  <1>17. ASSUME NEW e \in DOMAIN r.pt \ (X \cup DOMAIN s.pt)
         PROVE  r.pt[e].kind = "table" /\ r.pt[e].page \in r.used \ s.used
    <2>1. PICK l \in L : e = EntryAt(l, v)
      BY <1>10
    <2>2. r.pt[e].kind = "table" /\ r.pt[e].page = new[l]
      BY <1>21, <2>1
    <2>3. new[l] \in r.used \ s.used
      OBVIOUS
    <2> QED
      BY <2>2, <2>3
  <1>18. ASSUME NEW e \in DOMAIN r.pt \ (X \cup DOMAIN s.pt), NEW f \in DOMAIN r.pt \ (X \cup DOMAIN s.pt),
                r.pt[e].page = r.pt[f].page
         PROVE  e = f
    <2>1. PICK l \in L : e = EntryAt(l, v)
      BY <1>10
    <2>2. PICK j \in L : f = EntryAt(j, v)
      BY <1>10
    <2>3. new[j] = new[l]
      BY <1>18, <1>21, <2>1, <2>2
    <2> QED
      BY <2>1, <2>2, <2>3
  <1>19. ASSUME NEW p \in r.used \ s.used
         PROVE  \E e \in DOMAIN r.pt \ (X \cup DOMAIN s.pt) : r.pt[e].page = p
    <2>1. PICK l \in L : p = new[l]
      OBVIOUS
    <2>2. r.pt[EntryAt(l, v)].page = p
      BY <1>21, <2>1
    <2> QED
      BY <1>11, <2>2
  <1>20. \A e \in X : e \in DOMAIN r.pt /\ r.pt[e] = [kind |-> "map", page |-> phys]
    OBVIOUS
  <1> HIDE DEF L, D
  <1> QED
    BY <1>8, <1>9, <1>15, <1>16, <1>17, <1>18, <1>19, <1>20 DEF Extended

\* A round maps pages, finds no page for a table, or meets a block.
LEMMA MapStepFacts ==
  ASSUME NEW s, IsMapState(s), PtOK(s.pt), s.used \subseteq Pages, s.state = "ok",
         NEW phys \in Pages, NEW v \in Nat, NEW left \in Nat \ {0}
  PROVE  LET r == MapStep(s, phys, v, left)
         IN  /\ IsMapState(r)
             /\ \/ r.state = "panic" /\ r.pt = s.pt /\ r.used = s.used /\ r.next = s.next
                \/ r.state = "error" /\ r.next = s.next /\ Extended(s, r, phys, {})
                \/ \E l \in 1..3 : /\ r.state = "ok" /\ r.next = s.next + Span(l)
                                   /\ Span(l) <= left /\ v % Span(l) = 0
                                   /\ Extended(s, r, phys, {EntryAt(l, v)})
  <1> DEFINE top == WalkLevel(s.pt, v)
             N == {l \in top..3 : l = 3 \/ BlockFits(l, phys, v, left)}
             leaf == Min(N)
             avail == Cardinality(Pages \ s.used)
             m == IF leaf - top <= avail THEN leaf - top ELSE avail
             new == [l \in top .. top + m - 1 |-> NthFree(s.used, l - top + 1)]
             tables == [e \in {EntryAt(l, v) : l \in DOMAIN new} |-> table_desc(new[e[1]])]
             U == s.used \cup {new[l] : l \in DOMAIN new}
             one == [e \in {EntryAt(leaf, v)} |-> map_entry(phys)]
             r == MapStep(s, phys, v, left)
  <1>1. r = IF top < 3 /\ EntryAt(top, v) \in DOMAIN s.pt THEN [s EXCEPT !.state = "panic"]
            ELSE IF m < leaf - top
              THEN [s EXCEPT !.pt = WithEntries(tables, @), !.used = U, !.state = "error"]
            ELSE [s EXCEPT !.pt = WithEntries(one, WithEntries(tables, @)),
                           !.used = U, !.next = @ + Span(leaf)]
    BY DEF MapStep
  <1> HIDE DEF r
  <1>2. top \in 0..3 /\ top = WalkLevel(s.pt, v)
    BY WalkFacts
  <1>3. leaf \in N
    <2>1. 3 \in N /\ N \subseteq Nat
      BY <1>2
    <2> HIDE DEF N
    <2> QED
      BY <2>1, MinIsLeast
  <1>4. leaf \in 1..3 /\ leaf >= top /\ Span(leaf) <= left /\ v % Span(leaf) = 0
    <2>1. leaf \in top..3 /\ (leaf = 3 \/ BlockFits(leaf, phys, v, left))
      BY <1>3
    <2> HIDE DEF leaf
    <2>2. CASE leaf = 3
      <3>1. Span(leaf) = 1 /\ v % 1 = 0
        BY <2>2, SpanFacts
      <3> QED
        BY <1>2, <2>2, <3>1
    <2>3. CASE BlockFits(leaf, phys, v, left)
      <3>1. leaf \in 1..3 /\ Span(leaf) \in Nat
        BY <2>3, SpanFacts DEF BlockFits
      <3> QED
        BY <1>2, <2>1, <2>3, <3>1 DEF BlockFits
    <2> QED
      BY <2>1, <2>2, <2>3
  <1>5. avail \in Nat
    BY PagesFinite
  <1> HIDE DEF top, N, leaf, avail
  <1>6. m \in Nat /\ m <= avail /\ top + m <= leaf
    BY <1>2, <1>4, <1>5
  <1>7. m < leaf - top \/ top + m = leaf
    BY <1>2, <1>4, <1>5
  <1> HIDE DEF m
  <1> DEFINE L == top..(top + m - 1)
  <1>8. DOMAIN new = L
    OBVIOUS
  <1>9. \A l \in L : l \in 0..3 /\ l - top + 1 \in 1..avail /\ new[l] = NthFree(s.used, l - top + 1)
    BY <1>2, <1>4, <1>5, <1>6
  <1> HIDE DEF new
  <1>10. \A l \in L : new[l] \in Pages \ s.used
    BY <1>9, NthFreeFacts DEF avail
  <1>11. ASSUME NEW j \in L, NEW l \in L, new[j] = new[l] PROVE j = l
    <2>1. j - top + 1 = l - top + 1
      BY <1>9, <1>11, NthFreeFacts DEF avail
    <2> QED
      BY <1>2, <1>9, <2>1
  <1>12. DOMAIN tables = {EntryAt(l, v) : l \in L}
    BY <1>8
  <1>13. ASSUME NEW l \in L PROVE tables[EntryAt(l, v)] = [kind |-> "table", page |-> new[l]]
    <2>1. EntryAt(l, v)[1] = l
      BY <1>9, EntryFacts
    <2>2. EntryAt(l, v) \in DOMAIN tables
      BY <1>12
    <2> QED
      BY <2>1, <2>2 DEF table_desc
  <1>14. U = s.used \cup {new[l] : l \in L}
    BY <1>8
  <1>15. DOMAIN one = {EntryAt(leaf, v)} /\ one[EntryAt(leaf, v)] = [kind |-> "map", page |-> phys]
    BY DEF map_entry
  <1> HIDE DEF U, tables, one
  <1>16. CASE top < 3 /\ EntryAt(top, v) \in DOMAIN s.pt
    <2>1. r = [s EXCEPT !.state = "panic"]
      BY <1>1, <1>16
    <2>2. r = [pt |-> s.pt, used |-> s.used, next |-> s.next, state |-> "panic"]
      BY <2>1 DEF IsMapState
    <2>3. IsMapState(r) /\ r.state = "panic" /\ r.pt = s.pt /\ r.used = s.used /\ r.next = s.next
      BY <2>2 DEF IsMapState
    <2> QED
      BY <2>3 DEF r
  <1>17. CASE ~(top < 3 /\ EntryAt(top, v) \in DOMAIN s.pt) /\ m < leaf - top
    <2>1. r = [s EXCEPT !.pt = WithEntries(tables, @), !.used = U, !.state = "error"]
      BY <1>1, <1>17
    <2>2. r = [pt |-> WithEntries(tables, s.pt), used |-> U, next |-> s.next, state |-> "error"]
      BY <2>1 DEF IsMapState
    <2>3. r.pt = WithEntries(tables, s.pt) /\ r.used = U /\ r.next = s.next /\ r.state = "error" /\ IsMapState(r)
      BY <2>2 DEF IsMapState
    <2>4. /\ DOMAIN r.pt = {EntryAt(l, v) : l \in L} \cup DOMAIN s.pt
          /\ \A l \in L : r.pt[EntryAt(l, v)] = [kind |-> "table", page |-> new[l]]
          /\ \A e \in DOMAIN s.pt \ {EntryAt(l, v) : l \in L} : r.pt[e] = s.pt[e]
      <3>1. /\ DOMAIN WithEntries(tables, s.pt) = DOMAIN tables \cup DOMAIN s.pt
            /\ \A x \in DOMAIN tables : WithEntries(tables, s.pt)[x] = tables[x]
            /\ \A x \in DOMAIN s.pt : x \notin DOMAIN tables => WithEntries(tables, s.pt)[x] = s.pt[x]
        BY MergeFacts
      <3> QED
        BY <1>12, <1>13, <2>3, <3>1
    <2>5. Extended(s, r, phys, {})
      <3>1. Written(s, r, phys, v, top, m, leaf, new, {})
        BY <1>2, <1>4, <1>6, <1>10, <1>11, <1>14, <1>17, <2>3, <2>4 DEF Written
      <3> QED
        BY <3>1, WrittenExtends
    <2> QED
      BY <2>3, <2>5 DEF r
  <1>18. CASE ~(top < 3 /\ EntryAt(top, v) \in DOMAIN s.pt) /\ ~(m < leaf - top)
    <2> DEFINE w == WithEntries(tables, s.pt)
               X == {EntryAt(leaf, v)}
    <2>1. r = [s EXCEPT !.pt = WithEntries(one, WithEntries(tables, @)), !.used = U, !.next = @ + Span(leaf)]
      BY <1>1, <1>18
    <2>2. r = [pt |-> WithEntries(one, w), used |-> U, next |-> s.next + Span(leaf), state |-> s.state]
      BY <2>1 DEF IsMapState
    <2>3. /\ r.pt = WithEntries(one, w) /\ r.used = U /\ r.next = s.next + Span(leaf) /\ r.state = "ok"
          /\ IsMapState(r)
      BY <2>2 DEF IsMapState
    <2>4. /\ DOMAIN w = {EntryAt(l, v) : l \in L} \cup DOMAIN s.pt
          /\ \A l \in L : w[EntryAt(l, v)] = [kind |-> "table", page |-> new[l]]
          /\ \A e \in DOMAIN s.pt \ {EntryAt(l, v) : l \in L} : w[e] = s.pt[e]
      <3>1. /\ DOMAIN WithEntries(tables, s.pt) = DOMAIN tables \cup DOMAIN s.pt
            /\ \A x \in DOMAIN tables : WithEntries(tables, s.pt)[x] = tables[x]
            /\ \A x \in DOMAIN s.pt : x \notin DOMAIN tables => WithEntries(tables, s.pt)[x] = s.pt[x]
        BY MergeFacts
      <3> QED
        BY <1>12, <1>13, <3>1
    <2> HIDE DEF w
    <2>5. \A l \in L : EntryAt(l, v) \notin X
      <3> TAKE l \in L
      <3>1. l \in 0..3 /\ l < leaf /\ leaf \in 0..3
        BY <1>2, <1>4, <1>6
      <3>2. EntryAt(l, v)[1] = l /\ EntryAt(leaf, v)[1] = leaf
        BY <3>1, EntryFacts
      <3> QED
        BY <3>1, <3>2
    <2>6. /\ DOMAIN r.pt = X \cup {EntryAt(l, v) : l \in L} \cup DOMAIN s.pt
          /\ \A e \in X : r.pt[e] = [kind |-> "map", page |-> phys]
          /\ \A l \in L : r.pt[EntryAt(l, v)] = [kind |-> "table", page |-> new[l]]
          /\ \A e \in DOMAIN s.pt \ (X \cup {EntryAt(l, v) : l \in L}) : r.pt[e] = s.pt[e]
      <3>1. /\ DOMAIN WithEntries(one, w) = DOMAIN one \cup DOMAIN w
            /\ \A x \in DOMAIN one : WithEntries(one, w)[x] = one[x]
            /\ \A x \in DOMAIN w : x \notin DOMAIN one => WithEntries(one, w)[x] = w[x]
        BY MergeFacts
      <3> QED
        BY <1>15, <2>3, <2>4, <2>5, <3>1
    <2>7. X = {EntryAt(leaf, v)} /\ top + m = leaf
      BY <1>7, <1>18
    <2> HIDE DEF X
    <2>8. Extended(s, r, phys, X)
      <3>1. Written(s, r, phys, v, top, m, leaf, new, X)
        BY <1>2, <1>4, <1>6, <1>10, <1>11, <1>14, <1>18, <2>3, <2>6, <2>7 DEF Written
      <3> QED
        BY <3>1, WrittenExtends
    <2> QED
      BY <1>4, <2>3, <2>7, <2>8 DEF r
  <1> QED
    BY <1>16, <1>17, <1>18

\* The pages under an entry.
LEMMA CoverFacts ==
  ASSUME NEW e \in Entry, NEW w \in Nat
  PROVE  /\ BaseOf(e) \in Nat /\ Span(e[1]) \in Nat \ {0}
         /\ e = EntryAt(e[1], w) <=> BaseOf(e) <= w /\ w < BaseOf(e) + Span(e[1])
  <1> DEFINE l == e[1]
             i == e[2]
             c == Span(l)
  <1>1. l \in 0..3 /\ i \in Nat /\ e = <<l, i>> /\ c \in Nat \ {0}
    BY SpanFacts DEF Entry
  <1>2. BaseOf(e) = i * c
    BY DEF BaseOf
  <1>3. EntryAt(l, w) = <<l, w \div c>>
    BY DEF EntryAt
  <1> HIDE DEF l, i, c
  <1>4. i * c \in Nat
    BY <1>1
  <1>5. w = (w \div c) * c + (w % c) /\ w % c \in 0..(c - 1) /\ w \div c \in Int
    BY <1>1, DivisionExists
  <1>6. ASSUME i = w \div c PROVE i * c <= w /\ w < i * c + c
    BY <1>1, <1>5, <1>6
  <1>7. ASSUME i * c <= w, w < i * c + c PROVE i = w \div c
    <2> DEFINE d == w - i * c
    <2>1. d \in 0..(c - 1) /\ w = i * c + d
      BY <1>1, <1>4, <1>7
    <2> HIDE DEF d
    <2>2. (i * c + d) \div c = i
      BY <1>1, <2>1, DivisionUnique
    <2> QED
      BY <2>1, <2>2
  <1>8. e = EntryAt(l, w) <=> i = w \div c
    BY <1>1, <1>3
  <1> QED
    BY <1>1, <1>2, <1>4, <1>6, <1>7, <1>8 DEF l, c

\* A page is under one mapping at most, the one where the walk ends.
LEMMA CoverUnique ==
  ASSUME NEW pt, PtOK(pt), NEW w \in Nat, NEW e \in Maps(pt), e = EntryAt(e[1], w)
  PROVE  e[1] = WalkLevel(pt, w) /\ e = EntryAt(WalkLevel(pt, w), w)
  <1>1. e \in DOMAIN pt /\ pt[e].kind = "map" /\ e[1] \in 0..3
    BY DEF Maps, PtOK, Entry
  <1>2. ~(e[1] > WalkLevel(pt, w))
    BY <1>1, WalkFacts
  <1>3. ~(e[1] < WalkLevel(pt, w))
    BY <1>1, WalkFacts DEF IsTable
  <1>4. WalkLevel(pt, w) \in 0..3
    BY WalkFacts
  <1>5. e[1] = WalkLevel(pt, w)
    BY <1>1, <1>2, <1>3, <1>4
  <1> QED
    BY <1>5

\* The entry maps pages of a range at their place, up to the k-th.
NewMap(pt, e, phys, v0, k) ==
  /\ e \in Maps(pt) /\ v0 <= BaseOf(e) /\ BaseOf(e) + Span(e[1]) <= v0 + k
  /\ pt[e].page = phys + (BaseOf(e) - v0)

\* What map_range has done when s.next pages are mapped: tables of clear pages
\* and mappings of these pages are added, and only pages are mapped anew.
MapLoop(pt, U, phys, v0, n, s) ==
  /\ IsMapState(s) /\ s.state \in {"ok", "error", "panic"} /\ s.next \in 0..n
  /\ PtOK(s.pt) /\ U \subseteq s.used /\ s.used \subseteq Pages
  /\ \A e \in DOMAIN pt : e \in DOMAIN s.pt /\ (s.pt[e] = pt[e] \/ (e[1] = 3 /\ pt[e].kind = "map" /\ NewMap(s.pt, e, phys, v0, s.next)))
  /\ \A e \in DOMAIN s.pt \ DOMAIN pt :
       \/ s.pt[e].kind = "table" /\ s.pt[e].page \in s.used \ U
       \/ NewMap(s.pt, e, phys, v0, s.next)
  /\ \A e, f \in DOMAIN s.pt \ DOMAIN pt :
       s.pt[e].kind = "table" /\ s.pt[f].kind = "table" /\ s.pt[e].page = s.pt[f].page => e = f
  /\ \A p \in s.used \ U : \E e \in DOMAIN s.pt \ DOMAIN pt : s.pt[e].kind = "table" /\ s.pt[e].page = p
  /\ \A i \in 0..(s.next - 1) : \E e \in Maps(s.pt) : NewMap(s.pt, e, phys, v0, s.next) /\ e = EntryAt(e[1], v0 + i)

\* map_range starts with nothing mapped.
LEMMA MapStartFacts ==
  ASSUME NEW pt, PtOK(pt), NEW U, U \subseteq Pages, NEW phys, NEW v0, NEW n \in Nat, NEW state \in {"ok", "error"}
  PROVE  MapLoop(pt, U, phys, v0, n, [pt |-> pt, used |-> U, next |-> 0, state |-> state])
  <1> DEFINE s == [pt |-> pt, used |-> U, next |-> 0, state |-> state]
  <1>1. s.pt = pt /\ s.used = U /\ s.next = 0 /\ s.state = state /\ IsMapState(s)
    BY DEF IsMapState
  <1> HIDE DEF s
  <1>2. 0..(s.next - 1) = {}
    BY <1>1
  <1>3. s.next \in 0..n
    BY <1>1
  <1> QED
    BY <1>1, <1>2, <1>3 DEF MapLoop, s

\* One more page of the range at most: a mapping stays one.
LEMMA NewMapMore ==
  ASSUME NEW pt, NEW q, PtOK(pt), NEW phys, NEW v0 \in Nat, NEW k \in Nat, NEW j \in Nat, k <= j,
         NEW e, NewMap(pt, e, phys, v0, k), e \in DOMAIN q, q[e] = pt[e]
  PROVE  NewMap(q, e, phys, v0, j)
  <1>1. e \in Entry /\ e \in Maps(q)
    BY DEF NewMap, Maps, PtOK
  <1>2. BaseOf(e) \in Nat /\ Span(e[1]) \in Nat
    BY <1>1, CoverFacts
  <1>3. v0 <= BaseOf(e) /\ BaseOf(e) + Span(e[1]) <= v0 + k
    BY DEF NewMap
  <1>4. BaseOf(e) + Span(e[1]) <= v0 + j
    BY <1>2, <1>3
  <1> QED
    BY <1>1, <1>3, <1>4 DEF NewMap

\* The next entry of the range.
LEMMA NextEntry ==
  ASSUME NEW l \in 1..3, NEW v \in Nat, v % Span(l) = 0
  PROVE  /\ EntryAt(l, v) \in Entry /\ EntryAt(l, v)[1] = l /\ BaseOf(EntryAt(l, v)) = v
         /\ Span(l) \in Nat \ {0}
  <1>1. EntryAt(l, v) \in Entry /\ EntryAt(l, v)[1] = l /\ EntryAt(l, v)[2] = v \div Span(l)
    BY EntryFacts
  <1>2. Span(l) \in Nat \ {0}
    BY SpanFacts
  <1>3. v = (v \div Span(l)) * Span(l) + (v % Span(l)) /\ v \div Span(l) \in Int
    BY <1>2, DivisionExists
  <1>4. v = (v \div Span(l)) * Span(l)
    BY <1>2, <1>3
  <1> QED
    BY <1>1, <1>2, <1>4 DEF BaseOf

\* A round of map_range maps at least one page more, or fails.
LEMMA MapTurnFacts ==
  ASSUME NEW pt, NEW U, NEW phys \in Nat, NEW va \in Nat, NEW n \in Nat, PagesFrom(phys, n) \subseteq Pages,
         NEW s, MapLoop(pt, U, phys, va \div PAGE_SIZE, n, s)
  PROVE  LET r == MapTurn([phys |-> phys, va |-> va, n |-> n], s)
         IN  /\ MapLoop(pt, U, phys, va \div PAGE_SIZE, n, r)
             /\ r.state = "ok" => s.state = "ok" /\ (r.next >= s.next + 1 \/ s.next = n)
             /\ s.next = n => r = s
  <1> DEFINE v0 == va \div PAGE_SIZE
             p == [phys |-> phys, va |-> va, n |-> n]
             r == MapTurn(p, s)
             v == v0 + s.next
             ph == phys + s.next
             left == n - s.next
  <1>1. r = IF s.next >= n \/ s.state # "ok" THEN s ELSE MapStep(s, ph, v, left)
    BY DEF MapTurn
  <1>2. v0 \in Nat
    BY PageSizeAssumption
  <1> HIDE DEF r, v0
  <1>3. s.next \in 0..n /\ IsMapState(s) /\ PtOK(s.pt) /\ s.used \subseteq Pages /\ U \subseteq s.used
    BY DEF MapLoop
  <1>4. CASE s.next >= n \/ s.state # "ok"
    <2>1. r = s
      BY <1>1, <1>4
    <2> QED
      BY <1>3, <1>4, <2>1 DEF r, v0
  <1>5. CASE ~(s.next >= n \/ s.state # "ok")
    <2>1. s.state = "ok" /\ ph \in Pages /\ v \in Nat /\ left \in Nat \ {0} /\ r = MapStep(s, ph, v, left)
      <3>1. ph \in PagesFrom(phys, n)
        BY <1>3, <1>5 DEF PagesFrom
      <3> QED
        BY <1>1, <1>2, <1>3, <1>5, <3>1
    <2>2. /\ IsMapState(r)
          /\ \/ r.state = "panic" /\ r.pt = s.pt /\ r.used = s.used /\ r.next = s.next
             \/ r.state = "error" /\ r.next = s.next /\ Extended(s, r, ph, {})
             \/ \E l \in 1..3 : /\ r.state = "ok" /\ r.next = s.next + Span(l)
                                /\ Span(l) <= left /\ v % Span(l) = 0
                                /\ Extended(s, r, ph, {EntryAt(l, v)})
      <3> HIDE DEF v, ph, left
      <3> QED
        BY <1>3, <2>1, MapStepFacts
    <2>3. CASE r.state = "panic" /\ r.pt = s.pt /\ r.used = s.used /\ r.next = s.next
      <3>1. MapLoop(pt, U, phys, v0, n, r)
        BY <2>2, <2>3 DEF MapLoop, v0
      <3> QED
        BY <3>1, <2>3, <1>3, <1>5 DEF r, v0
    <2>4. ASSUME NEW X, Extended(s, r, ph, X), r.state \in {"ok", "error"}, r.next \in 0..n, s.next <= r.next,
                 \A e \in X : NewMap(r.pt, e, phys, v0, r.next),
                 \A i \in s.next..(r.next - 1) : \E e \in X : e = EntryAt(e[1], v0 + i)
          PROVE  MapLoop(pt, U, phys, v0, n, r)
      <3>1. /\ PtOK(r.pt) /\ s.used \subseteq r.used /\ r.used \subseteq Pages
            /\ DOMAIN s.pt \subseteq DOMAIN r.pt
            /\ \A e \in DOMAIN s.pt \ X : r.pt[e] = s.pt[e]
            /\ \A e \in DOMAIN r.pt \ (X \cup DOMAIN s.pt) :
                 r.pt[e].kind = "table" /\ r.pt[e].page \in r.used \ s.used
            /\ \A e, f \in DOMAIN r.pt \ (X \cup DOMAIN s.pt) : r.pt[e].page = r.pt[f].page => e = f
            /\ \A q \in r.used \ s.used : \E e \in DOMAIN r.pt \ (X \cup DOMAIN s.pt) : r.pt[e].page = q
        BY <2>4 DEF Extended
      <3>2. \A e \in X : /\ e \in DOMAIN r.pt /\ NewMap(r.pt, e, phys, v0, r.next)
                         /\ r.pt[e].kind = "map"
                         /\ e \in DOMAIN s.pt => e[1] = 3 /\ s.pt[e].kind = "map"
        BY <2>4 DEF Extended, NewMap, Maps
      <3>3. \A e \in DOMAIN s.pt \ X : NewMap(s.pt, e, phys, v0, s.next) => NewMap(r.pt, e, phys, v0, r.next)
        <4> TAKE e \in DOMAIN s.pt \ X
        <4>1. e \in DOMAIN r.pt /\ r.pt[e] = s.pt[e] /\ s.next \in Nat /\ r.next \in Nat
          BY <1>3, <2>4, <3>1
        <4> QED
          BY <1>2, <1>3, <2>4, <4>1, NewMapMore
      <3>4. ASSUME NEW e \in DOMAIN pt
            PROVE  /\ e \in DOMAIN r.pt
                   /\ r.pt[e] = pt[e] \/ (e[1] = 3 /\ pt[e].kind = "map" /\ NewMap(r.pt, e, phys, v0, r.next))
        <4>1. /\ e \in DOMAIN s.pt
              /\ s.pt[e] = pt[e] \/ (e[1] = 3 /\ pt[e].kind = "map" /\ NewMap(s.pt, e, phys, v0, s.next))
          BY DEF MapLoop, v0
        <4>2. CASE e \in X
          <5>1. e[1] = 3 /\ s.pt[e].kind = "map" /\ NewMap(r.pt, e, phys, v0, r.next) /\ e \in DOMAIN r.pt
            BY <3>2, <4>1, <4>2
          <5> QED
            BY <4>1, <5>1
        <4>3. CASE e \notin X
          BY <3>1, <3>3, <4>1, <4>3
        <4> QED
          BY <4>2, <4>3
      <3>5. ASSUME NEW e \in DOMAIN r.pt \ DOMAIN pt
            PROVE  \/ r.pt[e].kind = "table" /\ r.pt[e].page \in r.used \ U
                   \/ NewMap(r.pt, e, phys, v0, r.next)
        <4>1. CASE e \in X
          BY <3>2, <4>1
        <4>2. CASE e \in DOMAIN s.pt \ X
          <5>1. \/ s.pt[e].kind = "table" /\ s.pt[e].page \in s.used \ U
                \/ NewMap(s.pt, e, phys, v0, s.next)
            BY <4>2 DEF MapLoop, v0
          <5> QED
            BY <3>1, <3>3, <4>2, <5>1
        <4>3. CASE e \notin X \cup DOMAIN s.pt
          BY <1>3, <3>1, <4>3
        <4> QED
          BY <4>1, <4>2, <4>3
      <3>6. ASSUME NEW e \in DOMAIN r.pt \ DOMAIN pt, NEW f \in DOMAIN r.pt \ DOMAIN pt,
                   r.pt[e].kind = "table", r.pt[f].kind = "table", r.pt[e].page = r.pt[f].page
            PROVE  e = f
        <4>1. e \notin X /\ f \notin X
          BY <3>2, <3>6
        <4>2. ASSUME NEW x \in DOMAIN s.pt \ DOMAIN pt, x \notin X, r.pt[x].kind = "table"
              PROVE  s.pt[x].kind = "table" /\ s.pt[x] = r.pt[x] /\ r.pt[x].page \in s.used
          <5>1. s.pt[x] = r.pt[x]
            BY <3>1, <4>2
          <5>2. \/ s.pt[x].kind = "table" /\ s.pt[x].page \in s.used \ U
                \/ NewMap(s.pt, x, phys, v0, s.next)
            BY DEF MapLoop, v0
          <5>3. ~NewMap(s.pt, x, phys, v0, s.next)
            BY <4>2, <5>1 DEF NewMap, Maps
          <5> QED
            BY <5>1, <5>2, <5>3
        <4>3. CASE e \in DOMAIN s.pt /\ f \in DOMAIN s.pt
          <5>1. /\ s.pt[e].kind = "table" /\ s.pt[f].kind = "table" /\ s.pt[e].page = s.pt[f].page
            BY <3>6, <4>1, <4>2, <4>3
          <5> QED
            BY <4>3, <5>1 DEF MapLoop
        <4>4. CASE e \in DOMAIN s.pt /\ f \notin DOMAIN s.pt
          BY <3>1, <3>6, <4>1, <4>2, <4>4
        <4>5. CASE e \notin DOMAIN s.pt /\ f \in DOMAIN s.pt
          BY <3>1, <3>6, <4>1, <4>2, <4>5
        <4>6. CASE e \notin DOMAIN s.pt /\ f \notin DOMAIN s.pt
          BY <3>1, <3>6, <4>1, <4>6
        <4> QED
          BY <4>3, <4>4, <4>5, <4>6
      <3>7. ASSUME NEW q \in r.used \ U
            PROVE  \E e \in DOMAIN r.pt \ DOMAIN pt : r.pt[e].kind = "table" /\ r.pt[e].page = q
        <4>1. DOMAIN pt \subseteq DOMAIN s.pt
          BY DEF MapLoop
        <4>2. CASE q \in s.used
          <5>1. PICK e \in DOMAIN s.pt \ DOMAIN pt : s.pt[e].kind = "table" /\ s.pt[e].page = q
            BY <4>2 DEF MapLoop
          <5>2. e \notin X
            BY <3>2, <5>1
          <5> QED
            BY <3>1, <5>1, <5>2
        <4>3. CASE q \notin s.used
          <5>1. PICK e \in DOMAIN r.pt \ (X \cup DOMAIN s.pt) : r.pt[e].page = q
            BY <3>1, <4>3
          <5>2. r.pt[e].kind = "table" /\ e \notin DOMAIN pt
            BY <3>1, <4>1, <5>1
          <5> QED
            BY <5>1, <5>2
        <4> QED
          BY <4>2, <4>3
      <3>8. ASSUME NEW i \in 0..(r.next - 1)
            PROVE  \E e \in Maps(r.pt) : NewMap(r.pt, e, phys, v0, r.next) /\ e = EntryAt(e[1], v0 + i)
        <4>1. CASE i < s.next
          <5>1. i \in 0..(s.next - 1)
            BY <1>3, <4>1
          <5>2. PICK e \in Maps(s.pt) : NewMap(s.pt, e, phys, v0, s.next) /\ e = EntryAt(e[1], v0 + i)
            BY <5>1 DEF MapLoop, v0
          <5>3. NewMap(r.pt, e, phys, v0, r.next)
            <6>1. CASE e \in X
              BY <3>2, <6>1
            <6>2. CASE e \notin X
              BY <3>3, <5>2, <6>2 DEF Maps
            <6> QED
              BY <6>1, <6>2
          <5> QED
            BY <5>2, <5>3 DEF NewMap
        <4>2. CASE ~(i < s.next)
          <5>1. i \in s.next..(r.next - 1)
            BY <1>3, <2>4, <4>2
          <5>2. PICK e \in X : e = EntryAt(e[1], v0 + i)
            BY <2>4, <5>1
          <5> QED
            BY <3>2, <5>2 DEF NewMap
        <4> QED
          BY <4>1, <4>2
      <3> QED
        BY <1>3, <2>2, <2>4, <3>1, <3>4, <3>5, <3>6, <3>7, <3>8 DEF MapLoop, v0
    <2>5. CASE r.state = "error" /\ r.next = s.next /\ Extended(s, r, ph, {})
      <3>1. \A i \in s.next..(r.next - 1) : FALSE
        BY <1>3, <2>5
      <3>2. MapLoop(pt, U, phys, v0, n, r)
        BY <1>3, <2>4, <2>5, <3>1
      <3> QED
        BY <3>2, <2>5, <1>3, <1>5 DEF r, v0
    <2>6. ASSUME NEW l \in 1..3, r.state = "ok", r.next = s.next + Span(l), Span(l) <= left, v % Span(l) = 0,
                 Extended(s, r, ph, {EntryAt(l, v)})
          PROVE  MapLoop(pt, U, phys, v0, n, r) /\ r.next >= s.next + 1
      <3> DEFINE e0 == EntryAt(l, v)
      <3>1. e0 \in Entry /\ e0[1] = l /\ BaseOf(e0) = v /\ Span(l) \in Nat \ {0}
        <4> HIDE DEF v
        <4> QED
          BY <2>1, <2>6, NextEntry
      <3>2. r.next \in 0..n /\ s.next <= r.next /\ r.next >= s.next + 1
        BY <1>3, <2>6, <3>1
      <3>3. /\ e0 \in DOMAIN r.pt /\ r.pt[e0].kind = "map" /\ r.pt[e0].page = ph
            /\ e0 \in DOMAIN s.pt => e0[1] = 3 /\ s.pt[e0].kind = "map"
        BY <2>6 DEF Extended
      <3> HIDE DEF e0
      <3>4. NewMap(r.pt, e0, phys, v0, r.next)
        <4>1. v0 <= v /\ v + Span(l) <= v0 + r.next /\ ph = phys + (v - v0)
          BY <1>2, <1>3, <2>6, <3>1
        <4> QED
          BY <3>1, <3>3, <4>1 DEF NewMap, Maps
      <3>5. ASSUME e0 \in Maps(pt) PROVE e0[1] = 3
        <4>1. e0 \in DOMAIN s.pt
          BY <3>5 DEF MapLoop, Maps
        <4> QED
          BY <3>3, <4>1
      <3>6. ASSUME NEW i \in s.next..(r.next - 1) PROVE e0 = EntryAt(e0[1], v0 + i)
        <4>1. v0 + i \in Nat /\ v <= v0 + i /\ v0 + i < v + Span(l)
          BY <1>2, <1>3, <2>6, <3>1
        <4> QED
          BY <3>1, <4>1, CoverFacts
      <3>7. MapLoop(pt, U, phys, v0, n, r)
        <4> DEFINE X == {e0}
        <4>1. Extended(s, r, ph, X)
          BY <2>6 DEF e0
        <4>2. \A e \in X : NewMap(r.pt, e, phys, v0, r.next)
          BY <3>4, <3>5
        <4>3. \A i \in s.next..(r.next - 1) : \E e \in X : e = EntryAt(e[1], v0 + i)
          BY <3>6
        <4> HIDE DEF X
        <4> QED
          BY <2>4, <2>6, <3>2, <4>1, <4>2, <4>3
      <3> QED
        BY <3>2, <3>7
    <2> QED
      BY <2>1, <2>2, <2>3, <2>5, <2>6, <1>3, <1>5 DEF r, v0
  <1> QED
    BY <1>4, <1>5

\* map_range of a range of the memory.
LEMMA MapRangeFacts ==
  ASSUME NEW pt, PtOK(pt), NEW U, U \subseteq Pages, NEW phys \in Nat, NEW va \in Nat, NEW n \in Nat,
         PagesFrom(phys, n) \subseteq Pages
  PROVE  /\ MapLoop(pt, U, phys, va \div PAGE_SIZE, n, MapRange(pt, U, phys, va, n))
         /\ MapRange(pt, U, phys, va, n).state = "ok" => /\ MapRange(pt, U, phys, va, n).next = n
                                                         /\ va % PAGE_SIZE = 0
  <1> DEFINE v0 == va \div PAGE_SIZE
             start == [pt |-> pt, used |-> U, next |-> 0, state |-> "ok"]
             p == [phys |-> phys, va |-> va, n |-> n]
  <1>1. CASE va % PAGE_SIZE # 0
    <2> DEFINE s == [pt |-> pt, used |-> U, next |-> 0, state |-> "error"]
    <2>1. MapRange(pt, U, phys, va, n) = s
      BY <1>1 DEF MapRange
    <2>2. MapLoop(pt, U, phys, v0, n, s)
      <3> HIDE DEF v0
      <3> QED
        BY MapStartFacts
    <2>3. s.state = "error"
      OBVIOUS
    <2> HIDE DEF s
    <2> QED
      BY <2>1, <2>2, <2>3
  <1>2. CASE va % PAGE_SIZE = 0
    <2>1. PICK h : /\ h[0] = start
                   /\ MapRange(pt, U, phys, va, n) = h[n]
                   /\ \A k \in 1..n : h[k] = MapTurn(p, h[k - 1])
      BY <1>2, MapRangeTurns
    <2> DEFINE G == {k \in 0..n : MapLoop(pt, U, phys, v0, n, h[k]) /\ (h[k].state = "ok" => h[k].next >= k)}
    <2>2. 0 \in G
      <3>1. MapLoop(pt, U, phys, v0, n, start) /\ start.next = 0
        <4> HIDE DEF v0
        <4> QED
          BY MapStartFacts
      <3> QED
        BY <2>1, <3>1
    <2>3. ASSUME NEW k \in 0..(n - 1), k \in G PROVE k + 1 \in G
      <3>1. MapLoop(pt, U, phys, v0, n, h[k]) /\ (h[k].state = "ok" => h[k].next >= k)
        BY <2>3
      <3>2. k + 1 \in 1..n /\ (k + 1) - 1 = k
        OBVIOUS
      <3>3. h[k + 1] = MapTurn(p, h[k])
        BY <2>1, <3>2
      <3>4. /\ MapLoop(pt, U, phys, v0, n, h[k + 1])
            /\ h[k + 1].state = "ok" => h[k].state = "ok" /\ (h[k + 1].next >= h[k].next + 1 \/ h[k].next = n)
            /\ h[k].next = n => h[k + 1] = h[k]
        BY <3>1, <3>3, MapTurnFacts
      <3>5. h[k].next \in 0..n /\ h[k + 1].next \in 0..n
        BY <3>1, <3>4 DEF MapLoop
      <3>6. h[k + 1].state = "ok" => h[k + 1].next >= k + 1
        BY <3>1, <3>2, <3>4, <3>5
      <3> QED
        BY <3>2, <3>4, <3>6
    <2>4. n \in G
      <3> HIDE DEF G
      <3>1. \A k \in 0..n : k \in G
        BY <2>2, <2>3, Induction
      <3> QED
        BY <3>1
    <2>5. MapLoop(pt, U, phys, v0, n, h[n]) /\ (h[n].state = "ok" => h[n].next >= n)
      BY <2>4
    <2>6. h[n].next \in 0..n
      BY <2>5 DEF MapLoop
    <2> QED
      BY <1>2, <2>1, <2>5, <2>6
  <1> QED
    BY <1>1, <1>2

-----------------------------------------------------------------------------
(* unmap_range. *)

\* The state of unmap_range.
IsUnmapState(s) ==
  s = [pt |-> s.pt, next |-> s.next, regions |-> s.regions, state |-> s.state]

\* What unmap_range has done: mappings are dropped, each with all its pages.
UnmapLoop(pt, v0, n, s) ==
  /\ IsUnmapState(s) /\ s.state \in {"ok", "panic"} /\ s.next \in Nat
  /\ PtOK(s.pt) /\ DOMAIN s.pt \subseteq DOMAIN pt
  /\ \A e \in DOMAIN s.pt : s.pt[e] = pt[e]
  /\ \A e \in DOMAIN pt \ DOMAIN s.pt : pt[e].kind = "map" /\ \E i \in 0..(n - 1) : e = EntryAt(e[1], v0 + i)
  /\ UNION s.regions = UNION {PagesOf(pt, e) : e \in DOMAIN pt \ DOMAIN s.pt}

\* Every page of the range is mapped, by entries inside the range.
Tiled(pt, v0, n) ==
  \A i \in 0..(n - 1) : \E e \in Maps(pt) :
    e = EntryAt(e[1], v0 + i) /\ v0 <= BaseOf(e) /\ BaseOf(e) + Span(e[1]) <= v0 + n

\* The mappings of the range that are left start at s.next or after it.
UnmapAt(v0, n, s) ==
  /\ s.state = "ok" /\ s.next \in 0..n
  /\ \A e \in Maps(s.pt) : v0 <= BaseOf(e) /\ BaseOf(e) < v0 + n => v0 + s.next <= BaseOf(e)
  /\ \A i \in s.next..(n - 1) : \E e \in Maps(s.pt) :
       e = EntryAt(e[1], v0 + i) /\ v0 <= BaseOf(e) /\ BaseOf(e) + Span(e[1]) <= v0 + n

\* A table without one of its mappings.
LEMMA RestrictFacts ==
  ASSUME NEW pt, PtOK(pt), NEW e, ~IsTable(pt, e)
  PROVE  LET q == Restrict(pt, DOMAIN pt \ {e})
         IN  /\ PtOK(q) /\ DOMAIN q = DOMAIN pt \ {e} /\ \A f \in DOMAIN q : q[f] = pt[f]
             /\ e \in DOMAIN pt => pt[e].kind = "map" /\ e \in Entry /\ e[1] \in 1..3
  <1> DEFINE q == Restrict(pt, DOMAIN pt \ {e})
  <1>1. DOMAIN q = DOMAIN pt \ {e} /\ \A f \in DOMAIN q : q[f] = pt[f]
    BY DEF Restrict
  <1> HIDE DEF q
  <1>2. \A f : IsTable(pt, f) => IsTable(q, f)
    BY <1>1 DEF IsTable
  <1>3. PtOK(q)
    BY <1>1, <1>2 DEF PtOK
  <1>4. e \in DOMAIN pt => pt[e].kind = "map" /\ e \in Entry /\ e[1] \in 1..3
    BY DEF PtOK, IsTable, Entry
  <1> QED
    BY <1>1, <1>3, <1>4 DEF q

\* A round of unmap_range removes at most one entry and goes on by its pages.
LEMMA UnmapTurnFacts ==
  ASSUME NEW pt, NEW va \in Nat, NEW n \in Nat, NEW s, UnmapLoop(pt, va \div PAGE_SIZE, n, s)
  PROVE  LET r == UnmapTurn([va |-> va, n |-> n], s)
             v0 == va \div PAGE_SIZE
         IN  /\ UnmapLoop(pt, v0, n, r)
             /\ UnmapAt(v0, n, s) => UnmapAt(v0, n, r) /\ (r.next >= s.next + 1 \/ s.next = n)
  <1> DEFINE v0 == va \div PAGE_SIZE
             r == UnmapTurn([va |-> va, n |-> n], s)
             v == v0 + s.next
             l == WalkLevel(s.pt, v)
             e == EntryAt(l, v)
             q == Restrict(s.pt, DOMAIN s.pt \ {e})
             R == s.regions \cup (IF e \notin DOMAIN s.pt THEN {} ELSE {PagesFrom(s.pt[e].page, Span(l))})
  <1>1. r = IF s.next >= n \/ s.state # "ok" THEN s
            ELSE IF l = 0 THEN [s EXCEPT !.state = "panic"]
            ELSE [s EXCEPT !.pt = q, !.next = @ + Span(l), !.regions = R]
    BY DEF UnmapTurn
  <1>2. v0 \in Nat
    BY PageSizeAssumption
  <1> HIDE DEF r, v0
  <1>3. /\ IsUnmapState(s) /\ s.state \in {"ok", "panic"} /\ s.next \in Nat /\ PtOK(s.pt)
        /\ DOMAIN s.pt \subseteq DOMAIN pt /\ \A f \in DOMAIN s.pt : s.pt[f] = pt[f]
        /\ \A f \in DOMAIN pt \ DOMAIN s.pt : pt[f].kind = "map" /\ \E i \in 0..(n - 1) : f = EntryAt(f[1], v0 + i)
        /\ UNION s.regions = UNION {PagesOf(pt, f) : f \in DOMAIN pt \ DOMAIN s.pt}
    BY DEF UnmapLoop, v0
  <1>4. v \in Nat
    BY <1>2, <1>3
  <1>5. /\ l \in 0..3 /\ ~IsTable(s.pt, e) /\ e[1] = l
        /\ \A f \in Maps(s.pt) : f = EntryAt(f[1], v) => f = e
    <2> HIDE DEF v
    <2>1. l \in 0..3 /\ ~IsTable(s.pt, e)
      BY <1>3, <1>4, WalkFacts
    <2>2. e[1] = l
      BY <1>4, <2>1, EntryFacts
    <2> QED
      BY <1>3, <1>4, <2>1, <2>2, CoverUnique
  <1>6. CASE s.next >= n \/ s.state # "ok"
    <2>1. r = s
      BY <1>1, <1>6
    <2>2. UnmapAt(v0, n, s) => s.next = n
      BY <1>3, <1>6 DEF UnmapAt
    <2> QED
      BY <2>1, <2>2 DEF r, v0
  <1>7. CASE ~(s.next >= n \/ s.state # "ok") /\ l = 0
    <2>1. r = [s EXCEPT !.state = "panic"]
      BY <1>1, <1>7
    <2>2. r = [pt |-> s.pt, next |-> s.next, regions |-> s.regions, state |-> "panic"]
      BY <1>3, <2>1 DEF IsUnmapState
    <2>3. IsUnmapState(r) /\ r.pt = s.pt /\ r.next = s.next /\ r.regions = s.regions /\ r.state = "panic"
      BY <2>2 DEF IsUnmapState
    <2>4. UnmapLoop(pt, v0, n, r)
      BY <1>3, <2>3 DEF UnmapLoop
    <2>5. ASSUME UnmapAt(v0, n, s) PROVE FALSE
      <3>1. s.next \in s.next..(n - 1)
        BY <1>3, <1>7
      <3>2. PICK f \in Maps(s.pt) : f = EntryAt(f[1], v)
        BY <2>5, <3>1 DEF UnmapAt
      <3>3. f = e /\ f[1] > 0
        BY <1>3, <1>5, <3>2 DEF PtOK, Maps
      <3> QED
        BY <1>5, <1>7, <3>3
    <2> QED
      BY <2>4, <2>5 DEF r, v0
  <1>8. CASE ~(s.next >= n \/ s.state # "ok") /\ l # 0
    <2>1. r = [s EXCEPT !.pt = q, !.next = @ + Span(l), !.regions = R]
      BY <1>1, <1>8
    <2>2. r = [pt |-> q, next |-> s.next + Span(l), regions |-> R, state |-> s.state]
      BY <1>3, <2>1 DEF IsUnmapState
    <2>3. IsUnmapState(r) /\ r.pt = q /\ r.next = s.next + Span(l) /\ r.regions = R /\ r.state = "ok"
      BY <1>8, <2>2 DEF IsUnmapState
    <2>4. Span(l) \in Nat \ {0}
      BY <1>5, SpanFacts
    <2>5. /\ PtOK(q) /\ DOMAIN q = DOMAIN s.pt \ {e} /\ \A f \in DOMAIN q : q[f] = s.pt[f]
          /\ e \in DOMAIN s.pt => s.pt[e].kind = "map" /\ e \in Entry /\ e[1] \in 1..3
      <3> HIDE DEF e
      <3> QED
        BY <1>3, <1>5, RestrictFacts
    <2> HIDE DEF q
    <2>6. e = EntryAt(e[1], v0 + s.next) /\ s.next \in 0..(n - 1)
      BY <1>3, <1>5, <1>8
    <2> HIDE DEF e
    <2>7. ASSUME NEW f \in DOMAIN pt \ DOMAIN q
          PROVE  pt[f].kind = "map" /\ \E i \in 0..(n - 1) : f = EntryAt(f[1], v0 + i)
      <3>1. CASE f = e
        <4>1. e \in DOMAIN s.pt \/ e \notin DOMAIN s.pt
          OBVIOUS
        <4> QED
          BY <1>3, <2>5, <2>6, <3>1
      <3>2. CASE f # e
        BY <1>3, <2>5, <3>2
      <3> QED
        BY <3>1, <3>2
    <2>8. UNION R = UNION {PagesOf(pt, f) : f \in DOMAIN pt \ DOMAIN q}
      <3>1. CASE e \in DOMAIN s.pt
        <4>1. DOMAIN pt \ DOMAIN q = (DOMAIN pt \ DOMAIN s.pt) \cup {e}
          BY <1>3, <2>5, <3>1
        <4>2. PagesOf(pt, e) = PagesFrom(s.pt[e].page, Span(l))
          BY <1>3, <1>5, <3>1 DEF PagesOf
        <4>3. UNION R = (UNION s.regions) \cup PagesFrom(s.pt[e].page, Span(l))
          <5> DEFINE P == PagesFrom(s.pt[e].page, Span(l))
          <5>1. R = s.regions \cup {P}
            BY <3>1
          <5> HIDE DEF P, R
          <5>2. UNION R = (UNION s.regions) \cup P
            <6>1. UNION R \subseteq (UNION s.regions) \cup P
              BY <5>1
            <6>2. UNION s.regions \subseteq UNION R /\ P \subseteq UNION R
              BY <5>1
            <6> QED
              BY <6>1, <6>2
          <5> QED
            BY <5>2 DEF P
        <4> QED
          BY <1>3, <4>1, <4>2, <4>3
      <3>2. CASE e \notin DOMAIN s.pt
        <4>1. DOMAIN q = DOMAIN s.pt /\ R = s.regions
          BY <2>5, <3>2
        <4> QED
          BY <1>3, <4>1
      <3> QED
        BY <3>1, <3>2
    <2> HIDE DEF R
    <2>9. UnmapLoop(pt, v0, n, r)
      <3>1. DOMAIN r.pt \subseteq DOMAIN pt /\ \A f \in DOMAIN r.pt : r.pt[f] = pt[f]
        BY <1>3, <2>3, <2>5
      <3>2. r.next \in Nat
        BY <1>3, <2>3, <2>4
      <3> QED
        BY <2>3, <2>5, <2>7, <2>8, <3>1, <3>2 DEF UnmapLoop
    <2>10. ASSUME UnmapAt(v0, n, s) PROVE UnmapAt(v0, n, r) /\ r.next >= s.next + 1
      <3>1. s.next \in s.next..(n - 1)
        BY <1>3, <1>8
      <3>2. PICK f \in Maps(s.pt) : f = EntryAt(f[1], v) /\ v0 <= BaseOf(f) /\ BaseOf(f) + Span(f[1]) <= v0 + n
        BY <2>10, <3>1 DEF UnmapAt
      <3>3. f = e
        BY <1>5, <3>2
      <3>4. e \in Maps(s.pt) /\ e \in Entry /\ v0 <= BaseOf(e) /\ BaseOf(e) + Span(l) <= v0 + n
        BY <1>3, <1>5, <3>2, <3>3 DEF PtOK, Maps
      <3>5. BaseOf(e) \in Nat /\ BaseOf(e) <= v /\ v < BaseOf(e) + Span(l)
        BY <1>4, <1>5, <2>6, <3>4, CoverFacts
      <3>6. v0 + s.next <= BaseOf(e)
        <4>1. BaseOf(e) < v0 + n
          BY <1>2, <2>4, <3>4, <3>5
        <4> QED
          BY <2>10, <3>4, <4>1 DEF UnmapAt
      <3>7. BaseOf(e) = v /\ v + Span(l) <= v0 + n
        BY <1>4, <3>4, <3>5, <3>6
      <3>8. r.next \in 0..n /\ r.next >= s.next + 1 /\ v + Span(l) = v0 + r.next
        BY <1>2, <1>3, <2>3, <2>4, <3>7
      <3>9. \A g \in Maps(r.pt) : g \in Maps(s.pt) /\ g # e /\ g \in Entry
        BY <1>3, <2>3, <2>5 DEF Maps, PtOK
      <3>10. \A g \in Maps(s.pt) : g # e => g \in Maps(r.pt)
        BY <2>3, <2>5 DEF Maps
      <3>11. ASSUME NEW g \in Maps(r.pt), v0 <= BaseOf(g), BaseOf(g) < v0 + n PROVE v0 + r.next <= BaseOf(g)
        <4>1. g \in Maps(s.pt) /\ g # e /\ g \in Entry
          BY <3>9
        <4>2. v <= BaseOf(g) /\ BaseOf(g) \in Nat /\ Span(g[1]) \in Nat \ {0}
          BY <2>10, <3>11, <4>1, CoverFacts DEF UnmapAt
        <4>3. ASSUME BaseOf(g) < v + Span(l) PROVE FALSE
          <5> DEFINE w == BaseOf(g)
          <5>1. w \in Nat /\ BaseOf(e) <= w /\ w < BaseOf(e) + Span(l) /\ BaseOf(g) <= w /\ w < BaseOf(g) + Span(g[1])
            BY <3>7, <4>2, <4>3
          <5> HIDE DEF w
          <5>2. e = EntryAt(e[1], w) /\ g = EntryAt(g[1], w)
            BY <1>5, <3>4, <4>1, <5>1, CoverFacts
          <5>3. e = EntryAt(WalkLevel(s.pt, w), w) /\ g = EntryAt(WalkLevel(s.pt, w), w)
            BY <1>3, <3>4, <4>1, <5>1, <5>2, CoverUnique
          <5> QED
            BY <4>1, <5>3
        <4> QED
          BY <1>4, <2>4, <3>8, <4>2, <4>3
      <3>12. ASSUME NEW i \in r.next..(n - 1)
             PROVE  \E g \in Maps(r.pt) : g = EntryAt(g[1], v0 + i) /\ v0 <= BaseOf(g) /\ BaseOf(g) + Span(g[1]) <= v0 + n
        <4>1. i \in s.next..(n - 1) /\ v0 + i \in Nat /\ v + Span(l) <= v0 + i
          BY <1>2, <1>3, <3>8
        <4>2. PICK g \in Maps(s.pt) : g = EntryAt(g[1], v0 + i) /\ v0 <= BaseOf(g) /\ BaseOf(g) + Span(g[1]) <= v0 + n
          BY <2>10, <4>1 DEF UnmapAt
        <4>3. e # EntryAt(e[1], v0 + i)
          <5>1. ~(v0 + i < BaseOf(e) + Span(l))
            BY <1>4, <2>4, <3>7, <4>1
          <5> QED
            BY <1>5, <3>4, <4>1, <5>1, CoverFacts
        <4>4. g \in Maps(r.pt)
          BY <3>10, <4>2, <4>3
        <4> QED
          BY <4>2, <4>4
      <3> QED
        BY <2>3, <3>8, <3>11, <3>12 DEF UnmapAt
    <2> QED
      BY <2>9, <2>10 DEF r, v0
  <1> QED
    BY <1>6, <1>7, <1>8

\* unmap_range; a range that is mapped by entries of its own is cleared.
LEMMA UnmapRangeFacts ==
  ASSUME NEW pt, PtOK(pt), NEW va \in Nat, NEW n \in Nat
  PROVE  LET r == UnmapRange(pt, va, n)
             v0 == va \div PAGE_SIZE
         IN  /\ UnmapLoop(pt, v0, n, r)
             /\ Tiled(pt, v0, n) => UnmapAt(v0, n, r) /\ r.next = n
  <1> DEFINE v0 == va \div PAGE_SIZE
             start == [pt |-> pt, next |-> 0, regions |-> {}, state |-> "ok"]
             p == [va |-> va, n |-> n]
  <1>1. PICK h : /\ h[0] = start
                 /\ UnmapRange(pt, va, n) = h[n]
                 /\ \A k \in 1..n : h[k] = UnmapTurn(p, h[k - 1])
    BY UnmapRangeTurns
  <1>2. v0 \in Nat
    BY PageSizeAssumption
  <1> DEFINE G == {k \in 0..n : /\ UnmapLoop(pt, v0, n, h[k])
                                /\ Tiled(pt, v0, n) => UnmapAt(v0, n, h[k]) /\ h[k].next >= k}
  <1>3. 0 \in G
    <2>1. /\ IsUnmapState(start) /\ start.pt = pt /\ start.next = 0 /\ start.regions = {} /\ start.state = "ok"
      BY DEF IsUnmapState
    <2> HIDE DEF start, v0
    <2>2. UNION start.regions = UNION {PagesOf(pt, e) : e \in DOMAIN pt \ DOMAIN start.pt}
      BY <2>1
    <2>3. UnmapLoop(pt, v0, n, start)
      BY <2>1, <2>2 DEF UnmapLoop
    <2>4. ASSUME Tiled(pt, v0, n) PROVE UnmapAt(v0, n, start) /\ start.next >= 0
      <3>1. \A e \in Maps(pt) : BaseOf(e) \in Nat
        BY CoverFacts DEF Maps, PtOK
      <3> QED
        BY <1>2, <2>1, <2>4, <3>1 DEF UnmapAt, Tiled
    <2> QED
      BY <1>1, <2>3, <2>4
  <1>4. ASSUME NEW k \in 0..(n - 1), k \in G PROVE k + 1 \in G
    <2>1. k + 1 \in 1..n /\ (k + 1) - 1 = k
      OBVIOUS
    <2>2. h[k + 1] = UnmapTurn(p, h[k])
      BY <1>1, <2>1
    <2>3. UnmapLoop(pt, v0, n, h[k]) /\ (Tiled(pt, v0, n) => UnmapAt(v0, n, h[k]) /\ h[k].next >= k)
      BY <1>4
    <2>4. /\ UnmapLoop(pt, v0, n, h[k + 1])
          /\ UnmapAt(v0, n, h[k]) => /\ UnmapAt(v0, n, h[k + 1])
                                     /\ h[k + 1].next >= h[k].next + 1 \/ h[k].next = n
      BY <2>2, <2>3, UnmapTurnFacts
    <2>5. ASSUME Tiled(pt, v0, n) PROVE h[k + 1].next >= k + 1
      <3>1. h[k].next \in 0..n /\ h[k].next >= k /\ h[k + 1].next \in 0..n
        BY <2>3, <2>4, <2>5 DEF UnmapAt
      <3>2. CASE h[k + 1].next >= h[k].next + 1
        BY <3>1, <3>2
      <3>3. CASE h[k].next = n
        <4>1. h[k + 1] = h[k]
          BY <2>2, <3>3 DEF UnmapTurn
        <4> QED
          BY <3>3, <4>1
      <3> QED
        BY <2>3, <2>4, <2>5, <3>2, <3>3
    <2>6. k + 1 \in 0..n
      OBVIOUS
    <2> HIDE DEF v0
    <2> QED
      BY <2>3, <2>4, <2>5, <2>6
  <1>5. n \in G
    <2> HIDE DEF G
    <2>1. \A k \in 0..n : k \in G
      BY <1>3, <1>4, Induction
    <2> QED
      BY <2>1
  <1>6. /\ UnmapLoop(pt, v0, n, h[n])
        /\ Tiled(pt, v0, n) => UnmapAt(v0, n, h[n]) /\ h[n].next >= n
    BY <1>5
  <1>7. Tiled(pt, v0, n) => h[n].next = n
    BY <1>6 DEF UnmapAt
  <1> QED
    BY <1>1, <1>6, <1>7

-----------------------------------------------------------------------------
(* What is mapped where. *)

\* The page w is mapped.
Covered(pt, w) == \E e \in Maps(pt) : e = EntryAt(e[1], w)

\* No page of the range is mapped.
ClearRange(pt, v0, n) == \A i \in 0..(n - 1) : ~Covered(pt, v0 + i)

\* The page w is not among the n from v0.
Outside(w, v0, n) == w < v0 \/ v0 + n <= w

\* The walk finds the page of the entry that covers an address, and nothing without one.
LEMMA LookupFacts ==
  ASSUME NEW pt, PtOK(pt), NEW w \in Nat
  PROVE  /\ \A e \in Maps(pt) : e = EntryAt(e[1], w) => Lookup(pt, w) = pt[e].page + (w - BaseOf(e)) /\ Lookup(pt, w) # -1
         /\ ~Covered(pt, w) => Lookup(pt, w) = -1
  <1> DEFINE l == WalkLevel(pt, w)
             d == EntryAt(l, w)
  <1>1. Lookup(pt, w) = IF d \in DOMAIN pt THEN pt[d].page + (w % Span(l)) ELSE -1
    BY DEF Lookup
  <1>2. l \in 0..3 /\ ~IsTable(pt, d)
    BY WalkFacts
  <1>3. d[1] = l
    BY <1>2, EntryFacts
  <1>4. ASSUME NEW e \in Maps(pt), e = EntryAt(e[1], w)
        PROVE  Lookup(pt, w) = pt[e].page + (w - BaseOf(e)) /\ Lookup(pt, w) # -1
    <2>1. e = d /\ e[1] = l
      BY <1>4, CoverUnique
    <2>2. e \in DOMAIN pt /\ e \in Entry /\ pt[e].page \in Pages
      BY DEF Maps, PtOK
    <2>3. Span(l) \in Nat \ {0}
      BY <1>2, SpanFacts
    <2>4. e[2] = w \div Span(l)
      BY <1>2, <2>1, EntryFacts
    <2> DEFINE c == Span(l)
    <2>6. BaseOf(e) = (w \div c) * c
      BY <2>1, <2>4 DEF BaseOf
    <2>9. Lookup(pt, w) = pt[e].page + (w % c)
      BY <1>1, <2>1, <2>2
    <2>11. c \in Nat \ {0}
      BY <2>3
    <2> HIDE DEF c, l, d
    <2>5. w = (w \div c) * c + (w % c) /\ w % c \in 0..(c - 1) /\ w \div c \in Int
      BY <2>11, DivisionExists
    <2>7. w % c = w - BaseOf(e)
      BY <2>11, <2>5, <2>6
    <2>8. pt[e].page \in Nat
      BY <2>2, PhysicalMemoryAssumption DEF Pages
    <2>10. w % c \in Nat
      BY <2>11, <2>5
    <2> QED
      BY <2>7, <2>8, <2>9, <2>10
  <1>5. ASSUME ~Covered(pt, w) PROVE Lookup(pt, w) = -1
    <2>1. d \notin Maps(pt)
      BY <1>3, <1>5 DEF Covered
    <2>2. d \notin DOMAIN pt
      BY <1>2, <2>1 DEF Maps, IsTable, PtOK
    <2> QED
      BY <1>1, <2>2
  <1> QED
    BY <1>4, <1>5

\* Where the same entries map a page, the lookups agree.
LEMMA LookupAgrees ==
  ASSUME NEW pt, PtOK(pt), NEW q, PtOK(q), NEW w \in Nat,
         \A e \in Maps(pt) : e = EntryAt(e[1], w) => e \in Maps(q) /\ q[e] = pt[e],
         \A e \in Maps(q) : e = EntryAt(e[1], w) => e \in Maps(pt)
  PROVE  Lookup(q, w) = Lookup(pt, w) /\ (Covered(q, w) <=> Covered(pt, w))
  <1>1. Covered(q, w) <=> Covered(pt, w)
    BY DEF Covered
  <1>2. CASE Covered(pt, w)
    <2>1. PICK e \in Maps(pt) : e = EntryAt(e[1], w)
      BY <1>2 DEF Covered
    <2> QED
      BY <1>1, <2>1, LookupFacts
  <1>3. CASE ~Covered(pt, w)
    BY <1>1, <1>3, LookupFacts
  <1> QED
    BY <1>1, <1>2, <1>3

\* What is mapped at page w is the same in both tables.
SameAt(pt, q, w) ==
  /\ Lookup(q, w) = Lookup(pt, w) /\ (Covered(q, w) <=> Covered(pt, w))
  /\ \A e \in Maps(pt) : e = EntryAt(e[1], w) => e \in Maps(q) /\ q[e] = pt[e]

\* Outside its range map_range changes no mapping.
LEMMA MapOutside ==
  ASSUME NEW pt, PtOK(pt), NEW U, NEW phys \in Nat, NEW v0 \in Nat, NEW n \in Nat,
         NEW r, MapLoop(pt, U, phys, v0, n, r), NEW w \in Nat, Outside(w, v0, n)
  PROVE  SameAt(pt, r.pt, w)
  <1>1. PtOK(r.pt) /\ r.next \in 0..n
    BY DEF MapLoop
  <1>2. ASSUME NEW e, NewMap(r.pt, e, phys, v0, r.next), e = EntryAt(e[1], w) PROVE FALSE
    <2>1. e \in Entry /\ v0 <= BaseOf(e) /\ BaseOf(e) + Span(e[1]) <= v0 + r.next
      BY <1>1, <1>2 DEF NewMap, Maps, PtOK
    <2>2. BaseOf(e) \in Nat /\ Span(e[1]) \in Nat \ {0} /\ BaseOf(e) <= w /\ w < BaseOf(e) + Span(e[1])
      BY <1>2, <2>1, CoverFacts
    <2>3. v0 <= w /\ w < v0 + n
      BY <1>1, <2>1, <2>2
    <2> QED
      BY <2>3 DEF Outside
  <1>3. ASSUME NEW e \in Maps(pt), e = EntryAt(e[1], w) PROVE e \in Maps(r.pt) /\ r.pt[e] = pt[e]
    <2>1. e \in DOMAIN pt /\ pt[e].kind = "map"
      BY DEF Maps
    <2>2. e \in DOMAIN r.pt /\ (r.pt[e] = pt[e] \/ NewMap(r.pt, e, phys, v0, r.next))
      BY <2>1 DEF MapLoop
    <2> QED
      BY <1>2, <1>3, <2>1, <2>2 DEF Maps
  <1>4. ASSUME NEW e \in Maps(r.pt), e = EntryAt(e[1], w) PROVE e \in Maps(pt)
    <2>1. e \in DOMAIN r.pt /\ r.pt[e].kind = "map"
      BY DEF Maps
    <2>2. ~NewMap(r.pt, e, phys, v0, r.next)
      BY <1>2, <1>4
    <2>3. e \in DOMAIN pt
      BY <2>1, <2>2 DEF MapLoop
    <2>4. r.pt[e] = pt[e]
      BY <2>2, <2>3 DEF MapLoop
    <2> QED
      BY <2>1, <2>3, <2>4 DEF Maps
  <1>5. Lookup(r.pt, w) = Lookup(pt, w) /\ (Covered(r.pt, w) <=> Covered(pt, w))
    BY <1>1, <1>3, <1>4, LookupAgrees
  <1> QED
    BY <1>3, <1>5 DEF SameAt

\* The n pages from v0 are mapped to those from phys.
MapsTo(q, v0, n, phys) == \A i \in 0..(n - 1) : Lookup(q, v0 + i) = phys + i

\* The two tables map the n pages from x to the same pages.
LookupsAgree(p, q, x, n) == \A i \in 0..(n - 1) : Lookup(q, x + i) = Lookup(p, x + i)

\* Inside, all of it is mapped to the pages in their order.
LEMMA MapInside ==
  ASSUME NEW pt, PtOK(pt), NEW U, NEW phys \in Nat, NEW v0 \in Nat, NEW n \in Nat,
         NEW r, MapLoop(pt, U, phys, v0, n, r), r.next = n
  PROVE  Tiled(r.pt, v0, n) /\ MapsTo(r.pt, v0, n, phys)
  <1>1. PtOK(r.pt)
    BY DEF MapLoop
  <1>2. ASSUME NEW i \in 0..(n - 1)
        PROVE  \E e \in Maps(r.pt) : NewMap(r.pt, e, phys, v0, n) /\ e = EntryAt(e[1], v0 + i)
    BY DEF MapLoop
  <1>3. Tiled(r.pt, v0, n)
    BY <1>2 DEF Tiled, NewMap
  <1>4. ASSUME NEW i \in 0..(n - 1) PROVE Lookup(r.pt, v0 + i) = phys + i
    <2>1. PICK e \in Maps(r.pt) : NewMap(r.pt, e, phys, v0, n) /\ e = EntryAt(e[1], v0 + i)
      BY <1>2
    <2>2. e \in Entry /\ r.pt[e].page = phys + (BaseOf(e) - v0)
      BY <1>1, <2>1 DEF Maps, PtOK, NewMap
    <2>3. v0 + i \in Nat
      OBVIOUS
    <2>4. Lookup(r.pt, v0 + i) = r.pt[e].page + ((v0 + i) - BaseOf(e))
      BY <1>1, <2>1, <2>3, LookupFacts
    <2>5. BaseOf(e) \in Nat
      BY <2>2, <2>3, CoverFacts
    <2> QED
      BY <2>2, <2>4, <2>5
  <1> QED
    BY <1>3, <1>4 DEF MapsTo

\* Ranges apart from the one mapped stay as they are.
LEMMA MapKeeps ==
  ASSUME NEW pt, PtOK(pt), NEW U, NEW phys \in Nat, NEW v0 \in Nat, NEW n \in Nat,
         NEW r, MapLoop(pt, U, phys, v0, n, r), NEW x \in Nat, NEW m \in Nat,
         x + m <= v0 \/ v0 + n <= x
  PROVE  /\ ClearRange(pt, x, m) => ClearRange(r.pt, x, m)
         /\ Tiled(pt, x, m) => Tiled(r.pt, x, m)
         /\ LookupsAgree(pt, r.pt, x, m)
  <1>0. ASSUME NEW w \in Nat, Outside(w, v0, n) PROVE SameAt(pt, r.pt, w)
    BY <1>0, MapOutside
  <1>1. \A i \in 0..(m - 1) : x + i \in Nat /\ Outside(x + i, v0, n)
    BY DEF Outside
  <1>2. ClearRange(pt, x, m) => ClearRange(r.pt, x, m)
    BY <1>0, <1>1 DEF ClearRange, SameAt
  <1>3. \A i \in 0..(m - 1) : Lookup(r.pt, x + i) = Lookup(pt, x + i)
    <2> TAKE i \in 0..(m - 1)
    <2> DEFINE w == x + i
    <2>1. w \in Nat /\ Outside(w, v0, n)
      BY <1>1
    <2> HIDE DEF w
    <2> QED
      BY <1>0, <2>1 DEF w, SameAt
  <1>4. ASSUME Tiled(pt, x, m) PROVE Tiled(r.pt, x, m)
    <2> SUFFICES ASSUME NEW i \in 0..(m - 1)
                 PROVE  \E e \in Maps(r.pt) : e = EntryAt(e[1], x + i) /\ x <= BaseOf(e) /\ BaseOf(e) + Span(e[1]) <= x + m
      BY DEF Tiled
    <2>1. PICK e \in Maps(pt) : e = EntryAt(e[1], x + i) /\ x <= BaseOf(e) /\ BaseOf(e) + Span(e[1]) <= x + m
      BY <1>4 DEF Tiled
    <2> DEFINE w == x + i
    <2>2. w \in Nat /\ Outside(w, v0, n) /\ e = EntryAt(e[1], w)
      BY <1>1, <2>1
    <2> HIDE DEF w
    <2> QED
      BY <1>0, <2>1, <2>2 DEF SameAt
  <1> QED
    BY <1>2, <1>3, <1>4 DEF LookupsAgree

-----------------------------------------------------------------------------
(* The free lists of addresses. *)

\* A block of a free list.
Block == [address : Nat, size : Nat \ {0}]

\* RemoveAt leaves the other elements in their order.
LEMMA RemoveAtFacts ==
  ASSUME NEW S, NEW s \in Seq(S), NEW i \in 1..Len(s)
  PROVE  /\ RemoveAt(s, i) \in Seq(S) /\ Len(RemoveAt(s, i)) = Len(s) - 1
         /\ \A j \in 1..Len(s) - 1 : RemoveAt(s, i)[j] = IF j < i THEN s[j] ELSE s[j + 1]
  <1> DEFINE p == SubSeq(s, 1, i - 1)
             q == SubSeq(s, i + 1, Len(s))
  <1>1. Len(s) \in Nat /\ \A j \in 1..Len(s) : s[j] \in S
    OBVIOUS
  <1>2. \A j \in 1..(i - 1) : s[j] \in S
    BY <1>1
  <1>3. \A j \in (i + 1)..Len(s) : s[j] \in S
    BY <1>1
  <1>4. /\ p \in Seq(S) /\ Len(p) = i - 1
        /\ \A j \in 1..(i - 1) : p[j] = s[j]
    BY <1>1, <1>2, SubSeqProperties
  <1>5. /\ q \in Seq(S) /\ Len(q) = Len(s) - i
        /\ \A j \in 1..(Len(s) - i) : q[j] = s[i + j]
    <2>1. /\ q \in Seq(S) /\ Len(q) = IF i + 1 <= Len(s) THEN Len(s) - (i + 1) + 1 ELSE 0
          /\ \A j \in 1..(Len(s) - (i + 1) + 1) : q[j] = s[(i + 1) + j - 1]
      BY <1>1, <1>3, SubSeqProperties
    <2> HIDE DEF q
    <2> QED
      BY <1>1, <2>1
  <1>6. RemoveAt(s, i) = p \o q
    BY DEF RemoveAt
  <1> HIDE DEF p, q
  <1>7. /\ p \o q \in Seq(S) /\ Len(p \o q) = Len(p) + Len(q)
        /\ \A j \in 1..Len(p) + Len(q) : (p \o q)[j] = IF j <= Len(p) THEN p[j] ELSE q[j - Len(p)]
    BY <1>4, <1>5, ConcatProperties
  <1> DEFINE r == p \o q
  <1> HIDE DEF r
  <1>8. ASSUME NEW j \in 1..Len(s) - 1
        PROVE  r[j] = IF j < i THEN s[j] ELSE s[j + 1]
    <2>1. /\ j \in 1..Len(p) + Len(q)
          /\ r[j] = IF j <= Len(p) THEN p[j] ELSE q[j - Len(p)]
      BY <1>1, <1>4, <1>5, <1>7 DEF r
    <2>2. CASE j < i
      BY <1>4, <2>1, <2>2
    <2>3. CASE ~(j < i)
      <3> DEFINE d == j - (i - 1)
      <3>1. d \in 1..(Len(s) - i) /\ i + d = j + 1 /\ ~(j <= Len(p)) /\ j - Len(p) = d
        BY <1>1, <1>4, <2>3
      <3> HIDE DEF d
      <3>2. q[d] = s[j + 1]
        BY <1>5, <3>1
      <3> QED
        BY <2>1, <2>3, <3>1, <3>2
    <2> QED
      BY <2>2, <2>3
  <1> QED
    BY <1>1, <1>4, <1>5, <1>6, <1>7, <1>8 DEF r

\* new is s with e put in at i, and the elements from i on moved by one.
Inserted(new, s, i, e, S) ==
  /\ new \in Seq(S) /\ Len(new) = Len(s) + 1
  /\ \A j \in 1..Len(s) + 1 : new[j] = IF j < i THEN s[j] ELSE IF j = i THEN e ELSE s[j - 1]

\* What InsertAt returns.
LEMMA InsertAtFacts ==
  ASSUME NEW S, NEW s \in Seq(S), NEW i \in 1..(Len(s) + 1), NEW e \in S
  PROVE  Inserted(InsertAt(s, i, e), s, i, e, S)
  <1> DEFINE p == SubSeq(s, 1, i - 1)
             one == <<e>>
             q == SubSeq(s, i, Len(s))
  <1>1. Len(s) \in Nat /\ \A j \in 1..Len(s) : s[j] \in S
    OBVIOUS
  <1>2. \A j \in 1..(i - 1) : s[j] \in S
    BY <1>1
  <1>3. \A j \in i..Len(s) : s[j] \in S
    BY <1>1
  <1>4. /\ p \in Seq(S) /\ Len(p) = i - 1
        /\ \A j \in 1..(i - 1) : p[j] = s[j]
    BY <1>1, <1>2, SubSeqProperties
  <1>5. /\ q \in Seq(S) /\ Len(q) = Len(s) - i + 1
        /\ \A j \in 1..(Len(s) - i + 1) : q[j] = s[i + j - 1]
    BY <1>1, <1>3, SubSeqProperties
  <1>6. one \in Seq(S) /\ Len(one) = 1 /\ one[1] = e
    OBVIOUS
  <1>7. InsertAt(s, i, e) = (p \o one) \o q
    BY DEF InsertAt
  <1> HIDE DEF p, one, q
  <1> DEFINE u == p \o one
  <1>8. /\ u \in Seq(S) /\ Len(u) = i
        /\ \A j \in 1..i : u[j] = IF j < i THEN s[j] ELSE e
    <2>1. /\ u \in Seq(S) /\ Len(u) = Len(p) + Len(one)
          /\ \A j \in 1..Len(p) + Len(one) : u[j] = IF j <= Len(p) THEN p[j] ELSE one[j - Len(p)]
      BY <1>4, <1>6, ConcatProperties
    <2> HIDE DEF u
    <2> QED
      BY <1>1, <1>4, <1>6, <2>1
  <1> HIDE DEF u
  <1> DEFINE r == u \o q
  <1>9. /\ r \in Seq(S) /\ Len(r) = Len(u) + Len(q)
        /\ \A j \in 1..Len(u) + Len(q) : r[j] = IF j <= Len(u) THEN u[j] ELSE q[j - Len(u)]
    BY <1>5, <1>8, ConcatProperties
  <1>10. InsertAt(s, i, e) = r
    BY <1>7 DEF u
  <1> HIDE DEF r
  <1>11. ASSUME NEW j \in 1..Len(s) + 1
         PROVE  r[j] = IF j < i THEN s[j] ELSE IF j = i THEN e ELSE s[j - 1]
    <2>1. /\ j \in 1..Len(u) + Len(q)
          /\ r[j] = IF j <= Len(u) THEN u[j] ELSE q[j - Len(u)]
      BY <1>1, <1>5, <1>8, <1>9
    <2>2. CASE j <= i
      BY <1>8, <2>1, <2>2
    <2>3. CASE ~(j <= i)
      <3> DEFINE d == j - i
      <3>1. d \in 1..(Len(s) - i + 1) /\ i + d - 1 = j - 1 /\ ~(j <= Len(u)) /\ j - Len(u) = d
        BY <1>1, <1>8, <2>3
      <3> HIDE DEF d
      <3>2. q[d] = s[j - 1]
        BY <1>5, <3>1
      <3> QED
        BY <2>1, <2>3, <3>1, <3>2
    <2> QED
      BY <2>2, <2>3
  <1>12. r \in Seq(S) /\ Len(r) = Len(s) + 1
    BY <1>1, <1>5, <1>8, <1>9
  <1>13. Inserted(r, s, i, e, S)
    BY <1>11, <1>12 DEF Inserted
  <1> QED
    BY <1>10, <1>13

\* Bytes of whole pages.
LEMMA BytesFacts ==
  /\ Bytes(0) = 0
  /\ \A m \in Nat : Bytes(m) \in Nat /\ (m # 0 => Bytes(m) >= PAGE_SIZE /\ Bytes(m) >= 1)
  /\ \A m, n \in Nat : Bytes(m + n) = Bytes(m) + Bytes(n)
  /\ \A m, n \in Nat : m <= n => Bytes(m) <= Bytes(n)
  /\ \A m, n \in Nat : m < n => Bytes(m) < Bytes(n)
  <1> USE DEF Bytes
  <1>1. PAGE_SIZE \in Nat /\ PAGE_SIZE >= 1
    BY PageSizeAssumption
  <1>2. \A m \in Nat : m * PAGE_SIZE \in Nat
    BY <1>1
  <1>3. \A m, n \in Nat : (m + n) * PAGE_SIZE = m * PAGE_SIZE + n * PAGE_SIZE
    BY <1>1
  <1>4. ASSUME NEW m \in Nat, m # 0 PROVE m * PAGE_SIZE >= PAGE_SIZE
    <2>1. m - 1 \in Nat /\ (m - 1) + 1 = m
      BY <1>4
    <2>2. ((m - 1) + 1) * PAGE_SIZE = (m - 1) * PAGE_SIZE + 1 * PAGE_SIZE /\ 1 * PAGE_SIZE = PAGE_SIZE
      BY <1>1, <1>3, <2>1
    <2>3. (m - 1) * PAGE_SIZE \in Nat
      BY <1>2, <2>1
    <2> QED
      BY <1>1, <2>1, <2>2, <2>3
  <1>5. ASSUME NEW m \in Nat, NEW n \in Nat, m <= n
        PROVE  m * PAGE_SIZE <= n * PAGE_SIZE /\ (m < n => m * PAGE_SIZE < n * PAGE_SIZE)
    <2> DEFINE d == n - m
    <2>1. d \in Nat /\ m + d = n /\ (m < n => d # 0)
      BY <1>5
    <2> HIDE DEF d
    <2>2. n * PAGE_SIZE = m * PAGE_SIZE + d * PAGE_SIZE
      BY <1>3, <2>1
    <2>3. m * PAGE_SIZE \in Nat /\ d * PAGE_SIZE \in Nat /\ (d # 0 => d * PAGE_SIZE >= PAGE_SIZE)
      BY <1>2, <1>4, <2>1
    <2> QED
      BY <1>1, <2>1, <2>2, <2>3
  <1>6. 0 * PAGE_SIZE = 0
    BY <1>1
  <1> QED
    BY <1>1, <1>2, <1>3, <1>4, <1>5, <1>6

\* What SelectInSeq returns, as a fact on the set of the indices that pass.
LEMMA FirstOf ==
  ASSUME NEW k \in Nat, NEW N, N \subseteq 1..k, NEW i, i = IF N # {} THEN Min(N) ELSE 0
  PROVE  /\ i = 0 => N = {}
         /\ i # 0 => i \in 1..k /\ i \in N /\ \A j \in N : i <= j
  <1>1. N \subseteq Nat
    OBVIOUS
  <1>2. CASE N = {}
    BY <1>2
  <1>3. CASE N # {}
    <2>1. Min(N) \in N /\ \A j \in N : Min(N) <= j
      BY <1>1, <1>3, MinIsLeast
    <2>2. i \in N /\ \A j \in N : i <= j
      BY <1>3, <2>1
    <2>3. i \in 1..k /\ i # 0
      BY <2>2
    <2> QED
      BY <2>2, <2>3
  <1> QED
    BY <1>2, <1>3

\* alloc takes the front of a block that is large enough.
LEMMA VAllocCases ==
  ASSUME NEW list \in Seq(Block), NEW n \in Nat \ {0}
  PROVE  LET r == VAlloc(list, n)
         IN  \/ r.ok = FALSE /\ r.list = list
             \/ /\ r.ok = TRUE
                /\ \E i \in 1..Len(list) :
                     /\ r.addr = list[i].address
                     /\ \/ list[i].size = n /\ r.list = RemoveAt(list, i)
                        \/ /\ list[i].size > n
                           /\ r.list = [list EXCEPT ![i] = [address |-> list[i].address + Bytes(n),
                                                            size |-> list[i].size - n]]
  <1> DEFINE i == SelectInSeq(list, LAMBDA b : b.size >= n)
             N == {j \in 1..Len(list) : list[j].size >= n}
             r == VAlloc(list, n)
  <1>1. i = IF N # {} THEN Min(N) ELSE 0
    BY DEF SelectInSeq
  <1>2. r = IF i = 0 THEN [ok |-> FALSE, list |-> list]
            ELSE [ok |-> TRUE, addr |-> list[i].address,
                  list |-> IF list[i].size = n THEN RemoveAt(list, i)
                           ELSE [list EXCEPT ![i] = [address |-> list[i].address + Bytes(n),
                                                     size |-> list[i].size - n]]]
    BY DEF VAlloc
  <1>3. Len(list) \in Nat /\ N \subseteq 1..Len(list)
    OBVIOUS
  <1> HIDE DEF i, r
  <1>4. CASE i = 0
    BY <1>2, <1>4 DEF r
  <1>5. CASE i # 0
    <2>1. i \in 1..Len(list) /\ i \in N
      <3> HIDE DEF N
      <3> QED
        BY <1>1, <1>3, <1>5, FirstOf
    <2>2. list[i] \in Block /\ list[i].size >= n
      BY <2>1
    <2>3. list[i].size \in Nat /\ (list[i].size = n \/ list[i].size > n)
      BY <2>2 DEF Block
    <2>4. r.ok = TRUE /\ r.addr = list[i].address
      BY <1>2, <1>5
    <2>5. CASE list[i].size = n
      <3>1. r.list = RemoveAt(list, i)
        BY <1>2, <1>5, <2>5
      <3> QED
        BY <2>1, <2>4, <2>5, <3>1 DEF r
    <2>6. CASE list[i].size > n
      <3>1. r.list = [list EXCEPT ![i] = [address |-> list[i].address + Bytes(n), size |-> list[i].size - n]]
        BY <1>2, <1>5, <2>3, <2>6
      <3> QED
        BY <2>1, <2>4, <2>6, <3>1 DEF r
    <2> QED
      BY <2>3, <2>5, <2>6
  <1> QED
    BY <1>4, <1>5

\* Two ranges of pages, by their first bytes, have no byte in common.
Apart(a, m, b, n) == a + Bytes(m) <= b \/ b + Bytes(n) <= a

\* No two blocks of the list, no block and range of H, and no two ranges of H
\* have a byte in common.
Shares(list, H) ==
  /\ list \in Seq(Block)
  /\ \A i, j \in 1..Len(list) : i # j => Apart(list[i].address, list[i].size, list[j].address, list[j].size)
  /\ \A h \in H : /\ h.addr \in Nat /\ h.pages \in Nat \ {0}
                  /\ \A i \in 1..Len(list) : Apart(list[i].address, list[i].size, h.addr, h.pages)
  /\ \A h, g \in H : h # g => Apart(h.addr, h.pages, g.addr, g.pages)

\* A part of a range is apart from what the range is apart from.
LEMMA ApartInside ==
  ASSUME NEW a \in Nat, NEW m \in Nat \ {0}, NEW b \in Nat, NEW n \in Nat \ {0}, NEW c \in Nat, NEW k \in Nat \ {0},
         Apart(a, m, b, n), a <= c, c + Bytes(k) <= a + Bytes(m)
  PROVE  Apart(c, k, b, n) /\ Apart(b, n, c, k)
  <1>1. Bytes(m) \in Nat /\ Bytes(n) \in Nat /\ Bytes(k) \in Nat
    BY BytesFacts
  <1> QED
    BY <1>1 DEF Apart

\* Ranges that are apart differ.
LEMMA ApartDiffer ==
  ASSUME NEW a \in Nat, NEW m \in Nat \ {0}, NEW b \in Nat, NEW n \in Nat \ {0}, Apart(a, m, b, n)
  PROVE  Apart(b, n, a, m) /\ a # b
  <1>1. Bytes(m) \in Nat /\ Bytes(n) \in Nat /\ Bytes(m) >= 1 /\ Bytes(n) >= 1
    BY BytesFacts
  <1> QED
    BY <1>1 DEF Apart

\* Fewer ranges.
LEMMA SharesFewer ==
  ASSUME NEW list, NEW H, NEW G, Shares(list, H), G \subseteq H
  PROVE  Shares(list, G)
  BY DEF Shares

\* The blocks of a list.
LEMMA BlockFacts ==
  ASSUME NEW list \in Seq(Block)
  PROVE  /\ Len(list) \in Nat
         /\ \A j \in 1..Len(list) : list[j] \in Block /\ list[j].address \in Nat /\ list[j].size \in Nat \ {0}
  <1>1. Len(list) \in Nat /\ \A j \in 1..Len(list) : list[j] \in Block
    OBVIOUS
  <1>2. \A b \in Block : b.address \in Nat /\ b.size \in Nat \ {0}
    BY DEF Block
  <1> QED
    BY <1>1, <1>2

\* A list without one block, which a new range takes.
LEMMA SharesRemove ==
  ASSUME NEW list, NEW H, Shares(list, H), NEW i \in 1..Len(list), NEW h,
         h.addr = list[i].address, h.pages = list[i].size
  PROVE  Shares(RemoveAt(list, i), H \cup {h})
  <1> DEFINE new == RemoveAt(list, i)
  <1>1. list \in Seq(Block)
    BY DEF Shares
  <1>2. /\ new \in Seq(Block) /\ Len(new) = Len(list) - 1
        /\ \A j \in 1..Len(list) - 1 : new[j] = IF j < i THEN list[j] ELSE list[j + 1]
    BY <1>1, RemoveAtFacts
  <1> HIDE DEF new
  <1>3. \A j \in 1..Len(list) : list[j] \in Block /\ list[j].address \in Nat /\ list[j].size \in Nat \ {0}
    BY <1>1, BlockFacts
  <1>4. \A j \in 1..Len(new) : \E k \in 1..Len(list) : k # i /\ new[j] = list[k] /\ k = IF j < i THEN j ELSE j + 1
    <2> TAKE j \in 1..Len(new)
    <2>1. CASE j < i
      BY <1>1, <1>2, <2>1
    <2>2. CASE ~(j < i)
      <3>1. j + 1 \in 1..Len(list) /\ j + 1 # i /\ j \in 1..Len(list) - 1
        BY <1>1, <1>2, <2>2
      <3> QED
        BY <1>2, <2>2, <3>1
    <2> QED
      BY <2>1, <2>2
  <1>5. ASSUME NEW j \in 1..Len(new), NEW k \in 1..Len(new), j # k
        PROVE  Apart(new[j].address, new[j].size, new[k].address, new[k].size)
    <2>1. PICK x \in 1..Len(list) : x # i /\ new[j] = list[x] /\ x = IF j < i THEN j ELSE j + 1
      BY <1>4
    <2>2. PICK y \in 1..Len(list) : y # i /\ new[k] = list[y] /\ y = IF k < i THEN k ELSE k + 1
      BY <1>4
    <2>3. x # y
      BY <1>2, <1>5, <2>1, <2>2
    <2> QED
      BY <2>1, <2>2, <2>3 DEF Shares
  <1>6. ASSUME NEW j \in 1..Len(new)
        PROVE  /\ Apart(new[j].address, new[j].size, h.addr, h.pages)
               /\ \A g \in H : Apart(new[j].address, new[j].size, g.addr, g.pages)
    <2>1. PICK x \in 1..Len(list) : x # i /\ new[j] = list[x] /\ x = IF j < i THEN j ELSE j + 1
      BY <1>4
    <2> QED
      BY <2>1 DEF Shares
  <1>7. ASSUME NEW g \in H PROVE Apart(h.addr, h.pages, g.addr, g.pages) /\ Apart(g.addr, g.pages, h.addr, h.pages)
    <2>1. Apart(h.addr, h.pages, g.addr, g.pages) /\ g.addr \in Nat /\ g.pages \in Nat \ {0}
      BY DEF Shares
    <2>2. h.addr \in Nat /\ h.pages \in Nat \ {0}
      BY <1>3
    <2> QED
      BY <2>1, <2>2, ApartDiffer
  <1>8. h.addr \in Nat /\ h.pages \in Nat \ {0}
    BY <1>3
  <1> QED
    BY <1>2, <1>5, <1>6, <1>7, <1>8 DEF Shares, new

\* A block is cut down, and ranges of the rest of it are held from now on.
LEMMA SharesCut ==
  ASSUME NEW list, NEW H, Shares(list, H), NEW i \in 1..Len(list), NEW b \in Block, NEW X,
         list[i].address <= b.address, EndOf(b) <= EndOf(list[i]),
         \A h \in X : /\ h.addr \in Nat /\ h.pages \in Nat \ {0} /\ Apart(b.address, b.size, h.addr, h.pages)
                      /\ list[i].address <= h.addr /\ h.addr + Bytes(h.pages) <= EndOf(list[i]),
         \A h, g \in X : h # g => Apart(h.addr, h.pages, g.addr, g.pages)
  PROVE  Shares([list EXCEPT ![i] = b], H \cup X)
  <1> DEFINE new == [list EXCEPT ![i] = b]
  <1>1. list \in Seq(Block)
    BY DEF Shares
  <1>2. new \in Seq(Block) /\ Len(new) = Len(list) /\ new[i] = b /\ \A j \in 1..Len(list) : j # i => new[j] = list[j]
    BY <1>1
  <1> HIDE DEF new
  <1>3. \A j \in 1..Len(list) : list[j] \in Block /\ list[j].address \in Nat /\ list[j].size \in Nat \ {0}
    BY <1>1, BlockFacts
  <1>4. b.address \in Nat /\ b.size \in Nat \ {0}
    BY DEF Block
  <1>5. ASSUME NEW c \in Nat, NEW k \in Nat \ {0}, list[i].address <= c, c + Bytes(k) <= EndOf(list[i])
        PROVE  /\ \A j \in 1..Len(list) : j # i => /\ Apart(c, k, list[j].address, list[j].size)
                                                  /\ Apart(list[j].address, list[j].size, c, k)
               /\ \A h \in H : Apart(c, k, h.addr, h.pages) /\ Apart(h.addr, h.pages, c, k)
    <2> DEFINE a == list[i].address
               m == list[i].size
    <2>1. a \in Nat /\ m \in Nat \ {0} /\ a <= c /\ c + Bytes(k) <= a + Bytes(m)
      BY <1>3, <1>5 DEF EndOf
    <2>2. ASSUME NEW j \in 1..Len(list), j # i
          PROVE  Apart(c, k, list[j].address, list[j].size) /\ Apart(list[j].address, list[j].size, c, k)
      <3> DEFINE x == list[j].address
                 y == list[j].size
      <3>1. Apart(a, m, x, y) /\ x \in Nat /\ y \in Nat \ {0}
        BY <1>3, <2>2 DEF Shares
      <3> HIDE DEF a, m, x, y
      <3>2. Apart(c, k, x, y) /\ Apart(x, y, c, k)
        BY <1>5, <2>1, <3>1, ApartInside
      <3> QED
        BY <3>2 DEF x, y
    <2>3. ASSUME NEW h \in H
          PROVE  Apart(c, k, h.addr, h.pages) /\ Apart(h.addr, h.pages, c, k)
      <3>1. Apart(a, m, h.addr, h.pages) /\ h.addr \in Nat /\ h.pages \in Nat \ {0}
        BY DEF Shares
      <3> HIDE DEF a, m
      <3> QED
        BY <2>1, <3>1, ApartInside
    <2> QED
      BY <2>2, <2>3
  <1>6. /\ \A j \in 1..Len(list) : j # i => /\ Apart(b.address, b.size, list[j].address, list[j].size)
                                            /\ Apart(list[j].address, list[j].size, b.address, b.size)
        /\ \A h \in H : Apart(b.address, b.size, h.addr, h.pages) /\ Apart(h.addr, h.pages, b.address, b.size)
    BY <1>4, <1>5 DEF EndOf
  <1>7. \A g \in X : /\ \A j \in 1..Len(list) : j # i => /\ Apart(g.addr, g.pages, list[j].address, list[j].size)
                                                         /\ Apart(list[j].address, list[j].size, g.addr, g.pages)
                     /\ \A h \in H : Apart(g.addr, g.pages, h.addr, h.pages) /\ Apart(h.addr, h.pages, g.addr, g.pages)
    BY <1>5
  <1>8. ASSUME NEW j \in 1..Len(new), NEW k \in 1..Len(new), j # k
        PROVE  Apart(new[j].address, new[j].size, new[k].address, new[k].size)
    <2>1. CASE j = i
      BY <1>2, <1>6, <1>8, <2>1
    <2>2. CASE k = i
      BY <1>2, <1>6, <1>8, <2>2
    <2>3. CASE j # i /\ k # i
      BY <1>2, <1>8, <2>3 DEF Shares
    <2> QED
      BY <2>1, <2>2, <2>3
  <1>9. ASSUME NEW h \in H \cup X
        PROVE  /\ h.addr \in Nat /\ h.pages \in Nat \ {0}
               /\ \A j \in 1..Len(new) : Apart(new[j].address, new[j].size, h.addr, h.pages)
    <2>1. CASE h \in H
      BY <1>2, <1>6, <2>1 DEF Shares
    <2>2. CASE h \in X
      BY <1>2, <1>7, <2>2
    <2> QED
      BY <2>1, <2>2
  <1>10. \A h, g \in H \cup X : h # g => Apart(h.addr, h.pages, g.addr, g.pages)
    BY <1>7 DEF Shares
  <1> QED
    BY <1>2, <1>8, <1>9, <1>10 DEF Shares, new

\* A held range becomes a block of its own.
LEMMA SharesInsert ==
  ASSUME NEW list, NEW H, Shares(list, H), NEW k \in 1..(Len(list) + 1), NEW h \in H
  PROVE  Shares(InsertAt(list, k, [address |-> h.addr, size |-> h.pages]), H \ {h})
  <1> DEFINE b == [address |-> h.addr, size |-> h.pages]
             new == InsertAt(list, k, b)
  <1>1. list \in Seq(Block)
    BY DEF Shares
  <1>2. b \in Block /\ b.address = h.addr /\ b.size = h.pages
    BY DEF Shares, Block
  <1> HIDE DEF b
  <1>3. /\ new \in Seq(Block) /\ Len(new) = Len(list) + 1
        /\ \A j \in 1..Len(list) + 1 : new[j] = IF j < k THEN list[j] ELSE IF j = k THEN b ELSE list[j - 1]
    <2>1. b \in Block
      BY <1>2
    <2>2. Inserted(new, list, k, b, Block)
      BY <1>1, <2>1, InsertAtFacts
    <2> HIDE DEF new
    <2> QED
      BY <2>2 DEF Inserted
  <1> HIDE DEF new
  <1>4. \A j \in 1..Len(list) : list[j] \in Block /\ list[j].address \in Nat /\ list[j].size \in Nat \ {0}
    BY <1>1, BlockFacts
  <1>5. h.addr \in Nat /\ h.pages \in Nat \ {0}
    BY DEF Shares
  <1>6. \A j \in 1..Len(list) : /\ Apart(b.address, b.size, list[j].address, list[j].size)
                                /\ Apart(list[j].address, list[j].size, b.address, b.size)
    <2> TAKE j \in 1..Len(list)
    <2>1. Apart(list[j].address, list[j].size, h.addr, h.pages)
      BY DEF Shares
    <2> QED
      BY <1>2, <1>4, <1>5, <2>1, ApartDiffer
  <1>7. \A j \in 1..Len(new) : j # k => \E x \in 1..Len(list) : new[j] = list[x] /\ x = IF j < k THEN j ELSE j - 1
    <2> SUFFICES ASSUME NEW j \in 1..Len(new), j # k
                 PROVE  \E x \in 1..Len(list) : new[j] = list[x] /\ x = IF j < k THEN j ELSE j - 1
      OBVIOUS
    <2>1. CASE j < k
      BY <1>1, <1>3, <2>1
    <2>2. CASE ~(j < k)
      <3>1. j - 1 \in 1..Len(list) /\ j \in 1..Len(list) + 1
        BY <1>1, <1>3, <2>2
      <3> QED
        BY <1>3, <2>2, <3>1
    <2> QED
      BY <2>1, <2>2
  <1>8. new[k] = b /\ Len(list) \in Nat
    BY <1>1, <1>3
  <1>9. ASSUME NEW j \in 1..Len(new), NEW m \in 1..Len(new), j # m
        PROVE  Apart(new[j].address, new[j].size, new[m].address, new[m].size)
    <2>1. CASE j = k
      BY <1>6, <1>7, <1>8, <1>9, <2>1
    <2>2. CASE m = k
      BY <1>6, <1>7, <1>8, <1>9, <2>2
    <2>3. CASE j # k /\ m # k
      <3>1. PICK x \in 1..Len(list) : new[j] = list[x] /\ x = IF j < k THEN j ELSE j - 1
        BY <1>7, <2>3
      <3>2. PICK y \in 1..Len(list) : new[m] = list[y] /\ y = IF m < k THEN m ELSE m - 1
        BY <1>7, <2>3
      <3>3. x # y
        BY <1>3, <1>8, <1>9, <2>3, <3>1, <3>2
      <3> QED
        BY <3>1, <3>2, <3>3 DEF Shares
    <2> QED
      BY <2>1, <2>2, <2>3
  <1>10. ASSUME NEW g \in H \ {h}
         PROVE  /\ g.addr \in Nat /\ g.pages \in Nat \ {0}
                /\ \A j \in 1..Len(new) : Apart(new[j].address, new[j].size, g.addr, g.pages)
    <2>1. Apart(b.address, b.size, g.addr, g.pages) /\ g.addr \in Nat /\ g.pages \in Nat \ {0}
      BY <1>2 DEF Shares
    <2>2. \A j \in 1..Len(list) : Apart(list[j].address, list[j].size, g.addr, g.pages)
      BY DEF Shares
    <2> QED
      BY <1>7, <1>8, <2>1, <2>2
  <1>11. \A g, f \in H \ {h} : g # f => Apart(g.addr, g.pages, f.addr, f.pages)
    BY DEF Shares
  <1> QED
    BY <1>3, <1>9, <1>10, <1>11 DEF Shares, new, b

\* A held range joins the block that it touches.
LEMMA SharesMerge ==
  ASSUME NEW list, NEW H, Shares(list, H), NEW i \in 1..Len(list), NEW h \in H, NEW b,
         b.size = list[i].size + h.pages, b = [address |-> b.address, size |-> b.size],
         \/ b.address = h.addr /\ h.addr + Bytes(h.pages) = list[i].address
         \/ b.address = list[i].address /\ h.addr = EndOf(list[i])
  PROVE  Shares([list EXCEPT ![i] = b], H \ {h})
  <1> DEFINE new == [list EXCEPT ![i] = b]
             a == list[i].address
             m == list[i].size
             c == h.addr
             k == h.pages
  <1>1. list \in Seq(Block)
    BY DEF Shares
  <1>2. \A j \in 1..Len(list) : list[j] \in Block /\ list[j].address \in Nat /\ list[j].size \in Nat \ {0}
    BY <1>1, BlockFacts
  <1>3. a \in Nat /\ m \in Nat \ {0} /\ c \in Nat /\ k \in Nat \ {0}
    BY <1>2 DEF Shares
  <1>4. b.size = m + k /\ ((b.address = c /\ c + Bytes(k) = a) \/ (b.address = a /\ c = a + Bytes(m)))
    BY DEF EndOf
  <1>5. b \in Block
    <2>1. b.address \in Nat /\ b.size \in Nat \ {0}
      <3> HIDE DEF a, m, c, k
      <3> QED
        BY <1>3, <1>4
    <2> QED
      BY <2>1 DEF Block
  <1>6. new \in Seq(Block) /\ Len(new) = Len(list) /\ new[i] = b /\ \A j \in 1..Len(list) : j # i => new[j] = list[j]
    BY <1>1, <1>5
  <1> HIDE DEF new
  <1>7. ASSUME NEW x \in Nat, NEW y \in Nat \ {0}, Apart(a, m, x, y), Apart(c, k, x, y)
        PROVE  Apart(b.address, b.size, x, y) /\ Apart(x, y, b.address, b.size)
    <2> HIDE DEF a, m, c, k
    <2>1. Bytes(m) \in Nat /\ Bytes(k) \in Nat /\ Bytes(y) \in Nat /\ Bytes(y) >= 1 /\ Bytes(m + k) = Bytes(m) + Bytes(k)
          /\ Bytes(m) >= 1 /\ Bytes(k) >= 1
      BY <1>3, BytesFacts
    <2> QED
      BY <1>3, <1>4, <1>7, <2>1 DEF Apart
  <1>8. \A j \in 1..Len(list) : j # i => /\ Apart(b.address, b.size, list[j].address, list[j].size)
                                         /\ Apart(list[j].address, list[j].size, b.address, b.size)
    <2> SUFFICES ASSUME NEW j \in 1..Len(list), j # i
                 PROVE  /\ Apart(b.address, b.size, list[j].address, list[j].size)
                        /\ Apart(list[j].address, list[j].size, b.address, b.size)
      OBVIOUS
    <2>1. Apart(a, m, list[j].address, list[j].size) /\ Apart(list[j].address, list[j].size, c, k)
      BY DEF Shares
    <2>2. list[j].address \in Nat /\ list[j].size \in Nat \ {0}
      BY <1>2
    <2>3. Apart(c, k, list[j].address, list[j].size)
      <3> HIDE DEF c, k
      <3> QED
        BY <1>3, <2>1, <2>2, ApartDiffer
    <2> QED
      BY <1>7, <2>1, <2>2, <2>3
  <1>9. ASSUME NEW g \in H \ {h}
        PROVE  /\ g.addr \in Nat /\ g.pages \in Nat \ {0}
               /\ Apart(b.address, b.size, g.addr, g.pages)
    <2>1. Apart(a, m, g.addr, g.pages) /\ Apart(c, k, g.addr, g.pages) /\ g.addr \in Nat /\ g.pages \in Nat \ {0}
      BY DEF Shares
    <2> QED
      BY <1>7, <2>1
  <1>10. ASSUME NEW j \in 1..Len(new), NEW x \in 1..Len(new), j # x
         PROVE  Apart(new[j].address, new[j].size, new[x].address, new[x].size)
    <2>1. CASE j = i
      BY <1>6, <1>8, <1>10, <2>1
    <2>2. CASE x = i
      BY <1>6, <1>8, <1>10, <2>2
    <2>3. CASE j # i /\ x # i
      BY <1>6, <1>10, <2>3 DEF Shares
    <2> QED
      BY <2>1, <2>2, <2>3
  <1>11. \A g \in H \ {h} : \A j \in 1..Len(new) : Apart(new[j].address, new[j].size, g.addr, g.pages)
    BY <1>6, <1>9 DEF Shares
  <1>12. \A g, f \in H \ {h} : g # f => Apart(g.addr, g.pages, f.addr, f.pages)
    BY DEF Shares
  <1> QED
    BY <1>6, <1>9, <1>10, <1>11, <1>12 DEF Shares, new

\* free merges the range with a block that it touches, or appends it.
LEMMA VFreeCases ==
  ASSUME NEW list \in Seq(Block), NEW a \in Nat, NEW n \in Nat \ {0}
  PROVE  \/ \E i \in 1..Len(list) :
              \/ /\ a + Bytes(n) = list[i].address
                 /\ VFree(list, a, n) = [list EXCEPT ![i] = [address |-> a, size |-> list[i].size + n]]
              \/ /\ a = EndOf(list[i])
                 /\ VFree(list, a, n) = [list EXCEPT ![i] = [address |-> list[i].address, size |-> list[i].size + n]]
         \/ VFree(list, a, n) = Append(list, [address |-> a, size |-> n])
  <1> DEFINE i == SelectInSeq(list, LAMBDA b : a + Bytes(n) = b.address \/ a = EndOf(b) \/ b.address > a)
             N == {j \in 1..Len(list) : a + Bytes(n) = list[j].address \/ a = EndOf(list[j]) \/ list[j].address > a}
             r == VFree(list, a, n)
  <1>1. i = IF N # {} THEN Min(N) ELSE 0
    BY DEF SelectInSeq
  <1>2. r = IF i > 0 /\ a + Bytes(n) = list[i].address
              THEN [list EXCEPT ![i] = [address |-> a, size |-> list[i].size + n]]
            ELSE IF i > 0 /\ a = EndOf(list[i])
              THEN [list EXCEPT ![i] = [list[i] EXCEPT !.size = list[i].size + n]]
            ELSE Append(list, [address |-> a, size |-> n])
    BY DEF VFree
  <1>3. Len(list) \in Nat /\ N \subseteq 1..Len(list)
    OBVIOUS
  <1> HIDE DEF i, r
  <1>4. i # 0 => i \in 1..Len(list)
    <2> HIDE DEF N
    <2> QED
      BY <1>1, <1>3, FirstOf
  <1>5. CASE i > 0 /\ a + Bytes(n) = list[i].address
    <2>1. i \in 1..Len(list)
      BY <1>4, <1>5
    <2>2. r = [list EXCEPT ![i] = [address |-> a, size |-> list[i].size + n]]
      BY <1>2, <1>5
    <2> QED
      BY <1>5, <2>1, <2>2 DEF r
  <1>6. CASE i > 0 /\ a # list[i].address /\ a + Bytes(n) # list[i].address /\ a = EndOf(list[i])
    <2>1. i \in 1..Len(list)
      BY <1>4, <1>6
    <2>2. list[i] \in Block
      BY <2>1
    <2>3. ASSUME NEW b \in Block, NEW k PROVE [b EXCEPT !.size = k] = [address |-> b.address, size |-> k]
      BY DEF Block
    <2>4. r = [list EXCEPT ![i] = [list[i] EXCEPT !.size = list[i].size + n]]
      BY <1>2, <1>6
    <2>5. r = [list EXCEPT ![i] = [address |-> list[i].address, size |-> list[i].size + n]]
      BY <2>2, <2>3, <2>4
    <2> QED
      BY <1>6, <2>1, <2>5 DEF r
  <1>7. CASE ~(i > 0 /\ a + Bytes(n) = list[i].address) /\ ~(i > 0 /\ a = EndOf(list[i]))
    BY <1>2, <1>7 DEF r
  <1>8. i > 0 /\ a = EndOf(list[i]) => a # list[i].address
    <2> SUFFICES ASSUME i > 0, a = EndOf(list[i]) PROVE a # list[i].address
      OBVIOUS
    <2>1. list[i].address \in Nat /\ list[i].size \in Nat \ {0}
      BY <1>4, BlockFacts
    <2>2. Bytes(list[i].size) \in Nat /\ Bytes(list[i].size) >= 1
      BY <2>1, BytesFacts
    <2> QED
      BY <2>1, <2>2 DEF EndOf
  <1> QED
    BY <1>5, <1>6, <1>7, <1>8

\* A freed range is free and no longer held.
LEMMA VFreeFacts ==
  ASSUME NEW list, NEW a \in Nat, NEW n \in Nat \ {0}
  PROVE  /\ list \in Seq(Block) => VFree(list, a, n) \in Seq(Block)
         /\ \A H : \A h \in H : h.addr = a /\ h.pages = n /\ Shares(list, H) => Shares(VFree(list, a, n), H \ {h})
  <1>1. ASSUME list \in Seq(Block) PROVE VFree(list, a, n) \in Seq(Block)
    <2>1. [address |-> a, size |-> n] \in Block
      BY DEF Block
    <2>2. ASSUME NEW i \in 1..Len(list)
          PROVE  /\ [address |-> a, size |-> list[i].size + n] \in Block
                 /\ [address |-> list[i].address, size |-> list[i].size + n] \in Block
      <3>1. list[i].address \in Nat /\ list[i].size \in Nat \ {0}
        BY <1>1, BlockFacts
      <3> QED
        BY <3>1 DEF Block
    <2>3. ASSUME NEW b \in Block, NEW i \in 1..Len(list)
          PROVE  [list EXCEPT ![i] = b] \in Seq(Block)
      BY <1>1
    <2>4. Append(list, [address |-> a, size |-> n]) \in Seq(Block)
      BY <1>1, <2>1, AppendProperties
    <2>5. \/ \E i \in 1..Len(list) :
               \/ VFree(list, a, n) = [list EXCEPT ![i] = [address |-> a, size |-> list[i].size + n]]
               \/ VFree(list, a, n) = [list EXCEPT ![i] = [address |-> list[i].address, size |-> list[i].size + n]]
          \/ VFree(list, a, n) = Append(list, [address |-> a, size |-> n])
      BY <1>1, VFreeCases
    <2> QED
      BY <2>2, <2>3, <2>4, <2>5
  <1>2. ASSUME NEW H, NEW h \in H, h.addr = a, h.pages = n, Shares(list, H)
        PROVE  Shares(VFree(list, a, n), H \ {h})
    <2>1. list \in Seq(Block) /\ Len(list) \in Nat
      BY <1>2 DEF Shares
    <2>2. ASSUME NEW i \in 1..Len(list), a + Bytes(n) = list[i].address
          PROVE  Shares([list EXCEPT ![i] = [address |-> a, size |-> list[i].size + n]], H \ {h})
      <3> DEFINE b == [address |-> a, size |-> list[i].size + n]
      <3>1. b.address = a /\ b.size = list[i].size + n
        OBVIOUS
      <3>2. b = [address |-> b.address, size |-> b.size]
        OBVIOUS
      <3> HIDE DEF b
      <3>3. Shares([list EXCEPT ![i] = b], H \ {h})
        BY <1>2, <2>2, <3>1, <3>2, SharesMerge
      <3> QED
        BY <3>3 DEF b
    <2>3. ASSUME NEW i \in 1..Len(list), a = EndOf(list[i])
          PROVE  Shares([list EXCEPT ![i] = [address |-> list[i].address, size |-> list[i].size + n]], H \ {h})
      <3> DEFINE b == [address |-> list[i].address, size |-> list[i].size + n]
      <3>1. b.address = list[i].address /\ b.size = list[i].size + n
        OBVIOUS
      <3>2. b = [address |-> b.address, size |-> b.size]
        OBVIOUS
      <3> HIDE DEF b
      <3>3. Shares([list EXCEPT ![i] = b], H \ {h})
        BY <1>2, <2>3, <3>1, <3>2, SharesMerge
      <3> QED
        BY <3>3 DEF b
    <2>4. Append(list, [address |-> a, size |-> n]) = InsertAt(list, Len(list) + 1, [address |-> h.addr, size |-> h.pages])
      <3> DEFINE b == [address |-> a, size |-> n]
      <3>1. b \in Block
        BY DEF Block
      <3> HIDE DEF b
      <3>2. /\ Append(list, b) \in Seq(Block) /\ Len(Append(list, b)) = Len(list) + 1
            /\ \A j \in 1..Len(list) : Append(list, b)[j] = list[j]
            /\ Append(list, b)[Len(list) + 1] = b
        BY <2>1, <3>1, AppendProperties
      <3> DEFINE k == Len(list) + 1
                 new == InsertAt(list, k, b)
      <3>3. k \in 1..(Len(list) + 1) /\ k = Len(list) + 1
        BY <2>1
      <3> HIDE DEF k
      <3>4. /\ new \in Seq(Block) /\ Len(new) = Len(list) + 1
            /\ \A j \in 1..Len(list) + 1 : new[j] = IF j < k THEN list[j] ELSE IF j = k THEN b ELSE list[j - 1]
        <4>1. Inserted(new, list, k, b, Block)
          BY <2>1, <3>1, <3>3, InsertAtFacts
        <4> HIDE DEF new
        <4> QED
          BY <4>1 DEF Inserted
      <3> HIDE DEF new
      <3>5. \A j \in 1..(Len(list) + 1) : Append(list, b)[j] = new[j]
        BY <2>1, <3>2, <3>3, <3>4
      <3>6. Append(list, b) = new
        BY <3>2, <3>4, <3>5, SeqEqual
      <3> QED
        BY <1>2, <3>6 DEF b, new, k
    <2>5. Shares(InsertAt(list, Len(list) + 1, [address |-> h.addr, size |-> h.pages]), H \ {h})
      BY <1>2, <2>1, SharesInsert
    <2> QED
      BY <2>1, <2>2, <2>3, <2>4, <2>5, VFreeCases
  <1> QED
    BY <1>1, <1>2

\* An allocated range was free, and is held from then on.
LEMMA VAllocFacts ==
  ASSUME NEW list \in Seq(Block), NEW n \in Nat \ {0}
  PROVE  LET r == VAlloc(list, n)
         IN  /\ r.ok \in BOOLEAN /\ r.list \in Seq(Block)
             /\ ~r.ok => r.list = list
             /\ r.ok => r.addr \in Nat
             /\ \A H, h : r.ok /\ Shares(list, H) /\ h.addr = r.addr /\ h.pages = n => Shares(r.list, H \cup {h})
  <1> DEFINE r == VAlloc(list, n)
  <1>1. \A j \in 1..Len(list) : list[j] \in Block /\ list[j].address \in Nat /\ list[j].size \in Nat \ {0}
    BY BlockFacts
  <1>2. CASE r.ok = FALSE /\ r.list = list
    BY <1>2
  <1>3. ASSUME r.ok = TRUE, NEW i \in 1..Len(list), r.addr = list[i].address, list[i].size = n, r.list = RemoveAt(list, i)
        PROVE  /\ r.list \in Seq(Block) /\ r.addr \in Nat
               /\ \A H, h : Shares(list, H) /\ h.addr = r.addr /\ h.pages = n => Shares(r.list, H \cup {h})
    <2> HIDE DEF r
    <2>1. r.list \in Seq(Block) /\ r.addr \in Nat
      BY <1>1, <1>3, RemoveAtFacts
    <2>2. ASSUME NEW H, NEW h, Shares(list, H), h.addr = r.addr, h.pages = n PROVE Shares(r.list, H \cup {h})
      BY <1>3, <2>2, SharesRemove
    <2> QED
      BY <2>1, <2>2
  <1>4. ASSUME r.ok = TRUE, NEW i \in 1..Len(list), r.addr = list[i].address, list[i].size > n,
               r.list = [list EXCEPT ![i] = [address |-> list[i].address + Bytes(n), size |-> list[i].size - n]]
        PROVE  /\ r.list \in Seq(Block) /\ r.addr \in Nat
               /\ \A H, h : Shares(list, H) /\ h.addr = r.addr /\ h.pages = n => Shares(r.list, H \cup {h})
    <2> DEFINE b == [address |-> list[i].address + Bytes(n), size |-> list[i].size - n]
               a == list[i].address
               m == list[i].size
               d == m - n
    <2>1. b.address = a + Bytes(n) /\ b.size = d
      OBVIOUS
    <2>2. a \in Nat /\ m \in Nat \ {0} /\ m > n
      BY <1>1, <1>4
    <2>3. d \in Nat \ {0} /\ n + d = m
      <3> HIDE DEF m
      <3> QED
        BY <2>2
    <2>4. Bytes(n) \in Nat /\ Bytes(n) >= 1 /\ Bytes(d) \in Nat /\ Bytes(m) = Bytes(n) + Bytes(d)
      <3> HIDE DEF d, m
      <3> QED
        BY <2>3, BytesFacts
    <2>5. b \in Block
      <3>1. a + Bytes(n) \in Nat
        BY <2>2, <2>4
      <3> QED
        BY <2>3, <3>1 DEF Block
    <2>6. a <= b.address /\ EndOf(b) <= EndOf(list[i])
      <3>1. EndOf(b) = (a + Bytes(n)) + Bytes(d) /\ EndOf(list[i]) = a + Bytes(m)
        BY <2>1 DEF EndOf
      <3> HIDE DEF a, m, d, b
      <3> QED
        BY <2>1, <2>2, <2>4, <3>1
    <2> HIDE DEF r
    <2>7. r.list = [list EXCEPT ![i] = b] /\ r.list \in Seq(Block)
      <3>1. r.list = [list EXCEPT ![i] = b]
        BY <1>4
      <3> HIDE DEF b
      <3> QED
        BY <2>5, <3>1
    <2>8. ASSUME NEW H, NEW h, Shares(list, H), h.addr = r.addr, h.pages = n PROVE Shares(r.list, H \cup {h})
      <3> DEFINE X == {h}
      <3>1. h.addr = a /\ h.pages = n
        BY <1>4, <2>8
      <3>2. Apart(b.address, b.size, h.addr, h.pages) /\ h.addr + Bytes(h.pages) <= EndOf(list[i])
        <4>1. EndOf(list[i]) = a + Bytes(m)
          BY DEF EndOf
        <4> HIDE DEF a, m, d, b
        <4> QED
          BY <2>1, <2>2, <2>4, <3>1, <4>1 DEF Apart
      <3>3. \A g \in X : /\ g.addr \in Nat /\ g.pages \in Nat \ {0} /\ Apart(b.address, b.size, g.addr, g.pages)
                         /\ list[i].address <= g.addr /\ g.addr + Bytes(g.pages) <= EndOf(list[i])
        BY <2>2, <3>1, <3>2
      <3>4. \A g, f \in X : g # f => Apart(g.addr, g.pages, f.addr, f.pages)
        OBVIOUS
      <3>5. list[i].address <= b.address
        BY <2>6
      <3> HIDE DEF b, X
      <3>6. Shares([list EXCEPT ![i] = b], H \cup X)
        BY <2>5, <2>6, <2>8, <3>3, <3>4, <3>5, SharesCut
      <3> QED
        BY <2>7, <3>6 DEF X
    <2>9. r.addr \in Nat
      BY <1>4, <2>2
    <2> QED
      BY <2>7, <2>8, <2>9
  <1>5. \/ r.ok = FALSE /\ r.list = list
        \/ /\ r.ok = TRUE
           /\ \E i \in 1..Len(list) :
                /\ r.addr = list[i].address
                /\ \/ list[i].size = n /\ r.list = RemoveAt(list, i)
                   \/ /\ list[i].size > n
                      /\ r.list = [list EXCEPT ![i] = [address |-> list[i].address + Bytes(n),
                                                       size |-> list[i].size - n]]
    BY VAllocCases
  <1> HIDE DEF r
  <1>6. CASE r.ok = TRUE
    <2>1. PICK i \in 1..Len(list) :
                /\ r.addr = list[i].address
                /\ \/ list[i].size = n /\ r.list = RemoveAt(list, i)
                   \/ /\ list[i].size > n
                      /\ r.list = [list EXCEPT ![i] = [address |-> list[i].address + Bytes(n),
                                                       size |-> list[i].size - n]]
      BY <1>5, <1>6
    <2>2. /\ r.list \in Seq(Block) /\ r.addr \in Nat
          /\ \A H, h : Shares(list, H) /\ h.addr = r.addr /\ h.pages = n => Shares(r.list, H \cup {h})
      BY <1>3, <1>4, <1>6, <2>1
    <2> QED
      BY <1>6, <2>2 DEF r
  <1> QED
    BY <1>2, <1>5, <1>6 DEF r

\* The number of pages that reserve computes from a number of bytes.
RoundedUp(x) == (x + PAGE_SIZE - 1) \div PAGE_SIZE

\* Rounding up to pages.
LEMMA RoundedUpFacts ==
  /\ \A x \in Nat \ {0} : RoundedUp(x) \in Nat \ {0}
  /\ \A k \in Nat : RoundedUp(Bytes(k)) = k
  <1>1. PAGE_SIZE \in Nat \ {0}
    BY PageSizeAssumption
  <1>2. ASSUME NEW x \in Nat \ {0} PROVE RoundedUp(x) \in Nat \ {0}
    <2> DEFINE y == x + PAGE_SIZE - 1
               q == y \div PAGE_SIZE
    <2>1. y \in Nat /\ y >= PAGE_SIZE
      BY <1>1
    <2>2. y = q * PAGE_SIZE + (y % PAGE_SIZE) /\ y % PAGE_SIZE \in 0..(PAGE_SIZE - 1) /\ q \in Int
      <3> HIDE DEF y
      <3> QED
        BY <1>1, <2>1, DivisionExists
    <2> HIDE DEF y
    <2>3. q \in Nat
      BY <1>1, <2>1
    <2> HIDE DEF q
    <2>4. q # 0
      <3> SUFFICES ASSUME q = 0 PROVE FALSE
        OBVIOUS
      <3>1. q * PAGE_SIZE = 0
        BY <1>1
      <3> QED
        BY <1>1, <2>1, <2>2, <3>1
    <2> QED
      BY <2>3, <2>4 DEF RoundedUp, q, y
  <1>3. ASSUME NEW k \in Nat PROVE RoundedUp(Bytes(k)) = k
    <2> DEFINE d == PAGE_SIZE - 1
    <2>1. d \in 0..(PAGE_SIZE - 1)
      BY <1>1
    <2>2. (k * PAGE_SIZE + d) \div PAGE_SIZE = k
      <3> HIDE DEF d
      <3> QED
        BY <1>1, <2>1, DivisionUnique
    <2>3. k * PAGE_SIZE \in Nat
      BY <1>1
    <2>4. k * PAGE_SIZE + d = Bytes(k) + PAGE_SIZE - 1
      BY <1>1, <2>3 DEF Bytes
    <2> QED
      BY <2>2, <2>4 DEF RoundedUp
  <1> QED
    BY <1>2, <1>3

\* The list when reserve has cut n pages at a out of block i.
ReserveCut(list, a, n, i) ==
  IF list[i].address = a /\ list[i].size = n THEN RemoveAt(list, i)
  ELSE IF list[i].address = a
    THEN [list EXCEPT ![i] = [address |-> a + n, size |-> list[i].size - n]]
  ELSE IF EndOf(list[i]) = a + Bytes(n)
    THEN [list EXCEPT ![i] = [address |-> list[i].address, size |-> list[i].size - n]]
  ELSE InsertAt([list EXCEPT ![i] = [address |-> list[i].address, size |-> RoundedUp(a - list[i].address)]], i + 1,
                [address |-> a + Bytes(n), size |-> RoundedUp(EndOf(list[i]) - (a + Bytes(n)))])

\* reserve_range fails or cuts the range out of one block.
LEMMA VReserveCases ==
  ASSUME NEW list \in Seq(Block), NEW a \in Nat, NEW n \in Nat \ {0}
  PROVE  LET r == VReserve(list, a, n)
         IN  \/ r.ok = FALSE /\ r.list = list
             \/ /\ r.ok = TRUE
                /\ \E i \in 1..Len(list) : /\ list[i].address <= a /\ EndOf(list[i]) >= a + Bytes(n)
                                           /\ r.list = ReserveCut(list, a, n, i)
  <1> DEFINE Holds(b) == b.address <= a /\ EndOf(b) >= a + Bytes(n)
             i == SelectInSeq(list, LAMBDA b : Holds(b) \/ b.address >= a + Bytes(n))
             N == {j \in 1..Len(list) : Holds(list[j]) \/ list[j].address >= a + Bytes(n)}
             r == VReserve(list, a, n)
  <1>1. i = IF N # {} THEN Min(N) ELSE 0
    BY DEF SelectInSeq
  <1>2. r = IF i = 0 \/ (i > 0 /\ ~Holds(list[i])) THEN [ok |-> FALSE, list |-> list]
            ELSE [ok |-> TRUE, list |->
              IF list[i].address = a /\ list[i].size = n THEN RemoveAt(list, i)
              ELSE IF list[i].address = a
                THEN [list EXCEPT ![i] = [address |-> a + n, size |-> list[i].size - n]]
              ELSE IF EndOf(list[i]) = a + Bytes(n) THEN [list EXCEPT ![i] = [list[i] EXCEPT !.size = list[i].size - n]]
              ELSE InsertAt([list EXCEPT ![i] = [list[i] EXCEPT !.size = RoundedUp(a - list[i].address)]], i + 1,
                            [address |-> a + Bytes(n), size |-> RoundedUp(EndOf(list[i]) - (a + Bytes(n)))])]
    BY DEF VReserve, RoundedUp
  <1>3. Len(list) \in Nat /\ N \subseteq 1..Len(list)
    OBVIOUS
  <1> HIDE DEF i, r
  <1>4. i # 0 => i \in 1..Len(list)
    <2> HIDE DEF N
    <2> QED
      BY <1>1, <1>3, FirstOf
  <1>5. CASE i = 0 \/ (i > 0 /\ ~Holds(list[i]))
    BY <1>2, <1>5 DEF r
  <1>6. CASE ~(i = 0 \/ (i > 0 /\ ~Holds(list[i])))
    <2>1. i \in 1..Len(list) /\ Holds(list[i])
      BY <1>4, <1>6
    <2>2. list[i] \in Block
      BY <2>1
    <2>3. ASSUME NEW b \in Block, NEW k PROVE [b EXCEPT !.size = k] = [address |-> b.address, size |-> k]
      BY DEF Block
    <2>4. \A k : [list[i] EXCEPT !.size = k] = [address |-> list[i].address, size |-> k]
      BY <2>2, <2>3
    <2>5. r.ok = TRUE
      BY <1>2, <1>6
    <2>6. r.list = ReserveCut(list, a, n, i)
      BY <1>2, <1>6, <2>4 DEF ReserveCut
    <2> QED
      BY <2>1, <2>5, <2>6 DEF r
  <1> QED
    BY <1>5, <1>6

\* The address of a whole page.
Aligned(a) == a = Bytes(a \div PAGE_SIZE) /\ a \div PAGE_SIZE \in Nat

\* Multiples of the page size.
LEMMA AlignedFacts ==
  /\ \A k \in Nat : Bytes(k) \div PAGE_SIZE = k /\ Aligned(Bytes(k))
  /\ \A a \in Nat, n \in Nat : Aligned(a) => (a + Bytes(n)) \div PAGE_SIZE = (a \div PAGE_SIZE) + n /\ Aligned(a + Bytes(n))
  <1>1. PAGE_SIZE \in Nat \ {0}
    BY PageSizeAssumption
  <1>2. ASSUME NEW k \in Nat PROVE Bytes(k) \div PAGE_SIZE = k /\ Aligned(Bytes(k))
    <2> DEFINE z == 0
    <2>1. z \in 0..(PAGE_SIZE - 1) /\ k * PAGE_SIZE \in Nat
      BY <1>1
    <2>2. (k * PAGE_SIZE + z) \div PAGE_SIZE = k
      <3> HIDE DEF z
      <3> QED
        BY <1>1, <2>1, DivisionUnique
    <2>3. Bytes(k) \div PAGE_SIZE = k
      <3>1. k * PAGE_SIZE + z = Bytes(k)
        BY <2>1 DEF Bytes
      <3> QED
        BY <2>2, <3>1
    <2> QED
      BY <2>3 DEF Aligned
  <1>3. ASSUME NEW a \in Nat, NEW n \in Nat, Aligned(a)
        PROVE  (a + Bytes(n)) \div PAGE_SIZE = (a \div PAGE_SIZE) + n /\ Aligned(a + Bytes(n))
    <2> DEFINE v == a \div PAGE_SIZE
    <2>1. v \in Nat /\ a = Bytes(v)
      BY <1>3 DEF Aligned
    <2> HIDE DEF v
    <2>2. v + n \in Nat /\ a + Bytes(n) = Bytes(v + n)
      BY <2>1, BytesFacts
    <2>3. Bytes(v + n) \div PAGE_SIZE = v + n /\ Aligned(Bytes(v + n))
      BY <1>2, <2>2
    <2> QED
      BY <2>2, <2>3 DEF v
  <1> QED
    BY <1>2, <1>3

\* reserve keeps a list a list.
LEMMA VReserveTyped ==
  ASSUME NEW list \in Seq(Block), NEW a \in Nat, NEW n \in Nat \ {0}
  PROVE  VReserve(list, a, n).ok \in BOOLEAN /\ VReserve(list, a, n).list \in Seq(Block)
  <1> DEFINE r == VReserve(list, a, n)
  <1>1. ASSUME NEW i \in 1..Len(list), list[i].address <= a, EndOf(list[i]) >= a + Bytes(n)
        PROVE  ReserveCut(list, a, n, i) \in Seq(Block)
    <2> DEFINE c == list[i].address
               m == list[i].size
               E == EndOf(list[i])
    <2>1. c \in Nat /\ m \in Nat \ {0} /\ E = c + Bytes(m)
      BY BlockFacts DEF EndOf
    <2>2. Bytes(n) \in Nat /\ Bytes(m) \in Nat /\ Bytes(n) >= 1
      <3> HIDE DEF m
      <3> QED
        BY <2>1, BytesFacts
    <2>3. RemoveAt(list, i) \in Seq(Block)
      BY RemoveAtFacts
    <2>4. m \in Nat /\ n <= m
      <3> HIDE DEF m, c, E
      <3>1. c <= a /\ E >= a + Bytes(n)
        BY <1>1 DEF c, E
      <3>2. ~(m < n)
        <4> SUFFICES ASSUME m < n PROVE FALSE
          OBVIOUS
        <4>1. Bytes(m) < Bytes(n)
          BY <2>1, BytesFacts
        <4> QED
          BY <2>1, <2>2, <3>1, <4>1
      <3> QED
        BY <2>1, <3>2
    <2>5. ASSUME NEW b \in Block PROVE [list EXCEPT ![i] = b] \in Seq(Block) /\ Len([list EXCEPT ![i] = b]) = Len(list)
      OBVIOUS
    <2>6. CASE c = a /\ m # n
      <3>1. [address |-> a + n, size |-> m - n] \in Block
        <4> HIDE DEF m
        <4> QED
          BY <2>4, <2>6 DEF Block
      <3> QED
        BY <2>5, <2>6, <3>1 DEF ReserveCut
    <2>7. CASE c # a /\ E = a + Bytes(n)
      <3>1. m # n
        <4> HIDE DEF m, c, E
        <4> QED
          BY <2>1, <2>2, <2>7
      <3>2. [address |-> c, size |-> m - n] \in Block
        <4> HIDE DEF m, c
        <4> QED
          BY <2>1, <2>4, <3>1 DEF Block
      <3> QED
        BY <2>5, <2>7, <3>2 DEF ReserveCut
    <2>8. CASE c # a /\ E # a + Bytes(n)
      <3> DEFINE b == [address |-> c, size |-> RoundedUp(a - c)]
                 d == [address |-> a + Bytes(n), size |-> RoundedUp(E - (a + Bytes(n)))]
                 l2 == [list EXCEPT ![i] = b]
      <3>1. a - c \in Nat \ {0} /\ E - (a + Bytes(n)) \in Nat \ {0} /\ a + Bytes(n) \in Nat
        <4>1. c <= a /\ E >= a + Bytes(n)
          BY <1>1
        <4> HIDE DEF m, c, E
        <4> QED
          BY <2>1, <2>2, <2>8, <4>1
      <3>2. b \in Block /\ d \in Block
        <4> HIDE DEF c, E
        <4>1. RoundedUp(a - c) \in Nat \ {0} /\ RoundedUp(E - (a + Bytes(n))) \in Nat \ {0}
          BY <3>1, RoundedUpFacts
        <4> QED
          BY <2>1, <3>1, <4>1 DEF Block
      <3>3. ReserveCut(list, a, n, i) = InsertAt(l2, i + 1, d)
        BY <2>8 DEF ReserveCut
      <3> HIDE DEF b, d
      <3>4. l2 \in Seq(Block) /\ Len(l2) = Len(list)
        BY <2>5, <3>2
      <3> HIDE DEF l2
      <3>5. i + 1 \in 1..(Len(l2) + 1)
        BY <3>4
      <3>6. InsertAt(l2, i + 1, d) \in Seq(Block)
        <4>1. Inserted(InsertAt(l2, i + 1, d), l2, i + 1, d, Block)
          BY <3>2, <3>4, <3>5, InsertAtFacts
        <4> QED
          BY <4>1 DEF Inserted
      <3> QED
        BY <3>3, <3>6
    <2>9. CASE c = a /\ m = n
      BY <2>3, <2>9 DEF ReserveCut
    <2> QED
      BY <2>6, <2>7, <2>8, <2>9
  <1>2. \/ r.ok = FALSE /\ r.list = list
        \/ /\ r.ok = TRUE
           /\ \E i \in 1..Len(list) : /\ list[i].address <= a /\ EndOf(list[i]) >= a + Bytes(n)
                                      /\ r.list = ReserveCut(list, a, n, i)
    BY VReserveCases
  <1> HIDE DEF r
  <1> QED
    BY <1>1, <1>2 DEF r

\* A page has a byte at least.
LEMMA PagesAreBytes ==
  ASSUME NEW n \in Nat
  PROVE  n <= Bytes(n)
  <1>1. PAGE_SIZE \in Nat /\ PAGE_SIZE - 1 \in Nat
    BY PageSizeAssumption
  <1>2. PICK d \in Nat : PAGE_SIZE = d + 1
    BY <1>1
  <1>3. n * (d + 1) = n * d + n /\ n * d \in Nat
    OBVIOUS
  <1> QED
    BY <1>2, <1>3 DEF Bytes

\* Rounding up adds less than a page, and reaches no further than it must.
LEMMA RoundedUpBounds ==
  ASSUME NEW x \in Nat \ {0}
  PROVE  /\ Bytes(RoundedUp(x)) < x + PAGE_SIZE
         /\ \A q \in Nat : x <= Bytes(q) => RoundedUp(x) <= q
  <1>1. PAGE_SIZE \in Nat \ {0}
    BY PageSizeAssumption
  <1>2. PICK y \in Nat : y = x + PAGE_SIZE - 1
    BY <1>1
  <1>3. PICK k \in Nat : k = RoundedUp(x)
    BY RoundedUpFacts
  <1>4. k = y \div PAGE_SIZE
    BY <1>2, <1>3 DEF RoundedUp
  <1>5. y = (y \div PAGE_SIZE) * PAGE_SIZE + (y % PAGE_SIZE) /\ y % PAGE_SIZE \in 0..(PAGE_SIZE - 1)
    BY <1>1, DivisionExists
  <1>6. PICK r \in 0..(PAGE_SIZE - 1) : r = y % PAGE_SIZE
    BY <1>5
  <1>7. y = Bytes(k) + r /\ Bytes(k) \in Nat
    BY <1>4, <1>5, <1>6, BytesFacts DEF Bytes
  <1>8. Bytes(k) <= y
    BY <1>1, <1>7
  <1>9. ASSUME NEW q \in Nat, x <= Bytes(q) PROVE k <= q
    <2>1. Bytes(q + 1) = Bytes(q) + PAGE_SIZE
      <3>1. Bytes(1) = PAGE_SIZE
        BY <1>1 DEF Bytes
      <3> QED
        BY <3>1, BytesFacts
    <2>0. q + 1 \in Nat
      OBVIOUS
    <2>5. Bytes(q) \in Nat
      BY BytesFacts
    <2>2. Bytes(q) \in Nat /\ q + 1 \in Nat
      BY <2>0, <2>5
    <2>3. y < Bytes(q + 1)
      BY <1>1, <1>2, <1>9, <2>1, <2>2
    <2>4. ~(q + 1 <= k)
      <3> SUFFICES ASSUME q + 1 <= k PROVE FALSE
        OBVIOUS
      <3>1. Bytes(q + 1) <= Bytes(k) /\ Bytes(q + 1) \in Nat
        BY <2>2, BytesFacts
      <3> QED
        BY <1>7, <1>8, <2>3, <3>1
    <2> QED
      BY <2>4
  <1>10. Bytes(k) < x + PAGE_SIZE
    BY <1>1, <1>2, <1>7, <1>8
  <1> QED
    BY <1>3, <1>9, <1>10

\* A page boundary lies between two blocks.
Fenced(b, c) ==
  \E p \in Nat : \/ EndOf(b) <= Bytes(p) /\ Bytes(p) <= c.address
                 \/ EndOf(c) <= Bytes(p) /\ Bytes(p) <= b.address

\* Between any two blocks of the list.
FencedList(list) ==
  list \in Seq(Block) /\ \A i, j \in 1..Len(list) : i # j => Fenced(list[i], list[j])

\* A block stays between the page boundaries around another.
Inside(b, c) == c.address <= b.address /\ \A p \in Nat : EndOf(c) <= Bytes(p) => EndOf(b) <= Bytes(p)

\* The numbers of a block.
LEMMA BlockNumbers ==
  ASSUME NEW b \in Block
  PROVE  b.address \in Nat /\ b.size \in Nat \ {0} /\ EndOf(b) = b.address + Bytes(b.size) /\ EndOf(b) \in Nat
  <1>1. b.address \in Nat /\ b.size \in Nat \ {0}
    BY DEF Block
  <1>2. Bytes(b.size) \in Nat
    BY <1>1, BytesFacts
  <1> QED
    BY <1>1, <1>2 DEF EndOf

\* What stays inside a block is fenced off from the same blocks.
LEMMA FencedInside ==
  ASSUME NEW b \in Block, NEW c \in Block, NEW d \in Block, Inside(b, c), Fenced(c, d)
  PROVE  Fenced(b, d) /\ Fenced(d, b)
  <1>1. PICK p \in Nat : \/ EndOf(c) <= Bytes(p) /\ Bytes(p) <= d.address
                         \/ EndOf(d) <= Bytes(p) /\ Bytes(p) <= c.address
    BY DEF Fenced
  <1>2. Bytes(p) \in Nat /\ b.address \in Nat /\ c.address \in Nat /\ c.address <= b.address
    BY BytesFacts, BlockNumbers DEF Inside
  <1>3. \/ EndOf(b) <= Bytes(p) /\ Bytes(p) <= d.address
        \/ EndOf(d) <= Bytes(p) /\ Bytes(p) <= b.address
    <2>1. CASE EndOf(c) <= Bytes(p) /\ Bytes(p) <= d.address
      BY <2>1 DEF Inside
    <2>2. CASE EndOf(d) <= Bytes(p) /\ Bytes(p) <= c.address
      <3>1. Bytes(p) <= b.address
        BY <1>2, <2>2
      <3> QED
        BY <2>2, <3>1
    <2> QED
      BY <1>1, <2>1, <2>2
  <1> QED
    BY <1>3 DEF Fenced

\* Blocks with a page boundary between them have no byte in common.
LEMMA FencedShares ==
  ASSUME NEW list, FencedList(list)
  PROVE  Shares(list, {})
  <1>1. list \in Seq(Block)
    BY DEF FencedList
  <1>2. ASSUME NEW b \in Block, NEW c \in Block, Fenced(b, c) PROVE Apart(b.address, b.size, c.address, c.size)
    <2>1. PICK p \in Nat : \/ EndOf(b) <= Bytes(p) /\ Bytes(p) <= c.address
                           \/ EndOf(c) <= Bytes(p) /\ Bytes(p) <= b.address
      BY <1>2 DEF Fenced
    <2>2. Bytes(p) \in Nat /\ b.address \in Nat /\ c.address \in Nat /\ EndOf(b) \in Nat /\ EndOf(c) \in Nat
      BY BytesFacts, BlockNumbers
    <2>3. EndOf(b) <= c.address \/ EndOf(c) <= b.address
      BY <2>1, <2>2
    <2> QED
      BY <2>3 DEF Apart, EndOf
  <1>3. ASSUME NEW i \in 1..Len(list), NEW j \in 1..Len(list), i # j
        PROVE  Apart(list[i].address, list[i].size, list[j].address, list[j].size)
    <2>1. list[i] \in Block /\ list[j] \in Block
      BY <1>1
    <2>2. Fenced(list[i], list[j])
      BY <1>3 DEF FencedList
    <2> QED
      BY <1>2, <2>1, <2>2
  <1> QED
    BY <1>1, <1>3 DEF Shares

\* One block replaced by one inside it,
LEMMA FencedReplace ==
  ASSUME NEW list, FencedList(list), NEW i \in 1..Len(list), NEW b \in Block, Inside(b, list[i])
  PROVE  FencedList([list EXCEPT ![i] = b])
  <1> DEFINE new == [list EXCEPT ![i] = b]
  <1>1. list \in Seq(Block)
    BY DEF FencedList
  <1>2. new \in Seq(Block) /\ Len(new) = Len(list) /\ new[i] = b /\ \A j \in 1..Len(list) : j # i => new[j] = list[j]
    BY <1>1
  <1>3. \A j \in 1..Len(list) : list[j] \in Block
    BY <1>1
  <1> HIDE DEF new
  <1>4. ASSUME NEW j \in 1..Len(list), j # i PROVE Fenced(b, list[j]) /\ Fenced(list[j], b)
    <2>1. Fenced(list[i], list[j])
      BY <1>4 DEF FencedList
    <2> QED
      BY <1>3, <2>1, FencedInside
  <1>5. ASSUME NEW j \in 1..Len(new), NEW k \in 1..Len(new), j # k PROVE Fenced(new[j], new[k])
    <2>1. CASE j = i
      BY <1>2, <1>4, <1>5, <2>1
    <2>2. CASE k = i
      BY <1>2, <1>4, <1>5, <2>2
    <2>3. CASE j # i /\ k # i
      BY <1>2, <1>5, <2>3 DEF FencedList
    <2> QED
      BY <2>1, <2>2, <2>3
  <1> QED
    BY <1>2, <1>5 DEF FencedList, new

\* one removed,
LEMMA FencedRemove ==
  ASSUME NEW list, FencedList(list), NEW i \in 1..Len(list)
  PROVE  FencedList(RemoveAt(list, i))
  <1> DEFINE new == RemoveAt(list, i)
  <1>1. list \in Seq(Block)
    BY DEF FencedList
  <1>5. /\ new \in Seq(Block) /\ Len(new) = Len(list) - 1
        /\ \A j \in 1..Len(list) - 1 : new[j] = IF j < i THEN list[j] ELSE list[j + 1]
    BY <1>1, RemoveAtFacts
  <1>6. Len(list) \in Nat
    BY <1>1
  <1>2. /\ new \in Seq(Block) /\ Len(new) = Len(list) - 1 /\ Len(list) \in Nat
        /\ \A j \in 1..Len(list) - 1 : new[j] = IF j < i THEN list[j] ELSE list[j + 1]
    BY <1>5, <1>6
  <1> HIDE DEF new
  <1>3. \A j \in 1..Len(new) : \E k \in 1..Len(list) : new[j] = list[k] /\ k = IF j < i THEN j ELSE j + 1
    <2> TAKE j \in 1..Len(new)
    <2>1. CASE j < i
      BY <1>2, <2>1
    <2>2. CASE ~(j < i)
      <3>1. j + 1 \in 1..Len(list) /\ j \in 1..Len(list) - 1
        BY <1>2, <2>2
      <3> QED
        BY <1>2, <2>2, <3>1
    <2> QED
      BY <2>1, <2>2
  <1>4. ASSUME NEW j \in 1..Len(new), NEW k \in 1..Len(new), j # k PROVE Fenced(new[j], new[k])
    <2>1. PICK x \in 1..Len(list) : new[j] = list[x] /\ x = IF j < i THEN j ELSE j + 1
      BY <1>3
    <2>2. PICK y \in 1..Len(list) : new[k] = list[y] /\ y = IF k < i THEN k ELSE k + 1
      BY <1>3
    <2>3. x # y
      BY <1>2, <1>4, <2>1, <2>2
    <2> QED
      BY <2>1, <2>2, <2>3 DEF FencedList
  <1> QED
    BY <1>2, <1>4 DEF FencedList, new

\* and one inserted.
LEMMA FencedInsert ==
  ASSUME NEW list, FencedList(list), NEW i \in 1..(Len(list) + 1), NEW d \in Block,
         \A j \in 1..Len(list) : Fenced(list[j], d) /\ Fenced(d, list[j])
  PROVE  FencedList(InsertAt(list, i, d))
  <1> DEFINE new == InsertAt(list, i, d)
  <1>1. list \in Seq(Block)
    BY DEF FencedList
  <1>2. Inserted(new, list, i, d, Block) /\ Len(list) \in Nat
    BY <1>1, InsertAtFacts
  <1> HIDE DEF new
  <1>3. /\ new \in Seq(Block) /\ Len(new) = Len(list) + 1
        /\ \A j \in 1..Len(list) + 1 : new[j] = IF j < i THEN list[j] ELSE IF j = i THEN d ELSE list[j - 1]
    BY <1>2 DEF Inserted
  <1>4. \A j \in 1..Len(new) : \/ j = i /\ new[j] = d
                              \/ \E k \in 1..Len(list) : j # i /\ new[j] = list[k] /\ k = IF j < i THEN j ELSE j - 1
    <2> TAKE j \in 1..Len(new)
    <2>1. CASE j < i
      BY <1>2, <1>3, <2>1
    <2>2. CASE j = i
      BY <1>2, <1>3, <2>2
    <2>3. CASE j > i
      <3>1. j - 1 \in 1..Len(list) /\ j \in 1..Len(list) + 1 /\ ~(j < i) /\ j # i
        BY <1>2, <1>3, <2>3
      <3> QED
        BY <1>3, <3>1
    <2> QED
      BY <2>1, <2>2, <2>3
  <1>5. ASSUME NEW j \in 1..Len(new), NEW k \in 1..Len(new), j # k PROVE Fenced(new[j], new[k])
    <2>1. CASE j = i
      BY <1>4, <1>5, <2>1
    <2>2. CASE k = i
      BY <1>4, <1>5, <2>2
    <2>3. CASE j # i /\ k # i
      <3>1. PICK x \in 1..Len(list) : new[j] = list[x] /\ x = IF j < i THEN j ELSE j - 1
        BY <1>4, <2>3
      <3>2. PICK y \in 1..Len(list) : new[k] = list[y] /\ y = IF k < i THEN k ELSE k - 1
        BY <1>4, <2>3
      <3>3. x # y
        BY <1>2, <1>3, <1>5, <2>3, <3>1, <3>2
      <3> QED
        BY <3>1, <3>2, <3>3 DEF FencedList
    <2> QED
      BY <2>1, <2>2, <2>3
  <1> QED
    BY <1>3, <1>5 DEF FencedList, new

\* reserve keeps a page boundary between any two blocks, also where it moves a
\* block by bytes and rounds sizes up: what is left of a block stays inside it.
LEMMA ReserveFenced ==
  ASSUME NEW list, FencedList(list), NEW p \in Nat, NEW n \in Nat \ {0}
  PROVE  FencedList(VReserve(list, Bytes(p), n).list)
  <1>0. list \in Seq(Block)
    BY DEF FencedList
  <1>1. PICK a \in Nat : a = Bytes(p)
    BY BytesFacts
  <1> DEFINE r == VReserve(list, a, n)
  <1>2. ASSUME NEW i \in 1..Len(list), list[i].address <= a, EndOf(list[i]) >= a + Bytes(n)
        PROVE  FencedList(ReserveCut(list, a, n, i))
    <2>0. list[i] \in Block
      BY <1>0
    <2>1. PICK c \in Nat, m \in Nat \ {0}, E \in Nat :
            c = list[i].address /\ m = list[i].size /\ E = EndOf(list[i]) /\ E = c + Bytes(m)
      BY <2>0, BlockNumbers
    <2>2. PICK end \in Nat : end = a + Bytes(n) /\ end = Bytes(p + n)
      <3>1. Bytes(p + n) = Bytes(p) + Bytes(n)
        BY BytesFacts
      <3>2. Bytes(n) \in Nat
        BY BytesFacts
      <3>3. a + Bytes(n) \in Nat
        BY <3>2
      <3> QED
        BY <1>1, <3>1, <3>3
    <2>3. Bytes(n) \in Nat /\ Bytes(n) >= PAGE_SIZE /\ PAGE_SIZE \in Nat \ {0} /\ Bytes(m) \in Nat
      BY <2>1, BytesFacts, PageSizeAssumption
    <2>4. c <= a /\ E >= end
      BY <1>2, <2>1, <2>2
    <2>5. n <= m
      <3> SUFFICES ASSUME m < n PROVE FALSE
        BY <2>1
      <3>1. Bytes(m) < Bytes(n)
        BY <2>1, BytesFacts
      <3> QED
        BY <2>1, <2>2, <2>3, <2>4, <3>1
    <2>6. CASE c = a /\ m = n
      <3>1. ReserveCut(list, a, n, i) = RemoveAt(list, i)
        BY <2>1, <2>6 DEF ReserveCut
      <3> QED
        BY <3>1, FencedRemove
    <2>7. CASE c = a /\ m # n
      <3> DEFINE b == [address |-> a + n, size |-> m - n]
      <3>1. b \in Block /\ b.address = a + n /\ b.size = m - n
        BY <2>1, <2>5, <2>7 DEF Block
      <3>2. ReserveCut(list, a, n, i) = [list EXCEPT ![i] = b]
        BY <2>1, <2>7 DEF ReserveCut
      <3> HIDE DEF b
      <3>3. EndOf(b) <= E /\ EndOf(b) \in Nat
        <4>1. PICK k \in Nat : k = m - n /\ m = n + k
          BY <2>1, <2>5
        <4>2. Bytes(m) = Bytes(n) + Bytes(k) /\ Bytes(k) \in Nat
          BY <4>1, BytesFacts
        <4>3. n <= Bytes(n)
          BY <2>3, PagesAreBytes
        <4>4. EndOf(b) = (a + n) + Bytes(k)
          BY <3>1, <4>1 DEF EndOf
        <4> QED
          BY <2>1, <2>3, <2>7, <4>2, <4>3, <4>4
      <3>4. Inside(b, list[i])
        <4>1. list[i].address <= b.address
          BY <2>1, <2>7, <3>1
        <4>2. ASSUME NEW q \in Nat, E <= Bytes(q) PROVE EndOf(b) <= Bytes(q)
          BY <3>3, <4>2, BytesFacts
        <4> QED
          BY <2>1, <4>1, <4>2 DEF Inside
      <3>5. FencedList([list EXCEPT ![i] = b])
        BY <3>1, <3>4, FencedReplace
      <3> QED
        BY <3>2, <3>5
    <2>8. CASE c # a /\ E = end
      <3> DEFINE b == [address |-> c, size |-> m - n]
      <3>1. m # n
        <4> SUFFICES ASSUME m = n PROVE FALSE
          OBVIOUS
        <4>1. c + Bytes(n) = a + Bytes(n)
          BY <2>1, <2>2, <2>8
        <4> QED
          BY <2>3, <2>8, <4>1
      <3>2. b \in Block /\ b.address = c /\ b.size = m - n
        BY <2>1, <2>5, <3>1 DEF Block
      <3>3. ReserveCut(list, a, n, i) = [list EXCEPT ![i] = b]
        BY <2>1, <2>2, <2>8 DEF ReserveCut
      <3> HIDE DEF b
      <3>4. EndOf(b) <= E /\ EndOf(b) \in Nat
        <4>1. PICK k \in Nat : k = m - n /\ k <= m
          BY <2>1, <2>5
        <4>2. Bytes(k) <= Bytes(m) /\ Bytes(k) \in Nat
          BY <2>1, <4>1, BytesFacts
        <4>3. EndOf(b) = c + Bytes(k)
          BY <3>2, <4>1 DEF EndOf
        <4>4. PICK x \in Nat, y \in Nat : x = Bytes(k) /\ y = Bytes(m) /\ x <= y
          BY <2>3, <4>2
        <4>5. EndOf(b) = c + x /\ E = c + y
          BY <2>1, <4>3, <4>4
        <4> QED
          BY <4>4, <4>5
      <3>5. Inside(b, list[i])
        <4>1. list[i].address <= b.address
          BY <2>1, <3>2
        <4>2. ASSUME NEW q \in Nat, E <= Bytes(q) PROVE EndOf(b) <= Bytes(q)
          BY <3>4, <4>2, BytesFacts
        <4> QED
          BY <2>1, <4>1, <4>2 DEF Inside
      <3>6. FencedList([list EXCEPT ![i] = b])
        BY <3>2, <3>5, FencedReplace
      <3> QED
        BY <3>3, <3>6
    <2>9. CASE c # a /\ E # end
      <3>1. PICK x \in Nat \ {0}, y \in Nat \ {0} : x = a - c /\ y = E - end
        BY <2>4, <2>9
      <3>2. PICK k \in Nat \ {0}, z \in Nat \ {0} : k = RoundedUp(x) /\ z = RoundedUp(y)
        BY RoundedUpFacts
      <3> DEFINE b == [address |-> c, size |-> k]
                 d == [address |-> end, size |-> z]
                 l2 == [list EXCEPT ![i] = b]
      <3>3. b \in Block /\ b.address = c /\ b.size = k /\ d \in Block /\ d.address = end /\ d.size = z
        BY DEF Block
      <3>4. ReserveCut(list, a, n, i) = InsertAt(l2, i + 1, d)
        BY <2>1, <2>2, <2>9, <3>1, <3>2 DEF ReserveCut
      <3> HIDE DEF b, d
      <3>5. EndOf(b) <= end /\ EndOf(b) \in Nat
        <4>1. Bytes(k) < x + PAGE_SIZE /\ Bytes(k) \in Nat
          BY <3>2, RoundedUpBounds, BytesFacts
        <4>2. EndOf(b) = c + Bytes(k)
          BY <3>3 DEF EndOf
        <4>3. PICK u \in Nat, w \in Nat, g \in Nat : u = Bytes(k) /\ w = Bytes(n) /\ g = PAGE_SIZE
          BY <2>3, <4>1
        <4>4. u < x + g /\ g <= w /\ end = a + w /\ a = x + c
          BY <2>2, <2>3, <2>4, <3>1, <4>1, <4>3
        <4>5. c + u <= end /\ c + u \in Nat
          BY <4>4
        <4> QED
          BY <4>2, <4>3, <4>5
      <3>6. Inside(b, list[i])
        <4>1. list[i].address <= b.address
          BY <2>1, <3>3
        <4>2. ASSUME NEW q \in Nat, E <= Bytes(q) PROVE EndOf(b) <= Bytes(q)
          <5>1. Bytes(q) \in Nat
            BY BytesFacts
          <5> QED
            BY <2>4, <3>5, <4>2, <5>1
        <4> QED
          BY <2>1, <4>1, <4>2 DEF Inside
      <3>7. Inside(d, list[i])
        <4>1. list[i].address <= d.address
          <5>1. c <= end
            BY <2>2, <2>3, <2>4
          <5> QED
            BY <2>1, <3>3, <5>1
        <4>2. ASSUME NEW q \in Nat, E <= Bytes(q) PROVE EndOf(d) <= Bytes(q)
          <5>1. PICK e \in Nat : e = p + n
            OBVIOUS
          <5>2. end = Bytes(e) /\ Bytes(q) \in Nat
            BY <2>2, <5>1, BytesFacts
          <5>3. e <= q
            <6> SUFFICES ASSUME q < e PROVE FALSE
              BY <5>1
            <6>1. Bytes(q) < Bytes(e)
              BY BytesFacts
            <6> QED
              BY <2>4, <4>2, <5>2, <6>1
          <5>4. PICK w \in Nat : q = e + w
            <6>1. q - e \in Nat /\ q = e + (q - e)
              BY <5>1, <5>3
            <6> QED
              BY <6>1
          <5>5. Bytes(q) = Bytes(e) + Bytes(w) /\ Bytes(w) \in Nat
            BY <5>4, BytesFacts
          <5>6. y <= Bytes(w)
            BY <3>1, <4>2, <5>2, <5>5
          <5>7. z <= w
            BY <3>2, <5>6, RoundedUpBounds
          <5>8. Bytes(z) <= Bytes(w) /\ Bytes(z) \in Nat
            BY <5>7, BytesFacts
          <5>9. EndOf(d) = end + Bytes(z)
            BY <3>3 DEF EndOf
          <5> QED
            BY <5>2, <5>5, <5>8, <5>9
        <4> QED
          BY <2>1, <4>1, <4>2 DEF Inside
      <3>8. Fenced(b, d) /\ Fenced(d, b)
        <4>1. p + n \in Nat /\ EndOf(b) <= Bytes(p + n) /\ Bytes(p + n) <= d.address
          BY <2>2, <3>3, <3>5
        <4> QED
          BY <4>1 DEF Fenced
      <3>9. FencedList(l2)
        BY <3>3, <3>6, FencedReplace
      <3>10. /\ Len(l2) = Len(list) /\ Len(list) \in Nat /\ l2[i] = b
             /\ \A j \in 1..Len(list) : j # i => l2[j] = list[j]
        BY <1>0
      <3> HIDE DEF l2
      <3>11. ASSUME NEW j \in 1..Len(l2) PROVE Fenced(l2[j], d) /\ Fenced(d, l2[j])
        <4>1. CASE j = i
          BY <3>8, <3>10, <4>1
        <4>2. CASE j # i
          <5>1. list[j] \in Block /\ l2[j] = list[j]
            BY <1>0, <3>10, <4>2
          <5>2. Fenced(list[i], list[j])
            BY <3>10, <4>2 DEF FencedList
          <5> QED
            BY <2>0, <3>3, <3>7, <5>1, <5>2, FencedInside
        <4> QED
          BY <4>1, <4>2
      <3>12. i + 1 \in 1..(Len(l2) + 1)
        BY <3>10
      <3>13. FencedList(InsertAt(l2, i + 1, d))
        BY <3>3, <3>9, <3>11, <3>12, FencedInsert
      <3> QED
        BY <3>4, <3>13
    <2> QED
      BY <2>6, <2>7, <2>8, <2>9
  <1>3. \/ r.ok = FALSE /\ r.list = list
        \/ /\ r.ok = TRUE
           /\ \E i \in 1..Len(list) : /\ list[i].address <= a /\ EndOf(list[i]) >= a + Bytes(n)
                                      /\ r.list = ReserveCut(list, a, n, i)
    BY <1>0, VReserveCases
  <1> HIDE DEF r
  <1> QED
    BY <1>1, <1>2, <1>3 DEF r

-----------------------------------------------------------------------------
(* Who holds which physical page. *)

\* What an entry of a process's table holds: a table, or the pages it maps.
EntryPages(pt, e) == IF IsTable(pt, e) THEN {pt[e].page} ELSE PagesOf(pt, e)

\* All the pages of a process's table: those it maps and those of its tables.
UserPages(pt) == UNION {EntryPages(pt, e) : e \in DOMAIN pt}

\* No page belongs to two entries.
EntriesApart(pt) == \A e, f \in DOMAIN pt : e # f => EntryPages(pt, e) \cap EntryPages(pt, f) = {}

\* No page holds two tables.
TablesApart(pt) ==
  \A e, f \in DOMAIN pt : IsTable(pt, e) /\ IsTable(pt, f) /\ pt[e].page = pt[f].page => e = f

\* The pages that an entry of the process's table holds.
LEMMA EntryPagesFacts ==
  ASSUME NEW pt, PtOK(pt), NEW e \in DOMAIN pt
  PROVE  /\ IsTable(pt, e) => EntryPages(pt, e) = {pt[e].page}
         /\ ~IsTable(pt, e) => /\ e \in Maps(pt) /\ EntryPages(pt, e) = PagesOf(pt, e)
                               /\ pt[e].page \in EntryPages(pt, e)
         /\ pt[e].page \in Nat /\ e \in Entry /\ Span(e[1]) \in Nat \ {0} /\ BaseOf(e) \in Nat
  <1>1. e \in Entry /\ pt[e].page \in Pages /\ (~IsTable(pt, e) => e \in Maps(pt))
    BY DEF PtOK, IsTable, Maps
  <1>2. pt[e].page \in Nat
    BY <1>1, PhysicalMemoryAssumption DEF Pages
  <1>3. Span(e[1]) \in Nat \ {0} /\ BaseOf(e) \in Nat
    <2>1. 0 \in Nat
      OBVIOUS
    <2> QED
      BY <1>1, <2>1, CoverFacts
  <1>4. ~IsTable(pt, e) => EntryPages(pt, e) = PagesOf(pt, e) /\ pt[e].page \in EntryPages(pt, e)
    BY <1>2, <1>3 DEF EntryPages, PagesOf, PagesFrom
  <1>5. IsTable(pt, e) => EntryPages(pt, e) = {pt[e].page}
    BY DEF EntryPages
  <1> QED
    BY <1>1, <1>2, <1>3, <1>4, <1>5

\* What a mapping made by map_range holds: pages of the range, each at its place.
LEMMA NewMapPages ==
  ASSUME NEW pt, PtOK(pt), NEW phys \in Nat, NEW v0 \in Nat, NEW n \in Nat, NEW k \in 0..n,
         NEW e, NewMap(pt, e, phys, v0, k)
  PROVE  /\ e \in DOMAIN pt /\ e \in Maps(pt) /\ ~IsTable(pt, e)
         /\ EntryPages(pt, e) \subseteq PagesFrom(phys, n)
         /\ \A p \in EntryPages(pt, e) : (p - phys) + v0 \in Nat /\ e = EntryAt(e[1], (p - phys) + v0)
  <1>1. e \in Maps(pt) /\ e \in DOMAIN pt /\ pt[e].kind = "map"
    BY DEF NewMap, Maps
  <1>2. ~IsTable(pt, e)
    BY <1>1 DEF IsTable
  <1>3. /\ EntryPages(pt, e) = PagesOf(pt, e) /\ e \in Entry /\ Span(e[1]) \in Nat \ {0} /\ BaseOf(e) \in Nat
    BY <1>1, <1>2, EntryPagesFacts
  <1>4. v0 <= BaseOf(e) /\ BaseOf(e) + Span(e[1]) <= v0 + k /\ pt[e].page = phys + (BaseOf(e) - v0)
    BY DEF NewMap
  <1>5. PICK b \in Nat, c \in Nat \ {0} : b = BaseOf(e) /\ c = Span(e[1])
    BY <1>3
  <1>6. EntryPages(pt, e) = (phys + (b - v0))..((phys + (b - v0)) + c - 1)
    BY <1>3, <1>4, <1>5 DEF PagesOf, PagesFrom
  <1>7. v0 <= b /\ b + c <= v0 + k
    BY <1>4, <1>5
  <1>8. ASSUME NEW p \in EntryPages(pt, e)
        PROVE  p \in PagesFrom(phys, n) /\ (p - phys) + v0 \in Nat /\ e = EntryAt(e[1], (p - phys) + v0)
    <2> DEFINE w == (p - phys) + v0
    <2>1. p \in Nat /\ phys + (b - v0) <= p /\ p < (phys + (b - v0)) + c
      BY <1>6, <1>7
    <2>2. w \in Nat /\ b <= w /\ w < b + c /\ p \in PagesFrom(phys, n)
      BY <1>7, <2>1 DEF PagesFrom
    <2> HIDE DEF w
    <2>3. e = EntryAt(e[1], w)
      BY <1>3, <1>5, <2>2, CoverFacts
    <2> QED
      BY <2>2, <2>3 DEF w
  <1> QED
    BY <1>1, <1>2, <1>8

\* What an entry of the table after map_range is.
LEMMA MapEntries ==
  ASSUME NEW pt, NEW U, NEW phys, NEW v0, NEW n, NEW r, MapLoop(pt, U, phys, v0, n, r), NEW e \in DOMAIN r.pt
  PROVE  \/ e \in DOMAIN pt /\ r.pt[e] = pt[e]
         \/ e \notin DOMAIN pt /\ IsTable(r.pt, e) /\ r.pt[e].page \in r.used \ U
         \/ NewMap(r.pt, e, phys, v0, r.next)
  <1>1. CASE e \in DOMAIN pt
    BY <1>1 DEF MapLoop
  <1>2. CASE e \notin DOMAIN pt
    BY <1>2 DEF MapLoop, IsTable
  <1> QED
    BY <1>1, <1>2

\* In a process's table: the pages mapped become the table's, with the pages
\* of the tables made, and no page is held twice.
LEMMA MapUserFacts ==
  ASSUME NEW pt, PtOK(pt), EntriesApart(pt), NEW U, UserPages(pt) \subseteq U, U \subseteq Pages,
         NEW phys \in Nat, NEW v0 \in Nat, NEW n \in Nat, PagesFrom(phys, n) \subseteq U,
         PagesFrom(phys, n) \cap UserPages(pt) = {},
         NEW r, MapLoop(pt, U, phys, v0, n, r)
  PROVE  /\ EntriesApart(r.pt)
         /\ UserPages(r.pt) \subseteq UserPages(pt) \cup PagesFrom(phys, n) \cup (r.used \ U)
  <1> DEFINE J == PagesFrom(phys, n)
             N == r.used \ U
             Old(e) == e \in DOMAIN pt /\ r.pt[e] = pt[e]
             Tab(e) == e \notin DOMAIN pt /\ IsTable(r.pt, e) /\ r.pt[e].page \in N
             New(e) == NewMap(r.pt, e, phys, v0, r.next)
  <1>1. PtOK(r.pt) /\ r.next \in 0..n
    BY DEF MapLoop
  <1>2. ASSUME NEW e \in DOMAIN r.pt PROVE Old(e) \/ Tab(e) \/ New(e)
    BY MapEntries
  <1>3. ASSUME NEW e \in DOMAIN r.pt, Old(e)
        PROVE  EntryPages(r.pt, e) = EntryPages(pt, e) /\ EntryPages(pt, e) \subseteq UserPages(pt)
    BY <1>3 DEF EntryPages, IsTable, PagesOf, UserPages
  <1>4. ASSUME NEW e \in DOMAIN r.pt, Tab(e)
        PROVE  EntryPages(r.pt, e) = {r.pt[e].page} /\ EntryPages(r.pt, e) \subseteq N
    BY <1>4 DEF EntryPages
  <1>5. ASSUME NEW e \in DOMAIN r.pt, New(e)
        PROVE  EntryPages(r.pt, e) \subseteq J
    BY <1>1, <1>5, NewMapPages
  <1>6. ASSUME NEW e \in DOMAIN r.pt, NEW f \in DOMAIN r.pt, NEW p,
               p \in EntryPages(r.pt, e), p \in EntryPages(r.pt, f)
        PROVE  e = f
    <2>1. CASE Old(e) /\ Old(f)
      <3>1. e \in DOMAIN pt /\ f \in DOMAIN pt /\ p \in EntryPages(pt, e) /\ p \in EntryPages(pt, f)
        BY <1>3, <1>6, <2>1
      <3> QED
        BY <3>1 DEF EntriesApart
    <2>2. CASE Tab(e) /\ Tab(f)
      <3>1. r.pt[e].page = r.pt[f].page
        BY <1>4, <1>6, <2>2
      <3> QED
        BY <2>2, <3>1 DEF MapLoop, IsTable
    <2>3. CASE New(e) /\ New(f)
      <3> DEFINE w == (p - phys) + v0
      <3>1. w \in Nat /\ e = EntryAt(e[1], w) /\ e \in Maps(r.pt)
        BY <1>1, <1>6, <2>3, NewMapPages
      <3>2. f = EntryAt(f[1], w) /\ f \in Maps(r.pt)
        BY <1>1, <1>6, <2>3, NewMapPages
      <3> HIDE DEF w
      <3>3. e = EntryAt(WalkLevel(r.pt, w), w) /\ f = EntryAt(WalkLevel(r.pt, w), w)
        BY <1>1, <3>1, <3>2, CoverUnique
      <3> QED
        BY <3>3
    <2>4. CASE ~(Old(e) /\ Old(f)) /\ ~(Tab(e) /\ Tab(f)) /\ ~(New(e) /\ New(f))
      <3>1. /\ Old(e) => p \in UserPages(pt)
            /\ Old(f) => p \in UserPages(pt)
            /\ Tab(e) => p \in N
            /\ Tab(f) => p \in N
            /\ New(e) => p \in J
            /\ New(f) => p \in J
        BY <1>3, <1>4, <1>5, <1>6
      <3>2. Old(e) \/ Tab(e) \/ New(e)
        BY <1>2
      <3>3. Old(f) \/ Tab(f) \/ New(f)
        BY <1>2
      <3> QED
        BY <2>4, <3>1, <3>2, <3>3
    <2> QED
      BY <2>1, <2>2, <2>3, <2>4
  <1>7. EntriesApart(r.pt)
    BY <1>6 DEF EntriesApart
  <1>8. ASSUME NEW p \in UserPages(r.pt) PROVE p \in UserPages(pt) \cup J \cup N
    <2>1. PICK e \in DOMAIN r.pt : p \in EntryPages(r.pt, e)
      BY DEF UserPages
    <2> QED
      BY <1>2, <1>3, <1>4, <1>5, <2>1
  <1> QED
    BY <1>7, <1>8

\* In the kernel's table: the pages of the tables made become the table's.
LEMMA MapKernelFacts ==
  ASSUME NEW pt, PtOK(pt), TablesApart(pt), NEW U, TablePages(pt) \subseteq U, U \subseteq Pages,
         NEW phys, NEW v0, NEW n, NEW r, MapLoop(pt, U, phys, v0, n, r)
  PROVE  /\ TablesApart(r.pt)
         /\ TablePages(r.pt) = TablePages(pt) \cup (r.used \ U)
  <1>1. ASSUME NEW e \in DOMAIN r.pt, IsTable(r.pt, e)
        PROVE  \/ e \in DOMAIN pt /\ r.pt[e] = pt[e] /\ IsTable(pt, e) /\ r.pt[e].page \in TablePages(pt)
               \/ e \notin DOMAIN pt /\ r.pt[e].page \in r.used \ U
    <2>1. ~NewMap(r.pt, e, phys, v0, r.next)
      BY <1>1 DEF NewMap, Maps, IsTable
    <2> QED
      BY <1>1, <2>1, MapEntries DEF IsTable, TablePages
  <1>2. TablesApart(r.pt)
    <2> SUFFICES ASSUME NEW e \in DOMAIN r.pt, NEW f \in DOMAIN r.pt, IsTable(r.pt, e), IsTable(r.pt, f),
                        r.pt[e].page = r.pt[f].page
                 PROVE  e = f
      BY DEF TablesApart
    <2>1. CASE e \in DOMAIN pt /\ f \in DOMAIN pt
      BY <1>1, <2>1 DEF TablesApart
    <2>2. CASE e \notin DOMAIN pt /\ f \notin DOMAIN pt
      BY <2>2 DEF MapLoop, IsTable
    <2>3. CASE ~(e \in DOMAIN pt /\ f \in DOMAIN pt) /\ ~(e \notin DOMAIN pt /\ f \notin DOMAIN pt)
      BY <1>1, <2>3
    <2> QED
      BY <2>1, <2>2, <2>3
  <1>3. TablePages(r.pt) \subseteq TablePages(pt) \cup (r.used \ U)
    BY <1>1 DEF TablePages
  <1>4. ASSUME NEW p \in TablePages(pt) PROVE p \in TablePages(r.pt)
    <2>1. PICK e \in DOMAIN pt : IsTable(pt, e) /\ pt[e].page = p
      BY DEF TablePages
    <2>2. e \in DOMAIN r.pt /\ r.pt[e] = pt[e]
      BY <2>1 DEF MapLoop, IsTable
    <2> QED
      BY <2>1, <2>2 DEF TablePages, IsTable
  <1>5. ASSUME NEW p \in r.used \ U PROVE p \in TablePages(r.pt)
    <2>1. PICK e \in DOMAIN r.pt \ DOMAIN pt : r.pt[e].kind = "table" /\ r.pt[e].page = p
      BY DEF MapLoop
    <2> QED
      BY <2>1 DEF TablePages, IsTable
  <1> QED
    BY <1>2, <1>3, <1>4, <1>5

\* unmap_range: the pages given to the callback are those no longer held.
LEMMA UnmapPhysical ==
  ASSUME NEW pt, PtOK(pt), NEW v0, NEW n, NEW r, UnmapLoop(pt, v0, n, r)
  PROVE  /\ EntriesApart(pt) => EntriesApart(r.pt) /\ UserPages(r.pt) = UserPages(pt) \ UNION r.regions
         /\ UNION r.regions \subseteq UserPages(pt)
         /\ TablePages(r.pt) = TablePages(pt)
         /\ TablesApart(pt) => TablesApart(r.pt)
  <1>1. /\ PtOK(r.pt) /\ DOMAIN r.pt \subseteq DOMAIN pt /\ \A e \in DOMAIN r.pt : r.pt[e] = pt[e]
        /\ \A e \in DOMAIN pt \ DOMAIN r.pt : pt[e].kind = "map"
        /\ UNION r.regions = UNION {PagesOf(pt, e) : e \in DOMAIN pt \ DOMAIN r.pt}
    BY DEF UnmapLoop
  <1>2. \A e \in DOMAIN r.pt : EntryPages(r.pt, e) = EntryPages(pt, e) /\ (IsTable(r.pt, e) <=> IsTable(pt, e))
    BY <1>1 DEF EntryPages, IsTable, PagesOf
  <1>3. \A e \in DOMAIN pt \ DOMAIN r.pt : EntryPages(pt, e) = PagesOf(pt, e) /\ ~IsTable(pt, e)
    BY <1>1 DEF EntryPages, IsTable
  <1>4. UNION r.regions = UNION {EntryPages(pt, e) : e \in DOMAIN pt \ DOMAIN r.pt}
    BY <1>1, <1>3
  <1>5. ASSUME EntriesApart(pt) PROVE EntriesApart(r.pt) /\ UserPages(r.pt) = UserPages(pt) \ UNION r.regions
    <2>1. EntriesApart(r.pt)
      BY <1>1, <1>2, <1>5 DEF EntriesApart
    <2>2. ASSUME NEW p \in UserPages(r.pt) PROVE p \in UserPages(pt) \ UNION r.regions
      <3>1. PICK e \in DOMAIN r.pt : p \in EntryPages(r.pt, e)
        BY DEF UserPages
      <3>2. e \in DOMAIN pt /\ p \in EntryPages(pt, e)
        BY <1>1, <1>2, <3>1
      <3>3. \A f \in DOMAIN pt \ DOMAIN r.pt : p \notin EntryPages(pt, f)
        BY <1>5, <3>1, <3>2 DEF EntriesApart
      <3> QED
        BY <1>4, <3>2, <3>3 DEF UserPages
    <2>3. ASSUME NEW p \in UserPages(pt) \ UNION r.regions PROVE p \in UserPages(r.pt)
      <3>1. PICK e \in DOMAIN pt : p \in EntryPages(pt, e)
        BY DEF UserPages
      <3>2. e \in DOMAIN r.pt
        BY <1>4, <2>3, <3>1
      <3> QED
        BY <1>2, <3>1, <3>2 DEF UserPages
    <2> QED
      BY <2>1, <2>2, <2>3
  <1>6. UNION r.regions \subseteq UserPages(pt)
    BY <1>4 DEF UserPages
  <1>7. TablePages(r.pt) = TablePages(pt)
    BY <1>1, <1>2, <1>3 DEF TablePages
  <1>8. TablesApart(pt) => TablesApart(r.pt)
    BY <1>1, <1>2 DEF TablesApart
  <1> QED
    BY <1>5, <1>6, <1>7, <1>8

\* What the drop of a process gives back is all that its table holds.
LEMMA DroppedPages ==
  ASSUME NEW pt, PtOK(pt)
  PROVE  MappedPages(pt) \cup TablePages(pt) = UserPages(pt)
  <1>1. \A e \in DOMAIN pt : IsTable(pt, e) \/ e \in Maps(pt)
    BY DEF PtOK, IsTable, Maps
  <1>2. \A e \in Maps(pt) : e \in DOMAIN pt /\ ~IsTable(pt, e)
    BY DEF Maps, IsTable
  <1>3. ASSUME NEW p \in UserPages(pt) PROVE p \in MappedPages(pt) \cup TablePages(pt)
    <2>1. PICK e \in DOMAIN pt : p \in EntryPages(pt, e)
      BY DEF UserPages
    <2>2. CASE IsTable(pt, e)
      BY <2>1, <2>2 DEF EntryPages, TablePages
    <2>3. CASE ~IsTable(pt, e)
      BY <1>1, <2>1, <2>3 DEF EntryPages, MappedPages
    <2> QED
      BY <2>2, <2>3
  <1>4. ASSUME NEW p \in MappedPages(pt) PROVE p \in UserPages(pt)
    <2>1. PICK e \in Maps(pt) : p \in PagesOf(pt, e)
      BY DEF MappedPages
    <2> QED
      BY <1>2, <2>1 DEF UserPages, EntryPages
  <1>5. ASSUME NEW p \in TablePages(pt) PROVE p \in UserPages(pt)
    <2>1. PICK e \in DOMAIN pt : IsTable(pt, e) /\ pt[e].page = p
      BY DEF TablePages
    <2> QED
      BY <2>1 DEF UserPages, EntryPages
  <1> QED
    BY <1>3, <1>4, <1>5

\* The empty table.
LEMMA NoEntriesFacts ==
  /\ PtOK(NoEntries) /\ EntriesApart(NoEntries) /\ TablesApart(NoEntries)
  /\ UserPages(NoEntries) = {} /\ TablePages(NoEntries) = {} /\ Maps(NoEntries) = {} /\ DOMAIN NoEntries = {}
  <1>1. DOMAIN NoEntries = {}
    BY DEF NoEntries
  <1> HIDE DEF NoEntries
  <1>2. PtOK(NoEntries) /\ EntriesApart(NoEntries) /\ TablesApart(NoEntries)
    BY <1>1 DEF PtOK, EntriesApart, TablesApart
  <1>3. UserPages(NoEntries) = {} /\ TablePages(NoEntries) = {} /\ Maps(NoEntries) = {}
    BY <1>1 DEF UserPages, TablePages, Maps
  <1> QED
    BY <1>1, <1>2, <1>3

-----------------------------------------------------------------------------
(* Kernel buffers. *)

\* The state of kernel memory in the steps of a buffer.
KMemOK(m) ==
  /\ m = [used |-> m.used, ktable |-> m.ktable, kfree |-> m.kfree, state |-> m.state, base |-> m.base, addr |-> m.addr]
  /\ m.used \subseteq Pages /\ PtOK(m.ktable) /\ TablesApart(m.ktable) /\ TablePages(m.ktable) \subseteq m.used
  /\ m.kfree \in Seq(Block) /\ m.state \in {"ok", "error", "panic"}
  /\ m.base \in Nat /\ m.addr \in Nat

\* r is m with a buffer of n pages: its pages and the tables made were clear.
Buffered(m, r, n) ==
  /\ KMemOK(r) /\ m.used \subseteq r.used
  /\ TablePages(m.ktable) \subseteq TablePages(r.ktable)
  /\ TablePages(r.ktable) \subseteq TablePages(m.ktable) \cup (r.used \ m.used)
  /\ r.state = "ok" =>
       /\ PagesFrom(r.base, n) \subseteq r.used \ m.used
       /\ TablePages(r.ktable) = TablePages(m.ktable) \cup ((r.used \ m.used) \ PagesFrom(r.base, n))

\* PhysicalBuffer::alloc takes free pages only, for the buffer and for tables.
LEMMA BufferAllocFacts ==
  ASSUME NEW m, KMemOK(m), NEW n \in Nat \ {0}
  PROVE  Buffered(m, BufferAlloc(m, n), n)
  <1> DEFINE p == AllocContig(m.used, n)
             a == VAlloc(m.kfree, n)
             V == m.used \cup PagesFrom(p.base, n)
             r == MapRange(m.ktable, V, p.base, a.addr, n)
             z == BufferAlloc(m, n)
  <1>1. z = IF ~p.ok THEN [m EXCEPT !.state = "error"]
            ELSE IF ~a.ok THEN [m EXCEPT !.used = V, !.state = "error"]
            ELSE [used |-> r.used, ktable |-> r.pt, kfree |-> a.list, base |-> p.base,
                  addr |-> a.addr, state |-> IF r.state = "ok" THEN "ok" ELSE "panic"]
    BY DEF BufferAlloc
  <1>2. p.ok => p.base \in Nat /\ PagesFrom(p.base, n) \subseteq Pages \ m.used
    <2>1. p.ok => p.base \in Pages /\ PagesFrom(p.base, n) \subseteq Pages \ m.used
      BY AllocContigFacts
    <2>2. Pages \subseteq Nat
      BY PhysicalMemoryAssumption DEF Pages
    <2> QED
      BY <2>1, <2>2
  <1>3. a.ok \in BOOLEAN /\ a.list \in Seq(Block) /\ (a.ok => a.addr \in Nat)
    BY VAllocFacts DEF KMemOK
  <1> HIDE DEF p, a, z
  <1>4. /\ m = [used |-> m.used, ktable |-> m.ktable, kfree |-> m.kfree, state |-> m.state, base |-> m.base, addr |-> m.addr]
        /\ m.used \subseteq Pages /\ PtOK(m.ktable) /\ TablesApart(m.ktable) /\ TablePages(m.ktable) \subseteq m.used
        /\ m.kfree \in Seq(Block) /\ m.base \in Nat /\ m.addr \in Nat
    BY DEF KMemOK
  <1>5. CASE ~p.ok
    <2>1. /\ z.used = m.used /\ z.ktable = m.ktable /\ z.kfree = m.kfree /\ z.state = "error"
          /\ z.base = m.base /\ z.addr = m.addr
          /\ z = [used |-> z.used, ktable |-> z.ktable, kfree |-> z.kfree, state |-> z.state, base |-> z.base, addr |-> z.addr]
      BY <1>1, <1>4, <1>5
    <2>2. KMemOK(z)
      BY <1>4, <2>1 DEF KMemOK
    <2> QED
      BY <2>1, <2>2 DEF Buffered, z
  <1>6. CASE p.ok /\ ~a.ok
    <2>1. /\ z.used = V /\ z.ktable = m.ktable /\ z.kfree = m.kfree /\ z.state = "error"
          /\ z.base = m.base /\ z.addr = m.addr
          /\ z = [used |-> z.used, ktable |-> z.ktable, kfree |-> z.kfree, state |-> z.state, base |-> z.base, addr |-> z.addr]
      BY <1>1, <1>4, <1>6
    <2>2. V \subseteq Pages /\ m.used \subseteq V
      BY <1>2, <1>4, <1>6
    <2> HIDE DEF V
    <2>3. KMemOK(z)
      BY <1>4, <2>1, <2>2 DEF KMemOK
    <2> QED
      BY <2>1, <2>2, <2>3 DEF Buffered, z
  <1>7. CASE p.ok /\ a.ok
    <2>1. V \subseteq Pages /\ m.used \subseteq V /\ TablePages(m.ktable) \subseteq V /\ PagesFrom(p.base, n) \subseteq Pages
          /\ V \ m.used = PagesFrom(p.base, n)
      BY <1>2, <1>4, <1>7
    <2>2. p.base \in Nat /\ a.addr \in Nat
      BY <1>2, <1>3, <1>7
    <2> HIDE DEF V
    <2>3. MapLoop(m.ktable, V, p.base, a.addr \div PAGE_SIZE, n, r)
      BY <1>4, <2>1, <2>2, MapRangeFacts
    <2> HIDE DEF r
    <2>4. PtOK(r.pt) /\ V \subseteq r.used /\ r.used \subseteq Pages
      BY <2>3 DEF MapLoop
    <2>5. TablesApart(r.pt) /\ TablePages(r.pt) = TablePages(m.ktable) \cup (r.used \ V)
      <3> DEFINE v0 == a.addr \div PAGE_SIZE
                 pt == m.ktable
                 b == p.base
      <3>1. PtOK(pt) /\ TablesApart(pt) /\ TablePages(pt) \subseteq V /\ V \subseteq Pages /\ MapLoop(pt, V, b, v0, n, r)
        BY <1>4, <2>1, <2>3
      <3> HIDE DEF v0, pt, b
      <3>2. TablesApart(r.pt) /\ TablePages(r.pt) = TablePages(pt) \cup (r.used \ V)
        BY <3>1, MapKernelFacts
      <3> QED
        BY <3>2 DEF pt
    <2>6. /\ z.used = r.used /\ z.ktable = r.pt /\ z.kfree = a.list /\ z.state \in {"ok", "panic"}
          /\ z.base = p.base /\ z.addr = a.addr
          /\ z = [used |-> z.used, ktable |-> z.ktable, kfree |-> z.kfree, state |-> z.state, base |-> z.base, addr |-> z.addr]
      BY <1>1, <1>7
    <2>7. TablePages(r.pt) \subseteq r.used
      BY <2>1, <2>4, <2>5
    <2>8. KMemOK(z)
      BY <1>3, <2>2, <2>4, <2>5, <2>6, <2>7 DEF KMemOK
    <2>9. PagesFrom(p.base, n) \subseteq r.used \ m.used /\ r.used \ V = (r.used \ m.used) \ PagesFrom(p.base, n)
      BY <2>1, <2>4
    <2>10. TablePages(z.ktable) = TablePages(m.ktable) \cup ((z.used \ m.used) \ PagesFrom(z.base, n))
      BY <2>5, <2>6, <2>9
    <2>11. PagesFrom(z.base, n) \subseteq z.used \ m.used /\ m.used \subseteq z.used
      BY <2>1, <2>4, <2>6, <2>9
    <2> QED
      BY <2>8, <2>10, <2>11 DEF Buffered, z
  <1> QED
    BY <1>2, <1>3, <1>5, <1>6, <1>7

\* The mapping of a buffer goes, its pages stay.
LEMMA UnmapVirtualFacts ==
  ASSUME NEW m, KMemOK(m), NEW b, b.addr \in Nat, b.pages \in Nat \ {0}
  PROVE  LET r == UnmapVirtual(m, b)
         IN  /\ KMemOK(r) /\ r.used = m.used /\ r.state = m.state /\ r.base = m.base /\ r.addr = m.addr
             /\ TablePages(r.ktable) = TablePages(m.ktable)
             /\ r.ktable = UnmapRange(m.ktable, b.addr, b.pages).pt
             /\ r.kfree = VFree(m.kfree, b.addr, b.pages)
  <1> DEFINE u == UnmapRange(m.ktable, b.addr, b.pages)
             f == VFree(m.kfree, b.addr, b.pages)
             r == UnmapVirtual(m, b)
  <1>1. /\ m = [used |-> m.used, ktable |-> m.ktable, kfree |-> m.kfree, state |-> m.state, base |-> m.base, addr |-> m.addr]
        /\ m.used \subseteq Pages /\ PtOK(m.ktable) /\ TablesApart(m.ktable) /\ TablePages(m.ktable) \subseteq m.used
        /\ m.kfree \in Seq(Block) /\ m.base \in Nat /\ m.addr \in Nat /\ m.state \in {"ok", "error", "panic"}
    BY DEF KMemOK
  <1>2. r = [m EXCEPT !.ktable = u.pt, !.kfree = f]
    BY DEF UnmapVirtual
  <1>3. UnmapLoop(m.ktable, b.addr \div PAGE_SIZE, b.pages, u)
    <2>1. b.pages \in Nat
      OBVIOUS
    <2> QED
      BY <1>1, <2>1, UnmapRangeFacts
  <1>4. f \in Seq(Block)
    BY <1>1, VFreeFacts
  <1> HIDE DEF u, f, r
  <1>5. PtOK(u.pt) /\ TablePages(u.pt) = TablePages(m.ktable) /\ TablesApart(u.pt)
    <2> DEFINE v0 == b.addr \div PAGE_SIZE
               n == b.pages
               pt == m.ktable
    <2>1. PtOK(pt) /\ UnmapLoop(pt, v0, n, u) /\ TablesApart(pt)
      BY <1>1, <1>3
    <2> HIDE DEF v0, n, pt
    <2>2. TablePages(u.pt) = TablePages(pt) /\ TablesApart(u.pt)
      BY <2>1, UnmapPhysical
    <2>3. PtOK(u.pt)
      BY <2>1 DEF UnmapLoop
    <2> QED
      BY <2>2, <2>3 DEF pt
  <1>6. /\ r.used = m.used /\ r.ktable = u.pt /\ r.kfree = f /\ r.state = m.state /\ r.base = m.base /\ r.addr = m.addr
        /\ r = [used |-> r.used, ktable |-> r.ktable, kfree |-> r.kfree, state |-> r.state, base |-> r.base, addr |-> r.addr]
    BY <1>1, <1>2
  <1>7. KMemOK(r)
    BY <1>1, <1>4, <1>5, <1>6 DEF KMemOK
  <1> QED
    BY <1>5, <1>6, <1>7 DEF r, u, f

\* PhysicalBuffer::drop gives back the pages of the buffer; the tables stay.
LEMMA BufferDropFacts ==
  ASSUME NEW m, KMemOK(m), NEW b, b.addr \in Nat, b.pages \in Nat \ {0},
         PagesFrom(b.base, b.pages) \cap TablePages(m.ktable) = {}
  PROVE  LET r == BufferDrop(m, b)
         IN  /\ KMemOK(r) /\ r.used = m.used \ PagesFrom(b.base, b.pages)
             /\ TablePages(r.ktable) = TablePages(m.ktable)
             /\ r.ktable = UnmapRange(m.ktable, b.addr, b.pages).pt
             /\ r.kfree = VFree(m.kfree, b.addr, b.pages)
  <1> DEFINE k == UnmapVirtual(m, b)
             r == BufferDrop(m, b)
             P == PagesFrom(b.base, b.pages)
  <1>1. /\ KMemOK(k) /\ k.used = m.used /\ k.state = m.state /\ k.base = m.base /\ k.addr = m.addr
        /\ TablePages(k.ktable) = TablePages(m.ktable)
        /\ k.ktable = UnmapRange(m.ktable, b.addr, b.pages).pt
        /\ k.kfree = VFree(m.kfree, b.addr, b.pages)
    BY UnmapVirtualFacts
  <1>2. r = [k EXCEPT !.used = k.used \ P]
    BY DEF BufferDrop, FreePages
  <1>5. P \cap TablePages(m.ktable) = {}
    OBVIOUS
  <1> HIDE DEF k, r, P
  <1>3. /\ k = [used |-> k.used, ktable |-> k.ktable, kfree |-> k.kfree, state |-> k.state, base |-> k.base, addr |-> k.addr]
        /\ k.used \subseteq Pages /\ PtOK(k.ktable) /\ TablesApart(k.ktable) /\ TablePages(k.ktable) \subseteq k.used
        /\ k.kfree \in Seq(Block) /\ k.base \in Nat /\ k.addr \in Nat /\ k.state \in {"ok", "error", "panic"}
    BY <1>1 DEF KMemOK
  <1>4. /\ r.used = k.used \ P /\ r.ktable = k.ktable /\ r.kfree = k.kfree /\ r.state = k.state /\ r.base = k.base /\ r.addr = k.addr
        /\ r = [used |-> r.used, ktable |-> r.ktable, kfree |-> r.kfree, state |-> r.state, base |-> r.base, addr |-> r.addr]
    BY <1>2, <1>3
  <1>6. KMemOK(r)
    BY <1>1, <1>3, <1>4, <1>5 DEF KMemOK
  <1> QED
    BY <1>1, <1>4, <1>6 DEF r, P

-----------------------------------------------------------------------------
(* Loading a binary. *)

\* Two fields of a record replaced.
LEMMA TwoFields ==
  ASSUME NEW s, s = [mem |-> s.mem, pt |-> s.pt, list |-> s.list], NEW x, NEW y,
         NEW w, w = [s EXCEPT !.mem = x, !.pt = y]
  PROVE  w = [mem |-> x, pt |-> y, list |-> s.list]
  <1>1. w.mem = x /\ w.pt = y /\ w.list = s.list
    OBVIOUS
  <1>2. w = [mem |-> w.mem, pt |-> w.pt, list |-> w.list]
    OBVIOUS
  <1> QED
    BY <1>1, <1>2

\* The outcomes of load_segment.
LEMMA LoadSegmentCases ==
  ASSUME NEW s, s = [mem |-> s.mem, pt |-> s.pt, list |-> s.list], KMemOK(s.mem), NEW seg, seg.pages \in Nat \ {0}
  PROVE  LET m == BufferAlloc(s.mem, seg.pages)
             k == UnmapVirtual(m, [addr |-> m.addr, pages |-> seg.pages])
             r == MapRange(s.pt, k.used, k.base, Bytes(seg.page), seg.pages)
             v == VReserve(s.list, Bytes(seg.page), seg.pages)
             z == LoadSegment(s, seg)
         IN  \/ s.mem.state # "ok" /\ z = s
             \/ s.mem.state = "ok" /\ m.state # "ok" /\ z = [mem |-> m, pt |-> s.pt, list |-> s.list]
             \/ /\ s.mem.state = "ok" /\ m.state = "ok" /\ r.state # "ok"
                /\ z = [mem |-> [k EXCEPT !.used = r.used, !.state = r.state], pt |-> r.pt, list |-> s.list]
             \/ /\ s.mem.state = "ok" /\ m.state = "ok" /\ r.state = "ok"
                /\ z = [mem |-> [k EXCEPT !.used = r.used, !.state = IF v.ok THEN "ok" ELSE "panic"],
                        pt |-> r.pt, list |-> v.list]
  <1> DEFINE m == BufferAlloc(s.mem, seg.pages)
             k == UnmapVirtual(m, [addr |-> m.addr, pages |-> seg.pages])
             r == MapRange(s.pt, k.used, k.base, Bytes(seg.page), seg.pages)
             v == VReserve(s.list, Bytes(seg.page), seg.pages)
             z == LoadSegment(s, seg)
  <1>1. z = IF s.mem.state # "ok" THEN s
            ELSE IF m.state # "ok" THEN [s EXCEPT !.mem = m]
            ELSE IF r.state # "ok"
              THEN [s EXCEPT !.mem = [k EXCEPT !.used = r.used, !.state = r.state], !.pt = r.pt]
            ELSE [mem |-> [k EXCEPT !.used = r.used, !.state = IF v.ok THEN "ok" ELSE "panic"],
                  pt |-> r.pt, list |-> v.list]
    BY DEF LoadSegment
  <1> HIDE DEF m, k, r, v, z
  <1>2. [s EXCEPT !.mem = m] = [mem |-> m, pt |-> s.pt, list |-> s.list]
    OBVIOUS
  <1>3. [s EXCEPT !.mem = [k EXCEPT !.used = r.used, !.state = r.state], !.pt = r.pt]
          = [mem |-> [k EXCEPT !.used = r.used, !.state = r.state], pt |-> r.pt, list |-> s.list]
    <2> DEFINE q == [k EXCEPT !.used = r.used, !.state = r.state]
    <2> HIDE DEF q
    <2> DEFINE w == [s EXCEPT !.mem = q, !.pt = r.pt]
    <2>2. w = [s EXCEPT !.mem = q, !.pt = r.pt]
      OBVIOUS
    <2> HIDE DEF w
    <2>1. w = [mem |-> q, pt |-> r.pt, list |-> s.list]
      BY <2>2, TwoFields
    <2> QED
      BY <2>1 DEF q, w
  <1> QED
    BY <1>1, <1>2, <1>3 DEF m, k, r, v, z

\* The segments loaded so far, after memory was m0: what the process's table
\* holds and the kernel's new tables were clear then.
LoadOK(m0, s) ==
  /\ s = [mem |-> s.mem, pt |-> s.pt, list |-> s.list]
  /\ KMemOK(s.mem) /\ PtOK(s.pt) /\ EntriesApart(s.pt) /\ s.list \in Seq(Block)
  /\ m0.used \subseteq s.mem.used
  /\ UserPages(s.pt) \subseteq s.mem.used \ m0.used
  /\ TablePages(s.mem.ktable) \subseteq TablePages(m0.ktable) \cup (s.mem.used \ m0.used)
  /\ UserPages(s.pt) \cap TablePages(s.mem.ktable) = {}

\* load_segment takes free pages only.
LEMMA LoadSegmentPhysical ==
  ASSUME NEW m0, KMemOK(m0), NEW s, LoadOK(m0, s), NEW seg, seg.page \in Nat, seg.pages \in Nat \ {0}
  PROVE  LoadOK(m0, LoadSegment(s, seg))
  <1> DEFINE n == seg.pages
             va == Bytes(seg.page)
             m == BufferAlloc(s.mem, n)
             k == UnmapVirtual(m, [addr |-> m.addr, pages |-> n])
             r == MapRange(s.pt, k.used, k.base, va, n)
             v == VReserve(s.list, va, n)
             z == LoadSegment(s, seg)
  <1>1. /\ s = [mem |-> s.mem, pt |-> s.pt, list |-> s.list]
        /\ KMemOK(s.mem) /\ PtOK(s.pt) /\ EntriesApart(s.pt) /\ s.list \in Seq(Block)
        /\ m0.used \subseteq s.mem.used /\ UserPages(s.pt) \subseteq s.mem.used \ m0.used
        /\ TablePages(s.mem.ktable) \subseteq TablePages(m0.ktable) \cup (s.mem.used \ m0.used)
        /\ UserPages(s.pt) \cap TablePages(s.mem.ktable) = {}
    BY DEF LoadOK
  <1>2. \/ s.mem.state # "ok" /\ z = s
        \/ s.mem.state = "ok" /\ m.state # "ok" /\ z = [mem |-> m, pt |-> s.pt, list |-> s.list]
        \/ /\ s.mem.state = "ok" /\ m.state = "ok" /\ r.state # "ok"
           /\ z = [mem |-> [k EXCEPT !.used = r.used, !.state = r.state], pt |-> r.pt, list |-> s.list]
        \/ /\ s.mem.state = "ok" /\ m.state = "ok" /\ r.state = "ok"
           /\ z = [mem |-> [k EXCEPT !.used = r.used, !.state = IF v.ok THEN "ok" ELSE "panic"],
                   pt |-> r.pt, list |-> v.list]
    BY <1>1, LoadSegmentCases
  <1>3. n \in Nat \ {0} /\ va \in Nat
    BY BytesFacts
  <1>4. Buffered(s.mem, m, n)
    BY <1>1, <1>3, BufferAllocFacts
  <1>5. v.list \in Seq(Block)
    BY <1>1, <1>3, VReserveTyped
  <1> HIDE DEF m, v, z, va, n
  <1>6. /\ KMemOK(m) /\ s.mem.used \subseteq m.used
        /\ TablePages(s.mem.ktable) \subseteq TablePages(m.ktable)
        /\ TablePages(m.ktable) \subseteq TablePages(s.mem.ktable) \cup (m.used \ s.mem.used)
        /\ m.state = "ok" =>
             /\ PagesFrom(m.base, n) \subseteq m.used \ s.mem.used
             /\ TablePages(m.ktable) = TablePages(s.mem.ktable) \cup ((m.used \ s.mem.used) \ PagesFrom(m.base, n))
    BY <1>4 DEF Buffered
  <1>7. CASE s.mem.state = "ok" /\ m.state # "ok" /\ z = [mem |-> m, pt |-> s.pt, list |-> s.list]
    <2>1. z.mem = m /\ z.pt = s.pt /\ z.list = s.list /\ z = [mem |-> z.mem, pt |-> z.pt, list |-> z.list]
      BY <1>7
    <2>2. /\ m0.used \subseteq m.used /\ UserPages(s.pt) \subseteq m.used \ m0.used
          /\ TablePages(m.ktable) \subseteq TablePages(m0.ktable) \cup (m.used \ m0.used)
          /\ UserPages(s.pt) \cap TablePages(m.ktable) = {}
      BY <1>1, <1>6
    <2> QED
      BY <1>1, <1>6, <2>1, <2>2 DEF LoadOK, z
  <1>8. ASSUME m.state = "ok", NEW state \in {"ok", "error", "panic"}, NEW list \in Seq(Block),
               z = [mem |-> [k EXCEPT !.used = r.used, !.state = state], pt |-> r.pt, list |-> list]
        PROVE  LoadOK(m0, z)
    <2> DEFINE b == [addr |-> m.addr, pages |-> n]
               P == PagesFrom(m.base, n)
               v0 == va \div PAGE_SIZE
    <2>1. b.addr \in Nat /\ b.pages \in Nat \ {0}
      BY <1>3, <1>6 DEF KMemOK
    <2>2. /\ KMemOK(k) /\ k.used = m.used /\ k.state = m.state /\ k.base = m.base /\ k.addr = m.addr
          /\ TablePages(k.ktable) = TablePages(m.ktable)
      BY <1>6, <2>1, UnmapVirtualFacts
    <2>3. m.base \in Nat /\ m.used \subseteq Pages /\ P \subseteq m.used \ s.mem.used /\ n \in Nat /\ v0 \in Nat /\ P \subseteq Pages
      <3>1. m.base \in Nat /\ m.used \subseteq Pages
        BY <1>6 DEF KMemOK
      <3>2. P \subseteq m.used \ s.mem.used
        BY <1>6, <1>8
      <3>3. v0 \in Nat
        BY <1>3, PageSizeAssumption
      <3> QED
        BY <1>3, <3>1, <3>2, <3>3
    <2>9. r = MapRange(s.pt, m.used, m.base, va, n)
      BY <2>2
    <2> HIDE DEF b, k, r, P
    <2>4. MapLoop(s.pt, m.used, m.base, v0, n, r)
      <3>1. PagesFrom(m.base, n) \subseteq Pages
        BY <2>3 DEF P
      <3> QED
        BY <1>1, <1>3, <2>3, <2>9, <3>1, MapRangeFacts
    <2>5. PtOK(r.pt) /\ m.used \subseteq r.used /\ r.used \subseteq Pages
      BY <2>4 DEF MapLoop
    <2>6. EntriesApart(r.pt) /\ UserPages(r.pt) \subseteq UserPages(s.pt) \cup P \cup (r.used \ m.used)
      <3> DEFINE pt == s.pt
                 U == m.used
                 ph == m.base
      <3>1. /\ PtOK(pt) /\ EntriesApart(pt) /\ UserPages(pt) \subseteq U /\ U \subseteq Pages
            /\ ph \in Nat /\ PagesFrom(ph, n) \subseteq U /\ PagesFrom(ph, n) \cap UserPages(pt) = {}
            /\ MapLoop(pt, U, ph, v0, n, r)
        BY <1>1, <1>6, <2>3, <2>4 DEF P
      <3> HIDE DEF pt, U, ph, v0
      <3>2. /\ EntriesApart(r.pt)
            /\ UserPages(r.pt) \subseteq UserPages(pt) \cup PagesFrom(ph, n) \cup (r.used \ U)
        BY <2>3, <3>1, MapUserFacts
      <3> QED
        BY <3>2 DEF pt, U, ph, P
    <2> DEFINE q == [k EXCEPT !.used = r.used, !.state = state]
    <2>7. /\ q.used = r.used /\ q.ktable = k.ktable /\ q.kfree = k.kfree /\ q.state = state /\ q.base = k.base /\ q.addr = k.addr
          /\ q = [used |-> q.used, ktable |-> q.ktable, kfree |-> q.kfree, state |-> q.state, base |-> q.base, addr |-> q.addr]
      <3>1. k = [used |-> k.used, ktable |-> k.ktable, kfree |-> k.kfree, state |-> k.state, base |-> k.base, addr |-> k.addr]
        BY <2>2 DEF KMemOK
      <3>2. q = [k EXCEPT !.used = r.used, !.state = state]
        OBVIOUS
      <3> HIDE DEF q
      <3> QED
        BY <3>1, <3>2
    <2>8. z.mem = q /\ z.pt = r.pt /\ z.list = list /\ z = [mem |-> z.mem, pt |-> z.pt, list |-> z.list]
      BY <1>8
    <2> HIDE DEF q
    <2>10. TablePages(k.ktable) = TablePages(s.mem.ktable) \cup ((m.used \ s.mem.used) \ P)
      BY <1>6, <1>8, <2>2 DEF P
    <2>11. KMemOK(q)
      <3>1. TablePages(k.ktable) \subseteq r.used
        BY <1>6, <2>2, <2>5 DEF KMemOK
      <3> QED
        BY <2>2, <2>5, <2>7, <3>1 DEF KMemOK
    <2>12. TablePages(s.mem.ktable) \subseteq s.mem.used
      BY <1>1 DEF KMemOK
    <2>13. /\ m0.used \subseteq r.used /\ UserPages(r.pt) \subseteq r.used \ m0.used
           /\ TablePages(k.ktable) \subseteq TablePages(m0.ktable) \cup (r.used \ m0.used)
           /\ UserPages(r.pt) \cap TablePages(k.ktable) = {}
      BY <1>1, <1>6, <2>3, <2>5, <2>6, <2>10, <2>12
    <2> QED
      BY <2>5, <2>6, <2>7, <2>8, <2>11, <2>13 DEF LoadOK
  <1>9. r.state \in {"ok", "error", "panic"} \/ m.state # "ok"
    <2> SUFFICES ASSUME m.state = "ok" PROVE r.state \in {"ok", "error", "panic"}
      OBVIOUS
    <2> DEFINE b == [addr |-> m.addr, pages |-> n]
    <2>1. b.addr \in Nat /\ b.pages \in Nat \ {0}
      BY <1>3, <1>6 DEF KMemOK
    <2>2. k.used = m.used /\ k.base = m.base
      BY <1>6, <2>1, UnmapVirtualFacts
    <2>3. m.base \in Nat /\ m.used \subseteq Pages /\ n \in Nat /\ PagesFrom(m.base, n) \subseteq Pages
      BY <1>3, <1>6 DEF KMemOK
    <2>4. MapLoop(s.pt, m.used, m.base, va \div PAGE_SIZE, n, r)
      BY <1>1, <1>3, <2>2, <2>3, MapRangeFacts
    <2> QED
      BY <2>4 DEF MapLoop
  <1> QED
    BY <1>1, <1>2, <1>5, <1>7, <1>8, <1>9 DEF z

\* The segments of the binary.
LEMMA SegmentFacts ==
  /\ Len(Segments) \in Nat /\ DOMAIN Segments = 1..Len(Segments)
  /\ \A k \in 1..Len(Segments) : Segments[k].page \in Nat /\ Segments[k].pages \in Nat \ {0}
  <1> DEFINE S == [page : Nat, pages : Nat \ {0}]
  <1>1. Segments \in Seq(S)
    BY AddressSpaceAssumption
  <1>2. \A x \in S : x.page \in Nat /\ x.pages \in Nat \ {0}
    OBVIOUS
  <1> HIDE DEF S
  <1>3. \A k \in 1..Len(Segments) : Segments[k] \in S
    BY <1>1
  <1>4. Len(Segments) \in Nat /\ DOMAIN Segments = 1..Len(Segments)
    BY <1>1
  <1> QED
    BY <1>2, <1>3, <1>4

\* The state before the first segment.
LEMMA LoadStartOK ==
  ASSUME NEW m0, KMemOK(m0)
  PROVE  LoadOK(m0, [mem |-> m0, pt |-> NoEntries, list |-> NewList(PAGE_SIZE, VaPages)])
  <1> DEFINE start == [mem |-> m0, pt |-> NoEntries, list |-> NewList(PAGE_SIZE, VaPages)]
  <1>1. NewList(PAGE_SIZE, VaPages) \in Seq(Block)
    BY PageSizeAssumption, AddressSpaceAssumption DEF NewList, Block
  <1>2. start.mem = m0 /\ start.pt = NoEntries /\ start.list = NewList(PAGE_SIZE, VaPages)
        /\ start = [mem |-> start.mem, pt |-> start.pt, list |-> start.list]
    OBVIOUS
  <1> HIDE DEF start
  <1>3. PtOK(start.pt) /\ EntriesApart(start.pt) /\ UserPages(start.pt) = {}
    BY <1>2, NoEntriesFacts
  <1>4. LoadOK(m0, start)
    BY <1>1, <1>2, <1>3 DEF LoadOK
  <1> QED
    BY <1>4 DEF start

\* LoadBinary keeps what load_segment keeps.
LEMMA LoadBinaryPhysical ==
  ASSUME NEW file, NEW top, NEW m0, m0 = [file EXCEPT !.used = @ \cup {top.base}], KMemOK(m0)
  PROVE  LoadOK(m0, LoadBinary(file, top))
  <1> DEFINE N == Len(Segments)
             start == [mem |-> m0, pt |-> NoEntries, list |-> NewList(PAGE_SIZE, VaPages)]
  <1>1. PICK h : /\ h[0] = start /\ LoadBinary(file, top) = h[N]
                 /\ \A k \in 1..N : h[k] = LoadSegment(h[k - 1], Segments[k])
    BY LoadBinaryTurns
  <1>2. N \in Nat /\ \A k \in 1..N : Segments[k].page \in Nat /\ Segments[k].pages \in Nat \ {0}
    BY SegmentFacts
  <1>3. LoadOK(m0, start)
    BY LoadStartOK
  <1> HIDE DEF start, N
  <1> DEFINE G == {k \in 0..N : LoadOK(m0, h[k])}
  <1>4. 0 \in G
    BY <1>1, <1>2, <1>3
  <1>5. \A k \in 0..(N - 1) : k \in G => k + 1 \in G
    <2> SUFFICES ASSUME NEW k \in 0..(N - 1), k \in G PROVE k + 1 \in G
      OBVIOUS
    <2>1. k + 1 \in 1..N /\ (k + 1) - 1 = k /\ k + 1 \in 0..N
      BY <1>2
    <2>2. h[k + 1] = LoadSegment(h[k], Segments[k + 1])
      BY <1>1, <2>1
    <2>3. Segments[k + 1].page \in Nat /\ Segments[k + 1].pages \in Nat \ {0}
      BY <1>2, <2>1
    <2>4. LoadOK(m0, LoadSegment(h[k], Segments[k + 1]))
      BY <2>3, LoadSegmentPhysical
    <2> QED
      BY <2>1, <2>2, <2>4
  <1> HIDE DEF G
  <1>6. \A k \in 0..N : k \in G
    BY <1>2, <1>4, <1>5, Induction
  <1>7. N \in G
    BY <1>2, <1>6
  <1> QED
    BY <1>1, <1>7 DEF G

\* spawn_process as a function of kernel memory.
Spawn(m) ==
  LET file == BufferAlloc(m, FilePages)
      top == AllocContig(file.used, 1)
  IN  Loaded(file, top, LoadBinary(file, top))

\* The outcomes of spawn_process.
LEMMA SpawnCases ==
  ASSUME NEW m
  PROVE  LET file == BufferAlloc(m, FilePages)
             top == AllocContig(file.used, 1)
             s == LoadBinary(file, top)
             buffer == [base |-> file.base, addr |-> file.addr, pages |-> FilePages]
             made == {top.base} \cup TablePages(s.pt)
             end == Spawn(m)
         IN  \/ /\ file.state # "ok"
                /\ ~end.ok /\ end.mem = file /\ end.state = file.state
                /\ end.root = -1 /\ end.pt = NoEntries /\ end.list = <<>>
             \/ /\ file.state = "ok" /\ ~top.ok
                /\ ~end.ok /\ end.mem = BufferDrop(file, buffer) /\ end.state = "error"
                /\ end.root = -1 /\ end.pt = NoEntries /\ end.list = <<>>
             \/ /\ file.state = "ok" /\ top.ok /\ s.mem.state # "ok"
                /\ ~end.ok /\ end.mem = BufferDrop([s.mem EXCEPT !.used = s.mem.used \ made], buffer)
                /\ end.state = s.mem.state
                /\ end.root = -1 /\ end.pt = NoEntries /\ end.list = <<>>
             \/ /\ file.state = "ok" /\ top.ok /\ s.mem.state = "ok"
                /\ end.ok /\ end.mem = BufferDrop(s.mem, buffer) /\ end.state = "ok"
                /\ end.root = top.base /\ end.pt = s.pt /\ end.list = s.list
  <1> DEFINE file == BufferAlloc(m, FilePages)
             top == AllocContig(file.used, 1)
             s == LoadBinary(file, top)
             end == Spawn(m)
  <1>1. end = Loaded(file, top, s)
    BY DEF Spawn
  <1> HIDE DEF file, top, s, end
  <1>2. QED
    BY <1>1 DEF Loaded, file, top, s, end
\* What spawn_process leaves: pages that were clear are the process's, new
\* tables of the kernel, or lost.
Spawned(m, end) ==
  /\ KMemOK(end.mem) /\ m.used \subseteq end.mem.used
  /\ TablePages(end.mem.ktable) \subseteq TablePages(m.ktable) \cup (end.mem.used \ m.used)
  /\ end.state \in {"ok", "error", "panic"}
  /\ ~end.ok => end.root = -1 /\ end.pt = NoEntries /\ end.list = <<>>
  /\ end.ok => /\ end.root \in Pages /\ end.root \in end.mem.used \ m.used
               /\ end.root \notin TablePages(end.mem.ktable) /\ end.root \notin UserPages(end.pt)
               /\ PtOK(end.pt) /\ EntriesApart(end.pt) /\ end.list \in Seq(Block)
               /\ UserPages(end.pt) \subseteq end.mem.used \ m.used
               /\ UserPages(end.pt) \cap TablePages(end.mem.ktable) = {}

\* The parts of spawn_process: the buffer of the file, the root of the table
\* and what loading the segments has taken.
SpawnParts(m, file, top, s, made, m0, m1) ==
  /\ FilePages \in Nat \ {0} /\ Buffered(m, file, FilePages)
  /\ top.ok =>
       /\ top.base \in Pages \ file.used
       /\ KMemOK(m0) /\ m0.used = file.used \cup {top.base} /\ m0.ktable = file.ktable /\ m0.kfree = file.kfree
       /\ LoadOK(m0, s)
       /\ KMemOK(m1) /\ m1.used = s.mem.used \ made /\ m1.ktable = s.mem.ktable /\ m1.kfree = s.mem.kfree

\* The stages of spawn_process keep the pages apart.
LEMMA SpawnPartsFacts ==
  ASSUME NEW m, KMemOK(m), NEW file, file = BufferAlloc(m, FilePages), NEW top, top = AllocContig(file.used, 1),
         NEW s, s = LoadBinary(file, top), NEW made, made = {top.base} \cup TablePages(s.pt),
         NEW m0, m0 = [file EXCEPT !.used = @ \cup {top.base}], NEW m1, m1 = [s.mem EXCEPT !.used = s.mem.used \ made]
  PROVE  SpawnParts(m, file, top, s, made, m0, m1)
  <1>1. Buffered(m, file, FilePages) /\ FilePages \in Nat \ {0}
    BY BufferAllocFacts, AddressSpaceAssumption
  <1>2. top.ok => top.base \in Pages \ file.used
    <2>1. ASSUME top.ok PROVE top.base \in Pages /\ PagesFrom(top.base, 1) \subseteq Pages \ file.used
      BY <2>1, AllocContigFacts
    <2>2. top.base \in Pages => top.base \in PagesFrom(top.base, 1)
      BY PhysicalMemoryAssumption DEF Pages, PagesFrom
    <2> QED
      BY <2>1, <2>2
  <1>3. ASSUME top.ok
        PROVE  KMemOK(m0) /\ m0.used = file.used \cup {top.base} /\ m0.ktable = file.ktable /\ m0.kfree = file.kfree
    <2> DEFINE V == file.used \cup {top.base}
    <2>1. m0 = [file EXCEPT !.used = V]
      OBVIOUS
    <2>2. /\ file = [used |-> file.used, ktable |-> file.ktable, kfree |-> file.kfree, state |-> file.state, base |-> file.base, addr |-> file.addr]
          /\ file.used \subseteq Pages /\ PtOK(file.ktable) /\ TablesApart(file.ktable) /\ TablePages(file.ktable) \subseteq file.used
          /\ file.kfree \in Seq(Block) /\ file.base \in Nat /\ file.addr \in Nat /\ file.state \in {"ok", "error", "panic"}
      BY <1>1 DEF Buffered, KMemOK
    <2>3. V \subseteq Pages /\ TablePages(file.ktable) \subseteq V
      BY <1>2, <1>3, <2>2
    <2> HIDE DEF V
    <2>4. /\ m0.used = V /\ m0.ktable = file.ktable /\ m0.kfree = file.kfree /\ m0.state = file.state /\ m0.base = file.base /\ m0.addr = file.addr
          /\ m0 = [used |-> m0.used, ktable |-> m0.ktable, kfree |-> m0.kfree, state |-> m0.state, base |-> m0.base, addr |-> m0.addr]
      BY <2>1, <2>2
    <2>5. KMemOK(m0)
      BY <2>2, <2>3, <2>4 DEF KMemOK
    <2> QED
      BY <2>4, <2>5 DEF V
  <1>4. ASSUME top.ok PROVE LoadOK(m0, s)
    BY <1>3, <1>4, LoadBinaryPhysical
  <1>5. ASSUME top.ok
        PROVE  KMemOK(m1) /\ m1.used = s.mem.used \ made /\ m1.ktable = s.mem.ktable /\ m1.kfree = s.mem.kfree
    <2>1. TablePages(file.ktable) \subseteq file.used
      BY <1>1 DEF Buffered, KMemOK
    <2>2. TablePages(s.pt) \subseteq UserPages(s.pt)
      BY DEF TablePages, UserPages, EntryPages, IsTable
    <2>3. PICK q : q = s.mem
      OBVIOUS
    <2>4. KMemOK(q) /\ made \cap TablePages(q.ktable) = {}
      BY <1>2, <1>3, <1>4, <1>5, <2>1, <2>2, <2>3 DEF LoadOK
    <2>5. /\ q = [used |-> q.used, ktable |-> q.ktable, kfree |-> q.kfree, state |-> q.state, base |-> q.base, addr |-> q.addr]
          /\ q.used \subseteq Pages /\ PtOK(q.ktable) /\ TablesApart(q.ktable) /\ TablePages(q.ktable) \subseteq q.used
          /\ q.kfree \in Seq(Block) /\ q.base \in Nat /\ q.addr \in Nat /\ q.state \in {"ok", "error", "panic"}
      BY <2>4 DEF KMemOK
    <2>6. m1 = [q EXCEPT !.used = q.used \ made]
      BY <2>3
    <2>7. /\ m1.used = q.used \ made /\ m1.ktable = q.ktable /\ m1.kfree = q.kfree /\ m1.state = q.state /\ m1.base = q.base /\ m1.addr = q.addr
          /\ m1 = [used |-> m1.used, ktable |-> m1.ktable, kfree |-> m1.kfree, state |-> m1.state, base |-> m1.base, addr |-> m1.addr]
      BY <2>5, <2>6
    <2>8. KMemOK(m1)
      BY <2>4, <2>5, <2>7 DEF KMemOK
    <2> QED
      BY <2>3, <2>7, <2>8
  <1> QED
    BY <1>1, <1>2, <1>3, <1>4, <1>5 DEF SpawnParts

\* What spawn_process leaves, whether it succeeds or fails.
LEMMA SpawnFacts ==
  ASSUME NEW m, KMemOK(m)
  PROVE  Spawned(m, Spawn(m))
  <1> DEFINE file == BufferAlloc(m, FilePages)
             top == AllocContig(file.used, 1)
             s == LoadBinary(file, top)
             buffer == [base |-> file.base, addr |-> file.addr, pages |-> FilePages]
             made == {top.base} \cup TablePages(s.pt)
             end == Spawn(m)
             B == PagesFrom(file.base, FilePages)
             m0 == [file EXCEPT !.used = @ \cup {top.base}]
             m1 == [s.mem EXCEPT !.used = s.mem.used \ made]
  <1>1. \/ /\ file.state # "ok"
           /\ ~end.ok /\ end.mem = file /\ end.state = file.state
           /\ end.root = -1 /\ end.pt = NoEntries /\ end.list = <<>>
        \/ /\ file.state = "ok" /\ ~top.ok
           /\ ~end.ok /\ end.mem = BufferDrop(file, buffer) /\ end.state = "error"
           /\ end.root = -1 /\ end.pt = NoEntries /\ end.list = <<>>
        \/ /\ file.state = "ok" /\ top.ok /\ s.mem.state # "ok"
           /\ ~end.ok /\ end.mem = BufferDrop(m1, buffer)
           /\ end.state = s.mem.state
           /\ end.root = -1 /\ end.pt = NoEntries /\ end.list = <<>>
        \/ /\ file.state = "ok" /\ top.ok /\ s.mem.state = "ok"
           /\ end.ok /\ end.mem = BufferDrop(s.mem, buffer) /\ end.state = "ok"
           /\ end.root = top.base /\ end.pt = s.pt /\ end.list = s.list
    BY SpawnCases
  <1>2. SpawnParts(m, file, top, s, made, m0, m1)
    BY SpawnPartsFacts
  <1> HIDE DEF file, end, m0, m1, top, s
  <1>3. /\ KMemOK(file) /\ m.used \subseteq file.used
        /\ TablePages(m.ktable) \subseteq TablePages(file.ktable)
        /\ TablePages(file.ktable) \subseteq TablePages(m.ktable) \cup (file.used \ m.used)
        /\ file.state = "ok" =>
             /\ B \subseteq file.used \ m.used
             /\ TablePages(file.ktable) = TablePages(m.ktable) \cup ((file.used \ m.used) \ B)
    BY <1>2 DEF SpawnParts, Buffered
  <1>4. TablePages(m.ktable) \subseteq m.used
    BY DEF KMemOK
  <1>5. buffer.addr \in Nat /\ buffer.pages \in Nat \ {0} /\ PagesFrom(buffer.base, buffer.pages) = B
    BY <1>2, <1>3 DEF SpawnParts, KMemOK
  <1>6. top.ok => top.base \in Pages \ file.used
    BY <1>2 DEF SpawnParts
  <1>7. top.ok => m0.used = file.used \cup {top.base} /\ m0.ktable = file.ktable
    BY <1>2 DEF SpawnParts
  <1>8. top.ok => LoadOK(m0, s)
    BY <1>2 DEF SpawnParts
  <1> HIDE DEF buffer
  <1>9. top.ok =>
        /\ KMemOK(s.mem) /\ PtOK(s.pt) /\ EntriesApart(s.pt) /\ s.list \in Seq(Block)
        /\ file.used \cup {top.base} \subseteq s.mem.used
        /\ UserPages(s.pt) \subseteq s.mem.used \ (file.used \cup {top.base})
        /\ TablePages(s.mem.ktable) \subseteq TablePages(file.ktable) \cup (s.mem.used \ (file.used \cup {top.base}))
        /\ UserPages(s.pt) \cap TablePages(s.mem.ktable) = {}
    BY <1>7, <1>8 DEF LoadOK
  <1>10. TablePages(s.pt) \subseteq UserPages(s.pt)
    BY DEF TablePages, UserPages, EntryPages, IsTable
  <1>11. TablePages(file.ktable) \subseteq file.used /\ (file.state = "ok" => B \cap TablePages(file.ktable) = {})
    BY <1>3, <1>4 DEF KMemOK
  <1>12. CASE file.state # "ok"
    BY <1>1, <1>3, <1>12 DEF Spawned, end, KMemOK
  <1>13. CASE file.state = "ok" /\ ~top.ok
    <2>1. end.mem = BufferDrop(file, buffer) /\ ~end.ok /\ end.state = "error" /\ end.root = -1 /\ end.pt = NoEntries /\ end.list = <<>>
      BY <1>1, <1>13
    <2>2. /\ KMemOK(BufferDrop(file, buffer)) /\ BufferDrop(file, buffer).used = file.used \ PagesFrom(buffer.base, buffer.pages)
          /\ TablePages(BufferDrop(file, buffer).ktable) = TablePages(file.ktable)
      <3>1. PagesFrom(buffer.base, buffer.pages) \cap TablePages(file.ktable) = {}
        BY <1>5, <1>11, <1>13
      <3> QED
        BY <1>3, <1>5, <3>1, BufferDropFacts
    <2>3. KMemOK(end.mem) /\ end.mem.used = file.used \ B /\ TablePages(end.mem.ktable) = TablePages(file.ktable)
      BY <1>5, <2>1, <2>2
    <2>4. m.used \subseteq end.mem.used /\ TablePages(end.mem.ktable) \subseteq TablePages(m.ktable) \cup (end.mem.used \ m.used)
      BY <1>3, <1>4, <1>13, <2>3
    <2> QED
      BY <2>1, <2>3, <2>4 DEF Spawned, end
  <1>14. CASE file.state = "ok" /\ top.ok /\ s.mem.state # "ok"
    <2>1. end.mem = BufferDrop(m1, buffer) /\ ~end.ok /\ end.state = s.mem.state /\ end.root = -1 /\ end.pt = NoEntries /\ end.list = <<>>
      BY <1>1, <1>14
    <2>2. s.mem.state \in {"ok", "error", "panic"}
      BY <1>9, <1>14 DEF KMemOK
    <2>3. made \cap TablePages(s.mem.ktable) = {}
      BY <1>6, <1>9, <1>10, <1>11, <1>14
    <2>4. KMemOK(m1) /\ m1.used = s.mem.used \ made /\ m1.ktable = s.mem.ktable
      BY <1>2, <1>14 DEF SpawnParts
    <2>5. PagesFrom(buffer.base, buffer.pages) \cap TablePages(m1.ktable) = {}
      BY <1>3, <1>5, <1>9, <1>11, <1>14, <2>4
    <2>6. /\ KMemOK(BufferDrop(m1, buffer)) /\ BufferDrop(m1, buffer).used = m1.used \ PagesFrom(buffer.base, buffer.pages)
          /\ TablePages(BufferDrop(m1, buffer).ktable) = TablePages(m1.ktable)
      BY <1>5, <2>4, <2>5, BufferDropFacts
    <2>7. KMemOK(end.mem) /\ end.mem.used = (s.mem.used \ made) \ B /\ TablePages(end.mem.ktable) = TablePages(s.mem.ktable)
      BY <1>5, <2>1, <2>4, <2>6
    <2>8. m.used \subseteq end.mem.used
      BY <1>3, <1>6, <1>9, <1>10, <1>14, <2>7
    <2>9. TablePages(s.mem.ktable) \subseteq TablePages(m.ktable) \cup (s.mem.used \ m.used)
      BY <1>3, <1>9, <1>14
    <2>10. TablePages(end.mem.ktable) \subseteq end.mem.used
      BY <2>7 DEF KMemOK
    <2>11. TablePages(end.mem.ktable) \subseteq TablePages(m.ktable) \cup (end.mem.used \ m.used)
      BY <2>7, <2>9, <2>10
    <2> QED
      BY <2>1, <2>2, <2>7, <2>8, <2>11 DEF Spawned, end
  <1>15. CASE file.state = "ok" /\ top.ok /\ s.mem.state = "ok"
    <2>1. end.mem = BufferDrop(s.mem, buffer) /\ end.ok /\ end.state = "ok" /\ end.root = top.base /\ end.pt = s.pt /\ end.list = s.list
      BY <1>1, <1>15
    <2>2. PagesFrom(buffer.base, buffer.pages) \cap TablePages(s.mem.ktable) = {}
      BY <1>3, <1>5, <1>9, <1>11, <1>15
    <2>3. /\ KMemOK(BufferDrop(s.mem, buffer)) /\ BufferDrop(s.mem, buffer).used = s.mem.used \ PagesFrom(buffer.base, buffer.pages)
          /\ TablePages(BufferDrop(s.mem, buffer).ktable) = TablePages(s.mem.ktable)
      <3> DEFINE q == s.mem
      <3>1. KMemOK(q) /\ PagesFrom(buffer.base, buffer.pages) \cap TablePages(q.ktable) = {}
        BY <1>9, <1>15, <2>2
      <3> HIDE DEF q
      <3>2. /\ KMemOK(BufferDrop(q, buffer)) /\ BufferDrop(q, buffer).used = q.used \ PagesFrom(buffer.base, buffer.pages)
            /\ TablePages(BufferDrop(q, buffer).ktable) = TablePages(q.ktable)
        BY <1>5, <3>1, BufferDropFacts
      <3> QED
        BY <3>2 DEF q
    <2>4. KMemOK(end.mem) /\ end.mem.used = s.mem.used \ B /\ TablePages(end.mem.ktable) = TablePages(s.mem.ktable)
      BY <1>5, <2>1, <2>3
    <2>5. m.used \subseteq end.mem.used /\ B \subseteq file.used /\ B \cap m.used = {}
      BY <1>3, <1>9, <1>15, <2>4
    <2>6. TablePages(end.mem.ktable) \subseteq TablePages(m.ktable) \cup (end.mem.used \ m.used)
      BY <1>3, <1>4, <1>9, <1>11, <1>15, <2>4, <2>5
    <2>7. end.root \in Pages /\ end.root \in end.mem.used \ m.used
      BY <1>3, <1>6, <1>9, <1>15, <2>1, <2>4, <2>5
    <2>8. end.root \notin TablePages(end.mem.ktable) /\ end.root \notin UserPages(end.pt)
      BY <1>6, <1>9, <1>11, <1>15, <2>1, <2>4
    <2>9. UserPages(end.pt) \subseteq end.mem.used \ m.used /\ UserPages(end.pt) \cap TablePages(end.mem.ktable) = {}
      BY <1>3, <1>9, <1>15, <2>1, <2>4, <2>5
    <2>10. PtOK(end.pt) /\ EntriesApart(end.pt) /\ end.list \in Seq(Block)
      BY <1>9, <1>15, <2>1
    <2> QED
      BY <2>1, <2>4, <2>5, <2>6, <2>7, <2>8, <2>9, <2>10 DEF Spawned, end
  <1> QED
    BY <1>12, <1>13, <1>14, <1>15

-----------------------------------------------------------------------------
(* The loop of alloc_memory in a handler. *)

\* Whole pages added to an address move its page by as many.
LEMMA OffsetPage ==
  ASSUME NEW a \in Nat, NEW n \in Nat
  PROVE  /\ (a + Bytes(n)) \div PAGE_SIZE = (a \div PAGE_SIZE) + n
         /\ a \div PAGE_SIZE \in Nat /\ a + Bytes(n) \in Nat
  <1>1. PAGE_SIZE \in Nat \ {0}
    BY PageSizeAssumption
  <1>2. PICK q \in Nat, d \in 0..(PAGE_SIZE - 1) : a = q * PAGE_SIZE + d /\ q = a \div PAGE_SIZE
    <2>1. a = (a \div PAGE_SIZE) * PAGE_SIZE + (a % PAGE_SIZE) /\ a % PAGE_SIZE \in 0..(PAGE_SIZE - 1)
      BY <1>1, DivisionExists
    <2>2. a \div PAGE_SIZE \in Nat
      BY <1>1
    <2> QED
      BY <2>1, <2>2
  <1>3. (q + n) * PAGE_SIZE + d = a + Bytes(n) /\ q + n \in Nat /\ Bytes(n) \in Nat
    BY <1>1, <1>2 DEF Bytes
  <1> DEFINE k == q + n
  <1>5. k \in Nat
    BY <1>3
  <1> HIDE DEF k
  <1>4. (k * PAGE_SIZE + d) \div PAGE_SIZE = k
    BY <1>1, <1>2, <1>5, DivisionUnique
  <1>6. k * PAGE_SIZE + d = a + Bytes(n)
    BY <1>3 DEF k
  <1>7. (a + Bytes(n)) \div PAGE_SIZE = q + n
    BY <1>4, <1>6 DEF k
  <1> QED
    BY <1>2, <1>3, <1>7

\* map_range at an address that is no page's maps nothing.
LEMMA MapUnaligned ==
  ASSUME NEW a \in Nat, ~Aligned(a), NEW o \in Nat, NEW pt, NEW U, NEW phys, NEW n
  PROVE  LET r == MapRange(pt, U, phys, a + Bytes(o), n)
         IN  r.pt = pt /\ r.state # "ok"
  <1>1. PICK q \in Nat, x \in Nat : q = a \div PAGE_SIZE /\ x = a + Bytes(o) /\ x \div PAGE_SIZE = q + o
    BY OffsetPage
  <1>2. x % PAGE_SIZE # 0
    <2> SUFFICES ASSUME x % PAGE_SIZE = 0 PROVE FALSE
      OBVIOUS
    <2>1. PAGE_SIZE \in Nat \ {0}
      BY PageSizeAssumption
    <2>2. x = (q + o) * PAGE_SIZE + (x % PAGE_SIZE)
      <3>1. x \in Int
        OBVIOUS
      <3>2. x = (x \div PAGE_SIZE) * PAGE_SIZE + (x % PAGE_SIZE)
        BY <2>1, <3>1, DivisionExists
      <3> QED
        BY <1>1, <3>2
    <2>3. (q + o) * PAGE_SIZE = Bytes(q + o) /\ Bytes(q + o) = Bytes(q) + Bytes(o) /\ Bytes(q) \in Nat /\ Bytes(o) \in Nat
      <3>1. q + o \in Nat
        OBVIOUS
      <3> QED
        BY <3>1, BytesFacts DEF Bytes
    <2>4. (q + o) * PAGE_SIZE \in Nat
      BY <2>1
    <2>5. x = Bytes(q) + Bytes(o)
      BY <2>2, <2>3, <2>4
    <2>6. a = Bytes(q)
      BY <1>1, <2>3, <2>5
    <2> QED
      BY <1>1, <2>6 DEF Aligned
  <1>3. MapRange(pt, U, phys, x, n) = [[pt |-> pt, used |-> U, next |-> 0, state |-> "ok"] EXCEPT !.state = "error"]
    BY <1>2 DEF MapRange
  <1> QED
    BY <1>1, <1>3

\* Mappings that stay the same in two steps stay the same.
LEMMA SameTrans ==
  ASSUME NEW p, NEW q, NEW r, NEW w, SameAt(p, q, w), SameAt(q, r, w)
  PROVE  SameAt(p, r, w)
  BY DEF SameAt

\* Two ranges mapped end to end are one range mapped.
LEMMA TiledJoin ==
  ASSUME NEW pt, PtOK(pt), NEW x \in Nat, NEW a \in Nat, NEW b \in Nat, Tiled(pt, x, a), Tiled(pt, x + a, b)
  PROVE  Tiled(pt, x, a + b)
  <1> SUFFICES ASSUME NEW i \in 0..((a + b) - 1)
               PROVE  \E e \in Maps(pt) : e = EntryAt(e[1], x + i) /\ x <= BaseOf(e) /\ BaseOf(e) + Span(e[1]) <= x + (a + b)
    BY DEF Tiled
  <1>0. \A e \in Maps(pt) : BaseOf(e) \in Nat /\ Span(e[1]) \in Nat
    <2>1. \A e \in Maps(pt) : e \in Entry
      BY DEF Maps, PtOK
    <2>2. 0 \in Nat
      OBVIOUS
    <2> QED
      BY <2>1, <2>2, CoverFacts
  <1>1. CASE i < a
    <2>1. PICK e \in Maps(pt) : e = EntryAt(e[1], x + i) /\ x <= BaseOf(e) /\ BaseOf(e) + Span(e[1]) <= x + a
      BY <1>1 DEF Tiled
    <2> QED
      BY <1>0, <2>1
  <1>2. CASE i >= a
    <2> DEFINE j == i - a
    <2>1. j \in 0..(b - 1) /\ (x + a) + j = x + i
      BY <1>2
    <2> HIDE DEF j
    <2>2. PICK e \in Maps(pt) : e = EntryAt(e[1], (x + a) + j) /\ x + a <= BaseOf(e) /\ BaseOf(e) + Span(e[1]) <= (x + a) + b
      BY <2>1 DEF Tiled
    <2>3. e = EntryAt(e[1], x + i)
      BY <2>1, <2>2
    <2> QED
      BY <1>0, <2>2, <2>3
  <1> QED
    BY <1>1, <1>2

\* A part of a range with nothing mapped has nothing mapped.
LEMMA ClearPart ==
  ASSUME NEW pt, NEW x \in Nat, NEW m \in Nat, ClearRange(pt, x, m), NEW y \in Nat, NEW k \in Nat, x <= y, y + k <= x + m
  PROVE  ClearRange(pt, y, k)
  <1> SUFFICES ASSUME NEW i \in 0..(k - 1) PROVE ~Covered(pt, y + i)
    BY DEF ClearRange
  <1> DEFINE j == (y - x) + i
  <1>1. j \in 0..(m - 1) /\ x + j = y + i
    OBVIOUS
  <1> HIDE DEF j
  <1>2. ~Covered(pt, x + j)
    BY <1>1 DEF ClearRange
  <1> QED
    BY <1>1, <1>2

\* map_range over addresses where nothing was mapped loses no page.
LEMMA MapUserExact ==
  ASSUME NEW pt, PtOK(pt), NEW U, U \subseteq Pages, NEW phys \in Nat, NEW v0 \in Nat, NEW n \in Nat,
         NEW r, MapLoop(pt, U, phys, v0, n, r), r.next = n, ClearRange(pt, v0, n)
  PROVE  UserPages(pt) \cup PagesFrom(phys, n) \cup (r.used \ U) \subseteq UserPages(r.pt)
  <1>1. PtOK(r.pt)
    BY DEF MapLoop
  <1>2. ASSUME NEW e \in DOMAIN pt, pt[e].kind = "map", NewMap(r.pt, e, phys, v0, r.next) PROVE FALSE
    <2>1. e \in Entry /\ v0 <= BaseOf(e) /\ BaseOf(e) + Span(e[1]) <= v0 + n /\ e \in Maps(pt)
      BY <1>2 DEF NewMap, PtOK, Maps
    <2>2. 0 \in Nat
      OBVIOUS
    <2>3. PICK w \in Nat : w = BaseOf(e)
      BY <2>1, <2>2, CoverFacts
    <2>4. Span(e[1]) \in Nat \ {0} /\ w < BaseOf(e) + Span(e[1])
      BY <2>1, <2>3, CoverFacts
    <2>5. e = EntryAt(e[1], w)
      BY <2>1, <2>3, <2>4, CoverFacts
    <2> DEFINE i == w - v0
    <2>6. i \in 0..(n - 1) /\ v0 + i = w
      BY <2>1, <2>3, <2>4
    <2> HIDE DEF i
    <2>7. ~Covered(pt, w)
      BY <2>6 DEF ClearRange
    <2> QED
      BY <2>1, <2>5, <2>7 DEF Covered
  <1>3. ASSUME NEW p \in UserPages(pt) PROVE p \in UserPages(r.pt)
    <2>1. PICK e \in DOMAIN pt : p \in EntryPages(pt, e)
      BY DEF UserPages
    <2>2. e \in DOMAIN r.pt /\ r.pt[e] = pt[e]
      BY <1>2 DEF MapLoop
    <2>3. EntryPages(r.pt, e) = EntryPages(pt, e)
      BY <2>2 DEF EntryPages, IsTable, PagesOf
    <2> QED
      BY <2>1, <2>2, <2>3 DEF UserPages
  <1>4. ASSUME NEW p \in PagesFrom(phys, n) PROVE p \in UserPages(r.pt)
    <2> DEFINE i == p - phys
    <2>1. i \in 0..(n - 1) /\ p = phys + i /\ v0 + i \in Nat
      BY DEF PagesFrom
    <2> HIDE DEF i
    <2>2. PICK e \in Maps(r.pt) : NewMap(r.pt, e, phys, v0, n) /\ e = EntryAt(e[1], v0 + i)
      BY <2>1 DEF MapLoop
    <2>3. e \in DOMAIN r.pt /\ r.pt[e].kind = "map" /\ e \in Entry /\ v0 <= BaseOf(e) /\ r.pt[e].page = phys + (BaseOf(e) - v0)
      BY <1>1, <2>2 DEF Maps, PtOK, NewMap
    <2>4. PICK b \in Nat, c \in Nat \ {0} : b = BaseOf(e) /\ c = Span(e[1]) /\ b <= v0 + i /\ v0 + i < b + c
      BY <2>1, <2>2, <2>3, CoverFacts
    <2>5. EntryPages(r.pt, e) = (phys + (b - v0))..((phys + (b - v0)) + c - 1)
      BY <2>3, <2>4 DEF EntryPages, IsTable, PagesOf, PagesFrom
    <2>6. p \in EntryPages(r.pt, e)
      BY <2>1, <2>3, <2>4, <2>5
    <2> QED
      BY <2>3, <2>6 DEF UserPages
  <1>5. ASSUME NEW p \in r.used \ U PROVE p \in UserPages(r.pt)
    <2>1. PICK e \in DOMAIN r.pt \ DOMAIN pt : r.pt[e].kind = "table" /\ r.pt[e].page = p
      BY DEF MapLoop
    <2> QED
      BY <2>1 DEF UserPages, EntryPages, IsTable
  <1> QED
    BY <1>3, <1>4, <1>5

\* The state of the loop: the addresses from addr are mapped up to off.
AllocOK(pt, U, addr, n, t) ==
  /\ t = [used |-> t.used, pt |-> t.pt, off |-> t.off, addr |-> t.addr, state |-> t.state]
  /\ t.addr = addr /\ t.off \in 0..n /\ t.state \in {"ok", "error", "panic"}
  /\ PtOK(t.pt) /\ EntriesApart(t.pt) /\ U \subseteq t.used /\ t.used \subseteq Pages
  /\ UserPages(t.pt) \subseteq UserPages(pt) \cup (t.used \ U)
  /\ ~Aligned(addr) => t.pt = pt /\ (t.state = "ok" => t.off = 0)

\* What it has mapped: nothing else changes, and over addresses where nothing
\* was mapped no page is lost.
AllocMapped(pt, U, v0, n, t) ==
  /\ \A w \in Nat : Outside(w, v0, n) => SameAt(pt, t.pt, w)
  /\ t.state = "ok" => Tiled(t.pt, v0, t.off)
  /\ t.state = "ok" /\ ClearRange(pt, v0, n) =>
       /\ UserPages(pt) \cup (t.used \ U) \subseteq UserPages(t.pt)
       /\ ClearRange(t.pt, v0 + t.off, n - t.off)

\* One round.
LEMMA AllocTurnFacts ==
  ASSUME NEW pt, NEW U, UserPages(pt) \subseteq U, NEW addr \in Nat, NEW n \in Nat \ {0},
         NEW v0, v0 = addr \div PAGE_SIZE,
         NEW t, AllocOK(pt, U, addr, n, t), AllocMapped(pt, U, v0, n, t)
  PROVE  LET z == AllocTurn([n |-> n], t)
         IN  /\ AllocOK(pt, U, addr, n, z) /\ AllocMapped(pt, U, v0, n, z)
             /\ z = t \/ z.state # "ok" \/ z.off > t.off
             /\ z = t => t.off = n \/ t.state # "ok"
  <1> DEFINE q == TryAllocContig(t.used, n - t.off)
             V == t.used \cup PagesFrom(q.base, q.count)
             va == t.addr + Bytes(t.off)
             r == MapRange(t.pt, V, q.base, va, q.count)
             z == AllocTurn([n |-> n], t)
  <1>1. z = IF t.off >= n \/ t.state # "ok" THEN t
            ELSE IF ~q.ok THEN [t EXCEPT !.state = "error"]
            ELSE [t EXCEPT !.used = r.used, !.pt = r.pt, !.state = r.state, !.off = @ + q.count]
    <2>1. [n |-> n].n = n
      OBVIOUS
    <2> QED
      BY <2>1 DEF AllocTurn
  <1>2. /\ t = [used |-> t.used, pt |-> t.pt, off |-> t.off, addr |-> t.addr, state |-> t.state]
        /\ t.addr = addr /\ t.off \in 0..n /\ t.state \in {"ok", "error", "panic"}
        /\ PtOK(t.pt) /\ EntriesApart(t.pt) /\ U \subseteq t.used /\ t.used \subseteq Pages
        /\ UserPages(t.pt) \subseteq UserPages(pt) \cup (t.used \ U)
        /\ ~Aligned(addr) => t.pt = pt /\ (t.state = "ok" => t.off = 0)
    BY DEF AllocOK
  <1>3. CASE t.off >= n \/ t.state # "ok"
    BY <1>1, <1>2, <1>3
  <1>4. CASE ~(t.off >= n \/ t.state # "ok") /\ ~q.ok
    <2> HIDE DEF q, z
    <2>1. /\ z.used = t.used /\ z.pt = t.pt /\ z.off = t.off /\ z.addr = t.addr /\ z.state = "error"
          /\ z = [used |-> z.used, pt |-> z.pt, off |-> z.off, addr |-> z.addr, state |-> z.state]
      BY <1>1, <1>2, <1>4
    <2>2. AllocOK(pt, U, addr, n, z)
      BY <1>2, <2>1 DEF AllocOK
    <2>3. AllocMapped(pt, U, v0, n, z)
      BY <2>1 DEF AllocMapped
    <2>4. z # t /\ z.state # "ok"
      BY <1>4, <2>1
    <2> QED
      BY <2>2, <2>3, <2>4 DEF z
  <1>5. CASE ~(t.off >= n \/ t.state # "ok") /\ q.ok
    <2>1. PICK o \in Nat : o = t.off /\ o < n
      BY <1>2, <1>5
    <2>2. n - o \in Nat \ {0} /\ n - t.off = n - o
      BY <2>1
    <2>3. q.base \in Pages /\ q.count \in 1..(n - o) /\ PagesFrom(q.base, q.count) \subseteq Pages \ t.used
      BY <1>2, <1>5, <2>1, <2>2, TryAllocContigFacts
    <2> HIDE DEF q
    <2>4. PICK b \in Nat, c \in Nat \ {0} : b = q.base /\ c = q.count /\ o + c <= n
      <3>1. q.base \in Nat
        BY <2>3, PhysicalMemoryAssumption DEF Pages
      <3> QED
        BY <2>1, <2>3, <3>1
    <2> DEFINE J == PagesFrom(b, c)
    <2>5. J \subseteq Pages \ t.used /\ V = t.used \cup J /\ V \subseteq Pages /\ UserPages(t.pt) \subseteq t.used
      BY <1>2, <2>3, <2>4
    <2>6. va \in Nat /\ va \div PAGE_SIZE = v0 + o /\ v0 \in Nat /\ r = MapRange(t.pt, V, b, va, c)
      BY <1>2, <2>1, <2>4, OffsetPage
    <2> DEFINE v1 == v0 + o
               p1 == t.pt
    <2>7. PtOK(p1) /\ EntriesApart(p1) /\ v1 \in Nat /\ r = MapRange(p1, V, b, va, c) /\ va \div PAGE_SIZE = v1
      BY <1>2, <2>1, <2>6
    <2>8. UserPages(p1) \subseteq V /\ J \subseteq V /\ J \cap UserPages(p1) = {} /\ J \subseteq Pages
      BY <2>5
    <2> HIDE DEF V, va, r, v1, p1, z
    <2>9. MapLoop(p1, V, b, v1, c, r) /\ (r.state = "ok" => r.next = c)
      <3>1. /\ MapLoop(p1, V, b, va \div PAGE_SIZE, c, MapRange(p1, V, b, va, c))
            /\ MapRange(p1, V, b, va, c).state = "ok" => MapRange(p1, V, b, va, c).next = c
        BY <2>5, <2>6, <2>7, <2>8, MapRangeFacts
      <3> QED
        BY <2>7, <3>1
    <2>10. PtOK(r.pt) /\ V \subseteq r.used /\ r.used \subseteq Pages /\ r.state \in {"ok", "error", "panic"}
      BY <2>9 DEF MapLoop
    <2>11. EntriesApart(r.pt) /\ UserPages(r.pt) \subseteq UserPages(p1) \cup J \cup (r.used \ V)
      <3>1. c \in Nat /\ V \subseteq Pages /\ PagesFrom(b, c) \subseteq V /\ PagesFrom(b, c) \cap UserPages(p1) = {}
        BY <2>5, <2>8
      <3>2. UserPages(p1) \subseteq V
        BY <2>8
      <3> QED
        BY <2>7, <2>9, <3>1, <3>2, MapUserFacts
    <2>12. /\ z.used = r.used /\ z.pt = r.pt /\ z.off = o + c /\ z.addr = t.addr /\ z.state = r.state
           /\ z = [used |-> z.used, pt |-> z.pt, off |-> z.off, addr |-> z.addr, state |-> z.state]
      <3>1. z = [t EXCEPT !.used = r.used, !.pt = r.pt, !.state = r.state, !.off = o + c]
        BY <1>1, <1>5, <2>1, <2>4 DEF V, va, r
      <3> QED
        BY <1>2, <3>1
    <2>13. AllocOK(pt, U, addr, n, z)
      <3>1. z.off \in 0..n /\ z.addr = addr
        BY <1>2, <2>1, <2>4, <2>12
      <3>2. U \subseteq r.used /\ UserPages(r.pt) \subseteq UserPages(pt) \cup (r.used \ U)
        BY <1>2, <2>5, <2>10, <2>11 DEF p1
      <3>3. ASSUME ~Aligned(addr) PROVE r.pt = pt /\ r.state # "ok"
        <4>1. r = MapRange(p1, V, b, addr + Bytes(o), c)
          BY <1>2, <2>1, <2>7 DEF va
        <4>2. r.pt = p1 /\ r.state # "ok"
          BY <3>3, <4>1, MapUnaligned
        <4> QED
          BY <1>2, <3>3, <4>2 DEF p1
      <3> QED
        BY <2>10, <2>11, <2>12, <3>1, <3>2, <3>3 DEF AllocOK
    <2>14. ASSUME NEW w \in Nat, Outside(w, v0, n) PROVE SameAt(pt, r.pt, w)
      <3>1. Outside(w, v1, c)
        BY <2>1, <2>4, <2>6, <2>14 DEF Outside, v1
      <3>2. SameAt(p1, r.pt, w)
        BY <2>7, <2>9, <3>1, MapOutside
      <3>3. SameAt(pt, p1, w)
        BY <2>14 DEF AllocMapped, p1
      <3> QED
        BY <3>2, <3>3, SameTrans
    <2>15. ASSUME r.state = "ok" PROVE Tiled(r.pt, v0, o + c)
      <3>1. Tiled(p1, v0, o)
        BY <1>5, <2>1 DEF AllocMapped, p1
      <3>2. Tiled(r.pt, v1, c)
        BY <2>7, <2>9, <2>15, MapInside
      <3>3. v0 + o <= v1
        BY <2>1, <2>6 DEF v1
      <3>4. Tiled(r.pt, v0, o)
        BY <2>6, <2>7, <2>9, <3>1, <3>3, MapKeeps
      <3> QED
        BY <2>6, <2>10, <3>2, <3>4, TiledJoin DEF v1
    <2>16. ASSUME r.state = "ok", ClearRange(pt, v0, n)
           PROVE  /\ UserPages(pt) \cup (r.used \ U) \subseteq UserPages(r.pt)
                  /\ ClearRange(r.pt, v0 + (o + c), n - (o + c))
      <3>1. UserPages(pt) \cup (t.used \ U) \subseteq UserPages(p1) /\ ClearRange(p1, v1, n - o)
        BY <1>5, <2>1, <2>16 DEF AllocMapped, p1, v1
      <3> DEFINE y == v0 + (o + c)
                 k == n - (o + c)
      <3>2. y \in Nat /\ k \in Nat /\ v1 <= y /\ y + k <= v1 + (n - o) /\ n - o \in Nat /\ v1 + c <= y /\ v1 + c <= v1 + (n - o)
        BY <2>1, <2>4, <2>6 DEF v1
      <3> HIDE DEF y, k
      <3>3. ClearRange(p1, y, k) /\ ClearRange(p1, v1, c)
        <4> DEFINE l == n - o
        <4>1. ClearRange(p1, v1, l) /\ l \in Nat /\ y + k <= v1 + l /\ v1 + c <= v1 + l /\ v1 <= v1
          BY <2>7, <3>1, <3>2
        <4> HIDE DEF l
        <4> QED
          BY <2>7, <3>2, <4>1, ClearPart
      <3>4. ClearRange(r.pt, y, k)
        BY <2>7, <2>9, <3>2, <3>3, MapKeeps
      <3>5. UserPages(p1) \cup J \cup (r.used \ V) \subseteq UserPages(r.pt)
        <4>1. /\ PtOK(p1) /\ V \subseteq Pages /\ b \in Nat /\ v1 \in Nat /\ c \in Nat
              /\ MapLoop(p1, V, b, v1, c, r) /\ r.next = c /\ ClearRange(p1, v1, c)
          BY <2>5, <2>7, <2>9, <2>16, <3>3
        <4> HIDE DEF J
        <4>2. UserPages(p1) \cup PagesFrom(b, c) \cup (r.used \ V) \subseteq UserPages(r.pt)
          BY <4>1, MapUserExact
        <4> QED
          BY <4>2 DEF J
      <3>6. UserPages(pt) \cup (r.used \ U) \subseteq UserPages(r.pt)
        BY <2>5, <3>1, <3>5
      <3> QED
        BY <3>4, <3>6 DEF y, k
    <2>17. AllocMapped(pt, U, v0, n, z)
      BY <2>12, <2>14, <2>15, <2>16 DEF AllocMapped
    <2>18. z.off > t.off
      BY <2>1, <2>4, <2>12
    <2> QED
      BY <2>1, <2>13, <2>17, <2>18 DEF z
  <1> QED
    BY <1>3, <1>4, <1>5

\* alloc_memory in a handler: a loop that succeeds has mapped all of it.
LEMMA AllocLoopFacts ==
  ASSUME NEW pt, PtOK(pt), EntriesApart(pt), NEW U, UserPages(pt) \subseteq U, U \subseteq Pages,
         NEW addr \in Nat, NEW n \in Nat \ {0}, NEW v0, v0 = addr \div PAGE_SIZE
  PROVE  LET s == AllocLoop([used |-> U, pt |-> pt, off |-> 0, addr |-> addr, state |-> "ok"], n)
         IN  /\ AllocOK(pt, U, addr, n, s) /\ AllocMapped(pt, U, v0, n, s)
             /\ s.state = "ok" => s.off = n
  <1> DEFINE start == [used |-> U, pt |-> pt, off |-> 0, addr |-> addr, state |-> "ok"]
  <1>1. PICK h : /\ h[0] = start /\ AllocLoop(start, n) = h[n]
                 /\ \A k \in 1..n : h[k] = AllocTurn([n |-> n], h[k - 1])
    BY AllocLoopTurns
  <1>2. v0 \in Nat
    BY OffsetPage
  <1> DEFINE G == {k \in 0..n : /\ AllocOK(pt, U, addr, n, h[k]) /\ AllocMapped(pt, U, v0, n, h[k])
                                /\ h[k].state = "ok" => h[k].off >= k}
  <1>3. 0 \in G
    <2>1. /\ start.used = U /\ start.pt = pt /\ start.off = 0 /\ start.addr = addr /\ start.state = "ok"
          /\ start = [used |-> start.used, pt |-> start.pt, off |-> start.off, addr |-> start.addr, state |-> start.state]
      OBVIOUS
    <2> HIDE DEF start
    <2>2. AllocOK(pt, U, addr, n, start)
      BY <2>1 DEF AllocOK
    <2>3. Tiled(pt, v0, 0)
      BY DEF Tiled
    <2>4. \A w \in Nat : SameAt(pt, pt, w)
      BY DEF SameAt
    <2>5. n - 0 = n /\ v0 + 0 = v0
      BY <1>2
    <2>6. AllocMapped(pt, U, v0, n, start)
      BY <2>1, <2>3, <2>4, <2>5 DEF AllocMapped
    <2> QED
      BY <1>1, <2>1, <2>2, <2>6
  <1>4. \A k \in 0..(n - 1) : k \in G => k + 1 \in G
    <2> SUFFICES ASSUME NEW k \in 0..(n - 1), k \in G PROVE k + 1 \in G
      OBVIOUS
    <2> DEFINE t == h[k]
               z == h[k + 1]
    <2>1. k + 1 \in 1..n /\ (k + 1) - 1 = k /\ k + 1 \in 0..n
      OBVIOUS
    <2>2. z = AllocTurn([n |-> n], t)
      BY <1>1, <2>1
    <2>3. AllocOK(pt, U, addr, n, t) /\ AllocMapped(pt, U, v0, n, t) /\ (t.state = "ok" => t.off >= k)
      OBVIOUS
    <2> HIDE DEF t, z
    <2>4. /\ AllocOK(pt, U, addr, n, z) /\ AllocMapped(pt, U, v0, n, z)
          /\ z = t \/ z.state # "ok" \/ z.off > t.off
          /\ z = t => t.off = n \/ t.state # "ok"
      BY <2>2, <2>3, AllocTurnFacts
    <2>5. t.off \in 0..n /\ z.off \in 0..n
      BY <2>3, <2>4 DEF AllocOK
    <2>6. z.state = "ok" => z.off >= k + 1
      <3> SUFFICES ASSUME z.state = "ok" PROVE z.off >= k + 1
        OBVIOUS
      <3>1. CASE z = t
        BY <2>1, <2>4, <3>1
      <3>2. CASE z # t
        <4>1. z.off > t.off /\ t.state = "ok"
          <5>1. t.state # "ok" => z = t
            BY <2>2 DEF AllocTurn
          <5> QED
            BY <2>4, <3>2, <5>1
        <4> QED
          BY <2>3, <2>5, <4>1
      <3> QED
        BY <3>1, <3>2
    <2> QED
      BY <2>1, <2>4, <2>6 DEF z
  <1> HIDE DEF G, start
  <1>5. \A k \in 0..n : k \in G
    <2>1. n \in Nat
      OBVIOUS
    <2> QED
      BY <1>3, <1>4, <2>1, Induction
  <1>6. n \in G
    BY <1>5
  <1>7. AllocOK(pt, U, addr, n, h[n]) /\ AllocMapped(pt, U, v0, n, h[n]) /\ (h[n].state = "ok" => h[n].off >= n)
    BY <1>6 DEF G
  <1>8. h[n].off \in 0..n
    BY <1>7 DEF AllocOK
  <1> QED
    BY <1>1, <1>7, <1>8 DEF start

-----------------------------------------------------------------------------
(* The kernel's addresses of the queues go back when a process is dropped. *)

\* Every block starts at a whole page.
AlignedList(list) == \A i \in 1..Len(list) : Aligned(list[i].address)

\* free keeps the blocks at whole pages.
LEMMA VFreeAligned ==
  ASSUME NEW list \in Seq(Block), AlignedList(list), NEW a \in Nat, Aligned(a), NEW n \in Nat \ {0}
  PROVE  AlignedList(VFree(list, a, n))
  <1> DEFINE b == [address |-> a, size |-> n]
             new == VFree(list, a, n)
  <1>0. Len(list) \in Nat
    OBVIOUS
  <1>1. ASSUME NEW c, NEW i \in 1..Len(list), Aligned(c.address), new = [list EXCEPT ![i] = c]
        PROVE  AlignedList(new)
    <2> HIDE DEF new
    <2>1. Len(new) = Len(list) /\ \A j \in 1..Len(list) : new[j] = IF j = i THEN c ELSE list[j]
      BY <1>1
    <2> QED
      BY <1>1, <2>1 DEF AlignedList
  <1>2. ASSUME new = Append(list, b) PROVE AlignedList(new)
    <2>1. b \in Block /\ b.address = a
      BY DEF Block
    <2> HIDE DEF b, new
    <2>2. /\ Len(Append(list, b)) = Len(list) + 1
          /\ \A j \in 1..Len(list) : Append(list, b)[j] = list[j]
          /\ Append(list, b)[Len(list) + 1] = b
      BY <2>1, AppendProperties
    <2>3. \A j \in 1..Len(new) : j \in 1..Len(list) \/ j = Len(list) + 1
      BY <1>0, <1>2, <2>2
    <2> QED
      BY <1>2, <2>1, <2>2, <2>3 DEF AlignedList
  <1>3. \/ \E i \in 1..Len(list) :
             \/ new = [list EXCEPT ![i] = [address |-> a, size |-> list[i].size + n]]
             \/ new = [list EXCEPT ![i] = [address |-> list[i].address, size |-> list[i].size + n]]
        \/ new = Append(list, b)
    BY VFreeCases
  <1> HIDE DEF new, b
  <1>4. ASSUME NEW i \in 1..Len(list), new = [list EXCEPT ![i] = [address |-> a, size |-> list[i].size + n]]
        PROVE  AlignedList(new)
    <2> DEFINE c == [address |-> a, size |-> list[i].size + n]
    <2>1. c.address = a /\ new = [list EXCEPT ![i] = c]
      BY <1>4
    <2> HIDE DEF c
    <2> QED
      BY <1>1, <2>1
  <1>5. ASSUME NEW i \in 1..Len(list), new = [list EXCEPT ![i] = [address |-> list[i].address, size |-> list[i].size + n]]
        PROVE  AlignedList(new)
    <2> DEFINE c == [address |-> list[i].address, size |-> list[i].size + n]
    <2>1. c.address = list[i].address /\ new = [list EXCEPT ![i] = c] /\ Aligned(list[i].address)
      BY <1>5 DEF AlignedList
    <2> HIDE DEF c
    <2> QED
      BY <1>1, <2>1
  <1> QED
    BY <1>2, <1>3, <1>4, <1>5 DEF new

\* alloc gives out whole pages and keeps the blocks at whole pages.
LEMMA VAllocAligned ==
  ASSUME NEW list \in Seq(Block), AlignedList(list), NEW n \in Nat \ {0}
  PROVE  /\ AlignedList(VAlloc(list, n).list)
         /\ VAlloc(list, n).ok => Aligned(VAlloc(list, n).addr)
  <1> DEFINE r == VAlloc(list, n)
  <1>0. Len(list) \in Nat
    OBVIOUS
  <1>1. \/ r.ok = FALSE /\ r.list = list
        \/ \E i \in 1..Len(list) :
             /\ r.ok = TRUE /\ r.addr = list[i].address
             /\ \/ r.list = RemoveAt(list, i)
                \/ r.list = [list EXCEPT ![i] = [address |-> list[i].address + Bytes(n), size |-> list[i].size - n]]
    BY VAllocCases
  <1> HIDE DEF r
  <1>2. ASSUME NEW i \in 1..Len(list), r.list = RemoveAt(list, i) PROVE AlignedList(r.list)
    <2>1. /\ Len(RemoveAt(list, i)) = Len(list) - 1
          /\ \A j \in 1..Len(list) - 1 : RemoveAt(list, i)[j] = IF j < i THEN list[j] ELSE list[j + 1]
      BY RemoveAtFacts
    <2>2. \A j \in 1..Len(list) - 1 : j \in 1..Len(list) /\ j + 1 \in 1..Len(list)
      BY <1>0
    <2> QED
      BY <1>2, <2>1, <2>2 DEF AlignedList
  <1>3. ASSUME NEW i \in 1..Len(list),
               r.list = [list EXCEPT ![i] = [address |-> list[i].address + Bytes(n), size |-> list[i].size - n]]
        PROVE  AlignedList(r.list)
    <2> DEFINE c == [address |-> list[i].address + Bytes(n), size |-> list[i].size - n]
               a == list[i].address
    <2>1. c.address = a + Bytes(n) /\ r.list = [list EXCEPT ![i] = c] /\ Aligned(a)
      BY <1>3 DEF AlignedList
    <2>2. a \in Nat
      BY BlockFacts
    <2> HIDE DEF a, c
    <2>3. Aligned(c.address)
      BY <2>1, <2>2, AlignedFacts
    <2>4. Len(r.list) = Len(list) /\ \A j \in 1..Len(list) : r.list[j] = IF j = i THEN c ELSE list[j]
      BY <2>1
    <2> QED
      BY <2>3, <2>4 DEF AlignedList
  <1>4. r.ok => Aligned(r.addr)
    BY <1>1 DEF AlignedList
  <1> QED
    BY <1>1, <1>2, <1>3, <1>4 DEF r

\* A queue of the process.
Queue == [id : Nat, kind : {"recv", "send"}, assoc : Nat, uaddr : Nat, kaddr : Nat, pages : Nat \ {0}]

\* The queue that the fold of a set takes first.
Taken(T) == CHOOSE q \in T : TRUE

\* A round of Process::drop, which gives back the addresses of one queue.
GiveBackStep(list, f, T) ==
  IF T = {} THEN list ELSE VFree(f[T \ {Taken(T)}], Taken(T).kaddr, Taken(T).pages)

\* The sets of at most k elements, by the least number of elements.
LEMMA SmallerSet ==
  ASSUME NEW S, IsFiniteSet(S), NEW T, T \subseteq S, T # {}
  PROVE  /\ Taken(T) \in T /\ T \ {Taken(T)} \subseteq S
         /\ IsFiniteSet(T) /\ Cardinality(T) \in Nat /\ Cardinality(T) <= Cardinality(S)
         /\ Cardinality(T \ {Taken(T)}) = Cardinality(T) - 1
  <1>1. Taken(T) \in T
    BY DEF Taken
  <1>2. IsFiniteSet(T) /\ Cardinality(T) <= Cardinality(S)
    BY FS_Subset
  <1>3. Cardinality(T) \in Nat
    BY <1>2, FS_CardinalityType
  <1>4. Cardinality(T \ {Taken(T)}) = Cardinality(T) - 1
    BY <1>1, <1>2, FS_RemoveElement
  <1> QED
    BY <1>1, <1>2, <1>3, <1>4

\* The function that the fold is the value of.
LEMMA GiveBackExists ==
  ASSUME NEW list, NEW S, IsFiniteSet(S)
  PROVE  \E f : f = [T \in SUBSET S |-> GiveBackStep(list, f, T)]
  <1> DEFINE n == Cardinality(S)
             Good(f, k) == \A T \in SUBSET S : Cardinality(T) <= k => f[T] = GiveBackStep(list, f, T)
             G == {k \in 0..n : \E f : Good(f, k)}
  <1>1. n \in Nat
    BY FS_CardinalityType
  <1>2. \A T \in SUBSET S : T # {} => /\ Taken(T) \in T /\ T \ {Taken(T)} \in SUBSET S
                                      /\ Cardinality(T) \in Nat /\ Cardinality(T) <= n /\ Cardinality(T) # 0
                                      /\ Cardinality(T \ {Taken(T)}) = Cardinality(T) - 1
    <2> TAKE T \in SUBSET S
    <2> HAVE T # {}
    <2>1. Cardinality(T) # 0 \/ ~IsFiniteSet(T)
      BY FS_EmptySet
    <2> QED
      BY <2>1, SmallerSet
  <1>3. Cardinality({}) = 0
    BY FS_EmptySet
  <1> HIDE DEF n
  <1>4. 0 \in G
    <2> DEFINE f == [T \in SUBSET S |-> list]
    <2>1. ASSUME NEW T \in SUBSET S, Cardinality(T) <= 0, T # {} PROVE FALSE
      <3>1. Cardinality(T) \in Nat /\ Cardinality(T) # 0
        BY <1>2, <2>1
      <3> QED
        BY <2>1, <3>1
    <2>2. Good(f, 0)
      BY <2>1 DEF GiveBackStep
    <2> QED
      BY <1>1, <2>2
  <1>5. \A k \in 0..(n - 1) : k \in G => k + 1 \in G
    <2> SUFFICES ASSUME NEW k \in 0..(n - 1), k \in G PROVE k + 1 \in G
      OBVIOUS
    <2>1. PICK f : Good(f, k)
      OBVIOUS
    <2> DEFINE g == [T \in SUBSET S |-> IF Cardinality(T) <= k THEN f[T] ELSE GiveBackStep(list, f, T)]
    <2>2. ASSUME NEW T \in SUBSET S, Cardinality(T) <= k + 1 PROVE g[T] = GiveBackStep(list, g, T)
      <3>1. CASE T = {}
        <4>1. g[T] = f[T] /\ f[T] = GiveBackStep(list, f, T)
          BY <1>3, <2>1, <3>1
        <4> QED
          BY <3>1, <4>1 DEF GiveBackStep
      <3>2. CASE T # {}
        <4>1. T \ {Taken(T)} \in SUBSET S /\ Cardinality(T) \in Nat /\ Cardinality(T \ {Taken(T)}) <= k
          BY <1>2, <2>2, <3>2
        <4>2. g[T \ {Taken(T)}] = f[T \ {Taken(T)}]
          BY <4>1
        <4>3. g[T] = GiveBackStep(list, f, T)
          BY <2>1
        <4> HIDE DEF g
        <4> QED
          BY <3>2, <4>2, <4>3 DEF GiveBackStep
      <3> QED
        BY <3>1, <3>2
    <2>3. Good(g, k + 1) /\ k + 1 \in 0..n
      <3> HIDE DEF g
      <3> QED
        BY <1>1, <2>2
    <2> HIDE DEF g, Good
    <2> QED
      BY <2>3
  <1>6. n \in G
    <2> HIDE DEF G
    <2>1. \A k \in 0..n : k \in G
      BY <1>1, <1>4, <1>5, Induction
    <2> QED
      BY <1>1, <2>1
  <1>7. PICK f : Good(f, n)
    BY <1>6
  <1>8. \A T \in SUBSET S : f[T] = GiveBackStep(list, f, T)
    <2> TAKE T \in SUBSET S
    <2>1. Cardinality(T) <= n
      <3>1. CASE T = {}
        BY <1>1, <1>3, <3>1
      <3>2. CASE T # {}
        BY <1>2, <3>2
      <3> QED
        BY <3>1, <3>2
    <2> QED
      BY <1>7, <2>1
  <1> HIDE DEF Good, G
  <1> DEFINE g == [T \in SUBSET S |-> f[T]]
  <1>9. \A T \in SUBSET S : GiveBackStep(list, f, T) = GiveBackStep(list, g, T)
    <2> TAKE T \in SUBSET S
    <2>1. CASE T = {}
      BY <2>1 DEF GiveBackStep
    <2>2. CASE T # {}
      <3>1. g[T \ {Taken(T)}] = f[T \ {Taken(T)}]
        BY <1>2, <2>2
      <3> HIDE DEF g
      <3> QED
        BY <2>2, <3>1 DEF GiveBackStep
    <2> QED
      BY <2>1, <2>2
  <1>10. g = [T \in SUBSET S |-> GiveBackStep(list, g, T)]
    BY <1>8, <1>9
  <1> HIDE DEF g
  <1> QED
    BY <1>10

\* The range of a queue in the kernel.
KRange(q) == [owner |-> <<"queue", q>>, addr |-> q.kaddr, pages |-> q.pages]

\* Process::drop gives back the addresses of the queues, and only those.
LEMMA GiveBackFacts ==
  ASSUME NEW list \in Seq(Block), NEW S, IsFiniteSet(S), S \subseteq Queue
  PROVE  LET z == FoldSet(LAMBDA q, l : VFree(l, q.kaddr, q.pages), list, S)
         IN  /\ z \in Seq(Block)
             /\ \A H : Shares(list, H) /\ {KRange(q) : q \in S} \subseteq H => Shares(z, H \ {KRange(q) : q \in S})
             /\ AlignedList(list) /\ (\A q \in S : Aligned(q.kaddr)) => AlignedList(z)
  <1> DEFINE B(f) == [T \in SUBSET S |-> IF T = {} THEN list
                        ELSE VFree(f[T \ {CHOOSE x \in T : TRUE}], (CHOOSE x \in T : TRUE).kaddr, (CHOOSE x \in T : TRUE).pages)]
             f0 == CHOOSE f : f = B(f)
             z == FoldSet(LAMBDA q, l : VFree(l, q.kaddr, q.pages), list, S)
             n == Cardinality(S)
  <1>1. z = f0[S]
    BY DEF FoldSet, MapThenFoldSet
  <1>2. f0 = [T \in SUBSET S |-> GiveBackStep(list, f0, T)]
    <2>1. \A f : B(f) = [T \in SUBSET S |-> GiveBackStep(list, f, T)]
      BY DEF GiveBackStep, Taken
    <2>2. PICK g : g = [T \in SUBSET S |-> GiveBackStep(list, g, T)]
      BY GiveBackExists
    <2>3. g = B(g)
      BY <2>1, <2>2
    <2>4. f0 = B(f0)
      <3> HIDE DEF B
      <3> QED
        BY <2>3
    <2> HIDE DEF f0, B
    <2> QED
      BY <2>1, <2>4
  <1>3. n \in Nat /\ Cardinality({}) = 0
    BY FS_CardinalityType, FS_EmptySet
  <1> HIDE DEF f0, B, z, n
  <1>4. \A T \in SUBSET S : f0[T] = GiveBackStep(list, f0, T)
    BY <1>2
  <1> DEFINE Good(T) == /\ f0[T] \in Seq(Block)
                        /\ \A H : Shares(list, H) /\ {KRange(q) : q \in T} \subseteq H
                             => Shares(f0[T], H \ {KRange(q) : q \in T})
                        /\ AlignedList(list) /\ (\A q \in S : Aligned(q.kaddr)) => AlignedList(f0[T])
             G == {k \in 0..n : \A T \in SUBSET S : Cardinality(T) <= k => Good(T)}
  <1>5. Good({})
    <2>1. f0[{}] = list
      BY <1>4 DEF GiveBackStep
    <2>2. \A H : H \ {KRange(q) : q \in {}} = H
      OBVIOUS
    <2> QED
      BY <2>1, <2>2
  <1>6. ASSUME NEW T \in SUBSET S, T # {}, Good(T \ {Taken(T)}) PROVE Good(T)
    <2> DEFINE q == Taken(T)
               R == T \ {q}
               old == f0[R]
    <2>1. q \in T /\ q \in Queue
      BY <1>6, SmallerSet
    <2>2. q.kaddr \in Nat /\ q.pages \in Nat \ {0}
      BY <2>1 DEF Queue
    <2>3. f0[T] = VFree(old, q.kaddr, q.pages)
      BY <1>4, <1>6 DEF GiveBackStep
    <2>4. /\ old \in Seq(Block)
          /\ \A H : Shares(list, H) /\ {KRange(x) : x \in R} \subseteq H => Shares(old, H \ {KRange(x) : x \in R})
          /\ AlignedList(list) /\ (\A x \in S : Aligned(x.kaddr)) => AlignedList(old)
      BY <1>6
    <2> HIDE DEF q, R, old
    <2>5. f0[T] \in Seq(Block)
      BY <2>2, <2>3, <2>4, VFreeFacts
    <2>6. AlignedList(list) /\ (\A x \in S : Aligned(x.kaddr)) => AlignedList(f0[T])
      BY <2>1, <2>2, <2>3, <2>4, VFreeAligned
    <2>7. ASSUME NEW H, Shares(list, H), {KRange(x) : x \in T} \subseteq H
          PROVE  Shares(f0[T], H \ {KRange(x) : x \in T})
      <3>1. \A x : x # q => KRange(x) # KRange(q)
        BY DEF KRange
      <3>2. T = R \cup {q} /\ q \notin R
        BY <2>1 DEF R
      <3> DEFINE K == H \ {KRange(x) : x \in R}
      <3>3. Shares(old, K) /\ KRange(q) \in K /\ K \ {KRange(q)} = H \ {KRange(x) : x \in T}
        BY <2>4, <2>7, <3>1, <3>2
      <3>4. KRange(q).addr = q.kaddr /\ KRange(q).pages = q.pages
        BY DEF KRange
      <3> HIDE DEF K
      <3> DEFINE h == KRange(q)
      <3>5. h \in K /\ h.addr = q.kaddr /\ h.pages = q.pages
        BY <3>3, <3>4
      <3> HIDE DEF h
      <3>6. Shares(VFree(old, q.kaddr, q.pages), K \ {h})
        BY <2>2, <3>3, <3>5, VFreeFacts
      <3> QED
        BY <2>3, <3>3, <3>6 DEF h
    <2> QED
      BY <2>5, <2>6, <2>7
  <1>7. 0 \in G
    <2>1. ASSUME NEW T \in SUBSET S, Cardinality(T) <= 0 PROVE T = {}
      <3> SUFFICES ASSUME T # {} PROVE FALSE
        OBVIOUS
      <3>1. Cardinality(T) \in Nat /\ IsFiniteSet(T)
        BY SmallerSet
      <3>2. Cardinality(T) = 0
        BY <2>1, <3>1
      <3> QED
        BY <3>1, <3>2, FS_EmptySet
    <2> HIDE DEF Good
    <2> QED
      BY <1>3, <1>5, <2>1
  <1>8. \A k \in 0..(n - 1) : k \in G => k + 1 \in G
    <2> SUFFICES ASSUME NEW k \in 0..(n - 1), k \in G PROVE k + 1 \in G
      OBVIOUS
    <2> HIDE DEF Good
    <2>1. ASSUME NEW T \in SUBSET S, Cardinality(T) <= k + 1 PROVE Good(T)
      <3>1. CASE T = {}
        BY <1>5, <3>1
      <3>2. CASE T # {}
        <4>1. Cardinality(T) \in Nat /\ Cardinality(T \ {Taken(T)}) = Cardinality(T) - 1 /\ T \ {Taken(T)} \in SUBSET S
          BY <3>2, SmallerSet
        <4>2. Cardinality(T \ {Taken(T)}) <= k
          BY <2>1, <4>1
        <4>3. Good(T \ {Taken(T)})
          BY <4>1, <4>2
        <4> QED
          BY <1>6, <3>2, <4>3
      <3> QED
        BY <3>1, <3>2
    <2> QED
      BY <1>3, <2>1
  <1>9. n \in G
    <2> HIDE DEF G
    <2>1. \A k \in 0..n : k \in G
      BY <1>3, <1>7, <1>8, Induction
    <2> QED
      BY <1>3, <2>1
  <1>10. Good(S)
    <2> HIDE DEF Good
    <2>1. Cardinality(S) <= n /\ S \in SUBSET S
      BY <1>3 DEF n
    <2> QED
      BY <1>9, <2>1
  <1> QED
    BY <1>1, <1>10 DEF z

-----------------------------------------------------------------------------
(* Copies out of a process. *)

\* What is read before the first round.
CopyStart(pt, src, len) ==
  LET v == src \div PAGE_SIZE
      po == src % PAGE_SIZE
      first == FirstRegion(pt, v)
  IN  [out |-> [i \in 1..CopyLength(first, po, len) |-> Bytes(pt[first].page) + po + i - 1],
       next |-> BaseOf(first) + Span(first[1]), ok |-> FALSE, more |-> TRUE]

\* mapped_copy_from is the last of its rounds, unless it refuses at once.
LEMMA CopyTurns ==
  ASSUME NEW pt, NEW src, NEW len \in Nat, RegionsFrom(pt, src \div PAGE_SIZE) # {},
         BaseOf(FirstRegion(pt, src \div PAGE_SIZE)) = src \div PAGE_SIZE
  PROVE  \E h : /\ h[0] = CopyStart(pt, src, len)
                /\ MappedCopyFrom(pt, src, len) = h[len + 1]
                /\ \A k \in 1..len + 1 : h[k] = CopyTurn([pt |-> pt, len |-> len], h[k - 1])
  <1> DEFINE p == [pt |-> pt, len |-> len]
             n == len + 1
             start == CopyStart(pt, src, len)
             T(s) == LET e == FirstRegion(pt, s.next)
                         left == len - Len(s.out)
                     IN  IF ~s.more THEN s
                         ELSE IF RegionsFrom(pt, s.next) = {} THEN [s EXCEPT !.more = FALSE]
                         ELSE IF left = 0 THEN [s EXCEPT !.ok = TRUE, !.more = FALSE]
                         ELSE IF BaseOf(e) # s.next THEN [s EXCEPT !.more = FALSE]
                         ELSE [s EXCEPT !.out = @ \o [i \in 1..CopyLength(e, 0, left) |-> Bytes(pt[e].page) + 0 + i - 1],
                                        !.next = BaseOf(e) + Span(e[1])]
             B(f) == [S \in SUBSET (1..n) |-> IF S = {} THEN start ELSE T(f[S \ {Max(S)}])]
  <1>1. MappedCopyFrom(pt, src, len) = (CHOOSE f : f = B(f))[1..n]
    BY DEF MappedCopyFrom, CopyStart, FoldLeft, MapThenFoldSet
  <1>2. \A s, k : T(s) = Turn("copy", p, s, k) /\ CopyTurn(p, s) = Turn("copy", p, s, k)
    BY DEF Turn, CopyTurn
  <1>9. n \in Nat
    OBVIOUS
  <1> HIDE DEF T, p, start, n
  <1>3. \A f : B(f) = Iter("copy", p, start, n, f)
    BY <1>2 DEF Iter
  <1>4. PICK g : g = Iter("copy", p, start, n, g)
    BY <1>9, IterExists
  <1> DEFINE f0 == CHOOSE f : f = B(f)
  <1>5. f0 = B(f0)
    <2>1. g = B(g)
      BY <1>3, <1>4
    <2> HIDE DEF B
    <2> QED
      BY <2>1
  <1> HIDE DEF f0, B
  <1>6. f0 = Iter("copy", p, start, n, f0)
    BY <1>3, <1>5
  <1>7. PICK h : /\ h[0] = start /\ f0[Upto(n)] = h[n]
                 /\ \A k \in 1..n : h[k] = Turn("copy", p, h[k - 1], k)
    BY <1>6, <1>9, IterSteps
  <1>8. \A k \in 1..n : h[k] = CopyTurn(p, h[k - 1])
    BY <1>2, <1>7
  <1> QED
    BY <1>1, <1>7, <1>8 DEF Upto, f0, p, start, n

\* The first region from a page on has the least start of all.
LEMMA FirstRegionFacts ==
  ASSUME NEW pt, PtOK(pt), NEW v \in Nat, RegionsFrom(pt, v) # {}
  PROVE  LET e == FirstRegion(pt, v)
         IN  /\ e \in Maps(pt) /\ e \in Entry /\ BaseOf(e) + Span(e[1]) > v
             /\ \A f \in RegionsFrom(pt, v) : BaseOf(e) <= BaseOf(f)
  <1> DEFINE R == RegionsFrom(pt, v)
             N == {BaseOf(e) : e \in R}
  <1>1. \A e \in R : e \in Maps(pt) /\ e \in Entry /\ BaseOf(e) + Span(e[1]) > v /\ BaseOf(e) \in Nat
    <2> TAKE e \in R
    <2>1. e \in Maps(pt) /\ e \in Entry /\ BaseOf(e) + Span(e[1]) > v
      BY DEF RegionsFrom, Maps, PtOK
    <2> QED
      BY <2>1, CoverFacts
  <1> HIDE DEF R
  <1>2. N \subseteq Nat /\ N # {}
    BY <1>1 DEF R
  <1>3. PICK i \in N : \A j \in N : i <= j
    <2> HIDE DEF N
    <2> QED
      BY <1>2, LeastElement
  <1>4. PICK d \in R : i = BaseOf(d)
    BY <1>3
  <1>5. \A f \in R : BaseOf(d) <= BaseOf(f)
    BY <1>3, <1>4
  <1>6. FirstRegion(pt, v) = CHOOSE e \in R : \A f \in R : BaseOf(e) <= BaseOf(f)
    BY DEF FirstRegion, R
  <1> DEFINE e == FirstRegion(pt, v)
  <1>7. e \in R /\ \A f \in R : BaseOf(e) <= BaseOf(f)
    BY <1>5, <1>6
  <1> HIDE DEF e
  <1>8. e \in Maps(pt) /\ e \in Entry /\ BaseOf(e) + Span(e[1]) > v
    BY <1>1, <1>7
  <1> QED
    BY <1>7, <1>8 DEF e, R

\* A page behind which nothing is mapped, or the next mapping starts, is not mapped.
LEMMA BeforeFirst ==
  ASSUME NEW pt, PtOK(pt), NEW v \in Nat,
         RegionsFrom(pt, v) = {} \/ v < BaseOf(FirstRegion(pt, v))
  PROVE  Lookup(pt, v) = -1
  <1>1. ASSUME NEW e \in Maps(pt), e = EntryAt(e[1], v) PROVE FALSE
    <2>1. e \in Entry
      BY DEF Maps, PtOK
    <2>2. BaseOf(e) \in Nat /\ BaseOf(e) <= v /\ v < BaseOf(e) + Span(e[1]) /\ Span(e[1]) \in Nat
      BY <1>1, <2>1, CoverFacts
    <2>3. e \in RegionsFrom(pt, v)
      BY <2>2 DEF RegionsFrom
    <2>4. BaseOf(FirstRegion(pt, v)) <= BaseOf(e) /\ FirstRegion(pt, v) \in Entry
      BY <2>3, FirstRegionFacts
    <2>5. BaseOf(FirstRegion(pt, v)) \in Nat
      BY <2>4, CoverFacts
    <2> QED
      BY <2>2, <2>3, <2>4, <2>5
  <1>2. ~Covered(pt, v)
    BY <1>1 DEF Covered
  <1> QED
    BY <1>2, LookupFacts

\* Two mappings of one page are the same.
LEMMA SameRegion ==
  ASSUME NEW pt, PtOK(pt), NEW e \in Maps(pt), NEW f \in Maps(pt), NEW w \in Nat,
         BaseOf(e) <= w, w < BaseOf(e) + Span(e[1]), BaseOf(f) <= w, w < BaseOf(f) + Span(f[1])
  PROVE  e = f
  <1>1. e \in Entry /\ f \in Entry
    BY DEF Maps, PtOK
  <1>2. e = EntryAt(e[1], w) /\ f = EntryAt(f[1], w)
    BY <1>1, CoverFacts
  <1>3. e = EntryAt(WalkLevel(pt, w), w)
    BY <1>2, CoverUnique
  <1>4. f = EntryAt(WalkLevel(pt, w), w)
    BY <1>2, CoverUnique
  <1> QED
    BY <1>3, <1>4

\* Page and offset of a byte.
LEMMA ByteParts ==
  ASSUME NEW x \in Nat
  PROVE  /\ x = Bytes(x \div PAGE_SIZE) + (x % PAGE_SIZE) /\ x \div PAGE_SIZE \in Nat
         /\ x % PAGE_SIZE \in Nat /\ x % PAGE_SIZE < PAGE_SIZE
         /\ \A b \in Nat : Bytes(b) <= x => b <= x \div PAGE_SIZE
         /\ \A b \in Nat : x < Bytes(b) => x \div PAGE_SIZE < b
         /\ \A b \in Nat : x = Bytes(b) => x \div PAGE_SIZE = b
  <1>1. PAGE_SIZE \in Nat \ {0}
    BY PageSizeAssumption
  <1>2. PICK q \in Nat, r \in Nat : /\ q = x \div PAGE_SIZE /\ r = x % PAGE_SIZE /\ r < PAGE_SIZE
                                    /\ x = q * PAGE_SIZE + r
    <2>1. x = (x \div PAGE_SIZE) * PAGE_SIZE + (x % PAGE_SIZE) /\ x % PAGE_SIZE \in 0..(PAGE_SIZE - 1)
      BY <1>1, DivisionExists
    <2>2. x \div PAGE_SIZE \in Nat
      BY <1>1
    <2> QED
      BY <1>1, <2>1, <2>2
  <1>3. x = Bytes(q) + r /\ Bytes(q) \in Nat
    BY <1>1, <1>2 DEF Bytes
  <1>4. ASSUME NEW b \in Nat, Bytes(b) <= x PROVE b <= q
    <2> SUFFICES ASSUME q + 1 <= b PROVE FALSE
      OBVIOUS
    <2>1. Bytes(q + 1) <= Bytes(b) /\ Bytes(q + 1) = Bytes(q) + PAGE_SIZE /\ Bytes(b) \in Nat
      <3>1. q + 1 \in Nat
        OBVIOUS
      <3>2. Bytes(q + 1) = Bytes(q) + PAGE_SIZE
        BY <1>1 DEF Bytes
      <3> QED
        BY <3>1, <3>2, BytesFacts
    <2> QED
      BY <1>1, <1>2, <1>3, <1>4, <2>1
  <1>5. ASSUME NEW b \in Nat, x < Bytes(b) PROVE q < b
    <2> SUFFICES ASSUME b <= q PROVE FALSE
      OBVIOUS
    <2>1. Bytes(b) <= Bytes(q) /\ Bytes(b) \in Nat
      BY BytesFacts
    <2> QED
      BY <1>2, <1>3, <1>5, <2>1
  <1>6. ASSUME NEW b \in Nat, x = Bytes(b) PROVE q = b
    <2>1. b <= q
      BY <1>4, <1>6
    <2>2. b + 1 \in Nat /\ Bytes(b + 1) > Bytes(b) /\ Bytes(b) \in Nat /\ Bytes(b + 1) \in Nat
      BY BytesFacts
    <2>3. q < b + 1
      BY <1>5, <1>6, <2>2
    <2> QED
      BY <2>1, <2>3
  <1> QED
    BY <1>1, <1>2, <1>3, <1>4, <1>5, <1>6

\* The i-th byte of a copy from src is the one mapped there.
Reads(pt, src, i, x) ==
  LET page == Lookup(pt, (src + i - 1) \div PAGE_SIZE)
  IN  page # -1 /\ x = Bytes(page) + ((src + i - 1) % PAGE_SIZE)

\* A region yields the bytes that are mapped there.
LEMMA RegionReads ==
  ASSUME NEW pt, PtOK(pt), NEW e \in Maps(pt), NEW src \in Nat, NEW o \in Nat, NEW from \in Nat, NEW n \in Nat,
         src + o = Bytes(BaseOf(e)) + from, from + n <= Bytes(Span(e[1])), NEW i \in 1..n
  PROVE  Reads(pt, src, o + i, Bytes(pt[e].page) + from + i - 1)
  <1>1. e \in Entry /\ pt[e].page \in Nat
    BY PhysicalMemoryAssumption DEF Maps, PtOK, Pages
  <1>2. PICK b \in Nat, z \in Nat, g \in Nat : b = BaseOf(e) /\ z = Span(e[1]) /\ g = pt[e].page
    <2>1. 0 \in Nat
      OBVIOUS
    <2> QED
      BY <1>1, <2>1, CoverFacts
  <1> DEFINE d == from + i - 1
             x == src + (o + i) - 1
  <1>3. d \in Nat /\ x \in Nat /\ d < Bytes(z) /\ x = Bytes(b) + d
    <2>1. Bytes(z) \in Nat /\ Bytes(b) \in Nat
      BY BytesFacts
    <2>2. src + o = Bytes(b) + from /\ from + n <= Bytes(z)
      BY <1>2
    <2> QED
      BY <2>1, <2>2
  <1> HIDE DEF d, x
  <1>4. PICK j \in Nat, r \in Nat : j = d \div PAGE_SIZE /\ r = d % PAGE_SIZE /\ d = Bytes(j) + r /\ j < z /\ r < PAGE_SIZE
    BY <1>3, ByteParts
  <1>5. x \div PAGE_SIZE = b + j /\ x % PAGE_SIZE = r
    <2>1. (d + Bytes(b)) \div PAGE_SIZE = d \div PAGE_SIZE + b
      BY <1>3, OffsetPage
    <2>2. d + Bytes(b) = x /\ d \div PAGE_SIZE + b = b + j
      <3>1. Bytes(b) \in Nat
        BY BytesFacts
      <3> QED
        BY <1>3, <1>4, <3>1
    <2>3. x \div PAGE_SIZE = b + j
      BY <2>1, <2>2
    <2>4. x = Bytes(b + j) + (x % PAGE_SIZE) /\ x % PAGE_SIZE \in Nat
      BY <1>3, <2>3, ByteParts
    <2>5. Bytes(b + j) = Bytes(b) + Bytes(j) /\ Bytes(b) \in Nat /\ Bytes(j) \in Nat
      BY BytesFacts
    <2> QED
      BY <1>3, <1>4, <2>3, <2>4, <2>5
  <1> DEFINE w == b + j
  <1>6. w \in Nat /\ BaseOf(e) <= w /\ w < BaseOf(e) + Span(e[1]) /\ w - BaseOf(e) = j
    BY <1>2, <1>4
  <1> HIDE DEF w
  <1>7. e = EntryAt(e[1], w)
    BY <1>1, <1>6, CoverFacts
  <1>8. Lookup(pt, w) = g + j /\ Lookup(pt, w) # -1
    BY <1>2, <1>6, <1>7, LookupFacts
  <1>9. Bytes(pt[e].page) + from + i - 1 = Bytes(g + j) + r
    <2>1. Bytes(g + j) = Bytes(g) + Bytes(j) /\ Bytes(g) \in Nat /\ Bytes(j) \in Nat
      BY BytesFacts
    <2>2. Bytes(pt[e].page) = Bytes(g) /\ from + i - 1 = Bytes(j) + r
      BY <1>2, <1>4 DEF d
    <2>3. PICK m \in Nat, u \in Nat : m = Bytes(g) /\ u = Bytes(j)
      BY <2>1
    <2>4. m + from + i - 1 = (m + u) + r
      <3>1. from + i - 1 = u + r
        BY <2>2, <2>3
      <3> QED
        BY <3>1
    <2> QED
      BY <2>1, <2>2, <2>3, <2>4
  <1>10. Lookup(pt, x \div PAGE_SIZE) = g + j /\ x % PAGE_SIZE = r
    BY <1>5, <1>8 DEF w
  <1>11. g + j # -1
    BY <1>8
  <1> QED
    BY <1>9, <1>10, <1>11 DEF Reads, x

\* A copy that is refused: a byte is not mapped, or no mapping follows.
Refused(pt, src, len) ==
  \/ \E i \in 0..(len - 1) : Lookup(pt, (src + i) \div PAGE_SIZE) = -1
  \/ \A e \in Maps(pt) : BaseOf(e) <= (src + len - 1) \div PAGE_SIZE

\* A mapping starts after the last page of the copy.
Follows(pt, src, len) == \E e \in Maps(pt) : BaseOf(e) > (src + len - 1) \div PAGE_SIZE

\* o bytes from src on end before page next does.
Within(src, o, next) == src + o <= Bytes(next)

\* The bytes read so far are right, and end where the last region that was
\* read does; every round reads at least one.
CopyLoop(pt, src, len, k, s) ==
  /\ s = [out |-> s.out, next |-> s.next, ok |-> s.ok, more |-> s.more]
  /\ s.out \in Seq(Nat) /\ Len(s.out) <= len /\ s.next \in Nat /\ s.ok \in BOOLEAN /\ s.more \in BOOLEAN
  /\ \A i \in 1..Len(s.out) : Reads(pt, src, i, s.out[i])
  /\ Len(s.out) < len => Bytes(s.next) = src + Len(s.out)
  /\ \E f \in Maps(pt) : BaseOf(f) + Span(f[1]) = s.next /\ BaseOf(f) <= (src + len - 1) \div PAGE_SIZE
  /\ s.more => ~s.ok /\ Len(s.out) > k
  /\ s.ok => Len(s.out) = len
  /\ ~s.more /\ ~s.ok => Refused(pt, src, len)
  /\ Within(src, Len(s.out), s.next)
  /\ s.ok => Follows(pt, src, len)

\* q is s followed by a.
Joined(q, s, a) ==
  /\ q \in Seq(Nat) /\ Len(q) = Len(s) + Len(a)
  /\ \A i \in 1..Len(s) + Len(a) : q[i] = IF i <= Len(s) THEN s[i] ELSE a[i - Len(s)]

\* The n numbers from g + from on are appended to s.
Appended(s, n, g, from, a) ==
  Len(a) = n /\ (\A i \in 1..n : a[i] = g + from + i - 1) /\ Joined(s \o a, s, a)

\* What is read from a region is appended.
LEMMA JoinedReads ==
  ASSUME NEW s \in Seq(Nat), NEW n \in Nat, NEW g \in Nat, NEW from \in Nat
  PROVE  Appended(s, n, g, from, [i \in 1..n |-> g + from + i - 1])
  <1> DEFINE a == [i \in 1..n |-> g + from + i - 1]
  <1>1. \A i \in 1..n : g + from + i - 1 \in Nat
    OBVIOUS
  <1>2. a \in [1..n -> Nat]
    BY <1>1
  <1>3. \A i \in 1..n : a[i] = g + from + i - 1
    OBVIOUS
  <1> HIDE DEF a
  <1>4. a \in Seq(Nat)
    <2> DEFINE F == [1..n -> Nat]
               W == {[1..m -> Nat] : m \in Nat}
    <2>1. F \in W
      OBVIOUS
    <2>2. a \in F
      BY <1>2
    <2>3. Seq(Nat) = UNION W
      BY SeqDef
    <2> HIDE DEF F, W
    <2>4. a \in UNION W
      BY <2>1, <2>2
    <2> QED
      BY <2>3, <2>4
  <1>5. Len(a) = n
    BY <1>2, <1>4
  <1>6. Joined(s \o a, s, a)
    BY <1>4, ConcatProperties DEF Joined
  <1>7. Appended(s, n, g, from, a)
    BY <1>3, <1>5, <1>6 DEF Appended
  <1> QED
    BY <1>7 DEF a

\* Of z pages at page b, n bytes were read to their end; the copy had come to byte o.
ReadTo(b, z, src, o, n, from) == src + o = Bytes(b) + from /\ from + n = Bytes(z)

\* The pages end where the copy has come to.
EndsAt(b, z, src, o, n) == Bytes(b + z) = src + (o + n)

\* Where the region that was read ends.
LEMMA ReadEnd ==
  ASSUME NEW b \in Nat, NEW z \in Nat, NEW src \in Nat, NEW o \in Nat, NEW n \in Nat, NEW from \in Nat,
         ReadTo(b, z, src, o, n, from)
  PROVE  EndsAt(b, z, src, o, n)
  <1>1. Bytes(b + z) = Bytes(b) + Bytes(z) /\ Bytes(b) \in Nat /\ Bytes(z) \in Nat
    BY BytesFacts
  <1> QED
    BY <1>1 DEF ReadTo, EndsAt

\* n bytes of region e, from the byte from on, follow s, of which all is right.
ReadsOn(pt, e, src, len, from, s, n, a, q) ==
  /\ Len(s) < len /\ \A i \in 1..Len(s) : Reads(pt, src, i, s[i])
  /\ src + Len(s) = Bytes(BaseOf(e)) + from /\ from < Bytes(Span(e[1]))
  /\ n = CopyLength(e, from, len - Len(s))
  /\ n \in Nat => /\ Len(a) = n /\ \A i \in 1..n : a[i] = Bytes(pt[e].page) + from + i - 1
                  /\ Joined(q, s, a)

\* Reading from a region extends what was read.
LEMMA CopyReads ==
  ASSUME NEW pt, PtOK(pt), NEW e \in Maps(pt), NEW src \in Nat, NEW len \in Nat, NEW from \in Nat,
         NEW s \in Seq(Nat), NEW n, NEW a, NEW q, ReadsOn(pt, e, src, len, from, s, n, a, q)
  PROVE  /\ q \in Seq(Nat) /\ Len(q) <= len /\ Len(q) > Len(s)
         /\ \A i \in 1..Len(q) : Reads(pt, src, i, q[i])
         /\ Len(q) < len => Bytes(BaseOf(e) + Span(e[1])) = src + Len(q)
         /\ BaseOf(e) <= (src + len - 1) \div PAGE_SIZE
         /\ BaseOf(e) + Span(e[1]) \in Nat
         /\ Within(src, Len(q), BaseOf(e) + Span(e[1]))
  <1>1. e \in Entry /\ pt[e].page \in Nat
    BY PhysicalMemoryAssumption DEF Maps, PtOK, Pages
  <1>2. PICK b \in Nat, z \in Nat, g \in Nat : b = BaseOf(e) /\ z = Span(e[1]) /\ g = Bytes(pt[e].page)
    <2>1. 0 \in Nat
      OBVIOUS
    <2>2. Bytes(pt[e].page) \in Nat
      BY <1>1, BytesFacts
    <2> QED
      BY <1>1, <2>1, <2>2, CoverFacts
  <1>3. PICK o \in Nat, zz \in Nat, bb \in Nat : o = Len(s) /\ zz = Bytes(z) /\ bb = Bytes(b)
    <2>1. Bytes(z) \in Nat /\ Bytes(b) \in Nat
      BY BytesFacts
    <2>2. Len(s) \in Nat
      OBVIOUS
    <2> QED
      BY <2>1, <2>2
  <1>4. n \in Nat \ {0} /\ from + n <= zz /\ o + n <= len /\ (o + n < len => from + n = zz)
    <2>1. n = IF zz - from <= len - o THEN zz - from ELSE len - o
      BY <1>2, <1>3 DEF ReadsOn, CopyLength, Least
    <2>2. o < len /\ from < zz
      BY <1>2, <1>3 DEF ReadsOn
    <2> QED
      BY <2>1, <2>2
  <1>5. Len(a) = n /\ \A i \in 1..n : a[i] = g + from + i - 1
    BY <1>2, <1>4 DEF ReadsOn
  <1>6. Joined(q, s, a)
    BY <1>4 DEF ReadsOn
  <1>7. q \in Seq(Nat) /\ Len(q) = o + n /\ \A i \in 1..(o + n) : q[i] = IF i <= o THEN s[i] ELSE a[i - o]
    BY <1>3, <1>5, <1>6 DEF Joined
  <1>8. src + o = bb + from /\ o < len
    BY <1>2, <1>3 DEF ReadsOn
  <1>9. ASSUME NEW i \in 1..(o + n) PROVE Reads(pt, src, i, q[i])
    <2>1. CASE i <= o
      <3>1. i \in 1..Len(s) /\ q[i] = s[i]
        BY <1>3, <1>4, <1>7, <2>1
      <3> QED
        BY <3>1 DEF ReadsOn
    <2>2. CASE ~(i <= o)
      <3>1. PICK j \in 1..n : i = o + j /\ j = i - o
        <4>1. i - o \in 1..n /\ i = o + (i - o)
          BY <1>4, <2>2
        <4> QED
          BY <4>1
      <3>2. q[i] = g + from + j - 1
        BY <1>5, <1>7, <2>2, <3>1
      <3>3. src + o = Bytes(BaseOf(e)) + from /\ from + n <= Bytes(Span(e[1])) /\ n \in Nat
        BY <1>2, <1>3, <1>4, <1>8
      <3>4. Reads(pt, src, o + j, Bytes(pt[e].page) + from + j - 1)
        BY <3>3, RegionReads
      <3> QED
        BY <1>2, <3>1, <3>2, <3>4
    <2> QED
      BY <2>1, <2>2
  <1>10. ASSUME o + n < len PROVE Bytes(b + z) = src + (o + n)
    <2>1. ReadTo(b, z, src, o, n, from) /\ n \in Nat
      BY <1>3, <1>4, <1>8, <1>10 DEF ReadTo
    <2>2. b \in Nat /\ z \in Nat /\ src \in Nat /\ o \in Nat /\ from \in Nat
      BY <1>2, <1>3
    <2>3. EndsAt(b, z, src, o, n)
      BY <2>1, <2>2, ReadEnd
    <2> QED
      BY <2>3 DEF EndsAt
  <1>11. b <= (src + len - 1) \div PAGE_SIZE
    <2>1. src + len - 1 \in Nat /\ Bytes(b) <= src + len - 1
      BY <1>3, <1>8
    <2> QED
      BY <2>1, ByteParts
  <1>12. b + z \in Nat /\ b + z = BaseOf(e) + Span(e[1]) /\ b = BaseOf(e)
    BY <1>2
  <1>13. Len(q) <= len /\ Len(q) > Len(s)
    BY <1>3, <1>4, <1>7
  <1>14. Len(q) < len => Bytes(BaseOf(e) + Span(e[1])) = src + Len(q)
    BY <1>7, <1>10, <1>12
  <1>15. Within(src, Len(q), BaseOf(e) + Span(e[1]))
    <2>1. Bytes(b + z) = bb + zz
      BY <1>3, BytesFacts
    <2>2. src + (o + n) <= bb + zz
      BY <1>4, <1>8
    <2>3. src + Len(q) <= Bytes(b + z)
      BY <1>7, <2>1, <2>2
    <2> QED
      BY <1>12, <2>3 DEF Within
  <1> QED
    BY <1>7, <1>9, <1>11, <1>12, <1>13, <1>14, <1>15

\* After a mapping that ends at page v, the next one does not start before v.
LEMMA NextRegion ==
  ASSUME NEW pt, PtOK(pt), NEW f \in Maps(pt), NEW v \in Nat, BaseOf(f) + Span(f[1]) = v, RegionsFrom(pt, v) # {}
  PROVE  FirstRegion(pt, v) \in Maps(pt) /\ BaseOf(FirstRegion(pt, v)) \in Nat /\ v <= BaseOf(FirstRegion(pt, v))
  <1> DEFINE e == FirstRegion(pt, v)
  <1>1. e \in Maps(pt) /\ e \in Entry /\ BaseOf(e) + Span(e[1]) > v
    BY FirstRegionFacts
  <1>2. f \in Entry
    BY DEF Maps, PtOK
  <1> HIDE DEF e
  <1>3. PICK c \in Nat, y \in Nat \ {0} : c = BaseOf(e) /\ y = Span(e[1]) /\ c + y > v
    BY <1>1, CoverFacts
  <1>4. PICK b \in Nat, z \in Nat \ {0} : b = BaseOf(f) /\ z = Span(f[1]) /\ b + z = v
    BY <1>2, CoverFacts
  <1>5. ASSUME c < v PROVE FALSE
    <2>1. PICK w \in Nat : w + 1 = v
      <3>1. v - 1 \in Nat /\ (v - 1) + 1 = v
        BY <1>4
      <3> QED
        BY <3>1
    <2>2. c <= w /\ w < c + y /\ b <= w /\ w < b + z
      BY <1>3, <1>4, <1>5, <2>1
    <2>3. BaseOf(e) <= w /\ w < BaseOf(e) + Span(e[1]) /\ BaseOf(f) <= w /\ w < BaseOf(f) + Span(f[1])
      BY <1>3, <1>4, <2>2
    <2>4. e = f
      BY <1>1, <2>3, SameRegion
    <2> QED
      BY <1>3, <1>4, <2>4
  <1>6. v <= c
    BY <1>5
  <1> QED
    BY <1>1, <1>3, <1>6 DEF e

\* One round of the copy.
LEMMA CopyTurnFacts ==
  ASSUME NEW pt, PtOK(pt), NEW src \in Nat, NEW len \in Nat \ {0}, NEW k \in Nat, NEW s, CopyLoop(pt, src, len, k, s)
  PROVE  CopyLoop(pt, src, len, k + 1, CopyTurn([pt |-> pt, len |-> len], s))
  <1> DEFINE t == CopyTurn([pt |-> pt, len |-> len], s)
             e == FirstRegion(pt, s.next)
             left == len - Len(s.out)
             n == CopyLength(e, 0, left)
             a == [i \in 1..n |-> Bytes(pt[e].page) + 0 + i - 1]
             last == (src + len - 1) \div PAGE_SIZE
  <1>1. t = IF ~s.more THEN s
            ELSE IF RegionsFrom(pt, s.next) = {} THEN [s EXCEPT !.more = FALSE]
            ELSE IF left = 0 THEN [s EXCEPT !.ok = TRUE, !.more = FALSE]
            ELSE IF BaseOf(e) # s.next THEN [s EXCEPT !.more = FALSE]
            ELSE [s EXCEPT !.out = @ \o a, !.next = BaseOf(e) + Span(e[1])]
    BY DEF CopyTurn
  <1>2. /\ s = [out |-> s.out, next |-> s.next, ok |-> s.ok, more |-> s.more]
        /\ s.out \in Seq(Nat) /\ Len(s.out) <= len /\ s.next \in Nat /\ s.ok \in BOOLEAN /\ s.more \in BOOLEAN
        /\ \A i \in 1..Len(s.out) : Reads(pt, src, i, s.out[i])
        /\ Len(s.out) < len => Bytes(s.next) = src + Len(s.out)
        /\ s.more => ~s.ok /\ Len(s.out) > k
        /\ s.ok => Len(s.out) = len
        /\ ~s.more /\ ~s.ok => Refused(pt, src, len)
        /\ Within(src, Len(s.out), s.next)
        /\ s.ok => Follows(pt, src, len)
    BY DEF CopyLoop
  <1>3. PICK f \in Maps(pt) : BaseOf(f) + Span(f[1]) = s.next /\ BaseOf(f) <= last
    BY DEF CopyLoop
  <1>4. PICK o \in Nat, v \in Nat, b \in Nat, z \in Nat \ {0} :
          /\ o = Len(s.out) /\ v = s.next /\ b = BaseOf(f) /\ z = Span(f[1]) /\ b + z = v /\ o <= len
    <2>1. f \in Entry /\ 0 \in Nat
      BY DEF Maps, PtOK
    <2>2. BaseOf(f) \in Nat /\ Span(f[1]) \in Nat \ {0}
      BY <2>1, CoverFacts
    <2>3. Len(s.out) \in Nat
      BY <1>2
    <2> QED
      BY <1>2, <1>3, <2>2, <2>3
  <1>5. ASSUME Lookup(pt, v) = -1, o < len PROVE Refused(pt, src, len)
    <2>1. Bytes(v) = src + o
      BY <1>2, <1>4, <1>5
    <2>2. src + o \in Nat /\ o \in 0..(len - 1)
      BY <1>4, <1>5
    <2>3. (src + o) \div PAGE_SIZE = v
      BY <1>4, <2>1, <2>2, ByteParts
    <2> QED
      BY <1>5, <2>2, <2>3 DEF Refused
  <1>6. ASSUME s.more, t = [s EXCEPT !.more = FALSE], Refused(pt, src, len) PROVE CopyLoop(pt, src, len, k + 1, t)
    <2>1. /\ t = [out |-> t.out, next |-> t.next, ok |-> t.ok, more |-> t.more]
          /\ t.out = s.out /\ t.next = s.next /\ t.ok = s.ok /\ t.more = FALSE
      BY <1>2, <1>6
    <2> HIDE DEF t, last
    <2> QED
      BY <1>2, <1>3, <1>6, <2>1 DEF CopyLoop, last
  <1>7. CASE ~s.more
    <2>1. t = s
      BY <1>1, <1>7
    <2>2. CopyLoop(pt, src, len, k + 1, s)
      BY <1>7, Zenon DEF CopyLoop
    <2> QED
      BY <2>1, <2>2
  <1>8. CASE s.more /\ RegionsFrom(pt, s.next) = {}
    <2>1. t = [s EXCEPT !.more = FALSE]
      BY <1>1, <1>8
    <2>2. Refused(pt, src, len)
      <3>1. CASE o < len
        <4>1. Lookup(pt, v) = -1
          BY <1>4, <1>8, BeforeFirst
        <4> QED
          BY <1>5, <3>1, <4>1
      <3>2. ASSUME NEW d \in Maps(pt), ~(BaseOf(d) <= last) PROVE FALSE
        <4>1. d \in Entry
          BY DEF Maps, PtOK
        <4>2. last \in Nat
          <5>1. src + len - 1 \in Nat
            OBVIOUS
          <5> QED
            BY <5>1, ByteParts
        <4> HIDE DEF last
        <4>3. PICK c \in Nat, y \in Nat \ {0} : c = BaseOf(d) /\ y = Span(d[1])
          BY <4>1, <4>2, CoverFacts
        <4>4. ~(c + y > v)
          BY <1>4, <1>8, <4>3 DEF RegionsFrom
        <4>7. b <= last /\ ~(c <= last) /\ b + z = v
          BY <1>3, <1>4, <3>2, <4>3
        <4>8. b <= c
          BY <4>2, <4>3, <4>7
        <4>9. c < v /\ c < c + y
          <5>1. y \in Nat /\ y > 0 /\ v \in Nat
            BY <1>4, <4>3
          <5> QED
            BY <4>4, <5>1
        <4>5. b <= c /\ c < b + z /\ c < c + y /\ c <= c
          BY <4>7, <4>8, <4>9
        <4>6. d = f
          <5>1. BaseOf(d) <= c /\ c < BaseOf(d) + Span(d[1]) /\ BaseOf(f) <= c /\ c < BaseOf(f) + Span(f[1])
            BY <1>4, <4>3, <4>5
          <5> QED
            BY <5>1, SameRegion
        <4> QED
          BY <1>3, <3>2, <4>6
      <3> QED
        BY <1>4, <3>1, <3>2 DEF Refused
    <2> QED
      BY <1>6, <1>8, <2>1, <2>2
  <1>9. CASE s.more /\ RegionsFrom(pt, s.next) # {} /\ left = 0
    <2>1. t = [s EXCEPT !.ok = TRUE, !.more = FALSE]
      BY <1>1, <1>9
    <2>2. /\ t = [out |-> t.out, next |-> t.next, ok |-> t.ok, more |-> t.more]
          /\ t.out = s.out /\ t.next = s.next /\ t.ok = TRUE /\ t.more = FALSE
      BY <1>2, <2>1
    <2>3. Len(s.out) = len
      BY <1>4, <1>9
    <2>9. Follows(pt, src, len)
      <3>1. e \in Maps(pt) /\ BaseOf(e) \in Nat /\ v <= BaseOf(e)
        BY <1>3, <1>4, <1>9, NextRegion
      <3>2. last \in Nat /\ last < v
        <4>1. src + len - 1 \in Nat
          OBVIOUS
        <4>2. src + len <= Bytes(v)
          BY <1>2, <1>4, <2>3 DEF Within
        <4>3. src + len - 1 < Bytes(v)
          <5>1. Bytes(v) \in Nat
            BY BytesFacts
          <5> QED
            BY <4>2, <5>1
        <4> QED
          BY <4>1, <4>3, ByteParts
      <3> HIDE DEF e, last
      <3>3. BaseOf(e) > last
        BY <3>1, <3>2
      <3> QED
        BY <3>1, <3>3 DEF Follows, last
    <2>10. Within(src, Len(t.out), t.next)
      BY <1>2, <2>2
    <2> HIDE DEF t
    <2>4. \E d \in Maps(pt) : BaseOf(d) + Span(d[1]) = t.next /\ BaseOf(d) <= (src + len - 1) \div PAGE_SIZE
      BY <1>3, <2>2
    <2>5. /\ t.out \in Seq(Nat) /\ Len(t.out) <= len /\ t.next \in Nat /\ t.ok \in BOOLEAN /\ t.more \in BOOLEAN
          /\ \A i \in 1..Len(t.out) : Reads(pt, src, i, t.out[i])
          /\ Len(t.out) < len => Bytes(t.next) = src + Len(t.out)
          /\ t.ok /\ ~t.more /\ Len(t.out) = len
      BY <1>2, <2>2, <2>3
    <2>6. /\ t.more => ~t.ok /\ Len(t.out) > k + 1
          /\ t.ok => Len(t.out) = len
          /\ ~t.more /\ ~t.ok => Refused(pt, src, len)
      BY <2>5
    <2>7. t = [out |-> t.out, next |-> t.next, ok |-> t.ok, more |-> t.more]
      BY <2>2
    <2>8. CopyLoop(pt, src, len, k + 1, t)
      BY <2>4, <2>5, <2>6, <2>7, <2>9, <2>10 DEF CopyLoop
    <2> QED
      BY <2>8 DEF t
  <1>10. CASE s.more /\ RegionsFrom(pt, s.next) # {} /\ left # 0
    <2>1. e \in Maps(pt) /\ e \in Entry /\ BaseOf(e) + Span(e[1]) > v
      BY <1>4, <1>10, FirstRegionFacts
    <2>2. o < len
      BY <1>4, <1>10
    <2>3. PICK c \in Nat, y \in Nat \ {0} : c = BaseOf(e) /\ y = Span(e[1]) /\ c + y > v
      <3>1. 0 \in Nat
        OBVIOUS
      <3> QED
        BY <2>1, <3>1, CoverFacts
    <2>4. CASE c # v
      <3>1. t = [s EXCEPT !.more = FALSE]
        BY <1>1, <1>4, <1>10, <2>3, <2>4
      <3>2. ~(c < v)
        <4>1. v <= BaseOf(e)
          BY <1>3, <1>4, <1>10, NextRegion
        <4> HIDE DEF e
        <4> QED
          BY <1>4, <2>3, <4>1
      <3>3. v < BaseOf(FirstRegion(pt, v))
        BY <1>4, <2>3, <2>4, <3>2
      <3>4. Lookup(pt, v) = -1
        BY <3>3, BeforeFirst
      <3> QED
        BY <1>5, <1>6, <1>10, <2>2, <3>1, <3>4
    <2>5. CASE c = v
      <3> HIDE DEF e
      <3> DEFINE q == s.out \o a
      <3>1. t = [s EXCEPT !.out = q, !.next = c + y]
        BY <1>1, <1>4, <1>10, <2>3, <2>5
      <3>2. /\ t = [out |-> t.out, next |-> t.next, ok |-> t.ok, more |-> t.more]
            /\ t.out = q /\ t.next = c + y /\ t.ok = s.ok /\ t.more = TRUE
        BY <1>2, <1>10, <3>1
      <3>3. ASSUME n \in Nat PROVE Len(a) = n /\ (\A i \in 1..n : a[i] = Bytes(pt[e].page) + 0 + i - 1) /\ Joined(q, s.out, a)
        <4>1. pt[e].page \in Nat
          BY <2>1, PhysicalMemoryAssumption DEF Maps, PtOK, Pages
        <4>2. PICK g \in Nat : g = Bytes(pt[e].page)
          BY <4>1, BytesFacts
        <4>3. 0 \in Nat /\ s.out \in Seq(Nat)
          BY <1>2
        <4> HIDE DEF n
        <4>4. Appended(s.out, n, g, 0, [i \in 1..n |-> g + 0 + i - 1])
          BY <3>3, <4>3, JoinedReads
        <4>5. a = [i \in 1..n |-> g + 0 + i - 1]
          BY <4>2
        <4> HIDE DEF a
        <4>6. Appended(s.out, n, g, 0, a)
          BY <4>4, <4>5
        <4> QED
          BY <4>2, <4>6 DEF Appended
      <3> HIDE DEF a, q, t, last
      <3>4. ReadsOn(pt, e, src, len, 0, s.out, n, a, q)
        <4>1. src + o = Bytes(v) + 0 /\ Bytes(v) = Bytes(BaseOf(e))
          <5>1. Bytes(v) = src + o
            BY <1>2, <1>4, <2>2
          <5> QED
            BY <1>4, <2>3, <2>5, <5>1
        <4>2. 0 < Bytes(Span(e[1]))
          <5>1. Bytes(y) \in Nat /\ Bytes(y) >= 1
            BY <2>3, BytesFacts
          <5> QED
            BY <2>3, <5>1
        <4>3. src + Len(s.out) = Bytes(BaseOf(e)) + 0 /\ Len(s.out) < len
          BY <1>4, <2>2, <4>1
        <4>4. n = CopyLength(e, 0, len - Len(s.out))
          OBVIOUS
        <4> HIDE DEF n
        <4> QED
          BY <1>2, <3>3, <4>2, <4>3, <4>4 DEF ReadsOn
      <3>5. /\ q \in Seq(Nat) /\ Len(q) <= len /\ Len(q) > Len(s.out)
            /\ \A i \in 1..Len(q) : Reads(pt, src, i, q[i])
            /\ Len(q) < len => Bytes(BaseOf(e) + Span(e[1])) = src + Len(q)
            /\ BaseOf(e) <= (src + len - 1) \div PAGE_SIZE
            /\ BaseOf(e) + Span(e[1]) \in Nat
            /\ Within(src, Len(q), BaseOf(e) + Span(e[1]))
        <4>1. 0 \in Nat /\ len \in Nat /\ s.out \in Seq(Nat)
          BY <1>2
        <4> HIDE DEF n
        <4> QED
          BY <2>1, <3>4, <4>1, CopyReads
      <3>6. t.next = BaseOf(e) + Span(e[1])
        BY <2>3, <3>2
      <3>7. Len(q) > k + 1
        <4>1. Len(s.out) > k /\ Len(q) \in Nat
          BY <1>2, <1>10, <3>5
        <4> QED
          BY <1>4, <3>5, <4>1
      <3>8. ~t.ok /\ t.ok \in BOOLEAN /\ t.more \in BOOLEAN /\ t.more
        BY <1>2, <1>10, <3>2
      <3>9. \E d \in Maps(pt) : BaseOf(d) + Span(d[1]) = t.next /\ BaseOf(d) <= (src + len - 1) \div PAGE_SIZE
        BY <2>1, <3>5, <3>6
      <3>10. /\ t.out \in Seq(Nat) /\ Len(t.out) <= len /\ t.next \in Nat
             /\ \A i \in 1..Len(t.out) : Reads(pt, src, i, t.out[i])
             /\ Len(t.out) < len => Bytes(t.next) = src + Len(t.out)
             /\ Len(t.out) > k + 1
        BY <3>2, <3>5, <3>6, <3>7
      <3>11. /\ t.more => ~t.ok /\ Len(t.out) > k + 1
             /\ t.ok => Len(t.out) = len
             /\ ~t.more /\ ~t.ok => Refused(pt, src, len)
        BY <3>8, <3>10
      <3>12. t = [out |-> t.out, next |-> t.next, ok |-> t.ok, more |-> t.more]
        BY <3>2
      <3>14. Within(src, Len(t.out), t.next)
        BY <3>2, <3>5, <3>6
      <3>13. CopyLoop(pt, src, len, k + 1, t)
        BY <3>8, <3>9, <3>10, <3>11, <3>12, <3>14 DEF CopyLoop
      <3> QED
        BY <3>13 DEF t
    <2> QED
      BY <2>4, <2>5
  <1> QED
    BY <1>2, <1>7, <1>8, <1>9, <1>10

\* The first region, read from the offset of the first byte on.
LEMMA CopyStartFacts ==
  ASSUME NEW pt, PtOK(pt), NEW src \in Nat, NEW len \in Nat \ {0}, RegionsFrom(pt, src \div PAGE_SIZE) # {},
         BaseOf(FirstRegion(pt, src \div PAGE_SIZE)) = src \div PAGE_SIZE
  PROVE  CopyLoop(pt, src, len, 0, CopyStart(pt, src, len))
  <1> DEFINE e == FirstRegion(pt, src \div PAGE_SIZE)
             po == src % PAGE_SIZE
             n == CopyLength(e, po, len)
             a == [i \in 1..n |-> Bytes(pt[e].page) + po + i - 1]
             none == <<>>
             q == none \o a
             t == CopyStart(pt, src, len)
  <1>1. /\ t = [out |-> a, next |-> BaseOf(e) + Span(e[1]), ok |-> FALSE, more |-> TRUE]
    BY DEF CopyStart
  <1>2. PICK v \in Nat, d \in Nat : v = src \div PAGE_SIZE /\ d = po /\ src = Bytes(v) + d /\ d < PAGE_SIZE
    BY ByteParts
  <1>3. e \in Maps(pt) /\ e \in Entry /\ BaseOf(e) = v
    BY <1>2, FirstRegionFacts
  <1>4. none \in Seq(Nat) /\ Len(none) = 0
    OBVIOUS
  <1>5. PICK z \in Nat \ {0}, g \in Nat : z = Span(e[1]) /\ g = Bytes(pt[e].page)
    <2>1. pt[e].page \in Nat
      BY <1>3, PhysicalMemoryAssumption DEF Maps, PtOK, Pages
    <2>2. Bytes(pt[e].page) \in Nat
      BY <2>1, BytesFacts
    <2>3. Span(e[1]) \in Nat \ {0}
      BY <1>2, <1>3, CoverFacts
    <2> QED
      BY <2>2, <2>3
  <1>6. Bytes(z) \in Nat /\ Bytes(z) >= PAGE_SIZE /\ d < Bytes(z)
    <2>1. Bytes(z) \in Nat /\ Bytes(z) >= PAGE_SIZE
      BY <1>5, BytesFacts
    <2> QED
      BY <1>2, <2>1, PageSizeAssumption
  <1>7. ASSUME n \in Nat PROVE /\ Len(a) = n /\ (\A i \in 1..n : a[i] = Bytes(pt[e].page) + d + i - 1)
                               /\ Joined(q, none, a)
    <2> HIDE DEF n, none, po
    <2>1. Appended(none, n, g, d, [i \in 1..n |-> g + d + i - 1])
      BY <1>2, <1>4, <1>5, <1>7, JoinedReads
    <2>2. a = [i \in 1..n |-> g + d + i - 1]
      BY <1>2, <1>5
    <2> HIDE DEF a
    <2>3. Appended(none, n, g, d, a)
      BY <2>1, <2>2
    <2> QED
      BY <1>5, <2>3 DEF Appended
  <1>8. n = CopyLength(e, d, len - Len(none))
    <2>1. len - Len(none) = len
      BY <1>4
    <2> HIDE DEF e, none
    <2> QED
      BY <1>2, <2>1
  <1>14. n \in Nat
    <2>1. n = IF Bytes(z) - d <= len THEN Bytes(z) - d ELSE len
      BY <1>2, <1>5 DEF CopyLength, Least
    <2> QED
      BY <1>6, <2>1
  <1> HIDE DEF e, a, n, none, q, t, po
  <1>9. ReadsOn(pt, e, src, len, d, none, n, a, q)
    <2>1. Len(none) < len /\ \A i \in 1..Len(none) : Reads(pt, src, i, none[i])
      BY <1>4
    <2>2. Bytes(BaseOf(e)) = Bytes(v) /\ Bytes(v) \in Nat
      BY <1>3, BytesFacts
    <2>3. src + Len(none) = Bytes(BaseOf(e)) + d /\ d < Bytes(Span(e[1]))
      <3>1. src + 0 = Bytes(v) + d
        BY <1>2
      <3> QED
        BY <1>4, <1>5, <1>6, <2>2, <3>1
    <2> QED
      BY <1>7, <1>8, <2>1, <2>3 DEF ReadsOn
  <1>10. /\ q \in Seq(Nat) /\ Len(q) <= len /\ Len(q) > Len(none)
         /\ \A i \in 1..Len(q) : Reads(pt, src, i, q[i])
         /\ Len(q) < len => Bytes(BaseOf(e) + Span(e[1])) = src + Len(q)
         /\ BaseOf(e) <= (src + len - 1) \div PAGE_SIZE
         /\ BaseOf(e) + Span(e[1]) \in Nat
         /\ Within(src, Len(q), BaseOf(e) + Span(e[1]))
    <2>1. len \in Nat
      OBVIOUS
    <2> QED
      BY <1>2, <1>3, <1>4, <1>9, <2>1, CopyReads
  <1>11. q = a
    BY DEF q, none, a
  <1>12. /\ t.out = q /\ t.next = BaseOf(e) + Span(e[1]) /\ t.ok = FALSE /\ t.more = TRUE
         /\ t = [out |-> t.out, next |-> t.next, ok |-> t.ok, more |-> t.more]
    BY <1>1, <1>11
  <1>13. CopyLoop(pt, src, len, 0, t)
    <2>1. \E f \in Maps(pt) : BaseOf(f) + Span(f[1]) = t.next /\ BaseOf(f) <= (src + len - 1) \div PAGE_SIZE
      BY <1>3, <1>10, <1>12
    <2>2. /\ t.out \in Seq(Nat) /\ Len(t.out) <= len /\ t.next \in Nat /\ t.ok \in BOOLEAN /\ t.more \in BOOLEAN
          /\ \A i \in 1..Len(t.out) : Reads(pt, src, i, t.out[i])
          /\ Len(t.out) < len => Bytes(t.next) = src + Len(t.out)
          /\ Len(t.out) > 0 /\ ~t.ok /\ t.more
      BY <1>4, <1>10, <1>12
    <2>3. t = [out |-> t.out, next |-> t.next, ok |-> t.ok, more |-> t.more]
      BY <1>12
    <2>4. /\ t.more => ~t.ok /\ Len(t.out) > 0
          /\ t.ok => Len(t.out) = len
          /\ ~t.more /\ ~t.ok => Refused(pt, src, len)
      BY <2>2
    <2>5. Within(src, Len(t.out), t.next)
      BY <1>10, <1>12
    <2> QED
      BY <2>1, <2>2, <2>3, <2>4, <2>5 DEF CopyLoop
  <1> QED
    BY <1>13 DEF t

\* The walk for page v ends in a block or page that starts before v.
StartsInside(pt, v) == v % Span(WalkLevel(pt, v)) # 0

\* A mapping that covers page v starts there, or v is inside it.
LEMMA StartsInsideFacts ==
  ASSUME NEW pt, PtOK(pt), NEW e \in Maps(pt), NEW v \in Nat, BaseOf(e) <= v, v < BaseOf(e) + Span(e[1])
  PROVE  StartsInside(pt, v) <=> BaseOf(e) # v
  <1>1. e \in Entry
    BY DEF Maps, PtOK
  <1>2. e = EntryAt(e[1], v)
    BY <1>1, CoverFacts
  <1>3. e[1] = WalkLevel(pt, v)
    BY <1>2, CoverUnique
  <1>4. PICK z \in Nat \ {0} : z = Span(e[1])
    BY <1>1, CoverFacts
  <1>5. e[2] = v \div z
    BY <1>2, <1>4 DEF EntryAt
  <1>6. BaseOf(e) = (v \div z) * z
    BY <1>4, <1>5 DEF BaseOf
  <1>7. v = (v \div z) * z + (v % z) /\ v % z \in 0..(z - 1)
    <2>1. v \in Int
      OBVIOUS
    <2> QED
      BY <2>1, DivisionExists
  <1>8. PICK m \in Int, r \in Nat : m = (v \div z) * z /\ r = v % z /\ v = m + r
    <2>1. (v \div z) * z \in Int /\ v % z \in Nat
      BY <1>7
    <2> QED
      BY <1>7, <2>1
  <1>9. (v % z # 0) <=> (BaseOf(e) # v)
    BY <1>6, <1>8
  <1> QED
    BY <1>3, <1>4, <1>9 DEF StartsInside

\* What mapped_copy_from returns: the bytes that are mapped there or, when it
\* refuses, a byte that is not, a start inside a block, or no mapping after it.
LEMMA CopyFacts ==
  ASSUME NEW pt, PtOK(pt), NEW src \in Nat, NEW len \in Nat \ {0}
  PROVE  LET c == MappedCopyFrom(pt, src, len)
         IN  /\ c.ok \in BOOLEAN
             /\ c.ok => /\ c.out \in Seq(Nat) /\ Len(c.out) = len
                        /\ \A i \in 1..len : Reads(pt, src, i, c.out[i])
                        /\ Follows(pt, src, len) /\ ~StartsInside(pt, src \div PAGE_SIZE)
             /\ ~c.ok => Refused(pt, src, len) \/ StartsInside(pt, src \div PAGE_SIZE)
  <1> DEFINE c == MappedCopyFrom(pt, src, len)
             first == FirstRegion(pt, src \div PAGE_SIZE)
  <1>1. PICK v \in Nat : v = src \div PAGE_SIZE
    BY ByteParts
  <1>2. CASE RegionsFrom(pt, v) = {} \/ (RegionsFrom(pt, v) # {} /\ BaseOf(first) # v)
    <2>1. c = [ok |-> FALSE, out |-> <<>>]
      BY <1>1, <1>2 DEF MappedCopyFrom
    <2>2. ASSUME Lookup(pt, v) = -1 PROVE Refused(pt, src, len)
      <3>1. 0 \in 0..(len - 1) /\ (src + 0) = src
        OBVIOUS
      <3>2. Lookup(pt, (src + 0) \div PAGE_SIZE) = -1
        BY <1>1, <2>2, <3>1
      <3> QED
        BY <3>1, <3>2 DEF Refused
    <2>3. Refused(pt, src, len) \/ StartsInside(pt, v)
      <3>1. CASE RegionsFrom(pt, v) = {}
        BY <2>2, <3>1, BeforeFirst
      <3>2. CASE RegionsFrom(pt, v) # {} /\ v < BaseOf(first)
        BY <1>1, <2>2, <3>2, BeforeFirst
      <3>3. CASE RegionsFrom(pt, v) # {} /\ ~(v < BaseOf(first)) /\ BaseOf(first) # v
        <4>1. first \in Maps(pt) /\ first \in Entry /\ BaseOf(first) + Span(first[1]) > v
          BY <1>1, <3>3, FirstRegionFacts
        <4> HIDE DEF first
        <4>2. PICK b \in Nat, z \in Nat \ {0} : b = BaseOf(first) /\ z = Span(first[1])
          BY <4>1, CoverFacts
        <4>3. b < v /\ b + z > v
          BY <3>3, <4>1, <4>2
        <4>4. BaseOf(first) <= v /\ v < BaseOf(first) + Span(first[1]) /\ BaseOf(first) # v
          BY <4>2, <4>3
        <4> QED
          BY <4>1, <4>4, StartsInsideFacts
      <3> QED
        BY <1>2, <3>1, <3>2, <3>3
    <2> HIDE DEF c
    <2>4. c.ok = FALSE
      BY <2>1
    <2> QED
      BY <1>1, <2>3, <2>4 DEF c
  <1>3. CASE RegionsFrom(pt, v) # {} /\ BaseOf(first) = v
    <2> DEFINE p == [pt |-> pt, len |-> len]
    <2>1. PICK h : /\ h[0] = CopyStart(pt, src, len) /\ c = h[len + 1]
                   /\ \A k \in 1..len + 1 : h[k] = CopyTurn(p, h[k - 1])
      BY <1>1, <1>3, CopyTurns
    <2> DEFINE G == {k \in 0..(len + 1) : CopyLoop(pt, src, len, k, h[k])}
    <2>2. 0 \in G
      BY <1>1, <1>3, <2>1, CopyStartFacts
    <2>3. ASSUME NEW k \in 0..(len + 1 - 1), k \in G PROVE k + 1 \in G
      <3>1. CopyLoop(pt, src, len, k, h[k]) /\ k \in Nat
        BY <2>3
      <3>2. k + 1 \in 1..len + 1 /\ (k + 1) - 1 = k /\ k + 1 \in 0..(len + 1)
        OBVIOUS
      <3>3. h[k + 1] = CopyTurn(p, h[k])
        BY <2>1, <3>2
      <3>4. CopyLoop(pt, src, len, k + 1, CopyTurn(p, h[k]))
        BY <3>1, CopyTurnFacts
      <3> QED
        BY <3>2, <3>3, <3>4
    <2>4. len + 1 \in G
      <3>1. len + 1 \in Nat
        OBVIOUS
      <3> HIDE DEF G
      <3>2. \A k \in 0..(len + 1) : k \in G
        BY <2>2, <2>3, <3>1, Induction
      <3> QED
        BY <3>2
    <2>5. CopyLoop(pt, src, len, len + 1, c)
      BY <2>1, <2>4
    <2> HIDE DEF c
    <2>6. /\ c.out \in Seq(Nat) /\ Len(c.out) <= len /\ c.ok \in BOOLEAN /\ c.more \in BOOLEAN
          /\ \A i \in 1..Len(c.out) : Reads(pt, src, i, c.out[i])
          /\ c.more => ~c.ok /\ Len(c.out) > len + 1
          /\ c.ok => Len(c.out) = len
          /\ ~c.more /\ ~c.ok => Refused(pt, src, len)
          /\ c.ok => Follows(pt, src, len)
      BY <2>5 DEF CopyLoop
    <2>7. ~c.more
      <3>1. Len(c.out) \in Nat
        BY <2>6
      <3> QED
        BY <2>6, <3>1
    <2>8. /\ c.ok => /\ c.out \in Seq(Nat) /\ Len(c.out) = len
                     /\ \A i \in 1..len : Reads(pt, src, i, c.out[i])
                     /\ Follows(pt, src, len)
          /\ ~c.ok => Refused(pt, src, len)
      BY <2>6, <2>7
    <2>9. ~StartsInside(pt, v)
      <3>1. first \in Maps(pt) /\ first \in Entry /\ BaseOf(first) + Span(first[1]) > v
        BY <1>1, <1>3, FirstRegionFacts
      <3>2. PICK b \in Nat, z \in Nat : b = BaseOf(first) /\ z = Span(first[1])
        BY <3>1, CoverFacts
      <3> HIDE DEF first
      <3>3. BaseOf(first) <= v /\ v < BaseOf(first) + Span(first[1])
        BY <1>3, <3>1, <3>2
      <3> QED
        BY <1>3, <3>1, <3>3, StartsInsideFacts
    <2> QED
      BY <1>1, <2>6, <2>8, <2>9 DEF c
  <1> QED
    BY <1>2, <1>3

=============================================================================
