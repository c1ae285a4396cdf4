------------------------- MODULE TextDisplay_proof --------------------------
(* Proofs about texts, icons and bars on a text display: the types, that     *)
(* what a cell shows is what was drawn there last, that the display shows    *)
(* the layout, that bars keep their ends when segments are merged, and that  *)
(* none are merged where there is room.                                      *)
(*                                                                           *)
(* The first part is about the segments of bars: what create_bar,            *)
(* create_segments, pack_segments and define_chars leave, for any number of  *)
(* cells, segments and characters.  Their loops are recursive functions;     *)
(* what holds after each turn is shown by induction (Induction, below).      *)
EXTENDS TextDisplay, SequenceTheorems, FiniteSetTheorems, TLAPS

-----------------------------------------------------------------------------
(* Induction, and functions defined by recursion *)

\* Strict inclusion of finite sets is well-founded; so a set of numbers has a least one.
LEMMA SmallestNat ==
  ASSUME NEW T, T \subseteq Nat, T # {}
  PROVE  \E n \in T : \A m \in T : n <= m
<1> DEFINE O == StrictSubsetOrdering(Nat)
           F == FiniteSubsetsOf(Nat)
           I == {0 .. n - 1 : n \in T}
<1>1. IsWellFoundedOn(O, F)
  BY FS_StrictSubsetOrderingWellFounded
<1>2. I \subseteq F
  <2> SUFFICES ASSUME NEW n \in T PROVE 0 .. n - 1 \in F
    OBVIOUS
  <2>1. IsFiniteSet(0 .. n - 1)
    BY FS_Interval
  <2> QED
    BY <2>1 DEF FiniteSubsetsOf
<1>3. I # {}
  OBVIOUS
<1>4. PICK X \in I : \A Y \in I : ~ (<<Y, X>> \in O)
  <2> HIDE DEF O, F, I
  <2> QED
    BY <1>1, <1>2, <1>3, WFMin
<1>5. PICK n \in T : X = 0 .. n - 1
  OBVIOUS
<1>6. \A m \in T : ~ (m < n)
  <2> SUFFICES ASSUME NEW m \in T, m < n PROVE FALSE
    OBVIOUS
  <2>1. 0 .. m - 1 \in I /\ 0 .. n - 1 \in I
    BY <1>5
  <2>2. 0 .. m - 1 \subseteq 0 .. n - 1 /\ m \in 0 .. n - 1 /\ m \notin 0 .. m - 1
    OBVIOUS
  <2>3. <<0 .. m - 1, 0 .. n - 1>> \in O
    BY <2>2 DEF StrictSubsetOrdering
  <2> QED
    BY <2>1, <2>3, <1>4, <1>5
<1> QED
  BY <1>6

\* Induction up to N, for the set of the numbers for which something holds.
LEMMA Induction ==
  ASSUME NEW N \in Nat, NEW T, 0 \in T, \A n \in 0 .. N - 1 : n \in T => n + 1 \in T
  PROVE  \A n \in 0 .. N : n \in T
<1> DEFINE U == {n \in 0 .. N : n \notin T}
<1> SUFFICES ASSUME U # {} PROVE FALSE
  OBVIOUS
<1>1. U \subseteq Nat
  OBVIOUS
<1>2. PICK n \in U : \A m \in U : n <= m
  <2> HIDE DEF U
  <2> QED
    BY <1>1, SmallestNat
<1>3. n - 1 \in 0 .. N - 1 /\ n - 1 \notin U
  BY <1>2
<1> QED
  BY <1>3

\* The function that Assigned of BarSegments takes the last value of.
IsAssigned(f, seg, bar, cols, N) ==
  f = [n \in 0 .. N |-> IF n = 0 THEN [seg |-> KeepUsed(seg), bar |-> bar]
                        ELSE Assign(f[n - 1], <<(n - 1) \div cols, (n - 1) % cols>>)]

\* st are the states of the loop over the cells of create_segments.
Assigning(st, seg, bar, rows, cols) ==
  /\ st[0] = [seg |-> KeepUsed(seg), bar |-> bar]
  /\ \A n \in 1 .. rows * cols :
       st[n] = Assign(st[n - 1], <<(n - 1) \div cols, (n - 1) % cols>>)

\* The recursion over the cells is one.
LEMMA AssignedIs ==
  ASSUME NEW seg, NEW bar, NEW rows \in Nat, NEW cols \in Nat
  PROVE  Assigning(Assigned(seg, bar, rows, cols), seg, bar, rows, cols)
<1>0. SUFFICES ASSUME NEW st, st = Assigned(seg, bar, rows, cols)
               PROVE  Assigning(st, seg, bar, rows, cols)
  OBVIOUS
<1> DEFINE a == [seg |-> KeepUsed(seg), bar |-> bar]
           Step(s, n) == Assign(s, <<(n - 1) \div cols, (n - 1) % cols>>)
           N == rows * cols
           T == {n \in Nat : \E f : IsAssigned(f, seg, bar, cols, n)}
<1>1. 0 \in T
  <2> DEFINE f == [n \in 0 .. 0 |-> a]
  <2>1. IsAssigned(f, seg, bar, cols, 0)
    BY DEF IsAssigned
  <2> QED
    BY <2>1
<1>2. ASSUME NEW n \in Nat, n \in T PROVE n + 1 \in T
  <2>1. PICK f : IsAssigned(f, seg, bar, cols, n)
    BY <1>2
  <2> DEFINE g == [k \in 0 .. n + 1 |-> IF k = n + 1 THEN Step(f[n], n + 1) ELSE f[k]]
  <2>2. \A k \in 0 .. n : f[k] = IF k = 0 THEN a ELSE Step(f[k - 1], k)
    BY <2>1, Zenon DEF IsAssigned
  <2> HIDE DEF a, Step
  <2>3. ASSUME NEW k \in 0 .. n + 1 PROVE g[k] = IF k = 0 THEN a ELSE Step(g[k - 1], k)
    <3>1. CASE k = n + 1
      BY <3>1
    <3>2. CASE k # n + 1
      <4>1. k \in 0 .. n /\ (k # 0 => k - 1 \in 0 .. n + 1 /\ k - 1 # n + 1)
        BY <3>2
      <4> QED
        BY <4>1, <2>2
    <3> QED
      BY <3>1, <3>2
  <2>4. g = [k \in 0 .. n + 1 |-> g[k]]
    OBVIOUS
  <2> HIDE DEF g
  <2>5. g = [k \in 0 .. n + 1 |-> IF k = 0 THEN a ELSE Step(g[k - 1], k)]
    BY <2>3, <2>4, Zenon
  <2>6. IsAssigned(g, seg, bar, cols, n + 1)
    BY <2>5 DEF IsAssigned, a, Step
  <2> QED
    BY <2>6
<1>3. N \in Nat
  OBVIOUS
<1> HIDE DEF N
<1>4. N \in T
  <2> HIDE DEF T
  <2>1. \A n \in 0 .. N : n \in T
    <3>1. \A n \in 0 .. N - 1 : n \in T => n + 1 \in T
      BY <1>2, <1>3
    <3> QED
      BY <1>1, <1>3, <3>1, Induction
  <2> QED
    BY <2>1, <1>3
<1>5. \E f : IsAssigned(f, seg, bar, cols, N)
  BY <1>4
<1>6. st = CHOOSE f : IsAssigned(f, seg, bar, cols, N)
  BY <1>0 DEF Assigned, IsAssigned, N
<1>7. IsAssigned(st, seg, bar, cols, N)
  BY <1>5, <1>6
<1>8. \A n \in 0 .. N : st[n] = IF n = 0 THEN a ELSE Step(st[n - 1], n)
  BY <1>7, Zenon DEF IsAssigned
<1>9. 0 \in 0 .. N /\ \A n \in 1 .. N : n \in 0 .. N /\ n # 0
  BY <1>3
<1>10. st[0] = a /\ \A n \in 1 .. N : st[n] = Step(st[n - 1], n)
  <2> HIDE DEF a, Step
  <2> QED
    BY <1>8, <1>9, Zenon
<1> QED
  BY <1>10, Zenon DEF N, Assigning

-----------------------------------------------------------------------------
(* drv_generic_text_bar_create_segments *)

\* Segments.
SegmentSet == [val1 : Int, val2 : Int, dirs : SUBSET Directions, style : Nat,
               used : BOOLEAN, ascii : Int]

\* Cells of the bars.
CellSet == [val1 : Int, val2 : Int, dir : Directions \union {0}, style : Nat, segment : Nat]

\* The fixed segments are segments, with characters of the display.
LEMMA FixedAre ==
  /\ Fixed \in Seq(SegmentSet) /\ fSegment \in Nat /\ DOMAIN Fixed = 1 .. fSegment
  /\ \A s \in 1 .. fSegment : Fixed[s].ascii \in Nat
<1> DEFINE F == [val1 : Nat, val2 : Nat, dirs : SUBSET Directions, style : Nat,
                 used : BOOLEAN, ascii : Nat]
<1>1. Fixed \in Seq(F)
  BY BarSegmentsAssumption
<1>2. \A e \in F : e \in SegmentSet /\ e.ascii \in Nat
  BY DEF SegmentSet
<1> HIDE DEF F
<1>3. fSegment \in Nat /\ DOMAIN Fixed = 1 .. fSegment /\ \A s \in 1 .. fSegment : Fixed[s] \in F
  BY <1>1, LenProperties, ElementOfSeq DEF fSegment
<1>4. Fixed \in [1 .. fSegment -> SegmentSet]
  <2>1. Fixed = [s \in 1 .. fSegment |-> Fixed[s]]
    BY <1>1, <1>3
  <2> QED
    BY <1>2, <1>3, <2>1
<1> QED
  BY <1>2, <1>3, <1>4

\* How many segments up to n are in use: one more where n itself is.
LEMMA UsedUpToIs ==
  ASSUME NEW seg, NEW N \in Nat, fSegment <= N,
         \A s \in fSegment + 1 .. N : seg[s].used \in BOOLEAN
  PROVE  /\ UsedUpTo(seg, fSegment) = 0
         /\ \A n \in fSegment .. N : UsedUpTo(seg, n) \in Nat
         /\ \A n \in fSegment .. N - 1 :
              UsedUpTo(seg, n + 1) = IF seg[n + 1].used THEN UsedUpTo(seg, n) + 1
                                     ELSE UsedUpTo(seg, n)
<1> DEFINE A(n) == {s \in fSegment + 1 .. n : seg[s].used}
<1>0. fSegment \in Nat
  BY FixedAre
<1>1. \A n : UsedUpTo(seg, n) = Cardinality(A(n))
  BY DEF UsedUpTo
<1>2. A(fSegment) = {}
  BY <1>0
<1>3. ASSUME NEW n \in fSegment .. N PROVE IsFiniteSet(A(n)) /\ Cardinality(A(n)) \in Nat
  <2>0. fSegment + 1 \in Int /\ n \in Int
    BY <1>0
  <2>1. IsFiniteSet(fSegment + 1 .. n)
    BY <2>0, FS_Interval
  <2>2. A(n) \in SUBSET (fSegment + 1 .. n)
    OBVIOUS
  <2> HIDE DEF A
  <2> QED
    BY <2>1, <2>2, FS_Subset, FS_CardinalityType
<1>4. ASSUME NEW n \in fSegment .. N - 1
      PROVE  Cardinality(A(n + 1)) = IF seg[n + 1].used THEN Cardinality(A(n)) + 1
                                     ELSE Cardinality(A(n))
  <2>1. n \in fSegment .. N /\ IsFiniteSet(A(n)) /\ n + 1 \notin A(n) /\ n + 1 \in fSegment + 1 .. N
    BY <1>0, <1>3
  <2>2. CASE seg[n + 1].used
    <3>1. A(n + 1) = A(n) \union {n + 1}
      BY <1>0, <2>2
    <3> HIDE DEF A
    <3> QED
      BY <2>1, <2>2, <3>1, FS_AddElement
  <2>3. CASE ~ seg[n + 1].used
    <3>1. A(n + 1) = A(n)
      BY <1>0, <2>3
    <3> HIDE DEF A
    <3> QED
      BY <2>3, <3>1
  <2> QED
    BY <2>2, <2>3
<1> HIDE DEF A
<1> QED
  BY <1>1, <1>2, <1>3, <1>4, FS_EmptySet

\* The k-th of the segments in use exists.
LEMMA UsedExists ==
  ASSUME NEW seg, NEW N \in Nat, fSegment <= N,
         \A s \in fSegment + 1 .. N : seg[s].used \in BOOLEAN,
         NEW k \in 1 .. UsedUpTo(seg, N)
  PROVE  \E s \in fSegment + 1 .. N : seg[s].used /\ UsedUpTo(seg, s) = k
<1> DEFINE U(n) == UsedUpTo(seg, n)
           T == {n \in fSegment .. N : U(n) >= k}
<1>0. /\ fSegment \in Nat /\ U(fSegment) = 0
      /\ \A n \in fSegment .. N : U(n) \in Nat
      /\ \A n \in fSegment .. N - 1 : U(n + 1) = IF seg[n + 1].used THEN U(n) + 1 ELSE U(n)
  BY FixedAre, UsedUpToIs
<1> HIDE DEF U
<1>1. k \in Nat \ {0} /\ k <= U(N)
  <2>1. U(N) \in Nat /\ k \in 1 .. U(N)
    BY <1>0 DEF U
  <2> QED
    BY <2>1
<1>2. N \in T /\ T \subseteq Nat
  BY <1>0, <1>1
<1>3. PICK n \in T : \A m \in T : n <= m
  <2> HIDE DEF T
  <2> QED
    BY <1>2, SmallestNat
<1>4. n # fSegment
  BY <1>0, <1>1, <1>3
<1>5. n - 1 \in fSegment .. N - 1 /\ n - 1 \notin T /\ n \in fSegment + 1 .. N
  BY <1>0, <1>3, <1>4
<1>6. U(n - 1) < k /\ U(n) >= k /\ U(n - 1) \in Nat /\ U(n) \in Nat
  BY <1>0, <1>1, <1>5, <1>3
<1>7. U(n) = IF seg[n].used THEN U(n - 1) + 1 ELSE U(n - 1)
  <2>1. n - 1 + 1 = n
    BY <1>5, <1>0
  <2> QED
    BY <1>0, <1>5, <2>1
<1>8. seg[n].used /\ U(n) = k
  BY <1>1, <1>6, <1>7
<1> QED
  BY <1>5, <1>8 DEF U

\* What create_segments keeps: the fixed segments, and the others that are in use, each
\* once.
LEMMA KeepUsedIs ==
  ASSUME NEW seg \in Seq(SegmentSet), fSegment <= Len(seg),
         \A s, t \in fSegment + 1 .. Len(seg) : seg[s].ascii = seg[t].ascii => s = t,
         NEW kept, kept = KeepUsed(seg)
  PROVE  /\ kept \in Seq(SegmentSet) /\ Len(kept) >= fSegment
         /\ \A s \in 1 .. fSegment : kept[s] = Fixed[s]
         /\ \A s \in fSegment + 1 .. Len(kept) :
              \E t \in fSegment + 1 .. Len(seg) : seg[t].used /\ kept[s] = seg[t]
         /\ \A s, t \in fSegment + 1 .. Len(kept) : kept[s].ascii = kept[t].ascii => s = t
<1> DEFINE N == Len(seg)
           U(n) == UsedUpTo(seg, n)
           Is(s, k) == seg[s].used /\ U(s) = k
           C(k) == CHOOSE s \in fSegment + 1 .. N : Is(s, k)
           own == [k \in 1 .. U(N) |-> seg[C(k)]]
<1>1. N \in Nat /\ fSegment \in Nat /\ \A s \in fSegment + 1 .. N : seg[s] \in SegmentSet
  <2>1. N \in Nat /\ fSegment \in Nat
    BY FixedAre, LenProperties
  <2>2. \A s \in fSegment + 1 .. N : s \in 1 .. N
    BY <2>1
  <2> QED
    BY <2>1, <2>2, ElementOfSeq
<1>2. \A e \in SegmentSet : e.used \in BOOLEAN
  BY DEF SegmentSet
<1> HIDE DEF N
<1>3. \A s \in fSegment + 1 .. N : seg[s].used \in BOOLEAN
  BY <1>1, <1>2
<1>4. fSegment <= N
  BY DEF N
<1>5. U(N) \in Nat
  <2>1. N \in fSegment .. N
    BY <1>1, <1>4
  <2> QED
    BY <1>1, <1>3, <1>4, <2>1, UsedUpToIs
<1>6. \A k \in 1 .. U(N) : C(k) \in fSegment + 1 .. N /\ seg[C(k)].used /\ U(C(k)) = k
  <2>1. ASSUME NEW k \in 1 .. U(N) PROVE \E s \in fSegment + 1 .. N : Is(s, k)
    BY <1>1, <1>3, <1>4, UsedExists
  <2>2. ASSUME NEW k \in 1 .. U(N) PROVE C(k) \in fSegment + 1 .. N /\ Is(C(k), k)
    <3> HIDE DEF Is
    <3> QED
      BY <2>1
  <2> QED
    BY <2>2
<1>7. kept = Fixed \o own
  BY DEF KeepUsed, N
<1> HIDE DEF C, U
<1>8. own \in [1 .. U(N) -> SegmentSet]
  BY <1>1, <1>6
<1>9. own \in Seq(SegmentSet) /\ Len(own) = U(N)
  BY <1>5, <1>8
<1>10. \A k \in 1 .. U(N) : own[k] = seg[C(k)]
  OBVIOUS
<1> HIDE DEF own
<1>11. /\ kept \in Seq(SegmentSet) /\ Len(kept) = fSegment + U(N)
       /\ \A s \in 1 .. fSegment + U(N) : kept[s] = IF s <= fSegment THEN Fixed[s] ELSE own[s - fSegment]
  <2>1. Fixed \in Seq(SegmentSet) /\ Len(Fixed) = fSegment
    BY FixedAre DEF fSegment
  <2>2. own \in Seq(SegmentSet)
    BY <1>9
  <2>3. Fixed \in Seq(SegmentSet)
    BY <2>1
  <2>4. /\ Fixed \o own \in Seq(SegmentSet) /\ Len(Fixed \o own) = Len(Fixed) + Len(own)
        /\ \A s \in 1 .. Len(Fixed) + Len(own) :
             (Fixed \o own)[s] = IF s <= Len(Fixed) THEN Fixed[s] ELSE own[s - Len(Fixed)]
    BY <2>2, <2>3, ConcatProperties, Zenon
  <2> QED
    BY <1>7, <1>9, <2>1, <2>4, Zenon
<1>12. \A s \in fSegment + 1 .. Len(kept) :
         /\ s - fSegment \in 1 .. U(N) /\ C(s - fSegment) \in fSegment + 1 .. N
         /\ kept[s] = seg[C(s - fSegment)] /\ seg[C(s - fSegment)].used
         /\ U(C(s - fSegment)) = s - fSegment
  <2>1. \A s \in fSegment + 1 .. Len(kept) :
          s - fSegment \in 1 .. U(N) /\ s \in 1 .. fSegment + U(N) /\ ~ (s <= fSegment)
    BY <1>1, <1>5, <1>11
  <2>2. \A s \in fSegment + 1 .. Len(kept) : kept[s] = own[s - fSegment]
    BY <1>11, <2>1
  <2> QED
    BY <1>6, <1>10, <2>1, <2>2
<1>13. ASSUME NEW s \in fSegment + 1 .. Len(kept), NEW t \in fSegment + 1 .. Len(kept),
              kept[s].ascii = kept[t].ascii
       PROVE  s = t
  <2>1. C(s - fSegment) = C(t - fSegment)
    BY <1>12, <1>13 DEF N
  <2>2. s - fSegment = t - fSegment
    BY <1>12, <2>1
  <2> QED
    BY <1>1, <1>5, <1>11, <2>2
<1>14. \A s \in 1 .. fSegment : kept[s] = Fixed[s]
  BY <1>1, <1>5, <1>11
<1>15. Len(kept) >= fSegment
  BY <1>1, <1>5, <1>11
<1> QED
  BY <1>11, <1>12, <1>13, <1>14, <1>15 DEF N

-----------------------------------------------------------------------------
(* Cells by number *)

\* Products with a natural number keep the order.
LEMMA Products ==
  ASSUME NEW a \in Int, NEW b \in Int, NEW c \in Nat, a <= b
  PROVE  a * c <= b * c
  OBVIOUS

\* Quotient and remainder.
LEMMA Division ==
  ASSUME NEW m \in Nat, NEW c \in Nat \ {0}
  PROVE  /\ m \div c \in Nat /\ m % c \in 0 .. c - 1
         /\ m = (m \div c) * c + (m % c)
  OBVIOUS

\* The numbers from 1 to rows * cols stand for the cells of the layout, row by row.
LEMMA CellsAreCounted ==
  ASSUME NEW rows \in Nat, NEW cols \in Nat
  PROVE  /\ \A n \in 1 .. rows * cols :
              <<(n - 1) \div cols, (n - 1) % cols>> \in (0 .. rows - 1) \X (0 .. cols - 1)
         /\ \A p \in (0 .. rows - 1) \X (0 .. cols - 1) :
              \E n \in 1 .. rows * cols : <<(n - 1) \div cols, (n - 1) % cols>> = p
<1>1. rows * cols \in Nat
  OBVIOUS
<1>2. ASSUME NEW n \in 1 .. rows * cols
      PROVE  <<(n - 1) \div cols, (n - 1) % cols>> \in (0 .. rows - 1) \X (0 .. cols - 1)
  <2> DEFINE q == (n - 1) \div cols
             r == (n - 1) % cols
  <2>1. n - 1 \in Nat /\ cols \in Nat \ {0} /\ n - 1 < rows * cols
    OBVIOUS
  <2>2. q \in Nat /\ r \in 0 .. cols - 1 /\ n - 1 = q * cols + r
    BY <2>1, Division
  <2> HIDE DEF q, r
  <2>3. q < rows
    <3> SUFFICES ASSUME rows <= q PROVE FALSE
      BY <2>2
    <3>1. rows * cols <= q * cols
      BY <2>2, Products
    <3>2. q * cols \in Int
      BY <2>2
    <3> DEFINE x == q * cols
               y == rows * cols
    <3>3. y <= x /\ x \in Int /\ y \in Int /\ n - 1 = x + r /\ n - 1 < y
      BY <3>1, <3>2, <2>1, <2>2, <1>1
    <3> HIDE DEF x, y
    <3> QED
      BY <3>3, <2>2
  <2> QED
    BY <2>2, <2>3 DEF q, r
<1>3. ASSUME NEW a \in 0 .. rows - 1, NEW b \in 0 .. cols - 1
      PROVE  \E n \in 1 .. rows * cols : (n - 1) \div cols = a /\ (n - 1) % cols = b
  <2> DEFINE m == a * cols + b
             q == m \div cols
             r == m % cols
  <2>1. m \in Nat /\ cols \in Nat \ {0} /\ a \in Nat /\ b \in Nat
    OBVIOUS
  <2>2. m < rows * cols
    <3>1. (a + 1) * cols <= rows * cols
      BY Products
    <3>2. (a + 1) * cols = a * cols + cols
      OBVIOUS
    <3> DEFINE x == a * cols
               y == rows * cols
               z == (a + 1) * cols
    <3>3. z <= y /\ z = x + cols /\ x \in Int /\ y \in Int /\ m = x + b
      BY <3>1, <3>2
    <3> HIDE DEF x, y, z, m
    <3>4. m < y
      BY <3>3
    <3> QED
      BY <3>4 DEF y
  <2>3. m = q * cols + r /\ q \in Nat /\ r \in 0 .. cols - 1
    BY <2>1, Division
  <2>4. q = a
    <3> DEFINE x == a * cols
               y == q * cols
    <3>1. m = x + b /\ m = y + r /\ x \in Int /\ y \in Int
      BY <2>3
    <3>2. CASE q < a
      <4>1. (q + 1) * cols <= a * cols
        BY <3>2, <2>1, <2>3, Products
      <4>2. y + cols <= x
        BY <4>1, <2>3
      <4> HIDE DEF x, y, m, q, r
      <4> QED
        BY <4>2, <3>1, <2>3
    <3>3. CASE a < q
      <4>1. (a + 1) * cols <= q * cols
        BY <3>3, <2>1, <2>3, Products
      <4>2. x + cols <= y
        BY <4>1, <2>3
      <4> HIDE DEF x, y, m, q, r
      <4> QED
        BY <4>2, <3>1, <2>3
    <3> HIDE DEF x, y, m, q, r
    <3> QED
      BY <3>2, <3>3, <2>3, <2>1
  <2>5. r = b
    <3> DEFINE x == a * cols
    <3>0. x \in Int /\ m = x + b
      OBVIOUS
    <3>1. m = x + r
      <4> HIDE DEF m, q, r
      <4> QED
        BY <2>3, <2>4
    <3> HIDE DEF x, m, q, r
    <3> QED
      BY <3>0, <3>1, <2>3
  <2>6. m + 1 \in 1 .. rows * cols /\ (m + 1) - 1 = m
    <3> DEFINE y == rows * cols
    <3>1. m \in Nat /\ m < y /\ y \in Nat
      BY <2>1, <2>2, <1>1
    <3> HIDE DEF m, y
    <3>2. m + 1 \in 1 .. y /\ (m + 1) - 1 = m
      BY <3>1
    <3> QED
      BY <3>2 DEF y
  <2>7. ((m + 1) - 1) \div cols = a /\ ((m + 1) - 1) % cols = b
    BY <2>4, <2>5, <2>6
  <2>8. m + 1 \in 1 .. rows * cols
    BY <2>6
  <2> HIDE DEF m
  <2> WITNESS m + 1 \in 1 .. rows * cols
  <2> QED
    BY <2>7
<1>4. ASSUME NEW p \in (0 .. rows - 1) \X (0 .. cols - 1)
      PROVE  \E n \in 1 .. rows * cols : <<(n - 1) \div cols, (n - 1) % cols>> = p
  <2>1. PICK a \in 0 .. rows - 1, b \in 0 .. cols - 1 : p = <<a, b>>
    OBVIOUS
  <2>2. PICK n \in 1 .. rows * cols : (n - 1) \div cols = a /\ (n - 1) % cols = b
    BY <1>3, Zenon
  <2>3. <<(n - 1) \div cols, (n - 1) % cols>> = p
    BY <2>1, <2>2, Zenon
  <2> QED
    BY <2>3, Zenon
<1> QED
  BY <1>2, <1>4, Zenon

-----------------------------------------------------------------------------
(* Segments are found or made *)

\* Cell c looks like d, but for its segment.
SameLook(c, d) == c.val1 = d.val1 /\ c.val2 = d.val2 /\ c.dir = d.dir /\ c.style = d.style

\* The lengths of a cell end within it.
FitCell(c) ==
  /\ c \in CellSet
  /\ c.dir # 0 => c.val1 <= Resolution({c.dir}) /\ c.val2 <= Resolution({c.dir})

\* Segment e is one of seg that is in use, ...
FromUsed(e, seg) == \E t \in fSegment + 1 .. Len(seg) : seg[t].used /\ e = seg[t]

\* ... or what a cell of the bars asks for.
FromCell(e, bar) == \E p \in DOMAIN bar : bar[p].dir # 0 /\ e = NewSegment(bar[p])

\* What holds after the cells in V.
Creating(st, seg, bar, V) ==
  /\ st.seg \in Seq(SegmentSet) /\ Len(st.seg) >= fSegment
  /\ \A s \in 1 .. fSegment : st.seg[s] = Fixed[s]
  /\ \A s \in fSegment + 1 .. Len(st.seg) : FromUsed(st.seg[s], seg) \/ FromCell(st.seg[s], bar)
  /\ \A s, t \in fSegment + 1 .. Len(st.seg) :
       st.seg[s].ascii = st.seg[t].ascii /\ st.seg[s].ascii # -1 => s = t
  /\ DOMAIN st.bar = DOMAIN bar
  /\ \A p \in DOMAIN bar : FitCell(st.bar[p]) /\ SameLook(st.bar[p], bar[p])
  /\ \A p \in DOMAIN bar : bar[p].dir = 0 => st.bar[p] = bar[p]
  /\ \A p \in V : bar[p].dir # 0 =>
       st.bar[p].segment \in 1 .. Len(st.seg) /\ Suits(st.seg[st.bar[p].segment], bar[p])

\* A segment that is made for a cell suits it.
LEMMA NewSegmentSuits ==
  ASSUME NEW c, FitCell(c), c.dir # 0
  PROVE  /\ NewSegment(c) \in SegmentSet /\ NewSegment(c).ascii = -1
         /\ ~ NewSegment(c).used /\ Suits(NewSegment(c), c)
<1>1. /\ c.val1 \in Int /\ c.val2 \in Int /\ c.dir \in Directions /\ c.style \in Nat
      /\ c.val1 <= Resolution({c.dir}) /\ c.val2 <= Resolution({c.dir})
  BY DEF FitCell, CellSet
<1>2. Resolution({c.dir}) \in Int
  BY BarSegmentsAssumption DEF Resolution
<1>3. NewSegment(c) \in SegmentSet
  BY <1>1 DEF NewSegment, SegmentSet
<1>4. /\ NewSegment(c).val1 = c.val1 /\ NewSegment(c).val2 = c.val2 /\ NewSegment(c).dirs = {c.dir}
      /\ NewSegment(c).style = c.style /\ NewSegment(c).ascii = -1 /\ NewSegment(c).used = FALSE
  BY DEF NewSegment
<1> HIDE DEF NewSegment
<1>5. Lesser(c.val1, Resolution({c.dir})) = c.val1 /\ Lesser(c.val2, Resolution({c.dir})) = c.val2
  BY <1>1, <1>2 DEF Lesser
<1>6. Suits(NewSegment(c), c)
  BY <1>1, <1>4, <1>5 DEF Suits, Length1, Length2
<1> QED
  BY <1>3, <1>4, <1>6

\* Whether a segment suits a cell does not depend on the segment that the cell has.
LEMMA SuitsSame ==
  ASSUME NEW s, NEW c, NEW d, SameLook(c, d)
  PROVE  Suits(s, c) <=> Suits(s, d)
BY DEF Suits, SameLook

\* create_segments at one cell: it finds a segment that suits the cell, or makes one.
LEMMA AssignKeeps ==
  ASSUME NEW st, NEW seg, NEW bar, NEW V, Creating(st, seg, bar, V), V \subseteq DOMAIN bar,
         \A q \in DOMAIN bar : FitCell(bar[q]),
         NEW p \in DOMAIN bar, NEW next, next = Assign(st, p)
  PROVE  Creating(next, seg, bar, V \union {p})
<1> DEFINE c == st.bar[p]
           suiting == {s \in DOMAIN st.seg : Suits(st.seg[s], c)}
           found == IF suiting = {} THEN Len(st.seg) + 1 ELSE Min(suiting)
           grown == IF suiting = {} THEN Append(st.seg, NewSegment(c)) ELSE st.seg
           cell == [c EXCEPT !.segment = found]
<1>1. c.dir = bar[p].dir /\ SameLook(c, bar[p]) /\ FitCell(c) /\ FitCell(bar[p])
  BY DEF Creating, SameLook
<1>2. CASE c.dir = 0
  <2>1. next = st
    BY <1>2 DEF Assign
  <2>2. \A q \in V \union {p} : bar[q].dir # 0 => q \in V
    BY <1>1, <1>2
  <2> HIDE DEF c
  <2> QED
    BY <2>1, <2>2, Zenon DEF Creating
<1>3. CASE c.dir # 0
  <2>0. /\ st.seg \in Seq(SegmentSet) /\ Len(st.seg) \in Nat /\ DOMAIN st.seg = 1 .. Len(st.seg)
        /\ Len(st.seg) >= fSegment /\ fSegment \in Nat
    <3>1. st.seg \in Seq(SegmentSet)
      BY DEF Creating
    <3> QED
      BY <3>1, LenProperties, FixedAre DEF Creating
  <2>1. next.seg = grown /\ next.bar = [st.bar EXCEPT ![p] = cell]
    BY <1>3 DEF Assign
  <2>2. /\ NewSegment(c) \in SegmentSet /\ NewSegment(c).ascii = -1 /\ Suits(NewSegment(c), c)
    BY <1>1, <1>3, NewSegmentSuits
  <2>3. NewSegment(c) = NewSegment(bar[p])
    BY <1>1 DEF NewSegment, SameLook
  <2>4. /\ grown \in Seq(SegmentSet) /\ Len(grown) \in Nat /\ Len(grown) >= Len(st.seg)
        /\ \A s \in 1 .. Len(st.seg) : grown[s] = st.seg[s]
        /\ \A s \in Len(st.seg) + 1 .. Len(grown) : grown[s] = NewSegment(c)
        /\ found \in 1 .. Len(grown) /\ Suits(grown[found], c)
        /\ Len(grown) <= Len(st.seg) + 1
    <3>1. CASE suiting = {}
      <4>1. /\ grown = Append(st.seg, NewSegment(c)) /\ found = Len(st.seg) + 1
        BY <3>1
      <4> HIDE DEF grown, found, suiting, c
      <4>2. /\ grown \in Seq(SegmentSet) /\ Len(grown) = Len(st.seg) + 1
            /\ \A s \in 1 .. Len(st.seg) : grown[s] = st.seg[s]
            /\ grown[Len(st.seg) + 1] = NewSegment(c)
        BY <4>1, <2>0, <2>2, AppendProperties
      <4> QED
        BY <4>1, <4>2, <2>0, <2>2
    <3>2. CASE suiting # {}
      <4>1. grown = st.seg /\ found = Min(suiting)
        BY <3>2
      <4>2. suiting \subseteq Nat
        BY <2>0
      <4>3. \E n \in suiting : \A m \in suiting : n <= m
        <5> HIDE DEF suiting
        <5> QED
          BY <3>2, <4>2, SmallestNat
      <4>4. found \in suiting
        <5> HIDE DEF suiting, found
        <5> QED
          BY <4>1, <4>3 DEF Min
      <4>5. found \in 1 .. Len(st.seg) /\ Suits(st.seg[found], c)
        BY <4>4, <2>0
      <4> HIDE DEF grown, found, suiting, c
      <4> QED
        BY <4>1, <4>5, <2>0
    <3> QED
      BY <3>1, <3>2
  <2>5. DOMAIN next.bar = DOMAIN bar /\ next.bar[p] = cell /\ \A q \in DOMAIN bar \ {p} : next.bar[q] = st.bar[q]
    BY <2>1 DEF Creating
  <2>6. FitCell(cell) /\ SameLook(cell, bar[p]) /\ cell.segment = found
    <3>1. c \in CellSet /\ found \in Nat
      BY <1>1, <2>4 DEF FitCell
    <3> HIDE DEF c, found
    <3>2. cell \in CellSet /\ cell.segment = found /\ cell.val1 = c.val1 /\ cell.val2 = c.val2
          /\ cell.dir = c.dir /\ cell.style = c.style
      BY <3>1 DEF CellSet
    <3> HIDE DEF cell
    <3> QED
      BY <3>2, <1>1 DEF FitCell, SameLook
  <2> HIDE DEF cell, found, grown, suiting
  <2>7. \A s \in fSegment + 1 .. Len(grown) : FromUsed(grown[s], seg) \/ FromCell(grown[s], bar)
    <3> SUFFICES ASSUME NEW s \in fSegment + 1 .. Len(grown)
                 PROVE  FromUsed(grown[s], seg) \/ FromCell(grown[s], bar)
      OBVIOUS
    <3>1. CASE s \in 1 .. Len(st.seg)
      <4>1. s \in fSegment + 1 .. Len(st.seg) /\ grown[s] = st.seg[s]
        BY <3>1, <2>0, <2>4
      <4> QED
        BY <4>1 DEF Creating
    <3>2. CASE s \notin 1 .. Len(st.seg)
      <4>1. grown[s] = NewSegment(bar[p])
        BY <3>2, <2>0, <2>4, <2>3
      <4> QED
        BY <4>1, <1>1, <1>3 DEF FromCell
    <3> QED
      BY <3>1, <3>2
  <2>8. \A s, t \in fSegment + 1 .. Len(grown) :
          grown[s].ascii = grown[t].ascii /\ grown[s].ascii # -1 => s = t
    <3> SUFFICES ASSUME NEW s \in fSegment + 1 .. Len(grown), NEW t \in fSegment + 1 .. Len(grown),
                        grown[s].ascii = grown[t].ascii, grown[s].ascii # -1
                 PROVE  s = t
      OBVIOUS
    <3>0. \A u \in fSegment + 1 .. Len(grown) : u \in 1 .. Len(st.seg) \/ grown[u].ascii = -1
      <4> SUFFICES ASSUME NEW u \in fSegment + 1 .. Len(grown), u \notin 1 .. Len(st.seg)
                   PROVE  grown[u].ascii = -1
        OBVIOUS
      <4>1. u \in Len(st.seg) + 1 .. Len(grown)
        BY <2>0, <2>4
      <4>2. grown[u] = NewSegment(c)
        BY <4>1, <2>4
      <4> QED
        BY <4>2, <2>2
    <3>1. s \in 1 .. Len(st.seg) /\ t \in 1 .. Len(st.seg)
      BY <3>0
    <3>2. grown[s] = st.seg[s] /\ grown[t] = st.seg[t] /\ s \in fSegment + 1 .. Len(st.seg)
          /\ t \in fSegment + 1 .. Len(st.seg)
      BY <3>1, <2>4, <2>0
    <3> QED
      BY <3>2 DEF Creating
  <2>9. ASSUME NEW q \in V \union {p}, bar[q].dir # 0
        PROVE  next.bar[q].segment \in 1 .. Len(grown) /\ Suits(grown[next.bar[q].segment], bar[q])
    <3>1. CASE q = p
      <4>1. Suits(grown[found], bar[p])
        BY <1>1, <2>4, SuitsSame
      <4> QED
        BY <3>1, <4>1, <2>4, <2>5, <2>6
    <3>2. CASE q # p
      <4>1. next.bar[q] = st.bar[q] /\ st.bar[q].segment \in 1 .. Len(st.seg)
            /\ Suits(st.seg[st.bar[q].segment], bar[q])
        BY <3>2, <2>5, <2>9 DEF Creating
      <4>2. st.bar[q].segment \in 1 .. Len(grown) /\ grown[st.bar[q].segment] = st.seg[st.bar[q].segment]
        BY <4>1, <2>0, <2>4
      <4> QED
        BY <4>1, <4>2
    <3> QED
      BY <3>1, <3>2
  <2>10. \A s \in 1 .. fSegment : grown[s] = Fixed[s]
    <3>1. \A s \in 1 .. fSegment : st.seg[s] = Fixed[s] /\ s \in 1 .. Len(st.seg)
      BY <2>0 DEF Creating
    <3> QED
      BY <3>1, <2>4
  <2>11. \A q \in DOMAIN bar : FitCell(next.bar[q]) /\ SameLook(next.bar[q], bar[q])
    <3>1. \A q \in DOMAIN bar \ {p} : FitCell(next.bar[q]) /\ SameLook(next.bar[q], bar[q])
      BY <2>5 DEF Creating
    <3> QED
      BY <3>1, <2>5, <2>6
  <2>12. \A q \in DOMAIN bar : bar[q].dir = 0 => next.bar[q] = bar[q]
    BY <2>5, <1>1, <1>3 DEF Creating
  <2>13. Len(grown) >= fSegment
    BY <2>0, <2>4
  <2> QED
    BY <2>1, <2>4, <2>5, <2>7, <2>8, <2>9, <2>10, <2>11, <2>12, <2>13, Zenon DEF Creating
<1> QED
  BY <1>2, <1>3

\* What create_segments makes: the fixed segments, those in use and new ones, and for each
\* cell of a bar one that suits it.
LEMMA CreatedIs ==
  ASSUME NEW seg \in Seq(SegmentSet), fSegment <= Len(seg),
         \A s, t \in fSegment + 1 .. Len(seg) : seg[s].ascii = seg[t].ascii => s = t,
         NEW rows \in Nat, NEW cols \in Nat,
         NEW bar, DOMAIN bar = (0 .. rows - 1) \X (0 .. cols - 1),
         \A p \in DOMAIN bar : FitCell(bar[p]),
         NEW made, made = create_segments(seg, bar, rows, cols)
  PROVE  Creating(made, seg, bar, DOMAIN bar)
<1> DEFINE cell(n) == <<(n - 1) \div cols, (n - 1) % cols>>
           N == rows * cols
           V(n) == {cell(m) : m \in 1 .. n}
<1>1. N \in Nat
  OBVIOUS
<1>2. /\ \A n \in 1 .. N : cell(n) \in DOMAIN bar
      /\ \A p \in DOMAIN bar : \E n \in 1 .. N : cell(n) = p
  <2>1. /\ \A n \in 1 .. rows * cols : cell(n) \in (0 .. rows - 1) \X (0 .. cols - 1)
        /\ \A p \in (0 .. rows - 1) \X (0 .. cols - 1) : \E n \in 1 .. rows * cols : cell(n) = p
    BY CellsAreCounted
  <2> QED
    BY <2>1
<1>0. PICK st : st = Assigned(seg, bar, rows, cols)
  OBVIOUS
<1>3. st[0] = [seg |-> KeepUsed(seg), bar |-> bar] /\ \A n \in 1 .. N : st[n] = Assign(st[n - 1], cell(n))
  <2>1. Assigning(st, seg, bar, rows, cols)
    BY <1>0, AssignedIs
  <2> QED
    BY <2>1 DEF Assigning
<1>4. made = st[N]
  BY <1>0 DEF create_segments
<1> HIDE DEF cell, N
<1> DEFINE P(n) == Creating(st[n], seg, bar, V(n))
           T == {n \in 0 .. N : P(n)}
<1>5. V(0) = {}
  OBVIOUS
<1>6. Creating(st[0], seg, bar, {})
  <2>1. st[0].seg = KeepUsed(seg) /\ st[0].bar = bar
    BY <1>3
  <2>2. /\ st[0].seg \in Seq(SegmentSet) /\ Len(st[0].seg) >= fSegment
        /\ \A s \in 1 .. fSegment : st[0].seg[s] = Fixed[s]
        /\ \A s \in fSegment + 1 .. Len(st[0].seg) : FromUsed(st[0].seg[s], seg)
        /\ \A s, t \in fSegment + 1 .. Len(st[0].seg) : st[0].seg[s].ascii = st[0].seg[t].ascii => s = t
    BY <2>1, KeepUsedIs DEF FromUsed
  <2>3. \A p \in DOMAIN bar : SameLook(bar[p], bar[p])
    BY DEF SameLook
  <2> QED
    BY <2>1, <2>2, <2>3, Zenon DEF Creating
<1>7. 0 \in T
  <2>1. P(0)
    <3> HIDE DEF V
    <3> QED
      BY <1>5, <1>6, Zenon
  <2> HIDE DEF P
  <2> QED
    BY <1>1, <2>1
<1>8. ASSUME NEW n \in 0 .. N - 1, n \in T PROVE n + 1 \in T
  <2>1. n + 1 \in 1 .. N /\ (n + 1) - 1 = n
    BY <1>1
  <2>2. st[n + 1] = Assign(st[n], cell(n + 1)) /\ cell(n + 1) \in DOMAIN bar
    BY <2>1, <1>2, <1>3
  <2>3. V(n + 1) = V(n) \union {cell(n + 1)} /\ V(n) \subseteq DOMAIN bar
    <3>1. 1 .. n + 1 = (1 .. n) \union {n + 1} /\ 1 .. n \subseteq 1 .. N
      BY <1>1
    <3> QED
      BY <3>1, <1>2
  <2>4. Creating(st[n], seg, bar, V(n))
    BY <1>8
  <2> HIDE DEF V
  <2>5. Creating(st[n + 1], seg, bar, V(n) \union {cell(n + 1)})
    BY <2>2, <2>3, <2>4, AssignKeeps
  <2>6. P(n + 1)
    BY <2>3, <2>5, Zenon
  <2> HIDE DEF P
  <2> QED
    BY <2>1, <2>6, <1>1
<1>9. N \in T
  <2> HIDE DEF T
  <2>1. \A n \in 0 .. N - 1 : n \in T => n + 1 \in T
    BY <1>8
  <2>2. \A n \in 0 .. N : n \in T
    BY <1>1, <1>7, <2>1, Induction
  <2> QED
    BY <2>2, <1>1
<1>10. V(N) = DOMAIN bar
  BY <1>2
<1> QED
  BY <1>4, <1>9, <1>10

-----------------------------------------------------------------------------
(* drv_generic_text_bar_pack_segments *)

\* The function that pack_segments takes the last value of.
IsPacked(f, seg, N) ==
  f = [n \in 0 .. N |-> IF n = 0 THEN Unpacked(seg) ELSE Compact(f[n - 1])]

\* st are the states of the loop of pack_segments.
PackedBy(st, seg) ==
  st[0] = Unpacked(seg) /\ \A n \in 1 .. Turns(seg) : st[n] = Compact(st[n - 1])

\* The recursion over the turns of the loop is one.
LEMMA PackedIs ==
  ASSUME NEW seg, Len(seg) \in Nat
  PROVE  PackedBy(Packed(seg), seg)
<1>0. SUFFICES ASSUME NEW st, st = Packed(seg) PROVE PackedBy(st, seg)
  OBVIOUS
<1> DEFINE a == Unpacked(seg)
           N == Turns(seg)
           T == {n \in Nat : \E f : IsPacked(f, seg, n)}
<1>1. 0 \in T
  <2> DEFINE f == [n \in 0 .. 0 |-> a]
  <2>1. IsPacked(f, seg, 0)
    BY DEF IsPacked
  <2> QED
    BY <2>1
<1>2. ASSUME NEW n \in Nat, n \in T PROVE n + 1 \in T
  <2>1. PICK f : IsPacked(f, seg, n)
    BY <1>2
  <2> DEFINE g == [k \in 0 .. n + 1 |-> IF k = n + 1 THEN Compact(f[n]) ELSE f[k]]
  <2>2. \A k \in 0 .. n : f[k] = IF k = 0 THEN a ELSE Compact(f[k - 1])
    BY <2>1, Zenon DEF IsPacked
  <2> HIDE DEF a
  <2>3. ASSUME NEW k \in 0 .. n + 1 PROVE g[k] = IF k = 0 THEN a ELSE Compact(g[k - 1])
    <3>1. CASE k = n + 1
      BY <3>1
    <3>2. CASE k # n + 1
      <4>1. k \in 0 .. n /\ (k # 0 => k - 1 \in 0 .. n + 1 /\ k - 1 # n + 1)
        BY <3>2
      <4> QED
        BY <4>1, <2>2
    <3> QED
      BY <3>1, <3>2
  <2>4. g = [k \in 0 .. n + 1 |-> g[k]]
    OBVIOUS
  <2> HIDE DEF g
  <2>5. g = [k \in 0 .. n + 1 |-> IF k = 0 THEN a ELSE Compact(g[k - 1])]
    BY <2>3, <2>4, Zenon
  <2>6. IsPacked(g, seg, n + 1)
    BY <2>5 DEF IsPacked, a
  <2> QED
    BY <2>6
<1>3. N \in Nat
  BY DEF Turns
<1> HIDE DEF N
<1>4. N \in T
  <2> HIDE DEF T
  <2>1. \A n \in 0 .. N : n \in T
    <3>1. \A n \in 0 .. N - 1 : n \in T => n + 1 \in T
      BY <1>2, <1>3
    <3> QED
      BY <1>1, <1>3, <3>1, Induction
  <2> QED
    BY <2>1, <1>3
<1>5. \E f : IsPacked(f, seg, N)
  BY <1>4
<1>6. st = CHOOSE f : IsPacked(f, seg, N)
  BY <1>0 DEF Packed, IsPacked, N
<1>7. IsPacked(st, seg, N)
  BY <1>5, <1>6
<1>8. \A n \in 0 .. N : st[n] = IF n = 0 THEN a ELSE Compact(st[n - 1])
  BY <1>7, Zenon DEF IsPacked
<1>9. 0 \in 0 .. N /\ \A n \in 1 .. N : n \in 0 .. N /\ n # 0
  BY <1>3
<1>10. st[0] = a /\ \A n \in 1 .. N : st[n] = Compact(st[n - 1])
  <2> HIDE DEF a
  <2> QED
    BY <1>8, <1>9, Zenon
<1> QED
  BY <1>10, Zenon DEF N, PackedBy

-----------------------------------------------------------------------------
\* Where the lengths of s are empty or full so are those of t.
SameEnds(s, t, res) ==
  \A end \in {0, res} : /\ Length1(s, res) = end => Length1(t, res) = end
                        /\ Length2(s, res) = end => Length2(t, res) = end

\* A state of that loop.
IsPacking(st) ==
  st = [seg |-> st.seg, nSegment |-> st.nSegment, cells |-> st.cells, diagonal |-> st.diagonal,
        pass1 |-> st.pass1, failed |-> st.failed, selfMerged |-> st.selfMerged]

\* The first n segments of sg are some of seg, with characters of their own.
Entries(sg, n, seg) ==
  /\ sg \in Seq(SegmentSet) /\ Len(sg) = Len(seg)
  /\ \A s \in 1 .. fSegment : sg[s] = seg[s]
  /\ \A s \in fSegment + 1 .. Len(seg) : \E t \in fSegment + 1 .. Len(seg) : sg[s] = seg[t]
  /\ \A s, t \in fSegment + 1 .. n : sg[s].ascii = sg[t].ascii /\ sg[s].ascii # -1 => s = t

\* The table of errors, as the model keeps it: where its entries are to be computed from.
Tables(cells, diagonal, seg) ==
  /\ DOMAIN cells = 1 .. Len(seg) /\ \A x \in 1 .. Len(seg) : cells[x] \in 1 .. Len(seg)
  /\ DOMAIN diagonal = 1 .. Len(seg) /\ \A x \in 1 .. Len(seg) : diagonal[x] \in Nat

\* What holds after each turn.
Packing(st, seg) ==
  /\ IsPacking(st)
  /\ st.pass1 \in BOOLEAN /\ st.failed \in BOOLEAN /\ st.selfMerged \in BOOLEAN
  /\ Entries(st.seg, st.nSegment, seg)
  /\ st.nSegment \in 0 .. Len(seg)
  /\ IF st.failed THEN st.nSegment = Room ELSE st.nSegment >= fSegment
  /\ Tables(st.cells, st.diagonal, seg)

\* As long as none is merged with itself, the cells keep a segment that has the ends of
\* the one they had.
Keeping(st, seg) ==
  ~ st.failed /\ ~ st.selfMerged =>
    /\ \A x \in 1 .. Len(seg) : st.cells[x] \in 1 .. st.nSegment
    /\ \A res \in {XRES, YRES} :
         (\A s \in fSegment + 1 .. Len(seg) : Resolution(seg[s].dirs) = res) =>
           \A x \in 1 .. Len(seg) : SameEnds(seg[x], st.seg[st.cells[x]], res)

\* The loop of pack_segments goes on.
Running(st) == ~ st.failed /\ st.nSegment > fSegment + Room

\* Lengths that are cut to a resolution are numbers.
LEMMA LengthIs ==
  ASSUME NEW s \in SegmentSet, NEW res \in Int
  PROVE  Length1(s, res) \in Int /\ Length2(s, res) \in Int
<1>1. s.val1 \in Int /\ s.val2 \in Int
  BY DEF SegmentSet
<1> QED
  BY <1>1 DEF Length1, Length2, Lesser

\* The resolution of directions is that of the rows or of the columns of a cell.
LEMMA ResolutionIs ==
  ASSUME NEW dirs
  PROVE  Resolution(dirs) \in {XRES, YRES} /\ Resolution(dirs) \in Nat \ {0}
BY BarSegmentsAssumption DEF Resolution

\* Sums of squares are natural numbers.
LEMMA Squares ==
  ASSUME NEW a \in Int, NEW b \in Int
  PROVE  a * a + b * b \in Nat
<1>1. a * a >= 0 /\ b * b >= 0 /\ a * a \in Int /\ b * b \in Int
  OBVIOUS
<1> QED
  BY <1>1

\* segment_error: only segments that may be replaced have an error below the limit.
LEMMA SegmentErrorIs ==
  ASSUME NEW s \in SegmentSet, NEW t \in SegmentSet
  PROVE  /\ segment_error(s, t) \in Nat
         /\ segment_error(s, t) < Limit => Replaceable(s, t)
<1> DEFINE res == Resolution(s.dirs)
           d1 == Length1(s, res) - Length1(t, res)
           d2 == Length2(s, res) - Length2(t, res)
<1>1. res \in Int
  BY ResolutionIs
<1>2. d1 \in Int /\ d2 \in Int
  <2> HIDE DEF res
  <2>1. /\ Length1(s, res) \in Int /\ Length1(t, res) \in Int
        /\ Length2(s, res) \in Int /\ Length2(t, res) \in Int
    BY <1>1, LengthIs
  <2> QED
    BY <2>1
<1>3. segment_error(s, t) = IF Replaceable(s, t) THEN d1 * d1 + d2 * d2 ELSE Limit
  BY DEF segment_error
<1>4. d1 * d1 + d2 * d2 \in Nat
  <2> HIDE DEF d1, d2
  <2> QED
    BY <1>2, Squares
<1> HIDE DEF d1, d2
<1> QED
  BY <1>3, <1>4 DEF Limit

\* The entries of the table of errors, as long as no entry of the diagonal is used.
LEMMA ErrorIs ==
  ASSUME NEW st, NEW seg, Len(seg) \in Nat, Packing(st, seg),
         NEW i \in 1 .. Len(seg), NEW j \in 1 .. Len(seg)
  PROVE  /\ Error(st, i, j) \in Nat
         /\ i # j /\ Error(st, i, j) < Limit => Replaceable(st.seg[i], st.seg[j])
<1>1. st.seg \in Seq(SegmentSet) /\ Len(st.seg) = Len(seg)
  BY DEF Packing, Entries
<1>2. st.seg[i] \in SegmentSet /\ st.seg[j] \in SegmentSet
  BY <1>1, ElementOfSeq
<1>3. CASE i = j
  BY <1>3 DEF Packing, Tables, Error
<1>4. CASE i # j
  BY <1>2, <1>4, SegmentErrorIs DEF Error
<1> QED
  BY <1>3, <1>4

\* The pair that the scan keeps is one of those it has seen.
LEMMA BestIs ==
  ASSUME NEW st, NEW pairs, pairs \subseteq Nat \X Nat, pairs # {},
         \A p \in pairs : Error(st, p[1], p[2]) \in Nat
  PROVE  Best(st, pairs) \in pairs
<1> DEFINE Before(p, q) == p[1] < q[1] \/ (p[1] = q[1] /\ p[2] < q[2])
           errors == {Error(st, p[1], p[2]) : p \in pairs}
           least == Min(errors)
           Q == {p \in pairs : Error(st, p[1], p[2]) = least}
           R == {p[1] : p \in Q}
<1>1. least \in errors
  <2>1. errors \subseteq Nat /\ errors # {}
    OBVIOUS
  <2> HIDE DEF errors
  <2>2. \E n \in errors : \A m \in errors : n <= m
    BY <2>1, SmallestNat
  <2> QED
    BY <2>2 DEF Min
<1> HIDE DEF least
<1>2. Q # {} /\ R \subseteq Nat /\ R # {}
  BY <1>1
<1>3. PICK r \in R : \A m \in R : r <= m
  <2> HIDE DEF R
  <2> QED
    BY <1>2, SmallestNat
<1> DEFINE C == {p[2] : p \in {q \in Q : q[1] = r}}
<1>4. C \subseteq Nat /\ C # {}
  BY <1>3
<1>5. PICK c \in C : \A m \in C : c <= m
  <2> HIDE DEF C
  <2> QED
    BY <1>4, SmallestNat
<1>6. PICK p \in pairs : Error(st, p[1], p[2]) = least /\ p[1] = r /\ p[2] = c
  BY <1>5
<1>7. ASSUME NEW q \in pairs \ {p}, Before(q, p), Error(st, q[1], q[2]) = least PROVE FALSE
  <2>1. q \in Q /\ q[1] \in R
    BY <1>7
  <2>2. r <= q[1] /\ r \in Nat /\ q[1] \in Nat
    BY <1>2, <1>3, <2>1
  <2>3. q[1] = r
    BY <1>6, <1>7, <2>2
  <2>4. q[2] \in C
    BY <2>1, <2>3
  <2>5. c <= q[2] /\ q[2] \in Nat /\ c \in Nat
    BY <1>4, <1>5, <2>4
  <2> QED
    BY <1>6, <1>7, <2>3, <2>5, <2>2
<1>8. \E x \in pairs : /\ Error(st, x[1], x[2]) = least
                       /\ \A q \in pairs \ {x} : Before(q, x) => Error(st, q[1], q[2]) # least
  BY <1>6, <1>7
<1>9. Best(st, pairs) = CHOOSE x \in pairs :
        /\ Error(st, x[1], x[2]) = least
        /\ \A q \in pairs \ {x} : Before(q, x) => Error(st, q[1], q[2]) # least
  BY DEF Best, least
<1> QED
  BY <1>8, <1>9, Zenon

-----------------------------------------------------------------------------
(* One turn of pack_segments *)

\* The segments as create_segments leaves them.
Made(seg) ==
  /\ seg \in Seq(SegmentSet) /\ Len(seg) >= fSegment
  /\ \A s, t \in fSegment + 1 .. Len(seg) : seg[s].ascii = seg[t].ascii /\ seg[s].ascii # -1 => s = t

\* Replacing what has been replaced keeps the ends.
LEMMA SameEndsChain ==
  ASSUME NEW a, NEW b, NEW c, NEW res, SameEnds(a, b, res), SameEnds(b, c, res)
  PROVE  SameEnds(a, c, res)
BY DEF SameEnds

\* What may be replaced has the ends of what replaces it: drv_generic_text.c:737, :743.
LEMMA ReplaceableKeepsEnds ==
  ASSUME NEW s \in SegmentSet, NEW t \in SegmentSet, Replaceable(s, t),
         NEW res, res = Resolution(s.dirs)
  PROVE  SameEnds(s, t, res)
BY DEF Replaceable, SameEnds

\* Before the first turn of the loop.
LEMMA UnpackedIs ==
  ASSUME NEW seg, Made(seg)
  PROVE  Packing(Unpacked(seg), seg) /\ Keeping(Unpacked(seg), seg)
<1> DEFINE st == Unpacked(seg)
<1>1. /\ seg \in Seq(SegmentSet) /\ Len(seg) \in Nat /\ DOMAIN seg = 1 .. Len(seg)
      /\ Len(seg) >= fSegment /\ fSegment \in Nat
  <2>1. seg \in Seq(SegmentSet)
    BY DEF Made
  <2> QED
    BY <2>1, LenProperties, FixedAre DEF Made
<1>2. /\ st.seg = seg /\ st.nSegment = Len(seg) /\ st.cells = [i \in DOMAIN seg |-> i]
      /\ st.diagonal = [i \in DOMAIN seg |-> Limit] /\ st.pass1 = TRUE
      /\ st.failed = FALSE /\ st.selfMerged = FALSE /\ IsPacking(st)
  BY DEF Unpacked, IsPacking
<1> HIDE DEF st
<1>3. /\ DOMAIN st.cells = 1 .. Len(seg) /\ \A x \in 1 .. Len(seg) : st.cells[x] = x
      /\ DOMAIN st.diagonal = 1 .. Len(seg) /\ \A x \in 1 .. Len(seg) : st.diagonal[x] \in Nat
  BY <1>1, <1>2 DEF Limit
<1>4. \A s, t \in fSegment + 1 .. Len(seg) :
        seg[s].ascii = seg[t].ascii /\ seg[s].ascii # -1 => s = t
  BY DEF Made
<1>5. \A s \in 1 .. fSegment : st.seg[s] = seg[s]
  BY <1>2
<1>6. \A s \in fSegment + 1 .. Len(seg) : \E t \in fSegment + 1 .. Len(seg) : st.seg[s] = seg[t]
  BY <1>2
<1>7. Packing(st, seg)
  <2>1. Entries(st.seg, st.nSegment, seg)
    BY <1>1, <1>2, <1>4, <1>5, <1>6, Zenon DEF Entries
  <2>2. Tables(st.cells, st.diagonal, seg)
    BY <1>3, Zenon DEF Tables
  <2>3. st.nSegment \in 0 .. Len(seg) /\ st.nSegment >= fSegment
    BY <1>1, <1>2
  <2> QED
    BY <1>2, <2>1, <2>2, <2>3 DEF Packing
<1>8. \A x \in 1 .. Len(seg) : \A res : SameEnds(seg[x], st.seg[st.cells[x]], res)
  BY <1>2, <1>3 DEF SameEnds
<1>9. \A x \in 1 .. Len(seg) : st.cells[x] \in 1 .. st.nSegment
  BY <1>2, <1>3
<1>10. Keeping(st, seg)
  BY <1>8, <1>9 DEF Keeping
<1> QED
  BY <1>7, <1>10 DEF st

\* Segment i is replaced by j.
LEMMA MergeKeeps ==
  ASSUME NEW seg, Made(seg), NEW st, Packing(st, seg), Keeping(st, seg), Running(st),
         NEW i \in fSegment + 1 .. st.nSegment, NEW j \in 1 .. st.nSegment,
         i # j => Replaceable(st.seg[i], st.seg[j]),
         NEW next, next = Merge(st, i, j)
  PROVE  /\ Packing(next, seg) /\ Keeping(next, seg)
         /\ next.nSegment = st.nSegment - 1 /\ next.pass1 = st.pass1
<1> DEFINE last == st.nSegment
           Moved(k) == IF k = i THEN j ELSE k
           N == Len(seg)
<1>1. N \in Nat /\ fSegment \in Nat /\ Room \in Nat
  <2>1. seg \in Seq(SegmentSet)
    BY DEF Made
  <2> QED
    BY <2>1, LenProperties, FixedAre, BarSegmentsAssumption DEF Room
<1>2. /\ ~ st.failed /\ last \in Nat /\ last <= N /\ last > fSegment + Room
      /\ i \in 1 .. N /\ j \in 1 .. N /\ last \in 1 .. N /\ i > fSegment /\ last > fSegment
      /\ i <= last /\ j <= last
  BY <1>1 DEF Packing, Running
<1>3. st.seg \in Seq(SegmentSet) /\ Len(st.seg) = N /\ DOMAIN st.seg = 1 .. N
  <2>1. st.seg \in Seq(SegmentSet) /\ Len(st.seg) = N
    BY DEF Packing, Entries
  <2> QED
    BY <2>1, LenProperties
<1>4. /\ next.seg = [st.seg EXCEPT ![i] = st.seg[last]]
      /\ next.nSegment = last - 1
      /\ next.cells = [k \in DOMAIN st.cells |->
                         IF Moved(st.cells[k]) = last THEN i ELSE Moved(st.cells[k])]
      /\ next.diagonal = [st.diagonal EXCEPT ![i] =
                            IF i = last THEN st.diagonal[i] ELSE Error(st, i, last)]
      /\ next.pass1 = st.pass1 /\ next.failed = st.failed
      /\ next.selfMerged = (st.selfMerged \/ i = j)
      /\ IsPacking(next)
  BY DEF Merge, IsPacking
<1> HIDE DEF last, N, Moved
<1>5. /\ next.seg \in Seq(SegmentSet) /\ Len(next.seg) = N
      /\ \A s \in 1 .. N : next.seg[s] = IF s = i THEN st.seg[last] ELSE st.seg[s]
  <2>1. st.seg[last] \in SegmentSet
    BY <1>2, <1>3, ElementOfSeq
  <2>2. i \in 1 .. Len(st.seg)
    BY <1>2, <1>3
  <2>3. /\ [st.seg EXCEPT ![i] = st.seg[last]] \in Seq(SegmentSet)
        /\ Len([st.seg EXCEPT ![i] = st.seg[last]]) = Len(st.seg)
        /\ \A s \in 1 .. Len(st.seg) :
             [st.seg EXCEPT ![i] = st.seg[last]][s] = IF s = i THEN st.seg[last] ELSE st.seg[s]
    BY <1>3, <2>1, <2>2, ExceptSeq
  <2> QED
    BY <1>3, <1>4, <2>3, Zenon
<1>6. /\ DOMAIN st.cells = 1 .. N /\ \A x \in 1 .. N : st.cells[x] \in 1 .. N
      /\ DOMAIN st.diagonal = 1 .. N /\ \A x \in 1 .. N : st.diagonal[x] \in Nat
  BY DEF Packing, Tables, N
<1>7. DOMAIN next.diagonal = 1 .. N /\ \A x \in 1 .. N : next.diagonal[x] \in Nat
  <2>1. Error(st, i, last) \in Nat
    BY <1>1, <1>2, ErrorIs DEF N
  <2>2. (IF i = last THEN st.diagonal[i] ELSE Error(st, i, last)) \in Nat
    BY <1>2, <1>6, <2>1
  <2> QED
    BY <1>4, <1>6, <2>2
<1>8. DOMAIN next.cells = 1 .. N /\ \A x \in 1 .. N : next.cells[x] \in 1 .. N
  BY <1>2, <1>4, <1>6 DEF Moved
<1>9. \A s \in 1 .. fSegment : next.seg[s] = seg[s]
  <2>1. \A s \in 1 .. fSegment : s # i /\ s \in 1 .. N /\ st.seg[s] = seg[s]
    BY <1>1, <1>2 DEF Packing, Entries
  <2> QED
    BY <1>5, <2>1
<1>10. \A s \in fSegment + 1 .. N : \E t \in fSegment + 1 .. N : next.seg[s] = seg[t]
  <2>1. \A s \in fSegment + 1 .. N : \E t \in fSegment + 1 .. N : st.seg[s] = seg[t]
    BY DEF Packing, Entries, N
  <2>2. last \in fSegment + 1 .. N /\ \A s \in fSegment + 1 .. N : s \in 1 .. N
    BY <1>1, <1>2
  <2>3. \A s \in fSegment + 1 .. N : next.seg[s] = st.seg[last] \/ next.seg[s] = st.seg[s]
    BY <1>5, <2>2
  <2>4. ASSUME NEW s \in fSegment + 1 .. N PROVE \E t \in fSegment + 1 .. N : next.seg[s] = seg[t]
    <3>1. PICK r \in fSegment + 1 .. N : next.seg[s] = st.seg[r]
      BY <2>2, <2>3
    <3> QED
      BY <2>1, <3>1
  <2> QED
    BY <2>4
<1>11. \A s, t \in fSegment + 1 .. last - 1 :
         next.seg[s].ascii = next.seg[t].ascii /\ next.seg[s].ascii # -1 => s = t
  <2>1. \A s, t \in fSegment + 1 .. last :
          st.seg[s].ascii = st.seg[t].ascii /\ st.seg[s].ascii # -1 => s = t
    BY DEF Packing, Entries, last
  <2>2. \A s \in fSegment + 1 .. last - 1 : s \in fSegment + 1 .. last /\ s \in 1 .. N /\ s # last
    BY <1>1, <1>2
  <2>3. last \in fSegment + 1 .. last
    BY <1>1, <1>2
  <2>4. ASSUME NEW s \in fSegment + 1 .. last - 1
        PROVE  next.seg[s] = IF s = i THEN st.seg[last] ELSE st.seg[s]
    BY <1>5, <2>2
  <2>5. ASSUME NEW s \in fSegment + 1 .. last - 1, NEW t \in fSegment + 1 .. last - 1,
               next.seg[s].ascii = next.seg[t].ascii, next.seg[s].ascii # -1
        PROVE  s = t
    <3>1. CASE s = i
      BY <2>1, <2>2, <2>3, <2>4, <2>5, <3>1
    <3>2. CASE s # i
      BY <2>1, <2>2, <2>3, <2>4, <2>5, <3>2
    <3> QED
      BY <3>1, <3>2
  <2> QED
    BY <2>5
<1>12. Packing(next, seg)
  <2>1. last - 1 \in 0 .. N /\ last - 1 >= fSegment
    BY <1>1, <1>2
  <2>2. next.pass1 \in BOOLEAN /\ next.failed \in BOOLEAN /\ next.selfMerged \in BOOLEAN
    BY <1>4 DEF Packing
  <2>3. Entries(next.seg, next.nSegment, seg)
    BY <1>4, <1>5, <1>9, <1>10, <1>11, Zenon DEF Entries, N
  <2>4. Tables(next.cells, next.diagonal, seg)
    BY <1>7, <1>8, Zenon DEF Tables, N
  <2> QED
    BY <1>2, <1>4, <2>1, <2>2, <2>3, <2>4 DEF Packing, N
<1>13. ASSUME ~ st.selfMerged, i # j
       PROVE  \A x \in 1 .. N : /\ next.cells[x] \in 1 .. last - 1
                                /\ st.cells[x] \in 1 .. last
                                /\ next.seg[next.cells[x]] = st.seg[Moved(st.cells[x])]
  <2> SUFFICES ASSUME NEW x \in 1 .. N
               PROVE  /\ next.cells[x] \in 1 .. last - 1
                      /\ st.cells[x] \in 1 .. last
                      /\ next.seg[next.cells[x]] = st.seg[Moved(st.cells[x])]
    OBVIOUS
  <2>1. st.cells[x] \in 1 .. last
    BY <1>2, <1>13 DEF Keeping, N, last
  <2>2. next.cells[x] = IF Moved(st.cells[x]) = last THEN i ELSE Moved(st.cells[x])
    BY <1>4, <1>6
  <2>3. Moved(st.cells[x]) \in 1 .. last /\ Moved(st.cells[x]) # i
    BY <1>2, <1>13, <2>1 DEF Moved
  <2>4. next.cells[x] \in 1 .. last - 1 /\ next.cells[x] \in 1 .. N
    BY <1>1, <1>2, <2>2, <2>3
  <2>5. next.seg[next.cells[x]] = st.seg[Moved(st.cells[x])]
    BY <1>2, <1>5, <2>2, <2>3, <2>4
  <2> QED
    BY <2>1, <2>4, <2>5
<1>14. Keeping(next, seg)
  <2> SUFFICES ASSUME ~ next.selfMerged PROVE Keeping(next, seg)
    BY DEF Keeping
  <2>1. ~ st.selfMerged /\ i # j
    BY <1>4
  <2>2. ASSUME NEW res \in {XRES, YRES}, \A s \in fSegment + 1 .. N : Resolution(seg[s].dirs) = res,
               NEW x \in 1 .. N
        PROVE  SameEnds(seg[x], next.seg[next.cells[x]], res)
    <3>1. SameEnds(seg[x], st.seg[st.cells[x]], res)
      BY <1>2, <2>1, <2>2 DEF Keeping, N
    <3>2. SameEnds(st.seg[st.cells[x]], st.seg[Moved(st.cells[x])], res)
      <4>1. CASE st.cells[x] = i
        <5>1. Resolution(st.seg[i].dirs) = res
          <6>1. i \in fSegment + 1 .. N
            BY <1>1, <1>2
          <6>2. \E t \in fSegment + 1 .. N : st.seg[i] = seg[t]
            BY <6>1 DEF Packing, Entries, N
          <6> QED
            BY <2>2, <6>2
        <5>2. st.seg[i] \in SegmentSet /\ st.seg[j] \in SegmentSet
          BY <1>2, <1>3, ElementOfSeq
        <5>3. SameEnds(st.seg[i], st.seg[j], res)
          BY <2>1, <5>1, <5>2, ReplaceableKeepsEnds
        <5> QED
          BY <4>1, <5>3 DEF Moved
      <4>2. CASE st.cells[x] # i
        BY <4>2 DEF Moved, SameEnds
      <4> QED
        BY <4>1, <4>2
    <3>3. next.seg[next.cells[x]] = st.seg[Moved(st.cells[x])]
      BY <1>13, <2>1
    <3> QED
      BY <3>1, <3>2, <3>3, SameEndsChain
  <2>3. \A x \in 1 .. N : next.cells[x] \in 1 .. next.nSegment
    BY <1>4, <1>13, <2>1
  <2> QED
    BY <2>2, <2>3 DEF Keeping, N
<1> QED
  BY <1>4, <1>12, <1>14 DEF last

\* A turn drops a segment, ends the first pass or gives up.
Steps(st) == st.nSegment + (IF st.pass1 THEN 1 ELSE 0)

\* One turn of pack_segments: a segment is merged, or the first pass ends, or it gives up.
LEMMA CompactKeeps ==
  ASSUME NEW seg, Made(seg), NEW st, Packing(st, seg), Keeping(st, seg),
         NEW next, next = Compact(st)
  PROVE  /\ Packing(next, seg) /\ Keeping(next, seg)
         /\ ~ Running(st) => next = st
         /\ Running(st) /\ Running(next) => Steps(next) = Steps(st) - 1
<1>0. Len(seg) \in Nat /\ fSegment \in Nat /\ Room \in Nat /\ st.nSegment \in Nat /\ st.nSegment <= Len(seg)
      /\ IsPacking(st) /\ st.failed \in BOOLEAN
  <2>1. seg \in Seq(SegmentSet)
    BY DEF Made
  <2> QED
    BY <2>1, LenProperties, FixedAre, BarSegmentsAssumption DEF Room, Packing
<1>1. CASE ~ Running(st)
  <2>1. next = st
    BY <1>0, <1>1 DEF Running, Compact
  <2> QED
    BY <1>1, <2>1
<1>2. CASE Running(st)
  <2> DEFINE pairs == Pairs(st)
  <2>0. ~ (st.failed \/ st.nSegment <= fSegment + Room)
    BY <1>0, <1>2 DEF Running
  <2>1. CASE pairs # {}
    <3> DEFINE p == Best(st, pairs)
    <3>1. pairs \subseteq (fSegment + 1 .. st.nSegment) \X (1 .. st.nSegment)
          /\ \A q \in pairs : Error(st, q[1], q[2]) < Limit
      BY DEF Pairs
    <3>2. \A q \in pairs : q[1] \in 1 .. Len(seg) /\ q[2] \in 1 .. Len(seg)
      BY <1>0, <3>1
    <3>3. pairs \subseteq Nat \X Nat
      BY <1>0, <3>1
    <3> HIDE DEF pairs
    <3>4. \A q \in pairs : Error(st, q[1], q[2]) \in Nat
      BY <1>0, <3>2, ErrorIs
    <3>5. p \in pairs
      BY <2>1, <3>3, <3>4, BestIs
    <3> HIDE DEF p
    <3>6. /\ p[1] \in fSegment + 1 .. st.nSegment /\ p[2] \in 1 .. st.nSegment
          /\ Error(st, p[1], p[2]) < Limit
      BY <3>1, <3>5
    <3>7. p[1] # p[2] => Replaceable(st.seg[p[1]], st.seg[p[2]])
      BY <1>0, <3>2, <3>5, <3>6, ErrorIs
    <3>8. next = Merge(st, p[1], p[2])
      BY <2>0, <2>1 DEF Compact, pairs, p
    <3>9. /\ Packing(next, seg) /\ Keeping(next, seg)
          /\ next.nSegment = st.nSegment - 1 /\ next.pass1 = st.pass1
      BY <1>2, <3>6, <3>7, <3>8, MergeKeeps
    <3>10. Steps(next) = Steps(st) - 1
      BY <1>0, <3>9 DEF Steps
    <3> QED
      BY <1>2, <3>9, <3>10
  <2>2. CASE pairs = {} /\ st.pass1
    <3>1. next = [st EXCEPT !.pass1 = FALSE]
      BY <2>0, <2>2 DEF Compact
    <3>2. /\ next.seg = st.seg /\ next.nSegment = st.nSegment /\ next.cells = st.cells
          /\ next.diagonal = st.diagonal /\ next.pass1 = FALSE /\ next.failed = st.failed
          /\ next.selfMerged = st.selfMerged /\ IsPacking(next)
      BY <1>0, <3>1 DEF IsPacking
    <3>3. Packing(next, seg)
      BY <3>2 DEF Packing
    <3>4. Keeping(next, seg)
      BY <3>2, Zenon DEF Keeping
    <3>5. Steps(next) = Steps(st) - 1
      BY <1>0, <2>2, <3>2 DEF Steps
    <3> QED
      BY <1>2, <3>3, <3>4, <3>5
  <2>3. CASE pairs = {} /\ ~ st.pass1
    <3>1. next = [st EXCEPT !.nSegment = Room, !.failed = TRUE]
      BY <2>0, <2>3 DEF Compact, GiveUp
    <3>2. /\ next.seg = st.seg /\ next.nSegment = Room /\ next.cells = st.cells
          /\ next.diagonal = st.diagonal /\ next.pass1 = st.pass1 /\ next.failed = TRUE
          /\ next.selfMerged = st.selfMerged /\ IsPacking(next)
      BY <1>0, <3>1 DEF IsPacking
    <3>3. Room \in 0 .. Len(seg) /\ Room < st.nSegment
      BY <1>0, <1>2 DEF Running
    <3>4. \A s, t \in fSegment + 1 .. Room :
            st.seg[s].ascii = st.seg[t].ascii /\ st.seg[s].ascii # -1 => s = t
      <4>1. \A s \in fSegment + 1 .. Room : s \in fSegment + 1 .. st.nSegment
        BY <1>0, <3>3
      <4> QED
        BY <4>1 DEF Packing, Entries
    <3>5. Packing(next, seg)
      <4>1. Entries(next.seg, next.nSegment, seg)
        <5>1. Entries(st.seg, st.nSegment, seg)
          BY DEF Packing
        <5>2. Entries(st.seg, Room, seg)
          BY <5>1, <3>4, Zenon DEF Entries
        <5> QED
          BY <5>2, <3>2
      <4>2. Tables(next.cells, next.diagonal, seg)
        BY <3>2, Zenon DEF Packing
      <4> QED
        BY <3>2, <3>3, <4>1, <4>2 DEF Packing
    <3>6. Keeping(next, seg) /\ ~ Running(next)
      BY <3>2 DEF Keeping, Running
    <3> QED
      BY <1>2, <3>5, <3>6
  <2> QED
    BY <2>1, <2>2, <2>3
<1> QED
  BY <1>1, <1>2

\* What pack_segments leaves has room in the display, or it has failed.
LEMMA PackedAre ==
  ASSUME NEW seg, Made(seg), NEW packed, packed = pack_segments(seg)
  PROVE  Packing(packed, seg) /\ Keeping(packed, seg) /\ ~ Running(packed)
<1>0. Len(seg) \in Nat /\ fSegment \in Nat /\ Turns(seg) \in Nat
  <2>1. seg \in Seq(SegmentSet)
    BY DEF Made
  <2> QED
    BY <2>1, LenProperties, FixedAre DEF Turns
<1>1. PICK st : st = Packed(seg)
  OBVIOUS
<1>2. st[0] = Unpacked(seg) /\ \A n \in 1 .. Turns(seg) : st[n] = Compact(st[n - 1])
  <2>1. PackedBy(st, seg)
    BY <1>0, <1>1, PackedIs
  <2> QED
    BY <2>1 DEF PackedBy
<1> DEFINE P(n) == /\ Packing(st[n], seg) /\ Keeping(st[n], seg)
                   /\ Running(st[n]) => Steps(st[n]) + n <= Len(seg) + 1
           T == {n \in 0 .. Turns(seg) : P(n)}
<1>3. 0 \in T
  <2>1. Packing(st[0], seg) /\ Keeping(st[0], seg)
    BY <1>2, UnpackedIs
  <2>2. st[0].nSegment = Len(seg) /\ st[0].pass1 = TRUE
    BY <1>2 DEF Unpacked
  <2>3. Steps(st[0]) + 0 <= Len(seg) + 1
    BY <1>0, <2>2 DEF Steps
  <2>4. P(0)
    BY <2>1, <2>3
  <2> HIDE DEF P
  <2> QED
    BY <1>0, <2>4
<1>4. ASSUME NEW n \in 0 .. Turns(seg) - 1, n \in T PROVE n + 1 \in T
  <2>1. n + 1 \in 1 .. Turns(seg) /\ (n + 1) - 1 = n /\ n \in Nat
    BY <1>0
  <2>2. st[n + 1] = Compact(st[n]) /\ P(n)
    BY <1>2, <1>4, <2>1
  <2>3. /\ Packing(st[n + 1], seg) /\ Keeping(st[n + 1], seg)
        /\ ~ Running(st[n]) => st[n + 1] = st[n]
        /\ Running(st[n]) /\ Running(st[n + 1]) => Steps(st[n + 1]) = Steps(st[n]) - 1
    BY <2>2, CompactKeeps
  <2>4. Steps(st[n]) \in Nat
    <3>1. st[n].nSegment \in Nat
      BY <1>0, <2>2 DEF Packing
    <3> QED
      BY <3>1 DEF Steps
  <2>5. Running(st[n + 1]) => Steps(st[n + 1]) + (n + 1) <= Len(seg) + 1
    <3> SUFFICES ASSUME Running(st[n + 1]) PROVE Steps(st[n + 1]) + (n + 1) <= Len(seg) + 1
      OBVIOUS
    <3>1. Running(st[n])
      BY <2>3
    <3>2. Steps(st[n]) + n <= Len(seg) + 1 /\ Steps(st[n + 1]) = Steps(st[n]) - 1
      BY <2>2, <2>3, <3>1
    <3> QED
      BY <1>0, <2>1, <2>4, <3>2
  <2>6. P(n + 1)
    BY <2>3, <2>5
  <2> HIDE DEF P
  <2> QED
    BY <1>0, <2>1, <2>6
<1>5. P(Turns(seg))
  <2> HIDE DEF T
  <2>1. \A n \in 0 .. Turns(seg) - 1 : n \in T => n + 1 \in T
    BY <1>4
  <2>2. \A n \in 0 .. Turns(seg) : n \in T
    BY <1>0, <1>3, <2>1, Induction
  <2>3. Turns(seg) \in T
    BY <1>0, <2>2
  <2> QED
    BY <2>3 DEF T
<1>6. packed = st[Turns(seg)]
  BY <1>1 DEF pack_segments
<1>7. Steps(packed) \in Nat
  <2>1. packed.nSegment \in Nat
    BY <1>0, <1>5, <1>6 DEF Packing
  <2> QED
    BY <2>1 DEF Steps
<1>8. ~ Running(packed)
  BY <1>0, <1>5, <1>6, <1>7 DEF Turns
<1> QED
  BY <1>5, <1>6, <1>8

-----------------------------------------------------------------------------
(* drv_generic_text_bar_define_chars *)

\* The function that define_chars takes the last value of.
IsTaken(f, seg, n, N) ==
  f = [i \in 0 .. N |-> IF i <= fSegment THEN seg ELSE TakeChar(f[i - 1], n, i)]

\* sg are the segments during the loop of define_chars.
TakenBy(sg, seg, n) ==
  \A i \in 0 .. n : sg[i] = IF i <= fSegment THEN seg ELSE TakeChar(sg[i - 1], n, i)

\* The recursion over the segments is one.
LEMMA TakenIs ==
  ASSUME NEW seg, NEW n \in Nat
  PROVE  TakenBy(Taken(seg, n), seg, n)
<1>0. SUFFICES ASSUME NEW sg, sg = Taken(seg, n) PROVE TakenBy(sg, seg, n)
  OBVIOUS
<1> DEFINE T == {m \in Nat : \E f : IsTaken(f, seg, n, m)}
<1>1. 0 \in T
  <2> DEFINE f == [i \in 0 .. 0 |-> seg]
  <2>1. f = [i \in 0 .. 0 |-> IF i <= fSegment THEN seg ELSE TakeChar(f[i - 1], n, i)]
    <3>1. \A i \in 0 .. 0 : i <= fSegment
      BY FixedAre
    <3> QED
      BY <3>1
  <2>2. IsTaken(f, seg, n, 0)
    BY <2>1 DEF IsTaken
  <2> QED
    BY <2>2
<1>2. ASSUME NEW m \in Nat, m \in T PROVE m + 1 \in T
  <2>1. PICK f : IsTaken(f, seg, n, m)
    BY <1>2
  <2> DEFINE x == IF m + 1 <= fSegment THEN seg ELSE TakeChar(f[m], n, m + 1)
             g == [k \in 0 .. m + 1 |-> IF k = m + 1 THEN x ELSE f[k]]
  <2>2. \A k \in 0 .. m : f[k] = IF k <= fSegment THEN seg ELSE TakeChar(f[k - 1], n, k)
    BY <2>1, Zenon DEF IsTaken
  <2>3. ASSUME NEW k \in 0 .. m + 1
        PROVE  g[k] = IF k <= fSegment THEN seg ELSE TakeChar(g[k - 1], n, k)
    <3>1. CASE k = m + 1
      <4>1. fSegment \in Nat
        BY FixedAre
      <4>2. g[k] = x /\ (~ k <= fSegment => g[k - 1] = f[m])
        BY <3>1, <4>1
      <4> QED
        BY <3>1, <4>2
    <3>2. CASE k # m + 1
      <4>0. fSegment \in Nat
        BY FixedAre
      <4>1. k \in 0 .. m /\ (~ k <= fSegment => k - 1 \in 0 .. m + 1 /\ k - 1 # m + 1)
        BY <3>2, <4>0
      <4>2. g[k] = f[k] /\ (~ k <= fSegment => g[k - 1] = f[k - 1])
        BY <3>2, <4>1
      <4> QED
        BY <4>1, <4>2, <2>2
    <3> QED
      BY <3>1, <3>2
  <2>4. g = [k \in 0 .. m + 1 |-> g[k]]
    OBVIOUS
  <2> HIDE DEF g
  <2>5. g = [k \in 0 .. m + 1 |-> IF k <= fSegment THEN seg ELSE TakeChar(g[k - 1], n, k)]
    BY <2>3, <2>4, Zenon
  <2>6. IsTaken(g, seg, n, m + 1)
    BY <2>5 DEF IsTaken
  <2> QED
    BY <2>6
<1>4. n \in T
  <2> HIDE DEF T
  <2>1. \A m \in 0 .. n : m \in T
    <3>1. \A m \in 0 .. n - 1 : m \in T => m + 1 \in T
      BY <1>2
    <3> QED
      BY <1>1, <3>1, Induction
  <2> QED
    BY <2>1
<1>5. \E f : IsTaken(f, seg, n, n)
  BY <1>4
<1>6. sg = CHOOSE f : IsTaken(f, seg, n, n)
  BY <1>0 DEF Taken, IsTaken
<1>7. IsTaken(sg, seg, n, n)
  BY <1>5, <1>6
<1> QED
  BY <1>7, Zenon DEF IsTaken, TakenBy

-----------------------------------------------------------------------------
\* Segment s is t with a character of its own.
SameSegment(s, t) ==
  /\ s.val1 = t.val1 /\ s.val2 = t.val2 /\ s.dirs = t.dirs /\ s.style = t.style
  /\ s.used = t.used

\* The first n segments before define_chars.
ToDefine(seg, n) ==
  /\ seg \in Seq(SegmentSet) /\ Len(seg) \in Nat /\ n \in 0 .. Len(seg) /\ n <= fSegment + Room
  /\ \A s \in fSegment + 1 .. Len(seg) :
       seg[s].ascii \in 0 .. Room - 1 \/ (seg[s].ascii = -1 /\ ~ seg[s].used)
  /\ \A s, t \in fSegment + 1 .. n : seg[s].ascii = seg[t].ascii /\ seg[s].ascii # -1 => s = t

\* After segment i.
Defining(sg, seg, n, i) ==
  /\ sg \in Seq(SegmentSet) /\ Len(sg) = Len(seg)
  /\ \A s \in 1 .. Len(seg) : SameSegment(sg[s], seg[s])
  /\ \A s \in 1 .. Len(seg) : s \notin fSegment + 1 .. i \/ seg[s].ascii # -1 => sg[s] = seg[s]
  /\ \A s \in fSegment + 1 .. i : sg[s].ascii \in 0 .. Room - 1
  /\ \A s, t \in fSegment + 1 .. n : sg[s].ascii = sg[t].ascii /\ sg[s].ascii # -1 => s = t

\* A character is free for segment i while it has none.
LEMMA RoomForOne ==
  ASSUME NEW seg, NEW n \in Nat, n <= fSegment + Room, NEW i \in fSegment + 1 .. n,
         seg[i].ascii = -1
  PROVE  (0 .. Room - 1) \ {seg[j].ascii : j \in fSegment + 1 .. n} # {}
<1> SUFFICES ASSUME (0 .. Room - 1) \subseteq {seg[j].ascii : j \in fSegment + 1 .. n}
             PROVE  FALSE
  OBVIOUS
<1> DEFINE S == 0 .. Room - 1
           T == (fSegment + 1 .. n) \ {i}
           f == [c \in S |-> CHOOSE j \in fSegment + 1 .. n : seg[j].ascii = c]
<1>1. fSegment \in Nat /\ Room \in Nat
  BY FixedAre, BarSegmentsAssumption DEF Room
<1>2. \A c \in S : f[c] \in fSegment + 1 .. n /\ seg[f[c]].ascii = c
  OBVIOUS
<1>3. f \in [S -> T]
  <2>1. \A c \in S : f[c] \in T
    BY <1>1, <1>2
  <2> QED
    BY <2>1
<1>4. IsFiniteSet(S) /\ Cardinality(S) = Room
  <2>1. Room - 1 \in Int
    BY <1>1
  <2> QED
    BY <1>1, <2>1, FS_Interval
<1>5. IsFiniteSet(T) /\ Cardinality(T) = n - fSegment - 1
  <2>1. fSegment + 1 \in Int /\ n \in Int /\ ~ (fSegment + 1 > n)
    BY <1>1
  <2>2. IsFiniteSet(fSegment + 1 .. n) /\ Cardinality(fSegment + 1 .. n) = n - (fSegment + 1) + 1
    BY <2>1, FS_Interval
  <2>3. IsFiniteSet(T) /\ Cardinality(T) = Cardinality(fSegment + 1 .. n) - 1
    BY <2>2, FS_RemoveElement
  <2> HIDE DEF T
  <2> QED
    BY <1>1, <2>2, <2>3
<1>6. Cardinality(T) < Cardinality(S)
  <2> HIDE DEF S, T
  <2> QED
    BY <1>1, <1>4, <1>5
<1> HIDE DEF S, T, f
<1>7. \E x, y \in S : x # y /\ f[x] = f[y]
  BY <1>3, <1>4, <1>5, <1>6, FS_PigeonHole
<1> QED
  BY <1>2, <1>7

\* define_chars for one segment: it keeps its character or takes one that no other has.
LEMMA TakeCharKeeps ==
  ASSUME NEW seg, NEW n, ToDefine(seg, n), NEW i \in fSegment + 1 .. n, NEW sg, Defining(sg, seg, n, i - 1),
         NEW next, next = TakeChar(sg, n, i)
  PROVE  Defining(next, seg, n, i)
<1>1. /\ fSegment \in Nat /\ Room \in Nat /\ n \in Nat /\ n <= Len(seg) /\ Len(seg) \in Nat
      /\ i \in 1 .. Len(seg) /\ i \in Nat
  BY FixedAre, BarSegmentsAssumption DEF Room, ToDefine
<1>2. sg \in Seq(SegmentSet) /\ Len(sg) = Len(seg) /\ sg[i] = seg[i]
  <2>1. i \notin fSegment + 1 .. i - 1
    BY <1>1
  <2> QED
    BY <1>1, <2>1 DEF Defining
<1>3. fSegment + 1 .. i = (fSegment + 1 .. i - 1) \union {i} /\ i \in fSegment + 1 .. Len(seg)
      /\ i \notin fSegment + 1 .. i - 1
  BY <1>1
<1>4. CASE sg[i].used \/ sg[i].ascii # -1
  <2>1. next = sg
    BY <1>4 DEF TakeChar
  <2>2. sg[i].ascii \in 0 .. Room - 1
    BY <1>2, <1>3, <1>4 DEF ToDefine
  <2>3. \A s \in fSegment + 1 .. i : next[s].ascii \in 0 .. Room - 1
    BY <1>3, <2>1, <2>2 DEF Defining
  <2>4. \A s \in 1 .. Len(seg) : s \notin fSegment + 1 .. i \/ seg[s].ascii # -1 => next[s] = seg[s]
    BY <1>3, <2>1 DEF Defining
  <2> QED
    BY <2>1, <2>3, <2>4, Zenon DEF Defining
<1>5. CASE ~ (sg[i].used \/ sg[i].ascii # -1)
  <2> DEFINE taken == {sg[j].ascii : j \in fSegment + 1 .. n}
             free == (0 .. Room - 1) \ taken
             c == IF free = {} THEN Room ELSE Min(free)
             e == [sg[i] EXCEPT !.ascii = c]
  <2>1. free # {}
    BY <1>1, <1>5, RoomForOne DEF ToDefine
  <2>2. free \subseteq Nat
    BY <1>1
  <2>3. c \in free
    <3>1. \E m \in free : \A k \in free : m <= k
      <4> HIDE DEF free
      <4> QED
        BY <2>1, <2>2, SmallestNat
    <3> HIDE DEF free
    <3> QED
      BY <2>1, <3>1 DEF Min
  <2>4. c \in 0 .. Room - 1 /\ c \in Int /\ \A j \in fSegment + 1 .. n : sg[j].ascii # c
    <3> HIDE DEF c
    <3> QED
      BY <2>3
  <2>5. next = [sg EXCEPT ![i] = e]
    BY <1>5 DEF TakeChar
  <2> HIDE DEF c
  <2>6. sg[i] \in SegmentSet
    BY <1>1, <1>2, ElementOfSeq
  <2>7. e \in SegmentSet /\ SameSegment(e, sg[i]) /\ e.ascii = c
    BY <2>4, <2>6 DEF SegmentSet, SameSegment
  <2> HIDE DEF e
  <2>8. /\ next \in Seq(SegmentSet) /\ Len(next) = Len(seg)
        /\ \A s \in 1 .. Len(seg) : next[s] = IF s = i THEN e ELSE sg[s]
    <3>1. i \in 1 .. Len(sg)
      BY <1>1, <1>2
    <3>2. /\ [sg EXCEPT ![i] = e] \in Seq(SegmentSet) /\ Len([sg EXCEPT ![i] = e]) = Len(sg)
          /\ \A s \in 1 .. Len(sg) : [sg EXCEPT ![i] = e][s] = IF s = i THEN e ELSE sg[s]
      BY <1>2, <2>7, <3>1, ExceptSeq
    <3> QED
      BY <1>2, <2>5, <3>2, Zenon
  <2>9. \A s \in 1 .. Len(seg) : SameSegment(next[s], seg[s])
    <3>1. \A s \in 1 .. Len(seg) : SameSegment(sg[s], seg[s])
      BY DEF Defining
    <3> QED
      BY <1>2, <2>7, <2>8, <3>1
  <2>10. \A s \in 1 .. Len(seg) : s \notin fSegment + 1 .. i \/ seg[s].ascii # -1 => next[s] = seg[s]
    <3> SUFFICES ASSUME NEW s \in 1 .. Len(seg), s \notin fSegment + 1 .. i \/ seg[s].ascii # -1
                 PROVE  next[s] = seg[s]
      OBVIOUS
    <3>1. s # i
      BY <1>2, <1>3, <1>5
    <3>2. sg[s] = seg[s]
      BY <1>3 DEF Defining
    <3> QED
      BY <2>8, <3>1, <3>2
  <2>11. \A s \in fSegment + 1 .. n : s \in 1 .. Len(seg)
    BY <1>1
  <2>12. \A s \in fSegment + 1 .. i : next[s].ascii \in 0 .. Room - 1
    <3> SUFFICES ASSUME NEW s \in fSegment + 1 .. i PROVE next[s].ascii \in 0 .. Room - 1
      OBVIOUS
    <3>1. s \in 1 .. Len(seg)
      BY <1>1
    <3>2. CASE s = i
      BY <2>4, <2>7, <2>8, <3>1, <3>2
    <3>3. CASE s # i
      <4>1. sg[s].ascii \in 0 .. Room - 1
        BY <1>3, <3>3 DEF Defining
      <4> QED
        BY <2>8, <3>1, <3>3, <4>1
    <3> QED
      BY <3>2, <3>3
  <2>13. \A s, t \in fSegment + 1 .. n : next[s].ascii = next[t].ascii /\ next[s].ascii # -1 => s = t
    <3>1. \A s, t \in fSegment + 1 .. n : sg[s].ascii = sg[t].ascii /\ sg[s].ascii # -1 => s = t
      BY DEF Defining
    <3> QED
      BY <2>4, <2>7, <2>8, <2>11, <3>1
  <2> QED
    BY <2>8, <2>9, <2>10, <2>12, <2>13, Zenon DEF Defining
<1> QED
  BY <1>4, <1>5

\* Each of the first n segments has a character of its own.
LEMMA DefinedAre ==
  ASSUME NEW seg, NEW n, ToDefine(seg, n), NEW sg, sg = define_chars(seg, n)
  PROVE  Defining(sg, seg, n, n)
<1>1. n \in Nat /\ fSegment \in Nat
  BY FixedAre DEF ToDefine
<1>2. PICK f : f = Taken(seg, n)
  OBVIOUS
<1>3. \A i \in 0 .. n : f[i] = IF i <= fSegment THEN seg ELSE TakeChar(f[i - 1], n, i)
  <2>1. TakenBy(f, seg, n)
    BY <1>1, <1>2, TakenIs
  <2> QED
    BY <2>1, Zenon DEF TakenBy
<1>4. ASSUME NEW i \in 0 .. n, i <= fSegment PROVE Defining(seg, seg, n, i)
  <2>1. fSegment + 1 .. i = {}
    BY <1>1, <1>4
  <2>2. \A s \in 1 .. Len(seg) : SameSegment(seg[s], seg[s])
    BY DEF SameSegment
  <2> QED
    BY <2>1, <2>2 DEF Defining, ToDefine
<1> DEFINE P(i) == Defining(f[i], seg, n, i)
           T == {i \in 0 .. n : P(i)}
<1>5. P(0)
  <2>1. 0 \in 0 .. n /\ 0 <= fSegment
    BY <1>1
  <2> QED
    BY <1>3, <1>4, <2>1
<1>6. ASSUME NEW i \in 0 .. n - 1, P(i) PROVE P(i + 1)
  <2>1. i + 1 \in 0 .. n /\ (i + 1) - 1 = i
    BY <1>1
  <2>2. CASE i + 1 <= fSegment
    BY <1>3, <1>4, <2>1, <2>2
  <2>3. CASE ~ (i + 1 <= fSegment)
    <3>1. i + 1 \in fSegment + 1 .. n
      BY <1>1, <2>1, <2>3
    <3>2. f[i + 1] = TakeChar(f[i], n, i + 1)
      BY <1>3, <2>1, <2>3
    <3>3. Defining(f[i], seg, n, (i + 1) - 1)
      BY <1>6, <2>1
    <3> QED
      BY <3>1, <3>2, <3>3, TakeCharKeeps
  <2> QED
    BY <2>2, <2>3
<1> HIDE DEF P
<1>7. 0 \in T /\ \A i \in 0 .. n - 1 : i \in T => i + 1 \in T
  BY <1>1, <1>5, <1>6
<1>8. P(n)
  <2> HIDE DEF T
  <2>1. \A i \in 0 .. n : i \in T
    BY <1>1, <1>7, Induction
  <2>2. n \in T
    BY <1>1, <2>1
  <2> QED
    BY <2>2 DEF T
<1> QED
  BY <1>2, <1>8 DEF P, define_chars

-----------------------------------------------------------------------------
(* drv_generic_text_bar_create_bar *)

\* The part of a length that falls on a cell ends within it.
LEMMA CellLengthIs ==
  ASSUME NEW dir \in Directions, NEW length \in Nat, NEW len \in Nat, NEW k \in Nat
  PROVE  CellLength(dir, length, len, k) \in Int /\ CellLength(dir, length, len, k) <= Resolution({dir})
<1> DEFINE res == Resolution({dir})
           l == len * res - length
<1>1. res \in Nat
  BY ResolutionIs
<1> HIDE DEF res
<1>2. \A x \in Int : Part(x, k, res) \in 0 .. res
  <2> SUFFICES ASSUME NEW x \in Int PROVE Part(x, k, res) \in 0 .. res
    OBVIOUS
  <2> DEFINE rest == x - k * res
  <2>1. rest \in Int
    BY <1>1
  <2>2. Part(x, k, res) = IF rest < 0 THEN 0 ELSE Lesser(rest, res)
    BY DEF Part
  <2> HIDE DEF rest
  <2> QED
    BY <1>1, <2>1, <2>2 DEF Lesser
<1>3. l \in Int
  BY <1>1
<1> HIDE DEF l
<1>4. Part(l, k, res) \in 0 .. res /\ Part(length, k, res) \in 0 .. res
  BY <1>2, <1>3
<1>5. CellLength(dir, length, len, k) = IF dir \in {WEST, NORTH} THEN res - Part(l, k, res)
                                        ELSE Part(length, k, res)
  BY DEF CellLength, res, l
<1> QED
  BY <1>1, <1>4, <1>5 DEF res

\* create_bar changes the cells of the bar, and nothing else.
LEMMA CreateBarIs ==
  ASSUME NEW bar, \A p \in DOMAIN bar : FitCell(bar[p]),
         NEW b, b.dir \in Directions, b.len \in Nat, b.style \in Nat,
         NEW val1 \in Nat, NEW val2 \in Nat,
         NEW next, next = create_bar(bar, b, val1, val2)
  PROVE  /\ DOMAIN next = DOMAIN bar
         /\ \A p \in DOMAIN bar : FitCell(next[p])
         /\ \A p \in DOMAIN bar : p \notin BarCells(b) => next[p] = bar[p]
         /\ \A p \in DOMAIN bar : p \in BarCells(b) => next[p].dir = b.dir /\ next[p].segment = 0
<1>1. DOMAIN next = DOMAIN bar
  BY DEF create_bar
<1>2. ASSUME NEW p \in DOMAIN bar, p \notin BarCells(b) PROVE next[p] = bar[p]
  BY <1>2 DEF create_bar
<1>3. ASSUME NEW p \in DOMAIN bar, p \in BarCells(b)
      PROVE  FitCell(next[p]) /\ next[p].dir = b.dir /\ next[p].segment = 0
  <2> DEFINE k == CHOOSE i \in 0 .. b.len - 1 : BarCell(b, i) = p
             v1 == CellLength(b.dir, val1, b.len, k)
             v2 == CellLength(b.dir, val2, b.len, k)
             st == CellStyle(b, k, bar[p].style)
  <2>1. next[p] = [val1 |-> v1, val2 |-> v2, dir |-> b.dir, style |-> st, segment |-> 0]
    BY <1>3 DEF create_bar
  <2>2. k \in 0 .. b.len - 1
    BY <1>3 DEF BarCells
  <2> HIDE DEF k
  <2>3. /\ v1 \in Int /\ v1 <= Resolution({b.dir})
        /\ v2 \in Int /\ v2 <= Resolution({b.dir})
    BY <2>2, CellLengthIs
  <2>4. st \in Nat
    <3>1. bar[p].style \in Nat
      BY DEF FitCell, CellSet
    <3> QED
      BY <3>1 DEF CellStyle, STYLE_LAST, STYLE_FIRST
  <2> HIDE DEF v1, v2, st
  <2> QED
    BY <2>1, <2>3, <2>4 DEF FitCell, CellSet
<1> QED
  BY <1>1, <1>2, <1>3

-----------------------------------------------------------------------------
(* drv_HD_goto and drv_HD_write *)

\* Sizes of displays that exist: one or two controllers, whose rows do not meet in memory.
RealDisplay ==
  /\ numControllers <= 2 /\ HALF * 2 = WIDE
  /\ \A c \in allControllers :
       /\ Controllers[c].rows \in {1, 2, 4}
       /\ IF HD66712 THEN Controllers[c].cols <= 32 /\ ~ Folded(c)
          ELSE /\ Controllers[c].cols <= LINE
               /\ Controllers[c].rows = 4 => Controllers[c].cols \in {20, WIDE} /\ 2 * Controllers[c].cols <= LINE

\* There are one to four controllers, with a row and a column at least.
LEMMA ControllersAre ==
  /\ allControllers = 1 .. numControllers /\ numControllers \in 1 .. 4
  /\ \A c \in allControllers : Controllers[c].rows \in Nat \ {0} /\ Controllers[c].cols \in Nat \ {0}
<1> DEFINE S == [rows : Nat \ {0}, cols : Nat \ {0}]
<1>1. Controllers \in Seq(S) /\ numControllers \in 1 .. 4
  BY HD44780Assumption
<1>2. \A e \in S : e.rows \in Nat \ {0} /\ e.cols \in Nat \ {0}
  OBVIOUS
<1> HIDE DEF S
<1>3. DOMAIN Controllers = 1 .. Len(Controllers) /\ \A c \in 1 .. Len(Controllers) : Controllers[c] \in S
  BY <1>1, LenProperties, ElementOfSeq
<1> QED
  BY <1>1, <1>2, <1>3 DEF allControllers, numControllers

\* f sums up the rows of the controllers.
IsSum(f, n) == f = [c \in 0 .. n |-> IF c = 0 THEN 0 ELSE f[c - 1] + Controllers[c].rows]

\* The rows of the first controllers.
LEMMA RowsAre ==
  ASSUME numControllers <= 2
  PROVE  /\ Rows(0) = 0 /\ Rows(1) = Controllers[1].rows
         /\ numControllers = 2 => Rows(2) = Controllers[1].rows + Controllers[2].rows
<1> DEFINE r == Controllers[1].rows
           s == Controllers[2].rows
<1>0. \A n : Rows(n) = (CHOOSE f : IsSum(f, n))[n]
  BY DEF Rows, IsSum
<1>1. Rows(0) = 0
  <2> DEFINE f == [c \in 0 .. 0 |-> 0]
  <2>1. IsSum(f, 0)
    BY DEF IsSum
  <2>2. IsSum(CHOOSE g : IsSum(g, 0), 0)
    BY <2>1
  <2>3. (CHOOSE g : IsSum(g, 0))[0] = 0
    BY <2>2 DEF IsSum
  <2> QED
    BY <1>0, <2>3
<1>2. r \in Nat /\ (numControllers = 2 => s \in Nat)
  BY ControllersAre
<1> HIDE DEF r, s
<1>3. Rows(1) = r
  <2> DEFINE f == [c \in 0 .. 1 |-> IF c = 0 THEN 0 ELSE r]
  <2>1. IsSum(f, 1)
    <3>1. \A c \in 0 .. 1 : f[c] = IF c = 0 THEN 0 ELSE f[c - 1] + Controllers[c].rows
      <4> SUFFICES ASSUME NEW c \in 0 .. 1
                   PROVE  f[c] = IF c = 0 THEN 0 ELSE f[c - 1] + Controllers[c].rows
        OBVIOUS
      <4>1. CASE c = 0
        BY <4>1
      <4>2. CASE c = 1
        BY <4>2, <1>2 DEF r
      <4> QED
        BY <4>1, <4>2
    <3>2. f = [c \in 0 .. 1 |-> f[c]]
      OBVIOUS
    <3> HIDE DEF f
    <3> QED
      BY <3>1, <3>2, Zenon DEF IsSum
  <2> HIDE DEF f
  <2>2. PICK g : g = CHOOSE h : IsSum(h, 1)
    OBVIOUS
  <2>3. IsSum(g, 1)
    BY <2>1, <2>2
  <2>4. g[0] = 0 /\ g[1] = g[0] + r
    BY <2>3 DEF IsSum, r
  <2> QED
    BY <1>0, <1>2, <2>2, <2>4
<1>4. ASSUME numControllers = 2 PROVE Rows(2) = r + s
  <2> DEFINE f == [c \in 0 .. 2 |-> IF c = 0 THEN 0 ELSE IF c = 1 THEN r ELSE r + s]
  <2>1. IsSum(f, 2)
    <3>1. \A c \in 0 .. 2 : f[c] = IF c = 0 THEN 0 ELSE f[c - 1] + Controllers[c].rows
      <4> SUFFICES ASSUME NEW c \in 0 .. 2
                   PROVE  f[c] = IF c = 0 THEN 0 ELSE f[c - 1] + Controllers[c].rows
        OBVIOUS
      <4>1. CASE c = 0
        BY <4>1
      <4>2. CASE c = 1
        BY <4>2, <1>2 DEF r
      <4>3. CASE c = 2
        BY <4>3, <1>2, <1>4 DEF s
      <4> QED
        BY <4>1, <4>2, <4>3
    <3>2. f = [c \in 0 .. 2 |-> f[c]]
      OBVIOUS
    <3> HIDE DEF f
    <3> QED
      BY <3>1, <3>2, Zenon DEF IsSum
  <2> HIDE DEF f
  <2>2. PICK g : g = CHOOSE h : IsSum(h, 2)
    OBVIOUS
  <2>3. IsSum(g, 2)
    BY <2>1, <2>2
  <2>4. g[0] = 0 /\ g[1] = g[0] + r /\ g[2] = g[1] + s
    BY <2>3 DEF IsSum, r, s
  <2> QED
    BY <1>0, <1>2, <1>4, <2>2, <2>4
<1> QED
  BY <1>1, <1>3, <1>4 DEF r, s

\* The controller of a row.
OfRow(k, row) == k \in allControllers /\ Rows(k - 1) <= row /\ row < Rows(k)

\* With one or two controllers goto finds the one that has the row.  With more it does not:
\* it takes a row of the third for one of the second.
LEMMA ControllerIs ==
  ASSUME numControllers <= 2, NEW row \in Nat, NEW k, OfRow(k, row)
  PROVE  /\ currController(row) = k /\ (CHOOSE d \in allControllers : row \in Rows(d - 1) .. Rows(d) - 1) = k
         /\ Left(row, k) \in 0 .. Controllers[k].rows - 1
<1>1. /\ k \in {1, 2} /\ k \in allControllers
      /\ Rows(0) = 0 /\ Rows(1) = Controllers[1].rows /\ Controllers[1].rows \in Nat \ {0}
      /\ k = 2 => /\ numControllers = 2 /\ Rows(2) = Controllers[1].rows + Controllers[2].rows
                  /\ Controllers[2].rows \in Nat \ {0}
      /\ 1 \in allControllers
      /\ \A d \in allControllers : d \in {1, 2} /\ (d = 2 => numControllers = 2)
  BY ControllersAre, RowsAre DEF OfRow
<1>2. numControllers = 2 => /\ Rows(2) = Controllers[1].rows + Controllers[2].rows
                            /\ Controllers[2].rows \in Nat \ {0}
  BY ControllersAre, RowsAre
<1>3. Left(row, 1) = row /\ Left(row, 2) = row - Rows(1)
  BY <1>1 DEF Left
<1> DEFINE Is(c) == Left(row, c) < Rows(c) /\ \A d \in 1 .. c - 1 : Left(row, d) >= Rows(d)
<1>4. \A c \in allControllers : Is(c) <=> c = k
  <2>1. CASE k = 1
    <3>1. Is(1)
      BY <1>1, <1>3, <2>1 DEF OfRow
    <3>2. ~ Is(2)
      BY <1>1, <1>3, <2>1 DEF OfRow
    <3> HIDE DEF Is
    <3> QED
      BY <1>1, <2>1, <3>1, <3>2, Zenon
  <2>2. CASE k = 2
    <3>1. ~ Is(1)
      BY <1>1, <1>3, <2>2 DEF OfRow
    <3>2. Is(2)
      <4>1. \A d \in 1 .. 2 - 1 : d = 1
        OBVIOUS
      <4> QED
        BY <1>1, <1>2, <1>3, <2>2, <4>1 DEF OfRow
    <3> HIDE DEF Is
    <3> QED
      BY <1>1, <2>2, <3>1, <3>2, Zenon
  <2> QED
    BY <1>1, <2>1, <2>2
<1>5. currController(row) = k
  BY <1>1, <1>4 DEF currController
<1>6. \A d \in allControllers : row \in Rows(d - 1) .. Rows(d) - 1 <=> d = k
  BY <1>1, <1>2 DEF OfRow
<1>7. (CHOOSE d \in allControllers : row \in Rows(d - 1) .. Rows(d) - 1) = k
  BY <1>1, <1>6
<1>8. Left(row, k) \in 0 .. Controllers[k].rows - 1
  BY <1>1, <1>2, <1>3 DEF OfRow
<1> QED
  BY <1>5, <1>7, <1>8

-----------------------------------------------------------------------------
(* Places and writes *)

\* The address of a cell in the memory of its controller.
PlaceOf(k, line, col) ==
  IF HD66712 THEN line * 32 + col
  ELSE IF Folded(k) THEN (col \div HALF) * LINE + (col % HALF)
  ELSE (line % 2) * LINE + (line \div 2) * Controllers[k].cols + col

\* Where a cell is, once its controller is known.
LEMMA PlaceIs ==
  ASSUME numControllers <= 2, NEW row \in Nat, NEW k, OfRow(k, row), NEW col
  PROVE  /\ Place(row, col) = <<k, PlaceOf(k, Left(row, k), col)>>
         /\ OnGlass(row, col) <=> col < Controllers[k].cols
<1> DEFINE c == CHOOSE d \in allControllers : row \in Rows(d - 1) .. Rows(d) - 1
<1>1. c = k
  BY ControllerIs
<1>2. Place(row, col) = <<c, PlaceOf(c, row - Rows(c - 1), col)>>
  BY DEF Place, PlaceOf
<1> HIDE DEF c
<1>3. Place(row, col) = <<k, PlaceOf(k, Left(row, k), col)>>
  BY <1>1, <1>2 DEF Left
<1>4. \A d \in allControllers : row \in Rows(d - 1) .. Rows(d) - 1 => d = k
  <2> SUFFICES ASSUME NEW d \in allControllers, row \in Rows(d - 1) .. Rows(d) - 1 PROVE d = k
    OBVIOUS
  <2>1. Rows(0) = 0 /\ Rows(1) \in Int /\ (numControllers = 2 => Rows(2) \in Int) /\ d \in {1, 2} /\ (d = 2 => numControllers = 2)
    BY RowsAre, ControllersAre
  <2>2. Rows(d - 1) \in Int /\ Rows(d) \in Int
    BY <2>1
  <2>3. OfRow(d, row)
    BY <2>2 DEF OfRow
  <2>4. currController(row) = k /\ currController(row) = d
    BY <2>3, ControllerIs
  <2> QED
    BY <2>4
<1>5. k \in allControllers /\ row \in Rows(k - 1) .. Rows(k) - 1
  <2>1. Rows(0) = 0 /\ Rows(1) \in Int /\ (numControllers = 2 => Rows(2) \in Int) /\ k \in {1, 2} /\ (k = 2 => numControllers = 2)
    BY RowsAre, ControllersAre DEF OfRow
  <2>2. Rows(k - 1) \in Int /\ Rows(k) \in Int
    BY <2>1
  <2> QED
    BY <2>2 DEF OfRow
<1> QED
  BY <1>3, <1>4, <1>5 DEF OnGlass

\* What goto computes for a cell of controller k.
GoesTo(at, k, row, col) ==
  /\ at.controller = k
  /\ at.space = IF col >= Controllers[k].cols THEN -1
                ELSE Controllers[k].cols - (IF Folded(k) /\ col >= HALF THEN col - HALF ELSE col)
  /\ at.pos = IF Folded(k) /\ col >= HALF THEN Address(k, Left(row, k) + 1, col - HALF)
              ELSE Address(k, Left(row, k), col)

\* goto finds the controller, the address and the space that is left in the row or its half.
LEMMA GotoIs ==
  ASSUME numControllers <= 2, NEW row \in Nat, NEW k, OfRow(k, row), NEW col
  PROVE  GoesTo(goto(row, col), k, row, col)
<1>1. currController(row) = k
  BY ControllerIs
<1> QED
  BY <1>1 DEF goto, GoesTo

\* A column of a row that is organized in halves, by the half it is in.
LEMMA Halves ==
  ASSUME HALF * 2 = WIDE, HALF \in Nat \ {0}, NEW c \in 0 .. WIDE - 1
  PROVE  /\ c < HALF => c \div HALF = 0 /\ c % HALF = c
         /\ c >= HALF => c \div HALF = 1 /\ c % HALF = c - HALF
<1> DEFINE h == HALF
           q == c \div h
           r == c % h
           x == q * h
<1>0. c \in Nat
  <2>1. WIDE \in Nat
    BY HD44780Assumption
  <2> QED
    BY <2>1
<1>1. q \in Nat /\ r \in 0 .. h - 1 /\ c = x + r /\ c \in Nat
  BY <1>0, Division, Zenon
<1>2. x \in Nat /\ (q = 0 => x = 0) /\ (q = 1 => x = h)
  BY <1>1
<1>3. (q >= 1 => x >= h) /\ (q >= 2 => x >= 2 * h)
  <2> HIDE DEF q, h
  <2>1. q >= 1 => 1 * h <= q * h
    BY <1>1, Products DEF h
  <2>2. q >= 2 => 2 * h <= q * h
    BY <1>1, Products DEF h
  <2>3. h \in Nat
    BY DEF h
  <2> QED
    BY <2>1, <2>2, <2>3
<1>4. h \in Nat \ {0} /\ c < 2 * h
  <2>1. WIDE = HALF * 2 /\ HALF \in Nat /\ WIDE \in Nat
    BY HD44780Assumption
  <2> QED
    BY <2>1
<1> HIDE DEF q, r, h, x
<1>5. c < h => q = 0 /\ r = c
  BY <1>1, <1>2, <1>3, <1>4
<1>6. c >= h => q = 1 /\ r = c - h
  BY <1>1, <1>2, <1>3, <1>4
<1> QED
  BY <1>5, <1>6 DEF q, r, h

\* A write to a row that is organized in halves fills the half it starts in.
LEMMA FoldedReach ==
  ASSUME NEW h \in Nat \ {0}, 2 * h <= 64, NEW col \in Nat, col < 2 * h, NEW c \in Nat, c < 2 * h, NEW n \in Nat \ {0},
         NEW pl, pl = (IF c < h THEN c ELSE 64 + c - h),
         NEW pos, pos = (IF col >= h THEN 64 + col - h ELSE col),
         NEW space, space = (IF col >= h THEN 2 * h - (col - h) ELSE 2 * h - col),
         NEW len, len = (IF n > space THEN space ELSE n)
  PROVE  /\ pl \in pos .. pos + len - 1 => c \in col .. col + n - 1 /\ pl - pos + 1 = c - col + 1
         /\ c \in col .. col + n - 1 /\ ~ (col < h /\ c >= h) => pl \in pos .. pos + len - 1
<1>1. /\ pl \in Int /\ pos \in Int /\ space \in Nat /\ len \in Nat /\ len <= n /\ len <= space
      /\ (len = n \/ len = space)
  OBVIOUS
<1>2. CASE col >= h
  <2>1. pos = 64 + col - h /\ space = 2 * h - (col - h)
    BY <1>2
  <2>2. CASE c < h
    <3>1. pl = c
      BY <2>2
    <3> QED
      BY <1>1, <1>2, <2>1, <2>2, <3>1
  <2>3. CASE c >= h
    <3>1. pl = 64 + c - h
      BY <2>3
    <3> QED
      BY <1>1, <1>2, <2>1, <2>3, <3>1
  <2> QED
    BY <2>2, <2>3
<1>3. CASE col < h
  <2>1. pos = col /\ space = 2 * h - col
    BY <1>3
  <2>2. CASE c < h
    <3>1. pl = c
      BY <2>2
    <3> QED
      BY <1>1, <1>3, <2>1, <2>2, <3>1
  <2>3. CASE c >= h
    <3>1. pl = 64 + c - h
      BY <2>3
    <3> QED
      BY <1>1, <1>3, <2>1, <2>3, <3>1
  <2> QED
    BY <2>2, <2>3
<1> QED
  BY <1>2, <1>3

\* Writes to rows that lie in one piece; a and b are the addresses of their first cells.
LEMMA PlainReach ==
  ASSUME NEW cols \in Nat \ {0}, NEW col \in Nat, col < cols, NEW c \in Nat, c < cols, NEW n \in Nat \ {0},
         NEW a \in Int, NEW b \in Int, NEW same, same => a = b, ~ same => a + cols <= b \/ b + cols <= a,
         NEW pl, pl = b + c, NEW pos, pos = a + col,
         NEW space, space = cols - col, NEW len, len = (IF n > space THEN space ELSE n)
  PROVE  /\ pl \in pos .. pos + len - 1 => same /\ c \in col .. col + n - 1 /\ pl - pos + 1 = c - col + 1
         /\ same /\ c \in col .. col + n - 1 => pl \in pos .. pos + len - 1
<1>1. /\ pl \in Int /\ pos \in Int /\ space \in Nat /\ len \in Nat /\ len <= n /\ len <= space
      /\ (len = n \/ len = space)
  OBVIOUS
<1>2. ASSUME pl \in pos .. pos + len - 1 PROVE same
  <2> SUFFICES ASSUME a + cols <= b \/ b + cols <= a PROVE FALSE
    OBVIOUS
  <2> QED
    BY <1>1, <1>2
<1>3. CASE a = b
  BY <1>1, <1>2, <1>3
<1> QED
  BY <1>2, <1>3

\* What is written at the start of a cell reaches the places of the cells behind it in
\* its row, though not over the middle of a row in halves; and no other places.
LEMMA WriteReaches ==
  ASSUME RealDisplay, NEW row \in Nat, NEW k, OfRow(k, row), NEW col \in Nat, NEW data, Len(data) \in Nat \ {0},
         NEW r \in Nat, NEW m, OfRow(m, r), NEW c \in Nat, c < Controllers[m].cols,
         NEW w, w = drv_HD_write(row, col, data)
  PROVE  /\ Place(r, c) \in DOMAIN w =>
              r = row /\ c \in col .. col + Len(data) - 1 /\ w[Place(r, c)] = data[c - col + 1]
         /\ r = row /\ c \in col .. col + Len(data) - 1 /\ ~ (Folded(k) /\ col < HALF /\ c >= HALF) =>
              Place(r, c) \in DOMAIN w
<1> DEFINE at == goto(row, col)
           n == Len(data)
           len == IF n > at.space THEN at.space ELSE n
           line == Left(row, k)
           other == Left(r, m)
<1>0. numControllers <= 2 /\ k \in {1, 2} /\ k \in allControllers /\ m \in allControllers
  BY ControllersAre DEF RealDisplay, OfRow
<1>1. /\ at.controller = k
      /\ at.space = IF col >= Controllers[k].cols THEN -1
                    ELSE Controllers[k].cols - (IF Folded(k) /\ col >= HALF THEN col - HALF ELSE col)
      /\ at.pos = IF Folded(k) /\ col >= HALF THEN Address(k, line + 1, col - HALF) ELSE Address(k, line, col)
  <2>1. GoesTo(goto(row, col), k, row, col)
    BY <1>0, GotoIs
  <2> QED
    BY <2>1, Zenon DEF GoesTo
<1>2. w = [p \in {at.controller} \X (at.pos .. at.pos + len - 1) |-> data[p[2] - at.pos + 1]]
  BY DEF drv_HD_write
<1>3. Place(r, c) = <<m, PlaceOf(m, other, c)>>
  BY <1>0, PlaceIs, Zenon
<1>4. line \in 0 .. Controllers[k].rows - 1 /\ other \in 0 .. Controllers[m].rows - 1
  BY <1>0, ControllerIs
<1>5. m = k => (r = row <=> other = line)
  <2>1. k \in {1, 2} /\ Rows(0) \in Int /\ Rows(1) \in Int
    BY <1>0, RowsAre, ControllersAre
  <2> QED
    BY <2>1 DEF Left
<1>6. r = row => m = k
  <2>1. currController(row) = k /\ (r = row => currController(row) = m)
    BY <1>0, ControllerIs
  <2> QED
    BY <2>1
<1> DEFINE cols == Controllers[k].cols
           pl == PlaceOf(k, other, c)
<1>7. n \in Nat \ {0} /\ cols \in Nat \ {0} /\ Controllers[k].rows \in {1, 2, 4} /\ line \in {0, 1, 2, 3} /\ other \in {0, 1, 2, 3}
      /\ (other >= 2 => Controllers[m].rows = 4)
  <2> DEFINE x == Controllers[k].rows
             y == Controllers[m].rows
  <2>1. x \in {1, 2, 4} /\ y \in {1, 2, 4} /\ n \in Nat \ {0} /\ cols \in Nat \ {0}
    BY <1>0, ControllersAre, Zenon DEF RealDisplay
  <2>2. line \in 0 .. x - 1 /\ other \in 0 .. y - 1
    BY <1>4
  <2> HIDE DEF x, y, n, cols, line, other
  <2>3. line \in {0, 1, 2, 3} /\ other \in {0, 1, 2, 3} /\ (other >= 2 => y = 4)
    BY <2>1, <2>2
  <2> QED
    BY <2>1, <2>3 DEF x, y
<1> HIDE DEF at, line, other, n
<1> SUFFICES ASSUME m = k
             PROVE  /\ pl \in at.pos .. at.pos + len - 1 =>
                         other = line /\ c \in col .. col + n - 1 /\ pl - at.pos + 1 = c - col + 1
                    /\ other = line /\ c \in col .. col + n - 1 /\ ~ (Folded(k) /\ col < HALF /\ c >= HALF) =>
                         pl \in at.pos .. at.pos + len - 1
  <2> HIDE DEF pl, len
  <2>1. DOMAIN w = {k} \X (at.pos .. at.pos + len - 1)
    BY <1>1, <1>2
  <2>2. \A x \in at.pos .. at.pos + len - 1 : w[<<k, x>>] = data[x - at.pos + 1]
    BY <1>1, <1>2
  <2>3. CASE m = k
    <3>1. Place(r, c) = <<k, pl>>
      BY <1>3, <2>3 DEF pl
    <3> QED
      BY <1>5, <2>1, <2>2, <2>3, <3>1 DEF n
  <2>4. CASE m # k
    BY <1>3, <1>6, <2>1, <2>4
  <2> QED
    BY <2>3, <2>4
<1> HIDE DEF n
<1>8. CASE col >= cols
  <2>1. at.space = -1 /\ len = -1
    BY <1>1, <1>7, <1>8
  <2>2. at.pos .. at.pos + len - 1 = {}
    <3>1. at.pos \in Int
      <4>1. WIDE \in Int /\ HALF \in Int
        BY HD44780Assumption DEF HALF
      <4> DEFINE f == IF cols = WIDE /\ Controllers[k].rows = 4 THEN WIDE ELSE 20
      <4>2. f \in Int
        BY <4>1
      <4>3. \A l \in {0, 1, 2, 3, 4}, x \in Int : Address(k, l, x) \in Int
        <5> SUFFICES ASSUME NEW l \in {0, 1, 2, 3, 4}, NEW x \in Int PROVE Address(k, l, x) \in Int
          OBVIOUS
        <5>1. l \div 2 \in {0, 1, 2} /\ l % 2 \in {0, 1}
          OBVIOUS
        <5>2. Address(k, l, x) = IF HD66712 THEN l * 32 + x ELSE (l % 2) * LINE + x + (l \div 2) * f
          BY DEF Address
        <5> DEFINE d == l \div 2
                   e == l % 2
        <5> HIDE DEF d, e, f
        <5>3. d * f \in Int /\ e * 64 \in Int
          BY <4>2, <5>1 DEF d, e
        <5>4. Address(k, l, x) = IF HD66712 THEN l * 32 + x ELSE e * 64 + x + d * f
          BY <5>2 DEF d, e, LINE
        <5> QED
          BY <5>3, <5>4
      <4>4. line \in {0, 1, 2, 3, 4} /\ line + 1 \in {0, 1, 2, 3, 4} /\ col - HALF \in Int /\ col \in Int
        BY <1>7, <4>1
      <4>5. Address(k, line + 1, col - HALF) \in Int /\ Address(k, line, col) \in Int
        BY <4>3, <4>4, Zenon
      <4> QED
        BY <1>1, <4>5
    <3> HIDE DEF len
    <3> QED
      BY <2>1, <3>1
  <2>3. ~ (c \in col .. col + n - 1)
    BY <1>7, <1>8
  <2> HIDE DEF pl, len
  <2> QED
    BY <2>2, <2>3
<1>9. CASE col < cols /\ Folded(k)
  <2>1. /\ cols = WIDE /\ Controllers[k].rows = 1 /\ ~ HD66712 /\ line = 0 /\ other = 0
        /\ HALF * 2 = WIDE /\ cols <= 64 /\ HALF \in Nat \ {0}
    <3>1. cols = WIDE /\ Controllers[k].rows = 1
      BY <1>9 DEF Folded
    <3>2. ~ HD66712 /\ cols <= 64 /\ HALF * 2 = WIDE
      BY <1>0, <1>9, HD44780Assumption DEF RealDisplay, LINE
    <3>3. line = 0 /\ other = 0
      BY <1>4, <3>1 DEF line, other
    <3>4. WIDE \in Nat \ {0}
      BY <1>7, <3>1
    <3>5. HALF \in Int
      BY <3>4 DEF HALF
    <3> QED
      BY <3>1, <3>2, <3>3, <3>4, <3>5
  <2>2. pl = IF c < HALF THEN c ELSE 64 + c - HALF
    <3>1. pl = (c \div HALF) * LINE + (c % HALF)
      BY <1>9, <2>1 DEF PlaceOf
    <3>2. c \in 0 .. WIDE - 1
      BY <2>1
    <3>3. /\ c < HALF => c \div HALF = 0 /\ c % HALF = c
          /\ c >= HALF => c \div HALF = 1 /\ c % HALF = c - HALF
      BY <2>1, <3>2, Halves, Zenon
    <3> DEFINE q == c \div HALF
               s == c % HALF
    <3> HIDE DEF q, s, pl
    <3>4. pl = q * 64 + s /\ (c < HALF => q = 0 /\ s = c) /\ (c >= HALF => q = 1 /\ s = c - HALF)
      BY <3>1, <3>3 DEF q, s, LINE
    <3> QED
      BY <3>4, <2>1
  <2>3. at.pos = IF col >= HALF THEN 64 + col - HALF ELSE col
    <3>1. CASE col >= HALF
      <4>1. at.pos = Address(k, 1, col - HALF)
        BY <1>1, <1>9, <2>1, <3>1
      <4>2. Address(k, 1, col - HALF) = (1 % 2) * LINE + (col - HALF)
              + (1 \div 2) * (IF Controllers[k].cols = WIDE /\ Controllers[k].rows = 4 THEN WIDE ELSE 20)
        BY <2>1 DEF Address
      <4>3. 1 % 2 = 1 /\ 1 \div 2 = 0 /\ WIDE \in Int
        BY <2>1
      <4> QED
        BY <3>1, <4>1, <4>2, <4>3, <2>1 DEF LINE
    <3>2. CASE col < HALF
      <4>1. at.pos = Address(k, 0, col)
        BY <1>1, <1>9, <2>1, <3>2
      <4>2. Address(k, 0, col) = (0 % 2) * LINE + col
              + (0 \div 2) * (IF Controllers[k].cols = WIDE /\ Controllers[k].rows = 4 THEN WIDE ELSE 20)
        BY <2>1 DEF Address
      <4>3. 0 % 2 = 0 /\ 0 \div 2 = 0 /\ WIDE \in Int
        BY <2>1
      <4> QED
        BY <3>2, <4>1, <4>2, <4>3, <2>1 DEF LINE
    <3> QED
      BY <3>1, <3>2, <2>1
  <2>4. at.space = IF col >= HALF THEN WIDE - (col - HALF) ELSE WIDE - col
    BY <1>1, <1>9, <2>1
  <2>5. c < 2 * HALF /\ col < 2 * HALF /\ WIDE = 2 * HALF /\ 2 * HALF <= 64
    <3>1. WIDE = HALF * 2 /\ HALF \in Nat /\ cols = WIDE /\ cols <= 64 /\ c < cols /\ col < cols
      BY <1>9, <2>1
    <3> HIDE DEF cols
    <3> QED
      BY <3>1
  <2>6. HALF \in Nat \ {0} /\ n \in Nat \ {0}
    BY <1>7, <2>1
  <2> DEFINE ps == at.pos
             sp == at.space
  <2>7. /\ pl = (IF c < HALF THEN c ELSE 64 + c - HALF)
        /\ ps = (IF col >= HALF THEN 64 + col - HALF ELSE col)
        /\ sp = (IF col >= HALF THEN 2 * HALF - (col - HALF) ELSE 2 * HALF - col)
        /\ len = (IF n > sp THEN sp ELSE n)
    BY <2>2, <2>3, <2>4, <2>5
  <2> HIDE DEF pl, ps, sp, len
  <2>8. /\ pl \in ps .. ps + len - 1 => c \in col .. col + n - 1 /\ pl - ps + 1 = c - col + 1
        /\ c \in col .. col + n - 1 /\ ~ (col < HALF /\ c >= HALF) => pl \in ps .. ps + len - 1
    BY <2>5, <2>6, <2>7, FoldedReach
  <2> QED
    BY <1>9, <2>1, <2>8 DEF ps
<1>10. CASE col < cols /\ ~ Folded(k)
  <2>1. at.space = cols - col /\ at.pos = Address(k, line, col)
    BY <1>1, <1>7, <1>10
  <2> DEFINE A(l) == IF HD66712 THEN l * 32 ELSE (l % 2) * LINE + (l \div 2) * cols
  <2>2. pl = A(other) + c
    BY <1>10 DEF PlaceOf
  <2>3. at.pos = A(line) + col
    <3>1. CASE HD66712
      BY <2>1, <3>1 DEF Address
    <3>2. CASE ~ HD66712
      <4>1. line \div 2 = 0 \/ (Controllers[k].rows = 4 /\ line \div 2 = 1)
        BY <1>4, <1>7, SMTT(30) DEF line
      <4>2. Controllers[k].rows = 4 => cols \in {20, WIDE}
        BY <1>0, <3>2 DEF RealDisplay
      <4> DEFINE f == IF cols = WIDE /\ Controllers[k].rows = 4 THEN WIDE ELSE 20
                 q == line \div 2
                 x == (line % 2) * LINE
      <4>3. at.pos = x + col + q * f
        BY <2>1, <3>2 DEF Address
      <4>4. q * f = q * cols
        <5>1. CASE q = 0
          BY <5>1, <1>7, HD44780Assumption, SMTT(30)
        <5>2. CASE Controllers[k].rows = 4
          BY <4>2, <5>2
        <5> QED
          BY <4>1, <5>1, <5>2
      <4>5. q * cols \in Int /\ x \in Int
        BY <1>7 DEF LINE
      <4> DEFINE y == q * cols
      <4>6. A(line) = x + y
        BY <3>2
      <4> HIDE DEF q, x, f, y
      <4> QED
        BY <4>3, <4>4, <4>5, <4>6 DEF y
    <3> QED
      BY <3>1, <3>2
  <2>4. /\ A(0) = 0 /\ (HD66712 => A(1) = 32 /\ A(2) = 64 /\ A(3) = 96 /\ cols <= 32)
        /\ (~ HD66712 => A(1) = 64 /\ A(2) = cols /\ A(3) = 64 + cols /\ cols <= 64 /\ (Controllers[k].rows = 4 => 2 * cols <= 64))
    <3>1. /\ 0 % 2 = 0 /\ 0 \div 2 = 0 /\ 1 % 2 = 1 /\ 1 \div 2 = 0 /\ 2 % 2 = 0 /\ 2 \div 2 = 1
          /\ 3 % 2 = 1 /\ 3 \div 2 = 1
      OBVIOUS
    <3>2. IF HD66712 THEN cols <= 32 ELSE cols <= 64 /\ (Controllers[k].rows = 4 => 2 * cols <= 64)
      BY <1>0 DEF RealDisplay, LINE
    <3>3. 0 * cols = 0 /\ 1 * cols = cols
      BY <1>7
    <3> QED
      BY <1>7, <3>1, <3>2, <3>3 DEF LINE
  <2>5. c < cols /\ (line >= 2 \/ other >= 2 => Controllers[k].rows = 4)
    BY <1>4, <1>7 DEF line
  <2> DEFINE a == A(line)
             b == A(other)
             ps == at.pos
             sp == at.space
             four == Controllers[k].rows = 4
  <2>6. a \in Int /\ b \in Int /\ (line # other => a + cols <= b \/ b + cols <= a)
    <3> HIDE DEF A, four, cols
    <3>1. CASE HD66712
      <4>1. A(0) = 0 /\ A(1) = 32 /\ A(2) = 64 /\ A(3) = 96 /\ cols \in Nat /\ cols <= 32
        BY <1>7, <2>4, <3>1
      <4> QED
        BY <1>7, <4>1
    <3>2. CASE ~ HD66712
      <4>1. A(0) = 0 /\ A(1) = 64 /\ A(2) = cols /\ A(3) = 64 + cols /\ cols \in Nat \ {0} /\ cols <= 64 /\ (four => 2 * cols <= 64)
        BY <1>7, <2>4, <3>2 DEF four
      <4>2. line >= 2 \/ other >= 2 => four
        BY <2>5 DEF four
      <4>3. CASE four
        BY <1>7, <4>1, <4>3, SMTT(30)
      <4>4. CASE line \in {0, 1} /\ other \in {0, 1}
        BY <4>1, <4>4
      <4> QED
        BY <1>7, <4>2, <4>3, <4>4
    <3> QED
      BY <3>1, <3>2
  <2>7. line = other => a = b
    OBVIOUS
  <2>8. pl = b + c /\ ps = a + col /\ sp = cols - col /\ len = (IF n > sp THEN sp ELSE n)
    BY <2>1, <2>2, <2>3
  <2> DEFINE same == line = other
  <2> HIDE DEF pl, ps, sp, len, a, b, cols, same
  <2>9. /\ pl \in ps .. ps + len - 1 => same /\ c \in col .. col + n - 1 /\ pl - ps + 1 = c - col + 1
        /\ same /\ c \in col .. col + n - 1 => pl \in ps .. ps + len - 1
    <3>1. cols \in Nat \ {0} /\ col < cols /\ c < cols /\ n \in Nat \ {0}
      BY <1>7, <1>10, <2>5 DEF cols
    <3>2. (same => a = b) /\ (~ same => a + cols <= b \/ b + cols <= a)
      BY <2>6, <2>7 DEF same
    <3> QED
      BY <2>6, <2>8, <3>1, <3>2, PlainReach
  <2> QED
    BY <2>9 DEF same, ps
<1> QED
  BY <1>7, <1>8, <1>9, <1>10

-----------------------------------------------------------------------------
(* blit *)

\* The size of the display.
LEMMA Sizes == DROWS \in Nat /\ DCOLS \in Nat
BY TextDisplayAssumption

\* A cell is its row and its column.
LEMMA CellIs ==
  ASSUME NEW p \in DisplayCells
  PROVE  p = <<p[1], p[2]>> /\ p[1] \in 0 .. DROWS - 1 /\ p[2] \in 0 .. DCOLS - 1 /\ p[1] \in Nat /\ p[2] \in Nat
BY Sizes DEF DisplayCells

\* Each cell that is sent is sent by the run of a start in its row.
LEMMA StartExists ==
  ASSUME NEW sent, sent \subseteq DisplayCells, NEW q \in sent
  PROVE  \E p \in Starts(sent) : p[1] = q[1] /\ p[2] <= q[2] /\ {q[1]} \X (p[2] .. q[2]) \subseteq sent
<1> DEFINE T == {c \in 0 .. q[2] : {q[1]} \X (c .. q[2]) \subseteq sent}
<1>1. q = <<q[1], q[2]>> /\ q[2] \in Nat
  BY CellIs
<1>2. q[2] \in T
  BY <1>1
<1>3. T \subseteq Nat
  BY <1>1
<1> HIDE DEF T
<1>4. PICK n \in T : \A m \in T : n <= m
  BY <1>2, <1>3, SmallestNat, Zenon
<1>5. n \in Nat /\ n <= q[2] /\ {q[1]} \X (n .. q[2]) \subseteq sent
  BY <1>1, <1>4 DEF T
<1>6. <<q[1], n>> \in sent
  BY <1>1, <1>5
<1>7. <<q[1], n - 1>> \notin sent
  <2> SUFFICES ASSUME <<q[1], n - 1>> \in sent PROVE FALSE
    OBVIOUS
  <2>1. n - 1 \in 0 .. q[2]
    <3>1. n - 1 \in Nat
      BY CellIs
    <3> QED
      BY <1>1, <1>5, <3>1
  <2>2. {q[1]} \X (n - 1 .. q[2]) \subseteq sent
    <3> SUFFICES ASSUME NEW c \in n - 1 .. q[2] PROVE <<q[1], c>> \in sent
      OBVIOUS
    <3>1. CASE c = n - 1
      BY <3>1
    <3>2. CASE c \in n .. q[2]
      BY <1>5, <3>2
    <3> QED
      BY <1>1, <1>5, <3>1, <3>2
  <2>3. n - 1 \in T
    BY <2>1, <2>2 DEF T
  <2> QED
    BY <1>4, <1>5, <2>3
<1>8. <<q[1], n>> \in Starts(sent)
  BY <1>6, <1>7 DEF Starts
<1> QED
  BY <1>5, <1>8

\* A run reaches to the last of the cells that are sent without a gap.
LEMMA RunEndIs ==
  ASSUME NEW sent, sent \subseteq DisplayCells, NEW p \in sent, NEW e, e = RunEnd(sent, p)
  PROVE  e \in p[2] .. DCOLS - 1 /\ {p[1]} \X (p[2] .. e) \subseteq sent /\ <<p[1], e + 1>> \notin sent
<1> DEFINE T == {c \in p[2] .. DCOLS - 1 : <<p[1], c + 1>> \notin sent}
<1>1. p = <<p[1], p[2]>> /\ p[2] \in Nat /\ p[2] \in 0 .. DCOLS - 1 /\ DCOLS \in Nat
  BY CellIs, Sizes
<1>2. DCOLS - 1 \in T
  <2>1. <<p[1], DCOLS - 1 + 1>> \notin DisplayCells
    BY <1>1 DEF DisplayCells
  <2> QED
    BY <1>1, <2>1
<1>3. T \subseteq Nat
  BY <1>1
<1> HIDE DEF T
<1>4. PICK n \in T : \A m \in T : n <= m
  BY <1>2, <1>3, SmallestNat, Zenon
<1>5. n \in p[2] .. DCOLS - 1 /\ <<p[1], n + 1>> \notin sent
  BY <1>4 DEF T
<1>6. {p[1]} \X (p[2] .. n) \subseteq sent
  <2> SUFFICES ASSUME NEW c \in p[2] .. n PROVE <<p[1], c>> \in sent
    OBVIOUS
  <2>1. CASE c = p[2]
    BY <1>1, <2>1
  <2>2. CASE c # p[2]
    <3>1. c - 1 \in p[2] .. DCOLS - 1 /\ c - 1 < n /\ (c - 1) + 1 = c
      BY <1>1, <1>5, <2>2
    <3>2. c - 1 \notin T
      BY <1>1, <1>4, <1>5, <3>1
    <3> QED
      BY <3>1, <3>2 DEF T
  <2> QED
    BY <2>1, <2>2
<1> DEFINE P(c) == {p[1]} \X (p[2] .. c) \subseteq sent /\ <<p[1], c + 1>> \notin sent
<1>7. \E c \in p[2] .. DCOLS - 1 : P(c)
  BY <1>5, <1>6
<1>8. e = CHOOSE c \in p[2] .. DCOLS - 1 : P(c)
  BY DEF RunEnd
<1> HIDE DEF P
<1>9. e \in p[2] .. DCOLS - 1 /\ P(e)
  BY <1>7, <1>8
<1> QED
  BY <1>9 DEF P

\* The cells of a run, whose start is p.
InRun(sent, p, q) == p \in Starts(sent) /\ q[1] = p[1] /\ q[2] \in p[2] .. RunEnd(sent, p)

\* A cell that is sent belongs to one run, and the others to none.
LEMMA RunsAre ==
  ASSUME NEW sent, sent \subseteq DisplayCells, NEW q \in DisplayCells
  PROVE  /\ q \in sent => \E p : InRun(sent, p, q) /\ {q[1]} \X (p[2] .. q[2]) \subseteq sent
         /\ \A p : InRun(sent, p, q) => q \in sent
         /\ \A p, r : InRun(sent, p, q) /\ InRun(sent, r, q) => p = r
<1>1. q = <<q[1], q[2]>> /\ q[2] \in Nat
  BY CellIs
<1>2. \A p : InRun(sent, p, q) => /\ p \in sent /\ p = <<q[1], p[2]>> /\ p[2] \in Nat /\ p[2] <= q[2]
                                 /\ {q[1]} \X (p[2] .. q[2]) \subseteq sent /\ <<q[1], p[2] - 1>> \notin sent
  <2> SUFFICES ASSUME NEW p, InRun(sent, p, q)
               PROVE  /\ p \in sent /\ p = <<q[1], p[2]>> /\ p[2] \in Nat /\ p[2] <= q[2]
                      /\ {q[1]} \X (p[2] .. q[2]) \subseteq sent /\ <<q[1], p[2] - 1>> \notin sent
    OBVIOUS
  <2>1. p \in sent /\ <<p[1], p[2] - 1>> \notin sent /\ q[1] = p[1] /\ q[2] \in p[2] .. RunEnd(sent, p)
    BY DEF InRun, Starts
  <2>2. p = <<p[1], p[2]>> /\ p[2] \in Nat
    BY <2>1, CellIs
  <2>3. RunEnd(sent, p) \in p[2] .. DCOLS - 1 /\ {p[1]} \X (p[2] .. RunEnd(sent, p)) \subseteq sent
    BY <2>1, RunEndIs, Zenon
  <2>4. {q[1]} \X (p[2] .. q[2]) \subseteq sent
    <3> SUFFICES ASSUME NEW c \in p[2] .. q[2] PROVE <<q[1], c>> \in sent
      OBVIOUS
    <3>1. c \in p[2] .. RunEnd(sent, p)
      BY <1>1, <2>1, <2>2, <2>3, Sizes
    <3> QED
      BY <2>1, <2>3, <3>1
  <2> QED
    BY <2>1, <2>2, <2>4, <1>1
<1>3. ASSUME NEW p, InRun(sent, p, q) PROVE q \in sent
  <2>1. p[2] \in Nat /\ p[2] <= q[2] /\ {q[1]} \X (p[2] .. q[2]) \subseteq sent
    BY <1>2, <1>3, Zenon
  <2>2. <<q[1], q[2]>> \in {q[1]} \X (p[2] .. q[2])
    BY <1>1, <2>1
  <2> QED
    BY <1>1, <2>1, <2>2
<1>4. ASSUME NEW p, NEW r, InRun(sent, p, q), InRun(sent, r, q), p[2] < r[2] PROVE FALSE
  <2>1. r[2] \in Nat /\ r[2] <= q[2] /\ <<q[1], r[2] - 1>> \notin sent /\ p[2] \in Nat /\ {q[1]} \X (p[2] .. q[2]) \subseteq sent
    BY <1>2, <1>4, Zenon
  <2>2. r[2] - 1 \in p[2] .. q[2]
    BY <1>1, <1>4, <2>1
  <2> QED
    BY <2>1, <2>2
<1>5. ASSUME NEW p, NEW r, InRun(sent, p, q), InRun(sent, r, q) PROVE p = r
  <2>1. p = <<q[1], p[2]>> /\ p[2] \in Nat /\ r = <<q[1], r[2]>> /\ r[2] \in Nat
    BY <1>2, <1>5, Zenon
  <2>2. ~ (p[2] < r[2]) /\ ~ (r[2] < p[2])
    BY <1>4, <1>5
  <2> QED
    BY <2>1, <2>2
<1>6. ASSUME q \in sent PROVE \E p : InRun(sent, p, q) /\ {q[1]} \X (p[2] .. q[2]) \subseteq sent
  <2>1. PICK p \in Starts(sent) : p[1] = q[1] /\ p[2] <= q[2] /\ {q[1]} \X (p[2] .. q[2]) \subseteq sent
    BY <1>6, StartExists
  <2>2. p \in sent /\ p[2] \in Nat
    BY <2>1, CellIs DEF Starts
  <2>3. RunEnd(sent, p) \in p[2] .. DCOLS - 1 /\ <<p[1], RunEnd(sent, p) + 1>> \notin sent
    BY <2>2, RunEndIs, Zenon
  <2>4. q[2] <= RunEnd(sent, p)
    <3> SUFFICES ASSUME q[2] > RunEnd(sent, p) PROVE FALSE
      BY <1>1, <2>2, <2>3, Sizes
    <3>1. RunEnd(sent, p) + 1 \in p[2] .. q[2]
      BY <1>1, <2>2, <2>3, Sizes
    <3> QED
      BY <2>1, <2>3, <3>1
  <2>5. InRun(sent, p, q)
    BY <1>1, <2>1, <2>2, <2>3, <2>4, Sizes DEF InRun
  <2> QED
    BY <2>1, <2>5
<1> QED
  BY <1>3, <1>5, <1>6

\* The characters of a run are those of the layout.
LEMMA RunIs ==
  ASSUME NEW sent, sent \subseteq DisplayCells, NEW p \in Starts(sent), NEW data, data = Run(sent, p)
  PROVE  /\ p[1] \in Nat /\ p[2] \in Nat /\ Len(data) \in Nat \ {0} /\ RunEnd(sent, p) = p[2] + Len(data) - 1
         /\ \A q \in DisplayCells : InRun(sent, p, q) => data[q[2] - p[2] + 1] = LayoutFB'[q]
<1>1. p \in sent /\ p[1] \in Nat /\ p[2] \in Nat
  BY CellIs DEF Starts
<1>2. RunEnd(sent, p) \in p[2] .. DCOLS - 1
  BY <1>1, RunEndIs, Zenon
<1> DEFINE n == RunEnd(sent, p) - p[2] + 1
<1>3. n \in Nat \ {0} /\ RunEnd(sent, p) = p[2] + n - 1
  BY <1>1, <1>2, Sizes
<1> HIDE DEF n
<1>4. data = [k \in 1 .. n |-> LayoutFB'[<<p[1], p[2] + k - 1>>]]
  BY DEF Run, n
<1>5. Len(data) = n
  BY <1>3, <1>4
<1>6. ASSUME NEW q \in DisplayCells, InRun(sent, p, q) PROVE data[q[2] - p[2] + 1] = LayoutFB'[q]
  <2>1. q = <<p[1], q[2]>> /\ q[2] \in Nat /\ q[2] \in p[2] .. p[2] + n - 1
    BY <1>3, <1>6, CellIs DEF InRun
  <2>2. q[2] - p[2] + 1 \in 1 .. n /\ p[2] + (q[2] - p[2] + 1) - 1 = q[2]
    BY <1>1, <1>3, <2>1
  <2> QED
    BY <1>4, <2>1, <2>2
<1> QED
  BY <1>1, <1>3, <1>5, <1>6

-----------------------------------------------------------------------------
(* What the display below holds *)

\* The drivers, as the display below has them.
Below == driver \in Drivers /\ (driver = "HD44780" => RealDisplay)

\* Each row of the display belongs to a controller.
LEMMA RowOwner ==
  ASSUME "HD44780" \in Drivers, RealDisplay, NEW row \in 0 .. DROWS - 1
  PROVE  \E k : OfRow(k, row)
<1>1. DROWS = Rows(numControllers)
  BY TextDisplayAssumption DEF Size
<1>2. /\ Rows(0) = 0 /\ Rows(1) = Controllers[1].rows /\ Controllers[1].rows \in Nat \ {0} /\ 1 \in allControllers
      /\ numControllers \in {1, 2}
  BY RowsAre, ControllersAre DEF RealDisplay
<1>3. numControllers = 2 => /\ Rows(2) = Controllers[1].rows + Controllers[2].rows /\ 2 \in allControllers
                            /\ Controllers[2].rows \in Nat \ {0}
  BY RowsAre, ControllersAre DEF RealDisplay
<1>4. CASE row < Rows(1)
  <2>1. OfRow(1, row)
    BY <1>2, <1>4 DEF OfRow
  <2> QED
    BY <2>1
<1>5. CASE row >= Rows(1)
  <2>1. numControllers = 2 /\ row < Rows(2)
    BY <1>1, <1>2, <1>5, Sizes
  <2>2. OfRow(2, row)
    BY <1>2, <1>3, <1>5, <2>1 DEF OfRow
  <2> QED
    BY <2>2
<1> QED
  BY <1>2, <1>4, <1>5

\* What the display holds for a cell after it has been sent.
Sends(q) == IF INVALIDATE THEN Picture(LayoutFB'[q], glyph'[1]) ELSE LayoutFB'[q]

\* A run reaches the places of its cells, but for those over the middle, and no other cell.
LEMMA WrittenReaches ==
  ASSUME Below, NEW sent, sent \subseteq DisplayCells, NEW p \in Starts(sent),
         NEW q \in DisplayCells, Visible(q), NEW w, w = Written(p[1], p[2], Run(sent, p))
  PROVE  /\ Where(q) \in DOMAIN w => InRun(sent, p, q) /\ w[Where(q)] = Sends(q)
         /\ InRun(sent, p, q) /\ {q[1]} \X (p[2] .. q[2]) \subseteq sent /\ q \notin OverMiddle(sent) =>
              Where(q) \in DOMAIN w
<1> DEFINE data == Run(sent, p)
           n == Len(data)
<1>1. /\ p[1] \in Nat /\ p[2] \in Nat /\ n \in Nat \ {0} /\ RunEnd(sent, p) = p[2] + n - 1
      /\ InRun(sent, p, q) => data[q[2] - p[2] + 1] = LayoutFB'[q]
  BY RunIs
<1>2. q = <<q[1], q[2]>> /\ q[1] \in Nat /\ q[2] \in Nat /\ q[1] \in 0 .. DROWS - 1
  BY CellIs
<1>3. InRun(sent, p, q) <=> q[1] = p[1] /\ q[2] \in p[2] .. p[2] + n - 1
  BY <1>1 DEF InRun
<1>4. p[1] \in 0 .. DROWS - 1 /\ p \in sent
  BY CellIs DEF Starts
<1> HIDE DEF data, n
<1>5. CASE driver # "HD44780"
  <2>1. INVALIDATE
    BY <1>5, TextDisplayAssumption DEF Below, INVALIDATE
  <2>2. Where(q) = <<1, q>>
    BY <1>5 DEF Where
  <2>3. w = [x \in {1} \X ({p[1]} \X (p[2] .. p[2] + n - 1)) |-> Picture(data[x[2][2] - p[2] + 1], glyph'[1])]
    BY <1>5 DEF Written, data, n
  <2>4. Where(q) \in DOMAIN w <=> InRun(sent, p, q)
    BY <1>2, <1>3, <2>2, <2>3
  <2>5. Where(q) \in DOMAIN w => w[Where(q)] = Picture(data[q[2] - p[2] + 1], glyph'[1])
    BY <2>2, <2>3
  <2>6. InRun(sent, p, q) => w[Where(q)] = Sends(q)
    BY <1>1, <2>1, <2>4, <2>5 DEF Sends
  <2> QED
    BY <2>4, <2>6
<1>6. CASE driver = "HD44780"
  <2>1. RealDisplay /\ "HD44780" \in Drivers /\ numControllers <= 2 /\ ~ INVALIDATE
    BY <1>6 DEF Below, RealDisplay, INVALIDATE
  <2>2. PICK k : OfRow(k, p[1])
    BY <1>4, <2>1, RowOwner
  <2>3. PICK m : OfRow(m, q[1])
    BY <1>2, <2>1, RowOwner
  <2>4. Where(q) = Place(q[1], q[2]) /\ OnGlass(q[1], q[2]) /\ w = drv_HD_write(p[1], p[2], data)
    BY <1>6 DEF Where, Visible, Written, data
  <2>5. Place(q[1], q[2])[1] = m /\ q[2] < Controllers[m].cols
    BY <1>2, <2>1, <2>3, <2>4, PlaceIs
  <2>6. /\ Place(q[1], q[2]) \in DOMAIN w =>
             q[1] = p[1] /\ q[2] \in p[2] .. p[2] + n - 1 /\ w[Place(q[1], q[2])] = data[q[2] - p[2] + 1]
        /\ q[1] = p[1] /\ q[2] \in p[2] .. p[2] + n - 1 /\ ~ (Folded(k) /\ p[2] < HALF /\ q[2] >= HALF) =>
             Place(q[1], q[2]) \in DOMAIN w
    <3>1. Len(data) \in Nat \ {0}
      BY <1>1 DEF n
    <3> QED
      BY <1>1, <1>2, <2>1, <2>2, <2>3, <2>4, <2>5, <3>1, WriteReaches DEF n
  <2>7. ASSUME Where(q) \in DOMAIN w PROVE InRun(sent, p, q) /\ w[Where(q)] = Sends(q)
    BY <1>1, <1>3, <2>1, <2>4, <2>6, <2>7 DEF Sends
  <2>8. ASSUME InRun(sent, p, q), {q[1]} \X (p[2] .. q[2]) \subseteq sent, q \notin OverMiddle(sent)
        PROVE  Where(q) \in DOMAIN w
    <3>1. ASSUME Folded(k), p[2] < HALF, q[2] >= HALF PROVE FALSE
      <4>1. k = m
        <5>1. currController(p[1]) = k /\ currController(q[1]) = m /\ p[1] = q[1]
          BY <1>1, <1>2, <1>3, <2>1, <2>2, <2>3, <2>8, ControllerIs
        <5> QED
          BY <5>1
      <4>2. Where(q)[1] = k
        BY <2>4, <2>5, <4>1
      <4>3. HALF \in Int
        BY HD44780Assumption DEF HALF
      <4>4. {q[1]} \X (HALF - 1 .. q[2]) \subseteq sent
        <5> SUFFICES ASSUME NEW c \in HALF - 1 .. q[2] PROVE <<q[1], c>> \in sent
          OBVIOUS
        <5>1. c \in p[2] .. q[2]
          BY <1>1, <1>2, <3>1, <4>3
        <5> QED
          BY <2>8, <5>1
      <4>5. q \in sent
        BY <1>1, <1>2, <1>3, <2>8
      <4>6. q \in OverMiddle(sent)
        BY <1>6, <3>1, <4>2, <4>4, <4>5 DEF OverMiddle
      <4> QED
        BY <2>8, <4>6
    <3> QED
      BY <1>3, <2>4, <2>6, <2>8, <3>1
  <2> QED
    BY <2>7, <2>8
<1> QED
  BY <1>5, <1>6

\* After the writes of blit each visible place holds what it held, or what the layout has there
\* if its cell was sent.
LEMMA HeldIs ==
  ASSUME Below, NEW sent, sent \subseteq DisplayCells, NEW q \in DisplayCells, Visible(q),
         NEW writes, writes = [p \in Starts(sent) |-> Written(p[1], p[2], Run(sent, p))]
  PROVE  /\ q \notin sent => Held(Where(q), writes) = screen[Where(q)]
         /\ q \in sent /\ q \notin OverMiddle(sent) => Held(Where(q), writes) = Sends(q)
<1> DEFINE place == Where(q)
           reaching == {p \in DOMAIN writes : place \in DOMAIN writes[p]}
<1>1. DOMAIN writes = Starts(sent) /\ \A p \in Starts(sent) : writes[p] = Written(p[1], p[2], Run(sent, p))
  OBVIOUS
<1>2. Held(place, writes) = IF reaching = {} THEN screen[place] ELSE writes[Latest(reaching)][place]
  BY DEF Held
<1> HIDE DEF place
<1>3. \A p \in reaching : p \in Starts(sent) /\ InRun(sent, p, q) /\ writes[p][place] = Sends(q)
  BY <1>1, WrittenReaches DEF place
<1>4. ASSUME q \notin sent PROVE Held(place, writes) = screen[place]
  <2>1. reaching = {}
    BY <1>3, <1>4, RunsAre
  <2> QED
    BY <1>2, <2>1
<1>5. ASSUME q \in sent, q \notin OverMiddle(sent) PROVE Held(place, writes) = Sends(q)
  <2>1. PICK p : InRun(sent, p, q) /\ {q[1]} \X (p[2] .. q[2]) \subseteq sent
    BY <1>5, RunsAre
  <2>2. p \in reaching
    BY <1>1, <1>5, <2>1, WrittenReaches DEF InRun, place
  <2>3. reaching = {p}
    <3>1. \A r \in reaching : InRun(sent, r, q)
      BY <1>3
    <3> HIDE DEF reaching
    <3>2. \A r \in reaching : r = p
      BY <2>1, <3>1, RunsAre
    <3> QED
      BY <2>2, <3>2
  <2>4. Latest(reaching) = p
    <3>1. p[1] \in Nat /\ p[2] \in Nat
      BY <2>1, RunIs DEF InRun
    <3> DEFINE After(x, y) == y[1] < x[1] \/ (y[1] = x[1] /\ y[2] <= x[2])
    <3>2. Latest(reaching) = CHOOSE x \in reaching : \A y \in reaching : After(x, y)
      BY DEF Latest
    <3>3. After(p, p)
      BY <3>1
    <3> HIDE DEF After, reaching
    <3> QED
      BY <2>3, <3>2, <3>3
  <2> QED
    BY <1>2, <1>3, <2>2, <2>4
<1> QED
  BY <1>4, <1>5 DEF place

-----------------------------------------------------------------------------
(* Widgets and buffers *)

\* Letters and the blank are no characters that can be defined.
LEMMA LettersAre ==
  ASSUME NEW d \in Drivers
  PROVE  Letters(d) \subseteq Nat /\ (Letters(d) \union {Blank}) \intersect UserChars = {}
<1>1. \A e \in Drivers : Letters(e) \subseteq Nat /\ (Letters(e) \union {Blank}) \intersect UserChars = {}
  BY TextDisplayAssumption, Zenon
<1> QED
  BY <1>1

\* Texts have a place and a width.
LEMMA TextsAre ==
  ASSUME NEW d \in Drivers, NEW w \in Texts(d)
  PROVE  w.row \in Nat /\ w.col \in Nat /\ w.width \in Nat
<1>1. \A e \in Drivers : \A v \in Texts(e) : v.row \in Nat /\ v.col \in Nat /\ v.width \in Nat
  BY TextDisplayAssumption, Zenon
<1> QED
  BY <1>1

\* Bars lie on the display, and no text lies over them.
LEMMA BarsAre ==
  ASSUME NEW d \in Drivers, NEW b \in Bars(d)
  PROVE  /\ b.row \in Nat /\ b.col \in Nat /\ b.len \in Nat \ {0}
         /\ b.dir \in Directions /\ b.style \in Nat
         /\ Lengths(b) \subseteq Nat \X Nat
         /\ BarCells(b) \subseteq DisplayCells
         /\ \A w \in Texts(d) : TextCells(w) \intersect BarCells(b) = {}
<1>1. \A e \in Drivers : \A c \in Bars(e) :
         /\ c.row \in Nat /\ c.col \in Nat /\ c.len \in Nat \ {0}
         /\ c.dir \in Directions /\ c.style \in Nat
         /\ Lengths(c) \subseteq Nat \X Nat
         /\ BarCells(c) \subseteq DisplayCells
         /\ \A w \in Texts(e) : TextCells(w) \intersect BarCells(c) = {}
  BY TextDisplayAssumption, Zenon
<1> QED
  BY <1>1

\* Icons lie on the display, each on a cell of its own, and an icon has one first widget.
LEMMA IconsAre ==
  ASSUME NEW d \in Drivers
  PROVE  /\ IsFiniteSet(Icons(d))
         /\ \A w \in Icons(d) :
              /\ <<w.row, w.col>> \in DisplayCells /\ w.child \in BOOLEAN
              /\ \A v \in Texts(d) : <<w.row, w.col>> \notin TextCells(v)
              /\ \A b \in Bars(d) : <<w.row, w.col>> \notin BarCells(b)
              /\ \A v \in Icons(d) : <<v.row, v.col>> = <<w.row, w.col>> => v = w
              /\ \A v \in Icons(d) : v.name = w.name /\ ~ v.child /\ ~ w.child => v = w
<1>1. \A e \in Drivers :
         /\ IsFiniteSet(Icons(e))
         /\ \A w \in Icons(e) :
              /\ <<w.row, w.col>> \in DisplayCells /\ w.child \in BOOLEAN
              /\ \A v \in Texts(e) : <<w.row, w.col>> \notin TextCells(v)
              /\ \A b \in Bars(e) : <<w.row, w.col>> \notin BarCells(b)
              /\ \A v \in Icons(e) : <<v.row, v.col>> = <<w.row, w.col>> => v = w
              /\ \E v \in Icons(e) : /\ v.name = w.name /\ ~ v.child
                                      /\ \A x \in Icons(e) : x.name = w.name /\ ~ x.child => x = v
  BY TextDisplayAssumption, Zenon
<1>2. ASSUME NEW w \in Icons(d), NEW v \in Icons(d), v.name = w.name, ~ v.child, ~ w.child PROVE v = w
  <2> DEFINE Only(e, y) == \E u \in Icons(e) : /\ u.name = y.name /\ ~ u.child
                                               /\ \A x \in Icons(e) : x.name = y.name /\ ~ x.child => x = u
  <2>0. \E u \in Icons(d) : \A x \in Icons(d) : x.name = w.name /\ ~ x.child => x = u
    <3>1. \A e \in Drivers : \A y \in Icons(e) : Only(e, y)
      BY <1>1, Zenon
    <3>2. Only(d, w)
      <4> HIDE DEF Only
      <4> QED
        BY <3>1
    <3> QED
      BY <3>2, Zenon
  <2>1. PICK u \in Icons(d) : \A x \in Icons(d) : x.name = w.name /\ ~ x.child => x = u
    BY <2>0
  <2> QED
    BY <1>2, <2>1
<1> QED
  BY <1>1, <1>2

\* The characters that a layout may hold.
Codes == UserChars \union Letters(driver) \union {Blank} \union {Fixed[s].ascii : s \in DOMAIN Fixed}

\* The buffers have the sizes of display and layout, and the display buffer says what the
\* layout says.
Buffers ==
  /\ driver \in Drivers
  /\ size = <<size[1], size[2]>> /\ size[1] \in Nat /\ size[2] \in Nat /\ DROWS <= size[1] /\ DCOLS <= size[2]
  /\ DOMAIN LayoutFB = LayoutCells(size[1], size[2]) /\ DOMAIN BarFB = LayoutCells(size[1], size[2])
  /\ \A p \in DOMAIN LayoutFB : LayoutFB[p] \in Codes
  /\ DOMAIN DisplayFB = DisplayCells
  /\ \A p \in DisplayCells : DisplayFB[p] = LayoutFB[p]

\* Characters are numbers; the complement of one is none of them.
LEMMA CodesAre ==
  ASSUME driver \in Drivers
  PROVE  Codes \subseteq Nat /\ Wrong \notin Codes
<1>1. UserChars \subseteq Nat
  BY TextDisplayAssumption, BarSegmentsAssumption DEF UserChars
<1>2. Letters(driver) \subseteq Nat
  BY LettersAre
<1>3. \A s \in DOMAIN Fixed : Fixed[s].ascii \in Nat
  BY FixedAre
<1> DEFINE L == Letters(driver)
           F == {Fixed[s].ascii : s \in DOMAIN Fixed}
<1>4. Codes \subseteq Nat
  <2>1. F \subseteq Nat
    BY <1>3
  <2>2. Codes = UserChars \union L \union {Blank} \union F /\ L \subseteq Nat
    BY <1>2 DEF Codes
  <2> HIDE DEF L, F
  <2> QED
    BY <1>1, <2>1, <2>2 DEF Blank
<1> QED
  BY <1>4 DEF Wrong

\* The layout is at least as large as the display.
LEMMA LargeLayout ==
  ASSUME Buffers
  PROVE  DisplayCells \subseteq DOMAIN LayoutFB
<1>1. /\ size[1] \in Nat /\ size[2] \in Nat /\ DROWS <= size[1] /\ DCOLS <= size[2]
      /\ DOMAIN LayoutFB = (0 .. size[1] - 1) \X (0 .. size[2] - 1)
  BY DEF Buffers, LayoutCells
<1>2. 0 .. DROWS - 1 \subseteq 0 .. size[1] - 1 /\ 0 .. DCOLS - 1 \subseteq 0 .. size[2] - 1
  BY <1>1, Sizes
<1> QED
  BY <1>1, <1>2 DEF DisplayCells

\* blit sends cells of the display, and those that differ.
LEMMA SentIs ==
  ASSUME NEW layout, NEW display, NEW region, NEW sent, sent = Sent(layout, display, region)
  PROVE  /\ sent \subseteq DisplayCells
         /\ \A p \in region \intersect DisplayCells : layout[p] # display[p] => p \in sent
<1> DEFINE changed == {p \in region \intersect DisplayCells : layout[p] # display[p]}
           Between(p, q) == {p[1]} \X (p[2] + 1 .. q[2] - 1)
           runs == {r \in changed \X changed :
                      /\ r[1][1] = r[2][1] /\ r[1][2] < r[2][2]
                      /\ Between(r[1], r[2]) \intersect changed = {}
                      /\ r[2][2] - r[1][2] - 1 <= GOTO_COST}
<1>1. sent = changed \union UNION {Between(r[1], r[2]) : r \in runs}
  BY DEF Sent
<1>2. \A p, q \in DisplayCells : Between(p, q) \subseteq DisplayCells
  <2> SUFFICES ASSUME NEW p \in DisplayCells, NEW q \in DisplayCells, NEW c \in p[2] + 1 .. q[2] - 1
               PROVE  <<p[1], c>> \in DisplayCells
    OBVIOUS
  <2>1. p[1] \in 0 .. DROWS - 1 /\ p[2] \in 0 .. DCOLS - 1 /\ q[2] \in 0 .. DCOLS - 1
    BY CellIs
  <2>2. c \in 0 .. DCOLS - 1
    BY <2>1, Sizes
  <2> QED
    BY <2>1, <2>2 DEF DisplayCells
<1>3. \A r \in runs : r[1] \in DisplayCells /\ r[2] \in DisplayCells
  OBVIOUS
<1>4. changed \subseteq DisplayCells
  OBVIOUS
<1> HIDE DEF runs, Between
<1>5. sent \subseteq DisplayCells
  BY <1>1, <1>2, <1>3, <1>4
<1> QED
  BY <1>1, <1>5

\* What the callers of blit hand it: cells outside the region are as they were, and those
\* whose character has changed are invalid.
Prepared(layout, display, region) ==
  /\ \A q \in DisplayCells : layout[q] \in Codes
  /\ \A q \in DisplayCells : q \in region \/ layout[q] = LayoutFB[q]
  /\ \A q \in DisplayCells : display[q] = DisplayFB[q] \/ (q \in region /\ display[q] = Wrong)

\* After blit the display buffer says what the layout says.
LEMMA BlitCopies ==
  ASSUME Buffers, NEW layout, NEW display, NEW region, blit(layout, display, region), Prepared(layout, display, region)
  PROVE  LayoutFB' = layout /\ DOMAIN DisplayFB' = DisplayCells /\ \A p \in DisplayCells : DisplayFB'[p] = LayoutFB'[p]
<1> DEFINE sent == Sent(layout, display, region)
<1>1. LayoutFB' = layout /\ DisplayFB' = [p \in DisplayCells |-> IF p \in sent THEN LayoutFB'[p] ELSE display[p]]
  BY DEF blit
<1> HIDE DEF sent
<1>2. \A p \in region \intersect DisplayCells : layout[p] # display[p] => p \in sent
  BY SentIs DEF sent
<1>3. ASSUME NEW p \in DisplayCells, p \notin sent PROVE display[p] = layout[p]
  <2>1. Codes \subseteq Nat /\ Wrong \notin Codes
    BY CodesAre DEF Buffers
  <2>2. layout[p] # Wrong /\ DisplayFB[p] = LayoutFB[p]
    BY <2>1 DEF Prepared, Buffers
  <2> QED
    BY <1>2, <1>3, <2>2 DEF Prepared
<1> QED
  BY <1>1, <1>3

-----------------------------------------------------------------------------
(* What the display holds *)

\* What the display should hold for a cell.
Shown(p) == IF INVALIDATE THEN Picture(LayoutFB[p], glyph[1]) ELSE LayoutFB[p]

\* The display holds what the layout says.
OnScreen ==
  /\ DOMAIN screen = {Where(p) : p \in {q \in DisplayCells : Visible(q)}}
  /\ Sound => \A p \in OwnCells \ folded : screen[Where(p)] = Shown(p)

\* blit keeps that so: it sends each cell that differs, and those whose bitmap has changed are
\* invalid.
LEMMA BlitShows ==
  ASSUME Buffers, Below, OnScreen, driver' = driver, Sound' => Sound,
         NEW layout, NEW display, NEW region, blit(layout, display, region), Prepared(layout, display, region),
         INVALIDATE /\ Sound' => \A q \in OwnCells : display[q] # Wrong =>
           Picture(layout[q], glyph'[1]) = Picture(layout[q], glyph[1])
  PROVE  OnScreen'
<1> DEFINE sent == Sent(layout, display, region)
           writes == [p \in Starts(sent) |-> Written(p[1], p[2], Run(sent, p))]
<1>1. /\ LayoutFB' = layout
      /\ screen' = [place \in DOMAIN screen |-> Held(place, writes)]
      /\ folded' = (folded \ sent) \union OverMiddle(sent)
  BY DEF blit
<1>2. sent \subseteq DisplayCells /\ \A p \in region \intersect DisplayCells : layout[p] # display[p] => p \in sent
  BY SentIs
<1>3. \A p : Where(p)' = Where(p) /\ (Visible(p)' <=> Visible(p))
  BY DEF Where, Visible
<1>4. (INVALIDATE' <=> INVALIDATE) /\ OwnCells' = OwnCells
  BY <1>3 DEF INVALIDATE, OwnCells
<1> HIDE DEF sent, writes
<1>5. DOMAIN screen' = DOMAIN screen
  BY <1>1
<1>6. DOMAIN screen' = {Where(p)' : p \in {q \in DisplayCells : Visible(q)'}}
  BY <1>3, <1>5 DEF OnScreen
<1>7. ASSUME Sound', NEW q \in OwnCells, q \notin folded' PROVE screen'[Where(q)] = Shown(q)'
  <2>1. q \in DisplayCells /\ Visible(q)
    BY DEF OwnCells
  <2>2. Where(q) \in DOMAIN screen /\ screen'[Where(q)] = Held(Where(q), writes)
    BY <1>1, <2>1 DEF OnScreen
  <2>3. Shown(q)' = Sends(q)
    BY <1>4 DEF Shown, Sends
  <2>4. CASE q \in sent
    <3>1. q \notin OverMiddle(sent)
      BY <1>1, <1>7
    <3>2. Held(Where(q), writes) = Sends(q)
      BY <1>2, <2>1, <2>4, <3>1, HeldIs DEF writes
    <3> QED
      BY <2>2, <2>3, <3>2
  <2>5. CASE q \notin sent
    <3>1. Held(Where(q), writes) = screen[Where(q)]
      BY <1>2, <2>1, <2>5, HeldIs DEF writes
    <3>2. q \notin folded
      BY <1>1, <1>7, <2>5
    <3>3. screen[Where(q)] = Shown(q)
      BY <1>7, <3>2 DEF OnScreen
    <3>4. layout[q] \in Codes /\ Wrong \notin Codes
      BY <2>1, CodesAre DEF Prepared, Buffers
    <3>5. q \in region => layout[q] = display[q]
      BY <1>2, <2>1, <2>5
    <3>6. display[q] # Wrong
      <4>1. DisplayFB[q] \in Codes
        BY <2>1, LargeLayout DEF Buffers
      <4> QED
        BY <2>1, <3>4, <3>5, <4>1 DEF Prepared
    <3>7. layout[q] = LayoutFB[q]
      <4>1. display[q] = DisplayFB[q] /\ DisplayFB[q] = LayoutFB[q]
        BY <2>1, <3>6 DEF Prepared, Buffers
      <4> QED
        BY <2>1, <3>5, <4>1 DEF Prepared
    <3>8. Shown(q)' = Shown(q)
      BY <1>1, <1>4, <1>7, <3>6, <3>7 DEF Shown
    <3> QED
      BY <2>2, <3>1, <3>3, <3>8
  <2> QED
    BY <2>4, <2>5
<1>8. Sound' => \A p \in OwnCells' \ folded' : screen'[Where(p)'] = Shown(p)'
  BY <1>3, <1>4, <1>7
<1> QED
  BY <1>6, <1>8 DEF OnScreen

-----------------------------------------------------------------------------
(* The invariant *)

\* Cells outside the bars have no segment; the others belong to a bar of their direction.
Cells ==
  \A p \in DOMAIN BarFB :
    /\ FitCell(BarFB[p])
    /\ BarFB[p].dir = 0 => BarFB[p].segment = 0
    /\ BarFB[p].dir # 0 => \E b \in Bars(driver) : p \in BarCells(b) /\ BarFB[p].dir = b.dir

\* The segments that are not fixed are those of bars, with a character each that bars may define.
Segments ==
  /\ Segment \in Seq(SegmentSet) /\ Len(Segment) >= fSegment
  /\ \A s \in fSegment + 1 .. Len(Segment) :
       /\ Segment[s].ascii \in 0 .. Room - 1
       /\ \E b \in Bars(driver) : Segment[s].dirs = {b.dir}
  /\ \A s, t \in fSegment + 1 .. Len(Segment) : Segment[s].ascii = Segment[t].ascii => s = t

\* All controllers have the same bitmaps.
Fonts ==
  /\ DOMAIN glyph = (IF driver = "HD44780" THEN allControllers ELSE {1})
  /\ \A k \in DOMAIN glyph : glyph[k] = glyph[1]
  /\ DOMAIN glyph[1] = 0 .. CHARS - 1

\* The character of a segment has its bitmap.
Bitmaps == \A s \in fSegment + 1 .. Len(Segment) : glyph[1][Segment[s].ascii] = Bitmap(Segment[s])

\* The characters that bars may define.
BarChars == CHAR0 .. CHAR0 + Room - 1

\* Those that icons may.
IconChars == CHAR0 + Room .. CHAR0 + CHARS - 1

\* Only cells of bars show characters of bars.
BarsOwn == \A p \in DOMAIN BarFB : LayoutFB[p] \in BarChars => BarFB[p].dir # 0

\* Cells of bars show the characters of their segments.
BarsDrawn ==
  Sound => \A p \in DOMAIN BarFB : BarFB[p].dir # 0 =>
    /\ BarFB[p].segment \in 1 .. Len(Segment)
    /\ BarFB[p].segment > fSegment => LayoutFB[p] = CHAR0 + Segment[BarFB[p].segment].ascii

\* The data of icons.
IconSet == [ascii : Int, curmap : Int, prvmap : Int, visible : BOOLEAN]

\* Each icon that has a character has one of its own, of those that have been handed out.
IconData ==
  /\ DOMAIN Icon = IconNames
  /\ icon_counter \in 0 .. ICONS
  /\ \A n \in IconNames :
       /\ Icon[n] \in IconSet
       /\ Icon[n].curmap \in 0 .. MAXMAP /\ Icon[n].prvmap \in -1 .. MAXMAP
       /\ Icon[n].ascii \in {-1, -2} \union (CHAR0 + CHARS - icon_counter .. CHAR0 + CHARS - 1)
       /\ Icon[n].ascii >= 0 /\ Icon[n].visible => Icon[n].prvmap = Icon[n].curmap
  /\ \A m, n \in IconNames : Icon[n].ascii >= 0 /\ Icon[n].ascii = Icon[m].ascii => m = n

\* The character of an icon has the bitmap that was defined last.
IconBitmaps ==
  \A n \in IconNames :
    /\ Icon[n].ascii < 0 => Icon[n].prvmap = -1
    /\ Icon[n].prvmap >= 0 => glyph[1][Icon[n].ascii - CHAR0] = <<"icon", n, Icon[n].prvmap>>

\* A widget of an icon that can be seen shows the character of its icon.
IconDrawn(w) ==
  LayoutFB[<<w.row, w.col>>] # Blank =>
    /\ Icon[w.name].ascii >= 0 /\ LayoutFB[<<w.row, w.col>>] = Icon[w.name].ascii
    /\ glyph[1][Icon[w.name].ascii - CHAR0] = <<"icon", w.name, Icon[w.name].prvmap>>
    /\ w.child \/ Icon[w.name].prvmap = Icon[w.name].curmap

\* That of all widgets.
IconsDrawn == \A w \in Icons(driver) : IconDrawn(w)

\* Only icons show characters of icons.
IconsOwn ==
  \A p \in DOMAIN LayoutFB : LayoutFB[p] \in IconChars => \E w \in Icons(driver) : p = <<w.row, w.col>>

\* The inductive invariant: buffers, cells, segments and icons agree on who owns which character.
Inv == /\ Buffers /\ Cells /\ Segments /\ Fonts /\ Bitmaps /\ BarsOwn /\ BarsDrawn
       /\ IconData /\ IconBitmaps /\ IconsDrawn /\ IconsOwn

-----------------------------------------------------------------------------

\* How the characters are shared between bars and icons.
LEMMA Rooms == CHARS \in Nat /\ ICONS \in Nat /\ ICONS <= CHARS /\ Room \in Nat /\ CHAR0 \in Nat /\ Room = CHARS - ICONS
BY BarSegmentsAssumption, TextDisplayAssumption DEF Room

\* A character that can be defined is one of the bars or one of the icons.
LEMMA CharsAre ==
  ASSUME NEW c \in UserChars
  PROVE  /\ c \in BarChars \/ c \in IconChars
         /\ c - CHAR0 \in 0 .. CHARS - 1
         /\ c \in BarChars <=> c - CHAR0 \in 0 .. Room - 1
BY Rooms DEF UserChars, BarChars, IconChars

\* The types follow from the invariant.
LEMMA InvTyped ==
  ASSUME Inv
  PROVE  TypeOK
<1> DEFINE codes == UserChars \union Letters(driver) \union {Blank} \union {s.ascii : s \in Range(Fixed)}
<1>1. codes = Codes
  <2>1. Range(Fixed) = {Fixed[s] : s \in DOMAIN Fixed}
    BY DEF Range
  <2>2. {s.ascii : s \in Range(Fixed)} = {Fixed[s].ascii : s \in DOMAIN Fixed}
    BY <2>1
  <2> QED
    BY <2>2, Zenon DEF Codes
<1> HIDE DEF codes
<1>2. DisplayCells \subseteq DOMAIN LayoutFB
  BY LargeLayout DEF Inv
<1>3. Range(LayoutFB) \subseteq codes /\ Range(DisplayFB) \subseteq codes
  <2>1. \A p \in DOMAIN LayoutFB : LayoutFB[p] \in Codes
    BY DEF Inv, Buffers
  <2>2. \A p \in DOMAIN DisplayFB : DisplayFB[p] \in Codes
    BY <1>2, <2>1 DEF Inv, Buffers
  <2> QED
    BY <1>1, <2>1, <2>2 DEF Range
<1>4. \A n \in IconNames : /\ Icon[n].ascii \in UserChars \union {-1, -2}
                           /\ Icon[n].curmap \in 0 .. MAXMAP
                           /\ Icon[n].prvmap \in -1 .. MAXMAP
  <2> SUFFICES ASSUME NEW n \in IconNames
               PROVE  Icon[n].ascii \in UserChars \union {-1, -2} /\ Icon[n].curmap \in 0 .. MAXMAP
                      /\ Icon[n].prvmap \in -1 .. MAXMAP
    OBVIOUS
  <2> DEFINE a == Icon[n].ascii
  <2>1. /\ a \in {-1, -2} \union (CHAR0 + CHARS - icon_counter .. CHAR0 + CHARS - 1) /\ icon_counter \in 0 .. ICONS
        /\ Icon[n].curmap \in 0 .. MAXMAP /\ Icon[n].prvmap \in -1 .. MAXMAP
    BY DEF Inv, IconData
  <2> HIDE DEF a
  <2>2. a \in UserChars \union {-1, -2}
    BY <2>1, Rooms DEF UserChars
  <2> QED
    BY <2>1, <2>2 DEF a
<1>5. \A s \in fSegment + 1 .. Len(Segment) : Segment[s].ascii \in -1 .. Room - 1
  <2>1. \A x \in 0 .. Room - 1 : x \in -1 .. Room - 1
    BY Rooms
  <2> QED
    BY <2>1 DEF Inv, Segments
<1>6. \A p \in DOMAIN BarFB : BarFB[p].segment \in Nat
  <2>1. \A c : c \in CellSet => c.segment \in Nat
    BY DEF CellSet
  <2> QED
    BY <2>1, Zenon DEF Inv, Cells, FitCell
<1>7. DOMAIN LayoutFB = LayoutCells(size[1], size[2]) /\ DOMAIN BarFB = DOMAIN LayoutFB
  BY DEF Inv, Buffers
<1> QED
  BY <1>2, <1>3, <1>4, <1>5, <1>6, <1>7 DEF TypeOK, codes

\* All controllers, and so all cells, have the same bitmaps.
LEMMA FontIs ==
  ASSUME Fonts, NEW p
  PROVE  Font(p) = glyph[1]
<1>1. CASE driver = "HD44780"
  <2>1. 1 \in allControllers
    BY ControllersAre
  <2>2. Visible(p) => Where(p)[1] \in allControllers
    <3> SUFFICES ASSUME Visible(p) PROVE Where(p)[1] \in allControllers
      OBVIOUS
    <3>1. \E c \in allControllers : p[1] \in Rows(c - 1) .. Rows(c) - 1
      BY <1>1 DEF Visible, OnGlass
    <3> DEFINE d == CHOOSE c \in allControllers : p[1] \in Rows(c - 1) .. Rows(c) - 1
    <3>2. d \in allControllers
      BY <3>1
    <3>3. Where(p)[1] = d
      BY <1>1 DEF Where, Place
    <3> QED
      BY <3>2, <3>3
  <2> QED
    BY <1>1, <2>1, <2>2 DEF Font, Fonts
<1>2. CASE driver # "HD44780"
  BY <1>2 DEF Font, Where, Fonts
<1> QED
  BY <1>1, <1>2

\* So does that cells show their pictures: the controllers have the same bitmaps, and the owner
\* of each character has defined it.
LEMMA InvShows ==
  ASSUME Inv
  PROVE  CellsShowPictures
<1>1. BarsShowSegments
  <2> SUFFICES ASSUME Sound, NEW p \in DOMAIN BarFB, BarFB[p].segment > fSegment
               PROVE  /\ BarFB[p].segment <= Len(Segment)
                      /\ Picture(LayoutFB[p], Font(p)) = Bitmap(Segment[BarFB[p].segment])
    BY DEF BarsShowSegments
  <2> DEFINE s == BarFB[p].segment
  <2>1. s \in Nat /\ fSegment \in Nat /\ Segment \in Seq(SegmentSet) /\ Len(Segment) \in Nat
    <3>1. \A c : c \in CellSet => c.segment \in Nat
      BY DEF CellSet
    <3>2. Segment \in Seq(SegmentSet)
      BY DEF Inv, Segments
    <3> QED
      BY <3>1, <3>2, FixedAre, LenProperties, Zenon DEF Inv, Cells, FitCell
  <2>2. BarFB[p].dir # 0
    BY <2>1 DEF Inv, Cells
  <2>3. s \in 1 .. Len(Segment) /\ LayoutFB[p] = CHAR0 + Segment[s].ascii
    BY <2>2 DEF Inv, BarsDrawn
  <2>4. s \in fSegment + 1 .. Len(Segment)
    BY <2>1, <2>3
  <2>5. Segment[s].ascii \in 0 .. Room - 1 /\ glyph[1][Segment[s].ascii] = Bitmap(Segment[s])
    BY <2>4 DEF Inv, Segments, Bitmaps
  <2> DEFINE a == Segment[s].ascii
             l == LayoutFB[p]
  <2>6. l = CHAR0 + a /\ a \in 0 .. Room - 1
    BY <2>3, <2>5
  <2> HIDE DEF a, l
  <2>7. l \in UserChars /\ l - CHAR0 = a
    BY <2>6, Rooms DEF UserChars
  <2>8. Picture(l, glyph[1]) = glyph[1][a]
    BY <2>7 DEF Picture
  <2>9. Font(p) = glyph[1]
    BY FontIs DEF Inv
  <2> QED
    BY <2>4, <2>5, <2>8, <2>9, <2>1, <2>3 DEF a, l
<1>2. IconsShowBitmap
  <2> SUFFICES ASSUME NEW w \in Icons(driver), LayoutFB[<<w.row, w.col>>] # Blank
               PROVE  /\ Picture(LayoutFB[<<w.row, w.col>>], Font(<<w.row, w.col>>))
                           = <<"icon", w.name, Icon[w.name].prvmap>>
                      /\ w.child \/ Icon[w.name].prvmap = Icon[w.name].curmap
    BY DEF IconsShowBitmap
  <2> DEFINE a == Icon[w.name].ascii
  <2>1. /\ a >= 0 /\ LayoutFB[<<w.row, w.col>>] = a /\ glyph[1][a - CHAR0] = <<"icon", w.name, Icon[w.name].prvmap>>
        /\ w.child \/ Icon[w.name].prvmap = Icon[w.name].curmap
    BY DEF Inv, IconsDrawn, IconDrawn
  <2>2. w.name \in IconNames
    BY DEF IconNames
  <2>3. a \in {-1, -2} \union (CHAR0 + CHARS - icon_counter .. CHAR0 + CHARS - 1) /\ icon_counter \in 0 .. ICONS
    BY <2>2 DEF Inv, IconData
  <2> HIDE DEF a
  <2>4. a \in UserChars
    BY <2>1, <2>3, Rooms DEF UserChars
  <2>5. Font(<<w.row, w.col>>) = glyph[1]
    BY FontIs DEF Inv
  <2> QED
    BY <2>1, <2>4, <2>5 DEF Picture
<1> QED
  BY <1>1, <1>2 DEF CellsShowPictures

-----------------------------------------------------------------------------
(* Bitmaps *)

\* A new bitmap is one on all controllers, and the other characters keep theirs.
LEMMA DefinedFonts ==
  ASSUME Fonts, driver' = driver, NEW bitmaps, glyph' = Defined(glyph, bitmaps)
  PROVE  /\ Fonts'
         /\ \A c \in 0 .. CHARS - 1 : glyph'[1][c] = IF c \in DOMAIN bitmaps THEN bitmaps[c] ELSE glyph[1][c]
<1>1. \A k \in DOMAIN glyph : Redefined(glyph[k], bitmaps) = Redefined(glyph[1], bitmaps)
  BY DEF Fonts
<1>2. DOMAIN Redefined(glyph[1], bitmaps) = 0 .. CHARS - 1
  BY DEF Redefined, Fonts
<1>3. \A c \in 0 .. CHARS - 1 : Redefined(glyph[1], bitmaps)[c] = IF c \in DOMAIN bitmaps THEN bitmaps[c] ELSE glyph[1][c]
  BY DEF Redefined, Fonts
<1>4. CASE driver = "HD44780"
  <2>1. 1 \in DOMAIN glyph /\ DOMAIN glyph = allControllers
    BY <1>4, ControllersAre DEF Fonts
  <2>2. glyph' = [k \in DOMAIN glyph |-> Redefined(glyph[k], bitmaps)]
    BY <1>4 DEF Defined, drv_HD_defchar
  <2>3. \A k \in DOMAIN glyph' : glyph'[k] = Redefined(glyph[1], bitmaps)
    BY <1>1, <2>2
  <2>4. DOMAIN glyph' = allControllers /\ glyph'[1] = Redefined(glyph[1], bitmaps)
    BY <2>1, <2>2, <2>3
  <2> QED
    BY <1>2, <1>3, <1>4, <2>3, <2>4 DEF Fonts
<1>5. CASE driver # "HD44780"
  <2>1. DOMAIN glyph = {1}
    BY <1>5 DEF Fonts
  <2>2. glyph' = [glyph EXCEPT ![1] = Redefined(glyph[1], bitmaps)]
    BY <1>5 DEF Defined
  <2>3. DOMAIN glyph' = {1} /\ glyph'[1] = Redefined(glyph[1], bitmaps)
    BY <2>1, <2>2
  <2> QED
    BY <1>2, <1>3, <1>5, <2>3 DEF Fonts
<1> QED
  BY <1>4, <1>5

-----------------------------------------------------------------------------
(* Init *)

\* The invariant holds at the start.
LEMMA InitInv == Init => Inv
<1> SUFFICES ASSUME Init PROVE Inv
  OBVIOUS
<1>1. /\ driver \in Drivers /\ size = <<DROWS, DCOLS>> /\ LayoutFB = [p \in DisplayCells |-> Blank]
      /\ DisplayFB = [p \in DisplayCells |-> Blank] /\ BarFB = [p \in DisplayCells |-> NoBar] /\ Segment = Fixed
      /\ Icon = [n \in IconNames |-> [ascii |-> -1, curmap |-> 0, prvmap |-> -1, visible |-> FALSE]]
      /\ glyph = [k \in IF driver = "HD44780" THEN allControllers ELSE {1} |-> [c \in 0 .. CHARS - 1 |-> Garbage]]
  BY DEF Init
<1>2. DisplayCells = LayoutCells(DROWS, DCOLS)
  BY DEF DisplayCells, LayoutCells
<1>3. Buffers
  BY <1>1, <1>2, Sizes DEF Buffers, Codes
<1>4. Cells
  <2>1. FitCell(NoBar) /\ NoBar.dir = 0 /\ NoBar.segment = 0
    BY DEF NoBar, FitCell, CellSet
  <2> QED
    BY <1>1, <2>1 DEF Cells
<1>5. Segments /\ Bitmaps
  <2>1. Segment \in Seq(SegmentSet) /\ Len(Segment) = fSegment /\ fSegment \in Nat
    BY <1>1, FixedAre DEF fSegment
  <2>2. fSegment + 1 .. Len(Segment) = {}
    BY <2>1
  <2> QED
    BY <2>1, <2>2 DEF Segments, Bitmaps
<1>6. Fonts
  <2>1. 1 \in allControllers
    BY ControllersAre
  <2> QED
    BY <1>1, <2>1 DEF Fonts
<1>7. Blank \notin UserChars
  BY <1>1, LettersAre
<1>8. \A p \in DOMAIN LayoutFB : LayoutFB[p] \notin BarChars /\ LayoutFB[p] \notin IconChars
  <2>1. \A c : c \in BarChars \/ c \in IconChars => c \in UserChars
    BY Rooms DEF BarChars, IconChars, UserChars
  <2> QED
    BY <1>1, <1>7, <2>1
<1>9. BarsOwn /\ IconsOwn
  BY <1>1, <1>8 DEF BarsOwn, IconsOwn
<1>10. BarsDrawn
  BY <1>1 DEF BarsDrawn, NoBar
<1>11. IconData /\ IconBitmaps
  <2> DEFINE i == [ascii |-> -1, curmap |-> 0, prvmap |-> -1, visible |-> FALSE]
  <2>1. i \in IconSet /\ i.curmap = 0 /\ i.prvmap = -1 /\ i.ascii = -1
    BY DEF IconSet
  <2>2. DOMAIN Icon = IconNames /\ \A n \in IconNames : Icon[n] = i
    BY <1>1
  <2> HIDE DEF i
  <2>3. icon_counter = 0
    <3>1. {n \in IconNames : Icon[n].ascii >= 0} = {}
      BY <2>1, <2>2
    <3> QED
      BY <3>1, FS_EmptySet, Zenon DEF icon_counter
  <2>4. MAXMAP \in Nat
    BY TextDisplayAssumption
  <2> QED
    BY <2>1, <2>2, <2>3, <2>4, Rooms DEF IconData, IconBitmaps
<1>12. IconsDrawn
  <2>1. \A w \in Icons(driver) : <<w.row, w.col>> \in DisplayCells
    BY <1>1, IconsAre, Zenon
  <2>2. \A p \in DisplayCells : LayoutFB[p] = Blank
    BY <1>1
  <2> QED
    BY <2>1, <2>2 DEF IconsDrawn, IconDrawn
<1> QED
  BY <1>3, <1>4, <1>5, <1>6, <1>9, <1>10, <1>11, <1>12 DEF Inv

-----------------------------------------------------------------------------
(* Texts *)

\* A layout that grows keeps its cells.
LEMMA GrownCells ==
  ASSUME NEW m \in Nat, NEW n \in Nat, NEW r \in Nat, NEW c \in Nat, m <= r, n <= c
  PROVE  LayoutCells(m, n) \subseteq LayoutCells(r, c)
<1>1. 0 .. m - 1 \subseteq 0 .. r - 1 /\ 0 .. n - 1 \subseteq 0 .. c - 1
  OBVIOUS
<1> QED
  BY <1>1 DEF LayoutCells

\* Nothing changes for icons while they are left alone.
LEMMA SameIcons ==
  ASSUME IconData, UNCHANGED <<driver, Icon>>
  PROVE  IconData' /\ IconNames' = IconNames
<1>1. IconNames' = IconNames
  BY DEF IconNames
<1>2. icon_counter' = icon_counter
  BY <1>1 DEF icon_counter
<1> QED
  BY <1>1, <1>2 DEF IconData

\* A text is drawn: no cell of a bar or of an icon changes.
LEMMA TextStep ==
  ASSUME Inv, NEW w \in Texts(driver), NEW text \in [1 .. w.width -> Letters(driver)], text_draw(w, text)
  PROVE  /\ Inv'
         /\ Below /\ OnScreen => OnScreen'
<1> DEFINE r == Greater(w.row + 1, size[1])
           c == Greater(w.col + w.width, size[2])
           cells == TextCells(w)
           grown == Enlarged(LayoutFB, r, c, Blank)
           layout == [p \in DOMAIN grown |-> IF p \in cells THEN text[p[2] - w.col + 1] ELSE grown[p]]
<1>1. /\ size' = <<r, c>>
      /\ BarFB' = Enlarged(BarFB, r, c, NoBar)
      /\ driver' = driver /\ Segment' = Segment /\ Icon' = Icon /\ glyph' = glyph
      /\ UNCHANGED <<failed, selfMerged>>
      /\ blit(layout, DisplayFB, cells)
  BY DEF text_draw
<1>2. /\ driver \in Drivers /\ size[1] \in Nat /\ size[2] \in Nat /\ DROWS <= size[1] /\ DCOLS <= size[2]
      /\ DOMAIN LayoutFB = LayoutCells(size[1], size[2]) /\ DOMAIN BarFB = DOMAIN LayoutFB
      /\ DOMAIN DisplayFB = DisplayCells
  BY DEF Inv, Buffers
<1>3. r \in Nat /\ c \in Nat /\ size[1] <= r /\ size[2] <= c
  <2>1. w.row \in Nat /\ w.col \in Nat /\ w.width \in Nat
    BY <1>2, TextsAre
  <2> QED
    BY <1>2, <2>1, SMTT(30) DEF Greater
<1> HIDE DEF r, c
<1>4. /\ DOMAIN grown = LayoutCells(r, c) /\ DOMAIN LayoutFB \subseteq LayoutCells(r, c)
      /\ \A p \in LayoutCells(r, c) : grown[p] = IF p \in DOMAIN LayoutFB THEN LayoutFB[p] ELSE Blank
  BY <1>2, <1>3, GrownCells DEF Enlarged
<1>5. /\ DOMAIN BarFB' = LayoutCells(r, c)
      /\ \A p \in LayoutCells(r, c) : BarFB'[p] = IF p \in DOMAIN BarFB THEN BarFB[p] ELSE NoBar
  BY <1>1 DEF Enlarged
<1> HIDE DEF grown
<1>6. \A p \in cells : text[p[2] - w.col + 1] \in Letters(driver)
  <2> SUFFICES ASSUME NEW p \in cells PROVE p[2] - w.col + 1 \in 1 .. w.width
    OBVIOUS
  <2>1. w.row \in Nat /\ w.col \in Nat /\ w.width \in Nat
    BY <1>2, TextsAre
  <2>2. p[2] \in w.col .. w.col + w.width - 1
    BY DEF TextCells
  <2> QED
    BY <2>1, <2>2
<1>7. /\ DOMAIN layout = LayoutCells(r, c)
      /\ \A p \in LayoutCells(r, c) : p \in cells => layout[p] \in Letters(driver)
      /\ \A p \in LayoutCells(r, c) : p \notin cells =>
           layout[p] = IF p \in DOMAIN LayoutFB THEN LayoutFB[p] ELSE Blank
  BY <1>4, <1>6
<1> HIDE DEF layout, cells
<1>8. Prepared(layout, DisplayFB, cells)
  <2>1. DisplayCells \subseteq DOMAIN LayoutFB
    BY LargeLayout DEF Inv
  <2>2. \A q \in DisplayCells : LayoutFB[q] \in Codes
    BY <2>1 DEF Inv, Buffers
  <2>3. Letters(driver) \subseteq Codes
    BY DEF Codes
  <2>4. \A q \in DisplayCells : q \in LayoutCells(r, c)
    BY <1>4, <2>1
  <2> QED
    BY <1>7, <2>1, <2>2, <2>3, <2>4 DEF Prepared
<1>9. LayoutFB' = layout /\ DOMAIN DisplayFB' = DisplayCells /\ \A p \in DisplayCells : DisplayFB'[p] = LayoutFB'[p]
  BY <1>1, <1>8, BlitCopies DEF Inv
<1>10. (Letters(driver) \union {Blank}) \intersect UserChars = {}
       /\ \A x : x \in BarChars \/ x \in IconChars => x \in UserChars
  BY <1>2, LettersAre, Rooms DEF BarChars, IconChars, UserChars
<1>11. /\ Codes' = Codes /\ Letters(driver) \subseteq Codes /\ Blank \in Codes
       /\ \A p \in DOMAIN LayoutFB : LayoutFB[p] \in Codes
  BY <1>1 DEF Codes, Inv, Buffers
<1>12. Buffers'
  <2>1. size'[1] = r /\ size'[2] = c /\ size' = <<size'[1], size'[2]>>
    BY <1>1
  <2>2. DROWS <= r /\ DCOLS <= c
    BY <1>2, <1>3, Sizes
  <2>3. \A p \in DOMAIN LayoutFB' : LayoutFB'[p] \in Codes
    BY <1>7, <1>9, <1>11
  <2> QED
    BY <1>1, <1>2, <1>3, <1>5, <1>7, <1>9, <1>11, <2>1, <2>2, <2>3 DEF Buffers
<1>13. Cells'
  <2>1. FitCell(NoBar) /\ NoBar.dir = 0 /\ NoBar.segment = 0
    BY DEF NoBar, FitCell, CellSet
  <2> QED
    BY <1>1, <1>5, <2>1 DEF Inv, Cells
<1>14. Segments' /\ Fonts' /\ Bitmaps'
  BY <1>1, Zenon DEF Inv, Segments, Fonts, Bitmaps
\* The cells of bars and icons are left alone.
<1>15. \A p \in DOMAIN LayoutFB : p \notin cells => LayoutFB'[p] = LayoutFB[p]
  BY <1>4, <1>7, <1>9
<1>16. \A p \in DOMAIN BarFB : BarFB[p].dir # 0 => p \notin cells
  BY <1>2, BarsAre DEF Inv, Cells, cells
<1>17. \A v \in Icons(driver) : <<v.row, v.col>> \in DOMAIN LayoutFB /\ <<v.row, v.col>> \notin cells
  BY <1>2, IconsAre, LargeLayout, Zenon DEF Inv, cells
<1>18. BarsOwn'
  <2> SUFFICES ASSUME NEW p \in DOMAIN BarFB', LayoutFB'[p] \in BarChars PROVE BarFB'[p].dir # 0
    BY DEF BarsOwn, BarChars
  <2>1. p \notin cells /\ p \in DOMAIN LayoutFB
    BY <1>5, <1>7, <1>9, <1>10
  <2>2. LayoutFB[p] \in BarChars
    BY <1>15, <2>1
  <2> QED
    BY <1>2, <1>5, <2>1, <2>2 DEF Inv, BarsOwn
<1>19. BarsDrawn'
  <2>1. \A p \in DOMAIN BarFB' : BarFB'[p].dir # 0 => /\ p \in DOMAIN BarFB /\ BarFB'[p] = BarFB[p]
                                                     /\ LayoutFB'[p] = LayoutFB[p]
    <3>1. NoBar.dir = 0
      BY DEF NoBar
    <3> QED
      BY <1>2, <1>5, <1>15, <1>16, <3>1
  <2>2. Sound' => Sound
    BY <1>1 DEF Sound
  <2> QED
    BY <1>1, <2>1, <2>2 DEF Inv, BarsDrawn
<1>20. IconData' /\ IconBitmaps'
  <2>1. IconData' /\ IconNames' = IconNames
    BY <1>1, SameIcons DEF Inv
  <2> QED
    BY <1>1, <2>1 DEF Inv, IconBitmaps
<1>21. IconsDrawn'
  <2> SUFFICES ASSUME NEW v \in Icons(driver) PROVE IconDrawn(v)'
    BY <1>1 DEF IconsDrawn
  <2>1. IconDrawn(v) /\ LayoutFB'[<<v.row, v.col>>] = LayoutFB[<<v.row, v.col>>]
    BY <1>15, <1>17 DEF Inv, IconsDrawn
  <2> QED
    BY <1>1, <2>1 DEF IconDrawn
<1>22. IconsOwn'
  <2> SUFFICES ASSUME NEW p \in DOMAIN LayoutFB', LayoutFB'[p] \in IconChars
               PROVE  \E v \in Icons(driver) : p = <<v.row, v.col>>
    BY <1>1 DEF IconsOwn, IconChars
  <2>1. p \notin cells /\ p \in DOMAIN LayoutFB
    BY <1>7, <1>9, <1>10
  <2>2. LayoutFB[p] \in IconChars
    BY <1>15, <2>1
  <2> QED
    BY <2>1, <2>2 DEF Inv, IconsOwn
<1>23. Inv'
  BY <1>12, <1>13, <1>14, <1>18, <1>19, <1>20, <1>21, <1>22 DEF Inv
<1>24. ASSUME Below, OnScreen PROVE OnScreen'
  <2>1. Sound' => Sound
    BY <1>1 DEF Sound
  <2> QED
    BY <1>1, <1>8, <1>24, <2>1, BlitShows DEF Inv
<1> QED
  BY <1>23, <1>24

-----------------------------------------------------------------------------
(* Icons *)

\* Icons are finitely many.
LEMMA NamesAreFinite ==
  ASSUME driver \in Drivers
  PROVE  IsFiniteSet(IconNames)
<1> DEFINE I == Icons(driver)
           f == [w \in I |-> w.name]
<1>1. IsFiniteSet(I)
  BY IconsAre
<1>2. IconNames = {w.name : w \in I}
  BY DEF IconNames
<1> HIDE DEF I
<1>3. f \in Surjection(I, IconNames)
  BY <1>2 DEF Surjection
<1> QED
  BY <1>1, <1>3, FS_Surjection

\* The data of an icon, with the properties as they have been evaluated for widget w.
Evaluated(w, i) ==
  /\ i \in IconSet /\ i.ascii = Icon[w.name].ascii /\ i.prvmap = Icon[w.name].prvmap
  /\ i.curmap \in 0 .. MAXMAP
  /\ w.child => i = Icon[w.name] /\ i.ascii # -1

\* An icon that finds no character changes nothing that can be seen.
LEMMA LeftOutStep ==
  ASSUME Inv, NEW w \in Icons(driver), NEW i, Evaluated(w, i), IconLeftOut(i),
         Icon' = [Icon EXCEPT ![w.name] = [i EXCEPT !.ascii = -2]],
         UNCHANGED <<LayoutFB, DisplayFB, glyph, screen, folded>>, UNCHANGED <<driver, size, barVars>>
  PROVE  Inv' /\ (OnScreen => OnScreen')
<1> DEFINE n == w.name
           j == [i EXCEPT !.ascii = -2]
<1>1. n \in IconNames /\ DOMAIN Icon = IconNames
  BY DEF IconNames, Inv, IconData
<1>2. /\ j \in IconSet /\ j.ascii = -2 /\ j.curmap = i.curmap /\ j.prvmap = i.prvmap
  BY DEF Evaluated, IconSet
<1>3. /\ DOMAIN Icon' = IconNames /\ Icon'[n] = j
      /\ \A m \in IconNames : m # n => Icon'[m] = Icon[m]
  BY <1>1
<1> HIDE DEF j
<1>4. IconNames' = IconNames
  BY DEF IconNames
<1>5. Icon[n].ascii \in {-1, -2} /\ ~ (Icon[n].ascii >= 0) /\ Icon[n].prvmap = -1
  <2>1. Icon[n].ascii \in {-1, -2}
    BY DEF IconLeftOut, Evaluated
  <2>2. Icon[n].ascii < 0 /\ ~ (Icon[n].ascii >= 0)
    BY <2>1
  <2>3. Icon[n].prvmap = -1
    BY <1>1, <2>2, Zenon DEF Inv, IconBitmaps
  <2> QED
    BY <2>1, <2>2, <2>3
<1>6. icon_counter' = icon_counter
  <2>0. ~ (Icon'[n].ascii >= 0)
    BY <1>2, <1>3
  <2>1. \A m \in IconNames : Icon'[m].ascii >= 0 <=> Icon[m].ascii >= 0
    BY <1>3, <1>5, <2>0, Zenon
  <2>2. {m \in IconNames : Icon[m].ascii >= 0} = {m \in IconNames' : Icon'[m].ascii >= 0}
    BY <1>4, <2>1
  <2> QED
    BY <2>2, Zenon DEF icon_counter
<1>7. IconData'
  <2>1. i.curmap \in 0 .. MAXMAP /\ i.prvmap = -1 /\ MAXMAP \in Nat
    BY <1>5, TextDisplayAssumption DEF Evaluated
  <2>2. \A m \in IconNames :
           /\ Icon'[m] \in IconSet
           /\ Icon'[m].curmap \in 0 .. MAXMAP /\ Icon'[m].prvmap \in -1 .. MAXMAP
           /\ Icon'[m].ascii \in {-1, -2} \union (CHAR0 + CHARS - icon_counter .. CHAR0 + CHARS - 1)
           /\ Icon'[m].ascii >= 0 /\ Icon'[m].visible => Icon'[m].prvmap = Icon'[m].curmap
    <3> SUFFICES ASSUME NEW m \in IconNames
                 PROVE  /\ Icon'[m] \in IconSet
                        /\ Icon'[m].curmap \in 0 .. MAXMAP /\ Icon'[m].prvmap \in -1 .. MAXMAP
                        /\ Icon'[m].ascii \in {-1, -2} \union (CHAR0 + CHARS - icon_counter .. CHAR0 + CHARS - 1)
                        /\ Icon'[m].ascii >= 0 /\ Icon'[m].visible => Icon'[m].prvmap = Icon'[m].curmap
      OBVIOUS
    <3>1. CASE m = n
      BY <1>2, <1>3, <2>1, <3>1
    <3>2. CASE m # n
      BY <1>3, <3>2 DEF Inv, IconData
    <3> QED
      BY <3>1, <3>2
  <2>3. \A m, k \in IconNames : Icon'[k].ascii >= 0 /\ Icon'[k].ascii = Icon'[m].ascii => m = k
    <3>1. \A m, k \in IconNames : Icon[k].ascii >= 0 /\ Icon[k].ascii = Icon[m].ascii => m = k
      BY DEF Inv, IconData
    <3> QED
      BY <1>2, <1>3, <3>1
  <2>4. icon_counter \in 0 .. ICONS
    BY DEF Inv, IconData
  <2> QED
    BY <1>3, <1>4, <1>6, <2>2, <2>3, <2>4 DEF IconData
<1>8. IconBitmaps'
  <2>1. Icon'[n].prvmap = -1
    BY <1>2, <1>3, <1>5 DEF Evaluated
  <2> QED
    BY <1>3, <1>4, <2>1 DEF Inv, IconBitmaps
<1>9. IconsDrawn'
  <2> SUFFICES ASSUME NEW v \in Icons(driver), LayoutFB[<<v.row, v.col>>] # Blank PROVE IconDrawn(v)'
    BY Zenon DEF IconsDrawn, IconDrawn
  <2>1. IconDrawn(v) /\ v.name \in IconNames
    BY DEF Inv, IconsDrawn, IconNames
  <2>2. v.name # n
    BY <1>5, <2>1, Zenon DEF IconDrawn
  <2>3. Icon'[v.name] = Icon[v.name]
    BY <1>3, <2>1, <2>2
  <2> QED
    BY <2>1, <2>3, Zenon DEF IconDrawn
<1>10. Buffers' /\ Cells' /\ Segments' /\ Fonts' /\ Bitmaps' /\ BarsOwn' /\ BarsDrawn' /\ IconsOwn'
  <2>1. Codes' = Codes
    BY DEF Codes
  <2>2. Buffers'
    BY <2>1 DEF Inv, Buffers, barVars
  <2> QED
    BY <2>2 DEF Inv, Cells, Segments, Fonts, Bitmaps, BarsOwn, BarsDrawn, IconsOwn, BarChars, IconChars, barVars, Sound
<1>11. OnScreen => OnScreen'
  BY DEF OnScreen, Sound, barVars, OwnCells, Visible, Where, Shown, INVALIDATE
<1> QED
  BY <1>7, <1>8, <1>9, <1>10, <1>11 DEF Inv

\* The character of an icon, an old or a new one, is its own.
OwnChar(w, i) ==
  /\ IconChar(i) \in CHAR0 + CHARS - icon_counter' .. CHAR0 + CHARS - 1
  /\ icon_counter' \in 0 .. ICONS /\ icon_counter <= icon_counter' /\ icon_counter \in Nat
  /\ i.ascii # -1 => IconChar(i) = i.ascii /\ i.ascii >= 0
  /\ \A m \in IconNames : m # w.name /\ Icon[m].ascii >= 0 => Icon[m].ascii # IconChar(i)

\* The character of an icon, an old or a new one, is its own: new ones are counted downwards.
LEMMA IconCharIs ==
  ASSUME Inv, NEW w \in Icons(driver), NEW i, Evaluated(w, i), ~ IconLeftOut(i),
         NEW j, Icon' = [Icon EXCEPT ![w.name] = j], j.ascii = IconChar(i), driver' = driver
  PROVE  OwnChar(w, i)
<1> DEFINE n == w.name
           S == {m \in IconNames : Icon[m].ascii >= 0}
           a == IconChar(i)
           c == icon_counter
           d == icon_counter'
<1>1. n \in IconNames /\ DOMAIN Icon = IconNames /\ IconNames' = IconNames
  BY DEF IconNames, Inv, IconData
<1>2. IsFiniteSet(S)
  <2>1. IsFiniteSet(IconNames)
    BY NamesAreFinite DEF Inv, Buffers
  <2>2. S \in SUBSET IconNames
    OBVIOUS
  <2> HIDE DEF S
  <2> QED
    BY <2>1, <2>2, FS_Subset
<1>3. Icon'[n] = j /\ \A m \in IconNames : m # n => Icon'[m] = Icon[m]
  BY <1>1
<1>4. c \in 0 .. ICONS /\ i.ascii \in {-1, -2} \union (CHAR0 + CHARS - c .. CHAR0 + CHARS - 1)
  BY <1>1 DEF Inv, IconData, Evaluated
<1>5. i.ascii # -2 /\ (i.ascii = -1 => c < ICONS)
  BY <1>4, Rooms DEF IconLeftOut
<1>6. \A m \in IconNames : Icon[m].ascii \in {-1, -2} \union (CHAR0 + CHARS - c .. CHAR0 + CHARS - 1)
  BY DEF Inv, IconData
<1>7. CASE i.ascii = -1
  <2>1. a = CHAR0 + CHARS - (c + 1)
    BY <1>7 DEF IconChar
  <2>2. a >= 0 /\ a \in Int
    <3> HIDE DEF a, c
    <3> QED
      BY <1>4, <1>5, <1>7, <2>1, Rooms
  <2>3. n \notin S
    <3>1. Icon[n].ascii = -1
      BY <1>7 DEF Evaluated
    <3>2. ~ (Icon[n].ascii >= 0)
      BY <3>1
    <3> QED
      BY <3>2, Zenon
  <2>4. {m \in IconNames' : Icon'[m].ascii >= 0} = S \union {n}
    BY <1>1, <1>3, <2>2
  <2> HIDE DEF S
  <2>5. Cardinality(S \union {n}) = Cardinality(S) + 1
    BY <1>2, <2>3, FS_AddElement, Zenon
  <2>6. c = Cardinality(S) /\ d = Cardinality(S \union {n})
    BY <2>4, Zenon DEF icon_counter, S
  <2>7. \A m \in IconNames : Icon[m].ascii >= 0 => Icon[m].ascii # a
    <3> HIDE DEF a, c
    <3> QED
      BY <1>4, <1>6, <2>1, Rooms
  <2> HIDE DEF a, c, d
  <2>8. d = c + 1
    BY <2>5, <2>6
  <2>9. a \in CHAR0 + CHARS - d .. CHAR0 + CHARS - 1 /\ d \in 0 .. ICONS /\ c <= d /\ c \in Nat
    BY <1>4, <1>5, <1>7, <2>1, <2>8, Rooms
  <2> QED
    BY <1>7, <2>7, <2>9 DEF a, c, d, OwnChar
<1>8. CASE i.ascii # -1
  <2>1. a = i.ascii
    BY <1>8 DEF IconChar
  <2>2. i.ascii \in CHAR0 + CHARS - c .. CHAR0 + CHARS - 1
    BY <1>4, <1>5, <1>8
  <2>3. i.ascii >= 0
    <3> HIDE DEF c
    <3> QED
      BY <1>4, <2>2, Rooms
  <2>4. {m \in IconNames' : Icon'[m].ascii >= 0} = S
    BY <1>1, <1>3, <2>1, <2>3 DEF Evaluated
  <2>5. d = c
    BY <2>4, Zenon DEF icon_counter
  <2>6. \A m \in IconNames : m # n /\ Icon[m].ascii >= 0 => Icon[m].ascii # a
    BY <1>1, <2>1 DEF Inv, IconData, Evaluated
  <2> HIDE DEF a, c, d
  <2> QED
    BY <1>4, <1>8, <2>1, <2>2, <2>3, <2>5, <2>6, Rooms DEF a, c, d, OwnChar
<1> QED
  BY <1>7, <1>8

-----------------------------------------------------------------------------
(* A widget of an icon is drawn *)

\* A draw that defines the character anew.
Redefines(i) == i.curmap # i.prvmap /\ i.visible

\* A widget of an icon that has a character is drawn, with a new bitmap or without.
LEMMA DrawnStep ==
  ASSUME Inv, NEW w \in Icons(driver), NEW i, Evaluated(w, i), ~ IconLeftOut(i),
         UNCHANGED <<driver, size, barVars>>,
         NEW p, p = <<w.row, w.col>>, NEW j,
         j = [i EXCEPT !.ascii = IconChar(i), !.prvmap = IF Redefines(i) THEN i.curmap ELSE @],
         Icon' = [Icon EXCEPT ![w.name] = j],
         NEW bitmaps,
         bitmaps = [x \in IF Redefines(i) THEN {IconChar(i) - CHAR0} ELSE {} |-> <<"icon", w.name, i.curmap>>],
         glyph' = Defined(glyph, bitmaps),
         NEW layout, layout = [LayoutFB EXCEPT ![p] = IF i.visible THEN IconChar(i) ELSE Blank],
         NEW display, display = Invalidated(DisplayFB, IF Redefines(i) THEN {p} ELSE {}),
         blit(layout, display, {p})
  PROVE  Inv' /\ (Below /\ OnScreen => OnScreen')
<1> DEFINE n == w.name
           a == IconChar(i)
           redefine == Redefines(i)
<1>1. /\ driver \in Drivers /\ n \in IconNames /\ DOMAIN Icon = IconNames /\ IconNames' = IconNames
      /\ p \in DisplayCells /\ p \in DOMAIN LayoutFB /\ DisplayCells \subseteq DOMAIN LayoutFB
  <2>1. driver \in Drivers /\ DisplayCells \subseteq DOMAIN LayoutFB
    BY LargeLayout DEF Inv, Buffers
  <2> QED
    BY <2>1, IconsAre, Zenon DEF IconNames, Inv, IconData
<1>2. /\ i \in IconSet /\ i.ascii = Icon[n].ascii /\ i.prvmap = Icon[n].prvmap /\ i.curmap \in 0 .. MAXMAP
      /\ w.child => i = Icon[n] /\ i.ascii # -1
  BY DEF Evaluated
<1>3. j.ascii = a /\ j.curmap = i.curmap /\ j.visible = i.visible /\ j.prvmap = IF redefine THEN i.curmap ELSE i.prvmap
  <2> DEFINE b == IF redefine THEN i.curmap ELSE i.prvmap
  <2> HIDE DEF a, redefine
  <2>2. j = [i EXCEPT !.ascii = a, !.prvmap = b]
    BY DEF a, redefine
  <2> HIDE DEF b
  <2>3. PICK r : r = [i EXCEPT !.ascii = a]
    OBVIOUS
  <2>4. /\ DOMAIN r = DOMAIN i /\ r.ascii = a /\ r.curmap = i.curmap /\ r.prvmap = i.prvmap /\ r.visible = i.visible
        /\ DOMAIN i = {"ascii", "curmap", "prvmap", "visible"}
    BY <1>2, <2>3 DEF IconSet
  <2>5. j = [r EXCEPT !.prvmap = b]
    BY <2>2, <2>3
  <2>6. j.ascii = a /\ j.curmap = i.curmap /\ j.visible = i.visible /\ j.prvmap = b
    BY <2>4, <2>5, Zenon
  <2> QED
    BY <2>6 DEF b
<1>4. /\ a \in CHAR0 + CHARS - icon_counter' .. CHAR0 + CHARS - 1
      /\ icon_counter' \in 0 .. ICONS /\ icon_counter <= icon_counter' /\ icon_counter \in Nat
      /\ i.ascii # -1 => a = i.ascii /\ i.ascii >= 0
      /\ \A m \in IconNames : m # n /\ Icon[m].ascii >= 0 => Icon[m].ascii # a
  <2>1. driver' = driver /\ j.ascii = IconChar(i)
    BY <1>3
  <2>2. OwnChar(w, i)
    BY <2>1, IconCharIs, Zenon
  <2> QED
    BY <2>2 DEF OwnChar
<1>5. a \in IconChars /\ a \in UserChars /\ a \in Int /\ a >= 0 /\ a - CHAR0 \in 0 .. CHARS - 1 /\ a - CHAR0 >= Room
  <2> DEFINE d == icon_counter'
  <2>1. a \in CHAR0 + CHARS - d .. CHAR0 + CHARS - 1 /\ d \in 0 .. ICONS
    BY <1>4
  <2> HIDE DEF a, d
  <2> QED
    BY <2>1, Rooms DEF IconChars, UserChars
<1>6. j \in IconSet
  <2>1. IconChar(i) \in Int
    BY <1>5
  <2> QED
    BY <1>2, <2>1, Zenon DEF IconSet
<1>7. DOMAIN Icon' = IconNames /\ Icon'[n] = j /\ \A m \in IconNames : m # n => Icon'[m] = Icon[m]
  BY <1>1
<1>8. /\ Fonts'
      /\ \A c \in 0 .. CHARS - 1 : glyph'[1][c] = IF redefine /\ c = a - CHAR0 THEN <<"icon", n, i.curmap>> ELSE glyph[1][c]
  <2>1. /\ Fonts'
        /\ \A c \in 0 .. CHARS - 1 : glyph'[1][c] = IF c \in DOMAIN bitmaps THEN bitmaps[c] ELSE glyph[1][c]
    BY DefinedFonts DEF Inv
  <2>2. \A c : c \in DOMAIN bitmaps <=> redefine /\ c = a - CHAR0
    OBVIOUS
  <2>3. \A c \in DOMAIN bitmaps : bitmaps[c] = <<"icon", n, i.curmap>>
    OBVIOUS
  <2> HIDE DEF redefine, a
  <2> QED
    BY <2>1, <2>2, <2>3, Zenon
<1>9. /\ DOMAIN layout = DOMAIN LayoutFB
      /\ layout[p] = IF i.visible THEN a ELSE Blank
      /\ \A q \in DOMAIN LayoutFB : q # p => layout[q] = LayoutFB[q]
  BY <1>1
<1>10. \A q \in DisplayCells : display[q] = IF INVALIDATE /\ redefine /\ q = p THEN Wrong ELSE DisplayFB[q]
  BY DEF Invalidated
<1> HIDE DEF a, redefine
<1>11. Codes' = Codes /\ a \in Codes /\ Blank \in Codes /\ \A q \in DOMAIN LayoutFB : LayoutFB[q] \in Codes
  BY <1>5 DEF Codes, Inv, Buffers
<1>12. Prepared(layout, display, {p})
  BY <1>1, <1>9, <1>10, <1>11, Zenon DEF Prepared
<1>13. LayoutFB' = layout /\ DOMAIN DisplayFB' = DisplayCells /\ \A q \in DisplayCells : DisplayFB'[q] = LayoutFB'[q]
  BY <1>12, BlitCopies, Zenon DEF Inv
<1>14. BarFB' = BarFB /\ Segment' = Segment /\ size' = size /\ driver' = driver /\ (Sound' <=> Sound)
  BY DEF barVars, Sound
<1>15. Blank \notin UserChars /\ \A x : x \in BarChars => x \in UserChars /\ x \notin IconChars /\ x # a
  BY <1>1, <1>5, LettersAre, Rooms DEF BarChars, IconChars, UserChars
<1>16. layout[p] \notin BarChars /\ a # Blank
  BY <1>5, <1>9, <1>15
<1>17. Buffers'
  <2>1. \A q \in DOMAIN layout : layout[q] \in Codes
    BY <1>9, <1>11
  <2> QED
    BY <1>9, <1>11, <1>13, <1>14, <2>1 DEF Inv, Buffers
<1>18. Cells' /\ Segments'
  BY <1>14, Zenon DEF Inv, Cells, Segments
<1>19. Bitmaps'
  <2> SUFFICES ASSUME NEW s \in fSegment + 1 .. Len(Segment) PROVE glyph'[1][Segment[s].ascii] = Bitmap(Segment[s])
    BY <1>14, Zenon DEF Bitmaps
  <2>1. Segment[s].ascii \in 0 .. Room - 1 /\ glyph[1][Segment[s].ascii] = Bitmap(Segment[s])
    BY DEF Inv, Segments, Bitmaps
  <2> DEFINE x == Segment[s].ascii
  <2> HIDE DEF x
  <2>2. x \in 0 .. CHARS - 1 /\ x # a - CHAR0
    BY <1>5, <2>1, Rooms, SMTT(30) DEF x
  <2> QED
    BY <1>8, <2>1, <2>2, Zenon DEF x
<1>20. BarsOwn'
  <2> SUFFICES ASSUME NEW q \in DOMAIN BarFB, layout[q] \in BarChars PROVE BarFB[q].dir # 0
    BY <1>13, <1>14 DEF BarsOwn, BarChars
  <2>1. q # p /\ q \in DOMAIN LayoutFB
    BY <1>16 DEF Inv, Buffers
  <2> QED
    BY <1>9, <2>1 DEF Inv, BarsOwn
<1>21. BarsDrawn'
  <2>1. \A q \in DOMAIN BarFB : BarFB[q].dir # 0 => q # p /\ q \in DOMAIN LayoutFB
    BY <1>1, IconsAre DEF Inv, Cells, Buffers
  <2>2. \A q \in DOMAIN BarFB : BarFB[q].dir # 0 => layout[q] = LayoutFB[q]
    BY <1>9, <2>1
  <2> QED
    BY <1>13, <1>14, <2>2 DEF Inv, BarsDrawn
<1>22. IconData'
  <2>1. \A m \in IconNames :
           /\ Icon'[m] \in IconSet
           /\ Icon'[m].curmap \in 0 .. MAXMAP /\ Icon'[m].prvmap \in -1 .. MAXMAP
           /\ Icon'[m].ascii \in {-1, -2} \union (CHAR0 + CHARS - icon_counter' .. CHAR0 + CHARS - 1)
           /\ Icon'[m].ascii >= 0 /\ Icon'[m].visible => Icon'[m].prvmap = Icon'[m].curmap
    <3> SUFFICES ASSUME NEW m \in IconNames
                 PROVE  /\ Icon'[m] \in IconSet
                        /\ Icon'[m].curmap \in 0 .. MAXMAP /\ Icon'[m].prvmap \in -1 .. MAXMAP
                        /\ Icon'[m].ascii \in {-1, -2} \union (CHAR0 + CHARS - icon_counter' .. CHAR0 + CHARS - 1)
                        /\ Icon'[m].ascii >= 0 /\ Icon'[m].visible => Icon'[m].prvmap = Icon'[m].curmap
      OBVIOUS
    <3>1. CASE m = n
      <4>1. i.prvmap \in -1 .. MAXMAP /\ MAXMAP \in Nat
        BY <1>1, <1>2, TextDisplayAssumption DEF Inv, IconData
      <4>2. j.prvmap \in -1 .. MAXMAP
        BY <1>2, <1>3, <4>1
      <4>3. j.visible => j.prvmap = j.curmap
        BY <1>3 DEF redefine, Redefines
      <4> QED
        BY <1>2, <1>3, <1>4, <1>6, <1>7, <3>1, <4>2, <4>3
    <3>2. CASE m # n
      <4> DEFINE c == icon_counter
                 d == icon_counter'
                 x == Icon[m].ascii
      <4>1. x \in {-1, -2} \union (CHAR0 + CHARS - c .. CHAR0 + CHARS - 1) /\ c <= d /\ c \in Nat /\ d \in Nat
        BY <1>4 DEF Inv, IconData
      <4> HIDE DEF c, d, x
      <4>2. x \in {-1, -2} \union (CHAR0 + CHARS - d .. CHAR0 + CHARS - 1)
        BY <4>1, Rooms
      <4> QED
        BY <1>7, <3>2, <4>2 DEF Inv, IconData, d, x
    <3> QED
      BY <3>1, <3>2
  <2>2. \A m, k \in IconNames : Icon'[k].ascii >= 0 /\ Icon'[k].ascii = Icon'[m].ascii => m = k
    <3>1. \A m, k \in IconNames : Icon[k].ascii >= 0 /\ Icon[k].ascii = Icon[m].ascii => m = k
      BY DEF Inv, IconData
    <3>2. j.ascii = a /\ a >= 0
      BY <1>3, <1>5
    <3> SUFFICES ASSUME NEW m \in IconNames, NEW k \in IconNames, Icon'[k].ascii >= 0, Icon'[k].ascii = Icon'[m].ascii
                 PROVE  m = k
      OBVIOUS
    <3>3. CASE m # n /\ k # n
      BY <1>7, <3>1, <3>3
    <3>4. CASE m = n /\ k # n
      BY <1>4, <1>7, <3>2, <3>4
    <3>5. CASE m # n /\ k = n
      BY <1>4, <1>7, <3>2, <3>5
    <3> QED
      BY <3>3, <3>4, <3>5
  <2> QED
    BY <1>1, <1>4, <1>7, <2>1, <2>2 DEF IconData
<1>23. IconBitmaps'
  <2> SUFFICES ASSUME NEW m \in IconNames
               PROVE  /\ Icon'[m].ascii < 0 => Icon'[m].prvmap = -1
                      /\ Icon'[m].prvmap >= 0 => glyph'[1][Icon'[m].ascii - CHAR0] = <<"icon", m, Icon'[m].prvmap>>
    BY <1>1, Zenon DEF IconBitmaps
  <2>1. CASE m = n
    <3>1. Icon'[m] = j /\ ~ (Icon'[m].ascii < 0) /\ Icon'[m].ascii = a
      BY <1>3, <1>5, <1>7, <2>1
    <3>2. CASE redefine
      <4>1. glyph'[1][a - CHAR0] = <<"icon", n, i.curmap>>
        BY <1>5, <1>8, <3>2
      <4>2. Icon'[m].prvmap = i.curmap
        BY <1>3, <3>1, <3>2
      <4> QED
        BY <2>1, <3>1, <4>1, <4>2, Zenon
    <3>3. CASE ~ redefine
      <4> SUFFICES ASSUME i.prvmap >= 0 PROVE glyph'[1][a - CHAR0] = <<"icon", n, i.prvmap>>
        BY <1>3, <2>1, <3>1, <3>3, Zenon
      <4>1. i.ascii # -1
        <5> SUFFICES ASSUME i.ascii = -1 PROVE FALSE
          OBVIOUS
        <5>1. Icon[n].ascii < 0
          BY <1>2
        <5>2. Icon[n].prvmap = -1
          BY <1>1, <5>1, Zenon DEF Inv, IconBitmaps
        <5> QED
          BY <1>2, <5>2
      <4>2. a = i.ascii
        BY <1>4, <4>1
      <4>3. glyph[1][Icon[n].ascii - CHAR0] = <<"icon", n, Icon[n].prvmap>>
        BY <1>1, <1>2, Zenon DEF Inv, IconBitmaps
      <4> QED
        BY <1>2, <1>5, <1>8, <3>3, <4>2, <4>3, Zenon
    <3> QED
      BY <3>2, <3>3, Zenon
  <2>2. CASE m # n
    <3>1. Icon'[m] = Icon[m]
      BY <1>7, <2>2
    <3>2. /\ Icon[m].ascii < 0 => Icon[m].prvmap = -1
          /\ Icon[m].prvmap >= 0 => glyph[1][Icon[m].ascii - CHAR0] = <<"icon", m, Icon[m].prvmap>>
      BY DEF Inv, IconBitmaps
    <3> SUFFICES ASSUME Icon[m].prvmap >= 0 PROVE glyph'[1][Icon[m].ascii - CHAR0] = glyph[1][Icon[m].ascii - CHAR0]
      BY <3>1, <3>2, Zenon
    <3> DEFINE x == Icon[m].ascii
               c == icon_counter
    <3>3. x \in {-1, -2} \union (CHAR0 + CHARS - c .. CHAR0 + CHARS - 1) /\ c \in 0 .. ICONS
      BY DEF Inv, IconData
    <3>4. x >= 0
      <4>1. x \in {-1, -2} => FALSE
        <5> SUFFICES ASSUME x \in {-1, -2} PROVE FALSE
          OBVIOUS
        <5>1. Icon[m].ascii < 0
          BY DEF x
        <5>2. Icon[m].prvmap = -1
          BY <3>2, <5>1
        <5> QED
          BY <5>2
      <4> HIDE DEF x, c
      <4> QED
        BY <3>3, <4>1, Rooms
    <3>5. x # a
      BY <1>4, <2>2, <3>4
    <3> HIDE DEF x, c
    <3>6. x - CHAR0 \in 0 .. CHARS - 1 /\ x - CHAR0 # a - CHAR0
      BY <1>5, <3>3, <3>4, <3>5, Rooms
    <3> QED
      BY <1>8, <3>6 DEF x
  <2> QED
    BY <2>1, <2>2
\* Further widgets of an icon never define its character: its first has done so.
<1>24. w.child => ~ redefine
  <2> SUFFICES ASSUME w.child, i.visible PROVE i.curmap = i.prvmap
    BY DEF redefine, Redefines
  <2>1. Icon[n].ascii >= 0 /\ Icon[n].visible
    BY <1>2, <1>4, SMTT(30)
  <2> QED
    BY <1>1, <1>2, <2>1 DEF Inv, IconData
<1>25. IconsDrawn'
  <2> SUFFICES ASSUME NEW v \in Icons(driver), layout[<<v.row, v.col>>] # Blank
               PROVE  /\ Icon'[v.name].ascii >= 0 /\ layout[<<v.row, v.col>>] = Icon'[v.name].ascii
                      /\ glyph'[1][Icon'[v.name].ascii - CHAR0] = <<"icon", v.name, Icon'[v.name].prvmap>>
                      /\ v.child \/ Icon'[v.name].prvmap = Icon'[v.name].curmap
    BY <1>13, <1>14, Zenon DEF IconsDrawn, IconDrawn
  <2>1. v.name \in IconNames
    BY DEF IconNames
  <2>2. Icon'[v.name].prvmap >= 0 =>
          glyph'[1][Icon'[v.name].ascii - CHAR0] = <<"icon", v.name, Icon'[v.name].prvmap>>
    BY <1>1, <1>23, <2>1, Zenon DEF IconBitmaps
  <2>3. CASE v = w
    <3>1. i.visible /\ layout[<<v.row, v.col>>] = a
      BY <1>9, <2>3
    <3>2. Icon'[v.name] = j /\ j.ascii = a /\ a >= 0 /\ j.curmap = i.curmap
      BY <1>3, <1>5, <1>7, <2>3
    <3>3. j.prvmap = j.curmap
      BY <1>3, <3>1 DEF redefine, Redefines
    <3>4. j.prvmap >= 0
      BY <1>2, <3>2, <3>3, SMTT(30)
    <3> QED
      BY <2>2, <3>1, <3>2, <3>3, <3>4, Zenon
  <2>4. CASE v # w
    <3>1. <<v.row, v.col>> # p /\ <<v.row, v.col>> \in DOMAIN LayoutFB
      BY <1>1, <2>4, IconsAre, Zenon
    <3>2. layout[<<v.row, v.col>>] = LayoutFB[<<v.row, v.col>>]
      BY <1>9, <3>1
    <3>3. /\ Icon[v.name].ascii >= 0 /\ layout[<<v.row, v.col>>] = Icon[v.name].ascii
          /\ glyph[1][Icon[v.name].ascii - CHAR0] = <<"icon", v.name, Icon[v.name].prvmap>>
          /\ v.child \/ Icon[v.name].prvmap = Icon[v.name].curmap
      BY <3>2 DEF Inv, IconsDrawn, IconDrawn
    <3>4. CASE v.name # n
      <4>1. Icon'[v.name] = Icon[v.name] /\ Icon[v.name].ascii # a
        BY <1>4, <1>7, <2>1, <3>3, <3>4
      <4> DEFINE x == Icon[v.name].ascii
      <4>2. x \in CHAR0 .. CHAR0 + CHARS - 1
        <5> DEFINE c == icon_counter
        <5>1. x \in {-1, -2} \union (CHAR0 + CHARS - c .. CHAR0 + CHARS - 1) /\ c \in 0 .. ICONS
          BY <2>1 DEF Inv, IconData
        <5>2. x >= 0
          BY <3>3
        <5> HIDE DEF x, c
        <5> QED
          BY <5>1, <5>2, Rooms
      <4>3. x # a
        BY <4>1
      <4> HIDE DEF x
      <4>4. x - CHAR0 \in 0 .. CHARS - 1 /\ x - CHAR0 # a - CHAR0
        BY <1>5, <4>2, <4>3, Rooms
      <4>5. glyph'[1][x - CHAR0] = glyph[1][x - CHAR0]
        BY <1>8, <4>4
      <4> QED
        BY <3>3, <4>1, <4>5, Zenon DEF x
    <3>5. CASE v.name = n
      <4>1. i.ascii # -1 /\ a = i.ascii
        <5>1. Icon[n].ascii >= 0
          BY <3>3, <3>5
        <5> QED
          BY <1>2, <1>4, <5>1
      <4>2. Icon'[v.name] = j /\ j.ascii = a /\ a >= 0
        BY <1>3, <1>5, <1>7, <1>1, <3>5
      <4>3. layout[<<v.row, v.col>>] = j.ascii
        BY <1>2, <3>3, <3>5, <4>1, <4>2
      <4>4. v.child \/ j.prvmap = j.curmap
        <5> SUFFICES ASSUME ~ v.child PROVE j.prvmap = j.curmap
          OBVIOUS
        <5>1. w.child
          BY <1>1, <2>4, <3>5, IconsAre
        <5>2. i = Icon[n] /\ ~ redefine /\ Icon[n].prvmap = Icon[n].curmap
          BY <1>2, <1>24, <3>3, <3>5, <5>1
        <5> QED
          BY <1>3, <5>2
      <4>5. glyph'[1][a - CHAR0] = <<"icon", n, j.prvmap>>
        <5>1. CASE redefine
          BY <1>3, <1>5, <1>8, <5>1
        <5>2. CASE ~ redefine
          <6>1. glyph'[1][a - CHAR0] = glyph[1][a - CHAR0]
            BY <1>5, <1>8, <5>2
          <6>2. v.name = n /\ Icon[v.name].ascii = a /\ Icon[v.name].prvmap = j.prvmap
            BY <1>2, <1>3, <3>5, <4>1, <5>2
          <6> QED
            BY <3>3, <6>1, <6>2, Zenon
        <5> QED
          BY <5>1, <5>2
      <4> QED
        BY <3>5, <4>2, <4>3, <4>4, <4>5, Zenon
    <3> QED
      BY <3>4, <3>5
  <2> QED
    BY <2>3, <2>4
<1>26. IconsOwn'
  <2> SUFFICES ASSUME NEW q \in DOMAIN LayoutFB, layout[q] \in IconChars
               PROVE  \E v \in Icons(driver) : q = <<v.row, v.col>>
    BY <1>9, <1>13, <1>14 DEF IconsOwn, IconChars
  <2>1. CASE q = p
    BY <2>1
  <2>2. CASE q # p
    BY <1>9, <2>2 DEF Inv, IconsOwn
  <2> QED
    BY <2>1, <2>2
<1>27. Inv'
  BY <1>8, <1>17, <1>18, <1>19, <1>20, <1>21, <1>22, <1>23, <1>25, <1>26 DEF Inv
<1>28. ASSUME Below, OnScreen PROVE OnScreen'
  <2>1. ASSUME INVALIDATE, NEW q \in OwnCells, display[q] # Wrong
        PROVE  Picture(layout[q], glyph'[1]) = Picture(layout[q], glyph[1])
    <3>1. q \in DisplayCells /\ q \in DOMAIN LayoutFB
      BY <1>1 DEF OwnCells
    <3>2. CASE layout[q] \notin UserChars
      BY <3>2 DEF Picture
    <3>3. CASE layout[q] \in UserChars
      <4>1. layout[q] - CHAR0 \in 0 .. CHARS - 1
        BY <3>3, CharsAre
      <4>2. redefine => layout[q] # a
        <5> SUFFICES ASSUME redefine, layout[q] = a PROVE FALSE
          OBVIOUS
        <5>1. q # p
          BY <1>10, <2>1, <3>1, Zenon
        <5>2. LayoutFB[q] = a
          BY <1>9, <3>1, <5>1
        <5>3. PICK v \in Icons(driver) : q = <<v.row, v.col>>
          BY <1>5, <3>1, <5>2 DEF Inv, IconsOwn
        <5>4. Icon[v.name].ascii >= 0 /\ Icon[v.name].ascii = a
          BY <1>16, <5>2, <5>3, Zenon DEF Inv, IconsDrawn, IconDrawn
        <5>5. v.name = n
          <6>1. v.name \in IconNames
            BY DEF IconNames
          <6> QED
            BY <1>4, <5>4, <6>1
        <5>6. ~ v.child /\ ~ w.child
          BY <1>24, <2>1, <5>3 DEF OwnCells
        <5>7. v = w
          BY <1>1, <5>5, <5>6, IconsAre, Zenon
        <5> QED
          BY <5>1, <5>3, <5>7
      <4>3. glyph'[1][layout[q] - CHAR0] = glyph[1][layout[q] - CHAR0]
        <5> DEFINE x == layout[q]
        <5>1. x \in UserChars /\ (redefine => x # a)
          BY <3>3, <4>2
        <5> HIDE DEF x
        <5>2. redefine => x - CHAR0 # a - CHAR0
          BY <1>5, <5>1, Rooms DEF UserChars
        <5> QED
          BY <1>8, <4>1, <5>2 DEF x
      <4> QED
        BY <4>3 DEF Picture
    <3> QED
      BY <3>2, <3>3
  <2> QED
    BY <1>12, <1>14, <1>28, <2>1, BlitShows, Zenon DEF Inv
<1> QED
  BY <1>27, <1>28

\* A widget of an icon is drawn, whether it finds a character or not.
LEMMA IconDrawStep ==
  ASSUME Inv, NEW w \in Icons(driver), NEW i, Evaluated(w, i), icon_draw(w, i), UNCHANGED <<driver, size, barVars>>
  PROVE  Inv' /\ (Below /\ OnScreen => OnScreen')
<1> DEFINE j == [i EXCEPT !.ascii = IconChar(i), !.prvmap = IF Redefines(i) THEN i.curmap ELSE @]
           p == <<w.row, w.col>>
           bitmaps == [x \in IF Redefines(i) THEN {IconChar(i) - CHAR0} ELSE {} |-> <<"icon", w.name, i.curmap>>]
           layout == [LayoutFB EXCEPT ![p] = IF i.visible THEN IconChar(i) ELSE Blank]
           display == Invalidated(DisplayFB, IF Redefines(i) THEN {p} ELSE {})
<1>1. CASE IconLeftOut(i)
  <2>1. Icon' = [Icon EXCEPT ![w.name] = [i EXCEPT !.ascii = -2]] /\ UNCHANGED <<LayoutFB, DisplayFB, glyph, screen, folded>>
    BY <1>1 DEF icon_draw
  <2> QED
    BY <1>1, <2>1, LeftOutStep, Zenon
<1>2. CASE ~ IconLeftOut(i)
  <2>1. /\ Icon' = [Icon EXCEPT ![w.name] = j]
        /\ glyph' = Defined(glyph, bitmaps)
        /\ blit(layout, display, {p})
    BY <1>2, Zenon DEF icon_draw, Redefines
  <2> HIDE DEF layout, display, bitmaps, j
  <2> QED
    BY <1>2, <2>1, DrawnStep, Zenon DEF layout, display, bitmaps, j
<1> QED
  BY <1>1, <1>2

\* The update of an icon: its properties are evaluated, then it is drawn.
LEMMA IconStep ==
  ASSUME Inv, NEW w \in Icons(driver), IconUpdate(w)
  PROVE  Inv' /\ (Below /\ OnScreen => OnScreen')
<1> DEFINE n == w.name
<1>1. UNCHANGED <<driver, size, barVars>>
  BY Zenon DEF IconUpdate
<1>2. n \in IconNames /\ Icon[n] \in IconSet /\ Icon[n].curmap \in 0 .. MAXMAP
  BY DEF IconNames, Inv, IconData
<1>3. CASE ~ w.child /\ \E visible \in BOOLEAN, frame \in Frames :
                icon_draw(w, [Icon[n] EXCEPT !.visible = visible, !.curmap = NextMap(@, frame)])
  <2>1. PICK visible \in BOOLEAN, frame \in Frames :
          icon_draw(w, [Icon[n] EXCEPT !.visible = visible, !.curmap = NextMap(@, frame)])
    BY <1>3, Zenon
  <2> DEFINE i == [Icon[n] EXCEPT !.visible = visible, !.curmap = NextMap(Icon[n].curmap, frame)]
             map == NextMap(Icon[n].curmap, frame)
  <2>2. map \in 0 .. MAXMAP
    <3>1. MAXMAP \in Nat
      BY TextDisplayAssumption
    <3> QED
      BY <1>2, <3>1 DEF NextMap
  <2>3. i = [ascii |-> Icon[n].ascii, curmap |-> map, prvmap |-> Icon[n].prvmap, visible |-> visible]
    <3> HIDE DEF map
    <3>1. i = [Icon[n] EXCEPT !.visible = visible, !.curmap = map]
      BY DEF map
    <3> HIDE DEF i
    <3>2. Icon[n] = [ascii |-> Icon[n].ascii, curmap |-> Icon[n].curmap, prvmap |-> Icon[n].prvmap, visible |-> Icon[n].visible]
      BY <1>2 DEF IconSet
    <3> QED
      BY <3>1, <3>2, Zenon
  <2> HIDE DEF i, map
  <2>4. Evaluated(w, i)
    <3>1. Icon[n].ascii \in Int /\ Icon[n].prvmap \in Int
      BY <1>2 DEF IconSet
    <3>2. i \in IconSet
      BY <2>2, <2>3, <3>1 DEF IconSet
    <3> QED
      BY <1>3, <2>2, <2>3, <3>2 DEF Evaluated
  <2>5. icon_draw(w, i)
    BY <2>1 DEF i
  <2> QED
    BY <1>1, <2>4, <2>5, IconDrawStep
<1>4. CASE w.child /\ Icon[n].ascii # -1 /\ icon_draw(w, Icon[n])
  <2>1. Evaluated(w, Icon[n])
    BY <1>2, <1>4 DEF Evaluated
  <2> QED
    BY <1>1, <1>4, <2>1, IconDrawStep
<1> QED
  BY <1>3, <1>4, Zenon DEF IconUpdate

-----------------------------------------------------------------------------
(* Bars *)

\* The segments that a draw leaves: those that have not taken a character are old ones.
SegmentsGiven(sg, packed) ==
  /\ sg \in Seq(SegmentSet) /\ Len(sg) \in Nat /\ fSegment <= Len(sg) /\ packed.nSegment \in 0 .. Len(sg)
  /\ \A s \in 1 .. fSegment : sg[s] = Fixed[s]
  /\ \A s \in fSegment + 1 .. Len(sg) : sg[s].ascii \in -1 .. Room - 1
  /\ \A s \in fSegment + 1 .. packed.nSegment :
       /\ sg[s].ascii \in 0 .. Room - 1
       /\ \E b \in Bars(driver) : sg[s].dirs = {b.dir}
       /\ sg[s].ascii = packed.seg[s].ascii => \E t \in fSegment + 1 .. Len(Segment) : sg[s] = Segment[t]
  /\ \A s, t \in fSegment + 1 .. packed.nSegment : sg[s].ascii = sg[t].ascii => s = t

\* The cells, which bar asks for, and their segments.
CellsGiven(made, packed, bar, len) ==
  /\ DOMAIN made.bar = DOMAIN bar
  /\ \A p \in DOMAIN bar : FitCell(made.bar[p]) /\ SameLook(made.bar[p], bar[p])
  /\ \A p \in DOMAIN bar : bar[p].dir = 0 => made.bar[p].segment = 0
  /\ \A p \in DOMAIN bar : bar[p].dir # 0 => made.bar[p].segment \in 1 .. len
  /\ \A x \in 1 .. len : packed.cells[x] \in 1 .. len
  /\ ~ packed.failed /\ ~ packed.selfMerged => \A x \in 1 .. len : packed.cells[x] \in 1 .. packed.nSegment

\* Cells of the bars, before they get segments.
BarsAsk(bar) ==
  /\ DOMAIN bar = DOMAIN BarFB
  /\ \A p \in DOMAIN bar :
       /\ FitCell(bar[p])
       /\ bar[p].dir = 0 => bar[p].segment = 0 /\ BarFB[p].dir = 0
       /\ bar[p].dir # 0 => \E c \in Bars(driver) : p \in BarCells(c) /\ bar[p].dir = c.dir

\* Segments have the directions of bars.
AsBars(seg) == \A s \in fSegment + 1 .. Len(seg) : \E c \in Bars(driver) : seg[s].dirs = {c.dir}

\* create_bar keeps what holds of the cells.
LEMMA BarCreated ==
  ASSUME Inv, NEW b \in Bars(driver), NEW val1 \in Nat, NEW val2 \in Nat, NEW bar, bar = create_bar(BarFB, b, val1, val2)
  PROVE  BarsAsk(bar)
<1>1. b.dir \in Directions /\ b.len \in Nat /\ b.style \in Nat
  BY BarsAre DEF Inv, Buffers
<1>2. \A p \in DOMAIN BarFB : FitCell(BarFB[p])
  BY DEF Inv, Cells
<1>3. /\ DOMAIN bar = DOMAIN BarFB
      /\ \A p \in DOMAIN BarFB : FitCell(bar[p])
      /\ \A p \in DOMAIN BarFB : p \notin BarCells(b) => bar[p] = BarFB[p]
      /\ \A p \in DOMAIN BarFB : p \in BarCells(b) => bar[p].dir = b.dir /\ bar[p].segment = 0
  BY <1>1, <1>2, CreateBarIs
<1>4. b.dir # 0
  BY <1>1 DEF Directions, EAST, WEST, NORTH, SOUTH
<1>5. ASSUME NEW p \in DOMAIN BarFB
      PROVE  /\ bar[p].dir = 0 => bar[p].segment = 0 /\ BarFB[p].dir = 0
             /\ bar[p].dir # 0 => \E c \in Bars(driver) : p \in BarCells(c) /\ bar[p].dir = c.dir
  <2>1. CASE p \in BarCells(b)
    BY <1>3, <1>4, <2>1
  <2>2. CASE p \notin BarCells(b)
    BY <1>3, <2>2 DEF Inv, Cells
  <2> QED
    BY <2>1, <2>2
<1> QED
  BY <1>3, <1>5 DEF BarsAsk

\* What the three steps of a draw give: segments for all cells, as many as have room, with
\* characters of their own.
LEMMA BarFacts ==
  ASSUME Inv, NEW bar, BarsAsk(bar), NEW made, made = create_segments(Segment, bar, size[1], size[2]),
         NEW packed, packed = pack_segments(made.seg),
         NEW sg, sg = define_chars(packed.seg, packed.nSegment)
  PROVE  /\ SegmentsGiven(sg, packed) /\ CellsGiven(made, packed, bar, Len(sg))
         /\ Creating(made, Segment, bar, DOMAIN bar) /\ Packing(packed, made.seg) /\ Keeping(packed, made.seg)
         /\ Made(made.seg) /\ Defining(sg, packed.seg, packed.nSegment, packed.nSegment)
         /\ AsBars(made.seg)
<1> DEFINE n == packed.nSegment
           L == Len(made.seg)
<1>1. /\ Segment \in Seq(SegmentSet) /\ fSegment <= Len(Segment)
      /\ \A s, t \in fSegment + 1 .. Len(Segment) : Segment[s].ascii = Segment[t].ascii => s = t
      /\ \A s \in fSegment + 1 .. Len(Segment) : Segment[s].ascii \in 0 .. Room - 1
      /\ \A s \in fSegment + 1 .. Len(Segment) : \E c \in Bars(driver) : Segment[s].dirs = {c.dir}
      /\ size[1] \in Nat /\ size[2] \in Nat
  <2>1. Len(Segment) \in Nat /\ fSegment \in Nat
    <3>1. Segment \in Seq(SegmentSet)
      BY DEF Inv, Segments
    <3> QED
      BY <3>1, FixedAre, LenProperties
  <2> QED
    BY <2>1, Zenon DEF Inv, Segments, Buffers
<1>2. DOMAIN bar = (0 .. size[1] - 1) \X (0 .. size[2] - 1)
  BY DEF BarsAsk, Inv, Buffers, LayoutCells
<1>3. \A p \in DOMAIN bar : FitCell(bar[p])
  BY DEF BarsAsk
<1>4. Creating(made, Segment, bar, DOMAIN bar)
  BY <1>1, <1>2, <1>3, CreatedIs, ZenonT(40)
<1>5. Made(made.seg)
  BY <1>4 DEF Creating, Made
<1>6. Packing(packed, made.seg) /\ Keeping(packed, made.seg) /\ ~ Running(packed)
  BY <1>5, PackedAre
<1>7. L \in Nat /\ fSegment <= L /\ made.seg \in Seq(SegmentSet) /\ fSegment \in Nat
  <2>1. made.seg \in Seq(SegmentSet) /\ Len(made.seg) >= fSegment
    BY <1>5 DEF Made
  <2> QED
    BY <2>1, FixedAre, LenProperties
<1>8. /\ packed.seg \in Seq(SegmentSet) /\ Len(packed.seg) = L /\ n \in 0 .. L
      /\ \A s \in 1 .. fSegment : packed.seg[s] = made.seg[s]
      /\ \A s \in fSegment + 1 .. L : \E t \in fSegment + 1 .. L : packed.seg[s] = made.seg[t]
      /\ \A s, t \in fSegment + 1 .. n : packed.seg[s].ascii = packed.seg[t].ascii /\ packed.seg[s].ascii # -1 => s = t
  BY <1>6, Zenon DEF Packing, Entries
<1>9. \A t \in fSegment + 1 .. L :
         /\ \/ \E r \in fSegment + 1 .. Len(Segment) : Segment[r].used /\ made.seg[t] = Segment[r]
            \/ made.seg[t].ascii = -1 /\ ~ made.seg[t].used
         /\ \E c \in Bars(driver) : made.seg[t].dirs = {c.dir}
  <2> SUFFICES ASSUME NEW t \in fSegment + 1 .. L
               PROVE  /\ \/ \E r \in fSegment + 1 .. Len(Segment) : Segment[r].used /\ made.seg[t] = Segment[r]
                         \/ made.seg[t].ascii = -1 /\ ~ made.seg[t].used
                      /\ \E c \in Bars(driver) : made.seg[t].dirs = {c.dir}
    OBVIOUS
  <2>1. FromUsed(made.seg[t], Segment) \/ FromCell(made.seg[t], bar)
    BY <1>4 DEF Creating
  <2>2. CASE FromUsed(made.seg[t], Segment)
    BY <1>1, <2>2 DEF FromUsed
  <2>3. CASE FromCell(made.seg[t], bar)
    <3>1. PICK p \in DOMAIN bar : bar[p].dir # 0 /\ made.seg[t] = NewSegment(bar[p])
      BY <2>3 DEF FromCell
    <3>2. NewSegment(bar[p]).ascii = -1 /\ ~ NewSegment(bar[p]).used
      BY <1>3, <3>1, NewSegmentSuits
    <3>3. NewSegment(bar[p]).dirs = {bar[p].dir}
      BY DEF NewSegment
    <3>4. PICK c \in Bars(driver) : bar[p].dir = c.dir
      BY <3>1 DEF BarsAsk
    <3> QED
      BY <3>1, <3>2, <3>3, <3>4
  <2> QED
    BY <2>1, <2>2, <2>3
<1> HIDE DEF n, L
<1>10. \A s \in fSegment + 1 .. L :
         /\ \/ \E r \in fSegment + 1 .. Len(Segment) : packed.seg[s] = Segment[r]
            \/ packed.seg[s].ascii = -1 /\ ~ packed.seg[s].used
         /\ \E c \in Bars(driver) : packed.seg[s].dirs = {c.dir}
  <2> SUFFICES ASSUME NEW s \in fSegment + 1 .. L
               PROVE  /\ \/ \E r \in fSegment + 1 .. Len(Segment) : packed.seg[s] = Segment[r]
                         \/ packed.seg[s].ascii = -1 /\ ~ packed.seg[s].used
                      /\ \E c \in Bars(driver) : packed.seg[s].dirs = {c.dir}
    OBVIOUS
  <2>1. PICK t \in fSegment + 1 .. L : packed.seg[s] = made.seg[t]
    BY <1>8
  <2> QED
    BY <1>9, <2>1
<1>11. n <= fSegment + Room
  <2>1. IF packed.failed THEN n = Room ELSE n >= fSegment
    BY <1>6 DEF Packing, n
  <2>2. n \in Nat /\ Room \in Nat
    BY <1>7, <1>8, Rooms
  <2> QED
    BY <1>6, <1>7, <2>1, <2>2 DEF Running, n
<1>12. ToDefine(packed.seg, n)
  <2>1. \A s \in fSegment + 1 .. L : packed.seg[s].ascii \in 0 .. Room - 1 \/ (packed.seg[s].ascii = -1 /\ ~ packed.seg[s].used)
    BY <1>1, <1>10
  <2> QED
    BY <1>7, <1>8, <1>11, <2>1, ZenonT(40) DEF ToDefine
<1>13. Defining(sg, packed.seg, n, n)
  BY <1>12, DefinedAre DEF n
<1>14. /\ sg \in Seq(SegmentSet) /\ Len(sg) = L
       /\ \A s \in 1 .. L : SameSegment(sg[s], packed.seg[s])
       /\ \A s \in 1 .. L : s \notin fSegment + 1 .. n \/ packed.seg[s].ascii # -1 => sg[s] = packed.seg[s]
       /\ \A s \in fSegment + 1 .. n : sg[s].ascii \in 0 .. Room - 1
       /\ \A s, t \in fSegment + 1 .. n : sg[s].ascii = sg[t].ascii /\ sg[s].ascii # -1 => s = t
  BY <1>8, <1>13, Zenon DEF Defining
<1>15. \A s \in 1 .. fSegment : sg[s] = Fixed[s]
  <2> SUFFICES ASSUME NEW s \in 1 .. fSegment PROVE sg[s] = Fixed[s]
    OBVIOUS
  <2>1. s \in 1 .. L /\ s \notin fSegment + 1 .. n
    BY <1>7
  <2>2. made.seg[s] = Fixed[s]
    BY <1>4 DEF Creating
  <2> QED
    BY <1>8, <1>14, <2>1, <2>2, Zenon
<1>16. \A s \in fSegment + 1 .. L : sg[s].ascii \in -1 .. Room - 1
  <2> SUFFICES ASSUME NEW s \in fSegment + 1 .. L PROVE sg[s].ascii \in -1 .. Room - 1
    OBVIOUS
  <2>1. s \in 1 .. L /\ (\A x \in 0 .. Room - 1 : x \in -1 .. Room - 1) /\ -1 \in -1 .. Room - 1
    BY <1>7, Rooms
  <2>2. CASE s \in fSegment + 1 .. n
    BY <1>14, <2>1, <2>2, Zenon
  <2>3. CASE s \notin fSegment + 1 .. n
    <3>1. sg[s] = packed.seg[s]
      BY <1>14, <2>1, <2>3, Zenon
    <3>2. CASE packed.seg[s].ascii = -1
      BY <2>1, <3>1, <3>2
    <3>3. CASE packed.seg[s].ascii # -1
      <4>1. PICK r \in fSegment + 1 .. Len(Segment) : packed.seg[s] = Segment[r]
        BY <1>10, <3>3, Zenon
      <4>2. sg[s].ascii \in 0 .. Room - 1
        BY <1>1, <3>1, <4>1, Zenon
      <4> QED
        BY <2>1, <4>2, Zenon
    <3> QED
      BY <3>2, <3>3, Zenon
  <2> QED
    BY <2>2, <2>3, ZenonT(40)
<1>17. ASSUME NEW s \in fSegment + 1 .. n
       PROVE  /\ sg[s].ascii \in 0 .. Room - 1
              /\ \E b \in Bars(driver) : sg[s].dirs = {b.dir}
              /\ sg[s].ascii = packed.seg[s].ascii => \E t \in fSegment + 1 .. Len(Segment) : sg[s] = Segment[t]
  <2>1. s \in fSegment + 1 .. L /\ s \in 1 .. L
    BY <1>7, <1>8
  <2>2. sg[s].ascii \in 0 .. Room - 1 /\ sg[s].ascii # -1
    <3>1. sg[s].ascii \in 0 .. Room - 1
      BY <1>14, Zenon
    <3>2. sg[s].ascii # -1
      BY <3>1, Rooms
    <3> QED
      BY <3>1, <3>2, Zenon
  <2>3. sg[s].dirs = packed.seg[s].dirs
    BY <1>14, <2>1, Zenon DEF SameSegment
  <2>4. \E b \in Bars(driver) : sg[s].dirs = {b.dir}
    <3>1. PICK b \in Bars(driver) : packed.seg[s].dirs = {b.dir}
      BY <1>10, <2>1, Zenon
    <3> QED
      BY <2>3, <3>1, Zenon
  <2>5. ASSUME sg[s].ascii = packed.seg[s].ascii
        PROVE  \E t \in fSegment + 1 .. Len(Segment) : sg[s] = Segment[t]
    <3>1. packed.seg[s].ascii # -1
      BY <2>2, <2>5, Zenon
    <3>2. sg[s] = packed.seg[s]
      BY <1>14, <2>1, <3>1, Zenon
    <3>3. PICK t \in fSegment + 1 .. Len(Segment) : packed.seg[s] = Segment[t]
      BY <1>10, <2>1, <3>1, Zenon
    <3> QED
      BY <3>2, <3>3, Zenon
  <2> QED
    BY <2>2, <2>4, <2>5, Zenon
<1>18. \A s, t \in fSegment + 1 .. n : sg[s].ascii = sg[t].ascii => s = t
  <2>1. \A s \in fSegment + 1 .. n : sg[s].ascii # -1
    <3> SUFFICES ASSUME NEW s \in fSegment + 1 .. n PROVE sg[s].ascii # -1
      OBVIOUS
    <3>1. sg[s].ascii \in 0 .. Room - 1
      BY <1>14, Zenon
    <3> QED
      BY <3>1, Rooms
  <2> QED
    BY <1>14, <2>1, Zenon
<1>19. SegmentsGiven(sg, packed)
  BY <1>7, <1>8, <1>14, <1>15, <1>16, <1>17, <1>18, ZenonT(40) DEF SegmentsGiven, n
<1>20. CellsGiven(made, packed, bar, L)
  <2>1. /\ DOMAIN made.bar = DOMAIN bar
        /\ \A p \in DOMAIN bar : FitCell(made.bar[p]) /\ SameLook(made.bar[p], bar[p])
        /\ \A p \in DOMAIN bar : bar[p].dir = 0 => made.bar[p] = bar[p]
        /\ \A p \in DOMAIN bar : bar[p].dir # 0 => made.bar[p].segment \in 1 .. L
    BY <1>4 DEF Creating, L
  <2>2. \A p \in DOMAIN bar : bar[p].dir = 0 => made.bar[p].segment = 0
    BY <2>1, SMTT(30) DEF BarsAsk
  <2>3. \A x \in 1 .. L : packed.cells[x] \in 1 .. L
    BY <1>6, SMTT(30) DEF Packing, Tables, L
  <2>4. ~ packed.failed /\ ~ packed.selfMerged => \A x \in 1 .. L : packed.cells[x] \in 1 .. packed.nSegment
    BY <1>6 DEF Keeping, L
  <2> QED
    BY <2>1, <2>2, <2>3, <2>4 DEF CellsGiven
<1>21. AsBars(made.seg)
  BY <1>9, Zenon DEF L, AsBars
<1> QED
  BY <1>4, <1>5, <1>6, <1>13, <1>14, <1>19, <1>20, <1>21, Zenon DEF n

-----------------------------------------------------------------------------
(* What a draw of bars computes *)

\* The code of a segment: that of a fixed one is none that can be defined.
CodeIs(sg, s) ==
  /\ s <= fSegment => /\ SegmentCode(sg, s) \in Codes /\ SegmentCode(sg, s) \notin UserChars
                      /\ SegmentCode(sg, s) # -1
  /\ s > fSegment => \/ sg[s].ascii = -1 /\ SegmentCode(sg, s) = -1
                     \/ /\ sg[s].ascii \in 0 .. Room - 1 /\ SegmentCode(sg, s) = CHAR0 + sg[s].ascii
                        /\ SegmentCode(sg, s) \in BarChars /\ SegmentCode(sg, s) \in UserChars
                        /\ SegmentCode(sg, s) # -1

\* Each segment has such a code.
LEMMA GivenCodes ==
  ASSUME Inv, NEW sg, NEW packed, SegmentsGiven(sg, packed), NEW s \in 1 .. Len(sg)
  PROVE  CodeIs(sg, s)
<1>1. Len(sg) \in Nat /\ fSegment \in Nat /\ s \in Nat
  BY FixedAre DEF SegmentsGiven
<1>2. ASSUME s <= fSegment
      PROVE  /\ SegmentCode(sg, s) \in Codes /\ SegmentCode(sg, s) \notin UserChars /\ SegmentCode(sg, s) # -1
  <2>1. s \in 1 .. fSegment /\ s \in DOMAIN Fixed
    BY <1>1, <1>2, FixedAre
  <2>2. SegmentCode(sg, s) = Fixed[s].ascii
    BY <1>2, <2>1, Zenon DEF SegmentCode, SegmentsGiven
  <2>3. Fixed[s].ascii \notin UserChars
    BY <2>1, TextDisplayAssumption, Zenon
  <2>4. Fixed[s].ascii \in Nat
    BY <2>1, FixedAre
  <2>5. Fixed[s].ascii # -1
    BY <2>4
  <2>6. Fixed[s].ascii \in Codes
    BY <2>1 DEF Codes
  <2> QED
    BY <2>2, <2>3, <2>5, <2>6, Zenon
<1>3. ASSUME s > fSegment
      PROVE  \/ sg[s].ascii = -1 /\ SegmentCode(sg, s) = -1
             \/ /\ sg[s].ascii \in 0 .. Room - 1 /\ SegmentCode(sg, s) = CHAR0 + sg[s].ascii
                /\ SegmentCode(sg, s) \in BarChars /\ SegmentCode(sg, s) \in UserChars
                /\ SegmentCode(sg, s) # -1
  <2> DEFINE a == sg[s].ascii
             c == SegmentCode(sg, s)
  <2>1. s \in fSegment + 1 .. Len(sg) /\ ~ (s <= fSegment)
    BY <1>1, <1>3
  <2>2. a \in -1 .. Room - 1
    BY <2>1 DEF SegmentsGiven
  <2>3. c = IF a = -1 THEN a ELSE CHAR0 + a
    BY <2>1 DEF SegmentCode
  <2> HIDE DEF a, c
  <2>4. \/ a = -1 /\ c = -1
        \/ a \in 0 .. Room - 1 /\ c = CHAR0 + a /\ c \in BarChars /\ c \in UserChars /\ c # -1
    BY <2>2, <2>3, Rooms DEF BarChars, UserChars
  <2> QED
    BY <2>4, Zenon DEF a, c
<1> QED
  BY <1>2, <1>3, Zenon DEF CodeIs

\* The segments of the cells after pack_segments.
CellSegments(made, packed) ==
  [p \in DOMAIN BarFB |-> IF made.bar[p].segment = 0 THEN 0 ELSE packed.cells[made.bar[p].segment]]

\* The cells, with those segments.
BarsWith(made, of) == [p \in DOMAIN BarFB |-> [made.bar[p] EXCEPT !.segment = of[p]]]

\* The segments that are left, with new marks of their use.
SegmentsWith(sg, last, used) == [s \in 1 .. last |-> [sg[s] EXCEPT !.used = used[s]]]

\* The segments that have taken a character.
Fresh(sg, packed) == {s \in fSegment + 1 .. packed.nSegment : sg[s].ascii # packed.seg[s].ascii}

\* Their bitmaps.
BitmapsOf(sg, fresh) ==
  [x \in {sg[s].ascii : s \in fresh} |-> Bitmap(sg[CHOOSE s \in fresh : sg[s].ascii = x])]

\* The layout, with the characters of the segments.
LayoutWith(sg, of) ==
  [p \in DOMAIN LayoutFB |->
     IF of[p] # 0 /\ SegmentCode(sg, of[p]) # -1 THEN SegmentCode(sg, of[p]) ELSE LayoutFB[p]]

\* The cells that show a character that is defined anew.
FreshCells(of, fresh) == {p \in DisplayCells : of[p] \in fresh}

\* The segments that are kept.
SegmentsKept(sg, n, last) ==
  /\ Segments' /\ Len(Segment') = last /\ last \in Nat /\ n <= last
  /\ \A s : s \in fSegment + 1 .. last <=> s \in fSegment + 1 .. n
  /\ \A s \in fSegment + 1 .. n : Segment'[s].ascii = sg[s].ascii /\ Bitmap(Segment'[s]) = Bitmap(sg[s])
  /\ \A s \in 1 .. last : Segment'[s].val1 = sg[s].val1 /\ Segment'[s].val2 = sg[s].val2

\* The segments that a draw leaves keep the invariant.
LEMMA NewSegments ==
  ASSUME Inv, driver' = driver, NEW sg, NEW packed, SegmentsGiven(sg, packed),
         NEW last, last = Greater(packed.nSegment, fSegment),
         NEW used, \A s \in 1 .. last : used[s] \in BOOLEAN,
         Segment' = SegmentsWith(sg, last, used)
  PROVE  SegmentsKept(sg, packed.nSegment, last)
<1> USE DEF SegmentsWith
<1> DEFINE n == packed.nSegment
           L == Len(sg)
<1>1. /\ n \in 0 .. L /\ L \in Nat /\ fSegment \in Nat /\ fSegment <= L /\ sg \in Seq(SegmentSet)
      /\ \A s \in fSegment + 1 .. n :
           /\ sg[s].ascii \in 0 .. Room - 1
           /\ \E b \in Bars(driver) : sg[s].dirs = {b.dir}
      /\ \A s, t \in fSegment + 1 .. n : sg[s].ascii = sg[t].ascii => s = t
  BY FixedAre, Zenon DEF SegmentsGiven
<1> HIDE DEF n, L
<1>2. /\ last \in Nat /\ n <= last /\ fSegment <= last /\ last <= L
      /\ \A s : s \in fSegment + 1 .. last <=> s \in fSegment + 1 .. n
  <2>1. last = IF n < fSegment THEN fSegment ELSE n
    BY DEF Greater, n
  <2> QED
    BY <1>1, <2>1
<1>3. ASSUME NEW s \in 1 .. last
      PROVE  /\ Segment'[s] \in SegmentSet /\ Segment'[s].ascii = sg[s].ascii /\ Segment'[s].dirs = sg[s].dirs
             /\ Bitmap(Segment'[s]) = Bitmap(sg[s])
             /\ Segment'[s].val1 = sg[s].val1 /\ Segment'[s].val2 = sg[s].val2
  <2>1. s \in 1 .. L
    BY <1>1, <1>2
  <2>2. sg[s] \in SegmentSet
    BY <1>1, <2>1, ElementOfSeq DEF L
  <2>3. Segment'[s] = [sg[s] EXCEPT !.used = used[s]] /\ used[s] \in BOOLEAN
    OBVIOUS
  <2> DEFINE e == Segment'[s]
             d == sg[s]
             u == used[s]
  <2>4. e = [d EXCEPT !.used = u] /\ u \in BOOLEAN /\ d \in SegmentSet
    BY <2>2, <2>3
  <2> HIDE DEF e, d, u
  <2>5. e \in SegmentSet /\ e.ascii = d.ascii /\ e.dirs = d.dirs /\ e.val1 = d.val1 /\ e.val2 = d.val2 /\ e.style = d.style
    BY <2>4 DEF SegmentSet
  <2>6. Bitmap(e) = Bitmap(d)
    BY <2>5 DEF Bitmap
  <2> QED
    BY <2>5, <2>6, Zenon DEF e, d
<1>4. Segment' \in Seq(SegmentSet) /\ Len(Segment') = last
  <2>1. Segment' \in [1 .. last -> SegmentSet]
    <3> DEFINE f == Segment'
    <3>1. DOMAIN f = 1 .. last /\ f = [s \in 1 .. last |-> f[s]]
      BY Zenon
    <3>2. \A s \in 1 .. last : f[s] \in SegmentSet
      BY <1>3, Zenon
    <3> HIDE DEF f
    <3>3. f \in [1 .. last -> SegmentSet]
      BY <3>1, <3>2, Zenon
    <3> QED
      BY <3>3, Zenon DEF f
  <2>2. \A f \in [1 .. last -> SegmentSet] : f \in Seq(SegmentSet) /\ Len(f) = last
    <3> SUFFICES ASSUME NEW f \in [1 .. last -> SegmentSet] PROVE f \in Seq(SegmentSet) /\ Len(f) = last
      OBVIOUS
    <3>1. f \in Seq(SegmentSet)
      <4> DEFINE S == SegmentSet
      <4> HIDE DEF S
      <4>1. f \in [1 .. last -> S]
        BY DEF S
      <4>2. f \in Seq(S)
        BY <1>2, <4>1, SeqDef
      <4> QED
        BY <4>2 DEF S
    <3>2. DOMAIN f = 1 .. Len(f) /\ Len(f) \in Nat
      BY <3>1, LenProperties
    <3>3. DOMAIN f = 1 .. last
      OBVIOUS
    <3> QED
      BY <1>2, <3>1, <3>2, <3>3
  <2> QED
    BY <2>1, <2>2, Zenon
<1>5. \A s \in fSegment + 1 .. last : s \in 1 .. last
  BY <1>1, <1>2
<1>6. Segments'
  <2>1. Len(Segment') >= fSegment
    BY <1>1, <1>2, <1>4
  <2>2. \A s \in fSegment + 1 .. last :
          /\ Segment'[s].ascii \in 0 .. Room - 1
          /\ \E b \in Bars(driver) : Segment'[s].dirs = {b.dir}
    <3> SUFFICES ASSUME NEW s \in fSegment + 1 .. last
                 PROVE  /\ Segment'[s].ascii \in 0 .. Room - 1
                        /\ \E b \in Bars(driver) : Segment'[s].dirs = {b.dir}
      OBVIOUS
    <3>1. s \in fSegment + 1 .. packed.nSegment /\ s \in 1 .. last
      BY <1>2, <1>5, Zenon DEF n
    <3>2. Segment'[s].ascii = sg[s].ascii /\ Segment'[s].dirs = sg[s].dirs
      BY <1>3, <3>1, Zenon
    <3>3. sg[s].ascii \in 0 .. Room - 1 /\ \E b \in Bars(driver) : sg[s].dirs = {b.dir}
      BY <1>1, <3>1, Zenon DEF n
    <3> QED
      BY <3>2, <3>3, Zenon
  <2>3. \A s, t \in fSegment + 1 .. last : Segment'[s].ascii = Segment'[t].ascii => s = t
    <3>1. \A s \in fSegment + 1 .. last : Segment'[s].ascii = sg[s].ascii /\ s \in fSegment + 1 .. n
      BY <1>2, <1>3, <1>5, Zenon
    <3>2. \A s, t \in fSegment + 1 .. n : sg[s].ascii = sg[t].ascii => s = t
      BY <1>1, Zenon
    <3> QED
      BY <3>1, <3>2, ZenonT(40)
  <2> QED
    BY <1>4, <2>1, <2>2, <2>3, Zenon DEF Segments
<1> QED
  BY <1>2, <1>3, <1>4, <1>5, <1>6, Zenon DEF n, SegmentsKept

\* What define_chars sends: the bitmaps of the segments that have taken a character.
BitmapsSent(bitmaps, sg, n, fresh) ==
  /\ \A x \in DOMAIN bitmaps : x \in 0 .. Room - 1
  /\ \A s \in fSegment + 1 .. n :
       /\ s \in fresh => sg[s].ascii \in DOMAIN bitmaps /\ bitmaps[sg[s].ascii] = Bitmap(sg[s])
       /\ s \notin fresh => sg[s].ascii \notin DOMAIN bitmaps

\* Each character that was taken gets the bitmap of its segment, and no other changes.
LEMMA NewBitmaps ==
  ASSUME NEW sg, NEW packed, SegmentsGiven(sg, packed),
         NEW fresh, fresh = Fresh(sg, packed), NEW bitmaps, bitmaps = BitmapsOf(sg, fresh)
  PROVE  BitmapsSent(bitmaps, sg, packed.nSegment, fresh)
<1> USE DEF Fresh, BitmapsOf
<1>1. /\ \A s \in fSegment + 1 .. packed.nSegment : sg[s].ascii \in 0 .. Room - 1
      /\ \A s, t \in fSegment + 1 .. packed.nSegment : sg[s].ascii = sg[t].ascii => s = t
      /\ \A s \in fresh : s \in fSegment + 1 .. packed.nSegment
  BY Zenon DEF SegmentsGiven
<1>2. DOMAIN bitmaps = {sg[s].ascii : s \in fresh}
  OBVIOUS
<1>3. ASSUME NEW s \in fresh
      PROVE  sg[s].ascii \in DOMAIN bitmaps /\ bitmaps[sg[s].ascii] = Bitmap(sg[s])
  <2> DEFINE P(t) == t \in fresh /\ sg[t].ascii = sg[s].ascii
             t == CHOOSE t \in fresh : sg[t].ascii = sg[s].ascii
  <2>1. t \in fresh /\ sg[t].ascii = sg[s].ascii
    BY Zenon
  <2> HIDE DEF t
  <2>2. t = s
    BY <1>1, <2>1, Zenon
  <2>3. sg[s].ascii \in DOMAIN bitmaps
    BY <1>2
  <2>4. bitmaps[sg[s].ascii] = Bitmap(sg[t])
    BY <2>3, Zenon DEF t
  <2> QED
    BY <2>2, <2>3, <2>4, Zenon
<1>4. ASSUME NEW s \in fSegment + 1 .. packed.nSegment, s \notin fresh PROVE sg[s].ascii \notin DOMAIN bitmaps
  BY <1>1, <1>2, <1>4
<1>5. \A x \in DOMAIN bitmaps : x \in 0 .. Room - 1
  BY <1>1, <1>2
<1> QED
  BY <1>3, <1>4, <1>5, Zenon DEF BitmapsSent

\* Icons have the characters behind those of the bars.
LEMMA IconCodes ==
  ASSUME Inv, NEW n \in IconNames, Icon[n].ascii >= 0
  PROVE  Icon[n].ascii \in IconChars /\ Icon[n].ascii - CHAR0 \in 0 .. CHARS - 1 /\ Icon[n].ascii - CHAR0 \notin 0 .. Room - 1
<1> DEFINE a == Icon[n].ascii
           c == icon_counter
<1>1. a \in {-1, -2} \union (CHAR0 + CHARS - c .. CHAR0 + CHARS - 1) /\ c \in 0 .. ICONS
  BY DEF Inv, IconData
<1>2. a >= 0
  OBVIOUS
<1> HIDE DEF a, c
<1>3. a \in IconChars /\ a - CHAR0 \in 0 .. CHARS - 1 /\ a - CHAR0 \notin 0 .. Room - 1
  BY <1>1, <1>2, Rooms DEF IconChars
<1> QED
  BY <1>3, Zenon DEF a

\* The order of numbers.
LEMMA Numbers ==
  /\ ~ (-1 >= 0)
  /\ \A x \in Int : ~ (x < 0) => x >= 0
  /\ \A L \in Nat : \A x \in 1 .. L : x # 0 /\ x \in Nat
  /\ \A L \in Nat : \A x \in 0 .. L : x \in Nat
  /\ \A f, x \in Nat : x <= f \/ x > f
  /\ \A f, n, m, x \in Nat : x \in 1 .. n /\ n <= m => x \in 1 .. m /\ (x > f => x \in f + 1 .. n)
OBVIOUS

\* The characters of bars and of icons.
LEMMA CharSets ==
  /\ \A x \in BarChars : x \in UserChars /\ x \notin IconChars
  /\ \A x \in IconChars : x \in UserChars
  /\ \A x \in UserChars : x \in BarChars \/ x \in IconChars
  /\ \A x \in 0 .. Room - 1 : x \in 0 .. CHARS - 1 /\ x # -1 /\ (CHAR0 + x) - CHAR0 = x
BY Rooms DEF BarChars, IconChars, UserChars

\* A character whose bitmap stays looks the same.
LEMMA SamePicture ==
  ASSUME NEW c, NEW f, NEW g, c \notin UserChars \/ f[c - CHAR0] = g[c - CHAR0]
  PROVE  Picture(c, f) = Picture(c, g)
BY DEF Picture

-----------------------------------------------------------------------------
(* A draw of bars keeps the invariant *)

\* A bar is drawn: cells, segments, bitmaps and layout are changed together, and icons are left
\* alone; of are the segments of the cells.
LEMMA BarDrawnStep ==
  ASSUME Inv, UNCHANGED <<driver, size, Icon>>,
         NEW bar, BarsAsk(bar), NEW made, NEW packed, NEW sg,
         SegmentsGiven(sg, packed), CellsGiven(made, packed, bar, Len(sg)),
         NEW of, of = CellSegments(made, packed), NEW fresh, fresh = Fresh(sg, packed), BarFB' = BarsWith(made, of),
         NEW last, SegmentsKept(sg, packed.nSegment, last),
         Sound' => Sound /\ ~ packed.failed /\ ~ packed.selfMerged,
         NEW bitmaps, BitmapsSent(bitmaps, sg, packed.nSegment, fresh),
         glyph' = Defined(glyph, bitmaps),
         NEW layout, layout = LayoutWith(sg, of), NEW display, display = Invalidated(DisplayFB, FreshCells(of, fresh)),
         blit(layout, display, DOMAIN LayoutFB)
  PROVE  Inv' /\ (Below /\ OnScreen => OnScreen')
<1> USE DEF CellSegments, Fresh, BarsWith, LayoutWith, FreshCells
<1> DEFINE n == packed.nSegment
           L == Len(sg)
<1>1. /\ driver \in Drivers /\ driver' = driver /\ size' = size /\ Icon' = Icon
      /\ DisplayCells \subseteq DOMAIN LayoutFB /\ DOMAIN BarFB = DOMAIN LayoutFB /\ DOMAIN bar = DOMAIN BarFB
      /\ DOMAIN made.bar = DOMAIN bar
  BY LargeLayout, Zenon DEF Inv, Buffers, BarsAsk, CellsGiven
<1>2. n \in 0 .. L /\ L \in Nat /\ fSegment \in Nat /\ fSegment <= L
  BY FixedAre, Zenon DEF SegmentsGiven
<1>3. \A p \in DOMAIN BarFB :
        /\ bar[p].dir = 0 => of[p] = 0
        /\ bar[p].dir # 0 => of[p] \in 1 .. L /\ (Sound' => of[p] \in 1 .. n)
  <2> SUFFICES ASSUME NEW p \in DOMAIN BarFB
               PROVE  /\ bar[p].dir = 0 => of[p] = 0
                      /\ bar[p].dir # 0 => of[p] \in 1 .. L /\ (Sound' => of[p] \in 1 .. n)
    BY Zenon
  <2>1. of[p] = IF made.bar[p].segment = 0 THEN 0 ELSE packed.cells[made.bar[p].segment]
    BY Zenon
  <2>2. CASE bar[p].dir = 0
    <3>1. made.bar[p].segment = 0
      BY <1>1, <2>2, Zenon DEF CellsGiven
    <3> QED
      BY <2>1, <2>2, <3>1, Zenon
  <2>3. CASE bar[p].dir # 0
    <3> DEFINE x == made.bar[p].segment
    <3>1. x \in 1 .. L
      BY <1>1, <2>3, Zenon DEF CellsGiven
    <3>2. x # 0
      BY <1>2, <3>1, Numbers, Zenon
    <3>3. packed.cells[x] \in 1 .. L /\ (Sound' => packed.cells[x] \in 1 .. n)
      BY <3>1, Zenon DEF CellsGiven
    <3> QED
      BY <2>1, <2>3, <3>2, <3>3, Zenon
  <2> QED
    BY <2>2, <2>3, Zenon
<1>4. /\ Segments' /\ Len(Segment') = last /\ last \in Nat /\ n <= last
      /\ \A s : s \in fSegment + 1 .. last <=> s \in fSegment + 1 .. n
      /\ \A s \in fSegment + 1 .. n : Segment'[s].ascii = sg[s].ascii /\ Bitmap(Segment'[s]) = Bitmap(sg[s])
  BY Zenon DEF SegmentsKept
<1>5. /\ \A x \in DOMAIN bitmaps : x \in 0 .. Room - 1
      /\ \A s \in fSegment + 1 .. n :
           /\ s \in fresh => sg[s].ascii \in DOMAIN bitmaps /\ bitmaps[sg[s].ascii] = Bitmap(sg[s])
           /\ s \notin fresh => sg[s].ascii \notin DOMAIN bitmaps
  BY Zenon DEF BitmapsSent
<1>6. /\ Fonts'
      /\ \A c \in 0 .. CHARS - 1 : glyph'[1][c] = IF c \in DOMAIN bitmaps THEN bitmaps[c] ELSE glyph[1][c]
  BY <1>1, DefinedFonts, Zenon DEF Inv
\* The layout: only cells of bars get something new, and no character of icons.
<1>7. /\ DOMAIN layout = DOMAIN LayoutFB
      /\ \A p \in DOMAIN LayoutFB :
           \/ layout[p] = LayoutFB[p]
           \/ bar[p].dir # 0 /\ layout[p] = SegmentCode(sg, of[p]) /\ layout[p] # -1
      /\ \A p \in DOMAIN LayoutFB : of[p] # 0 /\ SegmentCode(sg, of[p]) # -1 => layout[p] = SegmentCode(sg, of[p])
  <2>1. \A p \in DOMAIN LayoutFB :
          layout[p] = IF of[p] # 0 /\ SegmentCode(sg, of[p]) # -1 THEN SegmentCode(sg, of[p]) ELSE LayoutFB[p]
    BY Zenon
  <2>2. DOMAIN layout = DOMAIN LayoutFB
    BY Zenon
  <2> QED
    BY <1>1, <1>3, <2>1, <2>2, Zenon
<1>8. /\ Codes' = Codes /\ \A p \in DOMAIN LayoutFB : LayoutFB[p] \in Codes
      /\ \A x : x \in BarChars => x \in UserChars /\ x \in Codes /\ x \notin IconChars
      /\ \A x : x \in IconChars => x \in UserChars
      /\ \A x \in UserChars : x \in BarChars \/ x \in IconChars
  <2>1. /\ \A x : x \in BarChars => x \in UserChars /\ x \notin IconChars
        /\ \A x : x \in IconChars => x \in UserChars
        /\ \A x \in UserChars : x \in BarChars \/ x \in IconChars
    BY CharSets, Zenon
  <2>2. Codes' = Codes /\ \A x \in UserChars : x \in Codes
    BY <1>1, Zenon DEF Codes
  <2>3. \A p \in DOMAIN LayoutFB : LayoutFB[p] \in Codes
    BY Zenon DEF Inv, Buffers
  <2> QED
    BY <2>1, <2>2, <2>3, Zenon
<1>9. \A p \in DOMAIN LayoutFB : layout[p] # LayoutFB[p] =>
        bar[p].dir # 0 /\ layout[p] \in Codes /\ layout[p] \notin IconChars
  <2> SUFFICES ASSUME NEW p \in DOMAIN LayoutFB, layout[p] # LayoutFB[p]
               PROVE  bar[p].dir # 0 /\ layout[p] \in Codes /\ layout[p] \notin IconChars
    BY Zenon
  <2> DEFINE s == of[p]
  <2>1. bar[p].dir # 0 /\ layout[p] = SegmentCode(sg, s) /\ layout[p] # -1
    BY <1>7, Zenon
  <2>2. s \in 1 .. Len(sg)
    BY <1>1, <1>3, <2>1, Zenon
  <2>3. s <= fSegment \/ s > fSegment
    BY <1>2, <2>2, Numbers, Zenon
  <2> HIDE DEF s
  <2>4. CodeIs(sg, s)
    BY <2>2, GivenCodes, Zenon
  <2>5. /\ s <= fSegment => SegmentCode(sg, s) \in Codes /\ SegmentCode(sg, s) \notin UserChars
        /\ s > fSegment => SegmentCode(sg, s) = -1 \/ SegmentCode(sg, s) \in BarChars
    BY <2>4, Zenon DEF CodeIs
  <2> QED
    BY <1>8, <2>1, <2>3, <2>5, Zenon
<1>10. Prepared(layout, display, DOMAIN LayoutFB)
  <2>1. \A q \in DisplayCells : display[q] = DisplayFB[q] \/ display[q] = Wrong
    BY Zenon DEF Invalidated
  <2>2. \A q \in DisplayCells : q \in DOMAIN LayoutFB /\ layout[q] \in Codes
    BY <1>1, <1>8, <1>9, Zenon
  <2> QED
    BY <2>1, <2>2, Zenon DEF Prepared
<1>11. LayoutFB' = layout /\ DOMAIN DisplayFB' = DisplayCells /\ \A q \in DisplayCells : DisplayFB'[q] = LayoutFB'[q]
  BY <1>10, BlitCopies, Zenon DEF Inv
<1>12. Buffers'
  <2>1. \A q \in DOMAIN layout : layout[q] \in Codes
    BY <1>7, <1>8, <1>9, Zenon
  <2>2. DOMAIN BarFB' = DOMAIN BarFB
    BY Zenon
  <2> QED
    BY <1>1, <1>7, <1>8, <1>11, <2>1, <2>2, Zenon DEF Inv, Buffers
\* The cells of the bars.
<1>13. ASSUME NEW p \in DOMAIN BarFB
       PROVE  BarFB'[p].segment = of[p] /\ BarFB'[p].dir = bar[p].dir /\ FitCell(BarFB'[p]) /\ of[p] \in Nat
  <2> DEFINE c == made.bar[p]
             d == BarFB'[p]
             s == of[p]
  <2>1. FitCell(c) /\ SameLook(c, bar[p])
    BY <1>1, Zenon DEF CellsGiven
  <2>2. s \in Nat
    <3>1. 0 \in Nat
      BY Zenon
    <3> QED
      BY <1>1, <1>2, <1>3, <3>1, Numbers, Zenon
  <2>3. d = [c EXCEPT !.segment = s]
    BY Zenon
  <2> HIDE DEF c, d, s
  <2>4. /\ d \in CellSet /\ d.segment = s /\ d.val1 = c.val1 /\ d.val2 = c.val2 /\ d.dir = c.dir /\ d.style = c.style
    BY <2>1, <2>2, <2>3, Zenon DEF FitCell, CellSet
  <2>5. FitCell(d)
    BY <2>1, <2>4, Zenon DEF FitCell
  <2> QED
    BY <2>1, <2>2, <2>4, <2>5, Zenon DEF SameLook, d, s
<1>14. Cells'
  <2>1. DOMAIN BarFB' = DOMAIN BarFB
    BY Zenon
  <2> SUFFICES ASSUME NEW p \in DOMAIN BarFB
               PROVE  /\ FitCell(BarFB'[p])
                      /\ BarFB'[p].dir = 0 => BarFB'[p].segment = 0
                      /\ BarFB'[p].dir # 0 => \E b \in Bars(driver) : p \in BarCells(b) /\ BarFB'[p].dir = b.dir
    BY <1>1, <2>1, Zenon DEF Cells
  <2>2. bar[p].dir # 0 => \E b \in Bars(driver) : p \in BarCells(b) /\ bar[p].dir = b.dir
    BY <1>1, Zenon DEF BarsAsk
  <2> QED
    BY <1>3, <1>13, <2>2, ZenonT(40)
<1>15. \A s \in fSegment + 1 .. n : sg[s].ascii \in 0 .. Room - 1 /\ sg[s].ascii \in 0 .. CHARS - 1
  <2>1. \A x \in 0 .. Room - 1 : x \in 0 .. CHARS - 1
    BY CharSets, Zenon
  <2>2. \A s \in fSegment + 1 .. n : sg[s].ascii \in 0 .. Room - 1
    BY Zenon DEF SegmentsGiven
  <2> QED
    BY <2>1, <2>2, Zenon
<1>16. Bitmaps'
  <2> SUFFICES ASSUME NEW s \in fSegment + 1 .. n PROVE glyph'[1][sg[s].ascii] = Bitmap(sg[s])
    BY <1>4, Zenon DEF Bitmaps
  <2>1. CASE s \in fresh
    BY <1>5, <1>6, <1>15, <2>1, Zenon
  <2>2. CASE s \notin fresh
    <3>1. sg[s].ascii = packed.seg[s].ascii
      BY <2>2, Zenon
    <3>2. PICK t \in fSegment + 1 .. Len(Segment) : sg[s] = Segment[t]
      BY <3>1, Zenon DEF SegmentsGiven
    <3>3. glyph[1][Segment[t].ascii] = Bitmap(Segment[t])
      BY Zenon DEF Inv, Bitmaps
    <3>4. glyph'[1][sg[s].ascii] = glyph[1][sg[s].ascii]
      BY <1>5, <1>6, <1>15, <2>2, Zenon
    <3> QED
      BY <3>2, <3>3, <3>4, Zenon
  <2> QED
    BY <2>1, <2>2, Zenon
<1>17. BarsOwn'
  <2> SUFFICES ASSUME NEW p \in DOMAIN BarFB, layout[p] \in BarChars PROVE bar[p].dir # 0
    <3>1. DOMAIN BarFB' = DOMAIN BarFB
      BY Zenon
    <3>2. BarChars' = BarChars
      BY Zenon DEF BarChars
    <3> QED
      BY <1>11, <1>13, <3>1, <3>2, ZenonT(40) DEF BarsOwn
  <2>1. CASE layout[p] # LayoutFB[p]
    BY <1>1, <1>9, <2>1, Zenon
  <2>2. CASE layout[p] = LayoutFB[p]
    <3>1. BarFB[p].dir # 0
      BY <2>2, Zenon DEF Inv, BarsOwn
    <3> QED
      BY <1>1, <3>1, Zenon DEF BarsAsk
  <2> QED
    BY <2>1, <2>2, Zenon
<1>18. ASSUME Sound', NEW p \in DOMAIN BarFB, bar[p].dir # 0
       PROVE  /\ of[p] \in 1 .. n /\ of[p] \in 1 .. last
              /\ of[p] <= fSegment => layout[p] \notin UserChars
              /\ of[p] > fSegment => of[p] \in fSegment + 1 .. n /\ layout[p] = CHAR0 + sg[of[p]].ascii
  <2> DEFINE s == of[p]
  <2>1. s \in 1 .. Len(sg) /\ s \in 1 .. n
    BY <1>3, <1>18, Zenon
  <2> HIDE DEF s
  <2>2. s \in 1 .. last /\ s # 0 /\ (s > fSegment => s \in fSegment + 1 .. n)
    <3>1. s # 0 /\ s \in Nat
      BY <1>2, <2>1, Numbers, Zenon
    <3>2. n \in Nat
      BY <1>2, Numbers, Zenon
    <3>3. last \in Nat /\ n <= last
      BY <1>4, Zenon
    <3> QED
      BY <1>2, <2>1, <3>1, <3>2, <3>3, Numbers, Zenon
  <2>0. CodeIs(sg, s)
    BY <2>1, GivenCodes, Zenon
  <2>3. s <= fSegment => SegmentCode(sg, s) \notin UserChars /\ SegmentCode(sg, s) # -1
    BY <2>0, Zenon DEF CodeIs
  <2>4. s > fSegment => SegmentCode(sg, s) = CHAR0 + sg[s].ascii /\ SegmentCode(sg, s) # -1
    <3> SUFFICES ASSUME s > fSegment PROVE SegmentCode(sg, s) = CHAR0 + sg[s].ascii /\ SegmentCode(sg, s) # -1
      BY Zenon
    <3>1. sg[s].ascii \in 0 .. Room - 1
      BY <1>15, <2>2, Zenon
    <3>2. sg[s].ascii # -1
      BY <3>1, CharSets, Zenon
    <3> QED
      BY <2>0, <3>2, Zenon DEF CodeIs
  <2>5. of[p] # 0 /\ SegmentCode(sg, of[p]) # -1 => layout[p] = SegmentCode(sg, of[p])
    BY <1>1, <1>7, Zenon
  <2> QED
    BY <2>1, <2>2, <2>3, <2>4, <2>5, Zenon DEF s
<1>19. BarsDrawn'
  <2>1. DOMAIN BarFB' = DOMAIN BarFB
    BY Zenon
  <2> SUFFICES ASSUME Sound', NEW p \in DOMAIN BarFB, BarFB'[p].dir # 0
               PROVE  /\ BarFB'[p].segment \in 1 .. Len(Segment')
                      /\ BarFB'[p].segment > fSegment =>
                           LayoutFB'[p] = CHAR0 + Segment'[BarFB'[p].segment].ascii
    BY <2>1, Zenon DEF BarsDrawn
  <2> DEFINE s == of[p]
  <2>2. BarFB'[p].segment = s /\ bar[p].dir # 0
    BY <1>13, Zenon
  <2>3. s \in 1 .. last /\ (s > fSegment => s \in fSegment + 1 .. n /\ layout[p] = CHAR0 + sg[s].ascii)
    BY <1>18, <2>2, Zenon
  <2>4. Len(Segment') = last
    BY <1>4, Zenon
  <2>5. s > fSegment => layout[p] = CHAR0 + Segment'[s].ascii
    BY <1>4, <2>3, Zenon
  <2>6. LayoutFB'[p] = layout[p]
    BY <1>11, Zenon
  <2> HIDE DEF s
  <2> QED
    BY <2>2, <2>3, <2>4, <2>5, <2>6, Zenon
\* Icons.
<1>20. IconData' /\ IconNames' = IconNames
  BY <1>1, SameIcons, Zenon DEF Inv
<1>21. \A m \in IconNames : Icon[m].ascii >= 0 => glyph'[1][Icon[m].ascii - CHAR0] = glyph[1][Icon[m].ascii - CHAR0]
  <2> SUFFICES ASSUME NEW m \in IconNames, Icon[m].ascii >= 0
               PROVE  glyph'[1][Icon[m].ascii - CHAR0] = glyph[1][Icon[m].ascii - CHAR0]
    BY Zenon
  <2>1. Icon[m].ascii - CHAR0 \in 0 .. CHARS - 1 /\ Icon[m].ascii - CHAR0 \notin 0 .. Room - 1
    BY IconCodes, Zenon
  <2> QED
    BY <1>5, <1>6, <2>1, Zenon
<1>22. IconBitmaps'
  <2> SUFFICES ASSUME NEW m \in IconNames, Icon[m].prvmap >= 0
               PROVE  glyph'[1][Icon[m].ascii - CHAR0] = <<"icon", m, Icon[m].prvmap>>
    BY <1>1, <1>20, Zenon DEF Inv, IconBitmaps
  <2>1. Icon[m].ascii < 0 => Icon[m].prvmap = -1
    BY Zenon DEF Inv, IconBitmaps
  <2>2. Icon[m].prvmap # -1
    BY Numbers, Zenon
  <2>3. Icon[m].ascii >= 0
    <3>1. ~ (Icon[m].ascii < 0)
      BY <2>1, <2>2, Zenon
    <3>2. Icon[m].ascii \in Int
      BY Zenon DEF Inv, IconData, IconSet
    <3> QED
      BY <3>1, <3>2, Numbers, Zenon
  <2>4. glyph[1][Icon[m].ascii - CHAR0] = <<"icon", m, Icon[m].prvmap>>
    BY Zenon DEF Inv, IconBitmaps
  <2> QED
    BY <1>21, <2>3, <2>4, Zenon
<1>23. ASSUME NEW w \in Icons(driver)
       PROVE  /\ <<w.row, w.col>> \in DOMAIN LayoutFB /\ layout[<<w.row, w.col>>] = LayoutFB[<<w.row, w.col>>]
              /\ w.name \in IconNames
  <2> DEFINE p == <<w.row, w.col>>
  <2>1. p \in DisplayCells /\ \A b \in Bars(driver) : p \notin BarCells(b)
    BY <1>1, IconsAre, Zenon
  <2>2. p \in DOMAIN LayoutFB
    BY <1>1, <2>1, Zenon
  <2>3. bar[p].dir = 0
    BY <1>1, <2>1, <2>2, Zenon DEF BarsAsk
  <2>4. w.name \in IconNames
    BY Zenon DEF IconNames
  <2> QED
    BY <1>9, <2>2, <2>3, <2>4, Zenon
<1>24. IconsDrawn'
  <2> SUFFICES ASSUME NEW w \in Icons(driver) PROVE IconDrawn(w)'
    BY <1>1, Zenon DEF IconsDrawn
  <2>1. IconDrawn(w)
    BY Zenon DEF Inv, IconsDrawn
  <2> QED
    BY <1>1, <1>11, <1>21, <1>23, <2>1, Zenon DEF IconDrawn
<1>25. IconsOwn'
  <2> SUFFICES ASSUME NEW p \in DOMAIN LayoutFB, layout[p] \in IconChars
               PROVE  \E w \in Icons(driver) : p = <<w.row, w.col>>
    <3>1. IconChars' = IconChars
      BY Zenon DEF IconChars
    <3>2. DOMAIN layout = DOMAIN LayoutFB
      BY <1>7, Zenon
    <3> QED
      BY <1>1, <1>11, <3>1, <3>2, Zenon DEF IconsOwn
  <2>1. layout[p] = LayoutFB[p]
    BY <1>9, Zenon
  <2> QED
    BY <2>1, Zenon DEF Inv, IconsOwn
<1>26. Inv'
  BY <1>4, <1>6, <1>12, <1>14, <1>16, <1>17, <1>19, <1>20, <1>22, <1>24, <1>25, Zenon DEF Inv
<1>27. ASSUME Below, OnScreen PROVE OnScreen'
  <2>1. ASSUME INVALIDATE, Sound', NEW q \in OwnCells, display[q] # Wrong
        PROVE  Picture(layout[q], glyph'[1]) = Picture(layout[q], glyph[1])
    <3>1. q \in DisplayCells /\ q \in DOMAIN LayoutFB /\ q \in DOMAIN BarFB
      BY <1>1, Zenon DEF OwnCells
    <3>2. CASE layout[q] \notin UserChars
      BY <3>2, SamePicture, Zenon
    <3>3. CASE layout[q] \in UserChars
      <4> DEFINE x == layout[q] - CHAR0
      <4>1. x \in 0 .. CHARS - 1 /\ (layout[q] \in BarChars <=> x \in 0 .. Room - 1)
        BY <3>3, CharsAre, Zenon
      <4>2. x \notin DOMAIN bitmaps
        <5>1. CASE layout[q] \notin BarChars
          BY <1>5, <4>1, <5>1, Zenon
        <5>2. CASE layout[q] \in BarChars
          <6>1. bar[q].dir # 0
            <7>1. LayoutFB'[q] \in BarChars' /\ DOMAIN BarFB' = DOMAIN BarFB
              BY <1>11, <5>2, Zenon DEF BarChars
            <7>2. BarFB'[q].dir # 0
              BY <1>17, <3>1, <7>1, Zenon DEF BarsOwn
            <7> QED
              BY <1>13, <3>1, <7>2, Zenon
          <6> DEFINE s == of[q]
          <6>2. /\ s \in 1 .. n
                /\ s <= fSegment => layout[q] \notin UserChars
                /\ s > fSegment => s \in fSegment + 1 .. n /\ layout[q] = CHAR0 + sg[s].ascii
            BY <1>18, <2>1, <3>1, <6>1, Zenon
          <6>3. s <= fSegment \/ s > fSegment
            <7>1. n \in Nat
              BY <1>2, Numbers, Zenon
            <7>2. s \in Nat
              BY <6>2, <7>1, Numbers, Zenon
            <7> QED
              BY <1>2, <7>2, Numbers, Zenon
          <6>4. s \in fSegment + 1 .. n /\ layout[q] = CHAR0 + sg[s].ascii
            BY <3>3, <6>2, <6>3, Zenon
          <6>5. s \notin fresh
            <7> SUFFICES ASSUME s \in fresh PROVE FALSE
              BY Zenon
            <7>1. display[q] = Wrong
              BY <2>1, <3>1, Zenon DEF Invalidated
            <7> QED
              BY <2>1, <7>1, Zenon
          <6>6. sg[s].ascii \notin DOMAIN bitmaps
            BY <1>5, <6>4, <6>5, Zenon
          <6>7. x = sg[s].ascii
            <7> DEFINE a == sg[s].ascii
                       l == layout[q]
            <7>1. a \in 0 .. Room - 1 /\ l = CHAR0 + a
              BY <1>15, <6>4, Zenon
            <7> HIDE DEF a, l
            <7>2. l - CHAR0 = a
              BY <7>1, CharSets, Zenon
            <7> QED
              BY <7>2, Zenon DEF a, l
          <6> QED
            BY <6>6, <6>7, Zenon
        <5> QED
          BY <5>1, <5>2, Zenon
      <4>3. glyph'[1][x] = glyph[1][x]
        BY <1>6, <4>1, <4>2, Zenon
      <4> QED
        <5> DEFINE c == layout[q]
                   f == glyph'[1]
                   g == glyph[1]
        <5>1. f[c - CHAR0] = g[c - CHAR0]
          BY <4>3, Zenon
        <5> HIDE DEF c, f, g
        <5>2. Picture(c, f) = Picture(c, g)
          BY <5>1, SamePicture, Zenon
        <5> QED
          BY <5>2, Zenon DEF c, f, g
    <3> QED
      BY <3>2, <3>3, Zenon
  <2>2. Buffers
    BY Zenon DEF Inv
  <2> QED
    BY <1>1, <1>10, <1>27, <2>1, <2>2, BlitShows, Zenon
<1> QED
  BY <1>26, <1>27, Zenon

-----------------------------------------------------------------------------
(* Steps and theorems *)

\* A bar is drawn, by way of made, packed and sg.
BarDrawn(bar, made, packed, sg, used) ==
  /\ made = create_segments(Segment, bar, size[1], size[2]) /\ packed = pack_segments(made.seg)
  /\ sg = define_chars(packed.seg, packed.nSegment)
  /\ BarFB' = BarsWith(made, CellSegments(made, packed))
  /\ \A s \in 1 .. Greater(packed.nSegment, fSegment) : used[s] \in BOOLEAN
  /\ \A s \in 1 .. Greater(packed.nSegment, fSegment) :
       used[s] <=> \E p \in DOMAIN BarFB : CellSegments(made, packed)[p] = s
  /\ Segment' = SegmentsWith(sg, Greater(packed.nSegment, fSegment), used)
  /\ Sound' => Sound /\ ~ packed.failed /\ ~ packed.selfMerged
  /\ glyph' = Defined(glyph, BitmapsOf(sg, Fresh(sg, packed)))
  /\ blit(LayoutWith(sg, CellSegments(made, packed)),
          Invalidated(DisplayFB, FreshCells(CellSegments(made, packed), Fresh(sg, packed))), DOMAIN LayoutFB)

\* What bar_draw does, step by step.
LEMMA BarDrawIs ==
  ASSUME Inv, NEW b, NEW val1, NEW val2, bar_draw(b, val1, val2)
  PROVE  \E made, packed, sg, used : BarDrawn(create_bar(BarFB, b, val1, val2), made, packed, sg, used)
<1> DEFINE bar == create_bar(BarFB, b, val1, val2)
           segment(made, packed, p) ==
             IF made.bar[p].segment = 0 THEN 0 ELSE packed.cells[made.bar[p].segment]
           fresh(packed, sg) == {s \in fSegment + 1 .. packed.nSegment : sg[s].ascii # packed.seg[s].ascii}
           Drawn(made, packed, sg, p) ==
             segment(made, packed, p) # 0 /\ SegmentCode(sg, segment(made, packed, p)) # -1
           bitmaps(packed, sg) == [x \in {sg[s].ascii : s \in fresh(packed, sg)} |->
                                     Bitmap(sg[CHOOSE s \in fresh(packed, sg) : sg[s].ascii = x])]
           layout(made, packed, sg) ==
             [p \in DOMAIN LayoutFB |->
                IF Drawn(made, packed, sg, p) THEN SegmentCode(sg, segment(made, packed, p)) ELSE LayoutFB[p]]
           display(made, packed, sg) ==
             Invalidated(DisplayFB, {p \in DisplayCells : segment(made, packed, p) \in fresh(packed, sg)})
           Draws(made, packed, sg) ==
             /\ BarFB' = [p \in DOMAIN BarFB |-> [made.bar[p] EXCEPT !.segment = segment(made, packed, p)]]
             /\ Segment' = [s \in 1 .. Greater(packed.nSegment, fSegment) |->
                              [sg[s] EXCEPT !.used = \E p \in DOMAIN BarFB : segment(made, packed, p) = s]]
             /\ failed' = (failed \/ packed.failed)
             /\ selfMerged' = (selfMerged \/ packed.selfMerged)
             /\ glyph' = Defined(glyph, bitmaps(packed, sg))
             /\ blit(layout(made, packed, sg), display(made, packed, sg), DOMAIN LayoutFB)
<1>a. \E made \in {create_segments(Segment, bar, size[1], size[2])} :
      \E packed \in {pack_segments(made.seg)} :
      \E sg \in {define_chars(packed.seg, packed.nSegment)} : Draws(made, packed, sg)
  BY Zenon DEF bar_draw
<1> HIDE DEF Draws, bar
<1>b. PICK made \in {create_segments(Segment, bar, size[1], size[2])} :
        \E packed \in {pack_segments(made.seg)} :
        \E sg \in {define_chars(packed.seg, packed.nSegment)} : Draws(made, packed, sg)
  BY <1>a, Zenon
<1>c. PICK packed \in {pack_segments(made.seg)} :
        \E sg \in {define_chars(packed.seg, packed.nSegment)} : Draws(made, packed, sg)
  BY <1>b, Zenon
<1>d. PICK sg \in {define_chars(packed.seg, packed.nSegment)} : Draws(made, packed, sg)
  BY <1>c, Zenon
<1> HIDE DEF segment, fresh, Drawn, bitmaps, layout, display
<1> DEFINE seg(p) == segment(made, packed, p)
           last == Greater(packed.nSegment, fSegment)
           lay == layout(made, packed, sg)
           dis == display(made, packed, sg)
           used == [s \in 1 .. last |-> \E p \in DOMAIN BarFB : seg(p) = s]
           new == Fresh(sg, packed)
           of == CellSegments(made, packed)
<1>1. /\ BarFB' = [p \in DOMAIN BarFB |-> [made.bar[p] EXCEPT !.segment = seg(p)]]
      /\ Segment' = [s \in 1 .. last |-> [sg[s] EXCEPT !.used = \E p \in DOMAIN BarFB : seg(p) = s]]
      /\ failed' = (failed \/ packed.failed)
      /\ selfMerged' = (selfMerged \/ packed.selfMerged)
      /\ glyph' = Defined(glyph, bitmaps(packed, sg))
      /\ blit(lay, dis, DOMAIN LayoutFB)
  BY <1>d, Zenon DEF Draws
<1>3. made = create_segments(Segment, bar, size[1], size[2]) /\ packed = pack_segments(made.seg)
      /\ sg = define_chars(packed.seg, packed.nSegment)
  OBVIOUS
<1>4. DOMAIN BarFB = DOMAIN LayoutFB /\ DisplayCells \subseteq DOMAIN BarFB
  BY LargeLayout DEF Inv, Buffers
<1>5. \A p \in DOMAIN BarFB : of[p] = seg(p)
  BY Zenon DEF CellSegments, segment
<1> HIDE DEF seg
<1>6. BarFB' = BarsWith(made, of)
  BY <1>1, <1>5, Zenon DEF BarsWith
<1>7. \A s \in 1 .. last : used[s] \in BOOLEAN
  BY Zenon
<1>8. Segment' = SegmentsWith(sg, last, used)
  <2>1. \A s \in 1 .. last : used[s] = \E p \in DOMAIN BarFB : seg(p) = s
    BY Zenon
  <2> QED
    BY <1>1, <2>1, Zenon DEF SegmentsWith
<1>9. Sound' => Sound /\ ~ packed.failed /\ ~ packed.selfMerged
  BY <1>1, Zenon DEF Sound
<1>16. \A s \in 1 .. last : used[s] <=> \E p \in DOMAIN BarFB : of[p] = s
  <2>1. \A s \in 1 .. last : used[s] <=> \E p \in DOMAIN BarFB : seg(p) = s
    BY Zenon
  <2> HIDE DEF used, of, last
  <2> QED
    BY <1>5, <2>1, Zenon
<1>10. lay = LayoutWith(sg, of)
  <2> DEFINE f(p) == IF seg(p) # 0 /\ SegmentCode(sg, seg(p)) # -1 THEN SegmentCode(sg, seg(p)) ELSE LayoutFB[p]
             g(p) == IF of[p] # 0 /\ SegmentCode(sg, of[p]) # -1 THEN SegmentCode(sg, of[p]) ELSE LayoutFB[p]
  <2>1. ASSUME NEW p \in DOMAIN LayoutFB PROVE f(p) = g(p)
    <3>1. of[p] = seg(p)
      BY <1>4, <1>5, Zenon
    <3> DEFINE x == of[p]
               y == seg(p)
    <3>2. x = y
      BY <3>1
    <3> HIDE DEF x, y
    <3>3. (IF y # 0 /\ SegmentCode(sg, y) # -1 THEN SegmentCode(sg, y) ELSE LayoutFB[p])
            = (IF x # 0 /\ SegmentCode(sg, x) # -1 THEN SegmentCode(sg, x) ELSE LayoutFB[p])
      BY <3>2, Zenon
    <3> QED
      BY <3>3, Zenon DEF x, y
  <2>2. lay = [p \in DOMAIN LayoutFB |-> f(p)]
    BY Zenon DEF layout, Drawn, seg
  <2>3. LayoutWith(sg, of) = [p \in DOMAIN LayoutFB |-> g(p)]
    BY Zenon DEF LayoutWith
  <2> HIDE DEF f, g, lay, of
  <2> QED
    BY <2>1, <2>2, <2>3, Zenon
<1>11. fresh(packed, sg) = new
  BY Zenon DEF fresh, Fresh
<1>12. dis = Invalidated(DisplayFB, FreshCells(of, new))
  <2>1. {p \in DisplayCells : of[p] \in new} = {p \in DisplayCells : seg(p) \in new}
    <3> HIDE DEF new, of
    <3> QED
      BY <1>4, <1>5, Zenon
  <2>2. dis = Invalidated(DisplayFB, {p \in DisplayCells : seg(p) \in new})
    BY <1>11, Zenon DEF display, seg
  <2> HIDE DEF new, of, dis
  <2> QED
    BY <2>1, <2>2, Zenon DEF FreshCells
<1>13. bitmaps(packed, sg) = BitmapsOf(sg, new)
  BY Zenon DEF bitmaps, BitmapsOf, fresh, Fresh
<1>14. glyph' = Defined(glyph, BitmapsOf(sg, new)) /\ blit(lay, dis, DOMAIN LayoutFB)
  <2> HIDE DEF new, lay, dis
  <2> QED
    BY <1>1, <1>13, Zenon
<1>15. BarDrawn(bar, made, packed, sg, used)
  <2> HIDE DEF lay, dis, used
  <2> QED
    BY <1>3, <1>6, <1>7, <1>8, <1>9, <1>10, <1>12, <1>14, <1>16, Zenon DEF BarDrawn
<1> QED
  BY <1>15, Zenon DEF bar

\* A draw of bars keeps the invariant, and what the display holds.
LEMMA BarDrawStep ==
  ASSUME Inv, UNCHANGED <<driver, size, Icon>>, NEW bar, BarsAsk(bar),
         NEW made, NEW packed, NEW sg, NEW used, BarDrawn(bar, made, packed, sg, used)
  PROVE  Inv' /\ (Below /\ OnScreen => OnScreen')
<1> DEFINE last == Greater(packed.nSegment, fSegment)
           new == Fresh(sg, packed)
           of == CellSegments(made, packed)
           lay == LayoutWith(sg, of)
           dis == Invalidated(DisplayFB, FreshCells(of, new))
           maps == BitmapsOf(sg, new)
<1>1. /\ made = create_segments(Segment, bar, size[1], size[2]) /\ packed = pack_segments(made.seg)
      /\ sg = define_chars(packed.seg, packed.nSegment)
  BY Zenon DEF BarDrawn
<1>6. /\ BarFB' = BarsWith(made, of)
      /\ \A s \in 1 .. last : used[s] \in BOOLEAN
      /\ Segment' = SegmentsWith(sg, last, used)
      /\ Sound' => Sound /\ ~ packed.failed /\ ~ packed.selfMerged
      /\ glyph' = Defined(glyph, maps)
      /\ blit(lay, dis, DOMAIN LayoutFB)
  BY Zenon DEF BarDrawn
<1>2. /\ last = Greater(packed.nSegment, fSegment) /\ new = Fresh(sg, packed) /\ of = CellSegments(made, packed)
      /\ lay = LayoutWith(sg, of) /\ dis = Invalidated(DisplayFB, FreshCells(of, new)) /\ maps = BitmapsOf(sg, new)
      /\ driver' = driver
  OBVIOUS
<1> HIDE DEF last, new, of, lay, dis, maps
<1>3. SegmentsGiven(sg, packed) /\ CellsGiven(made, packed, bar, Len(sg))
  BY <1>1, BarFacts, Zenon
<1>4. SegmentsKept(sg, packed.nSegment, last)
  BY <1>2, <1>3, <1>6, NewSegments, Zenon
<1>5. BitmapsSent(maps, sg, packed.nSegment, new)
  BY <1>2, <1>3, NewBitmaps, Zenon
<1> QED
  BY <1>2, <1>3, <1>4, <1>5, <1>6, BarDrawnStep, Zenon

\* The update of a bar.
LEMMA BarStep ==
  ASSUME Inv, NEW b \in Bars(driver), BarUpdate(b)
  PROVE  Inv' /\ (Below /\ OnScreen => OnScreen')
<1>1. PICK v \in Lengths(b) : bar_draw(b, v[1], IF Single_Segments THEN v[1] ELSE v[2])
  BY DEF BarUpdate
<1>2. UNCHANGED <<driver, size, Icon>>
  BY DEF BarUpdate
<1>3. Lengths(b) \subseteq Nat \X Nat
  BY BarsAre DEF Inv, Buffers
<1>4. v[1] \in Nat /\ v[2] \in Nat /\ (IF Single_Segments THEN v[1] ELSE v[2]) \in Nat
  BY <1>3
<1> DEFINE bar == create_bar(BarFB, b, v[1], IF Single_Segments THEN v[1] ELSE v[2])
<1>5. BarsAsk(bar)
  BY <1>4, BarCreated
<1>6. PICK made, packed, sg, used : BarDrawn(bar, made, packed, sg, used)
  BY <1>1, BarDrawIs, Zenon
<1> HIDE DEF bar
<1> QED
  BY <1>2, <1>5, <1>6, BarDrawStep, Zenon

-----------------------------------------------------------------------------
(* Theorems *)

\* Every step keeps the invariant, and what the display holds.
LEMMA NextInv ==
  ASSUME Inv, [Next]_vars
  PROVE  Inv' /\ (Below /\ OnScreen => OnScreen')
<1>1. CASE TextUpdate
  <2>1. PICK w \in Texts(driver) : \E text \in [1 .. w.width -> Letters(driver)] : text_draw(w, text)
    BY <1>1, Zenon DEF TextUpdate
  <2>2. PICK text \in [1 .. w.width -> Letters(driver)] : text_draw(w, text)
    BY <2>1, Zenon
  <2> QED
    BY <2>2, TextStep
<1>2. CASE \E w \in Icons(driver) : IconUpdate(w)
  BY <1>2, IconStep, Zenon
<1>3. CASE \E b \in Bars(driver) : BarUpdate(b)
  BY <1>3, BarStep, Zenon
<1>4. CASE UNCHANGED vars
  <2>1. /\ driver' = driver /\ size' = size /\ LayoutFB' = LayoutFB /\ DisplayFB' = DisplayFB
        /\ BarFB' = BarFB /\ Segment' = Segment /\ failed' = failed /\ selfMerged' = selfMerged
        /\ Icon' = Icon /\ glyph' = glyph /\ screen' = screen /\ folded' = folded
    BY <1>4 DEF vars, barVars
  <2>2. Buffers' /\ Cells' /\ Segments' /\ Fonts' /\ Bitmaps'
    BY <2>1 DEF Inv, Buffers, Codes, Cells, Segments, Fonts, Bitmaps
  <2>3. BarsOwn' /\ BarsDrawn' /\ IconsOwn' /\ (Sound' <=> Sound)
    BY <2>1 DEF Inv, BarsOwn, BarsDrawn, BarChars, IconChars, IconsOwn, Sound
  <2>4. IconData' /\ IconNames' = IconNames
    BY <2>1, SameIcons DEF Inv
  <2>5. IconBitmaps' /\ IconsDrawn'
    BY <2>1, <2>4 DEF Inv, IconBitmaps, IconsDrawn, IconDrawn
  <2>6. OnScreen => OnScreen'
    BY <2>1, <2>3 DEF OnScreen, OwnCells, Visible, Where, INVALIDATE, Shown
  <2> QED
    BY <2>2, <2>3, <2>4, <2>5, <2>6 DEF Inv
<1> QED
  BY <1>1, <1>2, <1>3, <1>4 DEF Next

\* Buffers keep their sizes, layouts hold characters of the display, icons number their bitmaps
\* within bounds and segments have characters of their share, however drv_generic_text.c draws.
THEOREM TypeCorrect == Spec => []TypeOK
<1>1. Inv /\ [Next]_vars => Inv'
  BY NextInv
<1> QED
  BY <1>1, InitInv, InvTyped, PTL DEF Spec

\* A cell of a bar shows the bitmap of its segment and an icon its own, the last one defined:
\* neither pack_segments nor define_chars takes a character that is shown, whatever the number
\* of characters, bars and icons, the size of the display and the driver.
THEOREM CellsShowTheirPictures == Spec => []CellsShowPictures
<1>1. Inv /\ [Next]_vars => Inv'
  BY NextInv
<1> QED
  BY <1>1, InitInv, InvShows, PTL DEF Spec

\* At the start the display is blank, as the layout is.
LEMMA InitOnScreen == Init => OnScreen
<1> SUFFICES ASSUME Init PROVE OnScreen
  OBVIOUS
<1> DEFINE places == {Where(p) : p \in {q \in DisplayCells : Visible(q)}}
<1>1. screen = [p \in places |-> IF INVALIDATE THEN <<Blank>> ELSE Blank] /\ LayoutFB = [p \in DisplayCells |-> Blank]
  BY Zenon DEF Init
<1>2. DOMAIN screen = places
  BY <1>1
<1>3. ASSUME NEW p \in OwnCells PROVE screen[Where(p)] = Shown(p)
  <2>1. p \in DisplayCells /\ Visible(p)
    BY DEF OwnCells
  <2>2. Where(p) \in places
    BY <2>1
  <2>3. LayoutFB[p] = Blank
    BY <1>1, <2>1
  <2>4. Blank \notin UserChars
    BY LettersAre DEF Init
  <2>5. Picture(Blank, glyph[1]) = <<Blank>>
    BY <2>4 DEF Picture
  <2> HIDE DEF places
  <2> QED
    BY <1>1, <2>2, <2>3, <2>5 DEF Shown
<1> QED
  BY <1>2, <1>3 DEF OnScreen

\* If the display holds what the layout says, it shows it.
LEMMA OnScreenShows ==
  ASSUME Inv, OnScreen
  PROVE  ScreenShowsLayout
<1> SUFFICES ASSUME Sound, NEW p \in OwnCells \ folded PROVE Seen(p) = Picture(LayoutFB[p], Font(p))
  BY DEF ScreenShowsLayout, ShowsLayout
<1>1. Font(p) = glyph[1]
  BY FontIs DEF Inv
<1>2. screen[Where(p)] = IF INVALIDATE THEN Picture(LayoutFB[p], glyph[1]) ELSE LayoutFB[p]
  BY Zenon DEF OnScreen, Shown
<1> QED
  BY <1>1, <1>2, Zenon DEF Seen

\* What drv_generic_text_blit leaves on the display is what the layout says, on one that keeps old
\* pictures and on an HD44780 of a size that exists, whose goto and write find each cell.
THEOREM ScreenIsRight ==
  ASSUME "HD44780" \in Drivers => RealDisplay
  PROVE  Spec => []ScreenShowsLayout
<1>1. Inv => Below
  BY DEF Inv, Buffers, Below
<1>2. Init => Inv /\ OnScreen
  BY InitInv, InitOnScreen
<1>3. Inv /\ OnScreen /\ [Next]_vars => Inv' /\ OnScreen'
  BY <1>1, NextInv
<1>4. Inv /\ OnScreen => ScreenShowsLayout
  BY OnScreenShows
<1> QED
  BY <1>2, <1>3, <1>4, PTL DEF Spec

-----------------------------------------------------------------------------
(* Ends *)

\* Cells that have a segment keep their ends.
Ends == Sound => \A p \in DOMAIN BarFB : BarFB[p].dir # 0 => Resembles(Segment[BarFB[p].segment], BarFB[p])

\* Of two ranges.
LEMMA Wider == \A n, m \in Nat : n <= m => \A x \in 1 .. n : x \in 1 .. m
OBVIOUS

\* A draw of bars: each cell has its segment, one that was merged into it, or one merged into that,
\* and so on, all of them with the same ends.
LEMMA EndsDrawn ==
  ASSUME Inv, OneResolution, UNCHANGED <<driver, size, Icon>>, NEW bar, BarsAsk(bar),
         NEW made, NEW packed, NEW sg, NEW used, BarDrawn(bar, made, packed, sg, used)
  PROVE  Ends'
<1> DEFINE last == Greater(packed.nSegment, fSegment)
           of == CellSegments(made, packed)
           n == packed.nSegment
<1>1. /\ made = create_segments(Segment, bar, size[1], size[2]) /\ packed = pack_segments(made.seg)
      /\ sg = define_chars(packed.seg, packed.nSegment)
  BY Zenon DEF BarDrawn
<1>2. /\ BarFB' = BarsWith(made, of)
      /\ \A s \in 1 .. last : used[s] \in BOOLEAN
      /\ Segment' = SegmentsWith(sg, last, used)
      /\ Sound' => ~ packed.failed /\ ~ packed.selfMerged
  BY Zenon DEF BarDrawn
<1>3. /\ CellsGiven(made, packed, bar, Len(sg)) /\ SegmentsGiven(sg, packed)
      /\ Creating(made, Segment, bar, DOMAIN bar) /\ Keeping(packed, made.seg)
      /\ Defining(sg, packed.seg, packed.nSegment, packed.nSegment) /\ Packing(packed, made.seg)
  <2>1. CellsGiven(made, packed, bar, Len(sg)) /\ SegmentsGiven(sg, packed)
    BY <1>1, BarFacts, Zenon
  <2>2. Creating(made, Segment, bar, DOMAIN bar) /\ Keeping(packed, made.seg)
    BY <1>1, BarFacts, Zenon
  <2>3. Defining(sg, packed.seg, packed.nSegment, packed.nSegment) /\ Packing(packed, made.seg)
    BY <1>1, BarFacts, Zenon
  <2> QED
    BY <2>1, <2>2, <2>3, Zenon
<1>10. AsBars(made.seg)
  BY <1>1, BarFacts, Zenon
<1>4. /\ last = Greater(packed.nSegment, fSegment) /\ driver' = driver /\ driver \in Drivers
      /\ DOMAIN bar = DOMAIN BarFB /\ of = CellSegments(made, packed)
  BY DEF BarsAsk, Inv, Buffers
<1> HIDE DEF last, of
<1>5. SegmentsKept(sg, packed.nSegment, last)
  BY <1>2, <1>3, <1>4, NewSegments, Zenon
<1>6. n <= last /\ \A s \in 1 .. last : Segment'[s].val1 = sg[s].val1 /\ Segment'[s].val2 = sg[s].val2
  BY <1>5, Zenon DEF SegmentsKept
<1>7. /\ Len(sg) = Len(made.seg) /\ Len(sg) \in Nat /\ n \in 0 .. Len(sg) /\ last \in Nat
      /\ \A s \in 1 .. Len(sg) : SameSegment(sg[s], packed.seg[s])
  <2>1. Len(packed.seg) = Len(made.seg)
    BY <1>3, Zenon DEF Packing, Entries
  <2>2. Len(sg) = Len(packed.seg) /\ \A s \in 1 .. Len(packed.seg) : SameSegment(sg[s], packed.seg[s])
    BY <1>3, Zenon DEF Defining
  <2> QED
    BY <1>3, <1>5, <2>1, <2>2, Zenon DEF SegmentsGiven, SegmentsKept
<1>8. ASSUME Sound', NEW p \in DOMAIN BarFB, BarFB'[p].dir # 0
      PROVE  Resembles(Segment'[BarFB'[p].segment], BarFB'[p])
  <2> DEFINE c == bar[p]
             d == BarFB'[p]
             m == made.bar[p]
             x == m.segment
             y == packed.cells[x]
             res == Resolution({c.dir})
             S == made.seg[x]
             T == packed.seg[y]
  <2>1. FitCell(m) /\ SameLook(m, c)
    BY <1>3, <1>4, Zenon DEF CellsGiven
  <2>2. d = [m EXCEPT !.segment = of[p]]
    BY <1>2, Zenon DEF BarsWith
  <2>3. of[p] = IF x = 0 THEN 0 ELSE y
    BY <1>4, Zenon DEF CellSegments
  <2> DEFINE u == of[p]
  <2>4. d.segment = u /\ d.val1 = c.val1 /\ d.val2 = c.val2 /\ d.dir = c.dir
    <3>1. d = [m EXCEPT !.segment = u]
      BY <2>2
    <3> HIDE DEF d, m, u, c
    <3>2. d.segment = u /\ d.val1 = m.val1 /\ d.val2 = m.val2 /\ d.dir = m.dir
      BY <2>1, <3>1 DEF FitCell, CellSet
    <3> QED
      BY <2>1, <3>2, Zenon DEF SameLook
  <2>5. c.dir # 0
    BY <1>8, <2>4, Zenon
  <2>6. x \in 1 .. Len(made.seg) /\ Suits(S, c)
    BY <1>3, <1>4, <2>5, Zenon DEF Creating
  <2>7. x # 0
    BY <1>7, <2>6, Numbers, Zenon
  <2>8. \A s \in fSegment + 1 .. Len(made.seg) : Resolution(made.seg[s].dirs) = res
    <3>1. PICK b \in Bars(driver) : c.dir = b.dir
      BY <1>4, <2>5, Zenon DEF BarsAsk
    <3>2. \A b2 \in Bars(driver) : Resolution({b2.dir}) = Resolution({b.dir})
      BY <1>4, Zenon DEF OneResolution
    <3> SUFFICES ASSUME NEW s \in fSegment + 1 .. Len(made.seg) PROVE Resolution(made.seg[s].dirs) = res
      OBVIOUS
    <3>3. PICK e \in Bars(driver) : made.seg[s].dirs = {e.dir}
      BY <1>10, Zenon DEF AsBars
    <3> QED
      BY <3>1, <3>2, <3>3, Zenon
  <2>9. res \in {XRES, YRES}
    BY ResolutionIs, Zenon
  <2>10. y \in 1 .. n /\ SameEnds(S, T, res)
    <3> HIDE DEF res, S, T, y, x, n
    <3>1. ~ packed.failed /\ ~ packed.selfMerged
      BY <1>2, <1>8, Zenon
    <3>2. /\ \A z \in 1 .. Len(made.seg) : packed.cells[z] \in 1 .. n
          /\ \A z \in 1 .. Len(made.seg) : SameEnds(made.seg[z], packed.seg[packed.cells[z]], res)
      BY <1>3, <2>8, <2>9, <3>1, Zenon DEF Keeping, n
    <3> QED
      BY <2>6, <3>2, Zenon DEF S, T, y
  <2>11. y \in 1 .. Len(sg) /\ y \in 1 .. last
    <3>1. n \in Nat
      BY <1>7, Numbers, Zenon
    <3>2. fSegment \in Nat /\ n <= Len(sg)
      <4>1. \A N \in Nat : \A k \in 0 .. N : k <= N
        OBVIOUS
      <4> QED
        BY <1>7, <4>1, FixedAre, Zenon
    <3> QED
      BY <1>6, <1>7, <2>10, <3>1, <3>2, Wider, ZenonT(40)
  <2>12. /\ Segment'[y].val1 = T.val1 /\ Segment'[y].val2 = T.val2
    BY <1>6, <1>7, <2>11, Zenon DEF SameSegment
  <2>13. Segment'[d.segment] = Segment'[y]
    BY <2>3, <2>4, <2>7, Zenon
  <2> DEFINE R == Segment'[y]
  <2>14. Length1(R, res) = Length1(T, res) /\ Length2(R, res) = Length2(T, res)
    BY <2>12, Zenon DEF Length1, Length2
  <2>15. Length1(S, res) = c.val1 /\ Length2(S, res) = c.val2
    BY <2>6, Zenon DEF Suits
  <2> HIDE DEF R, S, T, c, res
  <2>16. \A end \in {0, res} : /\ c.val1 = end => Length1(R, res) = end
                               /\ c.val2 = end => Length2(R, res) = end
    BY <2>10, <2>14, <2>15, Zenon DEF SameEnds
  <2>17. Resembles(R, d)
    <3> HIDE DEF d
    <3>1. Resolution({d.dir}) = res
      BY <2>4, Zenon DEF res
    <3>2. d.val1 = c.val1 /\ d.val2 = c.val2
      BY <2>4, Zenon
    <3> SUFFICES ASSUME NEW end \in {0, res}
                 PROVE  /\ d.val1 = end => Length1(R, res) = end
                        /\ d.val2 = end => Length2(R, res) = end
      BY <3>1, Zenon DEF Resembles
    <3> QED
      BY <2>16, <3>2, Zenon
  <2> QED
    BY <2>13, <2>17, Zenon DEF R
<1>9. DOMAIN BarFB' = DOMAIN BarFB
  BY <1>2, Zenon DEF BarsWith
<1> QED
  BY <1>8, <1>9, Zenon DEF Ends

\* Every step keeps the ends.
LEMMA NextEnds ==
  ASSUME Inv, OneResolution => Ends, [Next]_vars
  PROVE  OneResolution' => Ends'
<1>0. driver' = driver
  BY DEF Next, vars, barVars, TextUpdate, text_draw, IconUpdate, BarUpdate
<1> SUFFICES ASSUME OneResolution PROVE Ends'
  BY <1>0 DEF OneResolution
<1>1. ASSUME UNCHANGED <<BarFB, Segment, failed, selfMerged>> PROVE Ends'
  BY <1>1 DEF Ends, Sound
<1>2. CASE TextUpdate
  <2>1. PICK w \in Texts(driver) : \E text \in [1 .. w.width -> Letters(driver)] : text_draw(w, text)
    BY <1>2, Zenon DEF TextUpdate
  <2>2. PICK text \in [1 .. w.width -> Letters(driver)] : text_draw(w, text)
    BY <2>1, Zenon
  <2>3. PICK r, c : BarFB' = Enlarged(BarFB, r, c, NoBar)
    BY <2>2 DEF text_draw
  <2>4. Segment' = Segment /\ failed' = failed /\ selfMerged' = selfMerged
    BY <2>2 DEF text_draw
  <2>5. \A p \in DOMAIN BarFB' : BarFB'[p].dir # 0 => p \in DOMAIN BarFB /\ BarFB'[p] = BarFB[p]
    <3>1. NoBar.dir = 0
      BY DEF NoBar
    <3> QED
      BY <2>3, <3>1 DEF Enlarged
  <2> QED
    BY <2>4, <2>5 DEF Ends, Sound
<1>3. CASE \E w \in Icons(driver) : IconUpdate(w)
  BY <1>1, <1>3, Zenon DEF IconUpdate, barVars
<1>4. CASE \E b \in Bars(driver) : BarUpdate(b)
  <2>1. PICK b \in Bars(driver) : BarUpdate(b)
    BY <1>4
  <2>2. PICK v \in Lengths(b) : bar_draw(b, v[1], IF Single_Segments THEN v[1] ELSE v[2])
    BY <2>1 DEF BarUpdate
  <2>3. UNCHANGED <<driver, size, Icon>>
    BY <2>1 DEF BarUpdate
  <2>4. Lengths(b) \subseteq Nat \X Nat
    BY BarsAre DEF Inv, Buffers
  <2>5. v[1] \in Nat /\ v[2] \in Nat /\ (IF Single_Segments THEN v[1] ELSE v[2]) \in Nat
    BY <2>4
  <2> DEFINE bar == create_bar(BarFB, b, v[1], IF Single_Segments THEN v[1] ELSE v[2])
  <2>6. BarsAsk(bar)
    BY <2>5, BarCreated
  <2>7. PICK made, packed, sg, used : BarDrawn(bar, made, packed, sg, used)
    BY <2>2, BarDrawIs, Zenon
  <2> HIDE DEF bar
  <2> QED
    BY <2>3, <2>6, <2>7, EndsDrawn, Zenon
<1>5. CASE UNCHANGED vars
  BY <1>1, <1>5 DEF vars, barVars
<1> QED
  BY <1>2, <1>3, <1>4, <1>5 DEF Next

\* Cells without a bar have lengths of no direction.
LEMMA EndsShown ==
  ASSUME Inv, OneResolution => Ends
  PROVE  SoundEndsAreKept
<1> SUFFICES ASSUME Sound, OneResolution, NEW p \in DOMAIN BarFB, BarFB[p].segment \in DOMAIN Segment
             PROVE  Resembles(Segment[BarFB[p].segment], BarFB[p])
  BY Zenon DEF SoundEndsAreKept, EndsAreKept
<1>1. Segment \in Seq(SegmentSet)
  BY DEF Inv, Segments
<1>2. BarFB[p].segment # 0
  BY <1>1, LenProperties
<1> QED
  BY <1>2, Zenon DEF Inv, Cells, Ends

\* A cell that should be empty or full is shown so, however many segments pack_segments merges, if
\* bars lie one way or cells are square: segment_error "do not replace empty with non-empty" (drv_generic_text.c:737) and full with
\* non-full (:743), and so does any number of merges in a row.
THEOREM BarsKeepTheirEnds == Spec => []SoundEndsAreKept
<1> DEFINE E == OneResolution => Ends
<1>1. Init => Inv /\ E
  <2>1. Init => Ends
    BY DEF Init, Ends, NoBar
  <2> QED
    BY <2>1, InitInv
<1>2. Inv /\ E /\ [Next]_vars => Inv' /\ E'
  BY NextInv, NextEnds
<1>3. Inv /\ E => SoundEndsAreKept
  BY EndsShown
<1> HIDE DEF E
<1> QED
  BY <1>1, <1>2, <1>3, PTL DEF Spec

-----------------------------------------------------------------------------
(* Room for what is asked *)

\* The segments, beside the fixed ones, that are in use.
UsedOf(seg) == {s \in fSegment + 1 .. Len(seg) : seg[s].used}

\* Every segment that is in use is kept, and they are counted.
LEMMA KeptAre ==
  ASSUME NEW seg \in Seq(SegmentSet), fSegment <= Len(seg),
         \A s, t \in fSegment + 1 .. Len(seg) : seg[s].ascii = seg[t].ascii => s = t,
         NEW kept, kept = KeepUsed(seg), NEW inUse, inUse = UsedOf(seg)
  PROVE  /\ IsFiniteSet(inUse) /\ Cardinality(inUse) \in Nat /\ Len(kept) = fSegment + Cardinality(inUse)
         /\ \A t \in inUse : \E s \in fSegment + 1 .. Len(kept) : kept[s] = seg[t]
<1> DEFINE N == Len(seg)
           U(n) == UsedUpTo(seg, n)
           Is(s, k) == seg[s].used /\ U(s) = k
           C(k) == CHOOSE s \in fSegment + 1 .. N : Is(s, k)
           own == [k \in 1 .. U(N) |-> seg[C(k)]]
           f == [k \in 1 .. U(N) |-> C(k)]
<1>0. inUse = {s \in fSegment + 1 .. N : seg[s].used}
  BY DEF UsedOf
<1>1. N \in Nat /\ fSegment \in Nat /\ \A s \in fSegment + 1 .. N : seg[s] \in SegmentSet
  <2>1. N \in Nat /\ fSegment \in Nat
    BY FixedAre, LenProperties
  <2>2. \A s \in fSegment + 1 .. N : s \in 1 .. N
    BY <2>1
  <2> QED
    BY <2>1, <2>2, ElementOfSeq
<1>2. \A e \in SegmentSet : e.used \in BOOLEAN
  BY DEF SegmentSet
<1>16. U(N) = Cardinality(inUse)
  BY <1>0, Zenon DEF UsedUpTo
<1> HIDE DEF N
<1>3. \A s \in fSegment + 1 .. N : seg[s].used \in BOOLEAN
  BY <1>1, <1>2
<1>4. fSegment <= N
  BY DEF N
<1>5. U(N) \in Nat
  <2>1. N \in fSegment .. N
    BY <1>1, <1>4
  <2> QED
    BY <1>1, <1>3, <1>4, <2>1, UsedUpToIs
<1>6. \A k \in 1 .. U(N) : C(k) \in fSegment + 1 .. N /\ seg[C(k)].used /\ U(C(k)) = k
  <2>1. ASSUME NEW k \in 1 .. U(N) PROVE \E s \in fSegment + 1 .. N : Is(s, k)
    BY <1>1, <1>3, <1>4, UsedExists
  <2>2. ASSUME NEW k \in 1 .. U(N) PROVE C(k) \in fSegment + 1 .. N /\ Is(C(k), k)
    <3> HIDE DEF Is
    <3> QED
      BY <2>1
  <2> QED
    BY <2>2
<1>7. kept = Fixed \o own
  BY DEF KeepUsed, N
<1> HIDE DEF C, U
<1>8. own \in [1 .. U(N) -> SegmentSet]
  BY <1>1, <1>6
<1>9. own \in Seq(SegmentSet) /\ Len(own) = U(N)
  BY <1>5, <1>8
<1>10. \A k \in 1 .. U(N) : own[k] = seg[C(k)]
  OBVIOUS
<1> HIDE DEF own
<1>11. /\ Len(kept) = fSegment + U(N)
       /\ \A s \in 1 .. fSegment + U(N) : kept[s] = IF s <= fSegment THEN Fixed[s] ELSE own[s - fSegment]
  <2>1. Fixed \in Seq(SegmentSet) /\ Len(Fixed) = fSegment
    BY FixedAre DEF fSegment
  <2>2. own \in Seq(SegmentSet)
    BY <1>9
  <2>3. Fixed \in Seq(SegmentSet)
    BY <2>1
  <2>4. /\ Len(Fixed \o own) = Len(Fixed) + Len(own)
        /\ \A s \in 1 .. Len(Fixed) + Len(own) :
             (Fixed \o own)[s] = IF s <= Len(Fixed) THEN Fixed[s] ELSE own[s - Len(Fixed)]
    BY <2>2, <2>3, ConcatProperties, Zenon
  <2> QED
    BY <1>7, <1>9, <2>1, <2>4, Zenon
<1>12. IsFiniteSet(inUse)
  <2>1. IsFiniteSet(fSegment + 1 .. N) /\ inUse \subseteq fSegment + 1 .. N
    BY <1>0, <1>1, FS_Interval
  <2> QED
    BY <2>1, FS_Subset
<1>13. f \in Injection(1 .. U(N), inUse)
  <2>1. \A k \in 1 .. U(N) : C(k) \in inUse
    BY <1>0, <1>6
  <2>2. \A k, m \in 1 .. U(N) : C(k) = C(m) => k = m
    <3> SUFFICES ASSUME NEW k \in 1 .. U(N), NEW m \in 1 .. U(N), C(k) = C(m) PROVE k = m
      OBVIOUS
    <3>1. U(C(k)) = k /\ U(C(m)) = m
      BY <1>6
    <3> QED
      BY <3>1
  <2> QED
    BY <2>1, <2>2 DEF Injection, IsInjective
<1>14. f \in Surjection(1 .. U(N), inUse)
  <2>1. Cardinality(1 .. U(N)) = U(N)
    BY <1>5, FS_Interval
  <2> HIDE DEF f
  <2> QED
    BY <1>12, <1>13, <1>16, <2>1, FS_Injection
<1>15. ASSUME NEW t \in inUse PROVE \E s \in fSegment + 1 .. Len(kept) : kept[s] = seg[t]
  <2>1. PICK k \in 1 .. U(N) : C(k) = t
    BY <1>14 DEF Surjection
  <2> DEFINE s == fSegment + k
  <2>2. s \in fSegment + 1 .. Len(kept) /\ s \in 1 .. fSegment + U(N) /\ ~ (s <= fSegment) /\ s - fSegment = k
    BY <1>1, <1>5, <1>11
  <2>3. kept[s] = own[k]
    BY <1>11, <2>2
  <2>4. kept[s] = seg[t]
    BY <1>10, <2>1, <2>3
  <2> QED
    BY <2>2, <2>4
<1> QED
  BY <1>5, <1>11, <1>12, <1>15, <1>16

\* Segment k was made for a cell that no segment before it suits.
NewAt(sg, k, bar) ==
  \E p \in DOMAIN bar : /\ bar[p].dir # 0 /\ sg[k] = NewSegment(bar[p])
                        /\ \A j \in 1 .. k - 1 : ~ Suits(sg[j], bar[p])

\* What holds after the cells in V: what was kept comes first, and each cell has the first segment that suits it.
Filling(st, kept, bar, V) ==
  /\ Len(kept) <= Len(st.seg)
  /\ \A k \in 1 .. Len(kept) : st.seg[k] = kept[k]
  /\ \A k \in Len(kept) + 1 .. Len(st.seg) : NewAt(st.seg, k, bar)
  /\ \A p \in V : bar[p].dir # 0 => \A j \in 1 .. st.bar[p].segment - 1 : ~ Suits(st.seg[j], bar[p])

LEMMA AssignFills ==
  ASSUME NEW st, NEW seg, NEW bar, NEW V, Creating(st, seg, bar, V), V \subseteq DOMAIN bar,
         \A q \in DOMAIN bar : FitCell(bar[q]), NEW kept, Len(kept) \in Nat, Filling(st, kept, bar, V),
         NEW p \in DOMAIN bar, NEW next, next = Assign(st, p)
  PROVE  Filling(next, kept, bar, V \union {p})
<1> DEFINE c == st.bar[p]
           suiting == {s \in DOMAIN st.seg : Suits(st.seg[s], c)}
           found == IF suiting = {} THEN Len(st.seg) + 1 ELSE Min(suiting)
           grown == IF suiting = {} THEN Append(st.seg, NewSegment(c)) ELSE st.seg
           cell == [c EXCEPT !.segment = found]
           K == Len(kept)
           L == Len(st.seg)
<1>1. c.dir = bar[p].dir /\ SameLook(c, bar[p]) /\ FitCell(c) /\ FitCell(bar[p])
  BY DEF Creating, SameLook
<1>2. CASE c.dir = 0
  <2>1. next = st
    BY <1>2 DEF Assign
  <2>2. \A q \in V \union {p} : bar[q].dir # 0 => q \in V
    BY <1>1, <1>2
  <2> HIDE DEF c
  <2> QED
    BY <2>1, <2>2, Zenon DEF Filling
<1>3. CASE c.dir # 0
  <2>0. /\ st.seg \in Seq(SegmentSet) /\ L \in Nat /\ DOMAIN st.seg = 1 .. L /\ DOMAIN st.bar = DOMAIN bar
    <3>1. st.seg \in Seq(SegmentSet)
      BY DEF Creating
    <3> QED
      BY <3>1, LenProperties DEF Creating
  <2>1. next.seg = grown /\ next.bar = [st.bar EXCEPT ![p] = cell]
    BY <1>3 DEF Assign
  <2>2. next.bar[p] = cell /\ \A q \in DOMAIN bar \ {p} : next.bar[q] = st.bar[q]
    BY <2>0, <2>1
  <2>3. NewSegment(c) = NewSegment(bar[p]) /\ NewSegment(c) \in SegmentSet
    <3>1. NewSegment(c) = NewSegment(bar[p])
      BY <1>1 DEF NewSegment, SameLook
    <3> QED
      BY <1>1, <1>3, <3>1, NewSegmentSuits
  <2>4. cell.segment = found
    <3> HIDE DEF found
    <3> QED
      BY <1>1 DEF FitCell, CellSet
  <2>5. \A j \in 1 .. L : Suits(st.seg[j], bar[p]) <=> j \in suiting
    <3>1. \A j : Suits(st.seg[j], bar[p]) <=> Suits(st.seg[j], c)
      BY <1>1, SuitsSame
    <3> QED
      BY <2>0, <3>1, Zenon
  <2>6. /\ Len(grown) \in Nat /\ L <= Len(grown) /\ Len(grown) <= L + 1
        /\ \A j \in 1 .. L : grown[j] = st.seg[j]
        /\ \A j \in 1 .. found - 1 : j \in 1 .. L /\ j \notin suiting
        /\ Len(grown) = L + 1 => suiting = {} /\ grown[L + 1] = NewSegment(bar[p])
    <3>1. CASE suiting = {}
      <4>1. grown = Append(st.seg, NewSegment(c)) /\ found = L + 1
        BY <3>1
      <4> HIDE DEF grown, found, suiting, c
      <4>2. /\ Len(grown) = L + 1 /\ grown[L + 1] = NewSegment(c)
            /\ \A s \in 1 .. L : grown[s] = st.seg[s]
        BY <4>1, <2>0, <2>3, AppendProperties
      <4>3. \A j \in 1 .. found - 1 : j \in 1 .. L /\ j \notin suiting
        BY <3>1, <4>1, <2>0
      <4> QED
        BY <3>1, <4>2, <4>3, <2>0, <2>3
    <3>2. CASE suiting # {}
      <4>1. grown = st.seg /\ found = Min(suiting)
        BY <3>2
      <4>2. suiting \subseteq 1 .. L /\ suiting \subseteq Nat
        BY <2>0
      <4>3. \E n \in suiting : \A m \in suiting : n <= m
        <5> HIDE DEF suiting
        <5> QED
          BY <3>2, <4>2, SmallestNat
      <4>4. found \in suiting /\ \A m \in suiting : found <= m
        <5> HIDE DEF suiting, found
        <5> QED
          BY <4>1, <4>3 DEF Min
      <4>5. found \in 1 .. L
        BY <4>2, <4>4
      <4>6. \A j \in 1 .. found - 1 : j \in 1 .. L /\ j \notin suiting
        <5> HIDE DEF suiting, found
        <5> QED
          BY <2>0, <4>4, <4>5
      <4> HIDE DEF grown, found, suiting, c
      <4> QED
        BY <4>1, <4>6, <2>0
    <3> QED
      BY <3>1, <3>2
  <2> HIDE DEF cell, found, grown, suiting, c
  <2>7. K \in Nat /\ K <= L /\ K <= Len(grown)
    BY <2>0, <2>6 DEF Filling
  <2>8. \A k \in 1 .. K : grown[k] = kept[k]
    <3>1. \A k \in 1 .. K : k \in 1 .. L /\ st.seg[k] = kept[k]
      BY <2>0, <2>7 DEF Filling
    <3> QED
      BY <2>6, <3>1
  <2>9. ASSUME NEW k \in K + 1 .. Len(grown) PROVE NewAt(grown, k, bar)
    <3>1. CASE k \in 1 .. L
      <4>1. k \in K + 1 .. L /\ \A j \in 1 .. k - 1 : j \in 1 .. L
        BY <2>0, <2>7, <3>1
      <4>2. PICK q \in DOMAIN bar : /\ bar[q].dir # 0 /\ st.seg[k] = NewSegment(bar[q])
                                    /\ \A j \in 1 .. k - 1 : ~ Suits(st.seg[j], bar[q])
        BY <4>1, Zenon DEF Filling, NewAt
      <4>3. grown[k] = st.seg[k] /\ \A j \in 1 .. k - 1 : grown[j] = st.seg[j]
        BY <2>6, <3>1, <4>1, Zenon
      <4> QED
        BY <4>2, <4>3, Zenon DEF NewAt
    <3>2. CASE k \notin 1 .. L
      <4>1. k = L + 1 /\ Len(grown) = L + 1 /\ k - 1 = L
        BY <2>0, <2>6, <2>7, <3>2
      <4>2. \A j \in 1 .. k - 1 : j \in 1 .. L /\ j \notin suiting
        BY <2>6, <4>1
      <4>3. \A j \in 1 .. k - 1 : ~ Suits(grown[j], bar[p])
        BY <2>5, <2>6, <4>2, Zenon
      <4>4. grown[k] = NewSegment(bar[p]) /\ bar[p].dir # 0
        BY <1>1, <1>3, <2>6, <4>1, Zenon
      <4> QED
        BY <4>3, <4>4, Zenon DEF NewAt
    <3> QED
      BY <3>1, <3>2
  <2>10. ASSUME NEW q \in V \union {p}, bar[q].dir # 0
         PROVE  \A j \in 1 .. next.bar[q].segment - 1 : ~ Suits(grown[j], bar[q])
    <3>1. CASE q = p
      <4>1. next.bar[q].segment = found
        BY <2>2, <2>4, <3>1
      <4>2. \A j \in 1 .. found - 1 : ~ Suits(grown[j], bar[p])
        BY <2>5, <2>6, Zenon
      <4> QED
        BY <3>1, <4>1, <4>2
    <3>2. CASE q # p
      <4>1. q \in V /\ q \in DOMAIN bar /\ next.bar[q] = st.bar[q]
        BY <2>2, <3>2
      <4>2. st.bar[q].segment \in 1 .. L
        BY <2>10, <4>1, Zenon DEF Creating
      <4>3. \A j \in 1 .. st.bar[q].segment - 1 : j \in 1 .. L
        BY <2>0, <4>2
      <4>4. \A j \in 1 .. st.bar[q].segment - 1 : ~ Suits(st.seg[j], bar[q])
        BY <2>10, <4>1, Zenon DEF Filling
      <4> QED
        BY <2>6, <4>1, <4>3, <4>4, Zenon
    <3> QED
      BY <3>1, <3>2
  <2> QED
    BY <2>1, <2>7, <2>8, <2>9, <2>10, Zenon DEF Filling
<1> QED
  BY <1>2, <1>3

\* So it is when create_segments is done.
LEMMA FilledIs ==
  ASSUME NEW seg \in Seq(SegmentSet), fSegment <= Len(seg),
         \A s, t \in fSegment + 1 .. Len(seg) : seg[s].ascii = seg[t].ascii => s = t,
         NEW rows \in Nat, NEW cols \in Nat,
         NEW bar, DOMAIN bar = (0 .. rows - 1) \X (0 .. cols - 1),
         \A p \in DOMAIN bar : FitCell(bar[p]),
         NEW made, made = create_segments(seg, bar, rows, cols)
  PROVE  Filling(made, KeepUsed(seg), bar, DOMAIN bar)
<1> DEFINE cell(n) == <<(n - 1) \div cols, (n - 1) % cols>>
           N == rows * cols
           V(n) == {cell(m) : m \in 1 .. n}
           kept == KeepUsed(seg)
<1>1. N \in Nat
  OBVIOUS
<1>2. /\ \A n \in 1 .. N : cell(n) \in DOMAIN bar
      /\ \A p \in DOMAIN bar : \E n \in 1 .. N : cell(n) = p
  <2>1. /\ \A n \in 1 .. rows * cols : cell(n) \in (0 .. rows - 1) \X (0 .. cols - 1)
        /\ \A p \in (0 .. rows - 1) \X (0 .. cols - 1) : \E n \in 1 .. rows * cols : cell(n) = p
    BY CellsAreCounted
  <2> QED
    BY <2>1
<1>0. PICK st : st = Assigned(seg, bar, rows, cols)
  OBVIOUS
<1>3. st[0] = [seg |-> kept, bar |-> bar] /\ \A n \in 1 .. N : st[n] = Assign(st[n - 1], cell(n))
  <2>1. Assigning(st, seg, bar, rows, cols)
    BY <1>0, AssignedIs
  <2> QED
    BY <2>1 DEF Assigning
<1>4. made = st[N]
  BY <1>0 DEF create_segments
<1>11. Len(kept) \in Nat
  <2>1. kept \in Seq(SegmentSet)
    BY KeepUsedIs
  <2> QED
    BY <2>1, LenProperties
<1> HIDE DEF cell, N
<1> DEFINE P(n) == Creating(st[n], seg, bar, V(n)) /\ Filling(st[n], kept, bar, V(n))
           T == {n \in 0 .. N : P(n)}
<1>5. V(0) = {}
  OBVIOUS
<1>6. Creating(st[0], seg, bar, {}) /\ Filling(st[0], kept, bar, {})
  <2>1. st[0].seg = kept /\ st[0].bar = bar
    BY <1>3
  <2>2. /\ st[0].seg \in Seq(SegmentSet) /\ Len(st[0].seg) >= fSegment
        /\ \A s \in 1 .. fSegment : st[0].seg[s] = Fixed[s]
        /\ \A s \in fSegment + 1 .. Len(st[0].seg) : FromUsed(st[0].seg[s], seg)
        /\ \A s, t \in fSegment + 1 .. Len(st[0].seg) : st[0].seg[s].ascii = st[0].seg[t].ascii => s = t
    BY <2>1, KeepUsedIs DEF FromUsed
  <2>3. \A p \in DOMAIN bar : SameLook(bar[p], bar[p])
    BY DEF SameLook
  <2>4. Creating(st[0], seg, bar, {})
    BY <2>1, <2>2, <2>3, Zenon DEF Creating
  <2>5. Len(kept) <= Len(kept) /\ Len(kept) + 1 .. Len(kept) = {}
    BY <1>11
  <2>6. Filling(st[0], kept, bar, {})
    <3> HIDE DEF kept
    <3> QED
      BY <2>1, <2>5, Zenon DEF Filling
  <2> QED
    BY <2>4, <2>6
<1>7. 0 \in T
  <2>1. P(0)
    <3> HIDE DEF V
    <3> QED
      BY <1>5, <1>6, Zenon
  <2> HIDE DEF P
  <2> QED
    BY <1>1, <2>1
<1>8. ASSUME NEW n \in 0 .. N - 1, n \in T PROVE n + 1 \in T
  <2>1. n + 1 \in 1 .. N /\ (n + 1) - 1 = n
    BY <1>1
  <2>2. st[n + 1] = Assign(st[n], cell(n + 1)) /\ cell(n + 1) \in DOMAIN bar
    BY <2>1, <1>2, <1>3
  <2>3. V(n + 1) = V(n) \union {cell(n + 1)} /\ V(n) \subseteq DOMAIN bar
    <3>1. 1 .. n + 1 = (1 .. n) \union {n + 1} /\ 1 .. n \subseteq 1 .. N
      BY <1>1
    <3> QED
      BY <3>1, <1>2
  <2>4. Creating(st[n], seg, bar, V(n)) /\ Filling(st[n], kept, bar, V(n))
    BY <1>8
  <2> HIDE DEF V, kept
  <2>5. Creating(st[n + 1], seg, bar, V(n) \union {cell(n + 1)})
    BY <2>2, <2>3, <2>4, AssignKeeps
  <2>6. Filling(st[n + 1], kept, bar, V(n) \union {cell(n + 1)})
    BY <1>11, <2>2, <2>3, <2>4, AssignFills, ZenonT(40)
  <2>7. P(n + 1)
    BY <2>3, <2>5, <2>6, Zenon
  <2> HIDE DEF P
  <2> QED
    BY <2>1, <2>7, <1>1
<1>9. N \in T
  <2> HIDE DEF T
  <2>1. \A n \in 0 .. N - 1 : n \in T => n + 1 \in T
    BY <1>8
  <2>2. \A n \in 0 .. N : n \in T
    BY <1>1, <1>7, <2>1, Induction
  <2> QED
    BY <2>2, <1>1
<1>10. V(N) = DOMAIN bar
  BY <1>2
<1> QED
  BY <1>4, <1>9, <1>10

\* Segments s and t differ in their characters only.
Alike(s, t) == s.val1 = t.val1 /\ s.val2 = t.val2 /\ s.dirs = t.dirs /\ s.style = t.style

\* Cells of bars, all of one resolution.
OneWay(C) ==
  /\ \A c \in C : FitCell(c) /\ c.dir # 0
  /\ \A c, d \in C : Resolution({c.dir}) = Resolution({d.dir})

\* None of these cells is suited by both segments.
Apart(s, t, C) == \A c \in C : ~ (Suits(s, c) /\ Suits(t, c))

\* Of the first n segments only fixed ones may suit the same cell.
AllApart(sg, n, C) == \A s \in fSegment + 1 .. n, t \in 1 .. n : s # t => Apart(sg[s], sg[t], C)

\* Segments that are alike suit the same cells.
LEMMA AlikeSuits ==
  ASSUME NEW s, NEW t, Alike(s, t), NEW c
  PROVE  Suits(s, c) <=> Suits(t, c)
BY DEF Alike, Suits, Length1, Length2

\* A segment is not made where another would do, and so no cell is suited by both.
LEMMA NewIsApart ==
  ASSUME NEW C, OneWay(C), NEW d \in C, NEW s, ~ Suits(s, d)
  PROVE  Apart(s, NewSegment(d), C)
<1> SUFFICES ASSUME NEW c \in C, Suits(s, c), Suits(NewSegment(d), c) PROVE FALSE
  BY DEF Apart
<1> DEFINE res == Resolution({c.dir})
           l1 == Length1(s, res)
           l2 == Length2(s, res)
           t == NewSegment(d)
<1>1. /\ d.val1 \in Int /\ d.val2 \in Int /\ d.val1 <= res /\ d.val2 <= res /\ Resolution({d.dir}) = res
  <2>1. FitCell(d) /\ d.dir # 0 /\ Resolution({d.dir}) = Resolution({c.dir})
    BY DEF OneWay
  <2> QED
    BY <2>1 DEF FitCell, CellSet
<1>2. res \in Nat
  BY ResolutionIs
<1>3. /\ t.val1 = d.val1 /\ t.val2 = d.val2 /\ t.dirs = {d.dir} /\ t.style = d.style
  BY DEF NewSegment
<1>4. /\ l1 = c.val1 /\ l2 = c.val2
      /\ \/ l1 = res /\ l2 = res
         \/ s.style = c.style /\ ({l1, l2} \subseteq {0, res} \/ c.dir \in s.dirs)
  BY DEF Suits
<1>5. /\ Length1(t, res) = c.val1 /\ Length2(t, res) = c.val2
      /\ \/ Length1(t, res) = res /\ Length2(t, res) = res
         \/ t.style = c.style /\ ({Length1(t, res), Length2(t, res)} \subseteq {0, res} \/ c.dir \in t.dirs)
  BY DEF Suits
<1> HIDE DEF t, res
<1>6. Length1(t, res) = d.val1 /\ Length2(t, res) = d.val2
  BY <1>1, <1>2, <1>3 DEF Length1, Length2, Lesser
<1> HIDE DEF l1, l2
<1>7. l1 = d.val1 /\ l2 = d.val2
  BY <1>4, <1>5, <1>6, Zenon
<1>8. \/ l1 = res /\ l2 = res
      \/ s.style = d.style /\ ({l1, l2} \subseteq {0, res} \/ d.dir \in s.dirs)
  BY <1>3, <1>4, <1>5, <1>6, <1>7
<1>9. Suits(s, d)
  BY <1>1, <1>7, <1>8, Zenon DEF Suits, l1, l2
<1> QED
  BY <1>9

\* What is kept of segments that are apart is apart.
LEMMA KeptApart ==
  ASSUME NEW seg \in Seq(SegmentSet), fSegment <= Len(seg),
         \A s, t \in fSegment + 1 .. Len(seg) : seg[s].ascii = seg[t].ascii => s = t,
         \A s \in 1 .. fSegment : Alike(seg[s], Fixed[s]),
         NEW C, AllApart(seg, Len(seg), C),
         NEW kept, kept = KeepUsed(seg)
  PROVE  AllApart(kept, Len(kept), C)
<1>1. /\ kept \in Seq(SegmentSet) /\ Len(kept) >= fSegment
      /\ \A s \in 1 .. fSegment : kept[s] = Fixed[s]
      /\ \A s \in fSegment + 1 .. Len(kept) :
           \E t \in fSegment + 1 .. Len(seg) : seg[t].used /\ kept[s] = seg[t]
      /\ \A s, t \in fSegment + 1 .. Len(kept) : kept[s].ascii = kept[t].ascii => s = t
  BY KeepUsedIs
<1>2. Len(kept) \in Nat /\ Len(seg) \in Nat /\ fSegment \in Nat
  BY <1>1, LenProperties, FixedAre
<1> SUFFICES ASSUME NEW s \in fSegment + 1 .. Len(kept), NEW t \in 1 .. Len(kept), s # t
             PROVE  Apart(kept[s], kept[t], C)
  BY DEF AllApart
<1>3. PICK u \in fSegment + 1 .. Len(seg) : kept[s] = seg[u]
  BY <1>1
<1>4. CASE t <= fSegment
  <2>1. t \in 1 .. fSegment /\ t \in 1 .. Len(seg) /\ u # t
    BY <1>2, <1>4
  <2>2. Apart(seg[u], seg[t], C)
    BY <2>1, Zenon DEF AllApart
  <2>3. Alike(seg[t], kept[t])
    BY <1>1, <2>1
  <2>4. Apart(seg[u], kept[t], C)
    BY <2>2, <2>3, AlikeSuits, Zenon DEF Apart
  <2> QED
    BY <1>3, <2>4
<1>5. CASE ~ (t <= fSegment)
  <2>1. t \in fSegment + 1 .. Len(kept)
    BY <1>2, <1>5
  <2>2. PICK v \in fSegment + 1 .. Len(seg) : kept[t] = seg[v]
    BY <1>1, <2>1
  <2>3. u # v
    BY <1>1, <1>3, <2>1, <2>2
  <2>4. v \in 1 .. Len(seg)
    BY <1>2
  <2>5. Apart(seg[u], seg[v], C)
    BY <2>3, <2>4, Zenon DEF AllApart
  <2> QED
    BY <1>3, <2>2, <2>5
<1> QED
  BY <1>4, <1>5

\* So are the segments that create_segments leaves.
LEMMA MadeApart ==
  ASSUME NEW made, NEW kept, NEW bar, Filling(made, kept, bar, DOMAIN bar),
         Len(kept) \in Nat, Len(kept) >= fSegment, Len(made.seg) \in Nat,
         NEW C, OneWay(C), \A p \in DOMAIN bar : bar[p].dir # 0 => bar[p] \in C,
         AllApart(kept, Len(kept), C)
  PROVE  AllApart(made.seg, Len(made.seg), C)
<1> DEFINE K == Len(kept)
           L == Len(made.seg)
           sg == made.seg
<1>1. K \in Nat /\ L \in Nat /\ fSegment \in Nat /\ K <= L /\ fSegment <= K
  BY FixedAre DEF Filling
<1>2. \A k \in 1 .. K : sg[k] = kept[k]
  BY DEF Filling
<1>3. ASSUME NEW s \in 1 .. L, NEW t \in K + 1 .. L, s < t PROVE Apart(sg[s], sg[t], C)
  <2>1. NewAt(sg, t, bar)
    BY DEF Filling
  <2>2. PICK p \in DOMAIN bar : /\ bar[p].dir # 0 /\ sg[t] = NewSegment(bar[p])
                                /\ \A j \in 1 .. t - 1 : ~ Suits(sg[j], bar[p])
    BY <2>1, Zenon DEF NewAt
  <2>3. s \in 1 .. t - 1
    BY <1>1, <1>3
  <2>4. ~ Suits(sg[s], bar[p]) /\ bar[p] \in C
    BY <2>2, <2>3
  <2>5. Apart(sg[s], NewSegment(bar[p]), C)
    BY <2>4, NewIsApart, Zenon
  <2> QED
    BY <2>2, <2>5
<1> HIDE DEF K, L, sg
<1>4. ASSUME NEW s \in fSegment + 1 .. L, NEW t \in 1 .. L, s # t PROVE Apart(sg[s], sg[t], C)
  <2>1. CASE s \in 1 .. K /\ t \in 1 .. K
    <3>1. s \in fSegment + 1 .. K
      BY <1>1, <2>1
    <3>2. Apart(kept[s], kept[t], C)
      BY <1>4, <2>1, <3>1, Zenon DEF AllApart, K
    <3> QED
      BY <1>2, <2>1, <3>2
  <2>2. CASE ~ (s \in 1 .. K /\ t \in 1 .. K)
    <3>1. \/ s \in 1 .. L /\ t \in K + 1 .. L /\ s < t
          \/ t \in 1 .. L /\ s \in K + 1 .. L /\ t < s
      BY <1>1, <1>4, <2>2
    <3>2. Apart(sg[s], sg[t], C) \/ Apart(sg[t], sg[s], C)
      BY <1>3, <3>1, Zenon
    <3> QED
      BY <3>2, Zenon DEF Apart
  <2> QED
    BY <2>1, <2>2
<1> QED
  BY <1>4, Zenon DEF AllApart, L, sg

\* The first n segments are apart, and the fixed ones have the numbers they had.
PackingApart(st, C) ==
  ~ st.failed =>
    /\ AllApart(st.seg, st.nSegment, C)
    /\ \A x \in 1 .. fSegment : st.cells[x] = x

\* Segment i is replaced by j: what is left is apart.
LEMMA MergeApart ==
  ASSUME NEW seg, Made(seg), NEW st, Packing(st, seg), Running(st), NEW C, PackingApart(st, C),
         NEW i \in fSegment + 1 .. st.nSegment, NEW j,
         NEW next, next = Merge(st, i, j)
  PROVE  PackingApart(next, C)
<1> DEFINE last == st.nSegment
           Moved(k) == IF k = i THEN j ELSE k
<1>1. /\ last \in Nat /\ fSegment \in Nat /\ Room \in Nat /\ last > fSegment /\ i \in fSegment + 1 .. last
      /\ Len(seg) \in Nat /\ last <= Len(seg) /\ ~ st.failed
  <2>1. seg \in Seq(SegmentSet)
    BY DEF Made
  <2>2. Len(seg) \in Nat /\ fSegment \in Nat /\ Room \in Nat
    BY <2>1, LenProperties, FixedAre, BarSegmentsAssumption DEF Room
  <2>3. last \in 0 .. Len(seg)
    BY DEF Packing
  <2> QED
    BY <2>2, <2>3 DEF Running
<1>2. /\ next.seg = [st.seg EXCEPT ![i] = st.seg[last]] /\ next.nSegment = last - 1
      /\ next.cells = [k \in DOMAIN st.cells |-> IF Moved(st.cells[k]) = last THEN i ELSE Moved(st.cells[k])]
  BY DEF Merge
<1>3. /\ DOMAIN st.seg = 1 .. Len(seg) /\ DOMAIN st.cells = 1 .. Len(seg)
  <2>1. st.seg \in Seq(SegmentSet) /\ Len(st.seg) = Len(seg)
    BY DEF Packing, Entries
  <2> QED
    BY <2>1, LenProperties DEF Packing, Tables
<1>4. AllApart(st.seg, last, C) /\ \A x \in 1 .. fSegment : st.cells[x] = x
  BY <1>1 DEF PackingApart
<1> HIDE DEF last
<1>5. \A s \in 1 .. last - 1 : next.seg[s] = st.seg[IF s = i THEN last ELSE s]
  <2>1. \A s \in 1 .. last - 1 : s \in 1 .. Len(seg)
    BY <1>1
  <2> QED
    BY <1>2, <1>3, <2>1
<1>6. ASSUME NEW s \in fSegment + 1 .. last - 1, NEW t \in 1 .. last - 1, s # t
      PROVE  Apart(next.seg[s], next.seg[t], C)
  <2> DEFINE u == IF s = i THEN last ELSE s
             v == IF t = i THEN last ELSE t
  <2>1. u \in fSegment + 1 .. last /\ v \in 1 .. last /\ u # v /\ s \in 1 .. last - 1
    BY <1>1, <1>6
  <2>2. next.seg[s] = st.seg[u] /\ next.seg[t] = st.seg[v]
    BY <1>5, <2>1
  <2> HIDE DEF u, v
  <2>3. Apart(st.seg[u], st.seg[v], C)
    BY <1>4, <2>1, Zenon DEF AllApart
  <2> QED
    BY <2>2, <2>3, Zenon
<1>7. ASSUME NEW x \in 1 .. fSegment PROVE next.cells[x] = x
  <2>1. x \in 1 .. Len(seg) /\ x # i /\ x # last
    BY <1>1
  <2>2. st.cells[x] = x
    BY <1>4
  <2> QED
    BY <1>2, <1>3, <2>1, <2>2
<1> QED
  BY <1>2, <1>6, <1>7, Zenon DEF PackingApart, AllApart

\* One turn of pack_segments leaves them apart.
LEMMA CompactApart ==
  ASSUME NEW seg, Made(seg), NEW st, Packing(st, seg), NEW C, PackingApart(st, C),
         NEW next, next = Compact(st)
  PROVE  PackingApart(next, C)
<1>0. Len(seg) \in Nat /\ fSegment \in Nat /\ Room \in Nat /\ st.nSegment \in Nat /\ st.nSegment <= Len(seg)
      /\ IsPacking(st) /\ st.failed \in BOOLEAN
  <2>1. seg \in Seq(SegmentSet)
    BY DEF Made
  <2> QED
    BY <2>1, LenProperties, FixedAre, BarSegmentsAssumption DEF Room, Packing
<1>1. CASE ~ Running(st)
  <2>1. next = st
    BY <1>0, <1>1 DEF Running, Compact
  <2> QED
    BY <2>1
<1>2. CASE Running(st)
  <2> DEFINE pairs == Pairs(st)
  <2>0. ~ (st.failed \/ st.nSegment <= fSegment + Room)
    BY <1>0, <1>2 DEF Running
  <2>1. CASE pairs # {}
    <3> DEFINE p == Best(st, pairs)
    <3>1. pairs \subseteq (fSegment + 1 .. st.nSegment) \X (1 .. st.nSegment)
      BY DEF Pairs
    <3>2. \A q \in pairs : q[1] \in 1 .. Len(seg) /\ q[2] \in 1 .. Len(seg)
      BY <1>0, <3>1
    <3>3. pairs \subseteq Nat \X Nat
      BY <1>0, <3>1
    <3>4. next = Merge(st, p[1], p[2])
      BY <2>0, <2>1 DEF Compact
    <3> HIDE DEF pairs
    <3>5. \A q \in pairs : Error(st, q[1], q[2]) \in Nat
      BY <1>0, <3>2, ErrorIs
    <3>6. p \in pairs
      BY <2>1, <3>3, <3>5, BestIs
    <3> HIDE DEF p
    <3>7. p[1] \in fSegment + 1 .. st.nSegment
      BY <3>1, <3>6
    <3> QED
      BY <1>2, <3>4, <3>7, MergeApart
  <2>2. CASE pairs = {} /\ st.pass1
    <3>1. next = [st EXCEPT !.pass1 = FALSE]
      BY <2>0, <2>2 DEF Compact
    <3>2. next.seg = st.seg /\ next.nSegment = st.nSegment /\ next.cells = st.cells /\ next.failed = st.failed
      BY <1>0, <3>1 DEF IsPacking
    <3> QED
      BY <3>2, Zenon DEF PackingApart
  <2>3. CASE pairs = {} /\ ~ st.pass1
    <3>1. next = [st EXCEPT !.nSegment = Room, !.failed = TRUE]
      BY <2>0, <2>3 DEF Compact, GiveUp
    <3>2. next.failed = TRUE
      BY <1>0, <3>1 DEF IsPacking
    <3> QED
      BY <3>2, Zenon DEF PackingApart
  <2> QED
    BY <2>1, <2>2, <2>3
<1> QED
  BY <1>1, <1>2

\* What pack_segments leaves is apart; where there is room for all it changes nothing.
LEMMA PackedApart ==
  ASSUME NEW seg, Made(seg), NEW packed, packed = pack_segments(seg)
  PROVE  /\ \A C : AllApart(seg, Len(seg), C) => PackingApart(packed, C)
         /\ Len(seg) <= fSegment + Room => packed = Unpacked(seg)
<1>0. Len(seg) \in Nat /\ fSegment \in Nat /\ Room \in Nat /\ Turns(seg) \in Nat /\ DOMAIN seg = 1 .. Len(seg) /\ fSegment <= Len(seg)
  <2>1. seg \in Seq(SegmentSet)
    BY DEF Made
  <2> QED
    BY <2>1, LenProperties, FixedAre, BarSegmentsAssumption DEF Turns, Room, Made
<1>1. PICK st : st = Packed(seg)
  OBVIOUS
<1>2. st[0] = Unpacked(seg) /\ \A n \in 1 .. Turns(seg) : st[n] = Compact(st[n - 1])
  <2>1. PackedBy(st, seg)
    BY <1>0, <1>1, PackedIs
  <2> QED
    BY <2>1 DEF PackedBy
<1> DEFINE P(n) == /\ Packing(st[n], seg) /\ Keeping(st[n], seg)
                   /\ \A C : AllApart(seg, Len(seg), C) => PackingApart(st[n], C)
                   /\ Len(seg) <= fSegment + Room => st[n] = Unpacked(seg)
           T == {n \in 0 .. Turns(seg) : P(n)}
<1>9. /\ Unpacked(seg).seg = seg /\ Unpacked(seg).nSegment = Len(seg) /\ Unpacked(seg).failed = FALSE
      /\ Unpacked(seg).cells = [x \in 1 .. Len(seg) |-> x]
  BY <1>0 DEF Unpacked
<1>3. 0 \in T
  <2>1. Packing(st[0], seg) /\ Keeping(st[0], seg)
    BY <1>2, UnpackedIs
  <2>2. /\ st[0].seg = seg /\ st[0].nSegment = Len(seg) /\ st[0].cells = [x \in 1 .. Len(seg) |-> x]
    BY <1>2, <1>9
  <2>3. \A x \in 1 .. fSegment : st[0].cells[x] = x
    BY <1>0, <2>2
  <2>4. \A C : AllApart(seg, Len(seg), C) => PackingApart(st[0], C)
    BY <2>2, <2>3, Zenon DEF PackingApart
  <2>5. P(0)
    BY <1>2, <2>1, <2>4
  <2> HIDE DEF P
  <2> QED
    BY <1>0, <2>5
<1>4. ASSUME NEW n \in 0 .. Turns(seg) - 1, n \in T PROVE n + 1 \in T
  <2>1. n + 1 \in 1 .. Turns(seg) /\ (n + 1) - 1 = n /\ n \in Nat
    BY <1>0
  <2>2. st[n + 1] = Compact(st[n]) /\ P(n)
    BY <1>2, <1>4, <2>1
  <2>3. /\ Packing(st[n + 1], seg) /\ Keeping(st[n + 1], seg)
        /\ ~ Running(st[n]) => st[n + 1] = st[n]
    BY <2>2, CompactKeeps
  <2>4. ASSUME NEW C, AllApart(seg, Len(seg), C) PROVE PackingApart(st[n + 1], C)
    BY <2>2, <2>4, CompactApart
  <2>5. ASSUME Len(seg) <= fSegment + Room PROVE st[n + 1] = Unpacked(seg)
    <3>1. st[n] = Unpacked(seg)
      BY <2>2, <2>5
    <3>2. ~ Running(st[n])
      BY <1>0, <1>9, <2>5, <3>1 DEF Running
    <3> QED
      BY <2>3, <3>1, <3>2
  <2>6. P(n + 1)
    BY <2>3, <2>4, <2>5
  <2> HIDE DEF P
  <2> QED
    BY <1>0, <2>1, <2>6
<1>5. P(Turns(seg))
  <2> HIDE DEF T
  <2>1. \A n \in 0 .. Turns(seg) - 1 : n \in T => n + 1 \in T
    BY <1>4
  <2>2. \A n \in 0 .. Turns(seg) : n \in T
    BY <1>0, <1>3, <2>1, Induction
  <2>3. Turns(seg) \in T
    BY <1>0, <2>2
  <2> QED
    BY <2>3 DEF T
<1>6. packed = st[Turns(seg)]
  BY <1>1 DEF pack_segments
<1> QED
  BY <1>5, <1>6

\* What a cell asks for.
Look(c) == [val1 |-> c.val1, val2 |-> c.val2, dir |-> c.dir, style |-> c.style]

\* A finite number of cells asks for finitely many things.
LEMMA LooksAreFinite ==
  ASSUME NEW bar, IsFiniteSet(DOMAIN bar), NEW W \in SUBSET {bar[p] : p \in DOMAIN bar}
  PROVE  IsFiniteSet({Look(c) : c \in W})
<1> DEFINE S == {p \in DOMAIN bar : bar[p] \in W}
           f == [p \in S |-> Look(bar[p])]
           T == {Look(c) : c \in W}
<1>1. IsFiniteSet(S)
  BY FS_Subset
<1>2. f \in Surjection(S, T)
  <2>1. \A p \in S : f[p] \in T
    OBVIOUS
  <2>2. \A t \in T : \E p \in S : f[p] = t
    <3> SUFFICES ASSUME NEW t \in T PROVE \E p \in S : f[p] = t
      OBVIOUS
    <3>1. PICK c \in W : t = Look(c)
      OBVIOUS
    <3>2. PICK p \in DOMAIN bar : c = bar[p]
      OBVIOUS
    <3> HIDE DEF Look
    <3>3. p \in S /\ f[p] = t
      BY <3>1, <3>2
    <3> QED
      BY <3>3
  <2> QED
    BY <2>1, <2>2 DEF Surjection
<1> HIDE DEF S, T, f
<1>3. IsFiniteSet(T)
  BY <1>1, <1>2, FS_Surjection
<1> QED
  BY <1>3 DEF T

\* create_segments makes no more segments than there are different things that cells ask for and
\* nothing that was kept suits.
LEMMA FewAreMade ==
  ASSUME NEW made, NEW kept, NEW bar, Filling(made, kept, bar, DOMAIN bar),
         Len(kept) \in Nat, Len(made.seg) \in Nat,
         \A p \in DOMAIN bar : FitCell(bar[p]),
         NEW asked, IsFiniteSet(asked),
         \A p \in DOMAIN bar : bar[p].dir # 0 /\ (\A j \in 1 .. Len(kept) : ~ Suits(kept[j], bar[p]))
           => Look(bar[p]) \in asked
  PROVE  Cardinality(asked) \in Nat /\ Len(made.seg) <= Len(kept) + Cardinality(asked)
<1> DEFINE K == Len(kept)
           L == Len(made.seg)
           sg == made.seg
           Is(k, p) == /\ bar[p].dir # 0 /\ sg[k] = NewSegment(bar[p])
                       /\ \A j \in 1 .. k - 1 : ~ Suits(sg[j], bar[p])
           At(k) == CHOOSE p \in DOMAIN bar : Is(k, p)
           S == K + 1 .. L
           f == [k \in S |-> Look(bar[At(k)])]
<1>1. K \in Nat /\ L \in Nat /\ K <= L /\ \A k \in 1 .. K : sg[k] = kept[k]
  BY DEF Filling
<1>2. \A k \in S : At(k) \in DOMAIN bar /\ Is(k, At(k))
  <2>1. \A k \in S : \E p \in DOMAIN bar : Is(k, p)
    BY Zenon DEF Filling, NewAt
  <2> HIDE DEF Is
  <2> QED
    BY <2>1
<1> HIDE DEF At
<1>3. \A k \in S : f[k] \in asked
  <2> SUFFICES ASSUME NEW k \in S PROVE Look(bar[At(k)]) \in asked
    OBVIOUS
  <2>1. \A j \in 1 .. K : j \in 1 .. k - 1
    BY <1>1
  <2>2. \A j \in 1 .. K : ~ Suits(kept[j], bar[At(k)])
    BY <1>1, <1>2, <2>1, Zenon
  <2> QED
    BY <1>2, <2>2, Zenon
<1>4. ASSUME NEW k \in S, NEW m \in S, k < m, f[k] = f[m] PROVE FALSE
  <2> DEFINE c == bar[At(k)]
             d == bar[At(m)]
  <2>1. Look(c) = Look(d)
    BY <1>4
  <2>2. SameLook(c, d)
    BY <2>1 DEF Look, SameLook
  <2>3. Suits(sg[k], c)
    <3>1. FitCell(c) /\ c.dir # 0 /\ sg[k] = NewSegment(c)
      BY <1>2
    <3> QED
      BY <3>1, NewSegmentSuits
  <2>4. Suits(sg[k], d)
    BY <2>2, <2>3, SuitsSame, Zenon
  <2>5. k \in 1 .. m - 1
    BY <1>1, <1>4
  <2> QED
    BY <1>2, <2>4, <2>5, Zenon
<1>5. f \in Injection(S, asked)
  <2>1. \A k, m \in S : f[k] = f[m] => k = m
    <3> SUFFICES ASSUME NEW k \in S, NEW m \in S, f[k] = f[m], k # m PROVE FALSE
      OBVIOUS
    <3>1. k < m \/ m < k
      BY <1>1
    <3> HIDE DEF f, S
    <3> QED
      BY <1>4, <3>1
  <2>2. f \in [S -> asked]
    BY <1>3
  <2> HIDE DEF f, S
  <2> QED
    BY <2>1, <2>2 DEF Injection, IsInjective
<1>6. IsFiniteSet(S) /\ Cardinality(S) = L - K
  <2>1. K + 1 \in Int /\ L \in Int
    BY <1>1
  <2>2. IsFiniteSet(S) /\ Cardinality(S) = IF K + 1 > L THEN 0 ELSE L - (K + 1) + 1
    BY <2>1, FS_Interval
  <2> HIDE DEF S
  <2> QED
    BY <1>1, <2>2
<1> HIDE DEF S, f
<1>7. Cardinality(S) <= Cardinality(asked) /\ Cardinality(asked) \in Nat
  BY <1>5, FS_Injection, FS_CardinalityType
<1> QED
  BY <1>1, <1>6, <1>7

\* The segments after a draw that has not failed: as pack_segments left them, those without a
\* character with one.
DrawnSegments(packed) ==
  /\ ~ packed.failed /\ ~ packed.selfMerged /\ packed.nSegment \in Nat /\ fSegment <= packed.nSegment
  /\ Segment' \in Seq(SegmentSet) /\ Len(Segment') = packed.nSegment
  /\ \A s \in 1 .. packed.nSegment :
       /\ Alike(Segment'[s], packed.seg[s])
       /\ packed.seg[s].ascii # -1 => Segment'[s].ascii = packed.seg[s].ascii

\* A cell of a bar after such a draw.
DrawnCell(p, bar, made, packed) ==
  /\ made.bar[p].segment \in 1 .. Len(made.seg)
  /\ Suits(made.seg[made.bar[p].segment], bar[p])
  /\ packed.cells[made.bar[p].segment] \in 1 .. packed.nSegment
  /\ BarFB'[p].segment = packed.cells[made.bar[p].segment]
  /\ Segment'[BarFB'[p].segment].used
  /\ LayoutFB'[p] = IF BarFB'[p].segment <= fSegment THEN Fixed[BarFB'[p].segment].ascii
                    ELSE CHAR0 + Segment'[BarFB'[p].segment].ascii

\* That is how a draw leaves them.
LEMMA DrawnIs ==
  ASSUME Inv, Sound', UNCHANGED <<driver, size, Icon>>, NEW bar, BarsAsk(bar),
         NEW made, NEW packed, NEW sg, NEW used, BarDrawn(bar, made, packed, sg, used)
  PROVE  /\ DrawnSegments(packed) /\ DOMAIN BarFB' = DOMAIN BarFB
         /\ \A p \in DOMAIN BarFB : SameLook(BarFB'[p], bar[p])
         /\ \A p \in DOMAIN BarFB : bar[p].dir # 0 => DrawnCell(p, bar, made, packed)
<1> DEFINE last == Greater(packed.nSegment, fSegment)
           of == CellSegments(made, packed)
           n == packed.nSegment
<1>1. /\ made = create_segments(Segment, bar, size[1], size[2]) /\ packed = pack_segments(made.seg)
      /\ sg = define_chars(packed.seg, packed.nSegment)
  BY Zenon DEF BarDrawn
<1>2. /\ BarFB' = BarsWith(made, of)
      /\ \A s \in 1 .. last : used[s] \in BOOLEAN
      /\ \A s \in 1 .. last : used[s] <=> \E p \in DOMAIN BarFB : of[p] = s
      /\ Segment' = SegmentsWith(sg, last, used)
      /\ Sound' => ~ packed.failed /\ ~ packed.selfMerged
      /\ LayoutFB' = LayoutWith(sg, of)
  <2>1. LayoutFB' = LayoutWith(sg, CellSegments(made, packed))
    BY Zenon DEF BarDrawn, blit
  <2> QED
    BY <2>1, Zenon DEF BarDrawn
<1>3. /\ CellsGiven(made, packed, bar, Len(sg)) /\ SegmentsGiven(sg, packed)
      /\ Creating(made, Segment, bar, DOMAIN bar)
      /\ Defining(sg, packed.seg, packed.nSegment, packed.nSegment) /\ Packing(packed, made.seg)
  <2>1. CellsGiven(made, packed, bar, Len(sg)) /\ SegmentsGiven(sg, packed)
    BY <1>1, BarFacts, Zenon
  <2>2. Creating(made, Segment, bar, DOMAIN bar)
    BY <1>1, BarFacts, Zenon
  <2>3. Defining(sg, packed.seg, packed.nSegment, packed.nSegment) /\ Packing(packed, made.seg)
    BY <1>1, BarFacts, Zenon
  <2> QED
    BY <2>1, <2>2, <2>3, Zenon
<1>4. DOMAIN bar = DOMAIN BarFB /\ DOMAIN LayoutFB = DOMAIN BarFB
  BY LargeLayout DEF BarsAsk, Inv, Buffers
<1>5. ~ packed.failed /\ ~ packed.selfMerged
  BY <1>2, Zenon
<1>6. /\ n \in Nat /\ fSegment \in Nat /\ fSegment <= n /\ last = n
      /\ Len(sg) = Len(made.seg) /\ Len(made.seg) \in Nat /\ n <= Len(sg) /\ sg \in Seq(SegmentSet)
      /\ Len(packed.seg) = Len(sg)
  <2>1. /\ Len(packed.seg) = Len(made.seg)
    BY <1>3, Zenon DEF Packing, Entries
  <2>2. Len(sg) = Len(packed.seg) /\ sg \in Seq(SegmentSet)
    BY <1>3, Zenon DEF Defining
  <2>3. Len(sg) \in Nat /\ fSegment \in Nat
    BY <2>2, LenProperties, FixedAre
  <2>4. n \in 0 .. Len(made.seg) /\ n >= fSegment
    BY <1>3, <1>5 DEF Packing
  <2> QED
    BY <2>1, <2>2, <2>3, <2>4 DEF Greater
<1>7. /\ DOMAIN sg = 1 .. Len(sg) /\ \A s \in 1 .. Len(sg) : sg[s] \in SegmentSet
  BY <1>6, LenProperties, ElementOfSeq
<1> HIDE DEF last, of, n
<1>8. ASSUME NEW s \in 1 .. n
      PROVE  /\ Segment'[s] \in SegmentSet /\ Alike(Segment'[s], sg[s]) /\ Segment'[s].ascii = sg[s].ascii
             /\ Segment'[s].used = used[s]
  <2>1. s \in 1 .. Len(sg) /\ s \in 1 .. last
    BY <1>6
  <2>2. sg[s] \in SegmentSet /\ used[s] \in BOOLEAN
    BY <1>2, <1>7, <2>1
  <2>3. Segment'[s] = [sg[s] EXCEPT !.used = used[s]]
    BY <1>2, <2>1 DEF SegmentsWith
  <2> DEFINE u == used[s]
             e == sg[s]
  <2>4. Segment'[s] = [e EXCEPT !.used = u] /\ e \in SegmentSet /\ u \in BOOLEAN
    BY <2>2, <2>3
  <2> HIDE DEF u, e
  <2>5. /\ Segment'[s] \in SegmentSet /\ Alike(Segment'[s], e) /\ Segment'[s].ascii = e.ascii
        /\ Segment'[s].used = u
    BY <2>4 DEF SegmentSet, Alike
  <2> QED
    BY <2>5 DEF u, e
<1>9. /\ Len(Segment') = n /\ Segment' \in Seq(SegmentSet)
  <2>1. Segment' = [s \in 1 .. n |-> Segment'[s]]
    BY <1>2, <1>6 DEF SegmentsWith
  <2>2. Segment' \in [1 .. n -> SegmentSet]
    BY <1>8, <2>1
  <2> QED
    BY <1>6, <2>2
<1>10. ASSUME NEW s \in 1 .. n
       PROVE  /\ Alike(sg[s], packed.seg[s])
              /\ packed.seg[s].ascii # -1 => sg[s].ascii = packed.seg[s].ascii
  <2>1. s \in 1 .. Len(packed.seg)
    BY <1>6
  <2> QED
    BY <1>3, <2>1 DEF Defining, SameSegment, Alike
<1>11. DrawnSegments(packed)
  <2>1. \A s \in 1 .. n : /\ Alike(Segment'[s], packed.seg[s])
                          /\ packed.seg[s].ascii # -1 => Segment'[s].ascii = packed.seg[s].ascii
    BY <1>8, <1>10 DEF Alike
  <2> QED
    BY <1>5, <1>6, <1>9, <2>1, Zenon DEF DrawnSegments, n
<1>12. DOMAIN BarFB' = DOMAIN BarFB
  BY <1>2, Zenon DEF BarsWith
<1>13. ASSUME NEW p \in DOMAIN BarFB
       PROVE  /\ SameLook(BarFB'[p], bar[p]) /\ BarFB'[p].segment = of[p]
              /\ of[p] = IF made.bar[p].segment = 0 THEN 0 ELSE packed.cells[made.bar[p].segment]
  <2> DEFINE m == made.bar[p]
             u == of[p]
             d == BarFB'[p]
  <2>1. FitCell(m) /\ SameLook(m, bar[p])
    BY <1>3, <1>4, Zenon DEF CellsGiven
  <2>2. d = [m EXCEPT !.segment = u]
    BY <1>2, Zenon DEF BarsWith
  <2>3. u = IF m.segment = 0 THEN 0 ELSE packed.cells[m.segment]
    BY Zenon DEF CellSegments, of
  <2>4. d.segment = u /\ d.val1 = m.val1 /\ d.val2 = m.val2 /\ d.dir = m.dir /\ d.style = m.style
    <3> HIDE DEF d, m, u
    <3> QED
      BY <2>1, <2>2 DEF FitCell, CellSet
  <2>5. SameLook(d, bar[p])
    <3> HIDE DEF d, m
    <3> QED
      BY <2>1, <2>4, Zenon DEF SameLook
  <2> QED
    BY <2>3, <2>4, <2>5, Zenon
<1>14. ASSUME NEW p \in DOMAIN BarFB, bar[p].dir # 0 PROVE DrawnCell(p, bar, made, packed)
  <2> DEFINE x == made.bar[p].segment
             y == packed.cells[x]
  <2>1. x \in 1 .. Len(made.seg) /\ Suits(made.seg[x], bar[p])
    BY <1>3, <1>4, <1>14, Zenon DEF Creating
  <2>2. x # 0
    BY <1>6, <2>1
  <2>3. y \in 1 .. n
    <3>1. \A z \in 1 .. Len(sg) : packed.cells[z] \in 1 .. packed.nSegment
      BY <1>3, <1>5, Zenon DEF CellsGiven
    <3> QED
      BY <1>6, <2>1, <3>1, Zenon DEF n
  <2>4. of[p] = y /\ BarFB'[p].segment = y
    BY <1>13, <2>2, Zenon
  <2>5. Segment'[y].used
    <3> HIDE DEF y
    <3>1. y \in 1 .. last
      BY <1>6, <2>3
    <3>2. used[y]
      BY <1>2, <2>4, <3>1
    <3>3. Segment'[y].used = used[y]
      BY <1>8, <2>3
    <3> QED
      BY <3>2, <3>3
  <2>6. LayoutFB'[p] = IF y # 0 /\ SegmentCode(sg, y) # -1 THEN SegmentCode(sg, y) ELSE LayoutFB[p]
    <3>1. LayoutFB'[p] = IF of[p] # 0 /\ SegmentCode(sg, of[p]) # -1 THEN SegmentCode(sg, of[p]) ELSE LayoutFB[p]
      BY <1>2, <1>4, Zenon DEF LayoutWith
    <3> HIDE DEF y
    <3> QED
      BY <2>4, <3>1, Zenon
  <2>7. y # 0 /\ y \in 1 .. Len(sg) /\ y \in Nat
    BY <1>6, <2>3
  <2>8. CodeIs(sg, y)
    BY <1>3, <2>7, GivenCodes
  <2>9. LayoutFB'[p] = IF y <= fSegment THEN Fixed[y].ascii ELSE CHAR0 + Segment'[y].ascii
    <3>1. CASE y <= fSegment
      <4>1. SegmentCode(sg, y) # -1
        BY <2>8, <3>1 DEF CodeIs
      <4>2. y \in 1 .. fSegment
        BY <1>6, <2>3, <3>1
      <4>3. SegmentCode(sg, y) = Fixed[y].ascii
        BY <1>3, <3>1, <4>2, Zenon DEF SegmentCode, SegmentsGiven
      <4> HIDE DEF y
      <4> QED
        BY <2>6, <2>7, <3>1, <4>1, <4>3, Zenon
    <3>2. CASE ~ (y <= fSegment)
      <4>1. y \in fSegment + 1 .. n /\ y > fSegment
        BY <1>6, <2>3, <3>2
      <4>2. sg[y].ascii \in 0 .. Room - 1
        BY <1>3, <4>1, Zenon DEF SegmentsGiven, n
      <4>3. sg[y].ascii # -1
        BY <4>2, Rooms
      <4>4. SegmentCode(sg, y) = CHAR0 + sg[y].ascii /\ SegmentCode(sg, y) # -1
        BY <2>8, <4>1, <4>3, Zenon DEF CodeIs
      <4>5. Segment'[y].ascii = sg[y].ascii
        BY <1>8, <2>3
      <4> HIDE DEF y
      <4> QED
        BY <2>6, <2>7, <3>2, <4>4, <4>5, Zenon
    <3> QED
      BY <3>1, <3>2
  <2> HIDE DEF y, x
  <2>10. LayoutFB'[p] = IF BarFB'[p].segment <= fSegment THEN Fixed[BarFB'[p].segment].ascii
                        ELSE CHAR0 + Segment'[BarFB'[p].segment].ascii
    BY <2>4, <2>9
  <2>11. Segment'[BarFB'[p].segment].used
    BY <2>4, <2>5, Zenon
  <2> QED
    BY <2>1, <2>3, <2>4, <2>10, <2>11, Zenon DEF DrawnCell, x, y, n
<1> QED
  BY <1>11, <1>12, <1>13, <1>14, Zenon

\* The cells that bars may make.
Fitting == {c \in CellSet : /\ FitCell(c) /\ c.dir # 0
                            /\ \E b \in Bars(driver) : Resolution({b.dir}) = Resolution({c.dir})}

\* The fixed segments stay what they are, and the segments that cells have are marked as used.
Uses ==
  Sound => /\ \A s \in 1 .. fSegment : Alike(Segment[s], Fixed[s])
           /\ \A p \in DOMAIN BarFB : BarFB[p].dir # 0 =>
                /\ Segment[BarFB[p].segment].used
                /\ BarFB[p].segment <= fSegment => LayoutFB[p] = Fixed[BarFB[p].segment].ascii

\* Only fixed segments may suit the same cell, and a cell that has a fixed one has the first that
\* suits it.
Firsts ==
  Sound => /\ AllApart(Segment, Len(Segment), Fitting)
           /\ \A p \in DOMAIN BarFB :
                BarFB[p].dir # 0 /\ BarFB[p].segment <= fSegment /\ Suits(Segment[BarFB[p].segment], BarFB[p]) =>
                  \A j \in 1 .. BarFB[p].segment - 1 : ~ Suits(Segment[j], BarFB[p])

\* Before anything is drawn.
LEMMA InitUses == Init => Uses /\ Firsts
<1> SUFFICES ASSUME Init PROVE Uses /\ Firsts
  OBVIOUS
<1>1. /\ Segment = Fixed /\ BarFB = [p \in DisplayCells |-> NoBar]
  BY DEF Init
<1>2. \A p \in DOMAIN BarFB : BarFB[p].dir = 0
  BY <1>1 DEF NoBar
<1>3. fSegment + 1 .. Len(Segment) = {}
  BY <1>1, FixedAre DEF fSegment
<1> QED
  BY <1>1, <1>2, <1>3 DEF Uses, Firsts, AllApart, Alike

\* If the bars have one resolution so have the cells.
LEMMA FittingIs ==
  /\ OneResolution => OneWay(Fitting)
  /\ \A bar : BarsAsk(bar) => \A p \in DOMAIN bar : bar[p].dir # 0 => bar[p] \in Fitting
<1>1. ASSUME OneResolution PROVE OneWay(Fitting)
  BY <1>1 DEF OneResolution, OneWay, Fitting
<1>2. ASSUME NEW bar, BarsAsk(bar), NEW p \in DOMAIN bar, bar[p].dir # 0 PROVE bar[p] \in Fitting
  <2>1. FitCell(bar[p]) /\ bar[p] \in CellSet
    BY <1>2 DEF BarsAsk, FitCell
  <2>2. PICK b \in Bars(driver) : bar[p].dir = b.dir
    BY <1>2 DEF BarsAsk
  <2> QED
    BY <1>2, <2>1, <2>2, Zenon DEF Fitting
<1> QED
  BY <1>1, <1>2

\* What create_segments makes of the present segments.
LEMMA MadeIs ==
  ASSUME Inv, NEW bar, BarsAsk(bar), NEW made, made = create_segments(Segment, bar, size[1], size[2]),
         NEW kept, kept = KeepUsed(Segment)
  PROVE  /\ Filling(made, kept, bar, DOMAIN bar) /\ Creating(made, Segment, bar, DOMAIN bar) /\ Made(made.seg)
         /\ Len(kept) \in Nat /\ Len(made.seg) \in Nat /\ fSegment <= Len(kept) /\ fSegment \in Nat
         /\ Segment \in Seq(SegmentSet) /\ fSegment <= Len(Segment) /\ Len(Segment) \in Nat
         /\ \A s, t \in fSegment + 1 .. Len(Segment) : Segment[s].ascii = Segment[t].ascii => s = t
         /\ \A p \in DOMAIN bar : FitCell(bar[p])
<1>1. Segment \in Seq(SegmentSet)
  BY DEF Inv, Segments
<1>2. Len(Segment) \in Nat /\ fSegment \in Nat
  BY <1>1, LenProperties, FixedAre
<1>3. /\ fSegment <= Len(Segment)
      /\ \A s, t \in fSegment + 1 .. Len(Segment) : Segment[s].ascii = Segment[t].ascii => s = t
  BY <1>2 DEF Inv, Segments
<1>4. size[1] \in Nat /\ size[2] \in Nat /\ DOMAIN bar = (0 .. size[1] - 1) \X (0 .. size[2] - 1)
  BY DEF Inv, Buffers, BarsAsk, LayoutCells
<1>5. \A p \in DOMAIN bar : FitCell(bar[p])
  BY DEF BarsAsk
<1>6. Filling(made, kept, bar, DOMAIN bar)
  BY <1>1, <1>3, <1>4, <1>5, FilledIs
<1>7. Creating(made, Segment, bar, DOMAIN bar)
  BY <1>1, <1>3, <1>4, <1>5, CreatedIs
<1>8. Made(made.seg)
  BY <1>7 DEF Creating, Made
<1>9. kept \in Seq(SegmentSet) /\ Len(kept) >= fSegment
  BY <1>1, <1>3, KeepUsedIs
<1>10. Len(kept) \in Nat
  BY <1>9, LenProperties
<1>11. made.seg \in Seq(SegmentSet)
  BY <1>8 DEF Made
<1>12. Len(made.seg) \in Nat
  BY <1>11, LenProperties
<1> QED
  BY <1>1, <1>2, <1>3, <1>5, <1>6, <1>7, <1>8, <1>9, <1>10, <1>12

\* A draw marks the segments that cells have, and leaves the fixed ones alone.
LEMMA UsesDrawn ==
  ASSUME Inv, UNCHANGED <<driver, size, Icon>>, NEW bar, BarsAsk(bar),
         NEW made, NEW packed, NEW sg, NEW used, BarDrawn(bar, made, packed, sg, used)
  PROVE  Uses'
<1> SUFFICES ASSUME Sound'
             PROVE  /\ \A s \in 1 .. fSegment : Alike(Segment'[s], Fixed[s])
                    /\ \A p \in DOMAIN BarFB' : BarFB'[p].dir # 0 =>
                         /\ Segment'[BarFB'[p].segment].used
                         /\ BarFB'[p].segment <= fSegment => LayoutFB'[p] = Fixed[BarFB'[p].segment].ascii
  BY DEF Uses
<1>1. /\ DrawnSegments(packed) /\ DOMAIN BarFB' = DOMAIN BarFB
      /\ \A p \in DOMAIN BarFB : SameLook(BarFB'[p], bar[p])
      /\ \A p \in DOMAIN BarFB : bar[p].dir # 0 => DrawnCell(p, bar, made, packed)
  BY DrawnIs, Zenon
<1>2. made = create_segments(Segment, bar, size[1], size[2]) /\ packed = pack_segments(made.seg)
  BY Zenon DEF BarDrawn
<1>3. Creating(made, Segment, bar, DOMAIN bar) /\ Made(made.seg) /\ fSegment \in Nat
  BY <1>2, MadeIs, Zenon
<1>4. Packing(packed, made.seg)
  BY <1>2, <1>3, PackedAre, Zenon
<1>5. ASSUME NEW s \in 1 .. fSegment PROVE Alike(Segment'[s], Fixed[s])
  <2>1. s \in 1 .. packed.nSegment
    BY <1>1, <1>3 DEF DrawnSegments
  <2>2. packed.seg[s] = made.seg[s] /\ made.seg[s] = Fixed[s]
    BY <1>3, <1>4, Zenon DEF Packing, Entries, Creating
  <2> QED
    BY <1>1, <2>1, <2>2, Zenon DEF DrawnSegments
<1>6. ASSUME NEW p \in DOMAIN BarFB', BarFB'[p].dir # 0
      PROVE  /\ Segment'[BarFB'[p].segment].used
             /\ BarFB'[p].segment <= fSegment => LayoutFB'[p] = Fixed[BarFB'[p].segment].ascii
  <2>1. bar[p].dir # 0 /\ p \in DOMAIN BarFB
    BY <1>1, <1>6, Zenon DEF SameLook
  <2>2. DrawnCell(p, bar, made, packed)
    BY <1>1, <2>1
  <2> QED
    BY <2>2, Zenon DEF DrawnCell
<1> QED
  BY <1>5, <1>6

\* A draw gives a cell the first segment that suits it, and makes none where another would do.
LEMMA FirstsDrawn ==
  ASSUME Inv, OneResolution, Uses, Firsts, UNCHANGED <<driver, size, Icon>>, NEW bar, BarsAsk(bar),
         NEW made, NEW packed, NEW sg, NEW used, BarDrawn(bar, made, packed, sg, used)
  PROVE  Firsts'
<1> SUFFICES ASSUME Sound' PROVE Firsts'
  BY DEF Firsts
<1> DEFINE C == Fitting
           kept == KeepUsed(Segment)
           n == packed.nSegment
<1>1. /\ DrawnSegments(packed) /\ DOMAIN BarFB' = DOMAIN BarFB /\ Sound
      /\ \A p \in DOMAIN BarFB : SameLook(BarFB'[p], bar[p])
      /\ \A p \in DOMAIN BarFB : bar[p].dir # 0 => DrawnCell(p, bar, made, packed)
  <2>1. Sound
    BY Zenon DEF BarDrawn
  <2> QED
    BY <2>1, DrawnIs, Zenon
<1>2. made = create_segments(Segment, bar, size[1], size[2]) /\ packed = pack_segments(made.seg)
  BY Zenon DEF BarDrawn
<1>3. /\ Filling(made, kept, bar, DOMAIN bar) /\ Creating(made, Segment, bar, DOMAIN bar) /\ Made(made.seg)
      /\ Len(kept) \in Nat /\ Len(made.seg) \in Nat /\ fSegment <= Len(kept) /\ fSegment \in Nat
      /\ Segment \in Seq(SegmentSet) /\ fSegment <= Len(Segment) /\ Len(Segment) \in Nat
      /\ \A s, t \in fSegment + 1 .. Len(Segment) : Segment[s].ascii = Segment[t].ascii => s = t
  BY <1>2, MadeIs, Zenon
<1>4. Packing(packed, made.seg)
  BY <1>2, <1>3, PackedAre, Zenon
<1>5. OneWay(C) /\ \A p \in DOMAIN bar : bar[p].dir # 0 => bar[p] \in C
  BY FittingIs
<1>6. Fitting' = C
  BY DEF Fitting
<1> HIDE DEF C, kept
<1>7. AllApart(Segment, Len(Segment), C) /\ \A s \in 1 .. fSegment : Alike(Segment[s], Fixed[s])
  BY <1>1 DEF Firsts, Uses, C
<1>8. AllApart(kept, Len(kept), C)
  BY <1>3, <1>7, KeptApart DEF kept
<1>9. AllApart(made.seg, Len(made.seg), C)
  BY <1>3, <1>5, <1>8, MadeApart
<1>10. PackingApart(packed, C)
  BY <1>2, <1>3, <1>9, PackedApart, Zenon
<1>11. /\ AllApart(packed.seg, n, C) /\ \A x \in 1 .. fSegment : packed.cells[x] = x
       /\ n \in Nat /\ fSegment <= n /\ Len(Segment') = n
       /\ \A s \in 1 .. n : Alike(Segment'[s], packed.seg[s])
  BY <1>1, <1>10, Zenon DEF DrawnSegments, PackingApart
<1> HIDE DEF n
<1>12. ASSUME NEW s \in fSegment + 1 .. n, NEW t \in 1 .. n, s # t PROVE Apart(Segment'[s], Segment'[t], C)
  <2>1. Apart(packed.seg[s], packed.seg[t], C)
    BY <1>11, <1>12, Zenon DEF AllApart
  <2>2. s \in 1 .. n
    BY <1>3
  <2>3. Alike(Segment'[s], packed.seg[s]) /\ Alike(Segment'[t], packed.seg[t])
    BY <1>11, <2>2
  <2> QED
    BY <2>1, <2>3, AlikeSuits, Zenon DEF Apart
<1>13. ASSUME NEW j \in 1 .. fSegment
       PROVE  /\ j \in 1 .. n /\ Alike(Segment'[j], made.seg[j])
  <2>1. j \in 1 .. n
    BY <1>3, <1>11
  <2>2. packed.seg[j] = made.seg[j]
    BY <1>4, Zenon DEF Packing, Entries
  <2> QED
    BY <1>11, <2>1, <2>2
<1>14. ASSUME NEW p \in DOMAIN BarFB, BarFB'[p].dir # 0, BarFB'[p].segment <= fSegment,
              Suits(Segment'[BarFB'[p].segment], BarFB'[p]), NEW j \in 1 .. BarFB'[p].segment - 1
       PROVE  ~ Suits(Segment'[j], BarFB'[p])
  <2> DEFINE x == made.bar[p].segment
             y == BarFB'[p].segment
  <2>1. SameLook(BarFB'[p], bar[p]) /\ bar[p].dir # 0 /\ p \in DOMAIN bar
    <3>1. p \in DOMAIN bar
      BY DEF BarsAsk
    <3> QED
      BY <1>1, <1>14, <3>1, Zenon DEF SameLook
  <2>2. x \in 1 .. Len(made.seg) /\ Suits(made.seg[x], bar[p]) /\ packed.cells[x] \in 1 .. n /\ y = packed.cells[x]
    <3>1. DrawnCell(p, bar, made, packed)
      BY <1>1, <2>1
    <3> QED
      BY <3>1, Zenon DEF DrawnCell, n
  <2>3. y \in 1 .. fSegment /\ y \in 1 .. Len(made.seg)
    <3>1. y \in 1 .. n /\ y <= fSegment
      BY <1>14, <2>2
    <3> HIDE DEF y
    <3>2. fSegment <= Len(made.seg)
      BY <1>3 DEF Made
    <3> QED
      BY <1>3, <1>11, <3>1, <3>2
  <2> HIDE DEF x, y
  <2>4. Suits(made.seg[y], bar[p])
    <3>1. Suits(Segment'[y], BarFB'[p])
      BY <1>14 DEF y
    <3>2. Suits(Segment'[y], bar[p])
      BY <2>1, <3>1, SuitsSame, Zenon
    <3>3. Alike(Segment'[y], made.seg[y])
      BY <1>13, <2>3
    <3> QED
      BY <3>2, <3>3, AlikeSuits, Zenon
  <2>5. x = y
    <3>1. CASE x <= fSegment
      <4>1. x \in 1 .. fSegment
        BY <1>3, <2>2, <3>1
      <4> QED
        BY <1>11, <2>2, <4>1
    <3>2. CASE ~ (x <= fSegment)
      <4>1. x \in fSegment + 1 .. Len(made.seg) /\ x # y
        BY <1>3, <2>2, <2>3, <3>2
      <4>2. Apart(made.seg[x], made.seg[y], C)
        BY <1>9, <2>3, <4>1, Zenon DEF AllApart
      <4>3. bar[p] \in C
        BY <1>5, <2>1
      <4> QED
        BY <2>2, <2>4, <4>2, <4>3, Zenon DEF Apart
    <3> QED
      BY <3>1, <3>2
  <2>6. j \in 1 .. x - 1 /\ j \in 1 .. fSegment
    <3>1. j \in 1 .. y - 1
      BY DEF y
    <3> QED
      BY <1>3, <2>3, <2>5, <3>1
  <2>7. ~ Suits(made.seg[j], bar[p])
    BY <1>3, <2>1, <2>6, Zenon DEF Filling, x
  <2>8. Alike(Segment'[j], made.seg[j])
    BY <1>13, <2>6
  <2>9. ~ Suits(Segment'[j], bar[p])
    BY <2>7, <2>8, AlikeSuits, Zenon
  <2> QED
    BY <2>1, <2>9, SuitsSame, Zenon
<1> QED
  <2>1. AllApart(Segment', Len(Segment'), Fitting')
    BY <1>6, <1>11, <1>12, Zenon DEF AllApart
  <2> QED
    BY <1>1, <1>14, <2>1, Zenon DEF Firsts

\* What cells ask for and nothing that was kept suits is counted by Asked.
LEMMA AskedIs ==
  ASSUME Inv, Inv', UNCHANGED size, NEW bar, DOMAIN BarFB' = DOMAIN bar,
         \A p \in DOMAIN bar : SameLook(BarFB'[p], bar[p]),
         NEW kept, kept = KeepUsed(Segment),
         NEW segments, segments = Range(Fixed) \union {Segment[k] : k \in InUse},
         NEW asked, asked = Asked(segments)'
  PROVE  /\ IsFiniteSet(asked) /\ Len(kept) = fSegment + Cardinality(InUse) /\ Cardinality(InUse) \in Nat
         /\ \A p \in DOMAIN bar : bar[p].dir # 0 /\ (\A j \in 1 .. Len(kept) : ~ Suits(kept[j], bar[p]))
              => Look(bar[p]) \in asked
<1> DEFINE W == Wanted(segments)'
<1>1. asked = {Look(c) : c \in W}
  BY Zenon DEF Asked, Look
<1>2. W = {c \in Range(BarFB') : c.dir # 0 /\ ~ \E s \in segments : Suits(s, c)}
  BY DEF Wanted
<1>3. Range(BarFB') = {BarFB'[p] : p \in DOMAIN BarFB'}
  BY DEF Range
<1> HIDE DEF W
<1>4. IsFiniteSet(asked)
  <2>1. /\ size'[1] \in Nat /\ size'[2] \in Nat
        /\ DOMAIN BarFB' = (0 .. size'[1] - 1) \X (0 .. size'[2] - 1)
    BY DEF Inv, Buffers, LayoutCells
  <2>2. IsFiniteSet(0 .. size'[1] - 1) /\ IsFiniteSet(0 .. size'[2] - 1)
    BY <2>1, FS_Interval
  <2>3. IsFiniteSet(DOMAIN BarFB')
    BY <2>1, <2>2, FS_Product
  <2>4. W \in SUBSET {BarFB'[p] : p \in DOMAIN BarFB'}
    BY <1>2, <1>3
  <2> QED
    BY <1>1, <2>3, <2>4, LooksAreFinite
<1>5. /\ Segment \in Seq(SegmentSet) /\ fSegment <= Len(Segment)
      /\ \A s, t \in fSegment + 1 .. Len(Segment) : Segment[s].ascii = Segment[t].ascii => s = t
  BY DEF Inv, Segments
<1>6. InUse = UsedOf(Segment)
  BY DEF InUse, UsedOf
<1>7. /\ Cardinality(InUse) \in Nat /\ Len(kept) = fSegment + Cardinality(InUse)
      /\ \A t \in InUse : \E s \in fSegment + 1 .. Len(kept) : kept[s] = Segment[t]
  BY <1>5, <1>6, KeptAre
<1>8. \A s \in 1 .. fSegment : kept[s] = Fixed[s]
  BY <1>5, KeepUsedIs
<1>9. fSegment \in Nat /\ DOMAIN Fixed = 1 .. fSegment
  BY FixedAre
<1>10. \A s \in segments : \E j \in 1 .. Len(kept) : kept[j] = s
  <2> SUFFICES ASSUME NEW s \in segments PROVE \E j \in 1 .. Len(kept) : kept[j] = s
    OBVIOUS
  <2>1. CASE s \in Range(Fixed)
    <3>1. PICK j \in DOMAIN Fixed : s = Fixed[j]
      BY <2>1 DEF Range
    <3>2. j \in 1 .. fSegment /\ j \in 1 .. Len(kept)
      BY <1>7, <1>9
    <3> QED
      BY <1>8, <3>1, <3>2
  <2>2. CASE s \in {Segment[k] : k \in InUse}
    <3>1. PICK t \in InUse : s = Segment[t]
      BY <2>2
    <3>2. PICK j \in fSegment + 1 .. Len(kept) : kept[j] = Segment[t]
      BY <1>7
    <3>3. j \in 1 .. Len(kept)
      BY <1>7, <1>9
    <3> QED
      BY <3>1, <3>2, <3>3
  <2> QED
    BY <2>1, <2>2
<1>11. ASSUME NEW p \in DOMAIN bar, bar[p].dir # 0, \A j \in 1 .. Len(kept) : ~ Suits(kept[j], bar[p])
       PROVE  Look(bar[p]) \in asked
  <2> DEFINE c == BarFB'[p]
  <2>1. SameLook(c, bar[p])
    OBVIOUS
  <2>2. c \in Range(BarFB')
    BY <1>3
  <2> HIDE DEF c
  <2>3. \A s \in segments : ~ Suits(s, c)
    <3> SUFFICES ASSUME NEW s \in segments PROVE ~ Suits(s, c)
      OBVIOUS
    <3>1. PICK j \in 1 .. Len(kept) : kept[j] = s
      BY <1>10
    <3>2. ~ Suits(s, bar[p])
      BY <1>11, <3>1
    <3> QED
      BY <2>1, <3>2, SuitsSame, Zenon
  <2>4. c \in W
    BY <1>2, <1>11, <2>1, <2>2, <2>3 DEF SameLook
  <2>5. Look(c) = Look(bar[p])
    BY <2>1 DEF Look, SameLook
  <2> QED
    BY <1>1, <2>4, <2>5
<1> QED
  BY <1>4, <1>7, <1>11

\* Where there is room for all that is asked, a draw gives each cell the segment that create_segments
\* found for it.
LEMMA RoomForAll ==
  ASSUME Inv, Inv', Sound', UNCHANGED <<driver, size, Icon>>, NEW bar, BarsAsk(bar),
         NEW made, NEW packed, NEW sg, NEW used, BarDrawn(bar, made, packed, sg, used),
         NEW segments, segments = Range(Fixed) \union {Segment[k] : k \in InUse},
         Cardinality(InUse) + Cardinality(Asked(segments)') <= Room
  PROVE  packed = Unpacked(made.seg)
<1> DEFINE kept == KeepUsed(Segment)
           asked == Asked(segments)'
<1>1. /\ DOMAIN BarFB' = DOMAIN BarFB
      /\ \A p \in DOMAIN BarFB : SameLook(BarFB'[p], bar[p])
  BY DrawnIs, Zenon
<1>2. DOMAIN bar = DOMAIN BarFB
  BY DEF BarsAsk
<1>3. made = create_segments(Segment, bar, size[1], size[2]) /\ packed = pack_segments(made.seg)
  BY Zenon DEF BarDrawn
<1>4. /\ Filling(made, kept, bar, DOMAIN bar) /\ Made(made.seg)
      /\ Len(kept) \in Nat /\ Len(made.seg) \in Nat /\ fSegment \in Nat
      /\ \A p \in DOMAIN bar : FitCell(bar[p])
  BY <1>3, MadeIs, Zenon
<1> HIDE DEF kept
<1> DEFINE m == Cardinality(InUse)
<1>5. /\ IsFiniteSet(asked) /\ Len(kept) = fSegment + m /\ m \in Nat
      /\ \A p \in DOMAIN bar : bar[p].dir # 0 /\ (\A j \in 1 .. Len(kept) : ~ Suits(kept[j], bar[p]))
           => Look(bar[p]) \in asked
  <2>1. DOMAIN BarFB' = DOMAIN bar /\ \A p \in DOMAIN bar : SameLook(BarFB'[p], bar[p]) /\ UNCHANGED size
    BY <1>1, <1>2
  <2> QED
    BY <2>1, AskedIs, Zenon DEF kept
<1>6. m + Cardinality(asked) <= Room
  OBVIOUS
<1> HIDE DEF asked, m
<1>7. Cardinality(asked) \in Nat /\ Len(made.seg) <= Len(kept) + Cardinality(asked)
  BY <1>4, <1>5, FewAreMade
<1>8. Len(made.seg) <= fSegment + Room
  BY <1>4, <1>5, <1>6, <1>7, Rooms
<1> QED
  BY <1>3, <1>4, <1>8, PackedApart, Zenon

\* A draw for which there is room: every cell shows what it asks for, and one that did keeps its
\* character, as its segment is in use and no other one suits the cell before it.
LEMMA RoomDrawn ==
  ASSUME Inv, Inv', Uses, OneResolution => Firsts, Sound', UNCHANGED <<driver, size, Icon>>, NEW bar, BarsAsk(bar),
         NEW made, NEW packed, NEW sg, NEW used, BarDrawn(bar, made, packed, sg, used),
         NEW segments, segments = Range(Fixed) \union {Segment[k] : k \in InUse},
         Cardinality(InUse) + Cardinality(Asked(segments)') <= Room,
         NEW p \in DOMAIN BarFB, BarFB'[p].dir # 0
  PROVE  /\ Exact(p)'
         /\ OneResolution /\ Exact(p) /\ AsksTheSame(p) => LayoutFB'[p] = LayoutFB[p]
<1> DEFINE n == packed.nSegment
           kept == KeepUsed(Segment)
           x == made.bar[p].segment
           s == BarFB[p].segment
<1>1. /\ DrawnSegments(packed) /\ DOMAIN BarFB' = DOMAIN BarFB /\ Sound
      /\ SameLook(BarFB'[p], bar[p]) /\ bar[p].dir # 0 /\ p \in DOMAIN bar
  <2>1. Sound
    BY Zenon DEF BarDrawn
  <2>2. /\ DrawnSegments(packed) /\ DOMAIN BarFB' = DOMAIN BarFB /\ SameLook(BarFB'[p], bar[p])
    BY DrawnIs, Zenon
  <2>3. p \in DOMAIN bar
    BY DEF BarsAsk
  <2> QED
    BY <2>1, <2>2, <2>3, Zenon DEF SameLook
<1>2. DrawnCell(p, bar, made, packed)
  BY <1>1, DrawnIs, Zenon
<1>3. packed = Unpacked(made.seg)
  BY RoomForAll, Zenon
<1>4. made = create_segments(Segment, bar, size[1], size[2])
  BY Zenon DEF BarDrawn
<1>5. /\ Filling(made, kept, bar, DOMAIN bar) /\ Creating(made, Segment, bar, DOMAIN bar) /\ Made(made.seg)
      /\ Len(kept) \in Nat /\ Len(made.seg) \in Nat /\ fSegment <= Len(kept) /\ fSegment \in Nat
      /\ Segment \in Seq(SegmentSet) /\ fSegment <= Len(Segment) /\ Len(Segment) \in Nat
      /\ \A t, u \in fSegment + 1 .. Len(Segment) : Segment[t].ascii = Segment[u].ascii => t = u
  BY <1>4, MadeIs, Zenon
<1>6. packed.seg = made.seg /\ n = Len(made.seg) /\ \A z \in 1 .. n : packed.cells[z] = z
  <2>1. made.seg \in Seq(SegmentSet)
    BY <1>5 DEF Made
  <2>2. DOMAIN made.seg = 1 .. Len(made.seg)
    BY <2>1, LenProperties
  <2> QED
    BY <1>3, <2>2 DEF Unpacked
<1> HIDE DEF kept, n, x, s
<1>7. /\ x \in 1 .. n /\ Suits(made.seg[x], bar[p]) /\ BarFB'[p].segment = x
      /\ LayoutFB'[p] = IF x <= fSegment THEN Fixed[x].ascii ELSE CHAR0 + Segment'[x].ascii
  <2>1. x \in 1 .. n
    BY <1>2, <1>6 DEF DrawnCell, x
  <2>2. BarFB'[p].segment = x
    BY <1>2, <1>6, <2>1 DEF DrawnCell, x
  <2> QED
    BY <1>2, <2>1, <2>2, Zenon DEF DrawnCell, x
<1>8. /\ Len(Segment') = n /\ n \in Nat /\ DOMAIN Segment' = 1 .. n
      /\ \A t \in 1 .. n : /\ Alike(Segment'[t], made.seg[t])
                           /\ made.seg[t].ascii # -1 => Segment'[t].ascii = made.seg[t].ascii
  <2>1. /\ Segment' \in Seq(SegmentSet) /\ Len(Segment') = packed.nSegment
        /\ \A t \in 1 .. packed.nSegment :
             /\ Alike(Segment'[t], packed.seg[t])
             /\ packed.seg[t].ascii # -1 => Segment'[t].ascii = packed.seg[t].ascii
    BY <1>1, Zenon DEF DrawnSegments
  <2>2. DOMAIN Segment' = 1 .. Len(Segment')
    BY <2>1, LenProperties
  <2> QED
    BY <1>5, <1>6, <2>1, <2>2 DEF n
<1>9. Exact(p)'
  <2>1. Suits(Segment'[x], bar[p])
    BY <1>7, <1>8, AlikeSuits, Zenon
  <2>2. Suits(Segment'[x], BarFB'[p])
    BY <1>1, <2>1, SuitsSame, Zenon
  <2> QED
    BY <1>7, <1>8, <2>2 DEF Exact
<1>10. ASSUME OneResolution, Exact(p), AsksTheSame(p) PROVE LayoutFB'[p] = LayoutFB[p]
  <2>1. SameLook(BarFB[p], bar[p]) /\ BarFB[p].dir # 0
    <3>1. SameLook(BarFB'[p], BarFB[p])
      <4>1. \A f \in {"val1", "val2", "dir", "style"} : BarFB'[p][f] = BarFB[p][f]
        BY <1>10, Zenon DEF AsksTheSame
      <4> QED
        BY <4>1 DEF SameLook
    <3> QED
      BY <1>1, <3>1, Zenon DEF SameLook
  <2>2. s \in 1 .. Len(Segment) /\ Suits(Segment[s], bar[p]) /\ Suits(Segment[s], BarFB[p])
    <3>1. DOMAIN Segment = 1 .. Len(Segment)
      BY <1>5, LenProperties
    <3>2. s \in 1 .. Len(Segment) /\ Suits(Segment[s], BarFB[p])
      BY <1>10, <3>1 DEF Exact, s
    <3> QED
      BY <2>1, <3>2, SuitsSame, Zenon
  <2>3. \A j \in 1 .. x - 1 : ~ Suits(made.seg[j], bar[p])
    BY <1>1, <1>5, Zenon DEF Filling, x
  <2>4. /\ \A j \in 1 .. fSegment : Alike(Segment[j], Fixed[j]) /\ made.seg[j] = Fixed[j]
        /\ Segment[s].used
        /\ s <= fSegment => LayoutFB[p] = Fixed[s].ascii
    BY <1>1, <1>5, <2>1, Zenon DEF Uses, Creating, s
  <2>5. /\ AllApart(Segment, Len(Segment), Fitting)
        /\ s <= fSegment => \A j \in 1 .. s - 1 : ~ Suits(Segment[j], BarFB[p])
    BY <1>1, <1>10, <2>1, <2>2, Zenon DEF Firsts, s
  <2>6. OneWay(Fitting) /\ bar[p] \in Fitting
    BY <1>1, <1>10, FittingIs
  <2>7. CASE s <= fSegment
    <3>1. s \in 1 .. fSegment
      BY <1>5, <2>2, <2>7
    <3>2. Suits(made.seg[s], bar[p])
      BY <2>2, <2>4, <3>1, AlikeSuits, Zenon
    <3>3. ~ (s \in 1 .. x - 1)
      BY <2>3, <3>2
    <3>4. ~ (x < s)
      <4> SUFFICES ASSUME x < s PROVE FALSE
        OBVIOUS
      <4>1. x \in 1 .. s - 1 /\ x \in 1 .. fSegment
        BY <1>5, <1>7, <1>8, <2>7, <3>1
      <4>2. Suits(Segment[x], bar[p])
        BY <1>7, <2>4, <4>1, AlikeSuits, Zenon
      <4>3. Suits(Segment[x], BarFB[p])
        BY <2>1, <4>2, SuitsSame, Zenon
      <4> QED
        BY <2>5, <2>7, <4>1, <4>3
    <3>5. x = s
      BY <1>7, <1>8, <3>1, <3>3, <3>4
    <3> QED
      BY <1>7, <2>4, <2>7, <3>5
  <2>8. CASE ~ (s <= fSegment)
    <3>0. s \in fSegment + 1 .. Len(Segment)
      BY <1>5, <2>2, <2>8
    <3>1. PICK k \in fSegment + 1 .. Len(kept) : kept[k] = Segment[s]
      <4>1. s \in UsedOf(Segment)
        BY <2>4, <3>0 DEF UsedOf
      <4>2. \A t \in UsedOf(Segment) : \E j \in fSegment + 1 .. Len(kept) : kept[j] = Segment[t]
        BY <1>5, KeptAre DEF kept
      <4> QED
        BY <4>1, <4>2
    <3>2. k \in 1 .. Len(kept) /\ k \in 1 .. n /\ made.seg[k] = kept[k] /\ Len(kept) <= n
      <4>1. Len(kept) <= Len(made.seg) /\ \A j \in 1 .. Len(kept) : made.seg[j] = kept[j]
        BY <1>5 DEF Filling
      <4> QED
        BY <1>5, <1>6, <4>1
    <3>3. Suits(made.seg[k], bar[p])
      BY <2>2, <3>1, <3>2
    <3>4. ~ (k \in 1 .. x - 1)
      BY <2>3, <3>3
    <3>5. AllApart(kept, Len(kept), Fitting)
      BY <1>5, <2>4, <2>5, KeptApart DEF kept
    <3>6. ~ (x < k)
      <4> SUFFICES ASSUME x < k PROVE FALSE
        OBVIOUS
      <4>1. x \in 1 .. Len(kept) /\ k # x
        BY <1>5, <1>7, <1>8, <3>1
      <4>2. made.seg[x] = kept[x]
        BY <1>5, <4>1 DEF Filling
      <4>3. Apart(kept[k], kept[x], Fitting)
        BY <3>1, <3>5, <4>1, Zenon DEF AllApart
      <4> QED
        BY <1>7, <2>6, <3>2, <3>3, <4>2, <4>3 DEF Apart
    <3>7. x = k
      BY <1>7, <1>8, <3>2, <3>4, <3>6
    <3>8. ~ (x <= fSegment) /\ s > fSegment
      BY <1>5, <3>0, <3>1, <3>7
    <3>9. made.seg[x].ascii = Segment[s].ascii /\ Segment[s].ascii # -1
      <4>1. Segment[s].ascii \in 0 .. Room - 1
        BY <3>0 DEF Inv, Segments
      <4> QED
        BY <3>1, <3>2, <3>7, <4>1, Rooms
    <3>10. LayoutFB'[p] = CHAR0 + Segment[s].ascii
      BY <1>7, <1>8, <3>8, <3>9
    <3>11. LayoutFB[p] = CHAR0 + Segment[s].ascii
      BY <1>1, <2>1, <3>8, Zenon DEF Inv, BarsDrawn, s
    <3> QED
      BY <3>10, <3>11
  <2> QED
    BY <2>7, <2>8
<1> QED
  BY <1>9, <1>10

\* Texts and icons leave the segments alone, and the cells of bars.
LEMMA BarsLeftAlone ==
  ASSUME Inv, TextUpdate \/ (\E w \in Icons(driver) : IconUpdate(w)) \/ UNCHANGED vars
  PROVE  /\ driver' = driver /\ Segment' = Segment /\ failed' = failed /\ selfMerged' = selfMerged
         /\ \A p \in DisplayCells : BarFB'[p] = BarFB[p]
         /\ \A p \in DOMAIN BarFB' : BarFB'[p].dir # 0 =>
              p \in DOMAIN BarFB /\ BarFB'[p] = BarFB[p] /\ LayoutFB'[p] = LayoutFB[p]
<1>1. /\ driver \in Drivers /\ size[1] \in Nat /\ size[2] \in Nat
      /\ DOMAIN LayoutFB = LayoutCells(size[1], size[2]) /\ DOMAIN BarFB = DOMAIN LayoutFB
      /\ DisplayCells \subseteq DOMAIN LayoutFB
  BY LargeLayout DEF Inv, Buffers
<1>2. \A p \in DOMAIN BarFB : BarFB[p].dir # 0 => \E b \in Bars(driver) : p \in BarCells(b)
  BY DEF Inv, Cells
<1>3. CASE TextUpdate
  <2>1. PICK w \in Texts(driver) : \E text \in [1 .. w.width -> Letters(driver)] : text_draw(w, text)
    BY <1>3, Zenon DEF TextUpdate
  <2>2. PICK text \in [1 .. w.width -> Letters(driver)] : text_draw(w, text)
    BY <2>1, Zenon
  <2> DEFINE r == Greater(w.row + 1, size[1])
             c == Greater(w.col + w.width, size[2])
             cells == TextCells(w)
             grown == Enlarged(LayoutFB, r, c, Blank)
             layout == [p \in DOMAIN grown |-> IF p \in cells THEN text[p[2] - w.col + 1] ELSE grown[p]]
  <2>3. /\ BarFB' = Enlarged(BarFB, r, c, NoBar) /\ LayoutFB' = layout
        /\ driver' = driver /\ Segment' = Segment /\ failed' = failed /\ selfMerged' = selfMerged
    BY <2>2, Zenon DEF text_draw, blit
  <2>4. w.row \in Nat /\ w.col \in Nat /\ w.width \in Nat
    BY <1>1, TextsAre
  <2>5. r \in Nat /\ c \in Nat /\ size[1] <= r /\ size[2] <= c
    BY <1>1, <2>4, SMTT(30) DEF Greater
  <2>6. \A p \in cells : \A b \in Bars(driver) : p \notin BarCells(b)
    BY <1>1, BarsAre
  <2> HIDE DEF r, c, cells
  <2>7. DOMAIN LayoutFB \subseteq LayoutCells(r, c)
    BY <1>1, <2>5, GrownCells
  <2>8. /\ DOMAIN BarFB' = LayoutCells(r, c)
        /\ \A p \in LayoutCells(r, c) : BarFB'[p] = IF p \in DOMAIN BarFB THEN BarFB[p] ELSE NoBar
    BY <2>3 DEF Enlarged
  <2>9. \A p \in LayoutCells(r, c) : p \in DOMAIN LayoutFB /\ p \notin cells => LayoutFB'[p] = LayoutFB[p]
    BY <2>3 DEF Enlarged
  <2>10. \A p \in DisplayCells : BarFB'[p] = BarFB[p]
    BY <1>1, <2>7, <2>8
  <2>11. ASSUME NEW p \in DOMAIN BarFB', BarFB'[p].dir # 0
         PROVE  p \in DOMAIN BarFB /\ BarFB'[p] = BarFB[p] /\ LayoutFB'[p] = LayoutFB[p]
    <3>1. NoBar.dir = 0
      BY DEF NoBar
    <3>2. p \in DOMAIN BarFB /\ BarFB'[p] = BarFB[p] /\ p \in LayoutCells(r, c)
      BY <2>8, <2>11, <3>1
    <3>3. p \notin cells
      BY <1>2, <2>6, <2>11, <3>2
    <3> QED
      BY <1>1, <2>9, <3>2, <3>3
  <2> QED
    BY <2>3, <2>10, <2>11
<1>4. CASE \E w \in Icons(driver) : IconUpdate(w)
  <2>1. PICK w \in Icons(driver) : IconUpdate(w)
    BY <1>4
  <2>2. /\ UNCHANGED <<driver, size, barVars>>
        /\ \E i : icon_draw(w, i)
    BY <2>1, Zenon DEF IconUpdate
  <2>3. PICK i : icon_draw(w, i)
    BY <2>2
  <2> DEFINE q == <<w.row, w.col>>
  <2>4. LayoutFB' = LayoutFB \/ \E x : LayoutFB' = [LayoutFB EXCEPT ![q] = x]
    BY <2>3, Zenon DEF icon_draw, blit
  <2>5. \A b \in Bars(driver) : q \notin BarCells(b)
    BY <1>1, IconsAre
  <2> HIDE DEF q
  <2>6. ASSUME NEW p \in DOMAIN BarFB, BarFB[p].dir # 0 PROVE LayoutFB'[p] = LayoutFB[p]
    <3>1. p # q
      BY <1>2, <2>5, <2>6
    <3> QED
      BY <1>1, <2>4, <3>1
  <2> QED
    BY <2>2, <2>6 DEF barVars
<1>5. CASE UNCHANGED vars
  BY <1>5 DEF vars, barVars
<1> QED
  BY <1>3, <1>4, <1>5

\* The update of a bar is a draw of all of them.
LEMMA BarUpdateIs ==
  ASSUME Inv, \E b \in Bars(driver) : BarUpdate(b)
  PROVE  \E bar, made, packed, sg, used : BarsAsk(bar) /\ BarDrawn(bar, made, packed, sg, used)
<1>1. PICK b \in Bars(driver) : BarUpdate(b)
  OBVIOUS
<1>2. PICK v \in Lengths(b) : bar_draw(b, v[1], IF Single_Segments THEN v[1] ELSE v[2])
  BY <1>1 DEF BarUpdate
<1>3. Lengths(b) \subseteq Nat \X Nat
  BY BarsAre DEF Inv, Buffers
<1>4. v[1] \in Nat /\ v[2] \in Nat /\ (IF Single_Segments THEN v[1] ELSE v[2]) \in Nat
  BY <1>3
<1> DEFINE bar == create_bar(BarFB, b, v[1], IF Single_Segments THEN v[1] ELSE v[2])
<1>5. BarsAsk(bar)
  BY <1>4, BarCreated
<1>6. \E made, packed, sg, used : BarDrawn(bar, made, packed, sg, used)
  BY <1>2, BarDrawIs, Zenon
<1> HIDE DEF bar
<1> QED
  BY <1>5, <1>6, Zenon

\* So these hold on.
LEMMA NextUses ==
  ASSUME Inv, Uses, OneResolution => Firsts, [Next]_vars
  PROVE  Uses' /\ (OneResolution' => Firsts')
<1>1. CASE TextUpdate \/ (\E w \in Icons(driver) : IconUpdate(w)) \/ UNCHANGED vars
  <2>1. /\ driver' = driver /\ Segment' = Segment /\ failed' = failed /\ selfMerged' = selfMerged
        /\ \A p \in DOMAIN BarFB' : BarFB'[p].dir # 0 =>
             p \in DOMAIN BarFB /\ BarFB'[p] = BarFB[p] /\ LayoutFB'[p] = LayoutFB[p]
    BY <1>1, BarsLeftAlone
  <2>2. (Sound' <=> Sound) /\ (OneResolution' <=> OneResolution) /\ Fitting' = Fitting
    BY <2>1 DEF Sound, OneResolution, Fitting
  <2>3. Uses'
    BY <2>1, <2>2 DEF Uses
  <2>4. ASSUME OneResolution PROVE Firsts'
    BY <2>1, <2>2, <2>4 DEF Firsts
  <2> QED
    BY <2>2, <2>3, <2>4
<1>2. CASE \E b \in Bars(driver) : BarUpdate(b)
  <2>1. PICK bar, made, packed, sg, used : BarsAsk(bar) /\ BarDrawn(bar, made, packed, sg, used)
    BY <1>2, BarUpdateIs
  <2>2. UNCHANGED <<driver, size, Icon>>
    BY <1>2 DEF BarUpdate
  <2>3. Uses'
    BY <2>1, <2>2, UsesDrawn, Zenon
  <2>4. OneResolution' <=> OneResolution
    BY <2>2 DEF OneResolution
  <2>5. ASSUME OneResolution PROVE Firsts'
    BY <2>1, <2>2, <2>5, FirstsDrawn, Zenon
  <2> QED
    BY <2>3, <2>4, <2>5
<1> QED
  BY <1>1, <1>2 DEF Next

\* Every step uses the room there is.
LEMMA RoomUsed ==
  ASSUME Inv, Inv', Uses, OneResolution => Firsts, [Next]_vars,
         NEW n, n = Cardinality(InUse), NEW segments, segments = Range(Fixed) \union {Segment[k] : k \in InUse},
         Sound' /\ n + Cardinality(Asked(segments)') <= Room, NEW p \in DOMAIN BarFB, BarFB'[p].dir # 0
  PROVE  \/ shownBars' = shownBars
         \/ /\ Exact(p)'
            /\ OneResolution /\ Exact(p) /\ AsksTheSame(p) => LayoutFB'[p] = LayoutFB[p]
<1>1. CASE TextUpdate \/ (\E w \in Icons(driver) : IconUpdate(w)) \/ UNCHANGED vars
  <2>1. Segment' = Segment /\ \A q \in DisplayCells : BarFB'[q] = BarFB[q]
    BY <1>1, BarsLeftAlone
  <2> QED
    BY <2>1 DEF shownBars
<1>2. CASE \E b \in Bars(driver) : BarUpdate(b)
  <2>1. PICK bar, made, packed, sg, used : BarsAsk(bar) /\ BarDrawn(bar, made, packed, sg, used)
    BY <1>2, BarUpdateIs
  <2>2. UNCHANGED <<driver, size, Icon>>
    BY <1>2 DEF BarUpdate
  <2>3. Cardinality(InUse) + Cardinality(Asked(segments)') <= Room
    OBVIOUS
  <2> QED
    BY <2>1, <2>2, <2>3, RoomDrawn, Zenon
<1> QED
  BY <1>1, <1>2 DEF Next

\* If the segments in use leave room for the new ones that a draw asks for, every cell of every bar
\* shows exactly what it asks for, and, where bars have one resolution, no cell that did so before
\* and asks for the same changes its character: drv_generic_text_bar_create_segments finds a segment that is in
\* use again rather than make another (drv_generic_text.c:643), and pack_segments merges none.
THEOREM RoomIsWellUsed == Spec => RoomIsUsed
<1> DEFINE I == Inv /\ Uses /\ (OneResolution => Firsts)
<1>1. Init => I
  BY InitInv, InitUses
<1>2. I /\ [Next]_vars => I'
  BY NextInv, NextUses
<1>3. I /\ I' /\ [Next]_vars =>
        [\A n \in {Cardinality(InUse)}, segments \in {Range(Fixed) \union {Segment[k] : k \in InUse}} :
           Sound' /\ n + Cardinality(Asked(segments)') <= Room =>
             \A p \in DOMAIN BarFB : BarFB'[p].dir # 0 =>
               /\ Exact(p)'
               /\ OneResolution /\ Exact(p) /\ AsksTheSame(p) => LayoutFB'[p] = LayoutFB[p]]_shownBars
  <2> SUFFICES ASSUME I, I', [Next]_vars, shownBars' # shownBars,
                      NEW n \in {Cardinality(InUse)},
                      NEW segments \in {Range(Fixed) \union {Segment[k] : k \in InUse}},
                      Sound' /\ n + Cardinality(Asked(segments)') <= Room,
                      NEW p \in DOMAIN BarFB, BarFB'[p].dir # 0
               PROVE  /\ Exact(p)'
                      /\ OneResolution /\ Exact(p) /\ AsksTheSame(p) => LayoutFB'[p] = LayoutFB[p]
    BY Zenon
  <2>1. n = Cardinality(InUse) /\ segments = Range(Fixed) \union {Segment[k] : k \in InUse}
    OBVIOUS
  <2> QED
    BY <2>1, RoomUsed, Zenon
<1> HIDE DEF I
<1> QED
  BY <1>1, <1>2, <1>3, PTL DEF Spec, RoomIsUsed

=============================================================================
