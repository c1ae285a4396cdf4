------------------------ MODULE GraphicDisplay_proof ------------------------
(* Proofs about drawing on a graphic display: the types, and that the driver *)
(* implements a canvas, from the pixels of the pictures down to the bytes of *)
(* the T6963.                                                                *)
EXTENDS GraphicDisplay, FiniteSetTheorems, TLAPS

-----------------------------------------------------------------------------
(* Numbers *)

\* Strict inclusion of finite sets is well-founded; so a set of numbers has a least one.
LEMMA SmallestNat ==
  ASSUME NEW T, T \subseteq Nat, T # {}
  PROVE  \E n \in T : \A m \in T : n <= m
<1> DEFINE O == StrictSubsetOrdering(Nat)
           F == FiniteSubsetsOf(Nat)
           I == {0 .. n - 1 : n \in T}
<1>1. IsWellFoundedOn(O, F)
  BY FS_StrictSubsetOrderingWellFounded
<1>2. I \subseteq F
  <2> SUFFICES ASSUME NEW n \in T PROVE 0 .. n - 1 \in F
    OBVIOUS
  <2>1. IsFiniteSet(0 .. n - 1)
    BY FS_Interval
  <2> QED
    BY <2>1 DEF FiniteSubsetsOf
<1>3. I # {}
  OBVIOUS
<1>4. PICK X \in I : \A Y \in I : ~ (<<Y, X>> \in O)
  <2> HIDE DEF O, F, I
  <2> QED
    BY <1>1, <1>2, <1>3, WFMin
<1>5. PICK n \in T : X = 0 .. n - 1
  OBVIOUS
<1>6. \A m \in T : ~ (m < n)
  <2> SUFFICES ASSUME NEW m \in T, m < n PROVE FALSE
    OBVIOUS
  <2>1. 0 .. m - 1 \in I /\ 0 .. n - 1 \in I
    BY <1>5
  <2>2. 0 .. m - 1 \subseteq 0 .. n - 1 /\ m \in 0 .. n - 1 /\ m \notin 0 .. m - 1
    OBVIOUS
  <2>3. <<0 .. m - 1, 0 .. n - 1>> \in O
    BY <2>2 DEF StrictSubsetOrdering
  <2> QED
    BY <2>1, <2>3, <1>4, <1>5
<1> QED
  BY <1>6

\* Induction up to N, for the set of the numbers for which something holds.
LEMMA Induction ==
  ASSUME NEW N \in Nat, NEW T, 0 \in T, \A n \in 0 .. N - 1 : n \in T => n + 1 \in T
  PROVE  \A n \in 0 .. N : n \in T
<1> DEFINE U == {n \in 0 .. N : n \notin T}
<1> SUFFICES ASSUME U # {} PROVE FALSE
  OBVIOUS
<1>1. U \subseteq Nat
  OBVIOUS
<1>2. PICK n \in U : \A m \in U : n <= m
  <2> HIDE DEF U
  <2> QED
    BY <1>1, SmallestNat
<1>3. n - 1 \in 0 .. N - 1 /\ n - 1 \notin U
  BY <1>2
<1> QED
  BY <1>3

\* Products with a natural number keep the order.
LEMMA Products ==
  ASSUME NEW a \in Int, NEW b \in Int, NEW c \in Nat, a <= b
  PROVE  a * c <= b * c
  OBVIOUS

\* Quotient and remainder.
LEMMA Division ==
  ASSUME NEW m \in Nat, NEW c \in Nat \ {0}
  PROVE  /\ m \div c \in Nat /\ m % c \in 0 .. c - 1
         /\ m = (m \div c) * c + (m % c)
  OBVIOUS

\* There is only one quotient and one remainder.
LEMMA Quotient ==
  ASSUME NEW c \in Nat \ {0}, NEW q \in Nat, NEW k \in 0 .. c - 1
  PROVE  (q * c + k) \div c = q /\ (q * c + k) % c = k
<1> DEFINE m == q * c + k
           x == m \div c
           y == m % c
<1>1. m \in Nat
  <2>1. q * c \in Nat
    OBVIOUS
  <2> QED
    BY <2>1
<1>2. x \in Nat /\ y \in 0 .. c - 1 /\ m = x * c + y
  BY <1>1, Division
<1> HIDE DEF x, y
<1>3. x = q
  <2>1. x * c \in Nat /\ q * c \in Nat
    BY <1>2
  <2>2. CASE x < q
    <3>1. (x + 1) * c <= q * c
      BY <1>2, <2>2, Products
    <3>2. (x + 1) * c = x * c + c
      BY <1>2
    <3> QED
      BY <1>2, <2>1, <3>1, <3>2
  <2>3. CASE q < x
    <3>1. (q + 1) * c <= x * c
      BY <1>2, <2>3, Products
    <3>2. (q + 1) * c = q * c + c
      OBVIOUS
    <3> QED
      BY <1>2, <2>1, <3>1, <3>2
  <2> QED
    BY <1>2, <2>2, <2>3
<1>4. y = k
  BY <1>2, <1>3
<1> QED
  BY <1>3, <1>4 DEF x, y

-----------------------------------------------------------------------------
(* The bytes of the T6963 *)

Half == TCOLS * (DROWS \div 2)

\* Sizes are multiples of those of bytes and halves.
LEMMA T6963Sizes ==
  ASSUME Regular
  PROVE  /\ DROWS \in Nat \ {0} /\ DCOLS \in Nat \ {0} /\ CELL \in Nat \ {0} /\ TCOLS \in Nat \ {0}
         /\ GAP \in Nat /\ GRAPHIC \in Nat /\ LOWER \in Int /\ DualScan \in BOOLEAN
         /\ DCOLS = TCOLS * CELL
         /\ DROWS \div 2 \in Nat \ {0} /\ DROWS = 2 * (DROWS \div 2)
         /\ SIZE \in Nat /\ Half \in Nat /\ SIZE = 2 * Half
         /\ (DualScan => LOWER > GRAPHIC + Half + 1) /\ REACH = SIZE + 1
<1>1. /\ DROWS \in Nat \ {0} /\ DCOLS \in Nat \ {0} /\ CELL \in Nat \ {0} /\ LINES \in Nat \ {0}
      /\ GAP \in Nat /\ GRAPHIC \in Nat /\ LOWER \in Nat /\ DualScan \in BOOLEAN
      /\ DCOLS % CELL = 0 /\ DROWS % (2 * LINES) = 0
      /\ DualScan => LOWER > GRAPHIC + SIZE \div 2 + 1
  BY T6963Assumption DEF Regular
<1>2. TCOLS \in Nat /\ DCOLS = TCOLS * CELL
  BY <1>1, Division DEF TCOLS
<1>3. TCOLS # 0
  BY <1>1, <1>2
<1>4. DROWS \div 2 \in Nat \ {0} /\ DROWS = 2 * (DROWS \div 2)
  <2>1. PICK L \in Nat \ {0} : L = 2 * LINES
    BY <1>1
  <2> DEFINE k == DROWS \div L
  <2>2. k \in Nat /\ DROWS = k * L
    <3>1. DROWS \in Nat /\ DROWS % L = 0
      BY <1>1, <2>1
    <3>2. k \in Nat /\ DROWS = k * L + (DROWS % L)
      BY <3>1, Division, Zenon
    <3> HIDE DEF k
    <3>3. k * L \in Int
      BY <3>2
    <3> QED
      BY <3>1, <3>2, <3>3
  <2> HIDE DEF k
  <2> DEFINE n == k * LINES
  <2>3. n \in Nat /\ DROWS = 2 * n
    BY <1>1, <2>1, <2>2
  <2> HIDE DEF n
  <2>4. DROWS \div 2 = n
    BY <2>3
  <2> QED
    BY <1>1, <2>3, <2>4
<1>5. SIZE \in Nat /\ Half \in Nat /\ SIZE = 2 * Half
  <2> DEFINE h == DROWS \div 2
  <2>1. h \in Nat /\ TCOLS * (2 * h) = 2 * (TCOLS * h) /\ TCOLS * h \in Nat
    BY <1>2, <1>4
  <2> QED
    BY <1>4, <2>1 DEF SIZE, Half
<1>6. SIZE \div 2 = Half
  <2> HIDE DEF Half, SIZE
  <2> QED
    BY <1>5
<1>7. REACH = SIZE + 1
  <2>1. DROWS * DCOLS = SIZE * CELL
    <3>1. DROWS * (TCOLS * CELL) = (TCOLS * DROWS) * CELL
      BY <1>1, <1>2
    <3> QED
      BY <1>2, <3>1 DEF SIZE
  <2>2. SIZE * CELL + (CELL - 1) = DROWS * DCOLS + CELL - 1
    <3> DEFINE x == SIZE * CELL
    <3>1. x \in Nat
      BY <1>1, <1>5
    <3> HIDE DEF x
    <3>2. x + (CELL - 1) = x + CELL - 1
      BY <1>1, <3>1
    <3> QED
      BY <2>1, <3>2 DEF x
  <2>3. CELL - 1 \in 0 .. CELL - 1
    BY <1>1
  <2>4. (SIZE * CELL + (CELL - 1)) \div CELL = SIZE
    BY <1>1, <1>5, <2>3, Quotient
  <2> QED
    BY <2>2, <2>4 DEF REACH
<1> QED
  BY <1>1, <1>2, <1>3, <1>4, <1>5, <1>6, <1>7

\* The byte of a place, and where the display has it.
Byte(r, c) == r * TCOLS + c \div CELL
At(i) == IF DualScan /\ i >= Half THEN LOWER + i - Half ELSE GRAPHIC + i

\* The bytes of row r.
RowBytes(r) == r * TCOLS .. (r + 1) * TCOLS - 1

\* Rows lie one behind the other, in the half they belong to.
LEMMA RowsOfBytes ==
  ASSUME Regular, NEW r \in 0 .. DROWS - 1
  PROVE  /\ r * TCOLS \in Nat /\ (r + 1) * TCOLS = r * TCOLS + TCOLS
         /\ r * TCOLS + TCOLS <= SIZE
         /\ r < DROWS \div 2 => r * TCOLS + TCOLS <= Half
         /\ r >= DROWS \div 2 => r * TCOLS >= Half
<1>1. r \in Nat /\ r * TCOLS \in Nat /\ (r + 1) * TCOLS = r * TCOLS + TCOLS
  BY T6963Sizes
<1>2. (r + 1) * TCOLS <= DROWS * TCOLS /\ DROWS * TCOLS = SIZE
  <2>1. r + 1 <= DROWS
    BY T6963Sizes
  <2> QED
    BY <1>1, <2>1, T6963Sizes, Products DEF SIZE
<1> DEFINE h == DROWS \div 2
<1>3. h \in Nat /\ Half = h * TCOLS
  BY T6963Sizes DEF Half
<1>4. r < h => (r + 1) * TCOLS <= h * TCOLS
  BY <1>1, <1>3, T6963Sizes, Products
<1>5. r >= h => h * TCOLS <= r * TCOLS
  BY <1>1, <1>3, T6963Sizes, Products
<1> QED
  BY <1>1, <1>2, <1>3, <1>4, <1>5

\* The byte and the bit of a place, as the blit computes them.
LEMMA ByteIs ==
  ASSUME Regular, NEW r \in 0 .. DROWS - 1, NEW c \in 0 .. DCOLS - 1
  PROVE  /\ Byte(r, c) \in RowBytes(r) /\ Byte(r, c) \in 0 .. SIZE - 1
         /\ (r * DCOLS + c) \div CELL = Byte(r, c)
         /\ CELL - 1 - (c % CELL) \in 0 .. CELL - 1
         /\ Byte(r, c) * CELL + CELL - 1 - (CELL - 1 - (c % CELL)) - r * DCOLS = c
<1> DEFINE q == c \div CELL
           k == c % CELL
<1>1. q \in Nat /\ k \in 0 .. CELL - 1 /\ c = q * CELL + k
  <2>1. c \in Nat /\ CELL \in Nat \ {0}
    BY T6963Sizes
  <2> QED
    BY <2>1, Division, Zenon
<1> HIDE DEF q, k
<1>2. q < TCOLS
  <2> SUFFICES ASSUME TCOLS <= q PROVE FALSE
    BY <1>1, T6963Sizes
  <2>1. TCOLS * CELL <= q * CELL
    BY <1>1, T6963Sizes, Products
  <2>2. q * CELL \in Nat
    BY <1>1, T6963Sizes
  <2> QED
    BY <1>1, <2>1, <2>2, T6963Sizes
<1>3. r * TCOLS + q \in RowBytes(r) /\ r * TCOLS + q \in 0 .. SIZE - 1
  BY <1>1, <1>2, RowsOfBytes, T6963Sizes DEF RowBytes
<1>4. r * DCOLS = (r * TCOLS) * CELL
  BY T6963Sizes
<1>5. r * DCOLS + c = (r * TCOLS + q) * CELL + k
  <2>1. (r * TCOLS + q) * CELL = (r * TCOLS) * CELL + q * CELL
    BY <1>1, RowsOfBytes, T6963Sizes
  <2>2. (r * TCOLS) * CELL \in Nat /\ q * CELL \in Nat
    BY <1>1, RowsOfBytes, T6963Sizes
  <2> QED
    BY <1>1, <1>4, <2>1, <2>2
<1>6. (r * DCOLS + c) \div CELL = r * TCOLS + q
  <2> DEFINE y == r * TCOLS + q
  <2>1. y \in Nat /\ CELL \in Nat \ {0}
    BY <1>3, T6963Sizes
  <2>2. (y * CELL + k) \div CELL = y
    BY <1>1, <2>1, Quotient
  <2> QED
    BY <1>5, <2>2
<1>7. CELL - 1 - k \in 0 .. CELL - 1
  BY <1>1, T6963Sizes
<1>8. (r * TCOLS + q) * CELL + CELL - 1 - (CELL - 1 - k) - r * DCOLS = c
  <2>1. r * DCOLS \in Nat /\ (r * TCOLS + q) * CELL \in Nat
    BY <1>1, <1>3, T6963Sizes
  <2> DEFINE x == r * DCOLS
             y == (r * TCOLS + q) * CELL
  <2>2. x \in Nat /\ y \in Nat /\ x + c = y + k
    BY <1>5, <2>1
  <2> HIDE DEF x, y
  <2>3. y + CELL - 1 - (CELL - 1 - k) - x = c
    BY <1>1, <2>2, T6963Sizes
  <2> QED
    BY <2>3 DEF x, y
<1> QED
  BY <1>3, <1>6, <1>7, <1>8 DEF q, k, Byte

\* Buffers and memory; the bytes behind the picture are not part of what is shown, and at
\* most two of them were touched.
IsHw(h) ==
  /\ h = [Buffer1 |-> h.Buffer1, Buffer2 |-> h.Buffer2, strayed |-> h.strayed, ram |-> h.ram]
  /\ h.strayed \subseteq SIZE .. SIZE + 1
  /\ DOMAIN h.Buffer1 = 0 .. SIZE + 1 /\ DOMAIN h.Buffer2 = 0 .. SIZE + 1 /\ DOMAIN h.ram = Addresses

\* All has been sent.
Synced(h) ==
  \A i \in 0 .. SIZE - 1 :
    h.Buffer1[i] \subseteq 0 .. CELL - 1 /\ h.Buffer2[i] = h.Buffer1[i] /\ h.ram[At(i)] = h.Buffer1[i]

\* What the home of the lower half leaves out are the bytes of the upper one.
LEMMA HalfIs ==
  ASSUME Regular
  PROVE  ((DCOLS * DROWS) \div 2) \div CELL = Half
<1> DEFINE h == DROWS \div 2
<1>0. h \in Nat /\ TCOLS \in Nat /\ CELL \in Nat \ {0} /\ Half = TCOLS * h
  BY T6963Sizes DEF Half
<1>1. DCOLS * DROWS = 2 * (Half * CELL)
  <2>1. DCOLS * DROWS = (TCOLS * CELL) * (2 * h)
    BY T6963Sizes
  <2> HIDE DEF h
  <2>2. (TCOLS * CELL) * (2 * h) = 2 * ((TCOLS * h) * CELL)
    BY <1>0
  <2> QED
    BY <2>1, <2>2, <1>0
<1>2. Half * CELL \in Nat /\ Half \in Nat
  BY T6963Sizes
<1> DEFINE x == Half * CELL
<1>3. (2 * x) \div 2 = x
  <2> HIDE DEF x
  <2> QED
    BY <1>2 DEF x
<1>4. (x + 0) \div CELL = Half
  BY <1>0, <1>2, Quotient
<1>5. x + 0 = x
  BY <1>2
<1> QED
  BY <1>1, <1>3, <1>4, <1>5

\* Every byte has its address.
LEMMA AddressOf ==
  ASSUME Regular, NEW i \in 0 .. SIZE - 1
  PROVE  At(i) \in Addresses
<1> DEFINE upper == 0
           lower == DROWS \div 2
<1>1. upper \in 0 .. DROWS - 1 /\ lower \in 0 .. DROWS - 1 /\ ~ (upper >= DROWS \div 2)
  BY T6963Sizes
<1>2. \A r \in 0 .. DROWS - 1 : \A x \in Base(r) .. Base(r) + REACH : x \in Addresses
  BY DEF Addresses
<1>3. Base(upper) = GRAPHIC /\ (DualScan => Base(lower) = LOWER - Half)
  <2>1. Base(upper) = GRAPHIC
    BY <1>1 DEF Base
  <2>2. DualScan => Base(lower) = LOWER - Half
    <3>1. lower >= DROWS \div 2
      BY T6963Sizes
    <3> QED
      BY <3>1, HalfIs DEF Base
  <2> QED
    BY <2>1, <2>2
<1> HIDE DEF upper, lower
<1>4. CASE DualScan /\ i >= Half
  <2>1. At(i) \in Base(lower) .. Base(lower) + REACH
    BY <1>3, <1>4, T6963Sizes DEF At
  <2> QED
    BY <1>1, <1>2, <2>1
<1>5. CASE ~ (DualScan /\ i >= Half)
  <2>1. At(i) \in Base(upper) .. Base(upper) + REACH
    BY <1>3, <1>5, T6963Sizes DEF At
  <2> QED
    BY <1>1, <1>2, <2>1
<1> QED
  BY <1>4, <1>5

\* The blit's address of a byte of its row is that of the byte, and no byte of the picture
\* has that of a byte that is sent too much.
LEMMA BaseIs ==
  ASSUME Regular, NEW r \in 0 .. DROWS - 1
  PROVE  /\ Base(r) \in Int
         /\ \A i \in RowBytes(r) : At(i) = Base(r) + i
         /\ \A j \in r * TCOLS .. r * TCOLS + TCOLS + 1 : \A i \in 0 .. SIZE - 1 : At(i) = Base(r) + j => i = j
<1>2. Base(r) = IF DualScan /\ r >= DROWS \div 2 THEN LOWER - Half ELSE GRAPHIC
  BY HalfIs DEF Base
<1> DEFINE x == r * TCOLS
<1>3. /\ x \in Nat /\ RowBytes(r) = x .. x + TCOLS - 1 /\ x + TCOLS <= SIZE
      /\ r < DROWS \div 2 => x + TCOLS <= Half
      /\ r >= DROWS \div 2 => x >= Half
  <2> DEFINE y == (r + 1) * TCOLS
  <2>1. /\ x \in Nat /\ y = x + TCOLS /\ x + TCOLS <= SIZE
        /\ r < DROWS \div 2 => x + TCOLS <= Half
        /\ r >= DROWS \div 2 => x >= Half
    BY RowsOfBytes, Zenon
  <2>2. RowBytes(r) = x .. y - 1
    BY DEF RowBytes
  <2> HIDE DEF x, y
  <2>3. TCOLS \in Int
    BY T6963Sizes
  <2> QED
    BY <2>1, <2>2, <2>3
<1>4. r \in Nat
  OBVIOUS
<1>z. /\ DROWS \div 2 \in Nat /\ TCOLS \in Nat /\ Half \in Nat /\ SIZE = 2 * Half
      /\ GRAPHIC \in Nat /\ LOWER \in Int /\ DualScan \in BOOLEAN
      /\ (DualScan => LOWER > GRAPHIC + Half + 1)
  BY T6963Sizes
<1> HIDE DEF x
<1>5. ASSUME NEW i \in RowBytes(r) PROVE At(i) = Base(r) + i
  <2>1. i \in Nat /\ x <= i /\ i < x + TCOLS
    BY <1>3, <1>z
  <2>2. CASE r < DROWS \div 2
    BY <1>2, <1>3, <1>4, <2>1, <2>2, <1>z DEF At
  <2>3. CASE r >= DROWS \div 2
    <3>1. i >= Half
      BY <1>3, <2>1, <2>3, <1>z
    <3> QED
      BY <1>2, <2>1, <2>3, <3>1, <1>z DEF At
  <2> QED
    BY <2>2, <2>3, <1>4, <1>z
<1>6. ASSUME NEW j \in x .. x + TCOLS + 1, NEW i \in 0 .. SIZE - 1, At(i) = Base(r) + j PROVE i = j
  <2>1. j \in Nat /\ j >= x
    BY <1>3
  <2>2. CASE DualScan /\ r >= DROWS \div 2
    <3>1. Base(r) + j >= LOWER /\ Base(r) + j = LOWER - Half + j
      BY <1>2, <1>3, <2>1, <2>2, <1>z
    <3>2. CASE i >= Half
      <4>1. At(i) = LOWER + i - Half
        BY <2>2, <3>2 DEF At
      <4> QED
        BY <1>6, <2>1, <3>1, <4>1, <1>z
    <3>3. CASE ~ (i >= Half)
      <4>1. At(i) = GRAPHIC + i
        BY <3>3 DEF At
      <4> QED
        BY <1>6, <2>2, <3>1, <3>3, <4>1, <1>z
    <3> QED
      BY <3>2, <3>3
  <2>3. CASE ~ (DualScan /\ r >= DROWS \div 2)
    <3>1. Base(r) + j = GRAPHIC + j
      BY <1>2, <2>3
    <3>2. DualScan => j <= Half + 1
      <4>1. j <= x + TCOLS + 1 /\ (DualScan => x + TCOLS <= Half)
        BY <1>3, <1>4, <2>3, <1>z
      <4> QED
        BY <1>3, <2>1, <4>1, <1>z
    <3> QED
      BY <1>6, <2>1, <3>1, <3>2, <1>z DEF At
  <2> QED
    BY <2>2, <2>3
<1>7. Base(r) \in Int
  BY <1>2, <1>z
<1> QED
  BY <1>5, <1>6, <1>7 DEF x

\* What the blit sends of a row covers what differs, and lies in the row or up to two bytes behind.
LEMMA SentBytesAre ==
  ASSUME Regular, NEW h, NEW a \in Int, NEW b \in Int
  PROVE  /\ \A i \in a .. b : h.Buffer1[i] # h.Buffer2[i] => i \in SentBytes(h, a, b)
         /\ SentBytes(h, a, b) \subseteq a .. b + 1
<1> DEFINE changed == {i \in a .. b : h.Buffer1[i] # h.Buffer2[i]}
           near == {q \in changed \X changed : q[2] <= q[1] + GAP + 1}
           runs == UNION {p[1] .. p[2] : p \in near}
           over == {i + 1 : i \in {j \in changed : j + GAP >= b}}
<1>0. SentBytes(h, a, b) = runs \union over
  BY DEF SentBytes
<1>1. ASSUME NEW i \in changed PROVE i \in runs
  <2>1. <<i, i>> \in near
    BY T6963Sizes
  <2>2. <<i, i>>[1] .. <<i, i>>[2] \in {p[1] .. p[2] : p \in near}
    BY <2>1
  <2>3. i \in <<i, i>>[1] .. <<i, i>>[2]
    OBVIOUS
  <2> QED
    BY <2>2, <2>3
<1>2. ASSUME NEW i \in runs PROVE i \in a .. b + 1
  <2>1. PICK p \in near : i \in p[1] .. p[2]
    OBVIOUS
  <2>2. p[1] \in a .. b /\ p[2] \in a .. b
    BY <2>1
  <2> QED
    BY <2>1, <2>2
<1>3. ASSUME NEW i \in over PROVE i \in a .. b + 1
  OBVIOUS
<1>4. \A i \in a .. b : h.Buffer1[i] # h.Buffer2[i] => i \in changed
  OBVIOUS
<1> HIDE DEF changed, near, runs, over
<1> QED
  BY <1>0, <1>1, <1>2, <1>3, <1>4


\* The pixels of the display are the bits of the buffer.
LEMMA LitIs ==
  ASSUME Regular, NEW h, IsHw(h), Synced(h), NEW r \in 0 .. DROWS - 1, NEW c \in 0 .. DCOLS - 1
  PROVE  Lit(h.ram, r, c) = (CELL - 1 - (c % CELL) \in h.Buffer1[Byte(r, c)])
<1> DEFINE lower == DualScan /\ r >= DROWS \div 2
           home == IF lower THEN LOWER ELSE GRAPHIC
           line == IF lower THEN r - DROWS \div 2 ELSE r
           x == r * TCOLS
           q == c \div CELL
           y == line * TCOLS
<1>1. x + q \in 0 .. SIZE - 1 /\ x + q \in RowBytes(r)
  BY ByteIs DEF Byte
<1>2. q \in Nat /\ x \in Nat
  <2>1. c \in Nat /\ CELL \in Nat \ {0}
    BY T6963Sizes
  <2> QED
    BY <2>1, Division, RowsOfBytes
<1>3. y = IF lower THEN x - Half ELSE x
  <2> DEFINE d == DROWS \div 2
  <2>1. d \in Nat /\ Half = TCOLS * d /\ TCOLS \in Nat /\ r \in Nat
    BY T6963Sizes DEF Half
  <2>2. (r - d) * TCOLS = r * TCOLS - TCOLS * d
    <3> HIDE DEF d
    <3> QED
      BY <2>1
  <2> QED
    BY <2>1, <2>2
<1>4. lower => x >= Half
  BY RowsOfBytes
<1>5. ~ lower /\ DualScan => x + q < Half
  <2>1. ~ lower /\ DualScan => x + TCOLS <= Half
    <3>1. r \in Nat /\ DROWS \div 2 \in Nat
      BY T6963Sizes
    <3> QED
      BY <3>1, RowsOfBytes
  <2>2. x + q <= x + TCOLS - 1
    <3>1. RowBytes(r) = x .. (r + 1) * TCOLS - 1 /\ (r + 1) * TCOLS = x + TCOLS
      BY RowsOfBytes DEF RowBytes
    <3> HIDE DEF x, q
    <3> QED
      BY <1>1, <1>2, <3>1, T6963Sizes
  <2> HIDE DEF x, q, lower
  <2> QED
    BY <1>2, <2>1, <2>2, T6963Sizes
<1>6. home + y + q = At(x + q)
  <2>1. lower \in BOOLEAN /\ (lower => DualScan)
    BY T6963Sizes
  <2> HIDE DEF x, y, q, lower
  <2>2. CASE lower
    BY <1>2, <1>3, <1>4, <2>1, <2>2, T6963Sizes DEF At
  <2>3. CASE ~ lower
    BY <1>2, <1>3, <1>5, <2>1, <2>3, T6963Sizes DEF At
  <2> QED
    BY <2>2, <2>3
<1>7. h.ram[At(x + q)] = h.Buffer1[x + q]
  BY <1>1 DEF Synced
<1>8. Lit(h.ram, r, c) = (CELL - 1 - (c % CELL) \in h.ram[home + y + q])
  BY DEF Lit, Bit
<1> HIDE DEF home, y
<1> QED
  BY <1>6, <1>7, <1>8 DEF Byte

\* The column of a bit, counted from the start of row r.
ColOf(i, k, r) == i * CELL + CELL - 1 - k - r * DCOLS

\* The part of a row that is sent: it holds the places of the columns that are drawn.
LEMMA PartOfRow ==
  ASSUME Regular, NEW r \in 0 .. DROWS - 1, NEW col \in Nat, NEW width \in Nat, col + width <= DCOLS,
         NEW a, a = (r * DCOLS + col) \div CELL,
         NEW b, b = (r * DCOLS + col + width + CELL - 1) \div CELL
  PROVE  /\ a \in Nat /\ b \in Nat /\ r * TCOLS <= a /\ b <= r * TCOLS + TCOLS
         /\ \A i \in 0 .. SIZE - 1, k \in 0 .. CELL - 1 :
              i < a \/ i > b \/ i >= r * TCOLS + TCOLS => ColOf(i, k, r) \notin col .. col + width - 1
<1> DEFINE x == r * TCOLS
           X == r * DCOLS
           A == X + col
           B == X + col + width + CELL - 1
           z == A % CELL
           w == B % CELL
<1>0. /\ x \in Nat /\ X \in Nat /\ X = x * CELL /\ CELL \in Nat \ {0} /\ TCOLS \in Nat /\ DCOLS = TCOLS * CELL
      /\ r * DCOLS = X
  BY T6963Sizes, RowsOfBytes
<1>1. A \in Nat /\ B \in Nat
  <2> HIDE DEF X
  <2> QED
    BY <1>0
<1>2. a = A \div CELL /\ b = B \div CELL
  OBVIOUS
<1> HIDE DEF x, X
<1>3. /\ a \in Nat /\ z \in 0 .. CELL - 1 /\ A = a * CELL + z
      /\ b \in Nat /\ w \in 0 .. CELL - 1 /\ B = b * CELL + w
  <2> HIDE DEF A, B
  <2> QED
    BY <1>0, <1>1, <1>2, Division, Zenon
<1> HIDE DEF z, w
<1> DEFINE aC == a * CELL
           bC == b * CELL
<1>4. /\ aC \in Nat /\ aC <= X + col /\ X + col < aC + CELL
      /\ bC \in Nat /\ bC <= X + col + width + CELL - 1 /\ X + col + width <= bC
  <2>1. aC \in Nat /\ bC \in Nat
    BY <1>0, <1>3
  <2>2. A = aC + z /\ B = bC + w
    BY <1>3
  <2> HIDE DEF aC, bC
  <2> QED
    BY <1>0, <1>3, <2>1, <2>2
<1>5. x <= a
  <2> SUFFICES ASSUME a < x PROVE FALSE
    BY <1>0, <1>3
  <2>1. (a + 1) * CELL <= x * CELL
    BY <1>0, <1>3, Products
  <2>2. (a + 1) * CELL = aC + CELL
    BY <1>0, <1>3
  <2> HIDE DEF aC
  <2> QED
    BY <1>0, <1>4, <2>1, <2>2
<1>6. b <= x + TCOLS
  <2> SUFFICES ASSUME x + TCOLS < b PROVE FALSE
    BY <1>0, <1>3
  <2>1. (x + TCOLS + 1) * CELL <= b * CELL
    BY <1>0, <1>3, Products
  <2>2. (x + TCOLS + 1) * CELL = x * CELL + TCOLS * CELL + CELL
    BY <1>0
  <2> HIDE DEF bC
  <2>3. b * CELL = bC
    BY DEF bC
  <2>4. X + DCOLS + CELL <= bC
    BY <1>0, <2>1, <2>2, <2>3
  <2> QED
    BY <1>0, <1>4, <2>4
<1>7. ASSUME NEW i \in 0 .. SIZE - 1, NEW k \in 0 .. CELL - 1, i < a \/ i > b \/ i >= x + TCOLS
      PROVE  ColOf(i, k, r) \notin col .. col + width - 1
  <2> DEFINE iC == i * CELL
  <2>0. i \in Nat /\ iC \in Nat /\ k \in Nat /\ k < CELL
    <3>1. i \in Nat
      BY T6963Sizes
    <3> QED
      BY <1>0, <3>1
  <2>1. ColOf(i, k, r) = iC + CELL - 1 - k - X
    BY DEF ColOf, X
  <2>2. CASE i < a
    <3>1. (i + 1) * CELL <= a * CELL
      BY <1>0, <1>3, <2>0, <2>2, Products
    <3>2. (i + 1) * CELL = iC + CELL /\ a * CELL = aC
      BY <1>0, <2>0
    <3> HIDE DEF iC, aC
    <3>3. iC + CELL <= aC
      BY <3>1, <3>2
    <3> QED
      BY <1>0, <1>4, <2>0, <2>1, <3>3
  <2>3. CASE i > b
    <3>1. (b + 1) * CELL <= i * CELL
      BY <1>0, <1>3, <2>0, <2>3, Products
    <3>2. (b + 1) * CELL = bC + CELL /\ i * CELL = iC
      BY <1>0, <1>3
    <3> HIDE DEF iC, bC
    <3>3. bC + CELL <= iC
      BY <3>1, <3>2
    <3> QED
      BY <1>0, <1>4, <2>0, <2>1, <3>3
  <2>4. CASE i >= x + TCOLS
    <3>1. (x + TCOLS) * CELL <= i * CELL
      BY <1>0, <2>0, <2>4, Products
    <3>2. (x + TCOLS) * CELL = X + DCOLS /\ i * CELL = iC
      BY <1>0
    <3> HIDE DEF iC
    <3>3. X + DCOLS <= iC
      BY <3>1, <3>2
    <3> QED
      BY <1>0, <2>0, <2>1, <3>3
  <2> QED
    BY <1>7, <2>2, <2>3, <2>4
<1> QED
  BY <1>3, <1>5, <1>6, <1>7 DEF x

\* The columns of a byte that are drawn are those of its bits.
LEMMA ColumnIs ==
  ASSUME Regular, NEW r \in 0 .. DROWS - 1, NEW c \in 0 .. DCOLS - 1,
         NEW i \in 0 .. SIZE - 1, NEW k \in 0 .. CELL - 1
  PROVE  (r * DCOLS + c) \div CELL = i /\ Bit(c) = k <=> c = ColOf(i, k, r)
<1> DEFINE j == Byte(r, c)
           n == Bit(c)
           X == r * DCOLS
<1>1. j \in 0 .. SIZE - 1 /\ (r * DCOLS + c) \div CELL = j /\ n \in 0 .. CELL - 1 /\ ColOf(j, n, r) = c
  BY ByteIs DEF Bit, ColOf
<1>2. /\ ColOf(j, n, r) = j * CELL + CELL - 1 - n - X
      /\ ColOf(i, k, r) = i * CELL + CELL - 1 - k - X
  BY DEF ColOf
<1> HIDE DEF j, n
<1>3. X \in Nat /\ CELL \in Nat \ {0} /\ i \in Nat /\ j \in Nat
  BY <1>1, T6963Sizes
<1> HIDE DEF X
<1>4. ASSUME c = ColOf(i, k, r) PROVE i = j /\ k = n
  <2> DEFINE a == i * CELL
             b == j * CELL
  <2>1. a \in Nat /\ b \in Nat
    BY <1>3
  <2>2. b + CELL - 1 - n - X = a + CELL - 1 - k - X
    BY <1>1, <1>2, <1>4
  <2> HIDE DEF a, b
  <2>3. a + (CELL - 1 - k) = b + (CELL - 1 - n)
    BY <1>1, <1>3, <2>1, <2>2
  <2>4. CELL - 1 - k \in 0 .. CELL - 1 /\ CELL - 1 - n \in 0 .. CELL - 1
    BY <1>1, <1>3
  <2>5. (a + (CELL - 1 - k)) \div CELL = i /\ (b + (CELL - 1 - n)) \div CELL = j
    <3> DEFINE u == CELL - 1 - k
               v == CELL - 1 - n
    <3>1. u \in 0 .. CELL - 1 /\ v \in 0 .. CELL - 1
      BY <2>4
    <3> HIDE DEF u, v
    <3>2. (i * CELL + u) \div CELL = i /\ (j * CELL + v) \div CELL = j
      BY <1>3, <3>1, Quotient
    <3> QED
      BY <3>2 DEF a, b, u, v
  <2>6. i = j
    BY <2>3, <2>5
  <2>7. a = b
    BY <2>6 DEF a, b
  <2> QED
    BY <1>1, <1>3, <2>1, <2>3, <2>6, <2>7
<1>5. i = j /\ k = n => c = ColOf(i, k, r)
  BY <1>1
<1> QED
  BY <1>1, <1>4, <1>5 DEF n

\* A byte in which the columns of an area are drawn.
DrawnByte(h, ink, r, col, width, i) ==
  LET cs == ColumnsOf(i, r, col, width)
  IN (h.Buffer1[i] \ {Bit(c) : c \in cs}) \union {Bit(c) : c \in {d \in cs : <<r, d>> \in ink}}

LEMMA DrawnByteIs ==
  ASSUME Regular, NEW h, NEW ink, NEW r \in 0 .. DROWS - 1, NEW col \in Nat, NEW width \in Nat,
         col + width <= DCOLS, NEW i \in 0 .. SIZE - 1, h.Buffer1[i] \subseteq 0 .. CELL - 1
  PROVE  /\ DrawnByte(h, ink, r, col, width, i) \subseteq 0 .. CELL - 1
         /\ \A k \in 0 .. CELL - 1 :
              k \in DrawnByte(h, ink, r, col, width, i) <=>
                IF ColOf(i, k, r) \in col .. col + width - 1
                THEN <<r, ColOf(i, k, r)>> \in ink ELSE k \in h.Buffer1[i]
<1> DEFINE cs == ColumnsOf(i, r, col, width)
           D == DrawnByte(h, ink, r, col, width, i)
<1>1. \A c \in col .. col + width - 1 : c \in 0 .. DCOLS - 1
  BY T6963Sizes
<1>2. \A c \in cs : c \in 0 .. DCOLS - 1 /\ c \in col .. col + width - 1 /\ (r * DCOLS + c) \div CELL = i
  BY <1>1 DEF ColumnsOf
<1>3. \A c \in 0 .. DCOLS - 1 : Bit(c) \in 0 .. CELL - 1
  BY ByteIs DEF Bit
<1>4. \A k : k \in D <=> \/ k \in h.Buffer1[i] /\ \A c \in cs : k # Bit(c)
                       \/ \E c \in cs : <<r, c>> \in ink /\ k = Bit(c)
  BY DEF DrawnByte
<1>5. ASSUME NEW k \in 0 .. CELL - 1, NEW c \in col .. col + width - 1
      PROVE  c \in cs /\ k = Bit(c) <=> c = ColOf(i, k, r)
  <2>1. c \in 0 .. DCOLS - 1
    BY <1>1
  <2>2. (r * DCOLS + c) \div CELL = i /\ Bit(c) = k <=> c = ColOf(i, k, r)
    BY <2>1, ColumnIs
  <2>3. c \in cs <=> (r * DCOLS + c) \div CELL = i
    BY DEF ColumnsOf
  <2> QED
    BY <2>2, <2>3
<1> HIDE DEF cs, D
<1>6. D \subseteq 0 .. CELL - 1
  BY <1>2, <1>3, <1>4
<1>7. ASSUME NEW k \in 0 .. CELL - 1
      PROVE  k \in D <=> IF ColOf(i, k, r) \in col .. col + width - 1
                        THEN <<r, ColOf(i, k, r)>> \in ink ELSE k \in h.Buffer1[i]
  BY <1>2, <1>4, <1>5, Zenon
<1> QED
  BY <1>6, <1>7 DEF D

SentRow(h, h2, ink, r, col, width) ==
  \A i \in 0 .. SIZE - 1, k \in 0 .. CELL - 1 :
    k \in h2.Buffer1[i] <=> IF ColOf(i, k, r) \in col .. col + width - 1
                              THEN <<r, ColOf(i, k, r)>> \in ink ELSE k \in h.Buffer1[i]

\* A row that is drawn and sent: everything is sent again, and only bits of the area changed.
LEMMA RowIsSent ==
  ASSUME Regular, NEW h, IsHw(h), Synced(h), NEW ink,
         NEW r \in 0 .. DROWS - 1, NEW col \in Nat, NEW width \in Nat, col + width <= DCOLS,
         NEW a, a = (r * DCOLS + col) \div CELL,
         NEW b, b = (r * DCOLS + col + width + CELL - 1) \div CELL,
         NEW h2, h2 = SendRow(DrawRow(h, ink, r, col, width), r, a, b)
  PROVE  IsHw(h2) /\ Synced(h2) /\ SentRow(h, h2, ink, r, col, width)
<1> DEFINE bits(i) == DrawnByte(h, ink, r, col, width, i)
           g == DrawRow(h, ink, r, col, width)
           bytes == SentBytes(g, a, b)
           behind == {i \in (a .. b) \union bytes : i >= SIZE}
<1>1. /\ g.Buffer1 = [i \in 0 .. SIZE + 1 |-> bits(i)] /\ g.Buffer2 = h.Buffer2 /\ g.ram = h.ram
      /\ g = [Buffer1 |-> g.Buffer1, Buffer2 |-> g.Buffer2, strayed |-> g.strayed, ram |-> g.ram]
      /\ g.strayed = h.strayed
  <2>1. g = [h EXCEPT !.Buffer1 = [i \in DOMAIN h.Buffer1 |-> bits(i)]]
    BY DEF DrawRow, DrawnByte
  <2> HIDE DEF bits, g
  <2>2. /\ h = [Buffer1 |-> h.Buffer1, Buffer2 |-> h.Buffer2, strayed |-> h.strayed, ram |-> h.ram]
        /\ DOMAIN h.Buffer1 = 0 .. SIZE + 1
    BY DEF IsHw
  <2> QED
    BY <2>1, <2>2
<1>b. ASSUME NEW i \in 0 .. SIZE - 1
      PROVE  /\ bits(i) \subseteq 0 .. CELL - 1 /\ h.Buffer1[i] \subseteq 0 .. CELL - 1
             /\ \A k \in 0 .. CELL - 1 :
                  k \in bits(i) <=> IF ColOf(i, k, r) \in col .. col + width - 1
                                   THEN <<r, ColOf(i, k, r)>> \in ink ELSE k \in h.Buffer1[i]
  <2>1. h.Buffer1[i] \subseteq 0 .. CELL - 1
    BY DEF Synced
  <2> QED
    BY <2>1, DrawnByteIs, Zenon
<1>a. ASSUME NEW i \in 0 .. SIZE - 1 PROVE g.Buffer1[i] = bits(i)
  <2>1. i \in 0 .. SIZE + 1
    BY T6963Sizes
  <2> HIDE DEF bits, g
  <2> QED
    BY <1>1, <2>1
<1>2. /\ h2.Buffer1 = g.Buffer1
      /\ h2.Buffer2 = drv_T6_copy(h.Buffer2, 0, g.Buffer1, bytes)
      /\ h2.ram = drv_T6_copy(h.ram, Base(r), g.Buffer1, bytes)
      /\ h2 = [Buffer1 |-> h2.Buffer1, Buffer2 |-> h2.Buffer2, strayed |-> h2.strayed, ram |-> h2.ram]
      /\ h2.strayed = h.strayed \union behind
  <2>1. h2 = [g EXCEPT !.Buffer2 = drv_T6_copy(g.Buffer2, 0, g.Buffer1, bytes),
                       !.ram = drv_T6_copy(g.ram, Base(r), g.Buffer1, bytes),
                       !.strayed = g.strayed \union behind]
    BY DEF SendRow
  <2> HIDE DEF g, bytes, behind
  <2> QED
    BY <1>1, <2>1
<1>3. /\ a \in Nat /\ b \in Nat /\ r * TCOLS <= a /\ b <= r * TCOLS + TCOLS
      /\ \A i \in 0 .. SIZE - 1, k \in 0 .. CELL - 1 :
           i < a \/ i > b \/ i >= r * TCOLS + TCOLS => ColOf(i, k, r) \notin col .. col + width - 1
  BY PartOfRow
<1>4. bytes \subseteq a .. b + 1 /\ \A i \in a .. b : g.Buffer1[i] # g.Buffer2[i] => i \in bytes
  <2> HIDE DEF g
  <2>1. a \in Int /\ b \in Int
    BY <1>3
  <2>2. /\ \A i \in a .. b : g.Buffer1[i] # g.Buffer2[i] => i \in SentBytes(g, a, b)
        /\ SentBytes(g, a, b) \subseteq a .. b + 1
    BY <2>1, SentBytesAre, Zenon
  <2> QED
    BY <2>2
<1>5. ASSUME NEW i \in 0 .. SIZE - 1, i < a \/ i > b \/ i >= r * TCOLS + TCOLS
      PROVE  g.Buffer1[i] = h.Buffer1[i]
  <2>1. g.Buffer1[i] = bits(i)
    BY <1>a
  <2>2. bits(i) = h.Buffer1[i]
    <3>1. h.Buffer1[i] \subseteq 0 .. CELL - 1 /\ bits(i) \subseteq 0 .. CELL - 1
      BY <1>b
    <3>2. \A k \in 0 .. CELL - 1 : ColOf(i, k, r) \notin col .. col + width - 1
      BY <1>3, <1>5
    <3>3. \A k \in 0 .. CELL - 1 : k \in bits(i) <=> k \in h.Buffer1[i]
      BY <1>b, <3>2
    <3> HIDE DEF bits
    <3> QED
      BY <3>1, <3>3
  <2> HIDE DEF bits, g
  <2> QED
    BY <2>1, <2>2
<1>6. ASSUME NEW i \in 0 .. SIZE - 1, i \notin bytes
      PROVE  g.Buffer1[i] = h.Buffer1[i] /\ h.Buffer2[i] = h.Buffer1[i]
  <2>1. h.Buffer2[i] = h.Buffer1[i]
    BY DEF Synced
  <2>2. CASE i \in a .. b
    <3> HIDE DEF g, bytes
    <3> QED
      BY <1>1, <1>4, <1>6, <2>1, <2>2
  <2>3. CASE i \notin a .. b
    <3>1. i < a \/ i > b
      BY <1>3, <2>3
    <3> HIDE DEF g, bytes
    <3> QED
      BY <1>5, <2>1, <3>1
  <2> QED
    BY <2>2, <2>3
<1>7. DOMAIN h.Buffer2 = 0 .. SIZE + 1 /\ DOMAIN h.ram = Addresses
  BY DEF IsHw
<1>8. ASSUME NEW i \in 0 .. SIZE - 1 PROVE h2.Buffer2[i] = g.Buffer1[i]
  <2>1. i \in 0 .. SIZE + 1 /\ i - 0 = i
    BY T6963Sizes
  <2> HIDE DEF g, bytes
  <2>2. i \in DOMAIN h.Buffer2
    BY <1>7, <2>1
  <2>3. drv_T6_copy(h.Buffer2, 0, g.Buffer1, bytes)[i] = IF i - 0 \in bytes THEN g.Buffer1[i - 0] ELSE h.Buffer2[i]
    BY <2>2 DEF drv_T6_copy
  <2>4. h2.Buffer2[i] = IF i \in bytes THEN g.Buffer1[i] ELSE h.Buffer2[i]
    BY <1>2, <2>1, <2>3, Zenon
  <2> QED
    BY <1>6, <2>4
<1>9. ASSUME NEW i \in 0 .. SIZE - 1 PROVE h2.ram[At(i)] = g.Buffer1[i]
  <2> DEFINE j == At(i) - Base(r)
  <2>0. i \in Nat /\ At(i) \in Int /\ Base(r) \in Int /\ At(i) \in Addresses
    <3>1. At(i) \in Int
      BY T6963Sizes DEF At
    <3> QED
      BY <3>1, BaseIs, AddressOf
  <2>1. h2.ram[At(i)] = IF j \in bytes THEN g.Buffer1[j] ELSE h.ram[At(i)]
    <3> HIDE DEF g, bytes
    <3> QED
      BY <1>2, <1>7, <2>0 DEF drv_T6_copy
  <2>2. CASE j \in bytes
    <3>1. j \in a .. b + 1
      BY <1>4, <2>2
    <3>2. j \in r * TCOLS .. r * TCOLS + TCOLS + 1 /\ At(i) = Base(r) + j
      <4>1. r * TCOLS \in Nat /\ TCOLS \in Nat
        BY RowsOfBytes, T6963Sizes
      <4> DEFINE x == r * TCOLS
      <4> HIDE DEF x, j
      <4>2. x \in Nat /\ x <= a /\ b <= x + TCOLS
        BY <1>3, <4>1 DEF x
      <4>3. j \in x .. x + TCOLS + 1
        BY <1>3, <3>1, <4>1, <4>2, T6963Sizes
      <4>4. At(i) = Base(r) + j
        BY <2>0 DEF j
      <4> QED
        BY <4>3, <4>4 DEF x
    <3>3. i = j
      <4> HIDE DEF j
      <4> QED
        BY <3>2, BaseIs
    <3> HIDE DEF j, g
    <3> QED
      BY <2>1, <2>2, <3>3
  <2>3. CASE j \notin bytes
    <3>1. h.ram[At(i)] = h.Buffer1[i]
      BY DEF Synced
    <3>2. g.Buffer1[i] = h.Buffer1[i]
      <4>1. CASE i \notin bytes
        BY <1>6, <4>1
      <4>2. CASE i \in bytes /\ i \in RowBytes(r)
        <5>1. At(i) = Base(r) + i
          BY <4>2, BaseIs
        <5>2. j = i
          BY <2>0, <5>1
        <5> HIDE DEF j
        <5> QED
          BY <2>3, <4>2, <5>2
      <4>3. CASE i \in bytes /\ i \notin RowBytes(r)
        <5> DEFINE x == r * TCOLS
        <5>1. i \in a .. b + 1 /\ x <= a /\ x \in Nat
          BY <1>3, <1>4, <4>3, RowsOfBytes
        <5>2. RowBytes(r) = x .. x + TCOLS - 1
          <6> DEFINE y == (r + 1) * TCOLS
          <6>1. y = x + TCOLS
            BY RowsOfBytes, Zenon
          <6>2. RowBytes(r) = x .. y - 1
            BY DEF RowBytes
          <6>3. TCOLS \in Int
            BY T6963Sizes
          <6> HIDE DEF x, y
          <6> QED
            BY <5>1, <6>1, <6>2, <6>3
        <5>3. i >= x + TCOLS
          <6>1. i \notin x .. x + TCOLS - 1 /\ a \in Nat /\ TCOLS \in Nat
            BY <1>3, <4>3, <5>2, T6963Sizes
          <6> HIDE DEF x
          <6> QED
            BY <2>0, <5>1, <6>1
        <5> HIDE DEF g
        <5> QED
          BY <1>5, <5>3
      <4> QED
        BY <4>1, <4>2, <4>3
    <3> HIDE DEF j, g
    <3> QED
      BY <2>1, <2>3, <3>1, <3>2
  <2> QED
    BY <2>2, <2>3
<1>10. IsHw(h2)
  <2>1. DOMAIN h2.Buffer1 = 0 .. SIZE + 1
    <3> HIDE DEF bits, g
    <3> QED
      BY <1>1, <1>2
  <2>2. DOMAIN h2.Buffer2 = 0 .. SIZE + 1 /\ DOMAIN h2.ram = Addresses
    <3> HIDE DEF bits, g, bytes, behind
    <3> QED
      BY <1>2, <1>7 DEF drv_T6_copy
  <2>3. h2.strayed \subseteq SIZE .. SIZE + 1
    <3>1. h.strayed \subseteq SIZE .. SIZE + 1
      BY DEF IsHw
    <3>2. b <= SIZE
      <4> DEFINE x == r * TCOLS
      <4>1. x + TCOLS <= SIZE /\ x \in Nat /\ b <= x + TCOLS
        BY <1>3, RowsOfBytes
      <4> HIDE DEF x
      <4> QED
        BY <1>3, <4>1, T6963Sizes
    <3>3. behind \subseteq SIZE .. SIZE + 1
      <4>1. a \in Nat /\ b \in Nat /\ SIZE \in Nat /\ bytes \subseteq a .. b + 1
        BY <1>3, <1>4, T6963Sizes
      <4> HIDE DEF bytes
      <4>2. \A i \in behind : i \in a .. b + 1 /\ i >= SIZE
        BY <4>1
      <4> HIDE DEF behind
      <4> QED
        BY <3>2, <4>1, <4>2
    <3> HIDE DEF behind
    <3> QED
      BY <1>2, <3>1, <3>3
  <2> HIDE DEF behind, bytes, g
  <2> QED
    BY <1>2, <2>1, <2>2, <2>3 DEF IsHw
<1>11. ASSUME NEW i \in 0 .. SIZE - 1 PROVE h2.Buffer1[i] = bits(i)
  <2> HIDE DEF bits, g
  <2> QED
    BY <1>2, <1>a
<1>12. Synced(h2)
  <2> SUFFICES ASSUME NEW i \in 0 .. SIZE - 1
               PROVE  h2.Buffer1[i] \subseteq 0 .. CELL - 1 /\ h2.Buffer2[i] = h2.Buffer1[i]
                      /\ h2.ram[At(i)] = h2.Buffer1[i]
    BY DEF Synced
  <2>1. bits(i) \subseteq 0 .. CELL - 1
    BY <1>b
  <2>2. h2.Buffer1 = g.Buffer1 /\ h2.Buffer1[i] = bits(i)
    BY <1>2, <1>11, Zenon
  <2>3. h2.Buffer2[i] = g.Buffer1[i] /\ h2.ram[At(i)] = g.Buffer1[i]
    BY <1>8, <1>9, Zenon
  <2> HIDE DEF bits, g
  <2> QED
    BY <2>1, <2>2, <2>3
<1>13. SentRow(h, h2, ink, r, col, width)
  <2> SUFFICES ASSUME NEW i \in 0 .. SIZE - 1, NEW k \in 0 .. CELL - 1
               PROVE  k \in h2.Buffer1[i] <=>
                        IF ColOf(i, k, r) \in col .. col + width - 1
                        THEN <<r, ColOf(i, k, r)>> \in ink ELSE k \in h.Buffer1[i]
    BY Zenon DEF SentRow
  <2>1. h2.Buffer1[i] = bits(i)
    BY <1>11
  <2>2. k \in bits(i) <=> IF ColOf(i, k, r) \in col .. col + width - 1
                         THEN <<r, ColOf(i, k, r)>> \in ink ELSE k \in h.Buffer1[i]
    BY <1>b
  <2> HIDE DEF bits
  <2> QED
    BY <2>1, <2>2, Zenon
<1> QED
  BY <1>10, <1>12, <1>13

\* One row, drawn and sent.
BlitRow(h, ink, r, col, width) ==
  SendRow(DrawRow(h, ink, r, col, width), r,
          (r * DCOLS + col) \div CELL, (r * DCOLS + col + width + CELL - 1) \div CELL)

\* All is sent, and the pixels of an area are drawn.
Redrawn(h, h2, ink, row, col, height, width) ==
  /\ IsHw(h2) /\ Synced(h2)
  /\ \A q \in 0 .. DROWS - 1, c \in 0 .. DCOLS - 1 :
       Lit(h2.ram, q, c) = IF q \in row .. row + height - 1 /\ c \in col .. col + width - 1
                           THEN <<q, c>> \in ink ELSE Lit(h.ram, q, c)

\* The row, in places.
LEMMA RowIsLit ==
  ASSUME Regular, NEW h, IsHw(h), Synced(h), NEW ink,
         NEW r \in 0 .. DROWS - 1, NEW col \in Nat, NEW width \in Nat, col + width <= DCOLS
  PROVE  Redrawn(h, BlitRow(h, ink, r, col, width), ink, r, col, 1, width)
<1>0. SUFFICES
        ASSUME NEW a, a = (r * DCOLS + col) \div CELL,
               NEW b, b = (r * DCOLS + col + width + CELL - 1) \div CELL,
               NEW h2, h2 = SendRow(DrawRow(h, ink, r, col, width), r, a, b)
        PROVE  Redrawn(h, h2, ink, r, col, 1, width)
  BY DEF BlitRow
<1>1. IsHw(h2) /\ Synced(h2) /\ SentRow(h, h2, ink, r, col, width)
  BY <1>0, RowIsSent, Zenon
<1>2. ASSUME NEW q \in 0 .. DROWS - 1, NEW c \in 0 .. DCOLS - 1
      PROVE  Lit(h2.ram, q, c) = IF q = r /\ c \in col .. col + width - 1
                                 THEN <<q, c>> \in ink ELSE Lit(h.ram, q, c)
  <2> DEFINE i == Byte(q, c)
             k == CELL - 1 - (c % CELL)
             e == ColOf(i, k, r)
  <2>1. i \in 0 .. SIZE - 1 /\ k \in 0 .. CELL - 1 /\ ColOf(i, k, q) = c
    BY ByteIs DEF ColOf
  <2>2. Lit(h2.ram, q, c) = (k \in h2.Buffer1[i]) /\ Lit(h.ram, q, c) = (k \in h.Buffer1[i])
    <3>1. Lit(h2.ram, q, c) = (k \in h2.Buffer1[i])
      BY <1>1, LitIs
    <3>2. Lit(h.ram, q, c) = (k \in h.Buffer1[i])
      BY LitIs
    <3> QED
      BY <3>1, <3>2, Zenon
  <2>3. q = r => e = c
    BY <2>1
  <2>4. q # r => e \notin col .. col + width - 1
    <3> DEFINE u == i * CELL + CELL - 1 - k
               Q == q * DCOLS
               R == r * DCOLS
    <3>0. q \in Nat /\ r \in Nat /\ DCOLS \in Nat /\ c \in 0 .. DCOLS - 1
      BY T6963Sizes
    <3>1. Q \in Nat /\ R \in Nat
      BY <3>0
    <3>2. u \in Int /\ e = u - R /\ c = u - Q
      <4>1. u \in Int
        <5>1. i \in Int /\ CELL \in Int /\ k \in Int
          BY <2>1, T6963Sizes
        <5> HIDE DEF i, k
        <5> QED
          BY <5>1
      <4>2. \A j, n, m : ColOf(j, n, m) = j * CELL + CELL - 1 - n - m * DCOLS
        BY DEF ColOf
      <4>3. e = u - R /\ ColOf(i, k, q) = u - Q
        <5> DEFINE v == i * CELL
        <5>1. u = v + CELL - 1 - k /\ e = v + CELL - 1 - k - R /\ ColOf(i, k, q) = v + CELL - 1 - k - Q
          BY <4>2, Zenon
        <5>2. v \in Int /\ k \in Int /\ CELL \in Int
          <6>1. i \in Int /\ k \in Int /\ CELL \in Int
            BY <2>1, T6963Sizes
          <6> HIDE DEF i, k
          <6> QED
            BY <6>1
        <5> HIDE DEF v, u, e, k, i, Q, R
        <5> QED
          BY <3>1, <5>1, <5>2
      <4> QED
        BY <2>1, <4>1, <4>3
    <3>3. q < r => Q + DCOLS <= R
      <4> HIDE DEF i, k
      <4>1. ASSUME q < r PROVE Q + DCOLS <= R
        <5>1. (q + 1) * DCOLS <= r * DCOLS
          BY <3>0, <4>1, Products
        <5>2. (q + 1) * DCOLS = Q + DCOLS
          BY <3>0
        <5> QED
          BY <5>1, <5>2
      <4> QED
        BY <4>1
    <3>4. q > r => R + DCOLS <= Q
      <4> HIDE DEF i, k
      <4>1. ASSUME q > r PROVE R + DCOLS <= Q
        <5>1. (r + 1) * DCOLS <= q * DCOLS
          BY <3>0, <4>1, Products
        <5>2. (r + 1) * DCOLS = R + DCOLS
          BY <3>0
        <5> QED
          BY <5>1, <5>2
      <4> QED
        BY <4>1
    <3> HIDE DEF u, Q, R, e
    <3> QED
      BY <3>0, <3>1, <3>2, <3>3, <3>4
  <2>5. (k \in h2.Buffer1[i]) = IF e \in col .. col + width - 1 THEN <<r, e>> \in ink ELSE k \in h.Buffer1[i]
    <3> HIDE DEF i, k
    <3> QED
      BY <1>1, <2>1 DEF SentRow
  <2> HIDE DEF i, k, e
  <2> QED
    BY <2>2, <2>3, <2>4, <2>5
<1>3. r .. r + 1 - 1 = {r}
  BY T6963Sizes
<1> QED
  BY <1>1, <1>2, <1>3, Zenon DEF Redrawn

\* The function of the rows that drv_T6_blit takes the last value of.
IsRows(f, h, ink, row, col, width, N) ==
  f = [k \in 0 .. N |-> IF k = 0 THEN h ELSE BlitRow(f[k - 1], ink, row + k - 1, col, width)]

LEMMA RowsAre ==
  ASSUME NEW h, NEW ink, NEW row, NEW col, NEW width, NEW N \in Nat
  PROVE  IsRows(CHOOSE f : IsRows(f, h, ink, row, col, width, N), h, ink, row, col, width, N)
<1> DEFINE T == {n \in Nat : \E f : IsRows(f, h, ink, row, col, width, n)}
<1>1. 0 \in T
  <2> DEFINE f == [n \in 0 .. 0 |-> h]
  <2>1. IsRows(f, h, ink, row, col, width, 0)
    BY DEF IsRows
  <2> QED
    BY <2>1
<1>2. ASSUME NEW n \in Nat, n \in T PROVE n + 1 \in T
  <2>1. PICK f : IsRows(f, h, ink, row, col, width, n)
    BY <1>2
  <2> DEFINE last == BlitRow(f[n], ink, row + (n + 1) - 1, col, width)
             g == [k \in 0 .. n + 1 |-> IF k = n + 1 THEN last ELSE f[k]]
  <2>2. \A k \in 0 .. n : f[k] = IF k = 0 THEN h ELSE BlitRow(f[k - 1], ink, row + k - 1, col, width)
    BY <2>1, Zenon DEF IsRows
  <2>3. ASSUME NEW k \in 0 .. n + 1 PROVE g[k] = IF k = 0 THEN h ELSE BlitRow(g[k - 1], ink, row + k - 1, col, width)
    <3>1. CASE k = n + 1
      <4>1. g[k] = last /\ k # 0 /\ k - 1 = n /\ k - 1 \in 0 .. n + 1 /\ k - 1 # n + 1
        <5> HIDE DEF last
        <5> QED
          BY <3>1
      <4>2. g[k - 1] = f[n]
        <5> HIDE DEF last
        <5> QED
          BY <4>1
      <4>3. last = BlitRow(f[n], ink, row + k - 1, col, width)
        BY <3>1, Zenon
      <4> HIDE DEF g, last
      <4> QED
        BY <4>1, <4>2, <4>3, Zenon
    <3>2. CASE k # n + 1
      <4>1. k \in 0 .. n /\ (k # 0 => k - 1 \in 0 .. n + 1 /\ k - 1 # n + 1)
        BY <3>2
      <4>2. g[k] = f[k] /\ (k # 0 => g[k - 1] = f[k - 1])
        <5> HIDE DEF last
        <5> QED
          BY <3>2, <4>1, Zenon
      <4> HIDE DEF g
      <4> QED
        BY <2>2, <4>1, <4>2, Zenon
    <3> QED
      BY <3>1, <3>2
  <2>4. g = [k \in 0 .. n + 1 |-> g[k]]
    <3> HIDE DEF last
    <3> QED
      OBVIOUS
  <2> HIDE DEF g
  <2>5. g = [k \in 0 .. n + 1 |-> IF k = 0 THEN h ELSE BlitRow(g[k - 1], ink, row + k - 1, col, width)]
    BY <2>3, <2>4, Zenon
  <2>6. IsRows(g, h, ink, row, col, width, n + 1)
    BY <2>5, Zenon DEF IsRows
  <2> QED
    BY <2>6
<1>3. N \in T
  <2> HIDE DEF T
  <2>1. \A n \in 0 .. N - 1 : n \in T => n + 1 \in T
    BY <1>2
  <2>2. \A n \in 0 .. N : n \in T
    BY <1>1, <2>1, Induction
  <2> QED
    BY <2>2
<1> QED
  BY <1>3

\* After drv_T6_blit the pixels of its window are those that drv_generic_graphic_black says, and
\* all others are what they were, although it sends only the bytes that differ, bridges short gaps,
\* and sends a byte too many at the end of a row: what the buffers hold and the display has agree
\* before and after.
THEOREM BlitIsLit ==
  ASSUME Regular, NEW h, IsHw(h), Synced(h), NEW ink,
         NEW row \in Nat, NEW col \in Nat, NEW height \in Nat, NEW width \in Nat,
         row + height <= DROWS, col + width <= DCOLS
  PROVE  Redrawn(h, drv_T6_blit(h, ink, row, col, height, width), ink, row, col, height, width)
<1> DEFINE st == CHOOSE f : IsRows(f, h, ink, row, col, width, height)
<1>1. drv_T6_blit(h, ink, row, col, height, width) = st[height]
  BY DEF drv_T6_blit, IsRows, BlitRow
<1>2. IsRows(st, h, ink, row, col, width, height)
  BY RowsAre
<1> HIDE DEF st
<1>3. /\ 0 \in 0 .. height => st[0] = h
      /\ \A k \in 0 .. height : k # 0 => st[k] = BlitRow(st[k - 1], ink, row + k - 1, col, width)
  BY <1>2, Zenon DEF IsRows
<1> DEFINE Good(n) == Redrawn(h, st[n], ink, row, col, n, width)
           T == {n \in 0 .. height : Good(n)}
<1>4. 0 \in T
  <2>1. \A q : q \notin row .. row + 0 - 1
    OBVIOUS
  <2>2. st[0] = h
    BY <1>3
  <2>3. Good(0)
    BY <2>1, <2>2, Zenon DEF Redrawn
  <2> HIDE DEF Good
  <2> QED
    BY <2>3
<1>5. ASSUME NEW n \in 0 .. height - 1, n \in T PROVE n + 1 \in T
  <2>1. Good(n)
    BY <1>5
  <2> DEFINE r == row + n
  <2>2. r \in 0 .. DROWS - 1 /\ n + 1 \in 0 .. height /\ n + 1 # 0 /\ n + 1 - 1 = n /\ row + (n + 1) - 1 = r
    BY T6963Sizes
  <2>3. st[n + 1] = BlitRow(st[n], ink, r, col, width)
    <3>1. st[n + 1] = BlitRow(st[n + 1 - 1], ink, row + (n + 1) - 1, col, width)
      BY <1>3, <2>2
    <3> HIDE DEF r
    <3> QED
      BY <2>2, <3>1
  <2>4. \A q \in 0 .. DROWS - 1 : q \in row .. row + (n + 1) - 1 <=> q \in r .. r + 1 - 1 \/ q \in row .. row + n - 1
    BY <2>2
  <2> HIDE DEF r
  <2>5. Redrawn(st[n], st[n + 1], ink, r, col, 1, width)
    <3>1. IsHw(st[n]) /\ Synced(st[n])
      BY <2>1 DEF Redrawn
    <3> QED
      BY <2>2, <2>3, <3>1, RowIsLit
  <2>6. Good(n + 1)
    BY <2>1, <2>4, <2>5, Zenon DEF Redrawn
  <2> HIDE DEF Good
  <2> QED
    BY <2>2, <2>6
<1>6. height \in T
  <2> HIDE DEF T
  <2>1. \A n \in 0 .. height - 1 : n \in T => n + 1 \in T
    BY <1>5
  <2>2. \A n \in 0 .. height : n \in T
    BY <1>4, <2>1, Induction
  <2> QED
    BY <2>2
<1>7. Good(height)
  <2> HIDE DEF Good
  <2> QED
    BY <1>6
<1> QED
  BY <1>1, <1>7, Zenon

-----------------------------------------------------------------------------
(* The layers *)

LEMMA Sizes ==
  /\ LAYERS \in Nat \ {0} /\ XRES \in Nat \ {0} /\ YRES \in Nat \ {0} /\ Extent \subseteq Nat \X Nat
  /\ FG_COL \in Colors /\ BG_COL \in Colors /\ BL_COL \in Colors /\ NO_COL \in Colors
  /\ DROWS \in Nat \ {0} /\ DCOLS \in Nat \ {0}
  BY GraphicAssumption, T6963Assumption DEF NO_COL, Colors

IsLayers(g) ==
  /\ g = [FB |-> g.FB, LROWS |-> g.LROWS, LCOLS |-> g.LCOLS]
  /\ g.LROWS \in Nat /\ g.LCOLS \in Nat /\ g.LROWS >= DROWS /\ g.LCOLS >= DCOLS
  /\ g.FB \in [0 .. LAYERS - 1 -> [0 .. g.LROWS * g.LCOLS - 1 -> Colors]]

\* The pixel of a place, and all of them.
PixelOf(g, l, p) == IF p[1] < g.LROWS /\ p[2] < g.LCOLS THEN g.FB[l][p[1] * g.LCOLS + p[2]] ELSE NO_COL
PlanesOf(g) == [l \in 0 .. LAYERS - 1 |-> [p \in Extent |-> PixelOf(g, l, p)]]

\* Where the array has a place.
LEMMA PlaceIs ==
  ASSUME NEW R \in Nat, NEW C_ \in Nat, NEW y \in Nat, NEW x \in Nat, y < R, x < C_
  PROVE  /\ y * C_ + x \in 0 .. R * C_ - 1
         /\ (y * C_ + x) \div C_ = y /\ (y * C_ + x) % C_ = x
<1>1. (y + 1) * C_ <= R * C_
  BY Products
<1>2. (y + 1) * C_ = y * C_ + C_ /\ y * C_ \in Nat /\ R * C_ \in Nat
  OBVIOUS
<1>3. y * C_ + x \in 0 .. R * C_ - 1
  <2> DEFINE a == y * C_
             b == R * C_
  <2>1. a + C_ <= b /\ a \in Nat /\ b \in Nat
    BY <1>1, <1>2
  <2> HIDE DEF a, b
  <2>2. a + x \in 0 .. b - 1
    BY <2>1
  <2> QED
    BY <2>2 DEF a, b
<1>4. C_ \in Nat \ {0} /\ x \in 0 .. C_ - 1
  OBVIOUS
<1> QED
  BY <1>3, <1>4, Quotient

\* And the place of an index.
LEMMA IndexIs ==
  ASSUME NEW R \in Nat, NEW C_ \in Nat, NEW i \in 0 .. R * C_ - 1
  PROVE  /\ i \div C_ \in 0 .. R - 1 /\ i % C_ \in 0 .. C_ - 1
         /\ (i \div C_) * C_ + (i % C_) = i
<1> DEFINE q == i \div C_
           k == i % C_
<1>1. R * C_ \in Nat /\ i \in Nat
  OBVIOUS
<1>2. C_ # 0
  OBVIOUS
<1>3. q \in Nat /\ k \in 0 .. C_ - 1 /\ i = q * C_ + k
  <2>1. C_ \in Nat \ {0}
    BY <1>2
  <2> QED
    BY <1>1, <2>1, Division, Zenon
<1> HIDE DEF q, k
<1>4. q < R
  <2> SUFFICES ASSUME R <= q PROVE FALSE
    BY <1>3
  <2>1. R * C_ <= q * C_
    BY <1>3, Products
  <2>2. q * C_ \in Nat
    BY <1>3
  <2> DEFINE a == R * C_
             b == q * C_
  <2>3. a <= b /\ a \in Nat /\ b \in Nat /\ i \in 0 .. a - 1 /\ i = b + k /\ k \in Nat
    BY <1>1, <1>3, <2>1, <2>2
  <2> HIDE DEF a, b
  <2> QED
    BY <2>3
<1>5. q \in 0 .. R - 1
  BY <1>3, <1>4
<1> QED
  BY <1>3, <1>5 DEF q, k

\* Pixels are colors.
LEMMA PixelIs ==
  ASSUME NEW g, IsLayers(g), NEW l \in 0 .. LAYERS - 1, NEW p \in Nat \X Nat
  PROVE  PixelOf(g, l, p) \in Colors
<1>1. CASE p[1] < g.LROWS /\ p[2] < g.LCOLS
  <2>1. p[1] \in Nat /\ p[2] \in Nat /\ g.LROWS \in Nat /\ g.LCOLS \in Nat
    BY DEF IsLayers
  <2>2. p[1] * g.LCOLS + p[2] \in 0 .. g.LROWS * g.LCOLS - 1
    BY <1>1, <2>1, PlaceIs
  <2>3. g.FB[l] \in [0 .. g.LROWS * g.LCOLS - 1 -> Colors]
    BY DEF IsLayers
  <2> DEFINE i == p[1] * g.LCOLS + p[2]
  <2>4. g.FB[l][i] \in Colors
    <3> HIDE DEF i
    <3>1. i \in 0 .. g.LROWS * g.LCOLS - 1
      BY <2>2 DEF i
    <3> QED
      BY <2>3, <3>1, Zenon
  <2> QED
    BY <1>1, <2>4, Zenon DEF PixelOf
<1>2. CASE ~ (p[1] < g.LROWS /\ p[2] < g.LCOLS)
  BY <1>2, Sizes, Zenon DEF PixelOf
<1> QED
  BY <1>1, <1>2

-----------------------------------------------------------------------------
(* The light of a place *)

\* A pixel over what lies behind it.
Over(pixel, v) == (pixel.l * pixel.a + v * (255 - pixel.a)) \div 255

LEMMA OverIs ==
  ASSUME NEW pixel \in Colors, NEW v \in Int
  PROVE  /\ Over(pixel, v) \in Int
         /\ pixel.a = 0 => Over(pixel, v) = v
         /\ pixel.a = 255 => \A u \in Int : Over(pixel, u) = Over(pixel, v)
<1>1. pixel.l \in Nat /\ pixel.a \in 0 .. 255
  BY DEF Colors
<1> DEFINE a == pixel.a
           l == pixel.l
<1>2. a \in 0 .. 255 /\ l \in Nat
  BY <1>1
<1> HIDE DEF a, l
<1>3. (l * a + v * (255 - a)) \div 255 \in Int
  <2>1. l * a \in Int /\ v * (255 - a) \in Int
    BY <1>2
  <2> DEFINE x == l * a
             y == v * (255 - a)
  <2>2. x \in Int /\ y \in Int
    BY <2>1
  <2> HIDE DEF x, y
  <2>3. (x + y) \div 255 \in Int
    BY <2>2
  <2> QED
    BY <2>3 DEF x, y
<1>4. a = 0 => (l * a + v * (255 - a)) \div 255 = v
  BY <1>2
<1>5. a = 255 => \A u \in Int : (l * a + u * (255 - a)) \div 255 = (l * a + v * (255 - a)) \div 255
  BY <1>2
<1> QED
  BY <1>3, <1>4, <1>5 DEF Over, a, l

\* The light of the layers of a canvas, from the back to the front.
IsLight(f, planes, p, N) ==
  f = [k \in 0 .. N |-> IF k = 0 THEN BL_COL.l ELSE Over(planes[LAYERS - k][p], f[k - 1])]

LEMMA LightExists ==
  ASSUME NEW planes, NEW p, NEW N \in Nat
  PROVE  IsLight(CHOOSE f : IsLight(f, planes, p, N), planes, p, N)
<1> DEFINE T == {n \in Nat : \E f : IsLight(f, planes, p, n)}
<1>1. 0 \in T
  <2> DEFINE f == [n \in 0 .. 0 |-> BL_COL.l]
  <2>1. IsLight(f, planes, p, 0)
    BY DEF IsLight
  <2> QED
    BY <2>1
<1>2. ASSUME NEW n \in Nat, n \in T PROVE n + 1 \in T
  <2>1. PICK f : IsLight(f, planes, p, n)
    BY <1>2
  <2> DEFINE last == Over(planes[LAYERS - (n + 1)][p], f[n])
             g == [k \in 0 .. n + 1 |-> IF k = n + 1 THEN last ELSE f[k]]
  <2>2. \A k \in 0 .. n : f[k] = IF k = 0 THEN BL_COL.l ELSE Over(planes[LAYERS - k][p], f[k - 1])
    BY <2>1, Zenon DEF IsLight
  <2>3. ASSUME NEW k \in 0 .. n + 1 PROVE g[k] = IF k = 0 THEN BL_COL.l ELSE Over(planes[LAYERS - k][p], g[k - 1])
    <3>1. CASE k = n + 1
      <4>1. g[k] = last /\ k # 0 /\ k - 1 = n /\ k - 1 \in 0 .. n + 1 /\ k - 1 # n + 1
        <5> HIDE DEF last
        <5> QED
          BY <3>1
      <4>2. g[k - 1] = f[n]
        <5> HIDE DEF last
        <5> QED
          BY <4>1
      <4>3. last = Over(planes[LAYERS - k][p], f[n])
        BY <3>1, Zenon
      <4> HIDE DEF g, last
      <4> QED
        BY <4>1, <4>2, <4>3, Zenon
    <3>2. CASE k # n + 1
      <4>1. k \in 0 .. n /\ (k # 0 => k - 1 \in 0 .. n + 1 /\ k - 1 # n + 1)
        BY <3>2
      <4>2. g[k] = f[k] /\ (k # 0 => g[k - 1] = f[k - 1])
        <5> HIDE DEF last
        <5> QED
          BY <3>2, <4>1, Zenon
      <4> HIDE DEF g
      <4> QED
        BY <2>2, <4>1, <4>2, Zenon
    <3> QED
      BY <3>1, <3>2
  <2>4. g = [k \in 0 .. n + 1 |-> g[k]]
    <3> HIDE DEF last
    <3> QED
      OBVIOUS
  <2> HIDE DEF g
  <2>5. g = [k \in 0 .. n + 1 |-> IF k = 0 THEN BL_COL.l ELSE Over(planes[LAYERS - k][p], g[k - 1])]
    BY <2>3, <2>4, Zenon
  <2>6. IsLight(g, planes, p, n + 1)
    BY <2>5, Zenon DEF IsLight
  <2> QED
    BY <2>6
<1>3. N \in T
  <2> HIDE DEF T
  <2>1. \A n \in 0 .. N - 1 : n \in T => n + 1 \in T
    BY <1>2
  <2>2. \A n \in 0 .. N : n \in T
    BY <1>1, <2>1, Induction
  <2> QED
    BY <2>2
<1> QED
  BY <1>3

LightOf(planes, p) ==
  LET light == CHOOSE f : IsLight(f, planes, p, LAYERS)
  IN IF INVERTED THEN 255 - light[LAYERS] ELSE light[LAYERS]

DarkOf(planes, p) == LightOf(planes, p) < 127

\* The function blend computes from the front to the back.
IsBlend(f, g, i, first) ==
  f = [l \in 0 .. first + 1 |->
         IF l > first THEN BL_COL.l
         ELSE IF g.FB[l][i].a = 0 THEN f[l + 1]
              ELSE (g.FB[l][i].l * g.FB[l][i].a + f[l + 1] * (255 - g.FB[l][i].a)) \div 255]

\* What is blended is the light of the layers: those behind an opaque one do not matter.
LEMMA BlackIs ==
  ASSUME NEW g, IsLayers(g), NEW p \in Extent, p[1] < DROWS, p[2] < DCOLS
  PROVE  black(g, p[1], p[2]) = DarkOf(PlanesOf(g), p)
<1> DEFINE i == p[1] * g.LCOLS + p[2]
           pixel(l) == g.FB[l][i]
           Opaque(l) == pixel(l).a = 255
           IsFirst(l) == (Opaque(l) \/ l = LAYERS - 1) /\ \A k \in 0 .. l - 1 : ~ Opaque(k)
           first == CHOOSE l \in 0 .. LAYERS - 1 : IsFirst(l)
           planes == PlanesOf(g)
           light == CHOOSE f : IsLight(f, planes, p, LAYERS)
           ret == CHOOSE f : IsBlend(f, g, i, first)
<1>1. /\ blend(g, p[1], p[2]) = IF INVERTED THEN 255 - ret[0] ELSE ret[0]
      /\ LightOf(planes, p) = IF INVERTED THEN 255 - light[LAYERS] ELSE light[LAYERS]
  <2>1. blend(g, p[1], p[2]) = IF INVERTED THEN 255 - ret[0] ELSE ret[0]
    BY DEF blend, IsBlend
  <2>2. LightOf(planes, p) = IF INVERTED THEN 255 - light[LAYERS] ELSE light[LAYERS]
    BY DEF LightOf
  <2> QED
    BY <2>1, <2>2
<1>2. ASSUME NEW l \in 0 .. LAYERS - 1 PROVE pixel(l) = planes[l][p] /\ pixel(l) \in Colors
  <2>1. p \in Nat \X Nat /\ g.LROWS \in Nat /\ g.LCOLS \in Nat /\ g.LROWS >= DROWS /\ g.LCOLS >= DCOLS
    BY Sizes DEF IsLayers
  <2>2. p[1] \in Nat /\ p[2] \in Nat
    BY <2>1
  <2>3. p[1] < g.LROWS /\ p[2] < g.LCOLS
    BY <2>1, <2>2, Sizes
  <2>4. PixelOf(g, l, p) = pixel(l)
    BY <2>3, Zenon DEF PixelOf
  <2>5. planes[l][p] = PixelOf(g, l, p)
    BY DEF PlanesOf
  <2>6. PixelOf(g, l, p) \in Colors
    BY <2>1, PixelIs
  <2> QED
    BY <2>4, <2>5, <2>6, Zenon
<1> HIDE DEF i, planes
<1>3. first \in 0 .. LAYERS - 1 /\ IsFirst(first)
  <2> DEFINE S == {l \in 0 .. LAYERS - 1 : Opaque(l) \/ l = LAYERS - 1}
  <2>1. S \subseteq Nat /\ S # {}
    <3>1. LAYERS - 1 \in 0 .. LAYERS - 1
      BY Sizes
    <3>2. LAYERS - 1 \in S
      BY <3>1, Zenon
    <3>3. S \subseteq 0 .. LAYERS - 1
      BY Zenon
    <3> HIDE DEF S
    <3> QED
      BY <3>2, <3>3
  <2>2. PICK l \in S : \A m \in S : l <= m
    <3> HIDE DEF S
    <3> QED
      BY <2>1, SmallestNat
  <2>3. l \in 0 .. LAYERS - 1 /\ IsFirst(l)
    <3>1. \A k \in 0 .. l - 1 : k \notin S /\ k \in 0 .. LAYERS - 1
      BY <2>2, Sizes
    <3> QED
      BY <2>2, <3>1
  <2> HIDE DEF IsFirst
  <2> QED
    BY <2>3, Zenon
<1>4. IsLight(light, planes, p, LAYERS)
  BY LightExists, Sizes
<1> HIDE DEF light, first, ret
<1>5. /\ light[0] = BL_COL.l
      /\ \A n \in 0 .. LAYERS : n # 0 => light[n] = Over(planes[LAYERS - n][p], light[n - 1])
  <2>1. 0 \in 0 .. LAYERS
    BY Sizes
  <2> QED
    BY <1>4, <2>1, Zenon DEF IsLight
<1>6. \A n \in 0 .. LAYERS : light[n] \in Int
  <2> DEFINE T == {n \in 0 .. LAYERS : light[n] \in Int}
  <2>1. 0 \in T
    BY <1>5, Sizes DEF Colors
  <2>2. ASSUME NEW n \in 0 .. LAYERS - 1, n \in T PROVE n + 1 \in T
    <3>1. n + 1 \in 0 .. LAYERS /\ n + 1 # 0 /\ n + 1 - 1 = n /\ LAYERS - (n + 1) \in 0 .. LAYERS - 1
      BY Sizes
    <3>2. light[n + 1] = Over(planes[LAYERS - (n + 1)][p], light[n])
      BY <1>5, <3>1
    <3>3. planes[LAYERS - (n + 1)][p] \in Colors
      BY <1>2, <3>1, Zenon
    <3>4. light[n + 1] \in Int
      BY <2>2, <3>2, <3>3, OverIs
    <3> QED
      BY <3>1, <3>4
  <2> HIDE DEF T
  <2>3. \A n \in 0 .. LAYERS : n \in T
    <3>1. \A n \in 0 .. LAYERS - 1 : n \in T => n + 1 \in T
      BY <2>2
    <3> QED
      BY <2>1, <3>1, Sizes, Induction
  <2> QED
    BY <2>3 DEF T
\* One step of either computation.
<1>7. ASSUME NEW l \in 0 .. first
      PROVE  /\ light[LAYERS - l] = Over(pixel(l), light[LAYERS - (l + 1)])
             /\ light[LAYERS - l] \in Int /\ light[LAYERS - (l + 1)] \in Int /\ pixel(l) \in Colors
  <2>1. /\ l \in 0 .. LAYERS - 1 /\ LAYERS - l \in 0 .. LAYERS /\ LAYERS - l # 0
        /\ LAYERS - l - 1 = LAYERS - (l + 1) /\ LAYERS - (LAYERS - l) = l /\ LAYERS - (l + 1) \in 0 .. LAYERS
    BY <1>3, Sizes
  <2>2. light[LAYERS - l] = Over(planes[LAYERS - (LAYERS - l)][p], light[LAYERS - l - 1])
    BY <1>5, <2>1
  <2>3. light[LAYERS - l] = Over(planes[l][p], light[LAYERS - (l + 1)])
    BY <2>1, <2>2
  <2>4. planes[l][p] = pixel(l) /\ pixel(l) \in Colors
    BY <1>2, <2>1
  <2>5. light[LAYERS - l] \in Int /\ light[LAYERS - (l + 1)] \in Int
    BY <1>6, <2>1
  <2> HIDE DEF pixel
  <2> QED
    BY <2>3, <2>4, <2>5
\* From the first layer on, both start with the same light.
<1>8. Over(pixel(first), BL_COL.l) = light[LAYERS - first]
  <2>1. first \in 0 .. first /\ BL_COL.l \in Int
    BY <1>3, Sizes DEF Colors
  <2>2. /\ light[LAYERS - first] = Over(pixel(first), light[LAYERS - (first + 1)])
        /\ light[LAYERS - (first + 1)] \in Int /\ pixel(first) \in Colors
    BY <1>7, <2>1
  <2>3. CASE pixel(first).a = 255
    <3> HIDE DEF pixel
    <3> QED
      BY <2>1, <2>2, <2>3, OverIs
  <2>4. CASE first = LAYERS - 1
    <3>1. LAYERS - (first + 1) = 0
      BY <2>4, Sizes
    <3> HIDE DEF pixel
    <3> QED
      BY <1>5, <2>2, <3>1
  <2> QED
    BY <1>3, <2>3, <2>4
<1>9. ASSUME NEW l \in 0 .. first, NEW v \in Int
      PROVE  (IF g.FB[l][i].a = 0 THEN v ELSE (g.FB[l][i].l * g.FB[l][i].a + v * (255 - g.FB[l][i].a)) \div 255)
               = Over(pixel(l), v)
  <2>1. pixel(l) \in Colors
    BY <1>7
  <2>2. pixel(l).a = 0 => Over(pixel(l), v) = v
    <3> HIDE DEF pixel
    <3> QED
      BY <2>1, OverIs
  <2> QED
    BY <2>2, Zenon DEF Over
<1>10. \E f : IsBlend(f, g, i, first)
  <2> DEFINE f == [l \in 0 .. first + 1 |-> IF l > first THEN BL_COL.l ELSE light[LAYERS - l]]
             F(l) == IF l > first THEN BL_COL.l
                     ELSE IF g.FB[l][i].a = 0 THEN f[l + 1]
                          ELSE (g.FB[l][i].l * g.FB[l][i].a + f[l + 1] * (255 - g.FB[l][i].a)) \div 255
  <2>1. ASSUME NEW l \in 0 .. first + 1 PROVE f[l] = F(l)
    <3>1. CASE l > first
      BY <3>1
    <3>2. CASE ~ (l > first)
      <4>1. l \in 0 .. first /\ l + 1 \in 0 .. first + 1
        BY <1>3, <3>2
      <4>2. f[l] = light[LAYERS - l]
        BY <3>2
      <4>3. f[l + 1] \in Int /\ Over(pixel(l), f[l + 1]) = light[LAYERS - l]
        <5>1. CASE l = first
          <6>1. f[l + 1] = BL_COL.l
            BY <1>3, <5>1
          <6>2. BL_COL.l \in Int
            BY Sizes DEF Colors
          <6> HIDE DEF f, pixel
          <6> QED
            BY <1>8, <5>1, <6>1, <6>2
        <5>2. CASE l # first
          <6>1. ~ (l + 1 > first)
            BY <1>3, <4>1, <5>2
          <6>2. f[l + 1] = light[LAYERS - (l + 1)]
            BY <4>1, <6>1
          <6> HIDE DEF f, pixel
          <6> QED
            BY <1>7, <4>1, <6>2
        <5> QED
          BY <5>1, <5>2
      <4> DEFINE v == f[l + 1]
      <4>4. v \in Int /\ Over(pixel(l), v) = light[LAYERS - l]
        BY <4>3
      <4>5. F(l) = IF g.FB[l][i].a = 0 THEN v ELSE (g.FB[l][i].l * g.FB[l][i].a + v * (255 - g.FB[l][i].a)) \div 255
        BY <3>2, Zenon
      <4> HIDE DEF v, f, F, pixel
      <4> QED
        BY <1>9, <4>1, <4>2, <4>4, <4>5, Zenon
    <3> QED
      BY <3>1, <3>2
  <2>2. f = [l \in 0 .. first + 1 |-> f[l]]
    OBVIOUS
  <2> HIDE DEF f
  <2>3. f = [l \in 0 .. first + 1 |-> F(l)]
    <3> HIDE DEF F
    <3> QED
      BY <2>1, <2>2, Zenon
  <2>4. IsBlend(f, g, i, first)
    BY <2>3, Zenon DEF IsBlend
  <2> QED
    BY <2>4
<1>11. IsBlend(ret, g, i, first)
  BY <1>10, Zenon DEF ret
<1>12. /\ ret[first + 1] = BL_COL.l
       /\ \A l \in 0 .. first : ret[l + 1] \in Int => ret[l] = Over(pixel(l), ret[l + 1])
  <2>1. first + 1 \in 0 .. first + 1 /\ first + 1 > first /\ \A l \in 0 .. first : l \in 0 .. first + 1 /\ ~ (l > first)
    BY <1>3
  <2>2. ret[first + 1] = BL_COL.l
    BY <1>11, <2>1, Zenon DEF IsBlend
  <2>3. ASSUME NEW l \in 0 .. first, ret[l + 1] \in Int PROVE ret[l] = Over(pixel(l), ret[l + 1])
    <3>1. ret[l] = IF g.FB[l][i].a = 0 THEN ret[l + 1]
                   ELSE (g.FB[l][i].l * g.FB[l][i].a + ret[l + 1] * (255 - g.FB[l][i].a)) \div 255
      BY <1>11, <2>1, Zenon DEF IsBlend
    <3> QED
      BY <1>9, <2>3, <3>1, Zenon
  <2> QED
    BY <2>2, <2>3
<1>13. ret[0] = light[LAYERS]
  <2> DEFINE T == {n \in 0 .. first : ret[first - n] = light[LAYERS - (first - n)]}
  <2>1. 0 \in T
    <3>1. first \in 0 .. first /\ first - 0 = first /\ 0 \in 0 .. first /\ BL_COL.l \in Int
      BY <1>3, Sizes DEF Colors
    <3> HIDE DEF pixel
    <3> QED
      BY <1>8, <1>12, <3>1
  <2>2. ASSUME NEW n \in 0 .. first - 1, n \in T PROVE n + 1 \in T
    <3> DEFINE l == first - (n + 1)
    <3>1. l \in 0 .. first /\ l + 1 = first - n /\ n + 1 \in 0 .. first
      BY <1>3
    <3>2. ret[first - n] = light[LAYERS - (first - n)]
      BY <2>2
    <3> HIDE DEF l, pixel
    <3>3. ret[l + 1] = light[LAYERS - (l + 1)] /\ light[LAYERS - (l + 1)] \in Int
      BY <1>7, <3>1, <3>2
    <3>4. ret[l] = light[LAYERS - l]
      BY <1>7, <1>12, <3>1, <3>3
    <3> QED
      BY <3>1, <3>4 DEF l
  <2> HIDE DEF T
  <2>3. first \in T
    <3>1. \A n \in 0 .. first - 1 : n \in T => n + 1 \in T
      BY <2>2
    <3>2. \A n \in 0 .. first : n \in T
      BY <1>3, <2>1, <3>1, Induction
    <3> QED
      BY <1>3, <3>2
  <2>4. first - first = 0 /\ LAYERS - 0 = LAYERS
    BY <1>3, Sizes
  <2> QED
    BY <2>3, <2>4 DEF T
<1> QED
  BY <1>1, <1>13, Zenon DEF black, DarkOf, planes

-----------------------------------------------------------------------------
(* Drawing *)

\* The picture lies in an area.
InArea(picture, row, col, height, width) ==
  /\ \A p \in DOMAIN picture : p \in (row .. row + height - 1) \X (col .. col + width - 1)
  /\ \A p \in DOMAIN picture : picture[p] \in Colors

\* Layers that grow keep their pixels.
LEMMA ResizeIs ==
  ASSUME NEW g, IsLayers(g), NEW rows \in Int, NEW cols \in Int
  PROVE  /\ IsLayers(resizeFB(g, rows, cols))
         /\ resizeFB(g, rows, cols).LROWS >= rows /\ resizeFB(g, rows, cols).LCOLS >= cols
         /\ PlanesOf(resizeFB(g, rows, cols)) = PlanesOf(g)
<1>1. SUFFICES ASSUME ~ (rows <= g.LROWS /\ cols <= g.LCOLS),
                      NEW g2, g2 = resizeFB(g, rows, cols)
               PROVE  IsLayers(g2) /\ g2.LROWS >= rows /\ g2.LCOLS >= cols /\ PlanesOf(g2) = PlanesOf(g)
  <2>1. CASE rows <= g.LROWS /\ cols <= g.LCOLS
    <3>1. resizeFB(g, rows, cols) = g
      BY <2>1 DEF resizeFB
    <3>2. g.LROWS \in Nat /\ g.LCOLS \in Nat
      BY DEF IsLayers
    <3>3. g.LROWS >= rows /\ g.LCOLS >= cols
      BY <2>1, <3>2
    <3> QED
      BY <3>1, <3>3, Zenon
  <2>2. CASE ~ (rows <= g.LROWS /\ cols <= g.LCOLS)
    BY <1>1, <2>2
  <2> QED
    BY <2>1, <2>2
<1> DEFINE H == Larger(rows, g.LROWS)
           W == Larger(cols, g.LCOLS)
           old(l, i) == g.FB[l][(i \div W) * g.LCOLS + (i % W)]
           new(l, i) == IF i \div W < g.LROWS /\ i % W < g.LCOLS THEN old(l, i) ELSE NO_COL
<1>2. /\ g.LROWS \in Nat /\ g.LCOLS \in Nat /\ g.LROWS >= DROWS /\ g.LCOLS >= DCOLS
      /\ g.FB \in [0 .. LAYERS - 1 -> [0 .. g.LROWS * g.LCOLS - 1 -> Colors]]
  BY DEF IsLayers
<1>3. H \in Nat /\ W \in Nat /\ H >= rows /\ W >= cols /\ H >= g.LROWS /\ W >= g.LCOLS
  BY <1>2 DEF Larger
<1>4. g2 = [LROWS |-> H, LCOLS |-> W, FB |-> [l \in 0 .. LAYERS - 1 |-> [i \in 0 .. H * W - 1 |-> new(l, i)]]]
  BY <1>1 DEF resizeFB
<1> HIDE DEF H, W
<1>5. /\ g2.LROWS = H /\ g2.LCOLS = W
      /\ g2.FB = [l \in 0 .. LAYERS - 1 |-> [i \in 0 .. H * W - 1 |-> new(l, i)]]
      /\ g2 = [FB |-> g2.FB, LROWS |-> g2.LROWS, LCOLS |-> g2.LCOLS]
  <2> HIDE DEF new
  <2> QED
    BY <1>4
<1>6. ASSUME NEW l \in 0 .. LAYERS - 1, NEW i \in 0 .. H * W - 1 PROVE new(l, i) \in Colors
  <2> DEFINE y == i \div W
             x == i % W
  <2>1. y \in 0 .. H - 1 /\ x \in 0 .. W - 1
    BY <1>3, IndexIs
  <2> HIDE DEF y, x
  <2>2. CASE y < g.LROWS /\ x < g.LCOLS
    <3>1. y \in Nat /\ x \in Nat
      BY <1>3, <2>1
    <3>2. y * g.LCOLS + x \in 0 .. g.LROWS * g.LCOLS - 1
      BY <1>2, <2>2, <3>1, PlaceIs
    <3> DEFINE j == y * g.LCOLS + x
    <3> HIDE DEF j
    <3>3. j \in 0 .. g.LROWS * g.LCOLS - 1
      BY <3>2 DEF j
    <3>4. g.FB[l][j] \in Colors
      BY <1>2, <3>3, Zenon
    <3> QED
      BY <2>2, <3>4, Zenon DEF j, y, x
  <2>3. CASE ~ (y < g.LROWS /\ x < g.LCOLS)
    BY <2>3, Sizes, Zenon DEF y, x
  <2> QED
    BY <2>2, <2>3
<1>7. IsLayers(g2)
  <2>1. g2.FB \in [0 .. LAYERS - 1 -> [0 .. H * W - 1 -> Colors]]
    <3> HIDE DEF new
    <3> QED
      BY <1>5, <1>6
  <2>2. H >= DROWS /\ W >= DCOLS
    BY <1>2, <1>3, Sizes
  <2> QED
    BY <1>3, <1>5, <2>1, <2>2 DEF IsLayers
<1>8. ASSUME NEW l \in 0 .. LAYERS - 1, NEW p \in Nat \X Nat PROVE PixelOf(g2, l, p) = PixelOf(g, l, p)
  <2> DEFINE y == p[1]
             x == p[2]
             i == y * W + x
  <2>0. y \in Nat /\ x \in Nat
    OBVIOUS
  <2>1. CASE y < H /\ x < W
    <3>1. i \in 0 .. H * W - 1 /\ i \div W = y /\ i % W = x
      <4> HIDE DEF y, x
      <4> QED
        <5>1. H \in Nat /\ W \in Nat /\ y \in Nat /\ x \in Nat /\ y < H /\ x < W
          BY <1>3, <2>0, <2>1
        <5> QED
          BY <5>1, PlaceIs
    <3> HIDE DEF y, x, i
    <3>2. g2.FB[l][i] = new(l, i)
      <4> HIDE DEF new
      <4> QED
        BY <1>5, <3>1
    <3>3. new(l, i) = IF y < g.LROWS /\ x < g.LCOLS THEN g.FB[l][y * g.LCOLS + x] ELSE NO_COL
      BY <3>1, Zenon
    <3>4. PixelOf(g2, l, p) = g2.FB[l][i]
      BY <1>5, <2>1, Zenon DEF PixelOf, y, x, i
    <3>5. PixelOf(g, l, p) = IF y < g.LROWS /\ x < g.LCOLS THEN g.FB[l][y * g.LCOLS + x] ELSE NO_COL
      BY DEF PixelOf, y, x
    <3> HIDE DEF new
    <3> QED
      BY <3>2, <3>3, <3>4, <3>5, Zenon
  <2>2. CASE ~ (y < H /\ x < W)
    <3>1. ~ (y < g.LROWS /\ x < g.LCOLS)
      BY <1>2, <1>3, <2>0, <2>2
    <3>2. PixelOf(g2, l, p) = NO_COL
      BY <1>5, <2>2, Zenon DEF PixelOf
    <3>3. PixelOf(g, l, p) = NO_COL
      BY <3>1, Zenon DEF PixelOf
    <3> QED
      BY <3>2, <3>3
  <2> QED
    BY <2>1, <2>2
<1>9. PlanesOf(g2) = PlanesOf(g)
  BY <1>8, Sizes DEF PlanesOf
<1> QED
  BY <1>3, <1>5, <1>7, <1>9

\* Colors that go to an index of the layers.
Colored(picture) == \A p \in DOMAIN picture : picture[p] \in Colors
Placing(g, picture, i) == {p \in DOMAIN picture : p[1] * g.LCOLS + p[2] = i}
PutPixel(g, layer, picture, i) ==
  IF Placing(g, picture, i) = {} THEN g.FB[layer][i] ELSE picture[CHOOSE p \in Placing(g, picture, i) : TRUE]

\* Wherever a picture goes, the layers keep their size and hold colors.
LEMMA PutLayers ==
  ASSUME NEW g, IsLayers(g), NEW layer \in 0 .. LAYERS - 1, NEW picture, Colored(picture)
  PROVE  /\ IsLayers(Put(g, layer, picture))
         /\ Put(g, layer, picture).LROWS = g.LROWS /\ Put(g, layer, picture).LCOLS = g.LCOLS
         /\ Put(g, layer, picture).FB =
              [g.FB EXCEPT ![layer] = [i \in 0 .. g.LROWS * g.LCOLS - 1 |-> PutPixel(g, layer, picture, i)]]
<1> DEFINE new(i) == PutPixel(g, layer, picture, i)
           N == g.LROWS * g.LCOLS
           g2 == Put(g, layer, picture)
<1>1. /\ g.LROWS \in Nat /\ g.LCOLS \in Nat /\ g.LROWS >= DROWS /\ g.LCOLS >= DCOLS
      /\ g.FB \in [0 .. LAYERS - 1 -> [0 .. N - 1 -> Colors]]
      /\ g = [FB |-> g.FB, LROWS |-> g.LROWS, LCOLS |-> g.LCOLS]
  BY DEF IsLayers
<1>2. g2 = [g EXCEPT !.FB = [g.FB EXCEPT ![layer] = [i \in DOMAIN g.FB[layer] |-> new(i)]]]
  BY DEF Put, PutPixel, Placing
<1>3. DOMAIN g.FB[layer] = 0 .. N - 1
  BY <1>1
<1> HIDE DEF N, g2
<1>4. /\ g2 = [FB |-> g2.FB, LROWS |-> g2.LROWS, LCOLS |-> g2.LCOLS] /\ g2.LROWS = g.LROWS /\ g2.LCOLS = g.LCOLS
      /\ g2.FB = [g.FB EXCEPT ![layer] = [i \in 0 .. N - 1 |-> new(i)]]
  <2> HIDE DEF new
  <2> QED
    BY <1>1, <1>2, <1>3
<1>5. ASSUME NEW i \in 0 .. N - 1 PROVE new(i) \in Colors
  <2>1. g.FB[layer][i] \in Colors
    BY <1>1
  <2>2. CASE Placing(g, picture, i) = {}
    BY <2>1, <2>2, Zenon DEF PutPixel
  <2>3. CASE Placing(g, picture, i) # {}
    <3> DEFINE q == CHOOSE p \in Placing(g, picture, i) : TRUE
    <3>1. q \in DOMAIN picture
      BY <2>3 DEF Placing
    <3>2. new(i) = picture[q]
      BY <2>3, Zenon DEF PutPixel
    <3> HIDE DEF q, new
    <3> QED
      BY <3>1, <3>2, Zenon DEF Colored
  <2> QED
    BY <2>2, <2>3
<1>6. IsLayers(g2)
  <2>1. g2.FB \in [0 .. LAYERS - 1 -> [0 .. N - 1 -> Colors]]
    <3> HIDE DEF new
    <3> QED
      BY <1>1, <1>4, <1>5
  <2> QED
    BY <1>1, <1>4, <2>1 DEF IsLayers, N
<1> QED
  BY <1>4, <1>6 DEF g2, N

\* A picture is painted on its layer.
LEMMA PutIs ==
  ASSUME NEW g, IsLayers(g), NEW layer \in 0 .. LAYERS - 1,
         NEW row \in Nat, NEW col \in Nat, NEW height \in Int, NEW width \in Int,
         row + height <= g.LROWS, col + width <= g.LCOLS,
         NEW picture, InArea(picture, row, col, height, width)
  PROVE  /\ IsLayers(Put(g, layer, picture))
         /\ PlanesOf(Put(g, layer, picture)) =
              [PlanesOf(g) EXCEPT ![layer] =
                 [p \in Extent |-> IF p \in DOMAIN picture THEN picture[p] ELSE PlanesOf(g)[layer][p]]]
<1> DEFINE new(i) == PutPixel(g, layer, picture, i)
           N == g.LROWS * g.LCOLS
           g2 == Put(g, layer, picture)
<1>1. /\ g.LROWS \in Nat /\ g.LCOLS \in Nat /\ g.LROWS >= DROWS /\ g.LCOLS >= DCOLS
      /\ g.FB \in [0 .. LAYERS - 1 -> [0 .. N - 1 -> Colors]]
  BY DEF IsLayers
<1>2. Colored(picture)
  BY DEF InArea, Colored
<1>4. /\ IsLayers(g2) /\ g2.LROWS = g.LROWS /\ g2.LCOLS = g.LCOLS
      /\ g2.FB = [g.FB EXCEPT ![layer] = [i \in 0 .. N - 1 |-> new(i)]]
  BY <1>2, PutLayers
<1> HIDE DEF N, g2
<1>6. IsLayers(g2)
  BY <1>4
<1>i. ASSUME NEW q \in DOMAIN picture
      PROVE  /\ q[1] \in Nat /\ q[2] \in Nat /\ q = <<q[1], q[2]>> /\ q[1] < g.LROWS /\ q[2] < g.LCOLS
             /\ (q[1] * g.LCOLS + q[2]) \div g.LCOLS = q[1] /\ (q[1] * g.LCOLS + q[2]) % g.LCOLS = q[2]
  <2>1. q \in (row .. row + height - 1) \X (col .. col + width - 1)
    BY DEF InArea
  <2> DEFINE y == q[1]
             x == q[2]
  <2>2. q = <<y, x>> /\ y \in row .. row + height - 1 /\ x \in col .. col + width - 1
    BY <2>1
  <2> HIDE DEF y, x
  <2>3. y \in Nat /\ x \in Nat /\ y < g.LROWS /\ x < g.LCOLS
    BY <1>1, <2>2
  <2>4. (y * g.LCOLS + x) \div g.LCOLS = y /\ (y * g.LCOLS + x) % g.LCOLS = x
    <3> DEFINE H == g.LROWS
               W == g.LCOLS
    <3>1. H \in Nat /\ W \in Nat /\ y \in Nat /\ x \in Nat /\ y < H /\ x < W
      BY <1>1, <2>3
    <3> HIDE DEF H, W
    <3>2. (y * W + x) \div W = y /\ (y * W + x) % W = x
      BY <3>1, PlaceIs
    <3> QED
      BY <3>2 DEF W
  <2> QED
    BY <2>2, <2>3, <2>4 DEF y, x
<1>7. ASSUME NEW l \in 0 .. LAYERS - 1, NEW p \in Nat \X Nat
      PROVE  PixelOf(g2, l, p) = IF l = layer /\ p \in DOMAIN picture THEN picture[p] ELSE PixelOf(g, l, p)
  <2> DEFINE y == p[1]
             x == p[2]
             i == y * g.LCOLS + x
  <2>0. y \in Nat /\ x \in Nat /\ p = <<y, x>>
    OBVIOUS
  <2>1. p \in DOMAIN picture => y < g.LROWS /\ x < g.LCOLS
    BY <1>i
  <2>2. CASE y < g.LROWS /\ x < g.LCOLS
    <3>1. i \in 0 .. N - 1 /\ i \div g.LCOLS = y /\ i % g.LCOLS = x
      <4> DEFINE H == g.LROWS
                 W == g.LCOLS
      <4> HIDE DEF y, x
      <4>1. H \in Nat /\ W \in Nat /\ y \in Nat /\ x \in Nat /\ y < H /\ x < W
        BY <1>1, <2>0, <2>2
      <4> HIDE DEF H, W
      <4>2. y * W + x \in 0 .. H * W - 1 /\ (y * W + x) \div W = y /\ (y * W + x) % W = x
        <5> HIDE DEF i, N
        <5>1. y * W + x \in 0 .. H * W - 1
          BY <4>1, PlaceIs
        <5>2. (y * W + x) \div W = y /\ (y * W + x) % W = x
          BY <4>1, PlaceIs
        <5> QED
          BY <5>1, <5>2
      <4> QED
        BY <4>2 DEF H, W, N
    <3>2. \A q \in Placing(g, picture, i) : q = p
      <4> SUFFICES ASSUME NEW q \in Placing(g, picture, i) PROVE q = p
        OBVIOUS
      <4>1. q \in DOMAIN picture /\ q[1] * g.LCOLS + q[2] = i
        BY DEF Placing
      <4>2. q = <<q[1], q[2]>> /\ i \div g.LCOLS = q[1] /\ i % g.LCOLS = q[2]
        BY <1>i, <4>1, Zenon
      <4> HIDE DEF y, x, i
      <4> QED
        BY <2>0, <3>1, <4>2, Zenon
    <3>a. p \in DOMAIN picture => p \in Placing(g, picture, i)
      BY DEF Placing
    <3>3. PixelOf(g2, l, p) = g2.FB[l][i] /\ PixelOf(g, l, p) = g.FB[l][i]
      BY <1>4, <2>2, Zenon DEF PixelOf
    <3> HIDE DEF y, x, i
    <3>4. g2.FB[l][i] = IF l = layer THEN new(i) ELSE g.FB[l][i]
      <4> HIDE DEF new
      <4>1. DOMAIN g.FB = 0 .. LAYERS - 1
        BY <1>1
      <4> DEFINE F == [j \in 0 .. N - 1 |-> new(j)]
      <4>2. F[i] = new(i)
        BY <3>1
      <4>3. g2.FB = [g.FB EXCEPT ![layer] = F]
        BY <1>4
      <4> HIDE DEF F
      <4>4. g2.FB[l] = IF l = layer THEN F ELSE g.FB[l]
        BY <4>1, <4>3
      <4> QED
        BY <4>2, <4>4
    <3>5. new(i) = IF p \in DOMAIN picture THEN picture[p] ELSE g.FB[layer][i]
      <4>1. CASE p \in DOMAIN picture
        <5>1. (CHOOSE q \in Placing(g, picture, i) : TRUE) = p
          BY <3>2, <3>a, <4>1
        <5>2. Placing(g, picture, i) # {}
          BY <3>a, <4>1
        <5> QED
          BY <4>1, <5>1, <5>2, Zenon DEF PutPixel
      <4>2. CASE p \notin DOMAIN picture
        <5>1. \A q \in Placing(g, picture, i) : q \in DOMAIN picture
          BY DEF Placing
        <5>2. Placing(g, picture, i) = {}
          BY <3>2, <4>2, <5>1
        <5> QED
          BY <4>2, <5>2, Zenon DEF PutPixel
      <4> QED
        BY <4>1, <4>2
    <3> HIDE DEF new
    <3> QED
      BY <3>3, <3>4, <3>5, Zenon
  <2>3. CASE ~ (y < g.LROWS /\ x < g.LCOLS)
    <3>1. PixelOf(g2, l, p) = NO_COL /\ PixelOf(g, l, p) = NO_COL
      BY <1>4, <2>3, Zenon DEF PixelOf
    <3> QED
      BY <2>1, <2>3, <3>1
  <2> QED
    BY <2>2, <2>3
<1>8. PlanesOf(g2) = [PlanesOf(g) EXCEPT ![layer] =
                        [p \in Extent |-> IF p \in DOMAIN picture THEN picture[p] ELSE PlanesOf(g)[layer][p]]]
  <2> DEFINE P == PlanesOf(g)
             Q == [p \in Extent |-> IF p \in DOMAIN picture THEN picture[p] ELSE P[layer][p]]
  <2>1. P = [l \in 0 .. LAYERS - 1 |-> [p \in Extent |-> PixelOf(g, l, p)]]
    BY DEF PlanesOf
  <2>2. PlanesOf(g2) = [l \in 0 .. LAYERS - 1 |-> [p \in Extent |-> PixelOf(g2, l, p)]]
    BY DEF PlanesOf
  <2>3. ASSUME NEW l \in 0 .. LAYERS - 1
        PROVE  [p \in Extent |-> PixelOf(g2, l, p)] = IF l = layer THEN Q ELSE P[l]
    <3>1. \A p \in Extent : PixelOf(g2, l, p) = IF l = layer /\ p \in DOMAIN picture THEN picture[p] ELSE P[l][p]
      <4> SUFFICES ASSUME NEW p \in Extent
                   PROVE  PixelOf(g2, l, p) = IF l = layer /\ p \in DOMAIN picture THEN picture[p] ELSE P[l][p]
        OBVIOUS
      <4>1. p \in Nat \X Nat /\ P[l][p] = PixelOf(g, l, p)
        BY <2>1, Sizes
      <4> HIDE DEF P
      <4> QED
        BY <1>7, <4>1
    <3>2. P[l] = [p \in Extent |-> P[l][p]]
      BY <2>1
    <3> HIDE DEF P
    <3> QED
      BY <3>1, <3>2
  <2> HIDE DEF P, Q
  <2>4. PlanesOf(g2) = [P EXCEPT ![layer] = Q]
    BY <2>1, <2>2, <2>3
  <2> QED
    BY <2>4 DEF P, Q
<1> QED
  BY <1>6, <1>8 DEF g2

\* The part of an area that lies on the screen.
LEMMA WindowIs ==
  ASSUME NEW pos \in Int, NEW size \in Int, NEW max \in Nat
  PROVE  /\ window(pos, size, max).pos \in Nat /\ window(pos, size, max).size \in Int
         /\ window(pos, size, max).pos + window(pos, size, max).size <= max
         /\ \A k \in 0 .. max - 1 :
              k \in window(pos, size, max).pos .. window(pos, size, max).pos + window(pos, size, max).size - 1
                <=> k \in pos .. pos + size - 1
<1>1. CASE pos > max \/ pos + size < 0 \/ size < 1
  <2>1. window(pos, size, max).pos = 0 /\ window(pos, size, max).size = 0
    BY <1>1 DEF window
  <2> QED
    BY <1>1, <2>1
<1>2. CASE ~ (pos > max \/ pos + size < 0 \/ size < 1)
  <2>1. /\ window(pos, size, max).pos = Larger(pos, 0)
        /\ window(pos, size, max).size = Smaller(pos + size, max) - Larger(pos, 0)
    BY <1>2 DEF window
  <2> QED
    BY <1>2, <2>1 DEF Smaller, Larger
<1> QED
  BY <1>1, <1>2

\* Layers and display.
IsDisplay(d) ==
  d = [g |-> d.g, hw |-> d.hw] /\ IsLayers(d.g) /\ IsHw(d.hw) /\ Synced(d.hw)

OnScreen == {q \in Extent : q[1] < DROWS /\ q[2] < DCOLS}

\* The light of the layers goes to the screen, in the area.
Lights(d, d2, row, col, height, width) ==
  /\ IsDisplay(d2) /\ d2.g = d.g
  /\ \A p \in OnScreen :
       Lit(d2.hw.ram, p[1], p[2]) =
         IF p[1] \in row .. row + height - 1 /\ p[2] \in col .. col + width - 1
         THEN DarkOf(PlanesOf(d.g), p) ELSE Lit(d.hw.ram, p[1], p[2])

LEMMA BlitLights ==
  ASSUME Regular, NEW d, IsDisplay(d), NEW row \in Int, NEW col \in Int, NEW height \in Int, NEW width \in Int
  PROVE  Lights(d, blit(d, row, col, height, width), row, col, height, width)
<1> DEFINE rs == window(row, height, DROWS)
           cs == window(col, width, DCOLS)
           Black == {p \in (rs.pos .. rs.pos + rs.size - 1) \X (cs.pos .. cs.pos + cs.size - 1) :
                       black(d.g, p[1], p[2])}
           d2 == blit(d, row, col, height, width)
           h2 == drv_T6_blit(d.hw, Black, rs.pos, cs.pos, rs.size, cs.size)
<1>1. d2 = IF rs.size > 0 /\ cs.size > 0 THEN [d EXCEPT !.hw = h2] ELSE d
  BY DEF blit
<1>2. /\ rs.pos \in Nat /\ rs.size \in Int /\ rs.pos + rs.size <= DROWS
      /\ \A k \in 0 .. DROWS - 1 : k \in rs.pos .. rs.pos + rs.size - 1 <=> k \in row .. row + height - 1
  <2>1. DROWS \in Nat
    BY Sizes
  <2> QED
    BY <2>1, WindowIs, Zenon
<1>3. /\ cs.pos \in Nat /\ cs.size \in Int /\ cs.pos + cs.size <= DCOLS
      /\ \A k \in 0 .. DCOLS - 1 : k \in cs.pos .. cs.pos + cs.size - 1 <=> k \in col .. col + width - 1
  <2>1. DCOLS \in Nat
    BY Sizes
  <2> QED
    BY <2>1, WindowIs, Zenon
<1>4. d = [g |-> d.g, hw |-> d.hw] /\ IsLayers(d.g) /\ IsHw(d.hw) /\ Synced(d.hw)
  BY DEF IsDisplay
<1> HIDE DEF rs, cs, d2
<1>5. \A p \in OnScreen : /\ p \in Extent /\ p = <<p[1], p[2]>> /\ p[1] < DROWS /\ p[2] < DCOLS
                          /\ p[1] \in 0 .. DROWS - 1 /\ p[2] \in 0 .. DCOLS - 1
  BY Sizes DEF OnScreen
<1>s. SUFFICES Lights(d, d2, row, col, height, width)
  BY Zenon DEF d2
<1>6. CASE rs.size > 0 /\ cs.size > 0
  <2>1. Redrawn(d.hw, h2, Black, rs.pos, cs.pos, rs.size, cs.size)
    <3>1. rs.size \in Nat /\ cs.size \in Nat
      BY <1>2, <1>3, <1>6
    <3> HIDE DEF Black
    <3> QED
      BY <1>2, <1>3, <1>4, <3>1, BlitIsLit
  <2> HIDE DEF h2
  <2>2. d2 = [g |-> d.g, hw |-> h2]
    <3>1. d2 = [d EXCEPT !.hw = h2]
      BY <1>1, <1>6
    <3> QED
      BY <1>4, <3>1
  <2>3. d2.g = d.g /\ d2.hw = h2 /\ d2 = [g |-> d2.g, hw |-> d2.hw]
    BY <2>2
  <2>4. IsDisplay(d2)
    BY <1>4, <2>1, <2>3, Zenon DEF IsDisplay, Redrawn
  <2>5. ASSUME NEW p \in OnScreen
        PROVE  Lit(d2.hw.ram, p[1], p[2]) =
                 IF p[1] \in row .. row + height - 1 /\ p[2] \in col .. col + width - 1
                 THEN DarkOf(PlanesOf(d.g), p) ELSE Lit(d.hw.ram, p[1], p[2])
    <3>0. /\ p \in Extent /\ p = <<p[1], p[2]>> /\ p[1] < DROWS /\ p[2] < DCOLS
          /\ p[1] \in 0 .. DROWS - 1 /\ p[2] \in 0 .. DCOLS - 1
      BY <1>5
    <3> DEFINE in == p[1] \in rs.pos .. rs.pos + rs.size - 1 /\ p[2] \in cs.pos .. cs.pos + cs.size - 1
    <3>1. Lit(h2.ram, p[1], p[2]) = IF in THEN <<p[1], p[2]>> \in Black ELSE Lit(d.hw.ram, p[1], p[2])
      <4> HIDE DEF Black
      <4> QED
        BY <2>1, <3>0, Zenon DEF Redrawn
    <3>2. in => (<<p[1], p[2]>> \in Black <=> black(d.g, p[1], p[2]))
      BY Zenon
    <3>3. black(d.g, p[1], p[2]) = DarkOf(PlanesOf(d.g), p)
      BY <1>4, <3>0, BlackIs
    <3>4. DarkOf(PlanesOf(d.g), p) \in BOOLEAN
      BY DEF DarkOf
    <3>5. in <=> p[1] \in row .. row + height - 1 /\ p[2] \in col .. col + width - 1
      BY <1>2, <1>3, <3>0, Zenon
    <3> HIDE DEF in, Black
    <3>6. (<<p[1], p[2]>> \in Black) \in BOOLEAN
      OBVIOUS
    <3>7. in => (<<p[1], p[2]>> \in Black) = DarkOf(PlanesOf(d.g), p)
      BY <3>2, <3>3, <3>4, <3>6
    <3> QED
      BY <2>3, <3>1, <3>5, <3>7, Zenon
  <2> QED
    BY <2>3, <2>4, <2>5, Zenon DEF Lights
<1>7. CASE ~ (rs.size > 0 /\ cs.size > 0)
  <2>1. d2 = d
    BY <1>1, <1>7
  <2>2. (\A k : k \notin rs.pos .. rs.pos + rs.size - 1) \/ \A k : k \notin cs.pos .. cs.pos + cs.size - 1
    BY <1>2, <1>3, <1>7
  <2>3. \A p \in OnScreen : ~ (p[1] \in row .. row + height - 1 /\ p[2] \in col .. col + width - 1)
    BY <1>2, <1>3, <1>5, <2>2, Zenon
  <2> QED
    BY <2>1, <2>3, Zenon DEF Lights
<1> QED
  BY <1>6, <1>7

\* A picture is painted, and the screen right where it is.
Draws(d, d2, layer, picture) ==
  /\ IsDisplay(d2)
  /\ PlanesOf(d2.g) = [PlanesOf(d.g) EXCEPT ![layer] =
                         [p \in Extent |-> IF p \in DOMAIN picture THEN picture[p] ELSE PlanesOf(d.g)[layer][p]]]
  /\ \A p \in OnScreen : \/ Lit(d2.hw.ram, p[1], p[2]) = DarkOf(PlanesOf(d2.g), p)
                         \/ p \notin DOMAIN picture /\ Lit(d2.hw.ram, p[1], p[2]) = Lit(d.hw.ram, p[1], p[2])

LEMMA DrawnDraws ==
  ASSUME Regular, NEW d, IsDisplay(d), NEW layer \in 0 .. LAYERS - 1, NEW picture,
         NEW row \in Nat, NEW col \in Nat, NEW height \in Nat, NEW width \in Nat,
         InArea(picture, row, col, height, width)
  PROVE  Draws(d, Drawn(d, layer, picture, row, col, height, width), layer, picture)
<1> DEFINE g1 == resizeFB(d.g, row + height, col + width)
           g2 == Put(g1, layer, picture)
           e == [d EXCEPT !.g = g2]
           d2 == blit(e, row, col, height, width)
<1>0. Drawn(d, layer, picture, row, col, height, width) = d2
  BY DEF Drawn
<1>1. d = [g |-> d.g, hw |-> d.hw] /\ IsLayers(d.g) /\ IsHw(d.hw) /\ Synced(d.hw)
  BY DEF IsDisplay
<1>2. IsLayers(g1) /\ row + height <= g1.LROWS /\ col + width <= g1.LCOLS /\ PlanesOf(g1) = PlanesOf(d.g)
  <2>0. row + height \in Int /\ col + width \in Int
    OBVIOUS
  <2>1. IsLayers(g1) /\ g1.LROWS >= row + height /\ g1.LCOLS >= col + width /\ PlanesOf(g1) = PlanesOf(d.g)
    BY <1>1, <2>0, ResizeIs, Zenon
  <2>2. g1.LROWS \in Nat /\ g1.LCOLS \in Nat
    BY <2>1 DEF IsLayers
  <2> HIDE DEF g1
  <2> QED
    BY <2>1, <2>2
<1> HIDE DEF g1
<1>3. /\ IsLayers(g2)
      /\ PlanesOf(g2) = [PlanesOf(g1) EXCEPT ![layer] =
            [p \in Extent |-> IF p \in DOMAIN picture THEN picture[p] ELSE PlanesOf(g1)[layer][p]]]
  BY <1>2, PutIs
<1> HIDE DEF g2
<1>4. e = [g |-> g2, hw |-> d.hw] /\ e.g = g2 /\ e.hw = d.hw /\ e = [g |-> e.g, hw |-> e.hw]
  BY <1>1
<1> HIDE DEF e
<1>5. IsDisplay(e)
  BY <1>1, <1>3, <1>4, Zenon DEF IsDisplay
<1>6. Lights(e, d2, row, col, height, width)
  BY <1>5, BlitLights
<1> HIDE DEF d2
<1>7. IsDisplay(d2) /\ d2.g = g2
  BY <1>4, <1>6, Zenon DEF Lights
<1>8. ASSUME NEW p \in OnScreen
      PROVE  \/ Lit(d2.hw.ram, p[1], p[2]) = DarkOf(PlanesOf(d2.g), p)
             \/ p \notin DOMAIN picture /\ Lit(d2.hw.ram, p[1], p[2]) = Lit(d.hw.ram, p[1], p[2])
  <2>1. Lit(d2.hw.ram, p[1], p[2]) =
          IF p[1] \in row .. row + height - 1 /\ p[2] \in col .. col + width - 1
          THEN DarkOf(PlanesOf(e.g), p) ELSE Lit(e.hw.ram, p[1], p[2])
    BY <1>6, Zenon DEF Lights
  <2>2. p \in DOMAIN picture => p[1] \in row .. row + height - 1 /\ p[2] \in col .. col + width - 1
    BY DEF InArea
  <2> QED
    BY <1>4, <1>7, <2>1, <2>2, Zenon
<1>9. PlanesOf(d2.g) = [PlanesOf(d.g) EXCEPT ![layer] =
                          [p \in Extent |-> IF p \in DOMAIN picture THEN picture[p] ELSE PlanesOf(d.g)[layer][p]]]
  BY <1>2, <1>3, <1>7, Zenon
<1> QED
  BY <1>0, <1>7, <1>8, <1>9, Zenon DEF Draws

-----------------------------------------------------------------------------
(* Pictures *)

\* The lines of a text that are seen: how many before a character.
Vis(x, i) == {k \in 1 .. i - 1 : x.txt[k] # BEL}
Before(x, i) == Cardinality(Vis(x, i))

LEMMA BeforeIs ==
  ASSUME NEW x, NEW n \in Nat \ {0}
  PROVE  /\ Before(x, n) \in 0 .. n - 1
         /\ Before(x, n + 1) = IF x.txt[n] = BEL THEN Before(x, n) ELSE Before(x, n) + 1
<1>1. IsFiniteSet(Vis(x, n)) /\ Before(x, n) <= n - 1
  <2>1. IsFiniteSet(1 .. n - 1) /\ Cardinality(1 .. n - 1) = n - 1
    BY FS_Interval
  <2>2. Vis(x, n) \in SUBSET (1 .. n - 1)
    BY DEF Vis
  <2> QED
    BY <2>1, <2>2, FS_Subset DEF Before
<1>2. Before(x, n) \in Nat
  BY <1>1, FS_CardinalityType DEF Before
<1>3. CASE x.txt[n] = BEL
  <2>1. Vis(x, n + 1) = Vis(x, n)
    BY <1>3 DEF Vis
  <2> QED
    BY <1>1, <1>2, <1>3, <2>1 DEF Before
<1>4. CASE x.txt[n] # BEL
  <2>1. Vis(x, n + 1) = Vis(x, n) \cup {n} /\ n \notin Vis(x, n)
    BY <1>4 DEF Vis
  <2>2. Cardinality(Vis(x, n) \cup {n}) = Cardinality(Vis(x, n)) + 1
    BY <1>1, <2>1, FS_AddElement
  <2>3. Before(x, n + 1) = Cardinality(Vis(x, n) \cup {n})
    BY <2>1, Zenon DEF Before
  <2> QED
    BY <1>1, <1>2, <1>4, <2>2, <2>3 DEF Before
<1> QED
  BY <1>3, <1>4

\* Of the characters that are seen each has its own number.
LEMMA NumberIs ==
  ASSUME NEW x, NEW i \in Nat \ {0}, NEW j \in Nat \ {0}, i < j, x.txt[i] # BEL
  PROVE  Before(x, i) < Before(x, j)
<1>1. IsFiniteSet(Vis(x, j)) /\ IsFiniteSet(Vis(x, i))
  <2>1. IsFiniteSet(1 .. j - 1) /\ IsFiniteSet(1 .. i - 1)
    BY FS_Interval
  <2>2. Vis(x, j) \in SUBSET (1 .. j - 1) /\ Vis(x, i) \in SUBSET (1 .. i - 1)
    BY DEF Vis
  <2> QED
    BY <2>1, <2>2, FS_Subset
<1>2. Vis(x, i) \cup {i} \in SUBSET Vis(x, j) /\ i \notin Vis(x, i)
  BY DEF Vis
<1>3. Cardinality(Vis(x, i) \cup {i}) = Cardinality(Vis(x, i)) + 1
  BY <1>1, <1>2, FS_AddElement
<1>4. Cardinality(Vis(x, i) \cup {i}) <= Cardinality(Vis(x, j))
  BY <1>1, <1>2, FS_Subset
<1>5. Before(x, i) \in Int /\ Before(x, j) \in Int
  BY <1>1, FS_CardinalityType DEF Before
<1> QED
  BY <1>3, <1>4, <1>5 DEF Before

TextBold(x, i) == x.bold \/ (i - 1 - Before(x, i)) % 2 = 1

\* The pixel of a text at a place.
TextPixel(w, x, p) ==
  LET i == CHOOSE i \in {k \in DOMAIN x.txt : x.txt[k] # BEL} : Before(x, i) = (p[2] - XRES * w.col) \div XRES
  IN IF <<p[1] - YRES * w.row, (p[2] - XRES * w.col) % XRES>> \in Font[<<x.txt[i], TextBold(x, i)>>] THEN Fg(w) ELSE Bg(w)

\* The picture of m characters that are seen.
TextAt(w, x, m) ==
  [p \in (YRES * w.row .. YRES * w.row + YRES - 1) \X (XRES * w.col .. XRES * w.col + XRES * m - 1) |-> TextPixel(w, x, p)]

\* The function of the characters that render takes the last value of.
IsRender(f, w, x, N) ==
  f = [k \in 0 .. N |-> IF k = 0 THEN [picture |-> <<>>, col |-> XRES * w.col, bold |-> FALSE] ELSE RenderChar(w, x.bold, f[k - 1], x.txt[k])]

LEMMA RendersAre ==
  ASSUME NEW w, NEW x, NEW N \in Nat
  PROVE  IsRender(CHOOSE f : IsRender(f, w, x, N), w, x, N)
<1> DEFINE T == {n \in Nat : \E f : IsRender(f, w, x, n)}
<1>1. 0 \in T
  <2> DEFINE f == [n \in 0 .. 0 |-> [picture |-> <<>>, col |-> XRES * w.col, bold |-> FALSE]]
  <2>1. IsRender(f, w, x, 0)
    BY DEF IsRender
  <2> QED
    BY <2>1
<1>2. ASSUME NEW n \in Nat, n \in T PROVE n + 1 \in T
  <2>1. PICK f : IsRender(f, w, x, n)
    BY <1>2
  <2> DEFINE last == RenderChar(w, x.bold, f[n], x.txt[(n + 1)])
             g == [k \in 0 .. n + 1 |-> IF k = n + 1 THEN last ELSE f[k]]
  <2>2. \A k \in 0 .. n : f[k] = IF k = 0 THEN [picture |-> <<>>, col |-> XRES * w.col, bold |-> FALSE] ELSE RenderChar(w, x.bold, f[k - 1], x.txt[k])
    BY <2>1, Zenon DEF IsRender
  <2>3. ASSUME NEW k \in 0 .. n + 1 PROVE g[k] = IF k = 0 THEN [picture |-> <<>>, col |-> XRES * w.col, bold |-> FALSE] ELSE RenderChar(w, x.bold, g[k - 1], x.txt[k])
    <3>1. CASE k = n + 1
      <4>1. g[k] = last /\ k # 0 /\ k - 1 = n /\ k - 1 \in 0 .. n + 1 /\ k - 1 # n + 1
        <5> HIDE DEF last
        <5> QED
          BY <3>1
      <4>2. g[k - 1] = f[n]
        <5> HIDE DEF last
        <5> QED
          BY <4>1
      <4>3. last = RenderChar(w, x.bold, f[n], x.txt[k])
        BY <3>1, Zenon
      <4> HIDE DEF g, last
      <4> QED
        BY <4>1, <4>2, <4>3, Zenon
    <3>2. CASE k # n + 1
      <4>1. k \in 0 .. n /\ (k # 0 => k - 1 \in 0 .. n + 1 /\ k - 1 # n + 1)
        BY <3>2
      <4>2. g[k] = f[k] /\ (k # 0 => g[k - 1] = f[k - 1])
        <5> HIDE DEF last
        <5> QED
          BY <3>2, <4>1, Zenon
      <4> HIDE DEF g
      <4> QED
        BY <2>2, <4>1, <4>2, Zenon
    <3> QED
      BY <3>1, <3>2
  <2>4. g = [k \in 0 .. n + 1 |-> g[k]]
    <3> HIDE DEF last
    <3> QED
      OBVIOUS
  <2> HIDE DEF g
  <2>5. g = [k \in 0 .. n + 1 |-> IF k = 0 THEN [picture |-> <<>>, col |-> XRES * w.col, bold |-> FALSE] ELSE RenderChar(w, x.bold, g[k - 1], x.txt[k])]
    BY <2>3, <2>4, Zenon
  <2>6. IsRender(g, w, x, n + 1)
    BY <2>5, Zenon DEF IsRender
  <2> QED
    BY <2>6
<1>3. N \in T
  <2> HIDE DEF T
  <2>1. \A n \in 0 .. N - 1 : n \in T => n + 1 \in T
    BY <1>2
  <2>2. \A n \in 0 .. N : n \in T
    BY <1>1, <2>1, Induction
  <2> QED
    BY <2>2
<1> QED
  BY <1>3

IsText(x) == x.txt \in Seq(Range(x.txt)) /\ x.bold \in BOOLEAN

\* What has become of n characters, of which m are seen.
IsRendered(r, w, x, n, m) ==
  /\ r.picture = TextAt(w, x, m) /\ r.col = XRES * w.col + XRES * m
  /\ r.bold = ((n - m) % 2 = 1)
  /\ r = [picture |-> r.picture, col |-> r.col, bold |-> r.bold]

\* One character more.
LEMMA CharIs ==
  ASSUME NEW w, w.row \in Nat, w.col \in Nat, NEW x, IsText(x), NEW n \in 1 .. Len(x.txt), NEW r,
         IsRendered(r, w, x, n - 1, Before(x, n))
  PROVE  IsRendered(RenderChar(w, x.bold, r, x.txt[n]), w, x, n, Before(x, n + 1))
<1>h. /\ r.picture = TextAt(w, x, Before(x, n)) /\ r.col = XRES * w.col + XRES * Before(x, n)
      /\ r.bold = ((n - 1 - Before(x, n)) % 2 = 1)
      /\ r = [picture |-> r.picture, col |-> r.col, bold |-> r.bold]
  BY DEF IsRendered
<1>s. SUFFICES ASSUME NEW s, s = RenderChar(w, x.bold, r, x.txt[n])
               PROVE  /\ s.picture = TextAt(w, x, Before(x, n + 1)) /\ s.col = XRES * w.col + XRES * Before(x, n + 1)
                      /\ s.bold = ((n - Before(x, n + 1)) % 2 = 1)
                      /\ s = [picture |-> s.picture, col |-> s.col, bold |-> s.bold]
  BY DEF IsRendered
<1> DEFINE B == Before(x, n)
           chr == x.txt[n]
           top == YRES * w.row
           left == XRES * w.col
           Dot(p) == IF <<p[1] - top, p[2] - r.col>> \in Font[<<chr, r.bold \/ x.bold>>] THEN Fg(w) ELSE Bg(w)
           area == (top .. top + YRES - 1) \X (r.col .. r.col + XRES - 1)
           cell == [p \in area |-> Dot(p)]
           joined == [p \in DOMAIN cell \union DOMAIN r.picture |-> IF p \in DOMAIN cell THEN cell[p] ELSE r.picture[p]]
<1>1. n \in Nat \ {0} /\ Len(x.txt) \in Nat /\ DOMAIN x.txt = 1 .. Len(x.txt) /\ x.bold \in BOOLEAN
  BY DEF IsText
<1>2. B \in 0 .. n - 1 /\ Before(x, n + 1) = IF chr = BEL THEN B ELSE B + 1
  BY <1>1, BeforeIs
<1>3. s = IF chr = BEL THEN [r EXCEPT !.bold = ~ r.bold]
          ELSE [r EXCEPT !.picture = joined, !.col = r.col + XRES]
  BY <1>s DEF RenderChar, Cells
<1>4. top \in Nat /\ left \in Nat /\ XRES \in Nat \ {0} /\ YRES \in Nat \ {0}
  BY Sizes
<1>5. CASE chr = BEL
  <2>1. s.picture = r.picture /\ s.col = r.col /\ s.bold = ~ r.bold
        /\ s = [picture |-> s.picture, col |-> s.col, bold |-> s.bold]
    <3> HIDE DEF cell, joined
    <3> QED
      BY <1>h, <1>3, <1>5
  <2>2. (~ ((n - 1 - B) % 2 = 1)) = ((n - B) % 2 = 1)
    <3>1. n - B = (n - 1 - B) + 1 /\ n - 1 - B \in Nat
      BY <1>2
    <3> DEFINE k == n - 1 - B
    <3>2. k \in Nat /\ n - B = k + 1
      BY <3>1
    <3> HIDE DEF k
    <3>3. (~ (k % 2 = 1)) <=> ((k + 1) % 2 = 1)
      BY <3>2
    <3> QED
      BY <3>2, <3>3, Zenon DEF k
  <2>3. s.bold = (~ ((n - 1 - B) % 2 = 1))
    BY <1>h, <2>1, Zenon
  <2> QED
    BY <1>h, <1>2, <1>5, <2>1, <2>2, <2>3, Zenon
<1>6. CASE chr # BEL
  <2>0. Before(x, n + 1) = B + 1
    BY <1>2, <1>6
  <2>1. s.picture = joined /\ s.col = r.col + XRES /\ s.bold = r.bold
        /\ s = [picture |-> s.picture, col |-> s.col, bold |-> s.bold]
    <3> DEFINE P == joined
    <3> HIDE DEF cell, joined, P
    <3>1. s = [r EXCEPT !.picture = P, !.col = r.col + XRES]
      BY <1>3, <1>6 DEF P
    <3>2. s.picture = P /\ s.col = r.col + XRES /\ s.bold = r.bold
          /\ s = [picture |-> s.picture, col |-> s.col, bold |-> s.bold]
      BY <1>h, <3>1
    <3> QED
      BY <3>2 DEF P
  <2> DEFINE XB == XRES * B
  <2>2. /\ XB \in Nat /\ XRES * (B + 1) = XB + XRES /\ r.col = left + XB
    <3>1. B \in Nat /\ r.col = left + XB
      BY <1>h, <1>2
    <3> HIDE DEF B, left
    <3>2. XB \in Nat /\ XRES * (B + 1) = XB + XRES
      BY <1>4, <3>1
    <3> QED
      BY <3>1, <3>2
  <2>2a. XB \in Nat /\ r.col = left + XB
    BY <2>2
  <2>3. s.col = left + XRES * Before(x, n + 1)
    <3> HIDE DEF XB, left
    <3> QED
      BY <1>4, <2>0, <2>1, <2>2
  <2>4. s.bold = ((n - Before(x, n + 1)) % 2 = 1)
    <3>1. n - Before(x, n + 1) = n - 1 - B
      BY <1>2, <2>0
    <3> QED
      BY <1>h, <2>1, <3>1, Zenon
  \* The only character with this number is the new one.
  <2>5. \A i \in {k \in DOMAIN x.txt : x.txt[k] # BEL} : Before(x, i) = B <=> i = n
    <3> SUFFICES ASSUME NEW i \in 1 .. Len(x.txt), x.txt[i] # BEL, Before(x, i) = B, i # n PROVE FALSE
      BY <1>1
    <3>1. i \in Nat \ {0} /\ Before(x, i) \in Int
      BY <1>2
    <3>2. i < n => Before(x, i) < B
      BY <1>1, <3>1, NumberIs
    <3>3. n < i => B < Before(x, i)
      BY <1>1, <1>6, <3>1, NumberIs
    <3> QED
      BY <1>1, <3>1, <3>2, <3>3
  <2>6. ASSUME NEW p \in area PROVE Dot(p) = TextPixel(w, x, p)
    <3>1. p[1] \in Int /\ p[2] \in r.col .. r.col + XRES - 1
      OBVIOUS
    <3> DEFINE e == p[2] - r.col
    <3>2. e \in 0 .. XRES - 1 /\ p[2] - left = XB + e
      <4> DEFINE c == r.col
                 y == p[2]
      <4>1. left \in Nat /\ XRES \in Nat /\ XB \in Nat /\ c = left + XB /\ y \in c .. c + XRES - 1
        BY <1>4, <2>2a, <3>1, Zenon
      <4> HIDE DEF XB, left, c, y
      <4>2. y - c \in 0 .. XRES - 1 /\ y - left = XB + (y - c)
        BY <4>1
      <4> QED
        BY <4>2 DEF c, y
    <3>3. (p[2] - left) \div XRES = B /\ (p[2] - left) % XRES = e
      <4>1. B \in Nat /\ XB = B * XRES
        BY <1>2, <1>4
      <4> HIDE DEF e, XB
      <4>2. (B * XRES + e) \div XRES = B /\ (B * XRES + e) % XRES = e
        BY <1>4, <3>2, <4>1, Quotient
      <4> QED
        BY <3>2, <4>1, <4>2, Zenon
    <3> DEFINE S == {k \in DOMAIN x.txt : x.txt[k] # BEL}
    <3>4. n \in S
      BY <1>1, <1>6
    <3>5. (CHOOSE i \in S : Before(x, i) = B) = n
      <4> HIDE DEF S, B
      <4>1. \A i \in S : Before(x, i) = B <=> i = n
        BY <2>5 DEF S
      <4>2. \E i \in S : Before(x, i) = B
        BY <3>4, <4>1, Zenon
      <4>3. (CHOOSE i \in S : Before(x, i) = B) \in S /\ Before(x, (CHOOSE i \in S : Before(x, i) = B)) = B
        BY <4>2, Zenon
      <4> QED
        BY <4>1, <4>3, Zenon
    <3>6. TextBold(x, n) = (r.bold \/ x.bold)
      <4>1. TextBold(x, n) = (x.bold \/ (n - 1 - B) % 2 = 1)
        BY DEF TextBold
      <4>2. (x.bold \/ (n - 1 - B) % 2 = 1) = ((n - 1 - B) % 2 = 1 \/ x.bold)
        BY <1>1
      <4> QED
        BY <1>h, <4>1, <4>2, Zenon
    <3>7. TextPixel(w, x, p) =
            IF <<p[1] - top, e>> \in Font[<<x.txt[n], TextBold(x, n)>>] THEN Fg(w) ELSE Bg(w)
      <4> HIDE DEF e, B, S
      <4>1. TextPixel(w, x, p) =
              LET i == CHOOSE i \in S : Before(x, i) = (p[2] - left) \div XRES
              IN IF <<p[1] - top, (p[2] - left) % XRES>> \in Font[<<x.txt[i], TextBold(x, i)>>] THEN Fg(w) ELSE Bg(w)
        BY DEF TextPixel, S
      <4> HIDE DEF top, left
      <4> QED
        BY <3>3, <3>5, <4>1, Zenon
    <3>8. Dot(p) = IF <<p[1] - top, e>> \in Font[<<x.txt[n], r.bold \/ x.bold>>] THEN Fg(w) ELSE Bg(w)
      BY Zenon
    <3> HIDE DEF Dot, e
    <3> QED
      BY <3>6, <3>7, <3>8, Zenon
  <2> DEFINE old == (top .. top + YRES - 1) \X (left .. left + XB - 1)
             all == (top .. top + YRES - 1) \X (left .. left + XRES * (B + 1) - 1)
  <2>7. area \cup old = all
    <3>1. (r.col .. r.col + XRES - 1) \cup (left .. left + XB - 1) = left .. left + XRES * (B + 1) - 1
      <4> HIDE DEF XB, left
      <4> QED
        BY <1>4, <2>2
    <3> DEFINE P == r.col .. r.col + XRES - 1
               Q == left .. left + XB - 1
               U == left .. left + XRES * (B + 1) - 1
               V == top .. top + YRES - 1
    <3>2. P \cup Q = U
      BY <3>1
    <3> HIDE DEF P, Q, U, V
    <3>3. (V \X P) \cup (V \X Q) = V \X U
      BY <3>2
    <3> QED
      BY <3>3 DEF P, Q, U, V
  <2>8. r.picture = [p \in old |-> TextPixel(w, x, p)] /\ TextAt(w, x, B + 1) = [p \in all |-> TextPixel(w, x, p)]
    BY <1>h DEF TextAt
  <2>9. cell = [p \in area |-> TextPixel(w, x, p)]
    <3> HIDE DEF Dot, area
    <3> QED
      BY <2>6
  <2> HIDE DEF area, old, all, cell
  <2>10. joined = TextAt(w, x, B + 1)
    BY <2>7, <2>8, <2>9
  <2> HIDE DEF B
  <2> QED
    BY <2>0, <2>1, <2>3, <2>4, <2>10, Zenon
<1> QED
  BY <1>5, <1>6

\* What a widget on the layers has, and what a text has.
IsPlaced(w) ==
  /\ w.layer \in 0 .. LAYERS - 1 /\ w.row \in Nat /\ w.col \in Nat
  /\ Fg(w) \in Colors /\ Bg(w) \in Colors

LEMMA Cards ==
  \A S : C!Cardinality(S) = Cardinality(S)
  BY DEF C!Cardinality, Cardinality

LEMMA TextPictureIs ==
  ASSUME NEW w, NEW x, IsText(x)
  PROVE  C!TextPicture(w, x) = TextAt(w, x, Before(x, Len(x.txt) + 1))
<1> DEFINE S == {i \in DOMAIN x.txt : x.txt[i] # BEL}
           B(i) == C!Cardinality({k \in 1 .. i - 1 : x.txt[k] # BEL})
           Bold(i) == x.bold \/ (i - 1 - B(i)) % 2 = 1
           Dot(p) == LET i == CHOOSE i \in S : B(i) = (p[2] - XRES * w.col) \div XRES
                       IN IF <<p[1] - YRES * w.row, (p[2] - XRES * w.col) % XRES>> \in Font[<<x.txt[i], Bold(i)>>]
                          THEN Fg(w) ELSE Bg(w)
           area == (YRES * w.row .. YRES * w.row + YRES - 1) \X (XRES * w.col .. XRES * w.col + XRES * C!Cardinality(S) - 1)
<1>1. C!TextPicture(w, x) = [p \in area |-> Dot(p)]
  BY DEF C!TextPicture, C!Area, C!Top, C!Left, C!Fg, C!Bg, C!Default, Fg, Bg, Default
<1>2. C!Cardinality(S) = Before(x, Len(x.txt) + 1)
  <2>1. Len(x.txt) \in Nat /\ DOMAIN x.txt = 1 .. Len(x.txt)
    BY DEF IsText
  <2>2. (Len(x.txt) + 1) - 1 = Len(x.txt)
    BY <2>1
  <2>3. S = Vis(x, Len(x.txt) + 1)
    BY <2>1, <2>2, Zenon DEF Vis
  <2> QED
    BY <2>3, Cards, Zenon DEF Before
<1>3. TextAt(w, x, Before(x, Len(x.txt) + 1)) = [p \in area |-> TextPixel(w, x, p)]
  <2> HIDE DEF S
  <2> QED
    BY <1>2, Zenon DEF TextAt
<1>4. \A p : Dot(p) = TextPixel(w, x, p)
  <2>1. \A i : B(i) = Before(x, i)
    BY Cards, Zenon DEF Before, Vis
  <2> SUFFICES ASSUME NEW p PROVE Dot(p) = TextPixel(w, x, p)
    OBVIOUS
  <2> HIDE DEF B
  <2> QED
    BY <2>1 DEF TextPixel, TextBold
<1> HIDE DEF Dot, area
<1> QED
  BY <1>1, <1>3, <1>4

LEMMA RenderDraws ==
  ASSUME Regular, NEW d, IsDisplay(d), NEW w, IsPlaced(w), NEW x, IsText(x)
  PROVE  Draws(d, render(d, w, x), w.layer, C!TextPicture(w, x))
<1> DEFINE r == CHOOSE f : IsRender(f, w, x, Len(x.txt))
           N == Len(x.txt)
           row == YRES * w.row
           col == XRES * w.col
           B(n) == Before(x, n + 1)
<1>0. N \in Nat /\ row \in Nat /\ col \in Nat /\ XRES \in Nat /\ YRES \in Nat /\ w.layer \in 0 .. LAYERS - 1
      /\ XRES * N \in Nat /\ w.row \in Nat /\ w.col \in Nat
  <2>1. N \in Nat /\ w.row \in Nat /\ w.col \in Nat /\ XRES \in Nat /\ YRES \in Nat
    BY Sizes DEF IsText, IsPlaced
  <2> HIDE DEF N
  <2> QED
    BY <2>1 DEF IsPlaced
<1>1. render(d, w, x) = Drawn(d, w.layer, r[N].picture, row, col, YRES, XRES * N)
  BY DEF render, IsRender
<1>2. IsRender(r, w, x, N)
  BY <1>0, RendersAre
<1> HIDE DEF r
<1>3. /\ r[0] = [picture |-> <<>>, col |-> XRES * w.col, bold |-> FALSE]
      /\ \A n \in 1 .. N : r[n] = RenderChar(w, x.bold, r[n - 1], x.txt[n])
  <2>1. 0 \in 0 .. N /\ \A n \in 1 .. N : n \in 0 .. N /\ n # 0
    BY <1>0
  <2> HIDE DEF N
  <2> QED
    BY <1>2, <2>1, Zenon DEF IsRender
<1> DEFINE Good(n) == IsRendered(r[n], w, x, n, B(n))
           T == {n \in 0 .. N : Good(n)}
<1>4. Good(0)
  <2>1. r[0].picture = <<>> /\ r[0].col = XRES * w.col /\ r[0].bold = FALSE
        /\ r[0] = [picture |-> r[0].picture, col |-> r[0].col, bold |-> r[0].bold]
    BY <1>3
  <2>2. B(0) = 0
    <3>1. 0 + 1 = 1 /\ 1 .. 1 - 1 = {}
      OBVIOUS
    <3>2. Vis(x, 1) = {}
      BY <3>1 DEF Vis
    <3> QED
      BY <3>1, <3>2, FS_EmptySet, Zenon DEF Before
  <2>3. TextAt(w, x, 0) = <<>>
    <3>1. XRES * 0 = 0 /\ col + 0 - 1 = col - 1 /\ col .. col - 1 = {}
      <4> HIDE DEF col
      <4> QED
        BY <1>0
    <3>2. XRES * w.col + XRES * 0 - 1 = col - 1
      BY <1>0, <3>1
    <3>3. (row .. row + YRES - 1) \X (col .. col + XRES * 0 - 1) = {}
      <4>1. col .. col + XRES * 0 - 1 = {}
        <5> HIDE DEF col
        <5> QED
          BY <1>0, <3>1
      <4> DEFINE P == row .. row + YRES - 1
                 Q == col .. col + XRES * 0 - 1
      <4>2. Q = {}
        BY <4>1
      <4> HIDE DEF P, Q
      <4>3. P \X Q = {}
        BY <4>2
      <4> QED
        BY <4>3 DEF P, Q
    <3>4. TextAt(w, x, 0) = [p \in (row .. row + YRES - 1) \X (col .. col + XRES * 0 - 1) |-> TextPixel(w, x, p)]
      BY DEF TextAt
    <3> HIDE DEF row, col
    <3>5. TextAt(w, x, 0) = [p \in {} |-> TextPixel(w, x, p)]
      BY <3>3, <3>4
    <3> QED
      BY <3>5
  <2>4. XRES * w.col = XRES * w.col + XRES * 0 /\ (0 - 0) % 2 = 0
    BY <1>0
  <2> HIDE DEF B
  <2>5. (FALSE) = ((0 - 0) % 2 = 1)
    BY <2>4
  <2> QED
    BY <2>1, <2>2, <2>3, <2>4, <2>5, Zenon DEF IsRendered
<1>5. ASSUME NEW n \in 1 .. N, Good(n - 1) PROVE Good(n)
  <2>1. B(n - 1) = Before(x, n) /\ n \in 1 .. Len(x.txt)
    <3>1. n - 1 + 1 = n
      OBVIOUS
    <3> QED
      BY <3>1, Zenon
  <2>2. r[n] = RenderChar(w, x.bold, r[n - 1], x.txt[n])
    BY <1>3
  <2>3. IsRendered(r[n - 1], w, x, n - 1, Before(x, n))
    BY <1>5, <2>1, Zenon
  <2> HIDE DEF N
  <2> QED
    BY <1>0, <2>1, <2>2, <2>3, CharIs
<1>6. Good(N)
  <2> HIDE DEF Good, N
  <2>1. 0 \in T
    BY <1>0, <1>4
  <2>2. ASSUME NEW n \in 0 .. N - 1, n \in T PROVE n + 1 \in T
    <3>1. n + 1 \in 1 .. N /\ (n + 1) - 1 = n /\ n + 1 \in 0 .. N
      BY <1>0
    <3>3. Good(n + 1)
      BY <1>5, <2>2, <3>1
    <3> QED
      BY <3>1, <3>3
  <2> HIDE DEF T
  <2>3. \A n \in 0 .. N : n \in T
    BY <1>0, <2>1, <2>2, Induction
  <2> QED
    BY <1>0, <2>3 DEF T
<1> DEFINE picture == TextAt(w, x, B(N))
<1>7. r[N].picture = picture /\ C!TextPicture(w, x) = picture
  BY <1>6, TextPictureIs DEF IsRendered
<1>8. InArea(picture, row, col, YRES, XRES * N)
  <2>1. B(N) \in 0 .. N
    <3> DEFINE m == N + 1
    <3>1. m \in Nat \ {0} /\ m - 1 = N
      BY <1>0
    <3> HIDE DEF N, m
    <3>2. Before(x, m) \in 0 .. m - 1
      BY <3>1, BeforeIs
    <3> QED
      BY <3>1, <3>2 DEF m
  <2>2. XRES * B(N) <= XRES * N /\ XRES * B(N) \in Nat
    <3> HIDE DEF N, B
    <3>1. B(N) * XRES <= N * XRES
      BY <1>0, <2>1, Products
    <3> QED
      BY <1>0, <2>1, <3>1
  <2>3. /\ DOMAIN picture = (row .. row + YRES - 1) \X (col .. col + XRES * B(N) - 1)
        /\ \A p \in DOMAIN picture : picture[p] = TextPixel(w, x, p)
    BY DEF TextAt
  <2>4. \A p : TextPixel(w, x, p) \in Colors
    BY DEF TextPixel, IsPlaced
  <2> DEFINE m == XRES * B(N)
             M == XRES * N
  <2>5. m <= M /\ m \in Nat /\ M \in Nat
    BY <1>0, <2>2
  <2>6. DOMAIN picture = (row .. row + YRES - 1) \X (col .. col + m - 1)
    BY <2>3
  <2> HIDE DEF m, M, picture, row, col
  <2>7. \A p \in DOMAIN picture : p \in (row .. row + YRES - 1) \X (col .. col + M - 1)
    BY <1>0, <2>5, <2>6
  <2>8. InArea(picture, row, col, YRES, M)
    BY <2>3, <2>4, <2>7, Zenon DEF InArea
  <2> QED
    BY <2>8 DEF M
<1>9. Draws(d, Drawn(d, w.layer, picture, row, col, YRES, XRES * N), w.layer, picture)
  <2> DEFINE M == XRES * N
  <2>1. InArea(picture, row, col, YRES, M) /\ M \in Nat
    BY <1>0, <1>8
  <2> HIDE DEF picture, row, col, M
  <2>2. Draws(d, Drawn(d, w.layer, picture, row, col, YRES, M), w.layer, picture)
    BY <1>0, <2>1, DrawnDraws
  <2> QED
    BY <2>2 DEF M
<1> HIDE DEF picture
<1> QED
  BY <1>1, <1>7, <1>9, Zenon

LEMMA IconDraws ==
  ASSUME Regular, NEW d, IsDisplay(d), NEW w, IsPlaced(w), NEW x
  PROVE  Draws(d, icon_draw(d, w, x), w.layer, C!IconPicture(w, x))
<1> DEFINE row == YRES * w.row
           col == XRES * w.col
           bitmap == Bitmaps[w.name][x.map + 1]
           Dot(p) == IF ~ x.visible THEN BG_COL
                       ELSE IF <<p[1] - row, p[2] - col>> \in bitmap THEN Fg(w) ELSE Bg(w)
           picture == [p \in (row .. row + YRES - 1) \X (col .. col + XRES - 1) |-> Dot(p)]
<1>1. icon_draw(d, w, x) = Drawn(d, w.layer, picture, row, col, YRES, XRES)
  BY DEF icon_draw, Cells
<1>2. C!IconPicture(w, x) = picture
  BY DEF C!IconPicture, C!Area, C!Top, C!Left, C!Fg, C!Bg, C!Default, Fg, Bg, Default
<1>3. \A p : Dot(p) \in Colors
  BY Sizes DEF IsPlaced
<1>4. row \in Nat /\ col \in Nat /\ XRES \in Nat /\ YRES \in Nat /\ w.layer \in 0 .. LAYERS - 1
  BY Sizes DEF IsPlaced
<1> HIDE DEF Dot, row, col
<1>5. InArea(picture, row, col, YRES, XRES)
  BY <1>3 DEF InArea
<1> HIDE DEF picture
<1> QED
  BY <1>1, <1>2, <1>4, <1>5, DrawnDraws

\* How long a half is, and whether a pixel is filled, on a canvas.
BarLength(x, size, half) ==
  LET n == (x.val[half][1] * size) \div x.val[half][2] IN IF n < 1 THEN 1 ELSE n
BarFilled(w, x, size, along, half) ==
  IF w.dir \in {"E", "S"} THEN along < BarLength(x, size, half) ELSE size - 1 - along < BarLength(x, size, half)

\* Shares of the scale of a bar.
IsBar(x) == \A half \in 1 .. 2 : x.val[half][1] \in Int /\ x.val[half][2] \in Nat \ {0}

\* The length of a half is not cut where it shows, from either end.
LEMMA FilledIs ==
  ASSUME NEW w, w.dir \in {"N", "E", "S", "W"}, NEW x, IsBar(x), NEW size \in Nat, NEW vals,
         vals = [h \in 1 .. 2 |-> LET v == (x.val[h][1] * size) \div x.val[h][2]
                                  IN IF v < 1 THEN 1 ELSE IF v > size THEN size ELSE v],
         NEW along \in 0 .. size - 1, NEW half \in 1 .. 2, NEW rev \in BOOLEAN, rev <=> w.dir \in {"W", "N"}
  PROVE  ((along < (IF rev THEN size - vals[half] ELSE vals[half])) # rev) <=> BarFilled(w, x, size, along, half)
<1> DEFINE v == (x.val[half][1] * size) \div x.val[half][2]
<1>1. v \in Int
  <2>1. PICK a \in Int, b \in Nat \ {0} : a = x.val[half][1] /\ b = x.val[half][2]
    BY DEF IsBar
  <2>2. a * size \in Int
    BY <2>1
  <2> DEFINE m == a * size
  <2>3. m \in Int
    BY <2>2
  <2> HIDE DEF m
  <2>4. m \div b \in Int
    BY <2>3
  <2> QED
    BY <2>1, <2>4 DEF m
<1>2. vals[half] = IF v < 1 THEN 1 ELSE IF v > size THEN size ELSE v
  BY Zenon
<1>3. BarLength(x, size, half) = IF v < 1 THEN 1 ELSE v
  BY DEF BarLength
<1> HIDE DEF v
<1>4. CASE w.dir \in {"E", "S"}
  <2>1. rev = FALSE
    BY <1>4
  <2>2. BarFilled(w, x, size, along, half) <=> (along < BarLength(x, size, half))
    BY <1>4, Zenon DEF BarFilled
  <2>3. (along < vals[half]) <=> (along < BarLength(x, size, half))
    BY <1>1, <1>2, <1>3
  <2> QED
    BY <2>1, <2>2, <2>3
<1>5. CASE w.dir \in {"W", "N"}
  <2>1. rev = TRUE /\ w.dir \notin {"E", "S"}
    BY <1>5
  <2>2. BarFilled(w, x, size, along, half) <=> (size - 1 - along < BarLength(x, size, half))
    BY <2>1, Zenon DEF BarFilled
  <2>3. ~ (along < size - vals[half]) <=> (size - 1 - along < BarLength(x, size, half))
    BY <1>1, <1>2, <1>3
  <2> QED
    BY <2>1, <2>2, <2>3
<1> QED
  BY <1>4, <1>5

IsBarWidget(w) ==
  /\ IsPlaced(w) /\ BarColor(w, 1) \in Colors /\ BarColor(w, 2) \in Colors
  /\ w.dir \in {"N", "E", "S", "W"} /\ w.len \in Nat /\ (w.hollow => w.len > 0)

LEMMA BarDraws ==
  ASSUME Regular, NEW d, IsDisplay(d), NEW w, IsBarWidget(w), NEW x, IsBar(x)
  PROVE  Draws(d, bar_draw(d, w, x), w.layer, C!BarPicture(w, x))
<1> DEFINE row == YRES * w.row
           col == XRES * w.col
           across == w.dir \in {"E", "W"}
           max == w.len * (IF across THEN XRES ELSE YRES)
           vals == [h \in 1 .. 2 |-> LET v == (x.val[h][1] * max) \div x.val[h][2]
                                     IN IF v < 1 THEN 1 ELSE IF v > max THEN max ELSE v]
           Half_(side, width) == IF side < width \div 2 THEN 1 ELSE 2
           Dot(along, side, width) ==
             IF w.hollow /\ (along \in {0, max - 1} \/ side \in {0, width - 1}) THEN Fg(w)
             ELSE IF BarFilled(w, x, max, along, Half_(side, width)) THEN BarColor(w, Half_(side, width)) ELSE Bg(w)
           wide == (row .. row + YRES - 1) \X (col .. col + max - 1)
           high == (row .. row + max - 1) \X (col .. col + XRES - 1)
           Frame == IF ~ w.hollow \/ max > 0 THEN {}
                    ELSE IF across THEN Cells(row, col - 1, YRES, 2) ELSE Cells(row - 1, col, 2, XRES)
<1>1. /\ w.layer \in 0 .. LAYERS - 1 /\ w.row \in Nat /\ w.col \in Nat /\ XRES \in Nat /\ YRES \in Nat
      /\ w.len \in Nat /\ w.dir \in {"N", "E", "S", "W"}
  BY Sizes DEF IsBarWidget, IsPlaced
<1>2. row \in Nat /\ col \in Nat /\ max \in Nat
  <2> HIDE DEF across
  <2> QED
    BY <1>1
<1>f. Frame = {}
  <2> SUFFICES ASSUME w.hollow PROVE max > 0
    OBVIOUS
  <2>1. w.len > 0
    BY DEF IsBarWidget
  <2>2. PICK res \in Nat \ {0} : max = w.len * res
    BY Sizes
  <2> HIDE DEF max
  <2> QED
    BY <1>1, <2>1, <2>2
<1>3. ASSUME NEW along \in 0 .. max - 1, NEW side, NEW width
      PROVE  BarPixel(w, vals, max, width, along, side) = Dot(along, side, width)
  <2> DEFINE half == Half_(side, width)
             rev == w.dir \in {"W", "N"}
             F == BarFilled(w, x, max, along, half)
             Is == (along < (IF rev THEN max - vals[half] ELSE vals[half])) # rev
             frame == w.hollow /\ (along \in {0, max - 1} \/ side \in {0, width - 1})
  <2>1. half \in 1 .. 2
    OBVIOUS
  <2>2. Is <=> F
    <3> HIDE DEF half
    <3>1. PICK m \in Nat, u \in {vals}, r \in BOOLEAN : m = max /\ u = vals /\ (r <=> rev)
      BY <1>2
    <3>2. along \in 0 .. m - 1 /\ (r <=> w.dir \in {"W", "N"})
          /\ u = [h \in 1 .. 2 |-> LET v == (x.val[h][1] * m) \div x.val[h][2]
                                   IN IF v < 1 THEN 1 ELSE IF v > m THEN m ELSE v]
      BY <3>1
    <3> HIDE DEF max, vals, rev
    <3>3. ((along < (IF r THEN m - u[half] ELSE u[half])) # r) <=> BarFilled(w, x, m, along, half)
      BY <1>1, <2>1, <3>2, FilledIs
    <3> QED
      BY <3>1, <3>3
  <2>3. BarPixel(w, vals, max, width, along, side) =
          IF frame THEN Fg(w) ELSE IF Is THEN BarColor(w, half) ELSE Bg(w)
    BY DEF BarPixel
  <2>4. Dot(along, side, width) = IF frame THEN Fg(w) ELSE IF F THEN BarColor(w, half) ELSE Bg(w)
    OBVIOUS
  <2> HIDE DEF half, rev, F, Is, frame, Dot, max, vals
  <2>5. BarPixel(w, vals, max, width, along, side) = IF frame THEN Fg(w) ELSE IF F THEN BarColor(w, half) ELSE Bg(w)
    BY <2>2, <2>3
  <2> QED
    BY <2>4, <2>5
<1>4. \A along, side, width : Dot(along, side, width) \in Colors
  BY DEF IsBarWidget, IsPlaced
<1>5. CASE across
  <2> DEFINE picture == [p \in wide |-> Dot(p[2] - col, p[1] - row, YRES)]
             mine == [p \in wide |-> BarPixel(w, vals, max, YRES, p[2] - col, p[1] - row)]
  <2>0. bar_draw(d, w, x) = Drawn(d, w.layer, [p \in wide \union Frame |-> BarPixel(w, vals, max, YRES, p[2] - col, p[1] - row)], row, col, YRES, max)
    BY <1>5 DEF bar_draw, Cells
  <2>1. bar_draw(d, w, x) = Drawn(d, w.layer, mine, row, col, YRES, max)
    <3> HIDE DEF wide, Frame, vals, max, row, col, across
    <3>1. wide \union Frame = wide
      BY <1>f
    <3> QED
      BY <2>0, <3>1
  <2>2. C!BarPicture(w, x) = picture
    BY <1>5 DEF C!BarPicture, C!Area, C!Top, C!Left, C!Fg, C!Bg, C!BarColor, C!Default, Fg, Bg, BarColor, Default,
                BarFilled, BarLength
  <2> HIDE DEF Dot, max, vals, row, col
  <2>3. \A p \in wide : p[2] - col \in 0 .. max - 1
    BY <1>2
  <2>4. \A p \in wide : BarPixel(w, vals, max, YRES, p[2] - col, p[1] - row) = Dot(p[2] - col, p[1] - row, YRES)
    BY <1>3, <2>3
  <2>5. mine = picture
    <3> HIDE DEF wide
    <3> QED
      BY <2>4
  <2>6. InArea(picture, row, col, YRES, max)
    <3>1. DOMAIN picture = wide /\ \A p \in wide : picture[p] \in Colors
      BY <1>4
    <3> QED
      BY <3>1 DEF InArea
  <2> HIDE DEF mine, picture
  <2>7. Draws(d, Drawn(d, w.layer, picture, row, col, YRES, max), w.layer, picture)
    BY <1>1, <1>2, <2>6, DrawnDraws
  <2> QED
    BY <2>1, <2>2, <2>5, <2>7, Zenon
<1>6. CASE ~ across
  <2> DEFINE picture == [p \in high |-> Dot(p[1] - row, p[2] - col, XRES)]
             mine == [p \in high |-> BarPixel(w, vals, max, XRES, p[1] - row, p[2] - col)]
  <2>0. bar_draw(d, w, x) = Drawn(d, w.layer, [p \in high \union Frame |-> BarPixel(w, vals, max, XRES, p[1] - row, p[2] - col)], row, col, max, XRES)
    BY <1>6 DEF bar_draw, Cells
  <2>1. bar_draw(d, w, x) = Drawn(d, w.layer, mine, row, col, max, XRES)
    <3> HIDE DEF high, Frame, vals, max, row, col, across
    <3>1. high \union Frame = high
      BY <1>f
    <3> QED
      BY <2>0, <3>1
  <2>2. C!BarPicture(w, x) = picture
    BY <1>6 DEF C!BarPicture, C!Area, C!Top, C!Left, C!Fg, C!Bg, C!BarColor, C!Default, Fg, Bg, BarColor, Default,
                BarFilled, BarLength
  <2> HIDE DEF Dot, max, vals, row, col
  <2>3. \A p \in high : p[1] - row \in 0 .. max - 1
    BY <1>2
  <2>4. \A p \in high : BarPixel(w, vals, max, XRES, p[1] - row, p[2] - col) = Dot(p[1] - row, p[2] - col, XRES)
    BY <1>3, <2>3
  <2>5. mine = picture
    <3> HIDE DEF high
    <3> QED
      BY <2>4
  <2>6. InArea(picture, row, col, max, XRES)
    <3>1. DOMAIN picture = high /\ \A p \in high : picture[p] \in Colors
      BY <1>4
    <3> QED
      BY <3>1 DEF InArea
  <2> HIDE DEF mine, picture
  <2>7. Draws(d, Drawn(d, w.layer, picture, row, col, max, XRES), w.layer, picture)
    BY <1>1, <1>2, <2>6, DrawnDraws
  <2> QED
    BY <2>1, <2>2, <2>5, <2>7, Zenon
<1> QED
  BY <1>5, <1>6

\* What is known of the picture of a file.
IsPicture(gd) == \E ny, nx \in Int : gd \in [Cells(0, 0, ny, nx) -> Colors]

\* The pixel of an image at q.
ImagePixel(I, q) ==
  IF q \notin DOMAIN I.gdImage THEN NO_COL
  ELSE IF I.inverted THEN Inverted(I.gdImage[q]) ELSE I.gdImage[q]

IsImageRecord(I) ==
  I = [gdImage |-> I.gdImage, bitmap |-> I.bitmap, width |-> I.width, height |-> I.height,
       oldheight |-> I.oldheight, visible |-> I.visible, inverted |-> I.inverted, center |-> I.center]

\* The data of an image or a Truetype text: its bitmap has the size it says, and there may
\* be a picture.
IsBitmap(I) ==
  /\ IsImageRecord(I)
  /\ I.width \in Nat /\ I.height \in Nat /\ I.oldheight \in Nat
  /\ I.height = 0 <=> I.width = 0
  /\ I.bitmap \in [Cells(0, 0, I.height, I.width) -> Colors]
  /\ IsPicture(I.gdImage)

\* Between two updates, the picture lies within the bitmap, and what is visible is in it.
IsImage(I) ==
  /\ IsBitmap(I) /\ DOMAIN I.gdImage \subseteq DOMAIN I.bitmap
  /\ I.visible => \A q \in DOMAIN I.bitmap : I.bitmap[q] = ImagePixel(I, q)

\* A widget with a place in pixels.
IsPixelPlaced(w) == w.layer \in 0 .. LAYERS - 1 /\ w.row \in Nat /\ w.col \in Nat

LEMMA NoPicture ==
  ASSUME NEW S, NEW T, NEW f \in [S -> T]
  PROVE  f = <<>> <=> S = {}
<1>1. DOMAIN <<>> = {}
  OBVIOUS
<1>2. ASSUME S = {} PROVE f = <<>>
  <2>1. f = [x \in {} |-> 0]
    BY <1>2
  <2>2. <<>> = [x \in {} |-> 0]
    BY <1>1
  <2> QED
    BY <2>1, <2>2
<1> QED
  BY <1>1, <1>2

LEMMA CellOf ==
  ASSUME NEW height \in Int, NEW width \in Int, NEW row \in Int, NEW col \in Int,
         NEW p \in Cells(row, col, height, width)
  PROVE  /\ p = <<p[1], p[2]>> /\ p[1] \in Int /\ p[2] \in Int
         /\ row <= p[1] /\ p[1] < row + height /\ col <= p[2] /\ p[2] < col + width
<1> DEFINE A == row .. row + height - 1
           B == col .. col + width - 1
<1>1. p \in A \X B
  BY DEF Cells
<1>2. \A y \in A : y \in Int /\ row <= y /\ y < row + height
  OBVIOUS
<1>3. \A y \in B : y \in Int /\ col <= y /\ y < col + width
  OBVIOUS
<1> HIDE DEF A, B
<1>4. p[1] \in A /\ p[2] \in B /\ p = <<p[1], p[2]>>
  BY <1>1
<1> QED
  BY <1>2, <1>3, <1>4

LEMMA CellAt ==
  ASSUME NEW height \in Int, NEW width \in Int, NEW row \in Int, NEW col \in Int,
         NEW y \in Int, NEW x \in Int, row <= y, y < row + height, col <= x, x < col + width
  PROVE  <<y, x>> \in Cells(row, col, height, width)
<1>1. y \in row .. row + height - 1 /\ x \in col .. col + width - 1
  OBVIOUS
<1> QED
  BY <1>1 DEF Cells

LEMMA NoCells ==
  ASSUME NEW height \in Int, NEW width \in Int, NEW row \in Int, NEW col \in Int
  PROVE  Cells(row, col, height, width) = {} <=> height <= 0 \/ width <= 0
<1>1. ASSUME NEW p \in Cells(row, col, height, width) PROVE height > 0 /\ width > 0
  <2>1. /\ p[1] \in Int /\ p[2] \in Int
        /\ row <= p[1] /\ p[1] < row + height /\ col <= p[2] /\ p[2] < col + width
    BY CellOf
  <2> QED
    BY <2>1
<1>2. ASSUME height > 0, width > 0 PROVE <<row, col>> \in Cells(row, col, height, width)
  BY <1>2, CellAt
<1> QED
  BY <1>1, <1>2

\* What a place in an area is within the picture that lies there.
LEMMA CellWithin ==
  ASSUME NEW height \in Int, NEW width \in Int, NEW row \in Int, NEW col \in Int,
         NEW p \in Cells(row, col, height, width)
  PROVE  <<p[1] - row, p[2] - col>> \in Cells(0, 0, height, width)
<1>1. /\ p[1] \in Int /\ p[2] \in Int
      /\ row <= p[1] /\ p[1] < row + height /\ col <= p[2] /\ p[2] < col + width
  BY CellOf
<1> DEFINE y == p[1] - row
           x == p[2] - col
<1>2. y \in Int /\ x \in Int /\ 0 <= y /\ y < 0 + height /\ 0 <= x /\ x < 0 + width
  BY <1>1
<1> HIDE DEF y, x
<1>3. <<y, x>> \in Cells(0, 0, height, width)
  BY <1>2, CellAt
<1> QED
  BY <1>3 DEF y, x

LEMMA EmptyDraws ==
  ASSUME NEW d, IsDisplay(d), NEW layer \in 0 .. LAYERS - 1, NEW picture, DOMAIN picture = {}
  PROVE  Draws(d, d, layer, picture)
<1>1. PlanesOf(d.g) = [PlanesOf(d.g) EXCEPT ![layer] =
         [p \in Extent |-> IF p \in DOMAIN picture THEN picture[p] ELSE PlanesOf(d.g)[layer][p]]]
  <2> DEFINE planes == PlanesOf(d.g)
  <2>1. planes = [l \in 0 .. LAYERS - 1 |-> planes[l]] /\ planes[layer] = [p \in Extent |-> planes[layer][p]]
    BY DEF PlanesOf
  <2> HIDE DEF planes
  <2>2. [p \in Extent |-> IF p \in DOMAIN picture THEN picture[p] ELSE planes[layer][p]] = planes[layer]
    BY <2>1
  <2>3. planes = [planes EXCEPT ![layer] = planes[layer]]
    BY <2>1
  <2>4. planes = [planes EXCEPT ![layer] = [p \in Extent |-> IF p \in DOMAIN picture THEN picture[p] ELSE planes[layer][p]]]
    BY <2>2, <2>3
  <2> QED
    BY <2>4 DEF planes
<1> QED
  BY <1>1 DEF Draws

LEMMA ImageDraws ==
  ASSUME Regular, NEW d, IsDisplay(d), NEW w, IsPixelPlaced(w), NEW J, IsImage(J)
  PROVE  Draws(d, image_draw(d, w, J), w.layer, C!ImagePicture(w, Content(J, ImageCol(d.g, w, J))))
<1> DEFINE col == ImageCol(d.g, w, J)
           x == Content(J, col)
           Dot(p) == IF J.visible THEN J.bitmap[<<p[1] - w.row, p[2] - col>>] ELSE BG_COL
           mine == [p \in Cells(w.row, col, J.height, J.width) |-> Dot(p)]
           picture == [p \in Cells(w.row, col, J.height, J.width) |->
                        IF ~ J.visible THEN BG_COL ELSE ImagePixel(J, <<p[1] - w.row, p[2] - col>>)]
<1>1. C!ImagePicture(w, x) = picture
  BY DEF C!ImagePicture, C!Area, C!NO_COL, NO_COL, Content, ImagePixel, Inverted, Cells
<1>2. image_draw(d, w, J) = IF J.bitmap = <<>> THEN d ELSE Drawn(d, w.layer, mine, w.row, col, J.height, J.width)
  BY DEF image_draw
<1>3. col \in Nat
  <2>1. w.col \in Nat /\ J.width \in Nat /\ d.g.LCOLS \in Nat
    BY DEF IsPixelPlaced, IsImage, IsBitmap, IsDisplay, IsLayers
  <2> QED
    BY <2>1 DEF ImageCol
<1>4. J.height \in Nat /\ J.width \in Nat /\ w.row \in Nat /\ w.layer \in 0 .. LAYERS - 1
      /\ J.bitmap \in [Cells(0, 0, J.height, J.width) -> Colors]
  BY DEF IsImage, IsBitmap, IsPixelPlaced
<1> HIDE DEF col
<1>5. mine = picture
  <2>1. ASSUME NEW p \in Cells(w.row, col, J.height, J.width), J.visible
        PROVE  J.bitmap[<<p[1] - w.row, p[2] - col>>] = ImagePixel(J, <<p[1] - w.row, p[2] - col>>)
    <3>2. <<p[1] - w.row, p[2] - col>> \in Cells(0, 0, J.height, J.width)
      BY <1>3, <1>4, CellWithin
    <3> QED
      BY <1>4, <2>1, <3>2 DEF IsImage, IsBitmap
  <2> QED
    BY <2>1
<1>6. CASE J.bitmap = <<>>
  <2>1. Cells(0, 0, J.height, J.width) = {}
    BY <1>4, <1>6, NoPicture
  <2>2. J.height <= 0 \/ J.width <= 0
    BY <1>4, <2>1, NoCells
  <2>3. Cells(w.row, col, J.height, J.width) = {}
    BY <1>3, <1>4, <2>2, NoCells
  <2>4. DOMAIN picture = {}
    BY <2>3
  <2> HIDE DEF picture, mine
  <2>5. Draws(d, d, w.layer, picture)
    BY <1>4, <2>4, EmptyDraws
  <2> HIDE DEF x
  <2>6. image_draw(d, w, J) = d
    BY <1>2, <1>6, Zenon
  <2> QED
    BY <1>1, <2>5, <2>6, Zenon DEF x, col
<1>7. CASE J.bitmap # <<>>
  <2>1. InArea(mine, w.row, col, J.height, J.width)
    <3>1. ASSUME NEW p \in Cells(w.row, col, J.height, J.width) PROVE Dot(p) \in Colors
      <4>2. <<p[1] - w.row, p[2] - col>> \in Cells(0, 0, J.height, J.width)
        BY <1>3, <1>4, CellWithin
      <4>3. J.bitmap[<<p[1] - w.row, p[2] - col>>] \in Colors
        BY <1>4, <4>2
      <4> QED
        BY <4>3, Sizes
    <3> HIDE DEF Dot
    <3> QED
      BY <3>1 DEF InArea, Cells
  <2> HIDE DEF picture, mine
  <2>2. Draws(d, Drawn(d, w.layer, mine, w.row, col, J.height, J.width), w.layer, mine)
    BY <1>3, <1>4, <2>1, DrawnDraws
  <2>3. image_draw(d, w, J) = Drawn(d, w.layer, mine, w.row, col, J.height, J.width)
    BY <1>2, <1>7, Zenon
  <2> QED
    BY <1>1, <1>5, <2>2, <2>3, Zenon DEF x, col
<1> QED
  BY <1>6, <1>7

\* The size of a picture.
IsSized(gd) ==
  /\ Sy(gd) \in Nat /\ Sx(gd) \in Nat /\ (Sy(gd) = 0 <=> Sx(gd) = 0)
  /\ gd \in [Cells(0, 0, Sy(gd), Sx(gd)) -> Colors]
  /\ gd = <<>> <=> Sy(gd) = 0

LEMMA SizeIs ==
  ASSUME NEW ny \in Nat \ {0}, NEW nx \in Nat \ {0}, NEW gd, DOMAIN gd = Cells(0, 0, ny, nx)
  PROVE  Sy(gd) = ny /\ Sx(gd) = nx
<1>1. {p[1] : p \in DOMAIN gd} = 0 .. ny - 1
  <2>1. ASSUME NEW p \in Cells(0, 0, ny, nx) PROVE p[1] \in 0 .. ny - 1
    <3>1. /\ p[1] \in Int /\ p[2] \in Int
          /\ 0 <= p[1] /\ p[1] < 0 + ny /\ 0 <= p[2] /\ p[2] < 0 + nx
      BY CellOf
    <3> QED
      BY <3>1
  <2>2. ASSUME NEW y \in 0 .. ny - 1 PROVE \E p \in Cells(0, 0, ny, nx) : p[1] = y
    <3>1. <<y, 0>> \in Cells(0, 0, ny, nx)
      BY CellAt
    <3> QED
      BY <3>1
  <2> QED
    BY <2>1, <2>2
<1>2. {p[2] : p \in DOMAIN gd} = 0 .. nx - 1
  <2>1. ASSUME NEW p \in Cells(0, 0, ny, nx) PROVE p[2] \in 0 .. nx - 1
    <3>1. /\ p[1] \in Int /\ p[2] \in Int
          /\ 0 <= p[1] /\ p[1] < 0 + ny /\ 0 <= p[2] /\ p[2] < 0 + nx
      BY CellOf
    <3> QED
      BY <3>1
  <2>2. ASSUME NEW x \in 0 .. nx - 1 PROVE \E p \in Cells(0, 0, ny, nx) : p[2] = x
    <3>1. <<0, x>> \in Cells(0, 0, ny, nx)
      BY CellAt
    <3> QED
      BY <3>1
  <2> QED
    BY <2>1, <2>2
<1>3. \A n \in Nat \ {0} : Cardinality(0 .. n - 1) = n
  BY FS_Interval
<1> QED
  BY <1>1, <1>2, <1>3 DEF Sy, Sx

LEMMA NoSize ==
  Sy(<<>>) = 0 /\ Sx(<<>>) = 0
<1>1. DOMAIN <<>> = {}
  OBVIOUS
<1>2. {p[1] : p \in DOMAIN <<>>} = {} /\ {p[2] : p \in DOMAIN <<>>} = {}
  BY <1>1
<1>3. Cardinality({}) = 0
  BY FS_EmptySet
<1> QED
  BY <1>2, <1>3 DEF Sy, Sx

LEMMA SizedIs ==
  ASSUME NEW gd, IsPicture(gd)
  PROVE  IsSized(gd)
<1>1. PICK ny \in Int, nx \in Int : gd \in [Cells(0, 0, ny, nx) -> Colors]
  BY DEF IsPicture
<1>2. CASE ny <= 0 \/ nx <= 0
  <2>1. Cells(0, 0, ny, nx) = {} /\ Cells(0, 0, 0, 0) = {}
    BY <1>2, NoCells
  <2>2. gd = <<>>
    <3>1. gd = <<>> <=> Cells(0, 0, ny, nx) = {}
      BY <1>1, NoPicture, Zenon
    <3> QED
      BY <2>1, <3>1
  <2>3. Sy(gd) = 0 /\ Sx(gd) = 0
    BY <2>2, NoSize
  <2>4. gd \in [Cells(0, 0, 0, 0) -> Colors]
    BY <1>1, <2>1, Zenon
  <2> QED
    BY <2>2, <2>3, <2>4 DEF IsSized
<1>3. CASE ny > 0 /\ nx > 0
  <2>1. ny \in Nat \ {0} /\ nx \in Nat \ {0}
    BY <1>3
  <2>2. Sy(gd) = ny /\ Sx(gd) = nx
    BY <1>1, <2>1, SizeIs
  <2>3. Cells(0, 0, ny, nx) # {}
    BY <1>3, NoCells
  <2>4. gd # <<>>
    BY <1>1, <2>3, NoPicture
  <2> QED
    BY <1>1, <2>1, <2>2, <2>4 DEF IsSized
<1> QED
  BY <1>2, <1>3

\* Each place of a copy has one of the image it is copied from.
LEMMA SourceIs ==
  ASSUME NEW n \in Nat \ {0}, NEW m \in Nat \ {0}, NEW k \in 0 .. m - 1
  PROVE  \E i \in 0 .. n - 1 : (m * i) \div n <= k /\ k < (m * (i + 1)) \div n
<1> DEFINE Reach(j) == (m * j) \div n
           T == {j \in 0 .. n : k < Reach(j)}
<1>1. Reach(n) = m
  <2>1. m * n + 0 = m * n /\ 0 \in 0 .. n - 1
    OBVIOUS
  <2>2. (m * n + 0) \div n = m
    BY <2>1, Quotient
  <2> QED
    BY <2>1, <2>2
<1>2. Reach(0) = 0
  <2>1. m * 0 = 0 /\ 0 * n + 0 = 0 /\ 0 \in 0 .. n - 1
    OBVIOUS
  <2>2. (0 * n + 0) \div n = 0
    BY <2>1, Quotient
  <2> QED
    BY <2>1, <2>2
<1>3. \A j \in Nat : Reach(j) \in Int
  <2> SUFFICES ASSUME NEW j \in Nat PROVE Reach(j) \in Int
    OBVIOUS
  <2> DEFINE a == m * j
  <2>1. a \in Nat
    OBVIOUS
  <2> HIDE DEF a
  <2>2. a \div n \in Int
    BY <2>1
  <2> QED
    BY <2>2 DEF a
<1>4. \A i \in 0 .. n - 1 : Reach(i + 1) = (m * (i + 1)) \div n /\ Reach(i) = (m * i) \div n
  OBVIOUS
<1> HIDE DEF Reach
<1>5. n \in T /\ T \subseteq Nat /\ T \subseteq 0 .. n
  BY <1>1
<1>6. PICK j \in T : \A i \in T : j <= i
  BY <1>5, SmallestNat
<1> DEFINE i == j - 1
<1>7. i \in 0 .. n - 1 /\ i + 1 = j
  <2>1. j # 0
    BY <1>2, <1>6
  <2> QED
    BY <1>5, <1>6, <2>1
<1>8. k < Reach(i + 1)
  BY <1>6, <1>7
<1>9. ~ (k < Reach(i))
  <2>1. i \notin T
    BY <1>5, <1>6, <1>7
  <2> QED
    BY <1>7, <2>1
<1> HIDE DEF i
<1>10. Reach(i) <= k
  BY <1>3, <1>7, <1>9
<1> QED
  BY <1>4, <1>7, <1>8, <1>10

LEMMA ResizedIs ==
  ASSUME NEW gd, IsSized(gd), gd # <<>>, NEW nx \in Int, NEW ny \in Int
  PROVE  IsPicture(Resized(gd, nx, ny))
<1> DEFINE From(n, m, k) == CHOOSE i \in 0 .. n - 1 : (m * i) \div n <= k /\ k < (m * (i + 1)) \div n
<1>1. Sy(gd) \in Nat \ {0} /\ Sx(gd) \in Nat \ {0} /\ gd \in [Cells(0, 0, Sy(gd), Sx(gd)) -> Colors]
  BY DEF IsSized
<1>2. \A n, m \in Nat \ {0} : \A k \in 0 .. m - 1 : From(n, m, k) \in 0 .. n - 1
  BY SourceIs
<1>3. Resized(gd, nx, ny) = [p \in Cells(0, 0, ny, nx) |-> gd[<<From(Sy(gd), ny, p[1]), From(Sx(gd), nx, p[2])>>]]
  BY DEF Resized
<1> HIDE DEF From
<1>4. ASSUME NEW p \in Cells(0, 0, ny, nx)
      PROVE  gd[<<From(Sy(gd), ny, p[1]), From(Sx(gd), nx, p[2])>>] \in Colors
  <2>1. p[1] \in 0 .. ny - 1 /\ p[2] \in 0 .. nx - 1 /\ ny \in Nat \ {0} /\ nx \in Nat \ {0}
    <3>1. /\ p[1] \in Int /\ p[2] \in Int
          /\ 0 <= p[1] /\ p[1] < 0 + ny /\ 0 <= p[2] /\ p[2] < 0 + nx
      BY CellOf
    <3> QED
      BY <3>1
  <2> DEFINE y == From(Sy(gd), ny, p[1])
             x == From(Sx(gd), nx, p[2])
  <2>2. y \in 0 .. Sy(gd) - 1 /\ x \in 0 .. Sx(gd) - 1
    BY <1>1, <1>2, <2>1
  <2> HIDE DEF y, x
  <2>3. <<y, x>> \in Cells(0, 0, Sy(gd), Sx(gd))
    BY <1>1, <2>2, CellAt
  <2>4. gd[<<y, x>>] \in Colors
    BY <1>1, <2>3
  <2> QED
    BY <2>4 DEF y, x
<1> QED
  BY <1>3, <1>4 DEF IsPicture

\* Settings of an image.
IsSetting(s) == IsPicture(s.file) /\ s.scale \in Int /\ s.width \in Int /\ s.height \in Int

LEMMA Share ==
  ASSUME NEW a \in Int, NEW b \in Int, NEW c \in Nat \ {0}
  PROVE  (a * b) \div c \in Int
<1> DEFINE m == a * b
<1>1. m \in Int
  OBVIOUS
<1> HIDE DEF m
<1>2. m \div c \in Int
  BY <1>1
<1> QED
  BY <1>2 DEF m

LEMMA BoundedIs ==
  ASSUME NEW gd, IsSized(gd), gd # <<>>, NEW s, IsSetting(s)
  PROVE  IsPicture(Bounded(gd, s))
<1>1. Sy(gd) \in Nat \ {0} /\ Sx(gd) \in Nat \ {0} /\ s.width \in Int /\ s.height \in Int
  BY DEF IsSized, IsSetting
<1>2. (s.height * Sx(gd)) \div Sy(gd) \in Int /\ (s.width * Sy(gd)) \div Sx(gd) \in Int
  <2>1. Sx(gd) \in Int /\ Sy(gd) \in Int
    BY <1>1
  <2>2. (s.height * Sx(gd)) \div Sy(gd) \in Int
    BY <1>1, <2>1, Share, Zenon
  <2>3. (s.width * Sy(gd)) \div Sx(gd) \in Int
    BY <1>1, <2>1, Share, Zenon
  <2> QED
    BY <2>2, <2>3, Zenon
<1> DEFINE m == (s.height * Sx(gd)) \div Sy(gd)
           n == (s.width * Sy(gd)) \div Sx(gd)
           tall == s.width = 0 \/ (s.height # 0 /\ s.width * Sy(gd) > s.height * Sx(gd))
<1>3. Bounded(gd, s) = IF tall THEN Resized(gd, m, s.height) ELSE Resized(gd, s.width, n)
  BY DEF Bounded
<1> HIDE DEF m, n, tall
<1>4. m \in Int /\ n \in Int
  BY <1>2 DEF m, n
<1> QED
  BY <1>1, <1>3, <1>4, ResizedIs

LEMMA ScaledIs ==
  ASSUME NEW gd, IsSized(gd), gd # <<>>, NEW s, IsSetting(s)
  PROVE  IsPicture(Scaled(gd, s))
<1>1. /\ Sy(gd) \in Nat \ {0} /\ Sx(gd) \in Nat \ {0}
      /\ s.width \in Int /\ s.height \in Int /\ s.scale \in Int /\ 100 \in Nat \ {0}
  BY DEF IsSized, IsSetting
<1> DEFINE m == (s.height * Sx(gd)) \div Sy(gd)
           n == (s.width * Sy(gd)) \div Sx(gd)
           i == (Sx(gd) * s.scale) \div 100
           j == (Sy(gd) * s.scale) \div 100
<1>2. m \in Int /\ n \in Int /\ i \in Int /\ j \in Int
  <2>1. Sx(gd) \in Int /\ Sy(gd) \in Int
    BY <1>1
  <2>2. m \in Int
    BY <1>1, <2>1, Share, Zenon
  <2>3. n \in Int
    BY <1>1, <2>1, Share, Zenon
  <2>4. i \in Int
    BY <1>1, <2>1, Share, Zenon
  <2>5. j \in Int
    BY <1>1, <2>1, Share, Zenon
  <2> HIDE DEF m, n, i, j
  <2> QED
    BY <2>2, <2>3, <2>4, <2>5
<1>3. Scaled(gd, s) = IF s.scale > 1 THEN Resized(gd, Larger(i, 1), Larger(j, 1))
                      ELSE IF n > s.height THEN Resized(gd, m, s.height) ELSE Resized(gd, s.width, n)
  BY DEF Scaled
<1> HIDE DEF m, n, i, j
<1>4. Larger(i, 1) \in Int /\ Larger(j, 1) \in Int
  BY <1>2 DEF Larger
<1> QED
  BY <1>1, <1>2, <1>3, <1>4, ResizedIs

\* An image in the middle is as wide as the display, and not lower than before.
LEMMA CenteredIs ==
  ASSUME NEW gd, IsSized(gd), NEW oldheight \in Nat
  PROVE  /\ IsPicture(Centered(gd, oldheight))
         /\ Sy(Centered(gd, oldheight)) >= oldheight
         /\ oldheight > 0 => Sx(Centered(gd, oldheight)) = DCOLS
<1> DEFINE cx == DCOLS \div 2 - Sx(gd) \div 2
           cy == IF Sy(gd) < oldheight THEN oldheight \div 2 - Sy(gd) \div 2 ELSE 0
           H == Larger(Sy(gd), oldheight)
           Dot(p) == LET q == <<p[1] - cy, p[2] - cx>> IN IF q \in DOMAIN gd THEN gd[q] ELSE NO_COL
           f == Centered(gd, oldheight)
<1>1. f = [p \in Cells(0, 0, H, DCOLS) |-> Dot(p)]
  BY DEF Centered
<1>2. \A p : Dot(p) \in Colors
  BY Sizes DEF IsSized
<1>3. H \in Nat /\ H >= oldheight /\ DCOLS \in Nat \ {0}
  BY Sizes DEF Larger, IsSized
<1> HIDE DEF Dot, H, f
<1>4. f \in [Cells(0, 0, H, DCOLS) -> Colors]
  BY <1>1, <1>2
<1>5. IsPicture(f)
  BY <1>3, <1>4 DEF IsPicture
<1>6. CASE H = 0
  <2>1. oldheight = 0
    BY <1>3, <1>6
  <2>2. Sy(f) \in Nat
    BY <1>5, SizedIs DEF IsSized
  <2> QED
    BY <1>5, <2>1, <2>2 DEF f
<1>7. CASE H # 0
  <2>1. H \in Nat \ {0} /\ DOMAIN f = Cells(0, 0, H, DCOLS)
    BY <1>3, <1>4, <1>7
  <2>2. Sy(f) = H /\ Sx(f) = DCOLS
    BY <1>3, <2>1, SizeIs
  <2> QED
    BY <1>3, <1>5, <2>2 DEF f
<1> QED
  BY <1>6, <1>7

LEMMA PreparedIs ==
  ASSUME NEW gd, IsPicture(gd), gd # <<>>, NEW s, IsSetting(s), NEW oldheight \in Nat
  PROVE  /\ IsPicture(Prepared(gd, s, oldheight))
         /\ s.center => /\ Sy(Prepared(gd, s, oldheight)) >= oldheight
                        /\ oldheight > 0 => Sx(Prepared(gd, s, oldheight)) = DCOLS
<1> DEFINE sized == CASE s.scale = 100 -> IF s.width > 0 \/ s.height > 0 THEN Bounded(gd, s) ELSE gd
                      [] s.scale > 1 \/ s.scale = -1 -> Scaled(gd, s)
                      [] OTHER -> gd
<1>1. IsSized(gd)
  BY SizedIs
<1>2. IsPicture(Bounded(gd, s)) /\ IsPicture(Scaled(gd, s)) /\ s.scale \in Int
  BY <1>1, BoundedIs, ScaledIs DEF IsSetting
<1>3. IsPicture(sized)
  <2>1. CASE s.scale = 100
    BY <1>2, <2>1
  <2>2. CASE s.scale # 100 /\ (s.scale > 1 \/ s.scale = -1)
    BY <1>2, <2>2
  <2>3. CASE s.scale # 100 /\ ~ (s.scale > 1 \/ s.scale = -1)
    BY <1>2, <2>3
  <2> QED
    BY <2>1, <2>2, <2>3
<1>4. Prepared(gd, s, oldheight) = IF s.center THEN Centered(sized, oldheight) ELSE sized
  BY DEF Prepared
<1> HIDE DEF sized
<1>5. IsSized(sized)
  BY <1>3, SizedIs
<1>6. /\ IsPicture(Centered(sized, oldheight))
      /\ Sy(Centered(sized, oldheight)) >= oldheight
      /\ oldheight > 0 => Sx(Centered(sized, oldheight)) = DCOLS
  BY <1>5, CenteredIs
<1> QED
  BY <1>3, <1>4, <1>6

\* The data after Wiped: nothing is in the bitmap.
IsWiped(J) ==
  /\ IsBitmap(J) /\ J.oldheight >= J.height
  /\ J.bitmap = [p \in Cells(0, 0, J.height, J.width) |-> NO_COL]

LEMMA WipedIs ==
  ASSUME NEW I, IsBitmap(I)
  PROVE  /\ IsWiped(Wiped(I))
         /\ Wiped(I).gdImage = I.gdImage /\ Wiped(I).width = I.width /\ Wiped(I).height = I.height
         /\ Wiped(I).center = I.center /\ Wiped(I).visible = I.visible
<1>1. /\ IsImageRecord(I) /\ I.width \in Nat /\ I.height \in Nat /\ I.oldheight \in Nat
      /\ I.height = 0 <=> I.width = 0
      /\ I.bitmap \in [Cells(0, 0, I.height, I.width) -> Colors] /\ IsPicture(I.gdImage)
  BY DEF IsBitmap
<1>2. CASE I.bitmap = <<>>
  <2>1. Cells(0, 0, I.height, I.width) = {}
    <3>1. I.bitmap = <<>> <=> Cells(0, 0, I.height, I.width) = {}
      BY <1>1, NoPicture, Zenon
    <3> QED
      BY <1>2, <3>1
  <2>2. I.height = 0 /\ I.width = 0
    <3>1. I.height \in Int /\ I.width \in Int /\ 0 \in Int
      BY <1>1
    <3>2. Cells(0, 0, I.height, I.width) = {} <=> I.height <= 0 \/ I.width <= 0
      BY <3>1, NoCells, Zenon
    <3> QED
      BY <1>1, <2>1, <3>2
  <2>3. I.bitmap = [p \in Cells(0, 0, I.height, I.width) |-> NO_COL]
    BY <1>1, <2>1
  <2>4. Wiped(I) = I
    BY <1>2 DEF Wiped
  <2> QED
    BY <1>1, <2>2, <2>3, <2>4 DEF IsWiped
<1>3. CASE I.bitmap # <<>>
  <2> DEFINE bitmap == [p \in Cells(0, 0, I.height, I.width) |-> NO_COL]
             J == Wiped(I)
  <2>1. J = [I EXCEPT !.oldheight = I.height, !.bitmap = bitmap]
    BY <1>1, <1>3 DEF Wiped
  <2>2. bitmap \in [Cells(0, 0, I.height, I.width) -> Colors]
    BY Sizes
  <2> HIDE DEF bitmap, J
  <2>3. J = [gdImage |-> I.gdImage, bitmap |-> bitmap, width |-> I.width, height |-> I.height,
             oldheight |-> I.height, visible |-> I.visible, inverted |-> I.inverted, center |-> I.center]
    BY <1>1, <2>1 DEF IsImageRecord
  <2>4. IsImageRecord(J)
    BY <2>3 DEF IsImageRecord
  <2>5. /\ J.gdImage = I.gdImage /\ J.bitmap = bitmap /\ J.width = I.width /\ J.height = I.height
        /\ J.oldheight = I.height /\ J.center = I.center /\ J.visible = I.visible
    BY <2>3
  <2>6. IsBitmap(J)
    BY <1>1, <2>2, <2>4, <2>5 DEF IsBitmap
  <2>7. IsWiped(J)
    BY <1>1, <2>5, <2>6 DEF IsWiped, bitmap
  <2> QED
    BY <2>5, <2>7 DEF J
<1> QED
  BY <1>2, <1>3

\* What an image covers grows, or is as wide as the display.
Covering(height, width, J) == J.height >= height /\ (J.width >= width \/ J.width >= DCOLS)

\* The bitmap that a picture needs is there, and what is visible is put in it.
LEMMA FittedIs ==
  ASSUME NEW J, IsWiped(J)
  PROVE  /\ IsImage(Rendered(Fitted(J)))
         /\ Rendered(Fitted(J)).width = (IF Sx(J.gdImage) > J.width \/ J.center THEN Sx(J.gdImage) ELSE J.width)
         /\ Rendered(Fitted(J)).height = (IF Sy(J.gdImage) > J.height \/ J.center THEN Sy(J.gdImage) ELSE J.height)
<1> DEFINE sy == Sy(J.gdImage)
           sx == Sx(J.gdImage)
           width == IF sx > J.width \/ J.center THEN sx ELSE J.width
           height == IF sy > J.height \/ J.center THEN sy ELSE J.height
           same == ~ J.center /\ sx <= J.width /\ sy <= J.height
           bitmap == [p \in Cells(0, 0, height, width) |-> NO_COL]
           F == Fitted(J)
           R == Rendered(F)
<1>1. /\ IsImageRecord(J) /\ J.width \in Nat /\ J.height \in Nat /\ J.oldheight \in Nat
      /\ J.height = 0 <=> J.width = 0
      /\ J.bitmap = [p \in Cells(0, 0, J.height, J.width) |-> NO_COL]
      /\ IsPicture(J.gdImage)
  BY DEF IsWiped, IsBitmap
<1>2. /\ sy \in Nat /\ sx \in Nat /\ (sy = 0 <=> sx = 0)
      /\ J.gdImage \in [Cells(0, 0, sy, sx) -> Colors]
  <2>1. IsSized(J.gdImage)
    BY <1>1, SizedIs
  <2> QED
    BY <2>1 DEF IsSized
<1>3. F = [J EXCEPT !.width = width, !.height = height, !.bitmap = IF same THEN @ ELSE bitmap]
  BY DEF Fitted
<1> HIDE DEF sy, sx, F
<1>4. height \in Nat /\ width \in Nat /\ (height = 0 <=> width = 0) /\ sy <= height /\ sx <= width
  BY <1>1, <1>2
<1>5. same => height = J.height /\ width = J.width
  BY <1>1, <1>2
<1> HIDE DEF height, width, same
<1>6. (IF same THEN J.bitmap ELSE bitmap) = bitmap
  BY <1>1, <1>5
<1> HIDE DEF bitmap
<1>7. F = [gdImage |-> J.gdImage, bitmap |-> bitmap, width |-> width, height |-> height,
           oldheight |-> J.oldheight, visible |-> J.visible, inverted |-> J.inverted, center |-> J.center]
  <2> DEFINE e == IF same THEN J.bitmap ELSE bitmap
  <2>1. F = [J EXCEPT !.width = width, !.height = height, !.bitmap = e]
    BY <1>3
  <2> HIDE DEF e
  <2>2. e = bitmap
    BY <1>6 DEF e
  <2> QED
    BY <1>1, <2>1, <2>2 DEF IsImageRecord
<1>8. /\ F.gdImage = J.gdImage /\ F.bitmap = bitmap /\ F.width = width /\ F.height = height
      /\ F.visible = J.visible /\ F.inverted = J.inverted /\ F.oldheight = J.oldheight
      /\ IsImageRecord(F)
  BY <1>7 DEF IsImageRecord
<1>9. DOMAIN J.gdImage \subseteq Cells(0, 0, height, width)
  <2> SUFFICES ASSUME NEW p \in Cells(0, 0, sy, sx) PROVE p \in Cells(0, 0, height, width)
    BY <1>2
  <2>1. /\ p = <<p[1], p[2]>> /\ p[1] \in Int /\ p[2] \in Int
        /\ 0 <= p[1] /\ p[1] < 0 + sy /\ 0 <= p[2] /\ p[2] < 0 + sx
    BY <1>2, CellOf
  <2>2. p[1] < 0 + height /\ p[2] < 0 + width
    BY <1>2, <1>4, <2>1
  <2>3. <<p[1], p[2]>> \in Cells(0, 0, height, width)
    BY <1>4, <2>1, <2>2, CellAt
  <2> QED
    BY <2>1, <2>3
<1>10. bitmap \in [Cells(0, 0, height, width) -> Colors] /\ \A p \in Cells(0, 0, height, width) : bitmap[p] = NO_COL
  BY Sizes DEF bitmap
<1>11. IsBitmap(F)
  BY <1>1, <1>4, <1>8, <1>10 DEF IsBitmap
<1>12. CASE ~ F.visible
  <2>1. R = F
    BY <1>12 DEF Rendered
  <2>2. IsImage(F)
    BY <1>8, <1>9, <1>10, <1>11, <1>12 DEF IsImage
  <2> QED
    BY <1>8, <2>1, <2>2 DEF F, height, width, sy, sx
<1>13. CASE F.visible
  <2> DEFINE painted == [p \in Cells(0, 0, height, width) |-> ImagePixel(F, p)]
  <2>1. [F EXCEPT !.bitmap = [p \in DOMAIN @ |->
            IF p \notin DOMAIN F.gdImage THEN @[p]
            ELSE IF F.inverted THEN Inverted(F.gdImage[p]) ELSE F.gdImage[p]]]
          = [F EXCEPT !.bitmap = painted]
    <3> DEFINE b == [p \in DOMAIN F.bitmap |->
                       IF p \notin DOMAIN F.gdImage THEN F.bitmap[p]
                       ELSE IF F.inverted THEN Inverted(F.gdImage[p]) ELSE F.gdImage[p]]
    <3>1. DOMAIN F.bitmap = Cells(0, 0, height, width) /\ \A p \in DOMAIN F.bitmap : F.bitmap[p] = NO_COL
      BY <1>8, <1>10
    <3>2. \A p \in DOMAIN F.bitmap : b[p] = ImagePixel(F, p)
      BY <3>1 DEF ImagePixel
    <3>3. b = painted
      BY <3>1, <3>2
    <3> HIDE DEF painted
    <3> QED
      BY <3>3
  <2>2. R = [F EXCEPT !.bitmap = painted]
    BY <1>13, <2>1 DEF Rendered
  <2>3. painted \in [Cells(0, 0, height, width) -> Colors]
    <3> SUFFICES ASSUME NEW p \in Cells(0, 0, height, width) PROVE ImagePixel(F, p) \in Colors
      OBVIOUS
    <3>1. CASE p \notin DOMAIN F.gdImage
      BY <3>1, Sizes DEF ImagePixel
    <3>2. CASE p \in DOMAIN F.gdImage
      <4>1. F.gdImage[p] \in Colors
        BY <1>2, <1>8, <3>2
      <4>2. ASSUME NEW c \in Colors PROVE Inverted(c) \in Colors
        BY DEF Inverted, Colors
      <4> QED
        BY <3>2, <4>1, <4>2 DEF ImagePixel
    <3> QED
      BY <3>1, <3>2
  <2>4. \A p \in Cells(0, 0, height, width) : painted[p] = ImagePixel(F, p)
    OBVIOUS
  <2> HIDE DEF painted, R
  <2>5. R = [gdImage |-> F.gdImage, bitmap |-> painted, width |-> F.width, height |-> F.height,
             oldheight |-> F.oldheight, visible |-> F.visible, inverted |-> F.inverted, center |-> F.center]
    BY <1>8, <2>2 DEF IsImageRecord
  <2>6. /\ R.gdImage = F.gdImage /\ R.bitmap = painted /\ R.width = F.width /\ R.height = F.height
        /\ R.oldheight = F.oldheight /\ R.visible = F.visible /\ R.inverted = F.inverted
        /\ IsImageRecord(R)
    BY <2>5 DEF IsImageRecord
  <2>7. IsBitmap(R)
    BY <1>8, <1>11, <2>3, <2>6 DEF IsBitmap
  <2>8. DOMAIN R.gdImage \subseteq DOMAIN R.bitmap
    BY <1>8, <1>9, <2>3, <2>6
  <2>9. \A p \in DOMAIN R.bitmap : R.bitmap[p] = ImagePixel(R, p)
    <3>1. \A p : ImagePixel(R, p) = ImagePixel(F, p)
      BY <2>6 DEF ImagePixel
    <3> QED
      BY <2>3, <2>4, <2>6, <3>1
  <2>10. IsImage(R)
    BY <2>7, <2>8, <2>9 DEF IsImage
  <2> QED
    BY <1>8, <2>6, <2>10 DEF F, R, height, width, sy, sx
<1> QED
  BY <1>12, <1>13

LEMMA ImageRenders ==
  ASSUME NEW I, IsBitmap(I), NEW s, IsSetting(s), I.center = s.center
  PROVE  /\ IsImage(widget_image_render(I, s))
         /\ Covering(I.height, I.width, widget_image_render(I, s))
<1> DEFINE J == Wiped(I)
           gd == IF J.gdImage = <<>> \/ s.reload THEN s.file ELSE J.gdImage
<1>1. /\ IsWiped(J) /\ J.gdImage = I.gdImage /\ J.width = I.width /\ J.height = I.height
      /\ J.center = I.center
  BY WipedIs
<1>2. widget_image_render(I, s) =
        IF gd = <<>> THEN [J EXCEPT !.gdImage = <<>>]
        ELSE Rendered(Fitted([J EXCEPT !.gdImage = Prepared(gd, s, J.oldheight)]))
  BY DEF widget_image_render
<1>3. /\ IsImageRecord(J) /\ J.width \in Nat /\ J.height \in Nat /\ J.oldheight \in Nat
      /\ (J.height = 0 <=> J.width = 0) /\ IsPicture(J.gdImage)
      /\ J.bitmap \in [Cells(0, 0, J.height, J.width) -> Colors]
      /\ J.bitmap = [p \in Cells(0, 0, J.height, J.width) |-> NO_COL] /\ J.oldheight >= J.height
      /\ DCOLS \in Nat
  BY <1>1, Sizes DEF IsWiped, IsBitmap
<1>4. IsPicture(gd)
  BY <1>3 DEF IsSetting
<1> HIDE DEF J, gd
<1>5. ASSUME NEW image, IsPicture(image)
      PROVE  LET K == [J EXCEPT !.gdImage = image]
             IN /\ IsWiped(K) /\ K.gdImage = image /\ K.width = J.width /\ K.height = J.height
                /\ K.center = J.center /\ K.bitmap = J.bitmap
  <2> DEFINE K == [J EXCEPT !.gdImage = image]
  <2>1. K = [gdImage |-> image, bitmap |-> J.bitmap, width |-> J.width, height |-> J.height,
             oldheight |-> J.oldheight, visible |-> J.visible, inverted |-> J.inverted, center |-> J.center]
    BY <1>3 DEF IsImageRecord
  <2> HIDE DEF K
  <2>2. /\ IsImageRecord(K) /\ K.gdImage = image /\ K.width = J.width /\ K.height = J.height
        /\ K.center = J.center /\ K.bitmap = J.bitmap /\ K.oldheight = J.oldheight
    BY <2>1 DEF IsImageRecord
  <2>3. IsWiped(K)
    BY <1>3, <1>5, <2>2 DEF IsWiped, IsBitmap
  <2> QED
    BY <2>2, <2>3 DEF K
<1>6. CASE gd = <<>>
  <2> DEFINE K == [J EXCEPT !.gdImage = <<>>]
  <2>1. IsPicture(<<>>)
    BY <1>4, <1>6
  <2>2. /\ IsWiped(K) /\ K.gdImage = <<>> /\ K.width = J.width /\ K.height = J.height /\ K.bitmap = J.bitmap
    BY <1>5, <2>1
  <2> HIDE DEF K
  <2>3. DOMAIN K.gdImage = {}
    BY <2>2
  <2>4. \A p \in DOMAIN K.bitmap : K.bitmap[p] = ImagePixel(K, p)
    BY <1>3, <2>2, <2>3 DEF ImagePixel
  <2>5. IsImage(K)
    BY <2>2, <2>3, <2>4 DEF IsImage, IsWiped
  <2>6. Covering(I.height, I.width, K)
    BY <1>1, <1>3, <2>2 DEF Covering
  <2>7. widget_image_render(I, s) = K
    BY <1>2, <1>6 DEF K
  <2> QED
    BY <2>5, <2>6, <2>7
<1>7. CASE gd # <<>>
  <2> DEFINE image == Prepared(gd, s, J.oldheight)
             K == [J EXCEPT !.gdImage = image]
             R == Rendered(Fitted(K))
  <2>1. /\ IsPicture(image)
        /\ s.center => Sy(image) >= J.oldheight /\ (J.oldheight > 0 => Sx(image) = DCOLS)
    BY <1>3, <1>4, <1>7, PreparedIs
  <2> HIDE DEF image
  <2>2. IsWiped(K) /\ K.gdImage = image /\ K.width = J.width /\ K.height = J.height /\ K.center = J.center
    BY <1>5, <2>1
  <2> HIDE DEF K
  <2>3. /\ IsImage(R)
        /\ R.width = (IF Sx(image) > J.width \/ J.center THEN Sx(image) ELSE J.width)
        /\ R.height = (IF Sy(image) > J.height \/ J.center THEN Sy(image) ELSE J.height)
    BY <2>2, FittedIs
  <2> HIDE DEF R
  <2>4. Sy(image) \in Nat /\ Sx(image) \in Nat
    BY <2>1, SizedIs DEF IsSized
  <2>5. Covering(I.height, I.width, R)
    <3>1. CASE J.center
      <4>1. s.center
        BY <1>1, <3>1
      <4>2. R.width = Sx(image) /\ R.height = Sy(image)
        BY <2>3, <3>1
      <4>3. Sy(image) >= J.oldheight /\ (J.oldheight > 0 => Sx(image) = DCOLS)
        BY <2>1, <4>1
      <4> QED
        BY <1>1, <1>3, <2>4, <4>2, <4>3 DEF Covering
    <3>2. CASE ~ J.center
      BY <1>1, <1>3, <2>3, <2>4, <3>2 DEF Covering
    <3> QED
      BY <3>1, <3>2
  <2>6. widget_image_render(I, s) = R
    BY <1>2, <1>7 DEF R, K, image
  <2> QED
    BY <2>3, <2>5, <2>6
<1> QED
  BY <1>6, <1>7

LEMMA TextImageRenders ==
  ASSUME NEW I, IsBitmap(I), NEW s, IsSetting(s)
  PROVE  IsImage(widget_ttf_render(I, s))
<1> DEFINE J == Wiped(I)
           image == IF J.gdImage = <<>> \/ s.reload THEN s.file ELSE J.gdImage
           K == [J EXCEPT !.gdImage = image]
<1>1. IsWiped(J)
  BY WipedIs
<1>2. widget_ttf_render(I, s) = Rendered(Fitted(K))
  BY DEF widget_ttf_render
<1>3. /\ IsImageRecord(J) /\ J.width \in Nat /\ J.height \in Nat /\ J.oldheight \in Nat
      /\ (J.height = 0 <=> J.width = 0) /\ IsPicture(J.gdImage)
      /\ J.bitmap \in [Cells(0, 0, J.height, J.width) -> Colors]
      /\ J.bitmap = [p \in Cells(0, 0, J.height, J.width) |-> NO_COL] /\ J.oldheight >= J.height
  BY <1>1 DEF IsWiped, IsBitmap
<1>4. IsPicture(image)
  BY <1>3 DEF IsSetting
<1> HIDE DEF J, image
<1>5. K = [gdImage |-> image, bitmap |-> J.bitmap, width |-> J.width, height |-> J.height,
           oldheight |-> J.oldheight, visible |-> J.visible, inverted |-> J.inverted, center |-> J.center]
  BY <1>3 DEF IsImageRecord
<1> HIDE DEF K
<1>6. /\ IsImageRecord(K) /\ K.gdImage = image /\ K.width = J.width /\ K.height = J.height
      /\ K.bitmap = J.bitmap /\ K.oldheight = J.oldheight
  BY <1>5 DEF IsImageRecord
<1>7. IsWiped(K)
  BY <1>3, <1>4, <1>6 DEF IsWiped, IsBitmap
<1> QED
  BY <1>2, <1>7, FittedIs

-----------------------------------------------------------------------------
(* The canvas *)

Planes == [l \in 0 .. LAYERS - 1 |-> [p \in Extent |-> Pixel(l, p)]]
Screen == [p \in OnScreen |-> Lit(hw.ram, p[1], p[2])]

LEMMA PlanesAre ==
  Planes = PlanesOf(Layers) /\ Planes' = PlanesOf(Layers)'
<1>1. \A l, p : Pixel(l, p) = PixelOf(Layers, l, p)
  BY DEF Pixel, PixelOf, Layers
<1>2. \A l, p : Pixel(l, p)' = PixelOf(Layers, l, p)'
  BY DEF Pixel, PixelOf, Layers
<1> QED
  BY <1>1, <1>2 DEF Planes, PlanesOf

LEMMA DarkIs ==
  ASSUME NEW p
  PROVE  C!Dark(p) = DarkOf(Planes, p) /\ C!Dark(p)' = DarkOf(Planes', p)
<1>1. C!Dark(p) = DarkOf(Planes, p)
  BY DEF C!Dark, C!Light, DarkOf, LightOf, IsLight, Over, Planes
<1>2. C!Dark(p)' = DarkOf(Planes', p)
  BY DEF C!Dark, C!Light, DarkOf, LightOf, IsLight, Over, Planes
<1> QED
  BY <1>1, <1>2

\* The light at a place is that of its pixels.
LEMMA DarkSame ==
  ASSUME NEW a, NEW b, NEW p, \A l \in 0 .. LAYERS - 1 : a[l][p] = b[l][p]
  PROVE  DarkOf(a, p) = DarkOf(b, p)
<1>1. \A k \in 0 .. LAYERS : k # 0 => a[LAYERS - k][p] = b[LAYERS - k][p]
  <2> SUFFICES ASSUME NEW k \in 0 .. LAYERS, k # 0 PROVE a[LAYERS - k][p] = b[LAYERS - k][p]
    OBVIOUS
  <2>1. LAYERS - k \in 0 .. LAYERS - 1
    BY Sizes
  <2> QED
    BY <2>1
<1>2. ASSUME NEW f PROVE IsLight(f, a, p, LAYERS) <=> IsLight(f, b, p, LAYERS)
  <2> DEFINE A(k) == IF k = 0 THEN BL_COL.l ELSE Over(a[LAYERS - k][p], f[k - 1])
             B(k) == IF k = 0 THEN BL_COL.l ELSE Over(b[LAYERS - k][p], f[k - 1])
  <2>1. \A k \in 0 .. LAYERS : A(k) = B(k)
    BY <1>1
  <2>2. IsLight(f, a, p, LAYERS) <=> f = [k \in 0 .. LAYERS |-> A(k)]
    BY Zenon DEF IsLight
  <2>3. IsLight(f, b, p, LAYERS) <=> f = [k \in 0 .. LAYERS |-> B(k)]
    BY Zenon DEF IsLight
  <2> HIDE DEF A, B
  <2>4. [k \in 0 .. LAYERS |-> A(k)] = [k \in 0 .. LAYERS |-> B(k)]
    BY <2>1
  <2> QED
    BY <2>2, <2>3, <2>4
<1>3. (CHOOSE f : IsLight(f, a, p, LAYERS)) = (CHOOSE f : IsLight(f, b, p, LAYERS))
  <2> DEFINE P(f) == IsLight(f, a, p, LAYERS)
             Q(f) == IsLight(f, b, p, LAYERS)
  <2>1. \A f : P(f) <=> Q(f)
    BY <1>2
  <2> HIDE DEF P, Q
  <2>2. (CHOOSE f : P(f)) = (CHOOSE f : Q(f))
    BY <2>1, Zenon
  <2> QED
    BY <2>2 DEF P, Q
<1>4. LightOf(a, p) = LightOf(b, p)
  <2> DEFINE at == CHOOSE f : IsLight(f, a, p, LAYERS)
             bt == CHOOSE f : IsLight(f, b, p, LAYERS)
  <2>1. LightOf(a, p) = IF INVERTED THEN 255 - at[LAYERS] ELSE at[LAYERS]
    BY DEF LightOf
  <2>2. LightOf(b, p) = IF INVERTED THEN 255 - bt[LAYERS] ELSE bt[LAYERS]
    BY DEF LightOf
  <2>3. at = bt
    BY <1>3
  <2> HIDE DEF at, bt
  <2> QED
    BY <2>1, <2>2, <2>3
<1> QED
  BY <1>4 DEF DarkOf

\* The layers are empty, and the screen is right.
Clears(d2) ==
  /\ IsDisplay(d2) /\ PlanesOf(d2.g) = C!Empty
  /\ \A p \in OnScreen : Lit(d2.hw.ram, p[1], p[2]) = DarkOf(PlanesOf(d2.g), p)

LEMMA BlankIs ==
  ASSUME NEW rows \in Nat, NEW cols \in Nat, rows >= DROWS, cols >= DCOLS
  PROVE  LET g == [FB |-> Blank(rows, cols), LROWS |-> rows, LCOLS |-> cols]
         IN IsLayers(g) /\ PlanesOf(g) = C!Empty
<1> DEFINE g == [FB |-> Blank(rows, cols), LROWS |-> rows, LCOLS |-> cols]
<1>1. /\ g.FB = Blank(rows, cols) /\ g.LROWS = rows /\ g.LCOLS = cols
      /\ g = [FB |-> g.FB, LROWS |-> g.LROWS, LCOLS |-> g.LCOLS]
  OBVIOUS
<1> HIDE DEF g
<1>2. g.FB \in [0 .. LAYERS - 1 -> [0 .. rows * cols - 1 -> Colors]]
  BY <1>1, Sizes DEF Blank
<1>3. IsLayers(g)
  BY <1>1, <1>2 DEF IsLayers
<1>4. ASSUME NEW l \in 0 .. LAYERS - 1, NEW p \in Extent PROVE PixelOf(g, l, p) = NO_COL
  <2>1. CASE p[1] < rows /\ p[2] < cols
    <3>1. p[1] \in Nat /\ p[2] \in Nat
      BY Sizes
    <3> DEFINE i == p[1] * cols + p[2]
               N == rows * cols
    <3>2. i \in 0 .. N - 1
      BY <2>1, <3>1, PlaceIs
    <3>3. PixelOf(g, l, p) = g.FB[l][i]
      BY <1>1, <2>1 DEF PixelOf
    <3>4. g.FB = [k \in 0 .. LAYERS - 1 |-> [j \in 0 .. N - 1 |-> NO_COL]]
      BY <1>1 DEF Blank
    <3> HIDE DEF i, N
    <3> QED
      BY <3>2, <3>3, <3>4
  <2>2. CASE ~ (p[1] < rows /\ p[2] < cols)
    BY <1>1, <2>2 DEF PixelOf
  <2> QED
    BY <2>1, <2>2
<1>5. PlanesOf(g) = C!Empty
  BY <1>4 DEF PlanesOf, C!Empty, C!NO_COL, NO_COL
<1> QED
  BY <1>3, <1>5 DEF g

LEMMA ClearIs ==
  ASSUME Regular, NEW d, IsDisplay(d)
  PROVE  Clears(drv_generic_graphic_clear(d))
<1> DEFINE g == [FB |-> Blank(d.g.LROWS, d.g.LCOLS), LROWS |-> d.g.LROWS, LCOLS |-> d.g.LCOLS]
           e == [d EXCEPT !.g.FB = Blank(d.g.LROWS, d.g.LCOLS)]
           d2 == blit(e, 0, 0, d.g.LROWS, d.g.LCOLS)
<1>1. /\ d = [g |-> d.g, hw |-> d.hw] /\ IsHw(d.hw) /\ Synced(d.hw)
      /\ d.g = [FB |-> d.g.FB, LROWS |-> d.g.LROWS, LCOLS |-> d.g.LCOLS]
      /\ d.g.LROWS \in Nat /\ d.g.LCOLS \in Nat /\ d.g.LROWS >= DROWS /\ d.g.LCOLS >= DCOLS
  BY DEF IsDisplay, IsLayers
<1>2. IsLayers(g) /\ PlanesOf(g) = C!Empty
  BY <1>1, BlankIs
<1>3. e = [g |-> g, hw |-> d.hw]
  BY <1>1
<1>4. drv_generic_graphic_clear(d) = d2
  BY DEF drv_generic_graphic_clear
<1> HIDE DEF g, e
<1>5. e.g = g /\ e.hw = d.hw /\ IsDisplay(e)
  BY <1>1, <1>2, <1>3 DEF IsDisplay
<1>6. Lights(e, d2, 0, 0, d.g.LROWS, d.g.LCOLS)
  BY <1>1, <1>5, BlitLights
<1> HIDE DEF d2
<1>7. IsDisplay(d2) /\ d2.g = g
  BY <1>5, <1>6 DEF Lights
<1>8. ASSUME NEW p \in OnScreen PROVE Lit(d2.hw.ram, p[1], p[2]) = DarkOf(PlanesOf(d2.g), p)
  <2>1. p[1] \in Nat /\ p[2] \in Nat /\ p[1] < DROWS /\ p[2] < DCOLS
    BY Sizes DEF OnScreen
  <2>2. p[1] \in 0 .. 0 + d.g.LROWS - 1 /\ p[2] \in 0 .. 0 + d.g.LCOLS - 1
    BY <1>1, <2>1, Sizes
  <2>3. Lit(d2.hw.ram, p[1], p[2]) =
          IF p[1] \in 0 .. 0 + d.g.LROWS - 1 /\ p[2] \in 0 .. 0 + d.g.LCOLS - 1
          THEN DarkOf(PlanesOf(e.g), p) ELSE Lit(e.hw.ram, p[1], p[2])
    BY <1>6, Zenon DEF Lights
  <2>4. Lit(d2.hw.ram, p[1], p[2]) = DarkOf(PlanesOf(e.g), p)
    BY <2>2, <2>3, Zenon
  <2> QED
    BY <1>5, <1>7, <2>4, Zenon
<1> QED
  BY <1>2, <1>4, <1>7, <1>8 DEF Clears

\* What is written on empty layers is all they show.
Greets(d2, picture) ==
  /\ IsDisplay(d2)
  /\ PlanesOf(d2.g) = [C!Empty EXCEPT ![0] = C!Painted(@, picture)]
  /\ \A p \in OnScreen : Lit(d2.hw.ram, p[1], p[2]) = DarkOf(PlanesOf(d2.g), p)

LEMMA DrawsGreet ==
  ASSUME NEW d, Clears(d), NEW d2, NEW picture, Draws(d, d2, 0, picture)
  PROVE  Greets(d2, picture)
<1>1. IsDisplay(d2) /\ PlanesOf(d.g) = C!Empty
  BY DEF Clears, Draws
<1>2. PlanesOf(d2.g) = [PlanesOf(d.g) EXCEPT ![0] =
         [p \in Extent |-> IF p \in DOMAIN picture THEN picture[p] ELSE PlanesOf(d.g)[0][p]]]
  BY Zenon DEF Draws
<1>3. PlanesOf(d2.g) = [C!Empty EXCEPT ![0] = C!Painted(@, picture)]
  BY <1>1, <1>2 DEF C!Painted
<1>4. ASSUME NEW p \in OnScreen PROVE Lit(d2.hw.ram, p[1], p[2]) = DarkOf(PlanesOf(d2.g), p)
  <2>1. \/ Lit(d2.hw.ram, p[1], p[2]) = DarkOf(PlanesOf(d2.g), p)
        \/ p \notin DOMAIN picture /\ Lit(d2.hw.ram, p[1], p[2]) = Lit(d.hw.ram, p[1], p[2])
    BY Zenon DEF Draws
  <2>2. ASSUME p \notin DOMAIN picture PROVE DarkOf(PlanesOf(d2.g), p) = DarkOf(PlanesOf(d.g), p)
    <3>1. p \in Extent
      BY DEF OnScreen
    <3>2. \A l \in 0 .. LAYERS - 1 : PlanesOf(d2.g)[l][p] = PlanesOf(d.g)[l][p]
      <4> DEFINE a == PlanesOf(d.g)
                 b == PlanesOf(d2.g)
      <4>1. DOMAIN a = 0 .. LAYERS - 1
        BY DEF PlanesOf
      <4>2. b = [a EXCEPT ![0] = [q \in Extent |-> IF q \in DOMAIN picture THEN picture[q] ELSE a[0][q]]]
        BY <1>2
      <4> HIDE DEF a, b
      <4>3. \A l \in 0 .. LAYERS - 1 : b[l][p] = a[l][p]
        BY <2>2, <3>1, <4>1, <4>2
      <4> QED
        BY <4>3 DEF a, b
    <3> QED
      BY <3>2, DarkSame
  <2>3. Lit(d.hw.ram, p[1], p[2]) = DarkOf(PlanesOf(d.g), p)
    BY Zenon DEF Clears
  <2> QED
    BY <2>1, <2>2, <2>3, Zenon
<1> QED
  BY <1>1, <1>3, <1>4 DEF Greets

-----------------------------------------------------------------------------
(* Start and end *)

\* A message, as a widget and as a text.
GreetWidget(msg) ==
  [layer |-> 0, row |-> 2, col |-> (DCOLS \div XRES - Len(msg)) \div 2, fg |-> Default, bg |-> Default]
GreetText(msg) == [txt |-> msg, bold |-> FALSE]

LEMMA GreetIs ==
  ASSUME Regular, NEW d, IsDisplay(d), NEW msg, msg \in Seq(Range(msg)), Fits(msg)
  PROVE  Draws(d, greet(d, msg), 0, C!TextPicture(GreetWidget(msg), GreetText(msg)))
<1> DEFINE w == GreetWidget(msg)
           x == GreetText(msg)
<1>1. greet(d, msg) = render(d, w, x)
  BY DEF greet, GreetWidget, GreetText
<1>2. w.layer = 0 /\ w.row = 2 /\ w.col = (DCOLS \div XRES - Len(msg)) \div 2 /\ w.fg = Default /\ w.bg = Default
  BY DEF GreetWidget
<1>3. x.txt = msg /\ x.bold = FALSE
  BY DEF GreetText
<1>4. w.col \in Nat
  <2>1. Len(msg) \in Nat /\ DCOLS \div XRES \in Nat /\ Len(msg) <= DCOLS \div XRES
    BY Sizes DEF Fits
  <2> DEFINE n == DCOLS \div XRES
  <2> HIDE DEF n
  <2>2. (n - Len(msg)) \div 2 \in Nat
    BY <2>1 DEF n
  <2> QED
    BY <1>2, <2>2 DEF n
<1>5. IsPlaced(w)
  BY <1>2, <1>4, Sizes DEF IsPlaced, Fg, Bg
<1>6. IsText(x)
  BY <1>3 DEF IsText
<1> HIDE DEF w, x
<1>7. Draws(d, render(d, w, x), w.layer, C!TextPicture(w, x))
  BY <1>5, <1>6, RenderDraws
<1> QED
  BY <1>1, <1>2, <1>7 DEF w, x

\* The greeter of the canvas writes the same.
LEMMA GreeterIs ==
  C!TextPicture(C!Greeter, [txt |-> Goodbye, bold |-> FALSE]) = C!TextPicture(GreetWidget(Goodbye), GreetText(Goodbye))
<1> DEFINE v == C!Greeter
           w == GreetWidget(Goodbye)
           x == GreetText(Goodbye)
<1>1. v.row = w.row /\ v.col = w.col /\ v.fg = w.fg /\ v.bg = w.bg
  BY DEF C!Greeter, GreetWidget, C!Default, Default
<1>2. C!Fg(v) = C!Fg(w) /\ C!Bg(v) = C!Bg(w) /\ C!Top(v) = C!Top(w) /\ C!Left(v) = C!Left(w)
  BY <1>1 DEF C!Fg, C!Bg, C!Top, C!Left
<1> HIDE DEF v, w, x
<1>3. C!TextPicture(v, x) = C!TextPicture(w, x)
  BY <1>2 DEF C!TextPicture
<1> QED
  BY <1>3 DEF v, w, x, GreetText

\* After the start, nothing is lit.
LEMMA StartIs ==
  ASSUME Regular, NEW junk
  PROVE  LET h == drv_T6_start([x \in Addresses |-> {}], junk)
         IN /\ IsHw(h) /\ Synced(h)
            /\ \A r \in 0 .. DROWS - 1, c \in 0 .. DCOLS - 1 : Lit(h.ram, r, c) = FALSE
<1> DEFINE ram == [x \in Addresses |-> {}]
           h == drv_T6_start(ram, junk)
           half == (TCOLS * TROWS * LINES) \div 2
           whole == TCOLS * TROWS * LINES
           cleared(k) == [i \in 0 .. REACH |-> IF i < SIZE THEN {} ELSE junk[k]]
<1>1. \A addr, len : drv_T6_clear(ram, addr, len) = ram
  BY DEF drv_T6_clear
<1>2. h = [Buffer1 |-> cleared(1), Buffer2 |-> cleared(2), strayed |-> {}, ram |-> ram]
  <2>1. h = [Buffer1 |-> cleared(1), Buffer2 |-> cleared(2), strayed |-> {},
             ram |-> IF DualScan THEN drv_T6_clear(drv_T6_clear(ram, GRAPHIC, half), LOWER, half)
                     ELSE drv_T6_clear(ram, GRAPHIC, whole)]
    BY DEF drv_T6_start
  <2> HIDE DEF ram, half, whole, cleared
  <2> QED
    BY <1>1, <2>1
<1> HIDE DEF h
<1>3. h = [Buffer1 |-> h.Buffer1, Buffer2 |-> h.Buffer2, strayed |-> h.strayed, ram |-> h.ram]
      /\ h.Buffer1 = cleared(1) /\ h.Buffer2 = cleared(2) /\ h.strayed = {} /\ h.ram = ram
  <2> HIDE DEF cleared, ram
  <2> QED
    BY <1>2
<1>r. REACH = SIZE + 1
  BY T6963Sizes
<1>4. IsHw(h)
  BY <1>3, <1>r DEF IsHw
<1>5. \A i \in 0 .. SIZE - 1 : h.Buffer1[i] = {} /\ h.Buffer2[i] = {} /\ h.ram[At(i)] = {}
  <2> SUFFICES ASSUME NEW i \in 0 .. SIZE - 1 PROVE h.Buffer1[i] = {} /\ h.Buffer2[i] = {} /\ h.ram[At(i)] = {}
    OBVIOUS
  <2>1. SIZE \in Nat
    BY T6963Sizes
  <2>2. i \in 0 .. REACH /\ i < SIZE /\ At(i) \in Addresses
    BY <1>r, <2>1, AddressOf
  <2> QED
    BY <1>3, <2>2
<1>6. Synced(h)
  BY <1>5 DEF Synced
<1>7. ASSUME NEW r \in 0 .. DROWS - 1, NEW c \in 0 .. DCOLS - 1 PROVE Lit(h.ram, r, c) = FALSE
  <2>1. Byte(r, c) \in 0 .. SIZE - 1
    BY ByteIs
  <2>2. Lit(h.ram, r, c) = (CELL - 1 - (c % CELL) \in h.Buffer1[Byte(r, c)])
    BY <1>4, <1>6, LitIs
  <2>3. h.Buffer1[Byte(r, c)] = {}
    BY <1>5, <2>1
  <2>4. ~ (CELL - 1 - (c % CELL) \in h.Buffer1[Byte(r, c)])
    BY <2>3
  <2>5. ~ Lit(h.ram, r, c)
    BY <2>2, <2>4
  <2> QED
    BY <2>5 DEF Lit
<1> QED
  BY <1>4, <1>6, <1>7 DEF h

\* The data of the widgets.
IsIcon(I) == I = [visible |-> I.visible, map |-> I.map]
Icons == Icon = [n \in Named({"icon"}) |-> Icon[n]] /\ \A n \in Named({"icon"}) : IsIcon(Icon[n])
Images == Image = [n \in Named(Pictured) |-> Image[n]] /\ \A n \in Named(Pictured) : IsImage(Image[n])
Scales == Bar = [w \in Bars |-> Bar[w]] /\ \A w \in Bars : Bar[w].min \in Int /\ Bar[w].max \in Int

\* The image covers all that was drawn of it, or the width of the display.
Covered ==
  \A w \in Widgets :
    w.class = "image" /\ shown[w] # None =>
      /\ shown[w].height \in Nat /\ shown[w].width \in Nat
      /\ Covering(shown[w].height, shown[w].width, Image[w.name])

\* The inductive invariant: layers and buffers have their sizes and the display has what
\* was sent; bitmaps fit what they hold.
IInv ==
  /\ IsDisplay(Display) /\ Icons /\ Images /\ Scales
  /\ shown = [w \in Widgets |-> shown[w]] /\ Covered

LEMMA TypeIs ==
  ASSUME IsLayers(Layers), Images, Regular => IsHw(hw)
  PROVE  TypeOK
<1>2. /\ LROWS >= DROWS /\ LCOLS >= DCOLS
      /\ \A l \in 0 .. LAYERS - 1 : DOMAIN FB[l] = 0 .. LROWS * LCOLS - 1
  BY DEF IsLayers, Layers
<1>4. DOMAIN Image = Named(Pictured) /\ \A n \in Named(Pictured) : IsImage(Image[n])
  BY DEF Images
<1>5. \A n \in DOMAIN Image :
        LET I == Image[n]
        IN /\ DOMAIN I.bitmap = Cells(0, 0, I.height, I.width) \/ I.bitmap = <<>>
           /\ I.gdImage = <<>> \/ DOMAIN I.gdImage \subseteq DOMAIN I.bitmap
  BY <1>4 DEF IsImage, IsBitmap
<1> QED
  BY <1>2, <1>5 DEF TypeOK, OverrunIsShort, IsHw

LEMMA ImagesStart ==
  ASSUME Init
  PROVE  Images
<1> DEFINE I == [gdImage |-> <<>>, bitmap |-> <<>>, width |-> 0, height |-> 0, oldheight |-> 0,
                 visible |-> FALSE, inverted |-> FALSE, center |-> FALSE]
<1>1. /\ I.gdImage = <<>> /\ I.bitmap = <<>> /\ I.width = 0 /\ I.height = 0 /\ I.oldheight = 0
      /\ I.visible = FALSE /\ IsImageRecord(I)
  BY DEF IsImageRecord
<1>2. Image = [n \in Named(Pictured) |-> I]
  BY DEF Init
<1> HIDE DEF I
<1>3. Cells(0, 0, 0, 0) = {}
  BY NoCells
<1>4. <<>> \in [Cells(0, 0, 0, 0) -> Colors]
  <2> DEFINE f == [p \in Cells(0, 0, 0, 0) |-> NO_COL]
  <2>1. f \in [Cells(0, 0, 0, 0) -> Colors]
    BY Sizes
  <2> HIDE DEF f
  <2>2. f = <<>> <=> Cells(0, 0, 0, 0) = {}
    BY <2>1, NoPicture, Zenon
  <2> QED
    BY <1>3, <2>1, <2>2
<1>5. IsPicture(<<>>)
  BY <1>4 DEF IsPicture
<1>6. IsBitmap(I)
  BY <1>1, <1>4, <1>5 DEF IsBitmap
<1>7. IsImage(I)
  BY <1>1, <1>6 DEF IsImage
<1> QED
  BY <1>2, <1>7 DEF Images

LEMMA InitIs ==
  ASSUME Regular, Init
  PROVE  IInv /\ C!Init
<1>1. PICK quiet \in BOOLEAN, junk \in Junk :
        /\ FB = drv_T6_init(quiet, junk).g.FB /\ LROWS = drv_T6_init(quiet, junk).g.LROWS
        /\ LCOLS = drv_T6_init(quiet, junk).g.LCOLS /\ hw = drv_T6_init(quiet, junk).hw
  BY Zenon DEF Init
<1> DEFINE d2 == drv_T6_init(quiet, junk)
           d == [g |-> [FB |-> Blank(DROWS, DCOLS), LROWS |-> DROWS, LCOLS |-> DCOLS],
                 hw |-> drv_T6_start([x \in Addresses |-> {}], junk)]
<1>2. d2 = IF quiet \/ ~ Fits(Hello) THEN d ELSE drv_generic_graphic_clear(greet(d, Hello))
  BY DEF drv_T6_init
<1>3. IsDisplay(d) /\ PlanesOf(d.g) = C!Empty
      /\ \A r \in 0 .. DROWS - 1, c \in 0 .. DCOLS - 1 : Lit(d.hw.ram, r, c) = FALSE
  <2> DEFINE g == [FB |-> Blank(DROWS, DCOLS), LROWS |-> DROWS, LCOLS |-> DCOLS]
             h == drv_T6_start([x \in Addresses |-> {}], junk)
  <2>1. IsLayers(g) /\ PlanesOf(g) = C!Empty
    BY Sizes, BlankIs
  <2>2. /\ IsHw(h) /\ Synced(h)
        /\ \A r \in 0 .. DROWS - 1, c \in 0 .. DCOLS - 1 : Lit(h.ram, r, c) = FALSE
    BY StartIs
  <2> HIDE DEF g, h
  <2>3. d = [g |-> g, hw |-> h] /\ d.g = g /\ d.hw = h
    BY DEF g, h
  <2> HIDE DEF d
  <2> QED
    BY <2>1, <2>2, <2>3 DEF IsDisplay
<1> HIDE DEF d, d2
<1>4. /\ IsDisplay(d2) /\ PlanesOf(d2.g) = C!Empty
      /\ \/ \A p \in OnScreen : Lit(d2.hw.ram, p[1], p[2]) = FALSE
         \/ \A p \in OnScreen : Lit(d2.hw.ram, p[1], p[2]) = DarkOf(PlanesOf(d2.g), p)
  <2>1. CASE quiet \/ ~ Fits(Hello)
    <3>1. d2 = d
      BY <1>2, <2>1
    <3>2. \A p \in OnScreen : p[1] \in 0 .. DROWS - 1 /\ p[2] \in 0 .. DCOLS - 1
      BY Sizes DEF OnScreen
    <3>3. \A p \in OnScreen : Lit(d.hw.ram, p[1], p[2]) = FALSE
      BY <1>3, <3>2, Zenon
    <3> QED
      BY <1>3, <3>1, <3>3
  <2>2. CASE ~ (quiet \/ ~ Fits(Hello))
    <3>1. d2 = drv_generic_graphic_clear(greet(d, Hello))
      BY <1>2, <2>2
    <3>2. Hello \in Seq(Range(Hello))
      BY GraphicAssumption
    <3>3. IsDisplay(greet(d, Hello))
      BY <1>3, <2>2, <3>2, GreetIs DEF Draws
    <3>4. Clears(d2)
      BY <3>1, <3>3, ClearIs
    <3> QED
      BY <3>4, Zenon DEF Clears
  <2> QED
    BY <2>1, <2>2
<1>5. Display = d2 /\ Layers = d2.g /\ hw = d2.hw
  BY <1>1, <1>4 DEF Display, Layers, IsDisplay, IsLayers, d2
<1>6. Planes = C!Empty
  BY <1>4, <1>5, PlanesAre
<1>7. IInv
  <2>1. IsDisplay(Display)
    BY <1>4, <1>5
  <2>2. Icons
    BY DEF Init, Icons, IsIcon
  <2>3. Images
    BY ImagesStart
  <2>4. Scales
    BY DEF Init, Scales
  <2>5. shown = [w \in Widgets |-> shown[w]] /\ \A w \in Widgets : shown[w] = None
    BY DEF Init
  <2>6. Covered
    BY <2>5 DEF Covered
  <2> QED
    BY <2>1, <2>2, <2>3, <2>4, <2>5, <2>6 DEF IInv
<1>8. C!Init
  <2>1. shown = C!Nothing
    BY DEF Init, C!Nothing
  <2>2. Screen \in {[p \in OnScreen |-> FALSE], [p \in OnScreen |-> DarkOf(Planes, p)]}
    <3>1. Planes = PlanesOf(d2.g)
      BY <1>5, PlanesAre
    <3>2. CASE \A p \in OnScreen : Lit(d2.hw.ram, p[1], p[2]) = FALSE
      <4>1. Screen = [p \in OnScreen |-> FALSE]
        BY <1>5, <3>2, Zenon DEF Screen
      <4> QED
        BY <4>1
    <3>3. CASE \A p \in OnScreen : Lit(d2.hw.ram, p[1], p[2]) = DarkOf(PlanesOf(d2.g), p)
      <4>1. Screen = [p \in OnScreen |-> DarkOf(Planes, p)]
        BY <1>5, <3>1, <3>3, Zenon DEF Screen
      <4> QED
        BY <4>1
    <3> QED
      BY <1>4, <3>2, <3>3
  <2>3. [p \in OnScreen |-> DarkOf(Planes, p)] = [p \in C!Screen |-> C!Dark(p)]
    <3>1. \A p : C!Dark(p) = DarkOf(Planes, p)
      BY DarkIs
    <3>2. C!Screen = OnScreen
      BY DEF C!Screen, OnScreen
    <3> QED
      BY <3>1, <3>2, Zenon
  <2>4. C!Screen = OnScreen
    BY DEF C!Screen, OnScreen
  <2> QED
    BY <1>6, <2>1, <2>2, <2>3, <2>4 DEF C!Init, Planes, Screen, OnScreen
<1> QED
  BY <1>7, <1>8

-----------------------------------------------------------------------------
(* Steps *)

\* The layers and the display after a step.
LEMMA NextDisplay ==
  ASSUME NEW d, IsDisplay(d), FB' = d.g.FB, LROWS' = d.g.LROWS, LCOLS' = d.g.LCOLS, hw' = d.hw
  PROVE  Display' = d /\ Layers' = d.g /\ hw' = d.hw
<1>1. d = [g |-> d.g, hw |-> d.hw] /\ d.g = [FB |-> d.g.FB, LROWS |-> d.g.LROWS, LCOLS |-> d.g.LCOLS]
  BY DEF IsDisplay, IsLayers
<1>2. Layers' = d.g
  BY <1>1 DEF Layers
<1> QED
  BY <1>1, <1>2 DEF Display

\* A widget draws its content.
LEMMA DrawStep ==
  ASSUME IsDisplay(Display), shown = [v \in Widgets |-> shown[v]],
         NEW w \in Widgets, NEW x, x # None, NEW d, Shows(w, x, d),
         Draws(Display, d, w.layer, C!Picture(w, x)), C!Covers(w)
  PROVE  IsDisplay(Display)' /\ C!Draw(w)
<1> DEFINE picture == C!Picture(w, x)
<1>1. /\ shown' = [shown EXCEPT ![w] = x]
      /\ FB' = d.g.FB /\ LROWS' = d.g.LROWS /\ LCOLS' = d.g.LCOLS /\ hw' = d.hw
  BY DEF Shows
<1>2. /\ IsDisplay(d)
      /\ PlanesOf(d.g) = [PlanesOf(Layers) EXCEPT ![w.layer] =
            [p \in Extent |-> IF p \in DOMAIN picture THEN picture[p] ELSE PlanesOf(Layers)[w.layer][p]]]
      /\ \A p \in OnScreen : \/ Lit(d.hw.ram, p[1], p[2]) = DarkOf(PlanesOf(d.g), p)
                             \/ p \notin DOMAIN picture /\ Lit(d.hw.ram, p[1], p[2]) = Lit(hw.ram, p[1], p[2])
  <2>1. Display.g = Layers /\ Display.hw = hw
    BY DEF Display
  <2> HIDE DEF picture
  <2>2. Draws(Display, d, w.layer, picture)
    BY DEF picture
  <2> QED
    BY <2>1, <2>2, Zenon DEF Draws
<1>3. Display' = d /\ Layers' = d.g /\ hw' = d.hw
  BY <1>1, <1>2, NextDisplay
<1>4. shown'[w] = x
  BY <1>1
<1>5. Planes = PlanesOf(Layers) /\ Planes' = PlanesOf(d.g)
  <2>1. PlanesOf(Layers)' = PlanesOf(Layers')
    BY DEF PlanesOf, PixelOf
  <2> QED
    BY <1>3, <2>1, PlanesAre
<1> HIDE DEF picture
<1>6. Planes' = [Planes EXCEPT ![w.layer] = C!Painted(@, picture)]
  BY <1>2, <1>5 DEF C!Painted
<1>7. ASSUME NEW p \in OnScreen
      PROVE  \/ Screen'[p] = C!Dark(p)'
             \/ p \notin DOMAIN picture /\ Screen'[p] = Screen[p]
  <2>1. Screen'[p] = Lit(d.hw.ram, p[1], p[2]) /\ Screen[p] = Lit(hw.ram, p[1], p[2])
    BY <1>3 DEF Screen
  <2>2. C!Dark(p)' = DarkOf(PlanesOf(d.g), p)
    BY <1>5, DarkIs
  <2>3. \/ Lit(d.hw.ram, p[1], p[2]) = DarkOf(PlanesOf(d.g), p)
        \/ p \notin DOMAIN picture /\ Lit(d.hw.ram, p[1], p[2]) = Lit(hw.ram, p[1], p[2])
    BY <1>2
  <2> QED
    BY <2>1, <2>2, <2>3, Zenon
<1>8. C!Screen = OnScreen
  BY DEF C!Screen, OnScreen
<1>9. C!Draw(w)
  <2>1. C!Picture(w, shown'[w]) = picture
    BY <1>4, Zenon DEF picture
  <2>2. shown' = [shown EXCEPT ![w] = shown'[w]] /\ shown'[w] # None
    BY <1>1, <1>4
  <2> QED
    BY <1>6, <1>7, <1>8, <2>1, <2>2, Zenon DEF C!Draw, Planes, Screen, OnScreen
<1>10. IsDisplay(Display)'
  <2>1. IsDisplay(Display')
    BY <1>2, <1>3
  <2> QED
    BY <2>1 DEF IsDisplay, IsLayers, IsHw, Synced
<1> QED
  BY <1>9, <1>10

\* A widget that may lie anywhere.
IsAnywhere(w) == w.layer \in 0 .. LAYERS - 1 /\ w.row \in Int /\ w.col \in Int
IsColored(w) == Fg(w) \in Colors /\ Bg(w) \in Colors

\* What the layout says of a widget.
LEMMA WidgetHas ==
  ASSUME NEW w \in Widgets
  PROVE  /\ w.class \in {"text", "icon", "bar"} \union Pictured /\ IsAnywhere(w)
         /\ w.class \notin Pictured => IsColored(w)
         /\ w.class = "text" =>
              \A x \in Texts(w) : x = [txt |-> x.txt, bold |-> x.bold] /\ IsText(x)
         /\ w.class = "bar" =>
              /\ BarColor(w, 1) \in Colors /\ BarColor(w, 2) \in Colors /\ w.len \in Nat
              /\ w.dir \in {"N", "E", "S", "W"} /\ w \in Bars
              /\ Values(w) \subseteq Int \X (Int \union {None}) \X (Int \union {None}) \X (Int \union {None})
         /\ w.class \in Pictured => w.name \in Named(Pictured) /\ \A s \in Settings(w) : IsSetting(s)
         /\ w.class = "icon" => w.name \in Named({"icon"})
<1>1. /\ w.class \in {"text", "icon", "bar"} \union Pictured
      /\ w.layer \in 0 .. LAYERS - 1 /\ w.row \in Int /\ w.col \in Int
      /\ w.class \notin Pictured => {w.fg, w.bg} \subseteq Colors \union {Default}
      /\ w.class = "text" =>
           \A x \in Texts(w) :
             x = [txt |-> x.txt, bold |-> x.bold] /\ x.txt \in Seq(Range(x.txt)) /\ x.bold \in BOOLEAN
      /\ w.class = "bar" =>
           /\ w.color \in [1 .. 2 -> Colors \union {Default}] /\ w.len \in Nat
           /\ w.dir \in {"N", "E", "S", "W"} /\ w.hollow \in BOOLEAN
           /\ Values(w) \subseteq Int \X (Int \union {None}) \X (Int \union {None}) \X (Int \union {None})
      /\ w.class \in Pictured =>
           \A s \in Settings(w) : Loaded(s.file) /\ {s.scale, s.width, s.height} \subseteq Int
  BY GraphicAssumption, Zenon
<1>2. w.class \notin Pictured => IsColored(w)
  BY <1>1, Sizes DEF IsColored, Fg, Bg
<1>3. w.class = "bar" => BarColor(w, 1) \in Colors /\ BarColor(w, 2) \in Colors
  <2> SUFFICES ASSUME w.class = "bar" PROVE BarColor(w, 1) \in Colors /\ BarColor(w, 2) \in Colors
    OBVIOUS
  <2>1. IsColored(w)
    BY <1>2 DEF Pictured
  <2>2. w.color[1] \in Colors \union {Default} /\ w.color[2] \in Colors \union {Default}
    BY <1>1
  <2> QED
    BY <2>1, <2>2 DEF BarColor, IsColored
<1>4. ASSUME NEW gd, Loaded(gd) PROVE IsPicture(gd)
  <2>1. CASE gd = <<>>
    <3>1. Cells(0, 0, 0, 0) = {}
      BY NoCells
    <3> DEFINE f == [p \in Cells(0, 0, 0, 0) |-> NO_COL]
    <3>2. f \in [Cells(0, 0, 0, 0) -> Colors]
      BY Sizes
    <3> HIDE DEF f
    <3>3. f = <<>> <=> Cells(0, 0, 0, 0) = {}
      BY <3>2, NoPicture, Zenon
    <3> QED
      BY <2>1, <3>1, <3>2, <3>3 DEF IsPicture
  <2>2. CASE gd # <<>>
    <3>1. PICK ny \in 1 .. Cardinality(DOMAIN gd), nx \in 1 .. Cardinality(DOMAIN gd) :
            gd \in [(0 .. ny - 1) \X (0 .. nx - 1) -> Colors]
      BY <1>4, <2>2, Zenon DEF Loaded
    <3>2. ny \in Int /\ nx \in Int
      OBVIOUS
    <3>3. Cells(0, 0, ny, nx) = (0 .. ny - 1) \X (0 .. nx - 1)
      BY <3>2 DEF Cells
    <3>4. gd \in [Cells(0, 0, ny, nx) -> Colors]
      BY <3>1, <3>3
    <3> QED
      BY <3>2, <3>4 DEF IsPicture
  <2> QED
    BY <2>1, <2>2
<1>5. w.class \in Pictured => w.name \in Named(Pictured) /\ \A s \in Settings(w) : IsSetting(s)
  BY <1>1, <1>4 DEF IsSetting, Named
<1> QED
  BY <1>1, <1>2, <1>3, <1>5 DEF IsText, IsAnywhere, Named, Bars

\* And of one whose place and length the code can do with.
LEMMA WidgetIs ==
  ASSUME Placed, NEW w \in Widgets
  PROVE  /\ w.class \in {"text", "icon", "bar"} \union Pictured /\ IsPixelPlaced(w)
         /\ w.class \notin Pictured => IsPlaced(w)
         /\ w.class = "text" =>
              \A x \in Texts(w) : x = [txt |-> x.txt, bold |-> x.bold] /\ IsText(x)
         /\ w.class = "bar" =>
              /\ IsBarWidget(w) /\ w \in Bars
              /\ Values(w) \subseteq Int \X (Int \union {None}) \X (Int \union {None}) \X (Int \union {None})
         /\ w.class \in Pictured => w.name \in Named(Pictured) /\ \A s \in Settings(w) : IsSetting(s)
         /\ w.class = "icon" => w.name \in Named({"icon"})
<1>1. w.row \in Nat /\ w.col \in Nat /\ w.layer \in 0 .. LAYERS - 1
  <2>1. IsAnywhere(w)
    BY WidgetHas
  <2>2. w.row >= 0 /\ w.col >= 0
    BY DEF Placed
  <2> QED
    BY <2>1, <2>2 DEF IsAnywhere
<1>2. w.class \notin Pictured => IsPlaced(w)
  BY <1>1, WidgetHas DEF IsPlaced, IsColored
<1>3. w.class = "bar" => IsBarWidget(w)
  <2> SUFFICES ASSUME w.class = "bar" PROVE IsBarWidget(w)
    OBVIOUS
  <2>1. IsPlaced(w)
    BY <1>2 DEF Pictured
  <2>2. w.hollow => w.len > 0
    BY Zenon DEF Placed
  <2> QED
    BY <2>1, <2>2, WidgetHas DEF IsBarWidget
<1> QED
  BY <1>1, <1>2, <1>3, WidgetHas DEF IsPixelPlaced

\* None stands for no content, which is not a record.
NoneIsNoFunction == None # [k \in DOMAIN None |-> None[k]]

LEMMA NoneIsNoRecord ==
  ASSUME NoneIsNoFunction
  PROVE  /\ \A a, b : [txt |-> a, bold |-> b] # None
         /\ \A a, b : [visible |-> a, map |-> b] # None
         /\ \A a : [val |-> a] # None
         /\ \A I, col : Content(I, col) # None
<1>1. \A S, f : (DOMAIN f = S /\ f = [k \in S |-> f[k]]) => f # None
  BY DEF NoneIsNoFunction
<1>2. \A a, b : [txt |-> a, bold |-> b] # None
  <2> SUFFICES ASSUME NEW a, NEW b PROVE [txt |-> a, bold |-> b] # None
    OBVIOUS
  <2> DEFINE f == [txt |-> a, bold |-> b]
  <2>1. f = [k \in {"txt", "bold"} |-> f[k]]
    OBVIOUS
  <2> QED
    BY <1>1, <2>1
<1>3. \A a, b : [visible |-> a, map |-> b] # None
  <2> SUFFICES ASSUME NEW a, NEW b PROVE [visible |-> a, map |-> b] # None
    OBVIOUS
  <2> DEFINE f == [visible |-> a, map |-> b]
  <2>1. f = [k \in {"visible", "map"} |-> f[k]]
    OBVIOUS
  <2> QED
    BY <1>1, <2>1
<1>4. \A a : [val |-> a] # None
  <2> SUFFICES ASSUME NEW a PROVE [val |-> a] # None
    OBVIOUS
  <2> DEFINE f == [val |-> a]
  <2>1. f = [k \in {"val"} |-> f[k]]
    OBVIOUS
  <2> QED
    BY <1>1, <2>1
<1>5. \A I, col : Content(I, col) # None
  <2> SUFFICES ASSUME NEW I, NEW col PROVE Content(I, col) # None
    OBVIOUS
  <2> DEFINE f == [image |-> I.gdImage, visible |-> I.visible, inverted |-> I.inverted,
                   height |-> I.height, width |-> I.width, col |-> col]
  <2>1. f = [k \in {"image", "visible", "inverted", "height", "width", "col"} |-> f[k]]
    OBVIOUS
  <2>2. f # None
    BY <1>1, <2>1
  <2> QED
    BY <2>2 DEF Content
<1> QED
  BY <1>2, <1>3, <1>4, <1>5

\* Only images have something to cover.
LEMMA CoveredStays ==
  ASSUME IInv, NEW w \in Widgets, w.class # "image", NEW x, shown' = [shown EXCEPT ![w] = x],
         \A v \in Widgets : v.class = "image" => Image'[v.name] = Image[v.name]
  PROVE  Covered' /\ shown' = [v \in Widgets |-> shown'[v]] /\ C!Covers(w)
<1>1. shown = [v \in Widgets |-> shown[v]] /\ Covered
  BY DEF IInv
<1>2. shown' = [v \in Widgets |-> shown'[v]]
  BY <1>1
<1>3. \A v \in Widgets : v.class = "image" => shown'[v] = shown[v]
  BY <1>1
<1>4. Covered'
  BY <1>1, <1>3 DEF Covered, Covering
<1> QED
  BY <1>2, <1>4 DEF C!Covers

LEMMA TextStep ==
  ASSUME Regular, Placed, NoneIsNoFunction, IInv, NEW w \in Widgets, TextUpdate(w)
  PROVE  IInv' /\ C!Draw(w)
<1>1. PICK x \in Texts(w) : Shows(w, x, render(Display, w, x))
  BY Zenon DEF TextUpdate
<1>2. w.class = "text" /\ UNCHANGED <<Icon, Image, Bar, life>>
  BY DEF TextUpdate
<1>3. x = [txt |-> x.txt, bold |-> x.bold] /\ IsText(x) /\ IsPlaced(w)
  BY <1>2, WidgetIs DEF Pictured
<1>4. x # None
  BY <1>3, NoneIsNoRecord
<1>5. Draws(Display, render(Display, w, x), w.layer, C!Picture(w, x))
  <2>1. C!Picture(w, x) = C!TextPicture(w, x)
    BY <1>2 DEF C!Picture
  <2>2. Draws(Display, render(Display, w, x), w.layer, C!TextPicture(w, x))
    BY <1>3, RenderDraws DEF IInv
  <2> QED
    BY <2>1, <2>2, Zenon
<1>6. shown' = [shown EXCEPT ![w] = x]
  BY <1>1 DEF Shows
<1>7. Covered' /\ shown' = [v \in Widgets |-> shown'[v]] /\ C!Covers(w)
  BY <1>2, <1>6, CoveredStays
<1>8. IsDisplay(Display)' /\ C!Draw(w)
  BY <1>1, <1>4, <1>5, <1>7, DrawStep DEF IInv
<1>9. Icons' /\ Images' /\ Scales'
  BY <1>2 DEF IInv, Icons, Images, Scales, IsIcon, IsImage, IsBitmap, IsImageRecord, IsPicture, ImagePixel
<1> QED
  BY <1>7, <1>8, <1>9 DEF IInv

LEMMA IconStep ==
  ASSUME Regular, Placed, NoneIsNoFunction, IInv, NEW w \in Widgets, IconUpdate(w)
  PROVE  IInv' /\ C!Draw(w)
<1> DEFINE I == Icon[w.name]
           X(f) == IF w.child THEN I
                   ELSE [visible |-> f[1], map |-> NextMap(I, f[2], Len(Bitmaps[w.name]) - 1)]
<1>1. PICK f \in Frames : /\ Icon' = [Icon EXCEPT ![w.name] = X(f)]
                          /\ Shows(w, X(f), icon_draw(Display, w, X(f)))
  BY Zenon DEF IconUpdate
<1>2. w.class = "icon" /\ UNCHANGED <<Image, Bar, life>>
  BY DEF IconUpdate
<1>3. IsPlaced(w) /\ w.name \in Named({"icon"})
  BY <1>2, WidgetIs DEF Pictured
<1>4. Icon = [n \in Named({"icon"}) |-> Icon[n]] /\ \A n \in Named({"icon"}) : IsIcon(Icon[n])
  BY DEF IInv, Icons
<1> DEFINE x == X(f)
<1>5. IsIcon(x)
  <2>1. IsIcon(I)
    BY <1>3, <1>4
  <2>2. \A a, b : IsIcon([visible |-> a, map |-> b])
    BY DEF IsIcon
  <2> QED
    BY <2>1, <2>2
<1>6. Icon' = [Icon EXCEPT ![w.name] = x] /\ Shows(w, x, icon_draw(Display, w, x))
  BY <1>1
<1> HIDE DEF x
<1>7. x # None
  BY <1>5, NoneIsNoRecord DEF IsIcon
<1>8. Draws(Display, icon_draw(Display, w, x), w.layer, C!Picture(w, x))
  <2>1. C!Picture(w, x) = C!IconPicture(w, x)
    BY <1>2 DEF C!Picture
  <2>2. Draws(Display, icon_draw(Display, w, x), w.layer, C!IconPicture(w, x))
    BY <1>3, IconDraws DEF IInv
  <2> QED
    BY <2>1, <2>2, Zenon
<1>9. shown' = [shown EXCEPT ![w] = x]
  BY <1>6 DEF Shows
<1>10. Covered' /\ shown' = [v \in Widgets |-> shown'[v]] /\ C!Covers(w)
  BY <1>2, <1>9, CoveredStays
<1>11. IsDisplay(Display)' /\ C!Draw(w)
  BY <1>6, <1>7, <1>8, <1>10, DrawStep DEF IInv
<1>12. Icons'
  <2>1. /\ DOMAIN Icon' = Named({"icon"}) /\ Icon' = [n \in Named({"icon"}) |-> Icon'[n]]
        /\ \A n \in Named({"icon"}) : Icon'[n] = IF n = w.name THEN x ELSE Icon[n]
    BY <1>3, <1>4, <1>6
  <2>2. \A n \in Named({"icon"}) : IsIcon(Icon'[n])
    BY <1>4, <1>5, <2>1
  <2> QED
    BY <2>1, <2>2 DEF Icons, IsIcon
<1>13. Images' /\ Scales'
  BY <1>2 DEF IInv, Images, Scales, IsImage, IsBitmap, IsImageRecord, IsPicture, ImagePixel
<1> QED
  BY <1>10, <1>11, <1>12, <1>13 DEF IInv

LEMMA BarStep ==
  ASSUME Regular, Placed, NoneIsNoFunction, IInv, NEW w \in Widgets, BarUpdate(w)
  PROVE  IInv' /\ C!Draw(w)
<1> DEFINE Val2(v) == IF v[2] = None THEN v[1] ELSE v[2]
           Min_(v) == IF v[3] = None THEN Smaller(Bar[w].min, Smaller(v[1], Val2(v))) ELSE v[3]
           Max_(v) == IF v[4] = None THEN Larger(Bar[w].max, Larger(v[1], Val2(v))) ELSE v[4]
           Part(v, val) == IF Max_(v) > Min_(v) THEN <<val - Min_(v), Max_(v) - Min_(v)>> ELSE <<0, 1>>
           X(v) == [val |-> <<Part(v, v[1]), Part(v, Val2(v))>>]
<1>1. PICK v \in Values(w) : /\ Bar' = [Bar EXCEPT ![w] = [min |-> Min_(v), max |-> Max_(v)]]
                             /\ Shows(w, X(v), bar_draw(Display, w, X(v)))
  <2>1. \E v \in Values(w) : \E d \in {bar_draw(Display, w, X(v))} :
          Bar' = [Bar EXCEPT ![w] = [min |-> Min_(v), max |-> Max_(v)]] /\ Shows(w, X(v), d)
    BY DEF BarUpdate
  <2> HIDE DEF X, Min_, Max_
  <2> QED
    BY <2>1
<1>2. w.class = "bar" /\ UNCHANGED <<Icon, Image, life>>
  BY DEF BarUpdate
<1>3. IsBarWidget(w) /\ w \in Bars
      /\ v \in Int \X (Int \union {None}) \X (Int \union {None}) \X (Int \union {None})
  BY <1>2, WidgetIs
<1>4. Bar = [u \in Bars |-> Bar[u]] /\ \A u \in Bars : Bar[u].min \in Int /\ Bar[u].max \in Int
  BY DEF IInv, Scales
<1> DEFINE x == X(v)
           min == Min_(v)
           max == Max_(v)
           val2 == Val2(v)
<1>5. v[1] \in Int /\ val2 \in Int /\ min \in Int /\ max \in Int
  <2>1. /\ v[1] \in Int /\ v[2] \in Int \union {None} /\ v[3] \in Int \union {None} /\ v[4] \in Int \union {None}
    BY <1>3
  <2>2. val2 \in Int
    BY <2>1
  <2> HIDE DEF val2
  <2>3. min = IF v[3] = None THEN Smaller(Bar[w].min, Smaller(v[1], val2)) ELSE v[3]
    BY DEF val2
  <2>4. max = IF v[4] = None THEN Larger(Bar[w].max, Larger(v[1], val2)) ELSE v[4]
    BY DEF val2
  <2>5. Bar[w].min \in Int /\ Bar[w].max \in Int
    BY <1>3, <1>4
  <2> HIDE DEF min, max
  <2> QED
    BY <2>1, <2>2, <2>3, <2>4, <2>5 DEF Smaller, Larger
<1>6. x = [val |-> <<IF max > min THEN <<v[1] - min, max - min>> ELSE <<0, 1>>,
                     IF max > min THEN <<val2 - min, max - min>> ELSE <<0, 1>>>>]
  OBVIOUS
<1>7. Bar' = [Bar EXCEPT ![w] = [min |-> min, max |-> max]] /\ Shows(w, x, bar_draw(Display, w, x))
  BY <1>1
<1> HIDE DEF x, min, max, val2
<1>8. IsBar(x)
  <2> SUFFICES ASSUME NEW half \in 1 .. 2 PROVE x.val[half][1] \in Int /\ x.val[half][2] \in Nat \ {0}
    BY DEF IsBar
  <2>1. half = 1 \/ half = 2
    OBVIOUS
  <2>2. \/ x.val[half] = IF max > min THEN <<v[1] - min, max - min>> ELSE <<0, 1>>
        \/ x.val[half] = IF max > min THEN <<val2 - min, max - min>> ELSE <<0, 1>>
    BY <1>6, <2>1
  <2> QED
    BY <1>5, <2>2
<1>9. x # None
  BY <1>6, NoneIsNoRecord
<1>10. Draws(Display, bar_draw(Display, w, x), w.layer, C!Picture(w, x))
  <2>1. C!Picture(w, x) = C!BarPicture(w, x)
    BY <1>2 DEF C!Picture
  <2>2. Draws(Display, bar_draw(Display, w, x), w.layer, C!BarPicture(w, x))
    BY <1>3, <1>8, BarDraws DEF IInv
  <2> QED
    BY <2>1, <2>2, Zenon
<1>11. shown' = [shown EXCEPT ![w] = x]
  BY <1>7 DEF Shows
<1>12. Covered' /\ shown' = [u \in Widgets |-> shown'[u]] /\ C!Covers(w)
  BY <1>2, <1>11, CoveredStays
<1>13. IsDisplay(Display)' /\ C!Draw(w)
  BY <1>7, <1>9, <1>10, <1>12, DrawStep DEF IInv
<1>14. Scales'
  <2>1. /\ Bar' = [u \in Bars |-> Bar'[u]]
        /\ \A u \in Bars : Bar'[u] = IF u = w THEN [min |-> min, max |-> max] ELSE Bar[u]
    BY <1>3, <1>4, <1>7
  <2>2. \A u \in Bars : Bar'[u].min \in Int /\ Bar'[u].max \in Int
    BY <1>4, <1>5, <2>1
  <2> QED
    BY <2>1, <2>2 DEF Scales
<1>15. Icons' /\ Images'
  BY <1>2 DEF IInv, Icons, Images, IsIcon, IsImage, IsBitmap, IsImageRecord, IsPicture, ImagePixel
<1> QED
  BY <1>12, <1>13, <1>14, <1>15 DEF IInv

\* Covering is passed on.
LEMMA CoveringOn ==
  ASSUME NEW a \in Nat, NEW b \in Nat, NEW I, NEW J, IsImage(I), IsImage(J),
         Covering(a, b, I), Covering(I.height, I.width, J)
  PROVE  Covering(a, b, J)
<1>1. I.height \in Nat /\ I.width \in Nat /\ J.height \in Nat /\ J.width \in Nat /\ DCOLS \in Nat
  BY Sizes DEF IsImage, IsBitmap
<1> QED
  BY <1>1 DEF Covering

LEMMA SetIs ==
  ASSUME NEW O, IsImageRecord(O), NEW a, NEW b, NEW c
  PROVE  [O EXCEPT !.visible = a, !.inverted = b, !.center = c] =
           [gdImage |-> O.gdImage, bitmap |-> O.bitmap, width |-> O.width, height |-> O.height,
            oldheight |-> O.oldheight, visible |-> a, inverted |-> b, center |-> c]
<1> DEFINE O1 == [O EXCEPT !.visible = a]
           O2 == [O1 EXCEPT !.inverted = b]
           O3 == [O2 EXCEPT !.center = c]
<1>1. O1 = [gdImage |-> O.gdImage, bitmap |-> O.bitmap, width |-> O.width, height |-> O.height,
            oldheight |-> O.oldheight, visible |-> a, inverted |-> O.inverted, center |-> O.center]
  BY DEF IsImageRecord
<1> HIDE DEF O1
<1>2. O2 = [gdImage |-> O.gdImage, bitmap |-> O.bitmap, width |-> O.width, height |-> O.height,
            oldheight |-> O.oldheight, visible |-> a, inverted |-> b, center |-> O.center]
  BY <1>1
<1> HIDE DEF O2
<1>3. O3 = [gdImage |-> O.gdImage, bitmap |-> O.bitmap, width |-> O.width, height |-> O.height,
            oldheight |-> O.oldheight, visible |-> a, inverted |-> b, center |-> c]
  BY <1>2
<1> HIDE DEF O3
<1> QED
  BY <1>3, Zenon DEF O1, O2, O3

\* What an update makes of the image of a widget.
NewImage(w, s) ==
  LET I == [Image[w.name] EXCEPT !.visible = s.visible, !.inverted = s.inverted, !.center = s.center]
  IN IF w.child THEN Image[w.name]
     ELSE IF w.class = "image" THEN widget_image_render(I, s) ELSE widget_ttf_render(I, s)

LEMMA NewImageIs ==
  ASSUME Images, NEW w \in Widgets, w.class \in Pictured, NEW s \in Settings(w)
  PROVE  /\ IsImage(NewImage(w, s))
         /\ w.class = "image" => Covering(Image[w.name].height, Image[w.name].width, NewImage(w, s))
<1> DEFINE Old == Image[w.name]
           I(u) == [Old EXCEPT !.visible = u.visible, !.inverted = u.inverted, !.center = u.center]
<1>3. w.name \in Named(Pictured) /\ IsSetting(s)
  BY WidgetHas
<1>5. IsImage(Old) /\ IsBitmap(Old)
  BY <1>3 DEF Images, IsImage
<1> DEFINE i == I(s)
<1>6. IsBitmap(i) /\ i.center = s.center /\ i.height = Old.height /\ i.width = Old.width
  <2> HIDE DEF Old
  <2>1. i = [gdImage |-> Old.gdImage, bitmap |-> Old.bitmap, width |-> Old.width, height |-> Old.height,
             oldheight |-> Old.oldheight, visible |-> s.visible, inverted |-> s.inverted, center |-> s.center]
    <3>1. IsImageRecord(Old)
      BY <1>5 DEF IsBitmap
    <3> QED
      BY <3>1, SetIs, Zenon
  <2> HIDE DEF i
  <2>2. /\ i.gdImage = Old.gdImage /\ i.bitmap = Old.bitmap /\ i.width = Old.width /\ i.height = Old.height
        /\ i.oldheight = Old.oldheight /\ i.center = s.center /\ IsImageRecord(i)
    BY <2>1 DEF IsImageRecord
  <2>3. IsBitmap(i)
    BY <1>5, <2>2 DEF IsBitmap
  <2> QED
    BY <2>2, <2>3
<1> DEFINE J == NewImage(w, s)
<1>7. IsImage(J) /\ (w.class = "image" => Covering(Old.height, Old.width, J))
  <2>1. J = IF w.child THEN Old
            ELSE IF w.class = "image" THEN widget_image_render(i, s) ELSE widget_ttf_render(i, s)
    BY DEF NewImage
  <2> HIDE DEF i, J
  <2>2. CASE w.child
    <3>1. J = Old
      BY <2>1, <2>2
    <3>2. Old.height \in Nat /\ Old.width \in Nat
      BY <1>5 DEF IsBitmap
    <3> QED
      BY <1>5, <3>1, <3>2 DEF Covering
  <2>3. CASE ~ w.child /\ w.class = "image"
    <3>1. J = widget_image_render(i, s)
      BY <2>1, <2>3
    <3>2. IsImage(widget_image_render(i, s)) /\ Covering(i.height, i.width, widget_image_render(i, s))
      BY <1>3, <1>6, ImageRenders
    <3> QED
      BY <1>6, <3>1, <3>2
  <2>4. CASE ~ w.child /\ w.class # "image"
    <3>1. J = widget_ttf_render(i, s)
      BY <2>1, <2>4
    <3>2. IsImage(widget_ttf_render(i, s))
      BY <1>3, <1>6, TextImageRenders
    <3> QED
      BY <2>4, <3>1, <3>2
  <2> QED
    BY <2>2, <2>3, <2>4
<1> QED
  BY <1>7

LEMMA ImageStep ==
  ASSUME Regular, Placed, NoneIsNoFunction, IInv, NEW w \in Widgets, ImageUpdate(w)
  PROVE  IInv' /\ C!Draw(w)
<1> DEFINE Old == Image[w.name]
           I(s) == [Old EXCEPT !.visible = s.visible, !.inverted = s.inverted, !.center = s.center]
           New(s) == IF w.child THEN Old
                     ELSE IF w.class = "image" THEN widget_image_render(I(s), s)
                     ELSE widget_ttf_render(I(s), s)
           X(J) == Content(J, ImageCol(Layers, w, J))
<1>1. PICK s \in Settings(w) : /\ Image' = [Image EXCEPT ![w.name] = New(s)]
                               /\ Shows(w, X(New(s)), image_draw(Display, w, New(s)))
  <2>1. \E s \in Settings(w) : \E J \in {New(s)} : \E d \in {image_draw(Display, w, J)} :
          Image' = [Image EXCEPT ![w.name] = J] /\ Shows(w, X(J), d)
    BY DEF ImageUpdate
  <2> HIDE DEF X, New
  <2> QED
    BY <2>1
<1>2. w.class \in Pictured /\ UNCHANGED <<Icon, Bar, life>>
  BY DEF ImageUpdate
<1>3. IsPixelPlaced(w) /\ w.name \in Named(Pictured) /\ IsSetting(s)
  BY <1>2, WidgetIs
<1>4. Image = [n \in Named(Pictured) |-> Image[n]] /\ \A n \in Named(Pictured) : IsImage(Image[n])
  BY DEF IInv, Images
<1>5. IsImage(Old)
  BY <1>3, <1>4
<1> DEFINE J == New(s)
<1>7. IsImage(J) /\ (w.class = "image" => Covering(Old.height, Old.width, J))
  <2>1. J = NewImage(w, s) /\ Images
    BY DEF NewImage, IInv
  <2> HIDE DEF J
  <2> QED
    BY <1>2, <2>1, NewImageIs
<1>8. Image' = [Image EXCEPT ![w.name] = J] /\ Shows(w, X(J), image_draw(Display, w, J))
  BY <1>1
<1> HIDE DEF J
<1> DEFINE x == X(J)
<1>9. x # None
  BY NoneIsNoRecord
<1>10. Draws(Display, image_draw(Display, w, J), w.layer, C!Picture(w, x))
  <2>1. C!Picture(w, x) = C!ImagePicture(w, x)
    <3>1. w.class # "text" /\ w.class # "icon" /\ w.class # "bar"
      BY <1>2 DEF Pictured
    <3> HIDE DEF x
    <3> QED
      BY <3>1 DEF C!Picture
  <2>2. Draws(Display, image_draw(Display, w, J), w.layer,
              C!ImagePicture(w, Content(J, ImageCol(Display.g, w, J))))
    BY <1>3, <1>7, ImageDraws DEF IInv
  <2>3. Display.g = Layers
    BY DEF Display
  <2>4. Draws(Display, image_draw(Display, w, J), w.layer, C!ImagePicture(w, x))
    BY <2>2, <2>3, Zenon
  <2> HIDE DEF x
  <2> QED
    BY <2>1, <2>4, Zenon
<1>11. x.height = J.height /\ x.width = J.width
  BY DEF Content
<1>12. Shows(w, x, image_draw(Display, w, J))
  BY <1>8
<1> HIDE DEF x
<1>13. shown' = [shown EXCEPT ![w] = x]
  BY <1>12 DEF Shows
<1>14. shown = [v \in Widgets |-> shown[v]] /\ Covered
  BY DEF IInv
<1>15. /\ shown' = [v \in Widgets |-> shown'[v]] /\ shown'[w] = x
       /\ \A v \in Widgets : v # w => shown'[v] = shown[v]
  BY <1>13, <1>14
<1>16. /\ Image' = [n \in Named(Pictured) |-> Image'[n]] /\ Image'[w.name] = J
       /\ \A n \in Named(Pictured) : n # w.name => Image'[n] = Image[n]
  BY <1>3, <1>4, <1>8
<1>17. Images'
  <2>1. \A n \in Named(Pictured) : IsImage(Image'[n])
    BY <1>4, <1>7, <1>16
  <2> QED
    BY <1>16, <2>1 DEF Images, IsImage, IsBitmap, IsImageRecord, IsPicture, ImagePixel
<1>18. ASSUME NEW v \in Widgets, v.class = "image", v.name = w.name, shown[v] # None
       PROVE  Covering(shown[v].height, shown[v].width, J)
  <2>1. v.class \in Pictured
    BY <1>18 DEF Pictured
  <2>2. w.class = "image"
    <3>1. {v.class, w.class} \subseteq Pictured /\ v.name = w.name => v.class = w.class
      BY GraphicAssumption, Zenon
    <3> QED
      BY <1>2, <1>18, <2>1, <3>1
  <2>3. /\ shown[v].height \in Nat /\ shown[v].width \in Nat
        /\ Covering(shown[v].height, shown[v].width, Old)
    BY <1>14, <1>18 DEF Covered
  <2>4. Covering(Old.height, Old.width, J)
    BY <1>7, <2>2
  <2> HIDE DEF Old
  <2> QED
    BY <1>5, <1>7, <2>3, <2>4, CoveringOn
<1>19. ASSUME NEW v \in Widgets, v.class = "image", shown'[v] # None
       PROVE  /\ shown'[v].height \in Nat /\ shown'[v].width \in Nat
              /\ Covering(shown'[v].height, shown'[v].width, Image'[v.name])
  <2>1. CASE v = w
    <3>1. J.height \in Nat /\ J.width \in Nat
      BY <1>7 DEF IsImage, IsBitmap
    <3>2. shown'[v].height = J.height /\ shown'[v].width = J.width /\ Image'[v.name] = J
      BY <1>11, <1>15, <1>16, <2>1
    <3> QED
      BY <3>1, <3>2 DEF Covering
  <2>2. CASE v # w
    <3>1. shown'[v] = shown[v]
      BY <1>15, <2>2
    <3>2. v.name \in Named(Pictured)
      BY <1>19, WidgetIs DEF Pictured
    <3>3. /\ shown[v].height \in Nat /\ shown[v].width \in Nat
          /\ Covering(shown[v].height, shown[v].width, Image[v.name])
      BY <1>14, <1>19, <3>1 DEF Covered
    <3>4. CASE v.name = w.name
      <4>1. Image'[v.name] = J
        BY <1>16, <3>4
      <4>2. Covering(shown[v].height, shown[v].width, J)
        BY <1>18, <1>19, <3>1, <3>4
      <4> QED
        BY <3>1, <3>3, <4>1, <4>2
    <3>5. CASE v.name # w.name
      <4>1. Image'[v.name] = Image[v.name]
        BY <1>16, <3>2, <3>5
      <4> QED
        BY <3>1, <3>3, <4>1
    <3> QED
      BY <3>4, <3>5
  <2> QED
    BY <2>1, <2>2
<1>20. Covered'
  BY <1>19 DEF Covered, Covering
<1>21. C!Covers(w)
  <2> SUFFICES ASSUME shown[w] # None, w.class = "image"
               PROVE  /\ shown'[w].height >= shown[w].height
                      /\ shown'[w].width >= shown[w].width \/ shown'[w].width >= DCOLS
    BY DEF C!Covers
  <2>1. Covering(shown[w].height, shown[w].width, J)
    BY <1>18
  <2> QED
    BY <1>11, <1>15, <2>1 DEF Covering
<1>22. IsDisplay(Display)' /\ C!Draw(w)
  BY <1>9, <1>10, <1>12, <1>14, <1>21, DrawStep DEF IInv
<1>23. Icons' /\ Scales'
  BY <1>2 DEF IInv, Icons, Scales, IsIcon
<1> QED
  BY <1>15, <1>17, <1>20, <1>22, <1>23 DEF IInv

LEMMA QuitStep ==
  ASSUME Regular, IInv, drv_T6_quit
  PROVE  IInv' /\ C!Leave
<1> DEFINE blank == drv_generic_graphic_clear(Display)
           d == IF life = "quiet" THEN blank ELSE greet(blank, Goodbye)
<1>1. /\ FB' = d.g.FB /\ LROWS' = d.g.LROWS /\ LCOLS' = d.g.LCOLS /\ hw' = d.hw
      /\ shown' = [w \in Widgets |-> None] /\ UNCHANGED <<Icon, Image, Bar>>
  BY Zenon DEF drv_T6_quit
<1>2. Clears(blank)
  BY ClearIs DEF IInv
<1>3. greet(blank, Goodbye) = blank \/ Fits(Goodbye)
  BY DEF greet
<1> DEFINE picture == C!TextPicture(C!Greeter, [txt |-> Goodbye, bold |-> FALSE])
<1> HIDE DEF blank
<1>4. \/ d = blank
      \/ Greets(d, picture)
  <2>1. CASE life = "quiet" \/ greet(blank, Goodbye) = blank
    BY <2>1
  <2>2. CASE ~ (life = "quiet" \/ greet(blank, Goodbye) = blank)
    <3>1. Fits(Goodbye) /\ d = greet(blank, Goodbye)
      BY <1>3, <2>2
    <3>2. Goodbye \in Seq(Range(Goodbye))
      BY GraphicAssumption
    <3>3. IsDisplay(blank)
      BY <1>2, Zenon DEF Clears
    <3>4. Draws(blank, greet(blank, Goodbye), 0, C!TextPicture(GreetWidget(Goodbye), GreetText(Goodbye)))
      BY <3>1, <3>2, <3>3, GreetIs
    <3>5. Draws(blank, d, 0, picture)
      BY <3>1, <3>4, GreeterIs, Zenon
    <3> HIDE DEF picture, d
    <3> QED
      BY <1>2, <3>5, DrawsGreet
  <2> QED
    BY <2>1, <2>2
<1> HIDE DEF d, picture
<1>5. /\ IsDisplay(d)
      /\ \/ PlanesOf(d.g) = C!Empty
         \/ PlanesOf(d.g) = [C!Empty EXCEPT ![0] = C!Painted(@, picture)]
      /\ \A p \in OnScreen : Lit(d.hw.ram, p[1], p[2]) = DarkOf(PlanesOf(d.g), p)
  BY <1>2, <1>4, Zenon DEF Clears, Greets
<1>6. Display' = d /\ Layers' = d.g /\ hw' = d.hw
  BY <1>1, <1>5, NextDisplay
<1>7. Planes' = PlanesOf(d.g)
  <2>1. PlanesOf(Layers)' = PlanesOf(Layers')
    BY DEF PlanesOf, PixelOf
  <2> QED
    BY <1>6, <2>1, PlanesAre
<1>8. Screen' = [p \in C!Screen |-> C!Dark(p)']
  <2>1. C!Screen = OnScreen
    BY DEF C!Screen, OnScreen
  <2>2. \A p : C!Dark(p)' = DarkOf(PlanesOf(d.g), p)
    BY <1>7, DarkIs
  <2>4. Screen' = [p \in OnScreen |-> Lit(d.hw.ram, p[1], p[2])]
    BY <1>6 DEF Screen
  <2>5. [p \in OnScreen |-> Lit(d.hw.ram, p[1], p[2])] = [p \in OnScreen |-> DarkOf(PlanesOf(d.g), p)]
    BY <1>5, Zenon
  <2>6. [p \in C!Screen |-> C!Dark(p)'] = [p \in OnScreen |-> DarkOf(PlanesOf(d.g), p)]
    BY <2>1, <2>2, Zenon
  <2> QED
    BY <2>4, <2>5, <2>6, Zenon
<1>9. C!Leave
  <2>1. shown' = C!Nothing
    BY <1>1 DEF C!Nothing
  <2>2. Planes' = C!Empty \/ Planes' = [C!Empty EXCEPT ![0] = C!Painted(@, picture)]
    BY <1>5, <1>7, Zenon
  <2> QED
    BY <1>8, <2>1, <2>2, Zenon DEF C!Leave, Planes, Screen, OnScreen, picture
<1>10. IsDisplay(Display)'
  <2>1. IsDisplay(Display')
    BY <1>5, <1>6
  <2> QED
    BY <2>1 DEF IsDisplay, IsLayers, IsHw, Synced
<1>11. Icons' /\ Images' /\ Scales'
  BY <1>1 DEF IInv, Icons, Images, Scales, IsIcon, IsImage, IsBitmap, IsImageRecord, IsPicture, ImagePixel
<1>12. Covered' /\ shown' = [w \in Widgets |-> shown'[w]]
  BY <1>1 DEF Covered
<1> QED
  BY <1>9, <1>10, <1>11, <1>12 DEF IInv

-----------------------------------------------------------------------------
(* Any layout and any sizes: what is left of the invariant *)

IsState(d) ==
  d = [g |-> d.g, hw |-> d.hw] /\ IsLayers(d.g) /\ (Regular => IsHw(d.hw) /\ Synced(d.hw))

SInv == IsState(Display) /\ Images

\* A place of the screen that changes shows what the layers have there.
Tells(d, d2) ==
  Regular =>
    \A p \in OnScreen : \/ Lit(d2.hw.ram, p[1], p[2]) = Lit(d.hw.ram, p[1], p[2])
                        \/ Lit(d2.hw.ram, p[1], p[2]) = DarkOf(PlanesOf(d2.g), p)

Keeps(d, d2) == IsState(d2) /\ Tells(d, d2)

LEMMA BlitKeeps ==
  ASSUME NEW d, IsState(d), NEW row \in Int, NEW col \in Int, NEW height \in Int, NEW width \in Int
  PROVE  Keeps(d, blit(d, row, col, height, width))
<1> DEFINE d2 == blit(d, row, col, height, width)
<1>1. CASE Regular
  <2>1. IsDisplay(d)
    BY <1>1 DEF IsState, IsDisplay
  <2>2. Lights(d, d2, row, col, height, width)
    BY <1>1, <2>1, BlitLights
  <2> HIDE DEF d2
  <2>3. IsState(d2)
    BY <2>2 DEF Lights, IsDisplay, IsState
  <2>4. Tells(d, d2)
    BY <2>2, Zenon DEF Lights, Tells
  <2> QED
    BY <2>3, <2>4 DEF d2, Keeps
<1>2. CASE ~ Regular
  <2>1. \E h : d2 = [d EXCEPT !.hw = h] \/ d2 = d
    BY DEF blit
  <2> HIDE DEF d2
  <2>2. PICK h : d2 = [d EXCEPT !.hw = h] \/ d2 = d
    BY <2>1
  <2>3. d = [g |-> d.g, hw |-> d.hw] /\ IsLayers(d.g)
    BY DEF IsState
  <2>4. d2 = [g |-> d2.g, hw |-> d2.hw] /\ d2.g = d.g
    BY <2>2, <2>3
  <2>5. IsState(d2)
    BY <1>2, <2>3, <2>4 DEF IsState
  <2> QED
    BY <1>2, <2>5 DEF d2, Keeps, Tells
<1> QED
  BY <1>1, <1>2

LEMMA DrawnKeeps ==
  ASSUME NEW d, IsState(d), NEW layer \in 0 .. LAYERS - 1, NEW picture, Colored(picture),
         NEW row \in Int, NEW col \in Int, NEW height \in Int, NEW width \in Int
  PROVE  Keeps(d, Drawn(d, layer, picture, row, col, height, width))
<1> DEFINE g1 == resizeFB(d.g, row + height, col + width)
           g2 == Put(g1, layer, picture)
           e == [d EXCEPT !.g = g2]
<1>1. Drawn(d, layer, picture, row, col, height, width) = blit(e, row, col, height, width)
  BY DEF Drawn
<1>2. d = [g |-> d.g, hw |-> d.hw] /\ IsLayers(d.g) /\ (Regular => IsHw(d.hw) /\ Synced(d.hw))
  BY DEF IsState
<1>3. IsLayers(g1)
  <2>1. row + height \in Int /\ col + width \in Int
    OBVIOUS
  <2> QED
    BY <1>2, <2>1, ResizeIs, Zenon
<1> HIDE DEF g1
<1>4. IsLayers(g2)
  BY <1>3, PutLayers
<1> HIDE DEF g2
<1>5. e = [g |-> g2, hw |-> d.hw] /\ e.g = g2 /\ e.hw = d.hw
  BY <1>2
<1> HIDE DEF e
<1>6. IsState(e)
  BY <1>2, <1>4, <1>5 DEF IsState
<1>7. Keeps(e, blit(e, row, col, height, width))
  BY <1>6, BlitKeeps
<1> QED
  BY <1>1, <1>5, <1>7, Zenon DEF Keeps, Tells

LEMMA RenderKeeps ==
  ASSUME NEW d, IsState(d), NEW w, IsAnywhere(w), IsColored(w), NEW x, IsText(x)
  PROVE  Keeps(d, render(d, w, x))
<1> DEFINE N == Len(x.txt)
           r == CHOOSE f : IsRender(f, w, x, N)
           Good(n) == r[n] = [picture |-> r[n].picture, col |-> r[n].col, bold |-> r[n].bold] /\ Colored(r[n].picture)
           T == {n \in 0 .. N : Good(n)}
<1>1. N \in Nat /\ w.layer \in 0 .. LAYERS - 1 /\ w.row \in Int /\ w.col \in Int /\ XRES \in Nat /\ YRES \in Nat
  BY Sizes DEF IsText, IsAnywhere
<1>2. render(d, w, x) = Drawn(d, w.layer, r[N].picture, YRES * w.row, XRES * w.col, YRES, XRES * N)
  BY DEF render, IsRender
<1>3. IsRender(r, w, x, N)
  BY <1>1, RendersAre
<1> HIDE DEF r, N
<1>4. /\ r[0] = [picture |-> <<>>, col |-> XRES * w.col, bold |-> FALSE]
      /\ \A n \in 1 .. N : r[n] = RenderChar(w, x.bold, r[n - 1], x.txt[n])
  <2>1. 0 \in 0 .. N /\ \A n \in 1 .. N : n \in 0 .. N /\ n # 0
    BY <1>1
  <2> QED
    BY <1>3, <2>1, Zenon DEF IsRender
<1>5. Good(0)
  <2>1. r[0].picture = <<>> /\ r[0] = [picture |-> r[0].picture, col |-> r[0].col, bold |-> r[0].bold]
    BY <1>4
  <2>2. DOMAIN <<>> = {}
    OBVIOUS
  <2> QED
    BY <2>1, <2>2 DEF Colored
<1>6. ASSUME NEW n \in 1 .. N, Good(n - 1) PROVE Good(n)
  <2> DEFINE q == r[n - 1]
             p2 == r[n]
             Dot(p) == IF <<p[1] - YRES * w.row, p[2] - q.col>> \in Font[<<x.txt[n], q.bold \/ x.bold>>]
                       THEN Fg(w) ELSE Bg(w)
             cell == [p \in Cells(YRES * w.row, q.col, YRES, XRES) |-> Dot(p)]
             joined == [p \in DOMAIN cell \union DOMAIN q.picture |-> IF p \in DOMAIN cell THEN cell[p] ELSE q.picture[p]]
  <2>1. p2 = IF x.txt[n] = BEL THEN [q EXCEPT !.bold = ~ q.bold]
             ELSE [q EXCEPT !.picture = joined, !.col = q.col + XRES]
    <3>1. p2 = RenderChar(w, x.bold, q, x.txt[n])
      BY <1>4
    <3> HIDE DEF q, p2
    <3> QED
      BY <3>1 DEF RenderChar
  <2>2. q = [picture |-> q.picture, col |-> q.col, bold |-> q.bold] /\ Colored(q.picture)
    BY <1>6
  <2>3. Colored(joined)
    <3>1. \A p : Dot(p) \in Colors
      BY DEF IsColored
    <3> HIDE DEF Dot, q
    <3>2. \A p \in DOMAIN cell : cell[p] \in Colors
      BY <3>1
    <3> HIDE DEF cell
    <3> QED
      BY <2>2, <3>2 DEF Colored
  <2> HIDE DEF q, p2, joined
  <2>4. p2 = [picture |-> p2.picture, col |-> p2.col, bold |-> p2.bold] /\ p2.picture \in {q.picture, joined}
    BY <2>1, <2>2
  <2>5. Colored(p2.picture)
    BY <2>2, <2>3, <2>4
  <2> QED
    BY <2>4, <2>5 DEF p2
<1>7. Good(N)
  <2> HIDE DEF Good
  <2>1. 0 \in T
    BY <1>1, <1>5
  <2>2. ASSUME NEW n \in 0 .. N - 1, n \in T PROVE n + 1 \in T
    <3>1. n + 1 \in 1 .. N /\ (n + 1) - 1 = n /\ n + 1 \in 0 .. N
      BY <1>1
    <3>3. Good(n + 1)
      BY <1>6, <2>2, <3>1
    <3> QED
      BY <3>1, <3>3
  <2> HIDE DEF T
  <2>3. \A n \in 0 .. N : n \in T
    BY <1>1, <2>1, <2>2, Induction
  <2> QED
    BY <1>1, <2>3 DEF T
<1>8. YRES * w.row \in Int /\ XRES * w.col \in Int /\ XRES * N \in Int
  BY <1>1
<1>9. Colored(r[N].picture)
  BY <1>7
<1> QED
  BY <1>1, <1>2, <1>8, <1>9, DrawnKeeps

LEMMA IconKeeps ==
  ASSUME NEW d, IsState(d), NEW w, IsAnywhere(w), IsColored(w), NEW x
  PROVE  Keeps(d, icon_draw(d, w, x))
<1> DEFINE row == YRES * w.row
           col == XRES * w.col
           Dot(p) == IF ~ x.visible THEN BG_COL
                     ELSE IF <<p[1] - row, p[2] - col>> \in Bitmaps[w.name][x.map + 1] THEN Fg(w) ELSE Bg(w)
           picture == [p \in Cells(row, col, YRES, XRES) |-> Dot(p)]
<1>1. icon_draw(d, w, x) = Drawn(d, w.layer, picture, row, col, YRES, XRES)
  BY DEF icon_draw
<1>2. \A p : Dot(p) \in Colors
  BY Sizes DEF IsColored
<1>3. row \in Int /\ col \in Int /\ XRES \in Int /\ YRES \in Int /\ w.layer \in 0 .. LAYERS - 1
  BY Sizes DEF IsAnywhere
<1> HIDE DEF Dot, row, col
<1>4. Colored(picture)
  BY <1>2 DEF Colored
<1> HIDE DEF picture
<1> QED
  BY <1>1, <1>3, <1>4, DrawnKeeps

LEMMA BarKeeps ==
  ASSUME NEW d, IsState(d), NEW w, IsAnywhere(w), IsColored(w), w.len \in Nat,
         BarColor(w, 1) \in Colors, BarColor(w, 2) \in Colors, NEW x
  PROVE  Keeps(d, bar_draw(d, w, x))
<1> DEFINE row == YRES * w.row
           col == XRES * w.col
           across == w.dir \in {"E", "W"}
           max == w.len * (IF across THEN XRES ELSE YRES)
           vals == [h \in 1 .. 2 |-> LET v == (x.val[h][1] * max) \div x.val[h][2]
                                     IN IF v < 1 THEN 1 ELSE IF v > max THEN max ELSE v]
           Frame == IF ~ w.hollow \/ max > 0 THEN {}
                    ELSE IF across THEN Cells(row, col - 1, YRES, 2) ELSE Cells(row - 1, col, 2, XRES)
           wide == [p \in Cells(row, col, YRES, max) \union Frame |->
                      BarPixel(w, vals, max, YRES, p[2] - col, p[1] - row)]
           high == [p \in Cells(row, col, max, XRES) \union Frame |->
                      BarPixel(w, vals, max, XRES, p[1] - row, p[2] - col)]
<1>1. bar_draw(d, w, x) = IF across THEN Drawn(d, w.layer, wide, row, col, YRES, max)
                          ELSE Drawn(d, w.layer, high, row, col, max, XRES)
  BY DEF bar_draw
<1>2. \A v, m, size, y, z : BarPixel(w, v, m, size, y, z) \in Colors
  <2> SUFFICES ASSUME NEW v, NEW m, NEW size, NEW y, NEW z PROVE BarPixel(w, v, m, size, y, z) \in Colors
    OBVIOUS
  <2>1. BarPixel(w, v, m, size, y, z) \in {Fg(w), Bg(w), BarColor(w, 1), BarColor(w, 2)}
    BY DEF BarPixel
  <2> QED
    BY <2>1 DEF IsColored
<1>3. row \in Int /\ col \in Int /\ XRES \in Int /\ YRES \in Int /\ w.layer \in 0 .. LAYERS - 1
  BY Sizes DEF IsAnywhere
<1>4. max \in Int
  <2> HIDE DEF across
  <2> QED
    BY <1>3
<1> HIDE DEF row, col, max, vals, across, Frame
<1>5. Colored(wide) /\ Colored(high)
  BY <1>2 DEF Colored
<1> HIDE DEF wide, high
<1>6. Keeps(d, Drawn(d, w.layer, wide, row, col, YRES, max))
  BY <1>3, <1>4, <1>5, DrawnKeeps
<1>7. Keeps(d, Drawn(d, w.layer, high, row, col, max, XRES))
  BY <1>3, <1>4, <1>5, DrawnKeeps
<1> QED
  BY <1>1, <1>6, <1>7

LEMMA ImageKeeps ==
  ASSUME NEW d, IsState(d), NEW w, IsAnywhere(w), NEW J, IsImage(J)
  PROVE  Keeps(d, image_draw(d, w, J))
<1> DEFINE col == ImageCol(d.g, w, J)
           Dot(p) == IF J.visible THEN J.bitmap[<<p[1] - w.row, p[2] - col>>] ELSE BG_COL
           mine == [p \in Cells(w.row, col, J.height, J.width) |-> Dot(p)]
<1>1. image_draw(d, w, J) = IF J.bitmap = <<>> THEN d ELSE Drawn(d, w.layer, mine, w.row, col, J.height, J.width)
  BY DEF image_draw
<1>2. J.height \in Nat /\ J.width \in Nat /\ w.row \in Int /\ w.layer \in 0 .. LAYERS - 1
      /\ J.bitmap \in [Cells(0, 0, J.height, J.width) -> Colors]
  BY DEF IsImage, IsBitmap, IsAnywhere
<1>3. col \in Int
  <2>1. w.col \in Int /\ J.width \in Nat /\ d.g.LCOLS \in Nat
    BY DEF IsAnywhere, IsImage, IsBitmap, IsState, IsLayers
  <2> QED
    BY <2>1 DEF ImageCol
<1> HIDE DEF col
<1>4. ASSUME NEW p \in Cells(w.row, col, J.height, J.width) PROVE Dot(p) \in Colors
  <2>1. <<p[1] - w.row, p[2] - col>> \in Cells(0, 0, J.height, J.width)
    BY <1>2, <1>3, CellWithin
  <2>2. J.bitmap[<<p[1] - w.row, p[2] - col>>] \in Colors
    BY <1>2, <2>1
  <2> QED
    BY <2>2, Sizes
<1> HIDE DEF Dot
<1>5. Colored(mine)
  BY <1>4 DEF Colored
<1> HIDE DEF mine
<1>6. Keeps(d, Drawn(d, w.layer, mine, w.row, col, J.height, J.width))
  BY <1>2, <1>3, <1>5, DrawnKeeps
<1>7. Keeps(d, d)
  BY DEF Keeps, Tells
<1> QED
  BY <1>1, <1>6, <1>7

LEMMA ClearKeeps ==
  ASSUME NEW d, IsState(d)
  PROVE  IsState(drv_generic_graphic_clear(d))
<1> DEFINE g == [FB |-> Blank(d.g.LROWS, d.g.LCOLS), LROWS |-> d.g.LROWS, LCOLS |-> d.g.LCOLS]
           e == [d EXCEPT !.g.FB = Blank(d.g.LROWS, d.g.LCOLS)]
<1>1. /\ d = [g |-> d.g, hw |-> d.hw] /\ (Regular => IsHw(d.hw) /\ Synced(d.hw))
      /\ d.g = [FB |-> d.g.FB, LROWS |-> d.g.LROWS, LCOLS |-> d.g.LCOLS]
      /\ d.g.LROWS \in Nat /\ d.g.LCOLS \in Nat /\ d.g.LROWS >= DROWS /\ d.g.LCOLS >= DCOLS
  BY DEF IsState, IsLayers
<1>2. IsLayers(g)
  BY <1>1, BlankIs
<1>3. e = [g |-> g, hw |-> d.hw]
  BY <1>1
<1>4. drv_generic_graphic_clear(d) = blit(e, 0, 0, d.g.LROWS, d.g.LCOLS)
  BY DEF drv_generic_graphic_clear
<1> HIDE DEF g, e
<1>5. IsState(e)
  BY <1>1, <1>2, <1>3 DEF IsState
<1>6. PICK rows \in Int, cols \in Int : rows = d.g.LROWS /\ cols = d.g.LCOLS
  BY <1>1
<1>7. IsState(blit(e, 0, 0, rows, cols))
  BY <1>5, BlitKeeps DEF Keeps
<1> QED
  BY <1>4, <1>6, <1>7, Zenon

LEMMA GreetKeeps ==
  ASSUME NEW d, IsState(d), NEW msg, msg \in Seq(Range(msg))
  PROVE  IsState(greet(d, msg))
<1> DEFINE w == GreetWidget(msg)
           x == GreetText(msg)
<1>1. greet(d, msg) = IF ~ Fits(msg) THEN d ELSE render(d, w, x)
  BY DEF greet, GreetWidget, GreetText
<1>2. w.layer = 0 /\ w.row = 2 /\ w.col = (DCOLS \div XRES - Len(msg)) \div 2 /\ w.fg = Default /\ w.bg = Default
  BY DEF GreetWidget
<1>3. x.txt = msg /\ x.bold = FALSE
  BY DEF GreetText
<1>4. w.col \in Int
  <2>1. Len(msg) \in Nat /\ DCOLS \div XRES \in Nat
    BY Sizes
  <2> DEFINE n == DCOLS \div XRES
  <2> HIDE DEF n
  <2>2. (n - Len(msg)) \div 2 \in Int
    BY <2>1 DEF n
  <2> QED
    BY <1>2, <2>2 DEF n
<1>5. IsAnywhere(w) /\ IsColored(w)
  BY <1>2, <1>4, Sizes DEF IsAnywhere, IsColored, Fg, Bg
<1>6. IsText(x)
  BY <1>3 DEF IsText
<1> HIDE DEF w, x
<1>7. IsState(render(d, w, x))
  BY <1>5, <1>6, RenderKeeps DEF Keeps
<1> QED
  BY <1>1, <1>7

\* What the program leaves behind.
LEMMA QuitTells ==
  ASSUME NEW d, IsState(d), NEW quiet \in BOOLEAN
  PROVE  LET blank == drv_generic_graphic_clear(d)
         IN Tells(d, IF quiet THEN blank ELSE greet(blank, Goodbye))
<1> DEFINE blank == drv_generic_graphic_clear(d)
           d2 == greet(blank, Goodbye)
<1> SUFFICES ASSUME Regular PROVE Tells(d, blank) /\ Tells(d, d2)
  BY DEF Tells
<1>1. Clears(blank)
  BY ClearIs DEF IsState, IsDisplay
<1> HIDE DEF blank
<1>2. Tells(d, blank)
  BY <1>1, Zenon DEF Clears, Tells
<1>3. CASE ~ Fits(Goodbye)
  BY <1>2, <1>3 DEF greet
<1>4. CASE Fits(Goodbye)
  <2> DEFINE picture == C!TextPicture(GreetWidget(Goodbye), GreetText(Goodbye))
  <2>1. IsDisplay(blank) /\ Goodbye \in Seq(Range(Goodbye))
    BY <1>1, GraphicAssumption DEF Clears
  <2>2. Draws(blank, d2, 0, picture)
    BY <1>4, <2>1, GreetIs
  <2> HIDE DEF picture, d2
  <2>3. Greets(d2, picture)
    BY <1>1, <2>2, DrawsGreet
  <2>4. Tells(d, d2)
    BY <2>3, Zenon DEF Greets, Tells
  <2> QED
    BY <1>2, <2>4
<1> QED
  BY <1>3, <1>4

LEMMA StateStarts ==
  ASSUME Init
  PROVE  SInv
<1>1. PICK quiet \in BOOLEAN, junk \in Junk :
        /\ FB = drv_T6_init(quiet, junk).g.FB /\ LROWS = drv_T6_init(quiet, junk).g.LROWS
        /\ LCOLS = drv_T6_init(quiet, junk).g.LCOLS /\ hw = drv_T6_init(quiet, junk).hw
  BY Zenon DEF Init
<1> DEFINE d2 == drv_T6_init(quiet, junk)
           g == [FB |-> Blank(DROWS, DCOLS), LROWS |-> DROWS, LCOLS |-> DCOLS]
           h == drv_T6_start([x \in Addresses |-> {}], junk)
           d == [g |-> g, hw |-> h]
<1>2. d2 = IF quiet \/ ~ Fits(Hello) THEN d ELSE drv_generic_graphic_clear(greet(d, Hello))
  BY DEF drv_T6_init
<1>3. IsState(d)
  <2>1. IsLayers(g)
    BY Sizes, BlankIs
  <2>2. Regular => IsHw(h) /\ Synced(h)
    BY StartIs
  <2> HIDE DEF g, h
  <2>3. d.g = g /\ d.hw = h /\ d = [g |-> d.g, hw |-> d.hw]
    OBVIOUS
  <2> HIDE DEF d
  <2> QED
    BY <2>1, <2>2, <2>3 DEF IsState
<1> HIDE DEF d, d2
<1>4. IsState(d2)
  <2>1. Hello \in Seq(Range(Hello))
    BY GraphicAssumption
  <2>2. IsState(drv_generic_graphic_clear(greet(d, Hello)))
    BY <1>3, <2>1, GreetKeeps, ClearKeeps
  <2> QED
    BY <1>2, <1>3, <2>2
<1>5. Display = d2
  BY <1>1, <1>4 DEF Display, Layers, IsState, IsLayers, d2
<1> QED
  BY <1>4, <1>5, ImagesStart DEF SInv

\* What a step changes on the screen is what the layers have there then.
Told ==
  Regular =>
    \A p \in OnScreen : \/ Lit(hw.ram, p[1], p[2])' = Lit(hw.ram, p[1], p[2])
                        \/ Lit(hw.ram, p[1], p[2])' = black(Layers, p[1], p[2])'

\* The layers and the display after a step.
LEMMA NextState ==
  ASSUME NEW d, Keeps(Display, d), FB' = d.g.FB, LROWS' = d.g.LROWS, LCOLS' = d.g.LCOLS, hw' = d.hw
  PROVE  IsState(Display)' /\ Told
<1>1. d = [g |-> d.g, hw |-> d.hw] /\ d.g = [FB |-> d.g.FB, LROWS |-> d.g.LROWS, LCOLS |-> d.g.LCOLS]
  BY DEF Keeps, IsState, IsLayers
<1>2. Display' = d /\ Layers' = d.g /\ hw' = d.hw
  BY <1>1 DEF Display, Layers
<1>3. IsState(Display')
  BY <1>2 DEF Keeps
<1>4. IsState(Display)'
  BY <1>3 DEF IsState, IsLayers, IsHw, Synced
<1>5. ASSUME Regular, NEW p \in OnScreen
      PROVE  \/ Lit(hw.ram, p[1], p[2])' = Lit(hw.ram, p[1], p[2])
             \/ Lit(hw.ram, p[1], p[2])' = black(Layers, p[1], p[2])'
  <2>1. p \in Extent /\ p[1] < DROWS /\ p[2] < DCOLS /\ IsLayers(d.g)
    BY DEF OnScreen, Keeps, IsState
  <2>2. black(d.g, p[1], p[2]) = DarkOf(PlanesOf(d.g), p)
    BY <2>1, BlackIs
  <2>3. Lit(hw.ram, p[1], p[2])' = Lit(d.hw.ram, p[1], p[2])
    BY <1>2 DEF Lit
  <2>4. black(Layers, p[1], p[2])' = black(d.g, p[1], p[2])
    BY <1>2 DEF black, blend
  <2>5. Display.hw = hw
    BY DEF Display
  <2> QED
    BY <1>5, <2>2, <2>3, <2>4, <2>5, Zenon DEF Keeps, Tells
<1> QED
  BY <1>4, <1>5 DEF Told

LEMMA StateStays ==
  ASSUME SInv, [Next]_vars
  PROVE  SInv' /\ Told
<1>i. IsState(Display) /\ Images
  BY DEF SInv
<1>u. ASSUME UNCHANGED Image PROVE Images'
  BY <1>i, <1>u DEF Images, IsImage, IsBitmap, IsImageRecord, IsPicture, ImagePixel
<1>1. CASE drv_T6_quit
  <2> DEFINE blank == drv_generic_graphic_clear(Display)
             d == IF life = "quiet" THEN blank ELSE greet(blank, Goodbye)
  <2>1. /\ FB' = d.g.FB /\ LROWS' = d.g.LROWS /\ LCOLS' = d.g.LCOLS /\ hw' = d.hw /\ UNCHANGED Image
    BY <1>1, Zenon DEF drv_T6_quit
  <2>2. IsState(blank)
    BY <1>i, ClearKeeps
  <2> HIDE DEF blank
  <2>3. Goodbye \in Seq(Range(Goodbye))
    BY GraphicAssumption
  <2>4. IsState(d)
    BY <2>2, <2>3, GreetKeeps
  <2>5. Tells(Display, d)
    BY <1>i, QuitTells DEF blank
  <2> HIDE DEF d
  <2>6. Keeps(Display, d)
    BY <2>4, <2>5 DEF Keeps
  <2> QED
    BY <1>u, <2>1, <2>6, NextState DEF SInv
<1>2. ASSUME NEW w \in Widgets, TextUpdate(w) PROVE SInv' /\ Told
  <2>1. PICK x \in Texts(w) : Shows(w, x, render(Display, w, x))
    BY <1>2 DEF TextUpdate
  <2>2. w.class = "text" /\ UNCHANGED Image
    BY <1>2 DEF TextUpdate
  <2>3. Keeps(Display, render(Display, w, x))
    <3>1. IsAnywhere(w) /\ IsColored(w) /\ IsText(x)
      BY <2>2, WidgetHas DEF Pictured
    <3> QED
      BY <1>i, <3>1, RenderKeeps
  <2> QED
    BY <1>u, <2>1, <2>2, <2>3, NextState DEF SInv, Shows
<1>3. ASSUME NEW w \in Widgets, IconUpdate(w) PROVE SInv' /\ Told
  <2>1. PICK x : Shows(w, x, icon_draw(Display, w, x))
    BY <1>3 DEF IconUpdate
  <2>2. w.class = "icon" /\ UNCHANGED Image
    BY <1>3 DEF IconUpdate
  <2>3. Keeps(Display, icon_draw(Display, w, x))
    <3>1. IsAnywhere(w) /\ IsColored(w)
      BY <2>2, WidgetHas DEF Pictured
    <3> QED
      BY <1>i, <3>1, IconKeeps
  <2> QED
    BY <1>u, <2>1, <2>2, <2>3, NextState DEF SInv, Shows
<1>4. ASSUME NEW w \in Widgets, BarUpdate(w) PROVE SInv' /\ Told
  <2>1. PICK x : Shows(w, x, bar_draw(Display, w, x))
    BY <1>4 DEF BarUpdate
  <2>2. w.class = "bar" /\ UNCHANGED Image
    BY <1>4 DEF BarUpdate
  <2>3. Keeps(Display, bar_draw(Display, w, x))
    <3>1. IsAnywhere(w) /\ IsColored(w) /\ w.len \in Nat /\ BarColor(w, 1) \in Colors /\ BarColor(w, 2) \in Colors
      BY <2>2, WidgetHas DEF Pictured
    <3> QED
      BY <1>i, <3>1, BarKeeps
  <2> QED
    BY <1>u, <2>1, <2>2, <2>3, NextState DEF SInv, Shows
<1>5. ASSUME NEW w \in Widgets, ImageUpdate(w) PROVE SInv' /\ Told
  <2>1. PICK s \in Settings(w) : \E x : /\ Image' = [Image EXCEPT ![w.name] = NewImage(w, s)]
                                       /\ Shows(w, x, image_draw(Display, w, NewImage(w, s)))
    <3>1. \E s \in Settings(w) : \E J \in {NewImage(w, s)} : \E d \in {image_draw(Display, w, J)} :
            Image' = [Image EXCEPT ![w.name] = J] /\ Shows(w, Content(J, ImageCol(Layers, w, J)), d)
      BY <1>5 DEF ImageUpdate, NewImage
    <3> QED
      BY <3>1
  <2>2. w.class \in Pictured
    BY <1>5 DEF ImageUpdate
  <2> DEFINE J == NewImage(w, s)
  <2>3. IsImage(J)
    BY <1>i, <2>2, NewImageIs
  <2> HIDE DEF J
  <2>4. PICK x : Image' = [Image EXCEPT ![w.name] = J] /\ Shows(w, x, image_draw(Display, w, J))
    BY <2>1 DEF J
  <2>5. Keeps(Display, image_draw(Display, w, J))
    <3>1. IsAnywhere(w)
      BY WidgetHas
    <3> QED
      BY <1>i, <2>3, <3>1, ImageKeeps
  <2>6. Images'
    <3>1. w.name \in Named(Pictured)
      BY <2>2, WidgetHas
    <3>2. Image = [n \in Named(Pictured) |-> Image[n]] /\ \A n \in Named(Pictured) : IsImage(Image[n])
      BY <1>i DEF Images
    <3>3. Image' = [n \in Named(Pictured) |-> Image'[n]] /\ \A n \in Named(Pictured) : IsImage(Image'[n])
      BY <2>3, <2>4, <3>1, <3>2
    <3> QED
      BY <3>3 DEF Images, IsImage, IsBitmap, IsImageRecord, IsPicture, ImagePixel
  <2> QED
    BY <2>4, <2>5, <2>6, NextState DEF SInv, Shows
<1>6. CASE UNCHANGED vars
  <2>1. SInv'
    BY <1>6 DEF vars, SInv, IsState, Display, Layers, IsLayers, IsHw, Synced, Images, IsImage, IsBitmap, IsImageRecord,
                IsPicture, ImagePixel
  <2>2. Told
    BY <1>6 DEF vars, Told, Lit
  <2> QED
    BY <2>1, <2>2
<1> QED
  BY <1>1, <1>2, <1>3, <1>4, <1>5, <1>6, Zenon DEF Next

-----------------------------------------------------------------------------
(* The theorems *)

LEMMA Invariance ==
  ASSUME Regular, Placed, NoneIsNoFunction
  PROVE  IInv /\ [Next]_vars => IInv' /\ [C!Next]_(C!vars)
<1> SUFFICES ASSUME IInv, [Next]_vars PROVE IInv' /\ [C!Next]_(C!vars)
  OBVIOUS
<1>1. CASE drv_T6_quit
  BY <1>1, QuitStep DEF C!Next
<1>2. ASSUME NEW w \in Widgets, TextUpdate(w) PROVE IInv' /\ C!Draw(w)
  BY <1>2, TextStep
<1>3. ASSUME NEW w \in Widgets, IconUpdate(w) PROVE IInv' /\ C!Draw(w)
  BY <1>3, IconStep
<1>4. ASSUME NEW w \in Widgets, BarUpdate(w) PROVE IInv' /\ C!Draw(w)
  BY <1>4, BarStep
<1>5. ASSUME NEW w \in Widgets, ImageUpdate(w) PROVE IInv' /\ C!Draw(w)
  BY <1>5, ImageStep
<1>6. CASE UNCHANGED vars
  <2>1. IInv'
    BY <1>6 DEF vars, IInv, IsDisplay, Display, Layers, IsLayers, IsHw, Synced, Icons, Images, Scales, Covered,
                Covering, IsIcon, IsImage, IsBitmap, IsImageRecord, IsPicture, ImagePixel
  <2>2. UNCHANGED C!vars
    BY <1>6 DEF vars, C!vars, Pixel
  <2> QED
    BY <2>1, <2>2
<1> QED
  BY <1>1, <1>2, <1>3, <1>4, <1>5, <1>6, Zenon DEF Next, C!Next

\* The layers cover the display, they and the bitmaps have the size that the code that
\* writes to them takes for granted, and images fit their bitmaps: for any layout, with
\* places in front of the layers and hollow bars without a length, and any sizes.  If rows
\* are whole bytes, the blit of the T6963 touches at most the two bytes behind each of its
\* buffers, whatever is drawn and whatever lies there.
THEOREM TypeCorrect == Spec => []TypeOK
<1>1. Init => SInv
  BY StateStarts
<1>2. SInv /\ [Next]_vars => SInv'
  BY StateStays
<1>3. SInv => TypeOK
  <2> SUFFICES ASSUME SInv PROVE TypeOK
    OBVIOUS
  <2>1. IsLayers(Layers) /\ Images /\ (Regular => IsHw(hw))
    BY DEF SInv, IsState, Display
  <2> QED
    BY <2>1, TypeIs
<1> QED
  BY <1>1, <1>2, <1>3, PTL DEF Spec

\* If rows are whole bytes, what changes on the display is right: for any layout, with places
\* in front of the layers and frames outside of their bars, a pixel that changes shows the
\* blend of the layers at its place.
THEOREM WhatChangesIsRight == ASSUME Regular PROVE Spec => ChangesAreRight
<1>1. Init => SInv
  BY StateStarts
<1>2. SInv /\ [Next]_vars => SInv'
  BY StateStays
<1>3. SInv /\ [Next]_vars =>
        [\A p \in {q \in Extent : q[1] < DROWS /\ q[2] < DCOLS} :
           \/ Lit(hw.ram, p[1], p[2])' = Lit(hw.ram, p[1], p[2])
           \/ Lit(hw.ram, p[1], p[2])' = black(Layers, p[1], p[2])']_vars
  BY StateStays DEF Told, OnScreen
<1> QED
  BY <1>1, <1>2, <1>3, PTL DEF Spec, ChangesAreRight

\* The driver of drv_generic_graphic.c on the T6963 implements the canvas: what each widget
\* draws is painted on its layer and nothing else is, and the pixels of the display are
\* those of the layers, one put over the other.  It does so if rows are whole bytes, no
\* place is negative and hollow bars have a length, which the code does not check.
THEOREM GraphicImplementsCanvas ==
  ASSUME Regular, Placed, NoneIsNoFunction
  PROVE  Spec => ImplementsCanvas
<1>1. Init => IInv /\ C!Init
  BY InitIs
<1>2. IInv /\ [Next]_vars => IInv' /\ [C!Next]_(C!vars)
  BY Invariance
<1> QED
  BY <1>1, <1>2, PTL DEF Spec, ImplementsCanvas, C!Spec
=============================================================================
