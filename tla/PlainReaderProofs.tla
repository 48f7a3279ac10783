-------------------------- MODULE PlainReaderProofs --------------------------
(***************************************************************************)
(* PlainReader, for any file, requests, capacities and failing reads: the  *)
(* list of tile directories, whatever is asked, fails or is resized; the   *)
(* buffers of a call, at every moment of it; and what a call returns.      *)
(*                                                                         *)
(* In this order: the arithmetic of faces, what a picture drawn in part    *)
(* looks like, the list of directories, the places a call can be at and    *)
(* the lists of tasks it has left there, what each task makes of a call    *)
(* at its place, and the invariant these make up, with what follows.       *)
(***************************************************************************)
EXTENDS DirectoryHistory, FiniteSetTheorems, SequenceTheorems, WellFoundedInduction, TLAPS

-----------------------------------------------------------------------------
(* Recursive definitions: powers of two, and the pixels of a texture. *)

(* Induction on the natural numbers, stated over a set: the intervals 1..n *)
(* of the numbers not in S would have no least one.                        *)
LEMMA NatSetInduction ==
  ASSUME NEW S, 0 \in S, \A n \in Nat : n \in S => n + 1 \in S
  PROVE  Nat \subseteq S
<1> DEFINE T == Nat \ S
           Order == StrictSubsetOrdering(Nat)
           F == FiniteSubsetsOf(Nat)
           I == {1..n : n \in T}
<1> SUFFICES ASSUME T # {} PROVE FALSE
  OBVIOUS
<1>1. ASSUME NEW n \in Nat PROVE 1..n \in F
  <2>1. IsFiniteSet(1..n) /\ 1..n \in SUBSET Nat
    BY FS_Interval
  <2> QED BY <2>1 DEF FiniteSubsetsOf
<1>2. I \subseteq F /\ I # {} /\ IsWellFoundedOn(Order, F)
  BY <1>1, FS_StrictSubsetOrderingWellFounded
<1> HIDE DEF Order, F
<1>3. PICK m \in I : \A y \in I : ~ (<<y, m>> \in Order)
  BY <1>2, WFMin
<1>4. PICK x \in T : m = 1..x
  BY <1>3
<1>5. x \in Nat /\ x # 0 /\ x - 1 \in T /\ 1..(x - 1) \in I
  <2>1. x \in Nat /\ x # 0
    OBVIOUS
  <2>2. x - 1 \in Nat /\ x - 1 \notin S
    BY <2>1
  <2> QED BY <2>1, <2>2
<1>6. <<1..(x - 1), 1..x>> \in Order
  <2>1. 1..(x - 1) \subseteq 1..x /\ x \in 1..x /\ x \notin 1..(x - 1)
    BY <1>5
  <2> QED BY <1>5, <2>1 DEF Order, StrictSubsetOrdering
<1> QED
  BY <1>3, <1>4, <1>5, <1>6


(* f doubles from 1 on, up to n. *)
DoublesTo(f, n) == \A k \in 0..31 : k <= n => f[k] = IF k = 0 THEN 1 ELSE 2 * f[k - 1]

(* A function that doubles as far as n. *)
LEMMA DoublesExist ==
  ASSUME NEW n \in Nat
  PROVE  \E f : DoublesTo(f, n)
<1> DEFINE A == {m \in Nat : \E f : DoublesTo(f, m)}
<1>1. 0 \in A
  <2> DEFINE f == [k \in 0..31 |-> 1]
  <2>1. DoublesTo(f, 0)
    BY DEF DoublesTo
  <2> QED BY <2>1
<1>2. ASSUME NEW m \in Nat, m \in A PROVE m + 1 \in A
  <2>1. PICK f : DoublesTo(f, m)
    BY <1>2
  <2> DEFINE h == [k \in 0..31 |-> IF k = 0 THEN 1 ELSE 2 * f[k - 1]]
  <2>2. ASSUME NEW k \in 0..31, k <= m + 1
        PROVE  h[k] = IF k = 0 THEN 1 ELSE 2 * h[k - 1]
    <3>1. CASE k = 0
      BY <3>1
    <3>2. CASE k # 0
      <4>1. k - 1 \in 0..31 /\ k - 1 <= m
        BY <2>2, <3>2
      <4>2. f[k - 1] = h[k - 1]
        BY <2>1, <4>1 DEF DoublesTo
      <4> QED BY <3>2, <4>2
    <3> QED BY <3>1, <3>2
  <2> HIDE DEF h
  <2>3. DoublesTo(h, m + 1)
    BY <2>2 DEF DoublesTo
  <2> QED BY <2>3
<1>3. Nat \subseteq A
  <2> HIDE DEF A
  <2> QED BY <1>1, <1>2, NatSetInduction
<1> QED
  BY <1>3

(* TwoTo is the one its definition describes. *)
LEMMA TwoToIs ==
  ASSUME NEW n \in 0..31
  PROVE  TwoTo[n] = IF n = 0 THEN 1 ELSE 2 * TwoTo[n - 1]
<1>1. PICK f : DoublesTo(f, 31)
  BY DoublesExist
<1> DEFINE g == [k \in 0..31 |-> f[k]]
           Is(h) == h = [k \in 0..31 |-> IF k = 0 THEN 1 ELSE 2 * h[k - 1]]
<1>2. Is(g)
  <2>1. ASSUME NEW k \in 0..31 PROVE g[k] = IF k = 0 THEN 1 ELSE 2 * g[k - 1]
    BY <1>1 DEF DoublesTo
  <2> QED BY <2>1
<1>3. TwoTo = CHOOSE h : Is(h)
  BY DEF TwoTo
<1> HIDE DEF Is, g
<1>4. Is(TwoTo)
  BY <1>2, <1>3
<1>5. TwoTo = [k \in 0..31 |-> IF k = 0 THEN 1 ELSE 2 * TwoTo[k - 1]]
  BY <1>4 DEF Is
<1> QED
  BY <1>5

(* Powers of two are positive. *)
LEMMA TwoToPositive ==
  ASSUME NEW n \in 0..31
  PROVE  TwoTo[n] \in Nat \ {0}
<1> DEFINE A == {k \in Nat : k <= 31 => TwoTo[k] \in Nat \ {0}}
<1>1. 0 \in A
  BY TwoToIs
<1>2. ASSUME NEW k \in Nat, k \in A PROVE k + 1 \in A
  <2> SUFFICES ASSUME k + 1 <= 31 PROVE TwoTo[k + 1] \in Nat \ {0}
    OBVIOUS
  <2>1. k + 1 \in 0..31 /\ k + 1 # 0 /\ (k + 1) - 1 = k /\ TwoTo[k] \in Nat \ {0}
    BY <1>2
  <2>2. TwoTo[k + 1] = 2 * TwoTo[k]
    BY <2>1, TwoToIs
  <2> QED BY <2>1, <2>2
<1>3. Nat \subseteq A
  <2> HIDE DEF A
  <2> QED BY <1>1, <1>2, NatSetInduction
<1> QED
  BY <1>3

(* The power of a sum is the product of the powers. *)
LEMMA TwoToSum ==
  ASSUME NEW a \in 0..31, NEW b \in 0..31, a + b <= 31
  PROVE  TwoTo[a + b] = TwoTo[a] * TwoTo[b]
<1> DEFINE A == {k \in Nat : k + b <= 31 => TwoTo[k + b] = TwoTo[k] * TwoTo[b]}
<1>1. 0 \in A
  BY TwoToIs, TwoToPositive
<1>2. ASSUME NEW k \in Nat, k \in A PROVE k + 1 \in A
  <2> SUFFICES ASSUME k + 1 + b <= 31 PROVE TwoTo[k + 1 + b] = TwoTo[k + 1] * TwoTo[b]
    OBVIOUS
  <2>1. /\ k + 1 \in 0..31 /\ k \in 0..31 /\ k + 1 + b \in 0..31 /\ k + b \in 0..31
        /\ k + 1 # 0 /\ k + 1 + b # 0 /\ (k + 1) - 1 = k /\ (k + 1 + b) - 1 = k + b
    BY <1>2
  <2>2. TwoTo[k + 1 + b] = 2 * TwoTo[k + b] /\ TwoTo[k + 1] = 2 * TwoTo[k]
    BY <2>1, TwoToIs
  <2>3. TwoTo[k + b] = TwoTo[k] * TwoTo[b]
    BY <1>2, <2>1
  <2>4. TwoTo[k] \in Nat /\ TwoTo[b] \in Nat
    BY <2>1, TwoToPositive
  <2> QED BY <2>2, <2>3, <2>4
<1>3. Nat \subseteq A
  <2> HIDE DEF A
  <2> QED BY <1>1, <1>2, NatSetInduction
<1> QED
  BY <1>3

(* A quotient and a rest make a number, and are its own. *)
LEMMA DivMod ==
  ASSUME NEW B \in Nat, NEW a \in Nat, NEW b \in 0..(B - 1)
  PROVE  (a * B + b) % B = b /\ (a * B + b) \div B = a
OBVIOUS

(* Quotient and rest of one natural number by another. *)
LEMMA DivModOf ==
  ASSUME NEW a \in Nat, NEW b \in Nat \ {0}
  PROVE  a \div b \in Nat /\ a % b \in 0..(b - 1) /\ a = (a \div b) * b + (a % b)
OBVIOUS

(* Resolutions, and those of the tiles of a face. *)
Resolution == [u : 0..31, v : 0..31]
Within(t, r) == t \in [u : 0..r.u, v : 0..r.v]

(* The sides and the texels of a resolution. *)
LEMMA Sides ==
  ASSUME NEW r \in Resolution
  PROVE  /\ U(r) \in Nat \ {0} /\ V(r) \in Nat \ {0} /\ Size(r) = U(r) * V(r) /\ Size(r) \in Nat
         /\ \A s \in Nat : Needed(r, s) = s * (V(r) - 1) + U(r) /\ Needed(r, s) \in Nat
         /\ Needed(r, U(r)) = Size(r)
<1>1. U(r) \in Nat \ {0} /\ V(r) \in Nat \ {0}
  BY TwoToPositive DEF U, V, Resolution
<1>2. Size(r) = U(r) * V(r) /\ \A s \in Nat : Needed(r, s) = s * (V(r) - 1) + U(r)
  BY DEF Size, Needed
<1>3. \A a, b \in Nat \ {0} : a * b \in Nat /\ a * (b - 1) + a = a * b
  OBVIOUS
<1>4. \A s \in Nat, a, b \in Nat \ {0} : s * (b - 1) + a \in Nat
  <2> TAKE s \in Nat, a, b \in Nat \ {0}
  <2>1. b - 1 \in Nat
    OBVIOUS
  <2>2. s * (b - 1) \in Nat
    BY <2>1
  <2> QED BY <2>2
<1> QED BY ONLY <1>1, <1>2, <1>3, <1>4

(* A resolution is a whole number of tiles of a smaller one. *)
LEMMA Tiling ==
  ASSUME NEW r \in Resolution, NEW t, Within(t, r)
  PROVE  /\ t \in Resolution
         /\ NTilesU(r, t) \in Nat \ {0} /\ NTilesV(r, t) \in Nat \ {0}
         /\ U(r) = NTilesU(r, t) * U(t) /\ V(r) = NTilesV(r, t) * V(t)
<1>1. /\ r.u \in 0..31 /\ r.v \in 0..31 /\ t.u \in 0..r.u /\ t.v \in 0..r.v
      /\ t = [u |-> t.u, v |-> t.v]
  BY DEF Resolution, Within
<1>2. /\ r.u - t.u \in 0..31 /\ r.v - t.v \in 0..31 /\ t.u \in 0..31 /\ t.v \in 0..31
      /\ (r.u - t.u) + t.u = r.u /\ (r.v - t.v) + t.v = r.v
  BY <1>1
<1>3. TwoTo[r.u] = TwoTo[r.u - t.u] * TwoTo[t.u] /\ TwoTo[r.v] = TwoTo[r.v - t.v] * TwoTo[t.v]
  <2> DEFINE a == r.u - t.u
             b == t.u
             c == r.v - t.v
             d == t.v
  <2>1. a \in 0..31 /\ b \in 0..31 /\ a + b = r.u /\ c \in 0..31 /\ d \in 0..31 /\ c + d = r.v
    BY <1>2
  <2>2. r.u \in 0..31 /\ r.v \in 0..31
    BY <1>1
  <2> HIDE DEF a, b, c, d
  <2>3. TwoTo[a + b] = TwoTo[a] * TwoTo[b] /\ TwoTo[c + d] = TwoTo[c] * TwoTo[d]
    BY <2>1, <2>2, TwoToSum
  <2> QED BY <2>1, <2>3 DEF a, b, c, d
<1>4. t \in Resolution
  BY <1>1, <1>2 DEF Resolution
<1>5. NTilesU(r, t) \in Nat \ {0} /\ NTilesV(r, t) \in Nat \ {0}
  BY <1>2, TwoToPositive DEF NTilesU, NTilesV
<1> QED
  BY <1>3, <1>4, <1>5 DEF U, V, NTilesU, NTilesV

-----------------------------------------------------------------------------
(* Rectangles in a buffer: rows of w texels from column x0 and row y0 on.  *)

(* The column and the row of offset k, hidden from the provers. *)
Col(k, s) == k % s
Row(k, s) == k \div s

(* The row and the column of an offset. *)
LEMMA Place ==
  ASSUME NEW k \in Nat, NEW s \in Nat \ {0}
  PROVE  Col(k, s) \in 0..(s - 1) /\ Row(k, s) \in Nat /\ k = Row(k, s) * s + Col(k, s)
BY DivModOf DEF Col, Row

(* The offset of a row and a column. *)
LEMMA OfPlace ==
  ASSUME NEW s \in Nat, NEW a \in Nat, NEW b \in 0..(s - 1)
  PROVE  a * s + b \in Nat /\ Col(a * s + b, s) = b /\ Row(a * s + b, s) = a
<1>1. a * s \in Nat
  OBVIOUS
<1> QED BY <1>1, DivMod DEF Col, Row

(* A place in a rectangle is a place in what the rectangle lies in. *)
LEMMA FromRectangle ==
  ASSUME NEW s \in Nat \ {0}, NEW w \in Nat, NEW x0 \in Nat, NEW y0 \in Nat, x0 + w <= s,
         NEW n \in Nat, Col(n, s) < w, NEW k, k = n + (y0 * s + x0)
  PROVE  Col(k, s) = x0 + Col(n, s) /\ Row(k, s) = y0 + Row(n, s)
<1> DEFINE c == Col(n, s)
           d == Row(n, s)
<1>1. c \in 0..(s - 1) /\ d \in Nat /\ n = d * s + c /\ c < w
  BY Place
<1> HIDE DEF c, d
<1>3. k = (y0 + d) * s + (x0 + c)
  <2>1. (y0 + d) * s = y0 * s + d * s
    BY <1>1
  <2>2. y0 * s \in Nat /\ d * s \in Nat
    BY <1>1
  <2> QED BY <1>1, <2>1, <2>2
<1>4. x0 + c \in 0..(s - 1) /\ y0 + d \in Nat
  BY <1>1
<1>5. Col((y0 + d) * s + (x0 + c), s) = x0 + c /\ Row((y0 + d) * s + (x0 + c), s) = y0 + d
  BY <1>4, OfPlace
<1>6. Col(k, s) = x0 + c /\ Row(k, s) = y0 + d
  BY ONLY <1>3, <1>5
<1> QED
  BY <1>6 DEF c, d

(* A place right of and below a corner is one in the rectangle there. *)
LEMMA IntoRectangle ==
  ASSUME NEW s \in Nat \ {0}, NEW x0 \in Nat, NEW y0 \in Nat, NEW k \in Nat,
         x0 <= Col(k, s), y0 <= Row(k, s)
  PROVE  /\ k >= y0 * s + x0
         /\ Col(k - (y0 * s + x0), s) = Col(k, s) - x0
         /\ Row(k - (y0 * s + x0), s) = Row(k, s) - y0
<1> DEFINE a == Col(k, s)
           b == Row(k, s)
<1>1. a \in 0..(s - 1) /\ b \in Nat /\ k = b * s + a /\ x0 <= a /\ y0 <= b
  BY Place
<1> HIDE DEF a, b
<1>2. a - x0 \in 0..(s - 1) /\ b - y0 \in Nat
  BY <1>1
<1>3. k - (y0 * s + x0) = (b - y0) * s + (a - x0)
  <2>1. (b - y0) * s = b * s - y0 * s
    BY <1>1
  <2>2. b * s \in Nat /\ y0 * s \in Nat
    BY <1>1
  <2> QED BY <1>1, <2>1, <2>2
<1>4. (b - y0) * s \in Nat
  BY <1>2
<1>5. k >= y0 * s + x0
  <2> DEFINE m == (b - y0) * s
             o == y0 * s + x0
  <2>1. o \in Nat
    <3>1. y0 * s \in Nat
      OBVIOUS
    <3> QED BY <3>1
  <2>2. k - o = m + (a - x0) /\ m \in Nat
    BY <1>3, <1>4
  <2> HIDE DEF m, o
  <2>3. k >= o
    BY <1>2, <2>1, <2>2
  <2> QED BY <2>3 DEF o
<1>6. /\ Col((b - y0) * s + (a - x0), s) = a - x0
      /\ Row((b - y0) * s + (a - x0), s) = b - y0
  BY <1>2, OfPlace
<1> QED
  BY <1>3, <1>5, <1>6 DEF a, b

(* The place of a texel in a packed image. *)
LEMMA PlaceInImage ==
  ASSUME NEW q \in Resolution, NEW c \in Nat, NEW d \in Nat, c < U(q), d < V(q)
  PROVE  LET k == d * U(q) + c
         IN  k \in 0..(Size(q) - 1) /\ Col(k, U(q)) = c /\ Row(k, U(q)) = d
<1> DEFINE w == U(q)
           h == V(q)
<1>1. w \in Nat \ {0} /\ h \in Nat \ {0} /\ Size(q) = w * h /\ c \in 0..(w - 1) /\ d \in 0..(h - 1)
  BY Sides
<1> HIDE DEF w, h
<1>2. Col(d * w + c, w) = c /\ Row(d * w + c, w) = d
  BY <1>1, OfPlace
<1>3. d * w + c \in 0..(w * h - 1)
  <2>1. (d + 1) * w <= h * w
    <3>1. d + 1 <= h
      BY <1>1
    <3>2. \A i, j, n \in Nat : i <= j => i * n <= j * n
      OBVIOUS
    <3> QED BY <1>1, <3>1, <3>2
  <2>2. (d + 1) * w = d * w + w /\ h * w = w * h /\ d * w \in Nat /\ w * h \in Nat
    BY <1>1
  <2> QED BY <1>1, <2>1, <2>2
<1> QED
  BY <1>1, <1>2, <1>3 DEF w, h

(* What a buffer of stride s is to hold at k: the texels of x from o on,   *)
(* as many as r has, and nothing in the gaps.                              *)
Pic(x, o, r, s, k) ==
  IF Col(k, s) < U(r) /\ Row(k, s) < V(r)
  THEN Pixels[x][<< o[1] + Col(k, s), o[2] + Row(k, s) >>]
  ELSE Old

IsFrame(b) ==
  /\ b \in [stride : Nat, len : Nat, data : {b.data}]
  /\ b.data = [k \in 0..(b.len - 1) |-> b.data[k]]

(* A buffer on its way to that, and one that is there. *)
Sketch(b, x, o, r) ==
  /\ IsFrame(b)
  /\ b.stride >= U(r) /\ b.len >= Needed(r, b.stride)
  /\ \A k \in 0..(b.len - 1) : b.data[k] \in {Old, Pic(x, o, r, b.stride, k)}

Finished(b, x, o, r) ==
  /\ Sketch(b, x, o, r)
  /\ \A k \in 0..(b.len - 1) : b.data[k] = Pic(x, o, r, b.stride, k)

(* An image of resolution q shows the texels from x0, y0 on. *)
Shows(img, q, x, o, x0, y0) ==
  \A c, d \in Nat : c < U(q) /\ d < V(q) =>
    img[d * U(q) + c] = Pixels[x][<< o[1] + (x0 + c), o[2] + (y0 + d) >>]

(* The offset of column x0 of row y0. *)
Offset(x0, y0, s) == y0 * s + x0

(* Whether offset k lies in a rectangle. *)
InRect(k, s, q, x0, y0) ==
  /\ x0 <= Col(k, s) /\ Col(k, s) < x0 + U(q)
  /\ y0 <= Row(k, s) /\ Row(k, s) < y0 + V(q)

(* Where a texel is drawn, it is the right one; elsewhere nothing changes. *)
DrawnAsWanted(x, o, r, q, x0, y0, img, s, off, dst, k) ==
  LET new == Drawn(dst, off, s, img, q)[k]
  IN  /\ new \in {dst[k], Pic(x, o, r, s, k)}
      /\ InRect(k, s, q, x0, y0) => new = Pic(x, o, r, s, k)

(* Drawing an image at the rectangle it shows changes texels only to what  *)
(* the picture has there, and draws the rectangle.                         *)
LEMMA Drawing ==
  ASSUME NEW x, NEW o, NEW r \in Resolution, NEW q \in Resolution,
         NEW x0 \in Nat, NEW y0 \in Nat, x0 + U(q) <= U(r), y0 + V(q) <= V(r),
         NEW img, Shows(img, q, x, o, x0, y0),
         NEW s \in Nat \ {0}, s >= U(r), NEW off, off = Offset(x0, y0, s),
         NEW dst, NEW k \in Nat, k \in DOMAIN dst
  PROVE  DrawnAsWanted(x, o, r, q, x0, y0, img, s, off, dst, k)
<1> DEFINE c == Col(k - off, s)
           d == Row(k - off, s)
           i == Col(k, s)
           j == Row(k, s)
           new == Drawn(dst, off, s, img, q)[k]
           Inside == k >= off /\ c < U(q) /\ d < V(q)
<1>0. off = y0 * s + x0
  BY DEF Offset
<1>1. new = IF Inside THEN img[d * U(q) + c] ELSE dst[k]
  BY DEF Drawn, Col, Row
<1>2. /\ U(q) \in Nat /\ V(q) \in Nat /\ U(r) \in Nat /\ V(r) \in Nat
      /\ off \in Nat /\ x0 + U(q) <= s
  <2>1. y0 * s \in Nat
    OBVIOUS
  <2>2. off \in Nat
    BY <1>0, <2>1
  <2> QED BY <2>2, Sides
<1>3. i \in Nat /\ j \in Nat
  BY Place
<1>4. Pic(x, o, r, s, k) = IF i < U(r) /\ j < V(r) THEN Pixels[x][<< o[1] + i, o[2] + j >>] ELSE Old
  BY DEF Pic
<1>5. InRect(k, s, q, x0, y0) <=> x0 <= i /\ i < x0 + U(q) /\ y0 <= j /\ j < y0 + V(q)
  BY DEF InRect
<1>6. ASSUME Inside
      PROVE  c \in Nat /\ d \in Nat /\ i = x0 + c /\ j = y0 + d
  <2>0. PICK n \in Nat : n = k - off
    BY <1>2, <1>6
  <2>1. k = n + (y0 * s + x0) /\ c = Col(n, s) /\ d = Row(n, s)
    BY <1>0, <1>2, <2>0
  <2> HIDE DEF i, j, c, d
  <2>2. Col(n, s) < U(q)
    BY <1>6, <2>1
  <2>3. Col(k, s) = x0 + Col(n, s) /\ Row(k, s) = y0 + Row(n, s)
    BY <1>2, <2>1, <2>2, FromRectangle
  <2>4. Col(n, s) \in Nat /\ Row(n, s) \in Nat
    BY Place
  <2> QED BY <2>1, <2>3, <2>4 DEF i, j
<1>7. ASSUME x0 <= i, y0 <= j
      PROVE  k >= off /\ c = i - x0 /\ d = j - y0
  BY <1>0, <1>7, IntoRectangle
<1> HIDE DEF new, c, d, i, j
<1>8. ASSUME Inside PROVE new = Pic(x, o, r, s, k)
  <2>1. c \in Nat /\ d \in Nat /\ i = x0 + c /\ j = y0 + d
    BY <1>6, <1>8
  <2>2. new = Pixels[x][<< o[1] + (x0 + c), o[2] + (y0 + d) >>]
    BY <1>1, <1>8, <2>1 DEF Shows
  <2>3. i < U(r) /\ j < V(r)
    BY <1>2, <1>8, <2>1
  <2> QED BY <1>4, <2>1, <2>2, <2>3
<1>9. ASSUME InRect(k, s, q, x0, y0) PROVE Inside
  BY <1>2, <1>3, <1>5, <1>7, <1>9
<1> QED
  BY <1>1, <1>8, <1>9 DEF new, DrawnAsWanted

(* A buffer with an image drawn in it, and what that achieves. *)
Paint(b, off, img, q) == [b EXCEPT !.data = Drawn(@, off, b.stride, img, q)]
Painted(b, c, x, o, r, q, x0, y0) ==
  /\ Sketch(c, x, o, r) /\ c.stride = b.stride /\ c.len = b.len
  /\ \A k \in 0..(b.len - 1) :
       b.data[k] = Pic(x, o, r, b.stride, k) \/ InRect(k, b.stride, q, x0, y0)
       => c.data[k] = Pic(x, o, r, b.stride, k)

(* A sketch with an image drawn in it is one still. *)
LEMMA Painting ==
  ASSUME NEW x, NEW o, NEW r \in Resolution, NEW b, Sketch(b, x, o, r),
         NEW q \in Resolution, NEW x0 \in Nat, NEW y0 \in Nat,
         x0 + U(q) <= U(r), y0 + V(q) <= V(r),
         NEW img, Shows(img, q, x, o, x0, y0), NEW off, off = Offset(x0, y0, b.stride)
  PROVE  Painted(b, Paint(b, off, img, q), x, o, r, q, x0, y0)
<1> DEFINE c == Paint(b, off, img, q)
<1> DEFINE s == b.stride
           P(k) == Pic(x, o, r, s, k)
           D == Drawn(b.data, off, s, img, q)
           Rect(k) == InRect(k, s, q, x0, y0)
<1>1. /\ b \in [stride : Nat, len : Nat, data : {b.data}] /\ s \in Nat \ {0} /\ s >= U(r)
      /\ b.data = [k \in 0..(b.len - 1) |-> b.data[k]] /\ b.len \in Nat
      /\ \A k \in 0..(b.len - 1) : b.data[k] \in {Old, P(k)}
  <2>1. U(r) \in Nat \ {0}
    BY Sides
  <2> QED BY <2>1 DEF Sketch, IsFrame
<1>2. c.stride = s /\ c.len = b.len /\ c.data = D /\ c \in [stride : Nat, len : Nat, data : {c.data}]
  BY <1>1 DEF Paint
<1> HIDE DEF c
<1>3. D = [k \in 0..(b.len - 1) |-> D[k]]
  BY <1>1 DEF Drawn
<1>4. ASSUME NEW k \in 0..(b.len - 1)
      PROVE  D[k] \in {b.data[k], P(k)} /\ (Rect(k) => D[k] = P(k))
  <2>1. k \in Nat /\ k \in DOMAIN b.data
    BY <1>1
  <2>2. /\ Drawn(b.data, off, s, img, q)[k] \in {b.data[k], Pic(x, o, r, s, k)}
        /\ InRect(k, s, q, x0, y0) => Drawn(b.data, off, s, img, q)[k] = Pic(x, o, r, s, k)
    <3>1. DrawnAsWanted(x, o, r, q, x0, y0, img, s, off, b.data, k)
      BY <1>1, <2>1, Drawing
    <3> QED BY <3>1 DEF DrawnAsWanted
  <2> QED BY <2>2
<1> HIDE DEF P, D, Rect
<1>5. ASSUME NEW k \in 0..(b.len - 1), b.data[k] = P(k) \/ Rect(k)
      PROVE  D[k] = P(k)
  BY <1>4, <1>5
<1>6. \A k \in 0..(b.len - 1) : D[k] \in {Old, P(k)}
  BY <1>1, <1>4
<1>7. Sketch(c, x, o, r)
  <2>1. IsFrame(c)
    BY <1>2, <1>3 DEF IsFrame
  <2>2. c.stride >= U(r) /\ c.len >= Needed(r, c.stride)
    BY <1>2 DEF Sketch
  <2>3. \A k \in 0..(c.len - 1) : c.data[k] \in {Old, Pic(x, o, r, c.stride, k)}
    BY <1>2, <1>6 DEF P
  <2> QED BY <2>1, <2>2, <2>3 DEF Sketch
<1> QED
  BY <1>2, <1>5, <1>7 DEF P, Rect, Painted, c

(* A reduction is coarser than what it is reduced from. *)
Rank(x) == 62 - ResOf[x].u - ResOf[x].v

(* What is known of any texture; reducing one raises its rank. *)
LEMMA Textures ==
  ASSUME NEW x \in Texture
  PROVE  /\ ResOf[x] \in Resolution /\ Rank(x) \in Nat
         /\ Source[x].route \in {"constant", "none", "stored", "reduced"}
         /\ Source[x].route = "reduced" =>
              /\ Source[x].from \in Texture /\ Rank(x) = Rank(Source[x].from) + 1
              /\ LET from == ResOf[Source[x].from]
                 IN  \/ Source[x].kind = "U" /\ from = Res(ResOf[x].u + 1, ResOf[x].v)
                     \/ Source[x].kind = "V" /\ from = Res(ResOf[x].u, ResOf[x].v + 1)
<1>1. \A y \in Texture : ResOf[y] \in [u : 0..31, v : 0..31]
  BY FileAssumption
<1>2. ResOf[x].u \in 0..31 /\ ResOf[x].v \in 0..31 /\ ResOf[x] \in Resolution
  BY <1>1 DEF Resolution
<1>3. Rank(x) \in Nat
  <2>1. \A a, b \in 0..31 : 62 - a - b \in Nat
    OBVIOUS
  <2> QED BY ONLY <1>2, <2>1 DEF Rank
<1>4. Source[x].route \in {"constant", "none", "stored", "reduced"}
  BY FileAssumption, Zenon
<1>5. ASSUME Source[x].route = "reduced"
      PROVE  /\ Source[x].from \in Texture
             /\ LET from == ResOf[Source[x].from]
                IN  \/ Source[x].kind = "U" /\ from = Res(ResOf[x].u + 1, ResOf[x].v)
                    \/ Source[x].kind = "V" /\ from = Res(ResOf[x].u, ResOf[x].v + 1)
  BY <1>5, FileAssumption, Zenon
<1>6. ASSUME Source[x].route = "reduced"
      PROVE  Rank(x) = Rank(Source[x].from) + 1
  <2>1. \A a, b \in 0..31 : 62 - a - b = (62 - (a + 1) - b) + 1 /\ 62 - a - b = (62 - a - (b + 1)) + 1
    OBVIOUS
  <2>2. \A a, b : Res(a, b).u = a /\ Res(a, b).v = b
    BY DEF Res
  <2> DEFINE a == ResOf[x].u
             b == ResOf[x].v
             y == ResOf[Source[x].from]
  <2>3. (y.u = a + 1 /\ y.v = b) \/ (y.u = a /\ y.v = b + 1)
    <3>1. y = Res(a + 1, b) \/ y = Res(a, b + 1)
      BY <1>5, <1>6
    <3> HIDE DEF a, b, y
    <3> QED BY <2>2, <3>1
  <2>4. Rank(x) = 62 - a - b /\ Rank(Source[x].from) = 62 - y.u - y.v
    BY DEF Rank
  <2> HIDE DEF a, b, y
  <2>5. a \in 0..31 /\ b \in 0..31
    BY <1>2 DEF a, b
  <2> QED BY ONLY <2>1, <2>3, <2>4, <2>5
<1> QED
  BY <1>2, <1>3, <1>4, <1>5, <1>6, Zenon

(* What Pixels says of one texture, of f instead. *)
PixelsOf(f, x) ==
  IF Source[x].route = "reduced" THEN MeansOf(x, f[Source[x].from]) ELSE PixelsHeld(x)
PixelsTo(f, n) == \A x \in Texture : Rank(x) <= n => f[x] = PixelsOf(f, x)

(* Pixels is defined as far as rank n. *)
LEMMA SomePixels ==
  ASSUME NEW n \in Nat
  PROVE  \E f : PixelsTo(f, n)
<1> DEFINE A == {m \in Nat : \E f : PixelsTo(f, m)}
<1>1. 0 \in A
  <2> DEFINE f == [x \in Texture |-> PixelsHeld(x)]
  <2>1. ASSUME NEW x \in Texture, Rank(x) <= 0
        PROVE  Source[x].route # "reduced"
    <3>1. SUFFICES ASSUME Source[x].route = "reduced" PROVE FALSE
      OBVIOUS
    <3>2. Source[x].from \in Texture /\ Rank(x) = Rank(Source[x].from) + 1
      BY <3>1, Textures
    <3>3. Rank(Source[x].from) \in Nat
      BY <3>2, Textures
    <3> QED BY <2>1, <3>2, <3>3
  <2>2. PixelsTo(f, 0)
    BY <2>1 DEF PixelsTo, PixelsOf
  <2> QED BY <2>2
<1>2. ASSUME NEW m \in Nat, m \in A PROVE m + 1 \in A
  <2>1. PICK f : PixelsTo(f, m)
    BY <1>2
  <2> DEFINE h == [x \in Texture |-> PixelsOf(f, x)]
  <2>2. ASSUME NEW x \in Texture, Rank(x) <= m + 1
        PROVE  h[x] = PixelsOf(h, x)
    <3>1. CASE Source[x].route # "reduced"
      BY <3>1 DEF PixelsOf
    <3>2. CASE Source[x].route = "reduced"
      <4> DEFINE y == Source[x].from
      <4>1. y \in Texture /\ Rank(x) = Rank(y) + 1
        BY <3>2, Textures
      <4>2. Rank(y) \in Nat
        BY <4>1, Textures
      <4>3. Rank(y) <= m
        BY <2>2, <4>1, <4>2
      <4>4. f[y] = PixelsOf(f, y)
        BY <2>1, <4>1, <4>3 DEF PixelsTo
      <4>5. h[y] = PixelsOf(f, y)
        BY <4>1
      <4> HIDE DEF h
      <4>6. f[Source[x].from] = h[Source[x].from]
        BY <4>4, <4>5
      <4>7. PixelsOf(h, x) = PixelsOf(f, x)
        BY <4>6 DEF PixelsOf
      <4> QED BY <4>7 DEF h
    <3> QED BY <3>1, <3>2
  <2> HIDE DEF h
  <2>3. PixelsTo(h, m + 1)
    BY <2>2, Zenon DEF PixelsTo
  <2> QED BY <2>3
<1>3. Nat \subseteq A
  <2> HIDE DEF A
  <2> QED BY <1>1, <1>2, NatSetInduction
<1> QED
  BY <1>3

(* Pixels is what its definition describes. *)
LEMMA PixelsIs ==
  ASSUME NEW x \in Texture
  PROVE  Pixels[x] = PixelsOf(Pixels, x)
<1>1. PICK f : PixelsTo(f, 62)
  BY SomePixels
<1> DEFINE g == [y \in Texture |-> f[y]]
           Is(h) == h = [y \in Texture |->
                           IF Source[y].route = "reduced"
                           THEN MeansOf(y, h[Source[y].from]) ELSE PixelsHeld(y)]
<1>2. Is(g)
  <2>1. ASSUME NEW y \in Texture PROVE g[y] = PixelsOf(g, y)
    <3>1. ResOf[y].u \in 0..31 /\ ResOf[y].v \in 0..31
      BY Textures DEF Resolution
    <3>2. Rank(y) <= 62
      BY <3>1 DEF Rank
    <3>3. f[y] = PixelsOf(f, y)
      BY <1>1, <3>2 DEF PixelsTo
    <3>4. Source[y].route = "reduced" => g[Source[y].from] = f[Source[y].from]
      BY Textures
    <3>5. PixelsOf(g, y) = PixelsOf(f, y)
      BY <3>4 DEF PixelsOf
    <3> QED BY <3>3, <3>5
  <2> HIDE DEF g
  <2>2. g = [y \in Texture |-> g[y]]
    BY DEF g
  <2>3. g = [y \in Texture |-> PixelsOf(g, y)]
    BY <2>1, <2>2, Zenon
  <2> QED BY <2>3 DEF PixelsOf
<1>3. Pixels = CHOOSE h : Is(h)
  BY DEF Pixels
<1> HIDE DEF Is, g
<1>4. Is(Pixels)
  BY <1>2, <1>3
<1>5. Pixels = [y \in Texture |-> PixelsOf(Pixels, y)]
  BY <1>4 DEF Is, PixelsOf
<1> QED
  BY <1>5
(* The same of Whole. *)
WholeOf(f, x) == IF Source[x].route = "reduced" THEN f[Source[x].from] ELSE FaceReads(x)
WholeTo(f, n) == \A x \in Texture : Rank(x) <= n => f[x] = WholeOf(f, x)

(* Whole is defined as far as rank n. *)
LEMMA SomeWhole ==
  ASSUME NEW n \in Nat
  PROVE  \E f : WholeTo(f, n)
<1> DEFINE A == {m \in Nat : \E f : WholeTo(f, m)}
<1>1. 0 \in A
  <2> DEFINE f == [x \in Texture |-> FaceReads(x)]
  <2>1. ASSUME NEW x \in Texture, Rank(x) <= 0
        PROVE  Source[x].route # "reduced"
    <3>1. SUFFICES ASSUME Source[x].route = "reduced" PROVE FALSE
      OBVIOUS
    <3>2. Source[x].from \in Texture /\ Rank(x) = Rank(Source[x].from) + 1
      BY <3>1, Textures
    <3>3. Rank(Source[x].from) \in Nat
      BY <3>2, Textures
    <3> QED BY <2>1, <3>2, <3>3
  <2>2. WholeTo(f, 0)
    BY <2>1 DEF WholeTo, WholeOf
  <2> QED BY <2>2
<1>2. ASSUME NEW m \in Nat, m \in A PROVE m + 1 \in A
  <2>1. PICK f : WholeTo(f, m)
    BY <1>2
  <2> DEFINE h == [x \in Texture |-> WholeOf(f, x)]
  <2>2. ASSUME NEW x \in Texture, Rank(x) <= m + 1
        PROVE  h[x] = WholeOf(h, x)
    <3>1. CASE Source[x].route # "reduced"
      BY <3>1 DEF WholeOf
    <3>2. CASE Source[x].route = "reduced"
      <4> DEFINE y == Source[x].from
      <4>1. y \in Texture /\ Rank(x) = Rank(y) + 1
        BY <3>2, Textures
      <4>2. Rank(y) \in Nat
        BY <4>1, Textures
      <4>3. Rank(y) <= m
        BY <2>2, <4>1, <4>2
      <4>4. f[y] = WholeOf(f, y)
        BY <2>1, <4>1, <4>3 DEF WholeTo
      <4>5. h[y] = WholeOf(f, y)
        BY <4>1
      <4> HIDE DEF h
      <4>6. f[Source[x].from] = h[Source[x].from]
        BY <4>4, <4>5
      <4>7. WholeOf(h, x) = WholeOf(f, x)
        BY <4>6 DEF WholeOf
      <4> QED BY <4>7 DEF h
    <3> QED BY <3>1, <3>2
  <2> HIDE DEF h
  <2>3. WholeTo(h, m + 1)
    BY <2>2, Zenon DEF WholeTo
  <2> QED BY <2>3
<1>3. Nat \subseteq A
  <2> HIDE DEF A
  <2> QED BY <1>1, <1>2, NatSetInduction
<1> QED
  BY <1>3

(* Whole is what its definition describes. *)
LEMMA WholeIs ==
  ASSUME NEW x \in Texture
  PROVE  Whole[x] = WholeOf(Whole, x)
<1>1. PICK f : WholeTo(f, 62)
  BY SomeWhole
<1> DEFINE g == [y \in Texture |-> f[y]]
           Is(h) == h = [y \in Texture |->
                           IF Source[y].route = "reduced"
                           THEN h[Source[y].from] ELSE FaceReads(y)]
<1>2. Is(g)
  <2>1. ASSUME NEW y \in Texture PROVE g[y] = WholeOf(g, y)
    <3>1. ResOf[y].u \in 0..31 /\ ResOf[y].v \in 0..31
      BY Textures DEF Resolution
    <3>2. Rank(y) <= 62
      BY <3>1 DEF Rank
    <3>3. f[y] = WholeOf(f, y)
      BY <1>1, <3>2 DEF WholeTo
    <3>4. Source[y].route = "reduced" => g[Source[y].from] = f[Source[y].from]
      BY Textures
    <3>5. WholeOf(g, y) = WholeOf(f, y)
      BY <3>4 DEF WholeOf
    <3> QED BY <3>3, <3>5
  <2> HIDE DEF g
  <2>2. g = [y \in Texture |-> g[y]]
    BY DEF g
  <2>3. g = [y \in Texture |-> WholeOf(g, y)]
    BY <2>1, <2>2, Zenon
  <2> QED BY <2>3 DEF WholeOf
<1>3. Whole = CHOOSE h : Is(h)
  BY DEF Whole
<1> HIDE DEF Is, g
<1>4. Is(Whole)
  BY <1>2, <1>3
<1>5. Whole = [y \in Texture |-> WholeOf(Whole, y)]
  BY <1>4 DEF Is, WholeOf
<1> QED
  BY <1>5

Corner == << 0, 0 >>

(* One pixel, by where its texture's pixels are found. *)
LEMMA PixelAt ==
  ASSUME NEW x \in Texture, NEW i \in Nat, NEW j \in Nat, i < U(ResOf[x]), j < V(ResOf[x])
  PROVE  /\ Source[x].route = "constant" => Pixels[x][<< i, j >>] = Shade(x)
         /\ IsStored(x) => Pixels[x][<< i, j >>] = TexelAt(x, << i, j >>)
         /\ Source[x].route = "reduced" =>
              LET src == Pixels[Source[x].from]
              IN  Pixels[x][<< i, j >>] =
                    IF Source[x].kind = "U"
                    THEN << "mean", src[<< 2 * i, j >>], src[<< 2 * i + 1, j >>] >>
                    ELSE << "mean", src[<< i, 2 * j >>], src[<< i, 2 * j + 1 >>] >>
<1>1. << i, j >> \in Area(x)
  <2>1. U(ResOf[x]) \in Nat /\ V(ResOf[x]) \in Nat
    BY Textures, Sides
  <2> QED BY <2>1 DEF Area
<1>2. Pixels[x] = PixelsOf(Pixels, x)
  BY PixelsIs
<1>3. CASE Source[x].route = "constant"
  BY <1>1, <1>2, <1>3 DEF PixelsOf, PixelsHeld, IsStored
<1>4. CASE IsStored(x)
  BY <1>1, <1>2, <1>4 DEF PixelsOf, PixelsHeld, IsStored
<1>5. CASE Source[x].route = "reduced"
  BY <1>1, <1>2, <1>5 DEF PixelsOf, MeansOf, IsStored
<1> QED
  BY <1>3, <1>4, <1>5

-----------------------------------------------------------------------------
(* What is drawn of a face that is not tiled. *)
ShadeImage(x) == Packed(ResOf[x], LAMBDA u, v : Shade(x))
BlockImage(pos, q) == Packed(q, LAMBDA u, v : Texel(pos, v * U(q) + u))

(* A constant face is all its colour. *)
LEMMA ShadeShows ==
  ASSUME NEW x \in Texture, Source[x].route = "constant"
  PROVE  Shows(ShadeImage(x), ResOf[x], x, Corner, 0, 0)
<1> SUFFICES ASSUME NEW c \in Nat, NEW d \in Nat, c < U(ResOf[x]), d < V(ResOf[x])
             PROVE  ShadeImage(x)[d * U(ResOf[x]) + c] = Pixels[x][<< Corner[1] + (0 + c), Corner[2] + (0 + d) >>]
  BY DEF Shows
<1>1. d * U(ResOf[x]) + c \in 0..(Size(ResOf[x]) - 1)
  BY Textures, PlaceInImage
<1>2. ShadeImage(x)[d * U(ResOf[x]) + c] = Shade(x)
  BY <1>1 DEF Packed, ShadeImage
<1>3. Pixels[x][<< c, d >>] = Shade(x)
  BY PixelAt
<1>4. Corner[1] + (0 + c) = c /\ Corner[2] + (0 + d) = d
  BY DEF Corner
<1> QED
  BY <1>2, <1>3, <1>4

(* The block of a face that is not tiled is the face. *)
LEMMA BlockShows ==
  ASSUME NEW x \in Texture, IsStored(x), ~IsTiled(x)
  PROVE  Shows(BlockImage(Source[x].pos, ResOf[x]), ResOf[x], x, Corner, 0, 0)
<1> DEFINE img == BlockImage(Source[x].pos, ResOf[x])
<1> SUFFICES ASSUME NEW c \in Nat, NEW d \in Nat, c < U(ResOf[x]), d < V(ResOf[x])
             PROVE  img[d * U(ResOf[x]) + c] = Pixels[x][<< Corner[1] + (0 + c), Corner[2] + (0 + d) >>]
  BY DEF Shows
<1> DEFINE k == d * U(ResOf[x]) + c
<1>1. k \in 0..(Size(ResOf[x]) - 1) /\ Col(k, U(ResOf[x])) = c /\ Row(k, U(ResOf[x])) = d
  BY Textures, PlaceInImage
<1>2. img[k] = Texel(Source[x].pos, Row(k, U(ResOf[x])) * U(ResOf[x]) + Col(k, U(ResOf[x])))
  <2> HIDE DEF k
  <2> QED BY <1>1 DEF Packed, Row, Col, BlockImage
<1>3. Pixels[x][<< c, d >>] = Texel(Source[x].pos, d * U(ResOf[x]) + c)
  <2>1. TexelAt(x, << c, d >>) = Texel(Source[x].pos, d * U(ResOf[x]) + c)
    BY DEF TexelAt
  <2> QED BY <2>1, PixelAt
<1>4. Corner[1] + (0 + c) = c /\ Corner[2] + (0 + d) = d
  BY DEF Corner
<1> QED
  BY <1>1, <1>2, <1>3, <1>4

(* A side twice as long. *)
LEMMA DoubledSide ==
  ASSUME NEW n \in 0..31, n + 1 \in 0..31
  PROVE  TwoTo[n + 1] = 2 * TwoTo[n]
<1>1. n + 1 # 0 /\ (n + 1) - 1 = n
  OBVIOUS
<1> QED BY <1>1, TwoToIs

(* Halving a finished face gives the reduction of it. *)
LEMMA HalvedShows ==
  ASSUME NEW x \in Texture, Source[x].route = "reduced", NEW from, from = Source[x].from,
         NEW b, Finished(b, from, Corner, ResOf[from]), b.stride = U(ResOf[from]), NEW img,
         img = Halved(b.data, ResOf[from], ResOf[x], Source[x].kind)
  PROVE  Shows(img, ResOf[x], x, Corner, 0, 0)
<1> SUFFICES ASSUME NEW c \in Nat, NEW d \in Nat, c < U(ResOf[x]), d < V(ResOf[x])
             PROVE  img[d * U(ResOf[x]) + c] = Pixels[x][<< Corner[1] + (0 + c), Corner[2] + (0 + d) >>]
  BY DEF Shows
<1> DEFINE w == U(ResOf[x])
           h == V(ResOf[x])
           W == U(ResOf[from])
           H == V(ResOf[from])
           k == d * w + c
           U2 == Source[x].kind = "U"
           src == Pixels[from]
<1>1. k \in 0..(Size(ResOf[x]) - 1) /\ Col(k, w) = c /\ Row(k, w) = d
  BY Textures, PlaceInImage
<1>2. /\ from \in Texture /\ ResOf[x] \in Resolution /\ ResOf[from] \in Resolution
      /\ w \in Nat \ {0} /\ h \in Nat \ {0} /\ W \in Nat \ {0} /\ H \in Nat \ {0}
  BY Textures, Sides
<1>3. (U2 => W = 2 * w /\ H = h) /\ (~U2 => W = w /\ H = 2 * h)
  <2>1. \/ U2 /\ ResOf[from] = Res(ResOf[x].u + 1, ResOf[x].v)
        \/ ~U2 /\ ResOf[from] = Res(ResOf[x].u, ResOf[x].v + 1)
    BY Textures
  <2>2. /\ ResOf[x].u \in 0..31 /\ ResOf[x].v \in 0..31
        /\ ResOf[from].u \in 0..31 /\ ResOf[from].v \in 0..31
    BY <1>2 DEF Resolution
  <2>3. CASE U2
    <3>1. ResOf[from].u = ResOf[x].u + 1 /\ ResOf[from].v = ResOf[x].v
      BY <2>1, <2>3 DEF Res
    <3> QED BY <2>2, <2>3, <3>1, DoubledSide DEF U, V
  <2>4. CASE ~U2
    <3>1. ResOf[from].v = ResOf[x].v + 1 /\ ResOf[from].u = ResOf[x].u
      BY <2>1, <2>4 DEF Res
    <3> QED BY <2>2, <2>4, <3>1, DoubledSide DEF U, V
  <2> QED BY <2>3, <2>4
<1>4. ASSUME NEW i \in Nat, NEW j \in Nat, i < W, j < H
      PROVE  b.data[j * W + i] = src[<< i, j >>]
  <2> DEFINE m == j * W + i
  <2>1. m \in 0..(Size(ResOf[from]) - 1) /\ Col(m, W) = i /\ Row(m, W) = j
    BY <1>2, <1>4, PlaceInImage
  <2>2. Size(ResOf[from]) = Needed(ResOf[from], b.stride) /\ Size(ResOf[from]) \in Nat
    BY <1>2, Sides
  <2>3. b.len \in Nat /\ b.len >= Needed(ResOf[from], b.stride)
    BY DEF Finished, Sketch, IsFrame
  <2> HIDE DEF m
  <2>4. m \in 0..(b.len - 1)
    BY <2>1, <2>2, <2>3
  <2>5. b.data[m] = Pic(from, Corner, ResOf[from], W, m)
    BY <2>4 DEF Finished
  <2>6. Corner[1] + i = i /\ Corner[2] + j = j
    BY DEF Corner
  <2>7. Pic(from, Corner, ResOf[from], W, m) = src[<< i, j >>]
    BY <1>4, <2>1, <2>6 DEF Pic
  <2> QED BY <2>5, <2>7 DEF m
<1>5. img[k] = IF U2 THEN << "mean", b.data[d * W + 2 * c], b.data[d * W + 2 * c + 1] >>
               ELSE << "mean", b.data[2 * d * W + c], b.data[(2 * d + 1) * W + c] >>
  <2> HIDE DEF k
  <2>1. k % w = c /\ k \div w = d
    BY <1>1 DEF Row, Col
  <2> QED BY <1>1, <2>1 DEF Halved, Packed
<1>6. img[k] = IF U2 THEN << "mean", src[<< 2 * c, d >>], src[<< 2 * c + 1, d >>] >>
               ELSE << "mean", src[<< c, 2 * d >>], src[<< c, 2 * d + 1 >>] >>
  <2>1. CASE U2
    <3>1. 2 * c < W /\ 2 * c + 1 < W /\ d < H /\ 2 * c \in Nat /\ 2 * c + 1 \in Nat
      BY <1>2, <1>3, <2>1
    <3>2. b.data[d * W + 2 * c] = src[<< 2 * c, d >>] /\ b.data[d * W + (2 * c + 1)] = src[<< 2 * c + 1, d >>]
      BY <1>4, <3>1
    <3>3. d * W + (2 * c + 1) = d * W + 2 * c + 1
      BY <1>2
    <3> QED BY <1>5, <2>1, <3>2, <3>3
  <2>2. CASE ~U2
    <3>1. c < W /\ 2 * d < H /\ 2 * d + 1 < H /\ 2 * d \in Nat /\ 2 * d + 1 \in Nat
      BY <1>2, <1>3, <2>2
    <3>2. b.data[(2 * d) * W + c] = src[<< c, 2 * d >>] /\ b.data[(2 * d + 1) * W + c] = src[<< c, 2 * d + 1 >>]
      BY <1>4, <3>1
    <3> QED BY <1>5, <2>2, <3>2
  <2> QED BY <2>1, <2>2
<1>7. Pixels[x][<< c, d >>] = IF U2 THEN << "mean", src[<< 2 * c, d >>], src[<< 2 * c + 1, d >>] >>
               ELSE << "mean", src[<< c, 2 * d >>], src[<< c, 2 * d + 1 >>] >>
  BY PixelAt
<1>8. Corner[1] + (0 + c) = c /\ Corner[2] + (0 + d) = d
  BY DEF Corner
<1> QED
  BY <1>6, <1>7, <1>8

(* Multiples are in the order of their factors. *)
LEMMA Multiples ==
  ASSUME NEW m \in Nat, NEW n \in Nat, NEW a \in Nat
  PROVE  /\ a * n \in Nat
         /\ a <= m => a * n <= m * n
         /\ a < m => a * n + n <= m * n
<1>1. \A p, q \in Nat : p <= q => p * n <= q * n
  OBVIOUS
<1>2. a < m => (a + 1) * n <= m * n
  BY <1>1
<1>3. (a + 1) * n = a * n + n
  OBVIOUS
<1> QED BY <1>1, <1>2, <1>3

(* The places of a grid of m rows of n are its numbers. *)
LEMMA Grid ==
  ASSUME NEW m \in Nat, NEW n \in Nat \ {0}
  PROVE  /\ \A k \in 0..(n * m - 1) : k \in Nat /\ Col(k, n) \in 0..(n - 1) /\ Row(k, n) \in 0..(m - 1)
         /\ \A a \in 0..(m - 1), b \in 0..(n - 1) : a * n + b \in 0..(n * m - 1)
<1>0. n * m \in Nat /\ n * m = m * n
  OBVIOUS
<1>1. ASSUME NEW k \in 0..(n * m - 1)
      PROVE  k \in Nat /\ Col(k, n) \in 0..(n - 1) /\ Row(k, n) \in 0..(m - 1)
  <2> DEFINE a == Row(k, n)
             b == Col(k, n)
             N == n * m
  <2>1. k \in Nat /\ k < N
    BY <1>0
  <2>2. a \in Nat /\ b \in 0..(n - 1) /\ k = a * n + b
    BY <2>1, Place
  <2> HIDE DEF a, b, N
  <2>3. m <= a => m * n <= a * n
    BY <2>2, Multiples
  <2>4. a * n \in Nat /\ N = m * n
    BY <1>0, <2>2, Multiples DEF N
  <2>5. ~(m <= a)
    BY <2>1, <2>2, <2>3, <2>4
  <2>6. a \in 0..(m - 1)
    BY <2>2, <2>5
  <2> QED BY <2>1, <2>2, <2>6 DEF a, b
<1>2. ASSUME NEW a \in 0..(m - 1), NEW b \in 0..(n - 1)
      PROVE  a * n + b \in 0..(n * m - 1)
  <2> DEFINE A == a * n
             N == n * m
  <2>1. A + n <= N /\ A \in Nat /\ N \in Nat
    BY <1>0, Multiples
  <2> HIDE DEF A, N
  <2>2. A + b \in 0..(N - 1)
    BY <2>1
  <2> QED BY <2>2 DEF A, N
<1> QED
  BY <1>1, <1>2

-----------------------------------------------------------------------------
(* The tiling of a texture, with the names its lemmas use. *)
DirOf(x) == Directory[Source[x].pos]
TW(x) == U(DirOf(x).tile_res)
TH(x) == V(DirOf(x).tile_res)
NU(x) == NTilesU(ResOf[x], DirOf(x).tile_res)
NV(x) == NTilesV(ResOf[x], DirOf(x).tile_res)
TileX(x, i) == Col(i, NU(x)) * TW(x)
TileY(x, i) == Row(i, NU(x)) * TH(x)

(* The tiling of a tiled texture. *)
LEMMA TiledFacts ==
  ASSUME NEW x \in Texture, IsTiled(x)
  PROVE  /\ ResOf[x] \in Resolution /\ DirOf(x).tile_res \in Resolution
         /\ NU(x) \in Nat \ {0} /\ NV(x) \in Nat \ {0} /\ TW(x) \in Nat \ {0} /\ TH(x) \in Nat \ {0}
         /\ U(ResOf[x]) = NU(x) * TW(x) /\ V(ResOf[x]) = NV(x) * TH(x)
         /\ Size(DirOf(x).tile_res) = TW(x) * TH(x)
         /\ Len(DirOf(x).tiles) = NU(x) * NV(x)
<1> DEFINE d == DirOf(x)
           r == ResOf[x]
<1>1. IsTiling(d, r)
  BY FileAssumption, Zenon DEF DirOf, IsTiled, IsStored
<1>2. r \in Resolution
  BY Textures
<1> HIDE DEF d, r
<1>3. Within(d.tile_res, r) /\ d.tiles \in [1..(NTilesU(r, d.tile_res) * NTilesV(r, d.tile_res)) -> DOMAIN Encoding]
  BY <1>1 DEF Within, IsTiling
<1>4. /\ d.tile_res \in Resolution
      /\ NTilesU(r, d.tile_res) \in Nat \ {0} /\ NTilesV(r, d.tile_res) \in Nat \ {0}
      /\ U(r) = NTilesU(r, d.tile_res) * U(d.tile_res) /\ V(r) = NTilesV(r, d.tile_res) * V(d.tile_res)
  BY <1>2, <1>3, Tiling
<1>5. U(d.tile_res) \in Nat \ {0} /\ V(d.tile_res) \in Nat \ {0} /\ Size(d.tile_res) = U(d.tile_res) * V(d.tile_res)
  BY <1>4, Sides
<1>6. ASSUME NEW n \in Nat, NEW f, f \in [1..n -> DOMAIN Encoding]
      PROVE  Len(f) = n
  <2>1. f \in Seq(DOMAIN Encoding)
    BY <1>6, SeqDef
  <2> QED BY <1>6, <2>1, LenProperties
<1>7. NTilesU(r, d.tile_res) * NTilesV(r, d.tile_res) \in Nat
  BY <1>4
<1>8. Len(d.tiles) = NTilesU(r, d.tile_res) * NTilesV(r, d.tile_res)
  BY <1>3, <1>6, <1>7
<1> QED
  BY <1>2, <1>4, <1>5, <1>8 DEF d, r, NU, NV, TW, TH

(* A tile lies in its face. *)
LEMMA TileInFace ==
  ASSUME NEW x \in Texture, IsTiled(x), NEW i \in 0..(NU(x) * NV(x) - 1)
  PROVE  /\ i \in Nat /\ Col(i, NU(x)) \in 0..(NU(x) - 1) /\ Row(i, NU(x)) \in 0..(NV(x) - 1)
         /\ TileX(x, i) \in Nat /\ TileX(x, i) + TW(x) <= U(ResOf[x])
         /\ TileY(x, i) \in Nat /\ TileY(x, i) + TH(x) <= V(ResOf[x])
<1> DEFINE n == NU(x)
           m == NV(x)
           w == TW(x)
           h == TH(x)
           a == Row(i, n)
           b == Col(i, n)
<1>1. /\ n \in Nat \ {0} /\ m \in Nat /\ w \in Nat /\ h \in Nat
      /\ U(ResOf[x]) = n * w /\ V(ResOf[x]) = m * h
  BY TiledFacts
<1>2. i \in Nat /\ b \in 0..(n - 1) /\ a \in 0..(m - 1)
  <2> HIDE DEF n, m, w, h
  <2>1. i \in 0..(n * m - 1)
    BY DEF n, m
  <2> QED BY <1>1, <2>1, Grid
<1> HIDE DEF n, m, w, h, a, b
<1>3. b * w \in Nat /\ b * w + w <= n * w /\ a * h \in Nat /\ a * h + h <= m * h
  BY <1>1, <1>2, Multiples
<1> QED
  BY <1>1, <1>2, <1>3 DEF n, m, w, h, a, b, TileX, TileY

(* A texel of a tile. *)
LEMMA TileTexel ==
  ASSUME NEW x \in Texture, IsTiled(x), NEW i \in 0..(NU(x) * NV(x) - 1),
         NEW c \in Nat, NEW d \in Nat, c < TW(x), d < TH(x)
  PROVE  Pixels[x][<< TileX(x, i) + c, TileY(x, i) + d >>]
           = Texel(DirOf(x).tiles[i + 1], d * TW(x) + c)
<1> DEFINE n == NU(x)
           m == NV(x)
           w == TW(x)
           h == TH(x)
           N == n * m
           M == w * h
           p == << TileX(x, i) + c, TileY(x, i) + d >>
           At0(j, k) == << Col(j, n) * w + Col(k, w), Row(j, n) * h + Row(k, w) >>
           IK == (0..(N - 1)) \X (0..(M - 1))
           ik == CHOOSE q \in IK : At0(q[1], q[2]) = p
           K == d * w + c
<1>1. /\ n \in Nat \ {0} /\ m \in Nat \ {0} /\ w \in Nat \ {0} /\ h \in Nat \ {0}
      /\ Len(DirOf(x).tiles) = N
  BY TiledFacts
<1>2. p = << Col(i, n) * w + c, Row(i, n) * h + d >>
  BY DEF TileX, TileY
<1>3. TexelAt(x, p) = Texel(DirOf(x).tiles[ik[1] + 1], ik[2])
  <2> HIDE DEF p
  <2> QED BY <1>1 DEF TexelAt, DirOf, NU, TW, TH, Col, Row
<1>4. i \in 0..(N - 1) /\ i \in Nat /\ Col(i, n) \in Nat /\ Row(i, n) \in Nat
  BY TileInFace
<1> HIDE DEF n, m, w, h, p, ik, N, M
<1>5. K \in 0..(M - 1) /\ Col(K, w) = c /\ Row(K, w) = d
  <2>1. c \in 0..(w - 1) /\ d \in 0..(h - 1)
    BY <1>1 DEF w, h
  <2> QED BY <1>1, <2>1, Grid, OfPlace DEF M
<1> HIDE DEF K
<1>6. << i, K >> \in IK /\ At0(i, K) = p
  BY <1>2, <1>4, <1>5
<1>7. ASSUME NEW j \in 0..(N - 1), NEW k \in 0..(M - 1), At0(j, k) = p
      PROVE  j = i /\ k = K
  <2>1. /\ j \in Nat /\ Col(j, n) \in Nat /\ Row(j, n) \in Nat /\ j = Row(j, n) * n + Col(j, n)
        /\ i = Row(i, n) * n + Col(i, n)
    <3>1. j \in Nat /\ Col(j, n) \in 0..(n - 1)
      BY <1>1, Grid DEF N
    <3> QED BY <1>1, <1>4, <3>1, Place
  <2>2. k \in Nat /\ Col(k, w) \in 0..(w - 1) /\ Row(k, w) \in 0..(h - 1) /\ k = Row(k, w) * w + Col(k, w)
    <3>1. k \in Nat /\ Col(k, w) \in 0..(w - 1) /\ Row(k, w) \in 0..(h - 1)
      BY <1>1, Grid DEF M
    <3> QED BY <1>1, <3>1, Place
  <2>3. Col(j, n) * w + Col(k, w) = Col(i, n) * w + c /\ Row(j, n) * h + Row(k, w) = Row(i, n) * h + d
    BY <1>2, <1>7
  <2>4. c \in 0..(w - 1) /\ d \in 0..(h - 1)
    BY <1>1 DEF w, h
  <2>6. Col(j, n) = Col(i, n) /\ Col(k, w) = c
    <3>1. Col(Col(j, n) * w + Col(k, w), w) = Col(k, w) /\ Row(Col(j, n) * w + Col(k, w), w) = Col(j, n)
      <4>1. w \in Nat /\ Col(j, n) \in Nat /\ Col(k, w) \in 0..(w - 1)
        BY <1>1, <2>1, <2>2
      <4> QED BY ONLY <4>1, OfPlace
    <3>2. Col(Col(i, n) * w + c, w) = c /\ Row(Col(i, n) * w + c, w) = Col(i, n)
      BY <1>1, <1>4, <2>4, OfPlace
    <3> QED BY <2>3, <3>1, <3>2
  <2>7. Row(j, n) = Row(i, n) /\ Row(k, w) = d
    <3>1. Col(Row(j, n) * h + Row(k, w), h) = Row(k, w) /\ Row(Row(j, n) * h + Row(k, w), h) = Row(j, n)
      <4>1. h \in Nat /\ Row(j, n) \in Nat /\ Row(k, w) \in 0..(h - 1)
        BY <1>1, <2>1, <2>2
      <4> QED BY ONLY <4>1, OfPlace
    <3>2. Col(Row(i, n) * h + d, h) = d /\ Row(Row(i, n) * h + d, h) = Row(i, n)
      BY <1>1, <1>4, <2>4, OfPlace
    <3> QED BY <2>3, <3>1, <3>2
  <2> QED BY <2>1, <2>2, <2>6, <2>7 DEF K
<1>8. ik \in IK /\ At0(ik[1], ik[2]) = p
  <2>1. \E q \in IK : At0(q[1], q[2]) = p
    BY <1>6
  <2> QED BY <2>1 DEF ik
<1>9. ik[1] = i /\ ik[2] = K
  BY <1>7, <1>8
<1>10. TexelAt(x, p) = Texel(DirOf(x).tiles[i + 1], K)
  BY <1>3, <1>9
<1>11. Pixels[x][p] = TexelAt(x, p)
  <2>1. /\ TileX(x, i) + c \in Nat /\ TileX(x, i) + c < U(ResOf[x])
        /\ TileY(x, i) + d \in Nat /\ TileY(x, i) + d < V(ResOf[x])
    <3>1. U(ResOf[x]) \in Nat /\ V(ResOf[x]) \in Nat /\ TW(x) \in Nat /\ TH(x) \in Nat
      BY TiledFacts, Sides
    <3> QED BY <3>1, TileInFace
  <2>2. IsStored(x)
    BY DEF IsTiled
  <2> QED BY <2>1, <2>2, PixelAt DEF p
<1> QED
  BY <1>10, <1>11 DEF p, K, w

(* The image of a tile shows its rectangle, of the face or of the tile.    *)
TileImage(x, i) == BlockImage(DirOf(x).tiles[i + 1], DirOf(x).tile_res)

(* The block of a tile is a rectangle of its face. *)
LEMMA TileShows ==
  ASSUME NEW x \in Texture, IsTiled(x), NEW i \in 0..(NU(x) * NV(x) - 1)
  PROVE  /\ Shows(TileImage(x, i), DirOf(x).tile_res, x, Corner, TileX(x, i), TileY(x, i))
         /\ Shows(TileImage(x, i), DirOf(x).tile_res, x, << TileX(x, i), TileY(x, i) >>, 0, 0)
<1> DEFINE q == DirOf(x).tile_res
           pos == DirOf(x).tiles[i + 1]
           img == TileImage(x, i)
<1>1. ASSUME NEW c \in Nat, NEW d \in Nat, c < U(q), d < V(q)
      PROVE  img[d * U(q) + c] = Pixels[x][<< TileX(x, i) + c, TileY(x, i) + d >>]
  <2> DEFINE k == d * U(q) + c
  <2>1. q \in Resolution
    BY TiledFacts
  <2> HIDE DEF q
  <2>2. k \in 0..(Size(q) - 1) /\ Col(k, U(q)) = c /\ Row(k, U(q)) = d
    BY <1>1, <2>1, PlaceInImage
  <2>3. img = BlockImage(pos, q)
    BY DEF TileImage, q
  <2> HIDE DEF k, pos, img
  <2>4. img[k] = Texel(pos, Row(k, U(q)) * U(q) + Col(k, U(q)))
    BY <2>2, <2>3 DEF Packed, Row, Col, BlockImage
  <2>5. img[k] = Texel(pos, d * U(q) + c)
    BY <2>2, <2>4
  <2>6. c < TW(x) /\ d < TH(x) /\ TW(x) = U(q)
    BY <1>1 DEF q, TW, TH
  <2>7. Pixels[x][<< TileX(x, i) + c, TileY(x, i) + d >>] = Texel(pos, d * U(q) + c)
    BY <2>6, TileTexel DEF pos
  <2> QED BY <2>5, <2>7 DEF k
<1>2. TileX(x, i) \in Nat /\ TileY(x, i) \in Nat
  BY TileInFace
<1> HIDE DEF q, img
<1>3. Shows(img, q, x, Corner, TileX(x, i), TileY(x, i))
  <2> SUFFICES ASSUME NEW c \in Nat, NEW d \in Nat, c < U(q), d < V(q)
               PROVE  img[d * U(q) + c] =
                        Pixels[x][<< Corner[1] + (TileX(x, i) + c), Corner[2] + (TileY(x, i) + d) >>]
    BY DEF Shows
  <2>1. Corner[1] + (TileX(x, i) + c) = TileX(x, i) + c /\ Corner[2] + (TileY(x, i) + d) = TileY(x, i) + d
    BY <1>2 DEF Corner
  <2> QED BY <1>1, <2>1
<1>4. Shows(img, q, x, << TileX(x, i), TileY(x, i) >>, 0, 0)
  <2> SUFFICES ASSUME NEW c \in Nat, NEW d \in Nat, c < U(q), d < V(q)
               PROVE  img[d * U(q) + c] =
                        Pixels[x][<< << TileX(x, i), TileY(x, i) >>[1] + (0 + c),
                                     << TileX(x, i), TileY(x, i) >>[2] + (0 + d) >>]
    BY DEF Shows
  <2>1. /\ << TileX(x, i), TileY(x, i) >>[1] + (0 + c) = TileX(x, i) + c
        /\ << TileX(x, i), TileY(x, i) >>[2] + (0 + d) = TileY(x, i) + d
    BY <1>2
  <2> QED BY <1>1, <2>1
<1> QED
  BY <1>3, <1>4 DEF q, img

-----------------------------------------------------------------------------
(* A rectangle of a picture that fits a buffer fits it too. *)
LEMMA RectangleFits ==
  ASSUME NEW r \in Resolution, NEW q \in Resolution, NEW x0 \in Nat, NEW y0 \in Nat,
         x0 + U(q) <= U(r), y0 + V(q) <= V(r), NEW s \in Nat, NEW len \in Nat, len >= Needed(r, s)
  PROVE  /\ Offset(x0, y0, s) \in Nat
         /\ Offset(x0, y0, s) + Needed(q, s) <= len
<1>1. /\ U(q) \in Nat \ {0} /\ V(q) \in Nat \ {0} /\ U(r) \in Nat \ {0} /\ V(r) \in Nat \ {0}
      /\ Needed(q, s) = s * (V(q) - 1) + U(q) /\ Needed(r, s) = s * (V(r) - 1) + U(r)
  BY Sides
<1>2. PICK h \in Nat, H \in Nat : h = V(q) - 1 /\ H = V(r) - 1 /\ y0 + h <= H
  BY <1>1
<1>3. /\ (y0 + h) * s \in Nat /\ (y0 + h) * s <= H * s /\ (y0 + h) * s = y0 * s + s * h /\ H * s = s * H
      /\ y0 * s \in Nat /\ s * h \in Nat /\ s * H \in Nat
  <2>1. \A a, b, c \in Nat : a <= b => a * c <= b * c /\ a * c \in Nat
    OBVIOUS
  <2>2. y0 + h \in Nat
    OBVIOUS
  <2>3. (y0 + h) * s <= H * s /\ (y0 + h) * s \in Nat
    BY <1>2, <2>1, <2>2
  <2>4. (y0 + h) * s = y0 * s + s * h /\ H * s = s * H
    OBVIOUS
  <2>5. y0 * s \in Nat /\ s * h \in Nat /\ s * H \in Nat
    OBVIOUS
  <2> QED BY <2>3, <2>4, <2>5
<1>4. Needed(q, s) = s * h + U(q) /\ Needed(r, s) = s * H + U(r) /\ Offset(x0, y0, s) = y0 * s + x0
  BY <1>1, <1>2 DEF Offset
<1> DEFINE A == y0 * s
           B == s * h
           C == s * H
<1>5. A \in Nat /\ B \in Nat /\ C \in Nat /\ A + B <= C
  BY <1>3
<1> HIDE DEF A, B, C
<1>6. /\ Needed(q, s) = B + U(q) /\ Needed(r, s) = C + U(r) /\ Offset(x0, y0, s) = A + x0
  BY <1>4 DEF A, B, C
<1> QED
  BY <1>1, <1>5, <1>6

-----------------------------------------------------------------------------
(* The tile an offset in a buffer belongs to, and a face whose tiles below *)
(* i are drawn.                                                            *)
TileAt(x, s, k) == TileIndex(ResOf[x], DirOf(x).tile_res, Col(k, s), Row(k, s))
Through(b, x, i) ==
  /\ Sketch(b, x, Corner, ResOf[x])
  /\ \A k \in 0..(b.len - 1) :
       Col(k, b.stride) < U(ResOf[x]) /\ Row(k, b.stride) < V(ResOf[x]) /\ TileAt(x, b.stride, k) < i
       => b.data[k] = Pic(x, Corner, ResOf[x], b.stride, k)

(* The tile at a place of the face holds it. *)
LEMMA TileOfPlace ==
  ASSUME NEW x \in Texture, IsTiled(x), NEW c \in Nat, NEW d \in Nat,
         c < U(ResOf[x]), d < V(ResOf[x]), NEW i, i = TileIndex(ResOf[x], DirOf(x).tile_res, c, d)
  PROVE  /\ i \in 0..(NU(x) * NV(x) - 1)
         /\ TileX(x, i) <= c /\ c < TileX(x, i) + TW(x)
         /\ TileY(x, i) <= d /\ d < TileY(x, i) + TH(x)
         /\ Col(c, TW(x)) = c - TileX(x, i) /\ Row(c, TW(x)) = Col(i, NU(x))
         /\ Col(d, TH(x)) = d - TileY(x, i) /\ Row(d, TH(x)) = Row(i, NU(x))
<1> DEFINE n == NU(x)
           m == NV(x)
           w == TW(x)
           h == TH(x)
           a == Row(d, h)
           b == Row(c, w)
           e == Col(c, w)
           f == Col(d, h)
<1>1. /\ n \in Nat \ {0} /\ m \in Nat \ {0} /\ w \in Nat \ {0} /\ h \in Nat \ {0}
      /\ U(ResOf[x]) = n * w /\ V(ResOf[x]) = m * h
  BY TiledFacts
<1>2. i = a * n + b
  BY DEF TileIndex, Row, NU, TW, TH
<1>3. c < n * w /\ d < m * h
  BY <1>1
<1> HIDE DEF n, m, w, h
<1>4. b \in 0..(n - 1) /\ e \in 0..(w - 1) /\ c = b * w + e
  <2>1. c \in 0..(w * n - 1)
    <3>1. n * w = w * n /\ w * n \in Nat
      BY <1>1
    <3> QED BY <1>3, <3>1
  <2> QED BY <1>1, <2>1, Grid, Place
<1>5. a \in 0..(m - 1) /\ f \in 0..(h - 1) /\ d = a * h + f
  <2>1. d \in 0..(h * m - 1)
    <3>1. m * h = h * m /\ h * m \in Nat
      BY <1>1
    <3> QED BY <1>3, <3>1
  <2> QED BY <1>1, <2>1, Grid, Place
<1> HIDE DEF a, b, e, f
<1>6. i \in 0..(n * m - 1)
  BY <1>1, <1>2, <1>4, <1>5, Grid
<1>7. Col(i, n) = b /\ Row(i, n) = a
  <2>1. n \in Nat /\ a \in Nat /\ b \in 0..(n - 1)
    BY <1>1, <1>4, <1>5
  <2>2. Col(a * n + b, n) = b /\ Row(a * n + b, n) = a
    BY ONLY <2>1, OfPlace
  <2> QED BY <1>2, <2>2
<1>8. TileX(x, i) = b * w /\ TileY(x, i) = a * h
  BY <1>7 DEF TileX, TileY, n, w, h
<1>9. b * w \in Nat /\ a * h \in Nat
  BY <1>1, <1>4, <1>5
<1>10. /\ TileX(x, i) <= c /\ c < TileX(x, i) + w /\ e = c - TileX(x, i)
       /\ TileY(x, i) <= d /\ d < TileY(x, i) + h /\ f = d - TileY(x, i)
  BY <1>1, <1>4, <1>5, <1>8, <1>9
<1> QED
  BY <1>6, <1>7, <1>10 DEF n, m, w, h, a, b, e, f

(* Before any tile is drawn. *)
LEMMA ThroughNone ==
  ASSUME NEW x \in Texture, IsTiled(x), NEW b, Sketch(b, x, Corner, ResOf[x])
  PROVE  Through(b, x, 0)
<1> SUFFICES ASSUME NEW k \in 0..(b.len - 1),
                    Col(k, b.stride) < U(ResOf[x]), Row(k, b.stride) < V(ResOf[x]),
                    TileAt(x, b.stride, k) < 0
             PROVE  FALSE
  BY DEF Through
<1>1. U(ResOf[x]) \in Nat \ {0}
  BY TiledFacts, Sides
<1>2. b.stride \in Nat \ {0} /\ k \in Nat
  BY <1>1 DEF Sketch, IsFrame
<1>3. Col(k, b.stride) \in Nat /\ Row(k, b.stride) \in Nat
  <2>1. PICK s \in Nat \ {0} : s = b.stride
    BY <1>2
  <2>2. Col(k, s) \in 0..(s - 1) /\ Row(k, s) \in Nat
    BY <1>2, Place
  <2> QED BY <2>1, <2>2
<1>4. TileAt(x, b.stride, k) \in 0..(NU(x) * NV(x) - 1)
  BY <1>3, TileOfPlace DEF TileAt
<1>5. NU(x) * NV(x) \in Nat
  BY TiledFacts
<1> QED
  BY <1>4, <1>5

(* When all tiles are drawn. *)
LEMMA ThroughAll ==
  ASSUME NEW x \in Texture, IsTiled(x), NEW b, Through(b, x, NU(x) * NV(x))
  PROVE  Finished(b, x, Corner, ResOf[x])
<1> SUFFICES ASSUME NEW k \in 0..(b.len - 1)
             PROVE  b.data[k] = Pic(x, Corner, ResOf[x], b.stride, k)
  BY DEF Through, Finished
<1>1. U(ResOf[x]) \in Nat \ {0}
  BY TiledFacts, Sides
<1>2. b.stride \in Nat \ {0} /\ k \in Nat
  BY <1>1 DEF Through, Sketch, IsFrame
<1>3. Col(k, b.stride) \in Nat /\ Row(k, b.stride) \in Nat
  <2>1. PICK s \in Nat \ {0} : s = b.stride
    BY <1>2
  <2>2. Col(k, s) \in 0..(s - 1) /\ Row(k, s) \in Nat
    BY <1>2, Place
  <2> QED BY <2>1, <2>2
<1>4. CASE Col(k, b.stride) < U(ResOf[x]) /\ Row(k, b.stride) < V(ResOf[x])
  <2>1. TileAt(x, b.stride, k) \in 0..(NU(x) * NV(x) - 1)
    BY <1>3, <1>4, TileOfPlace DEF TileAt
  <2>2. NU(x) * NV(x) \in Nat
    BY TiledFacts
  <2>3. TileAt(x, b.stride, k) < NU(x) * NV(x)
    BY <2>1, <2>2
  <2> QED BY <1>4, <2>3 DEF Through
<1>5. CASE ~(Col(k, b.stride) < U(ResOf[x]) /\ Row(k, b.stride) < V(ResOf[x]))
  <2>1. Pic(x, Corner, ResOf[x], b.stride, k) = Old
    BY <1>5 DEF Pic
  <2> QED BY <2>1 DEF Through, Sketch
<1> QED
  BY <1>4, <1>5

(* Drawing the next tile. *)
LEMMA ThroughNext ==
  ASSUME NEW x \in Texture, IsTiled(x), NEW i \in 0..(NU(x) * NV(x) - 1), NEW b, Through(b, x, i),
         NEW off, off = TileOffset(ResOf[x], DirOf(x).tile_res, i, b.stride),
         NEW c, c = Paint(b, off, TileImage(x, i), DirOf(x).tile_res)
  PROVE  /\ Through(c, x, i + 1) /\ c.stride = b.stride /\ c.len = b.len
         /\ off + Needed(DirOf(x).tile_res, b.stride) <= b.len
<1> DEFINE r == ResOf[x]
           q == DirOf(x).tile_res
           s == b.stride
           x0 == TileX(x, i)
           y0 == TileY(x, i)
           img == TileImage(x, i)
<1>1. /\ r \in Resolution /\ q \in Resolution /\ i \in Nat
      /\ x0 \in Nat /\ y0 \in Nat /\ x0 + U(q) <= U(r) /\ y0 + V(q) <= V(r)
  BY TiledFacts, TileInFace DEF TW, TH
<1>2. Sketch(b, x, Corner, r) /\ s \in Nat \ {0} /\ b.len \in Nat /\ b.len >= Needed(r, s)
  <2>1. U(r) \in Nat \ {0}
    BY <1>1, Sides
  <2> QED BY <2>1 DEF Through, Sketch, IsFrame
<1>3. Shows(img, q, x, Corner, x0, y0)
  BY TileShows
<1>4. off = Offset(x0, y0, s)
  <2> DEFINE e == Row(i, NU(x))
             h == TH(x)
             f == Col(i, NU(x)) * TW(x)
  <2>1. off = e * s * h + f
    BY DEF TileOffset, NU, TW, TH, Row, Col
  <2>2. Offset(x0, y0, s) = (e * h) * s + f
    BY DEF Offset, TileX, TileY
  <2>3. e \in Nat /\ h \in Nat
    BY TileInFace, TiledFacts
  <2> HIDE DEF e, h, f
  <2>4. e * s * h = (e * h) * s
    BY <1>2, <2>3
  <2> QED BY <2>1, <2>2, <2>4
<1>5. c = Paint(b, off, img, q)
  OBVIOUS
<1> HIDE DEF r, q, s, x0, y0, img
<1>6. /\ Sketch(c, x, Corner, r) /\ c.stride = b.stride /\ c.len = b.len
      /\ \A k \in 0..(b.len - 1) :
           b.data[k] = Pic(x, Corner, r, b.stride, k) \/ InRect(k, b.stride, q, x0, y0)
           => c.data[k] = Pic(x, Corner, r, b.stride, k)
  <2>1. off = Offset(x0, y0, b.stride) /\ c = Paint(b, off, img, q)
    BY <1>4, <1>5 DEF s
  <2>2. Painted(b, Paint(b, off, img, q), x, Corner, r, q, x0, y0)
    BY <1>1, <1>2, <1>3, <2>1, Painting
  <2> QED BY <2>1, <2>2 DEF Painted
<1>7. ASSUME NEW k \in 0..(c.len - 1), Col(k, c.stride) < U(r), Row(k, c.stride) < V(r),
             TileAt(x, c.stride, k) < i + 1
      PROVE  c.data[k] = Pic(x, Corner, r, c.stride, k)
  <2>1. k \in 0..(b.len - 1) /\ Col(k, s) < U(r) /\ Row(k, s) < V(r) /\ TileAt(x, s, k) < i + 1
    BY <1>6, <1>7 DEF s
  <2>2. Col(k, s) \in Nat /\ Row(k, s) \in Nat
    BY <1>2, <2>1, Place
  <2> DEFINE j == TileAt(x, s, k)
             u == Col(k, s)
             v == Row(k, s)
  <2>3. /\ j \in 0..(NU(x) * NV(x) - 1)
        /\ TileX(x, j) <= u /\ u < TileX(x, j) + TW(x)
        /\ TileY(x, j) <= v /\ v < TileY(x, j) + TH(x)
    BY <2>1, <2>2, TileOfPlace DEF TileAt, r
  <2> HIDE DEF j
  <2>4. CASE j < i
    BY <1>6, <2>1, <2>4 DEF Through, j, r, s
  <2>5. CASE j = i
    <3>1. InRect(k, s, q, x0, y0)
      BY <2>3, <2>5 DEF InRect, x0, y0, q, TW, TH
    <3> QED BY <1>6, <2>1, <3>1 DEF s
  <2>6. j < i \/ j = i
    <3>1. j \in Int /\ j < i + 1
      BY <2>1, <2>3 DEF j
    <3> QED BY <1>1, <3>1
  <2> QED BY <2>4, <2>5, <2>6
<1>8. Through(c, x, i + 1)
  BY <1>6, <1>7 DEF Through, r
<1>9. off + Needed(q, s) <= b.len
  BY <1>1, <1>2, <1>4, RectangleFits
<1> QED
  BY <1>6, <1>8, <1>9 DEF q, s

(* A list of entries, whatever an entry is. *)
IsList(s) == \E S : s \in Seq(S)

(* The inductive invariant: DirectoriesHold, and that the list is one. *)
IInv == IsList(tile_cache) /\ tile_cache_cap \in Nat /\ DirectoriesHold

(* truncate keeps a prefix, no longer than asked. *)
LEMMA TruncatedFacts ==
  ASSUME NEW S, NEW s \in Seq(S), NEW n \in Nat
  PROVE  /\ Truncated(s, n) \in Seq(S)
         /\ Len(Truncated(s, n)) <= n /\ Len(Truncated(s, n)) <= Len(s)
         /\ \A i \in 1..Len(Truncated(s, n)) : Truncated(s, n)[i] = s[i]
<1> DEFINE m == IF n < Len(s) THEN n ELSE Len(s)
<1>1. m \in 0..Len(s) /\ m <= n  OBVIOUS
<1>2. SubSeq(s, 1, m) \in Seq(S) /\ Len(SubSeq(s, 1, m)) = m
      /\ \A i \in 1..m : SubSeq(s, 1, m)[i] = s[i]
  BY <1>1
<1> QED BY <1>1, <1>2 DEF Truncated

(* insert(0, e) puts e first and moves the others up by one. *)
LEMMA InFront ==
  ASSUME NEW S, NEW s \in Seq(S), NEW e \in S
  PROVE  /\ << e >> \o s \in Seq(S)
         /\ Len(<< e >> \o s) = Len(s) + 1
         /\ (<< e >> \o s)[1] = e
         /\ \A i \in 2..(Len(s) + 1) : (<< e >> \o s)[i] = s[i - 1]
  OBVIOUS

(* What stands where when one list follows another. *)
LEMMA Concatenated ==
  ASSUME NEW S, NEW a \in Seq(S), NEW b \in Seq(S)
  PROVE  /\ a \o b \in Seq(S) /\ Len(a \o b) = Len(a) + Len(b)
         /\ \A j \in 1..Len(a) : (a \o b)[j] = a[j]
         /\ \A j \in 1..Len(b) : (a \o b)[Len(a) + j] = b[j]
  OBVIOUS

(* remove(i) closes the gap. *)
LEMMA Removed ==
  ASSUME NEW S, NEW s \in Seq(S), NEW i \in 1..Len(s)
  PROVE  /\ RemoveAt(s, i) \in Seq(S)
         /\ Len(RemoveAt(s, i)) = Len(s) - 1
         /\ \A j \in 1..(i - 1) : RemoveAt(s, i)[j] = s[j]
         /\ \A j \in i..(Len(s) - 1) : RemoveAt(s, i)[j] = s[j + 1]
<1> DEFINE n == Len(s)
           a == SubSeq(s, 1, i - 1)
           b == SubSeq(s, i + 1, n)
           c == a \o b
<1>0. n \in Nat /\ i \in 1..n
  OBVIOUS
<1>1. a \in Seq(S) /\ Len(a) = i - 1 /\ \A j \in 1..(i - 1) : a[j] = s[j]
  OBVIOUS
<1>2. b \in Seq(S) /\ Len(b) = n - i /\ \A j \in 1..(n - i) : b[j] = s[i + j]
  OBVIOUS
<1>3. RemoveAt(s, i) = c
  BY DEF RemoveAt
<1> HIDE DEF a, b
<1>a. a \in Seq(S)  BY <1>1
<1>b. b \in Seq(S)  BY <1>2
<1>4. /\ c \in Seq(S) /\ Len(c) = Len(a) + Len(b)
      /\ \A j \in 1..Len(a) : c[j] = a[j]
      /\ \A j \in 1..Len(b) : c[Len(a) + j] = b[j]
  BY <1>a, <1>b, Concatenated
<1> HIDE DEF c, n
<1>5. \A j \in 1..(i - 1) : c[j] = s[j]
  BY <1>1, <1>4
<1>6. ASSUME NEW j \in i..(n - 1)
      PROVE  c[j] = s[j + 1]
  <2> DEFINE k == j - (i - 1)
  <2>1. k \in 1..(n - i) /\ Len(a) + k = j /\ i + k = j + 1
    BY <1>0, <1>1
  <2> HIDE DEF k
  <2> QED BY <2>1, <1>2, <1>4
<1>7. Len(c) = n - 1
  BY <1>0, <1>1, <1>2, <1>4
<1> QED BY <1>3, <1>4, <1>5, <1>6, <1>7 DEF n

(* Moving an entry to the front moves those before it one place back and   *)
(* leaves the others: From is where an entry of the new list was.          *)
From(i, j) == IF j = 1 THEN i ELSE IF j <= i THEN j - 1 ELSE j

(* Moving an entry to the front changes the place of those before it. *)
LEMMA MovedEntries ==
  ASSUME NEW S, tile_cache \in Seq(S), NEW i \in 1..Len(tile_cache)
  PROVE  LET new == WithDirMoved(i)
         IN  /\ new \in Seq(S) /\ Len(new) = Len(tile_cache)
             /\ \A j \in 1..Len(tile_cache) :
                  From(i, j) \in 1..Len(tile_cache) /\ new[j] = tile_cache[From(i, j)]
<1> DEFINE s == tile_cache
           rest == RemoveAt(s, i)
           new == << s[i] >> \o rest
<1>1. /\ rest \in Seq(S) /\ Len(rest) = Len(s) - 1
      /\ \A j \in 1..(i - 1) : rest[j] = s[j]
      /\ \A j \in i..(Len(s) - 1) : rest[j] = s[j + 1]
  BY Removed
<1>2. s[i] \in S  OBVIOUS
<1>3. new \in Seq(S) /\ Len(new) = Len(rest) + 1 /\ new[1] = s[i]
      /\ \A j \in 2..(Len(rest) + 1) : new[j] = rest[j - 1]
  <2> HIDE DEF rest
  <2> QED BY <1>1, <1>2, InFront
<1>4. Len(new) = Len(s)  BY <1>1, <1>3
<1> HIDE DEF new, rest, s
<1>5. ASSUME NEW j \in 1..Len(s)
      PROVE  From(i, j) \in 1..Len(s) /\ new[j] = s[From(i, j)]
  <2>0. Len(s) \in Nat /\ i \in 1..Len(s)  BY DEF s
  <2>1. CASE j = 1  BY <2>1, <2>0, <1>3 DEF From
  <2>2. CASE j # 1
    <3>1. new[j] = rest[j - 1] /\ j - 1 \in 1..(Len(s) - 1)  BY <2>0, <2>2, <1>1, <1>3
    <3>2. CASE j <= i
      <4>1. rest[j - 1] = s[j - 1]  BY <3>1, <3>2, <1>1, <2>0
      <4> QED BY <4>1, <3>1, <3>2, <2>2, <2>0 DEF From
    <3>3. CASE j > i
      <4> DEFINE k == j - 1
      <4>1. k \in i..(Len(s) - 1) /\ k + 1 = j  BY <3>1, <3>3, <2>0
      <4>2. new[j] = rest[k]  BY <3>1
      <4> HIDE DEF k
      <4>3. rest[k] = s[j]  BY <4>1, <1>1
      <4> QED BY <4>2, <4>3, <3>3, <2>2, <2>0 DEF From
    <3> QED BY <3>2, <3>3, <2>0
  <2> QED BY <2>1, <2>2
<1>6. new = WithDirMoved(i)  BY DEF new, rest, s, WithDirMoved
<1> QED BY <1>3, <1>4, <1>5, <1>6 DEF s

(* It moves every entry to a place of its own, keeping the order of those  *)
(* that are not moved to the front.                                        *)
LEMMA FromFacts ==
  ASSUME NEW n \in Nat, NEW i \in 1..n
  PROVE  /\ \A j, k \in 1..n : j # k => From(i, j) # From(i, k)
         /\ \A j, k \in 2..n : j < k => From(i, j) < From(i, k)
         /\ \A j \in 2..n : From(i, j) # i
         /\ \A m \in 1..n : \E j \in 1..n : From(i, j) = m
<1>1. \A j, k \in 1..n : j # k => From(i, j) # From(i, k)
  BY DEF From
<1>2. \A j, k \in 2..n : j < k => From(i, j) < From(i, k)
  BY DEF From
<1>3. \A j \in 2..n : From(i, j) # i
  BY DEF From
<1>4. ASSUME NEW m \in 1..n PROVE \E j \in 1..n : From(i, j) = m
  <2>1. CASE m = i
    <3>1. 1 \in 1..n /\ From(i, 1) = m  BY <2>1 DEF From
    <3> QED BY <3>1
  <2>2. CASE m < i
    <3>1. m + 1 \in 1..n /\ From(i, m + 1) = m  BY <2>2 DEF From
    <3> QED BY <3>1
  <2>3. CASE m > i
    <3>1. From(i, m) = m  BY <2>3 DEF From
    <3> QED BY <3>1
  <2> QED BY <2>1, <2>2, <2>3
<1> QED BY <1>1, <1>2, <1>3, <1>4

(* So it changes neither what is listed nor how much: every place of the   *)
(* new list is one of the old, and only once.                              *)
LEMMA MovedToFront ==
  ASSUME NEW S, tile_cache \in Seq(S), NEW i \in 1..Len(tile_cache)
  PROVE  LET new == WithDirMoved(i)
         IN  /\ new \in Seq(S) /\ Len(new) = Len(tile_cache)
             /\ \A j \in 1..Len(new) : \E k \in 1..Len(tile_cache) : new[j] = tile_cache[k]
             /\ \A j, k \in 1..Len(new) :
                  j # k => \E m, n \in 1..Len(tile_cache) :
                             m # n /\ new[j] = tile_cache[m] /\ new[k] = tile_cache[n]
<1> DEFINE n == Len(tile_cache)
           new == WithDirMoved(i)
<1>1. n \in Nat /\ i \in 1..n
  OBVIOUS
<1>2. /\ new \in Seq(S) /\ Len(new) = n
      /\ \A j \in 1..n : From(i, j) \in 1..n /\ new[j] = tile_cache[From(i, j)]
  BY MovedEntries
<1> HIDE DEF n, new
<1>3. \A j, k \in 1..n : j # k => From(i, j) # From(i, k)
  BY <1>1, FromFacts
<1>4. \A j \in 1..n : \E k \in 1..n : new[j] = tile_cache[k]
  BY <1>2, Zenon
<1>5. ASSUME NEW j \in 1..n, NEW k \in 1..n, j # k
      PROVE  \E m, l \in 1..n : m # l /\ new[j] = tile_cache[m] /\ new[k] = tile_cache[l]
  <2>1. /\ From(i, j) \in 1..n /\ new[j] = tile_cache[From(i, j)]
        /\ From(i, k) \in 1..n /\ new[k] = tile_cache[From(i, k)]
    BY <1>2, Zenon
  <2>2. From(i, j) # From(i, k)
    BY <1>3, <1>5, Zenon
  <2> QED BY <2>1, <2>2, Zenon
<1> QED BY <1>2, <1>4, <1>5 DEF n, new

(* Keys are unique if no two places list the same block and resolution. *)
LEMMA KeysInjective ==
  ASSUME NEW S, tile_cache \in Seq(S)
  PROVE  IsInjective(Keys) <=>
           \A j, k \in 1..Len(tile_cache) :
             tile_cache[j].pos = tile_cache[k].pos /\ tile_cache[j].res = tile_cache[k].res => j = k
<1>1. DOMAIN Keys = 1..Len(tile_cache)  BY DEF Keys
<1>2. \A j \in 1..Len(tile_cache) : Keys[j] = << tile_cache[j].pos, tile_cache[j].res >>
  BY <1>1 DEF Keys
<1> DEFINE n == Len(tile_cache)
           same(j, k) == tile_cache[j].pos = tile_cache[k].pos /\ tile_cache[j].res = tile_cache[k].res
<1>3. \A j, k \in 1..n : Keys[j] = Keys[k] <=> same(j, k)
  BY <1>2
<1>4. IsInjective(Keys) <=> \A j, k \in 1..n : Keys[j] = Keys[k] => j = k
  BY <1>1, Zenon DEF IsInjective
<1> HIDE DEF n, same
<1>5. IsInjective(Keys) <=> \A j, k \in 1..n : same(j, k) => j = k
  BY <1>3, <1>4, Zenon
<1> QED BY <1>5 DEF n, same

-----------------------------------------------------------------------------
(* The parts of DirectoriesHold that speak of the list alone. *)
Right(s) == \A i \in 1..Len(s) : s[i].dir = Directory[s[i].pos]
Once(s) == \A j, k \in 1..Len(s) : s[j].pos = s[k].pos /\ s[j].res = s[k].res => j = k

(* The invariant, in those parts. *)
Sound ==
  /\ IsList(tile_cache) /\ Right(tile_cache) /\ Once(tile_cache)
  /\ tile_cache_cap \in Nat /\ tile_cache_cap >= 1
  /\ Len(tile_cache) <= tile_cache_cap

(* Sound says what IInv says. *)
LEMMA IInvMeans == IInv <=> Sound
<1> SUFFICES ASSUME IsList(tile_cache)
             PROVE  /\ IsInjective(Keys) <=> Once(tile_cache)
                    /\ DOMAIN tile_cache = 1..Len(tile_cache)
  BY DEF IInv, DirectoriesHold, Right, Sound
<1>1. PICK S : tile_cache \in Seq(S)  BY DEF IsList
<1> QED BY <1>1, KeysInjective DEF Once

(* And so in the next state. *)
LEMMA IInvMeansNext == Sound' => IInv'
<1>1. Sound => IInv
  BY IInvMeans
<1> QED BY <1>1, PTL

(* The clamp. *)
LEMMA CapacityClamps ==
  ASSUME NEW n \in Nat
  PROVE  Capacity(n) \in Nat /\ Capacity(n) >= 1 /\ (n >= 1 => Capacity(n) = n)
  BY DEF Capacity

-----------------------------------------------------------------------------
(* No directory is listed when the reader is opened. *)
LEMMA InitIInv == Init => IInv
<1> SUFFICES ASSUME Init PROVE IInv
  OBVIOUS
<1>1. tile_cache = << >> /\ tile_cache_cap = DEFAULT_TILE_CACHE_CAPACITY
  BY DEF Init
<1>2. << >> \in Seq({}) /\ Len(<< >>) = 0
  OBVIOUS
<1>3. IsList(tile_cache)
  BY <1>1, <1>2, Zenon DEF IsList
<1>4. Right(tile_cache) /\ Once(tile_cache)
  BY <1>1, <1>2 DEF Right, Once
<1> QED BY <1>1, <1>2, <1>3, <1>4, CapacityAssumption, IInvMeans DEF Sound

(* A hit moves an entry and changes nothing else. *)
LEMMA HitIInv == IInv /\ TileDirHit => IInv'
<1> SUFFICES ASSUME IInv, TileDirHit PROVE IInv'
  OBVIOUS
<1>1. PICK S : tile_cache \in Seq(S)
  BY DEF IInv, IsList
<1>2. PICK i \in 1..Len(tile_cache) : tile_cache' = WithDirMoved(i)
  <2>1. IsListed(Top.x) /\ tile_cache' = WithDirMoved(IndexOfDir(Top.x))
    BY DEF TileDirHit
  <2>2. DOMAIN Keys = 1..Len(tile_cache)
    BY <1>1 DEF Keys
  <2>3. IndexOfDir(Top.x) \in DOMAIN Keys
    BY <2>1, Zenon DEF IsListed, IndexOfDir, Range
  <2> QED BY <2>1, <2>2, <2>3
<1> DEFINE n == Len(tile_cache)
           new == WithDirMoved(i)
<1>3. /\ new \in Seq(S) /\ Len(new) = n
      /\ \A j \in 1..Len(new) : \E k \in 1..n : new[j] = tile_cache[k]
      /\ \A j, k \in 1..Len(new) :
           j # k => \E m, l \in 1..n : m # l /\ new[j] = tile_cache[m] /\ new[k] = tile_cache[l]
  BY <1>1, MovedToFront
<1>4. Right(tile_cache) /\ Once(tile_cache) /\ n <= tile_cache_cap
      /\ tile_cache_cap \in Nat /\ tile_cache_cap >= 1
  BY IInvMeans DEF Sound
<1>5. tile_cache' = new /\ tile_cache_cap' = tile_cache_cap
  BY <1>2 DEF TileDirHit
<1> HIDE DEF new
<1>6. IsList(new)
  BY <1>3, Zenon DEF IsList
<1>7. Right(new)
  <2> SUFFICES ASSUME NEW j \in 1..Len(new) PROVE new[j].dir = Directory[new[j].pos]
    BY Zenon DEF Right
  <2>1. PICK k \in 1..n : new[j] = tile_cache[k]
    BY <1>3, Zenon
  <2> QED BY <2>1, <1>4, Zenon DEF Right
<1>8. Once(new)
  <2> SUFFICES ASSUME NEW j \in 1..Len(new), NEW k \in 1..Len(new),
                      new[j].pos = new[k].pos, new[j].res = new[k].res, j # k
               PROVE  FALSE
    BY Zenon DEF Once
  <2>1. PICK m \in 1..n, l \in 1..n : m # l /\ new[j] = tile_cache[m] /\ new[k] = tile_cache[l]
    BY <1>3, Zenon
  <2> QED BY <2>1, <1>4, Zenon DEF Once
<1>9. IsList(tile_cache)' /\ Right(tile_cache)' /\ Once(tile_cache)'
  BY <1>5, <1>6, <1>7, <1>8, Zenon DEF IsList, Right, Once
<1> QED BY <1>3, <1>4, <1>5, <1>9, IInvMeansNext DEF Sound

(* What is left of a list after truncate is as right as it was. *)
LEMMA TruncatedIsRight ==
  ASSUME NEW S, NEW s \in Seq(S), NEW n \in Nat, Right(s), Once(s)
  PROVE  /\ IsList(Truncated(s, n)) /\ Len(Truncated(s, n)) <= n
         /\ Right(Truncated(s, n)) /\ Once(Truncated(s, n))
<1> DEFINE t == Truncated(s, n)
<1>1. /\ t \in Seq(S) /\ Len(t) <= n /\ Len(t) <= Len(s)
      /\ \A i \in 1..Len(t) : t[i] = s[i]
  BY TruncatedFacts
<1>2. Len(t) \in Nat /\ Len(s) \in Nat
  BY <1>1
<1> HIDE DEF t
<1>3. IsList(t)
  BY <1>1, Zenon DEF IsList
<1>4. \A i \in 1..Len(t) : i \in 1..Len(s)
  BY <1>1, <1>2
<1> QED BY <1>1, <1>3, <1>4 DEF t, Right, Once

(* A miss lists a directory that was not listed, and under its own key;    *)
(* what truncate then drops is at the end.                                 *)
LEMMA MissIInv == IInv /\ TileDirMiss => IInv'
<1> SUFFICES ASSUME IInv, TileDirMiss PROVE IInv'
  OBVIOUS
<1> DEFINE x == Top.x
           e == [pos |-> Source[x].pos, res |-> ResOf[x], dir |-> Directory[Source[x].pos]]
           n == Len(tile_cache)
           long == << e >> \o tile_cache
<1>0. PICK S0 : tile_cache \in Seq(S0)
  BY DEF IInv, IsList
<1> DEFINE S == S0 \cup {e}
<1>1. tile_cache \in Seq(S) /\ e \in S /\ n \in Nat
  BY <1>0
<1>2. Right(tile_cache) /\ Once(tile_cache) /\ tile_cache_cap \in Nat /\ tile_cache_cap >= 1
  BY IInvMeans DEF Sound
<1>3. tile_cache' = Truncated(long, Capacity(tile_cache_cap)) /\ tile_cache_cap' = tile_cache_cap
  BY Zenon DEF TileDirMiss, WithNewDir
<1>4. ASSUME NEW i \in 1..n
      PROVE  ~(tile_cache[i].pos = e.pos /\ tile_cache[i].res = e.res)
  <2>1. ~IsListed(x)
    BY DEF TileDirMiss
  <2>2. i \in DOMAIN Keys /\ Keys[i] = << tile_cache[i].pos, tile_cache[i].res >>
    BY <1>1 DEF Keys
  <2>3. Keys[i] # Key(x)
    BY <2>1, <2>2, Zenon DEF IsListed, Range
  <2>4. Key(x) = << e.pos, e.res >>
    BY DEF Key
  <2> QED BY <2>2, <2>3, <2>4
<1>5. e.dir = Directory[e.pos]
  OBVIOUS
<1> HIDE DEF e, S, x
<1>6. /\ long \in Seq(S) /\ Len(long) = n + 1 /\ long[1] = e
      /\ \A i \in 2..(n + 1) : long[i] = tile_cache[i - 1]
  BY <1>1, InFront
<1> HIDE DEF long, n
<1>7. \A i \in 2..(n + 1) : i - 1 \in 1..n
  BY <1>1
<1>8. Right(long)
  <2> SUFFICES ASSUME NEW i \in 1..(n + 1) PROVE long[i].dir = Directory[long[i].pos]
    BY <1>6 DEF Right
  <2>1. CASE i = 1  BY <2>1, <1>5, <1>6
  <2>2. CASE i # 1
    <3>1. i \in 2..(n + 1)  BY <2>2, <1>1
    <3>2. i - 1 \in 1..Len(tile_cache) /\ long[i] = tile_cache[i - 1]
      BY <3>1, <1>6, <1>7 DEF n
    <3> QED BY <3>2, <1>2, Zenon DEF Right
  <2> QED BY <2>1, <2>2
<1>9. Once(long)
  <2> SUFFICES ASSUME NEW j \in 1..(n + 1), NEW k \in 1..(n + 1),
                      long[j].pos = long[k].pos, long[j].res = long[k].res
               PROVE  j = k
    BY <1>6, Zenon DEF Once
  <2>1. ASSUME NEW i \in 2..(n + 1)
        PROVE  i - 1 \in 1..n /\ long[i] = tile_cache[i - 1]
               /\ ~(long[i].pos = e.pos /\ long[i].res = e.res)
    BY <1>4, <1>6, <1>7
  <2>2. CASE j = 1 /\ k = 1  BY <2>2
  <2>3. CASE j = 1 /\ k # 1
    <3>1. k \in 2..(n + 1)  BY <2>3, <1>1
    <3> QED BY <3>1, <2>1, <2>3, <1>6
  <2>4. CASE j # 1 /\ k = 1
    <3>1. j \in 2..(n + 1)  BY <2>4, <1>1
    <3> QED BY <3>1, <2>1, <2>4, <1>6
  <2>5. CASE j # 1 /\ k # 1
    <3>1. j \in 2..(n + 1) /\ k \in 2..(n + 1)  BY <2>5, <1>1
    <3>2. j - 1 \in 1..n /\ long[j] = tile_cache[j - 1]  BY <3>1, <2>1
    <3>3. k - 1 \in 1..n /\ long[k] = tile_cache[k - 1]  BY <3>1, <2>1
    <3>4. j - 1 = k - 1  BY <3>2, <3>3, <1>2, Zenon DEF Once, n
    <3> QED BY <3>4, <3>1, <1>1
  <2> QED BY <2>2, <2>3, <2>4, <2>5
<1>10. Capacity(tile_cache_cap) = tile_cache_cap
  BY <1>2, CapacityClamps
<1>11. /\ IsList(Truncated(long, tile_cache_cap)) /\ Right(Truncated(long, tile_cache_cap))
       /\ Once(Truncated(long, tile_cache_cap))
       /\ Len(Truncated(long, tile_cache_cap)) <= tile_cache_cap
  BY <1>2, <1>6, <1>8, <1>9, TruncatedIsRight
<1>12. tile_cache' = Truncated(long, tile_cache_cap)
  BY <1>3, <1>10
<1>13. IsList(tile_cache)' /\ Right(tile_cache)' /\ Once(tile_cache)'
       /\ (Len(tile_cache) <= tile_cache_cap)'
  BY <1>3, <1>11, <1>12, Zenon DEF IsList, Right, Once
<1> QED BY <1>2, <1>3, <1>13, IInvMeansNext DEF Sound

(* A new capacity is at least one, and the list is truncated to it. *)
LEMMA ResizeIInv ==
  ASSUME NEW c \in Capacities, IInv, SetTileCacheCapacity(c)
  PROVE  IInv'
<1>0. PICK S : tile_cache \in Seq(S)
  BY DEF IInv, IsList
<1>1. c \in Nat
  BY CapacityAssumption
<1>2. tile_cache_cap' \in Nat /\ tile_cache_cap' >= 1
  BY <1>1, CapacityClamps DEF SetTileCacheCapacity
<1>3. tile_cache' = Truncated(tile_cache, tile_cache_cap')
  BY DEF SetTileCacheCapacity
<1>4. Right(tile_cache) /\ Once(tile_cache)
  BY IInvMeans DEF Sound
<1>5. /\ IsList(Truncated(tile_cache, tile_cache_cap'))
      /\ Len(Truncated(tile_cache, tile_cache_cap')) <= tile_cache_cap'
      /\ Right(Truncated(tile_cache, tile_cache_cap'))
      /\ Once(Truncated(tile_cache, tile_cache_cap'))
  BY <1>0, <1>2, <1>4, TruncatedIsRight
<1>6. IsList(tile_cache)' /\ Right(tile_cache)' /\ Once(tile_cache)'
      /\ (Len(tile_cache) <= tile_cache_cap)'
  BY <1>3, <1>5, Zenon DEF IsList, Right, Once
<1> QED BY <1>2, <1>6, IInvMeansNext DEF Sound

(* Everything else leaves the list and its capacity alone. *)
LEMMA OthersIInv ==
  ASSUME IInv, UNCHANGED << tile_cache, tile_cache_cap >>
  PROVE  IInv'
  BY DEF IInv, IsList, DirectoriesHold, Keys

(* The step of the induction. *)
LEMMA NextIInv == IInv /\ [Next]_vars => IInv'
<1> SUFFICES ASSUME IInv, [Next]_vars PROVE IInv'
  OBVIOUS
<1>1. CASE TileDirHit  BY <1>1, HitIInv
<1>2. CASE TileDirMiss  BY <1>2, MissIInv
<1>3. CASE \E c \in Capacities : SetTileCacheCapacity(c)  BY <1>3, ResizeIInv
<1>4. CASE \E r \in Request : Ask(r)
  BY <1>4, OthersIInv DEF Ask, caches
<1>5. CASE Answer \/ Refuse \/ CheckBuffer \/ CheckTile \/ Alloc \/ PackedFaceData \/ Fill
  BY <1>5, OthersIInv DEF Answer, Refuse, CheckBuffer, CheckTile, Alloc, PackedFaceData, Fill, caches
<1>6. CASE EnsureLevel \/ Tiles \/ TexelOfTile \/ ReadBlock \/ Reduce \/ ReadMetadata
  BY <1>6, OthersIInv DEF EnsureLevel, Tiles, TexelOfTile, ReadBlock, Reduce, ReadMetadata, caches
<1>7. CASE Fault \/ AllDone \/ UNCHANGED vars
  BY <1>7, OthersIInv DEF Fault, AllDone, vars, caches
<1> QED BY <1>1, <1>2, <1>3, <1>4, <1>5, <1>6, <1>7 DEF Next, Step

(* Each directory kept is the right one, kept once, and within a capacity  *)
(* that is never zero (tile_dir, set_tile_cache_capacity).                 *)
THEOREM DirectoriesSound == Spec => []DirectoriesHold
<1>1. IInv => DirectoriesHold
  BY DEF IInv
<1> QED BY <1>1, InitIInv, NextIInv, PTL DEF Spec

-----------------------------------------------------------------------------
(* Which directories the list keeps.  Recent says of a list what           *)
(* MostRecentKept says of tile_cache.                                      *)

KeyAt(s, i) == << s[i].pos, s[i].res >>
Absent(s, k) == \A j \in 1..Len(s) : KeyAt(s, j) # k

Recent(s, used, after, low) ==
  /\ \A i \in 1..Len(s) : KeyAt(s, i) \in used
  /\ \A i, j \in 1..Len(s) : i < j => << KeyAt(s, i), KeyAt(s, j) >> \in after
  /\ \A i \in 1..Len(s) : \A k \in used :
       Absent(s, k) => << KeyAt(s, i), k >> \in after
  /\ \A k \in used : Absent(s, k) => Len(s) >= low

HInv ==
  /\ IInv
  /\ Recent(tile_cache, seen, later, lowest)
  /\ lowest \in Nat /\ lowest <= tile_cache_cap

(* What is recent is what MostRecentKept asks for. *)
LEMMA RecentMeans ==
  ASSUME IsList(tile_cache), Recent(tile_cache, seen, later, lowest)
  PROVE  MostRecentKept
<1> DEFINE n == Len(tile_cache)
<1>0. DOMAIN tile_cache = 1..n /\ n \in Nat
  BY DEF IsList
<1>1. DOMAIN Keys = 1..n /\ \A i \in 1..n : Keys[i] = KeyAt(tile_cache, i)
  BY <1>0 DEF Keys, KeyAt
<1>2. Len(Keys) = n
  <2>1. Keys = [i \in 1..n |-> Keys[i]]
    BY <1>0 DEF Keys
  <2>2. Keys \in Seq(Range(Keys))
    <3>1. \A i \in 1..n : Keys[i] \in Range(Keys)
      BY <1>1, Zenon DEF Range
    <3> QED BY <1>0, <2>1, <3>1
  <2> QED BY <1>0, <1>1, <2>2
<1> HIDE DEF n
<1>3. \A k : k \in Range(Keys) <=> \E i \in 1..n : KeyAt(tile_cache, i) = k
  BY <1>1, Zenon DEF Range
<1>4. \A k \in Gone : k \in seen /\ Absent(tile_cache, k)
  BY <1>3, Zenon DEF Gone, Absent, n
<1>5. Range(Keys) \subseteq seen
  BY <1>3 DEF Recent, n
<1>6. \A i, j \in DOMAIN Keys : i < j => << Keys[i], Keys[j] >> \in later
  BY <1>1 DEF Recent, n
<1>7. \A i \in DOMAIN Keys, k \in Gone : << Keys[i], k >> \in later
  BY <1>1, <1>4 DEF Recent, n
<1>8. Gone # {} => Len(Keys) >= lowest
  <2> SUFFICES ASSUME NEW k \in Gone PROVE n >= lowest
    BY <1>2
  <2> QED BY <1>4 DEF Recent, n
<1> QED BY <1>5, <1>6, <1>7, <1>8 DEF MostRecentKept

(* truncate drops the least recently used ones.                            *)
LEMMA TruncatedIsRecent ==
  ASSUME NEW S, NEW s \in Seq(S), NEW n \in Nat, NEW used, NEW after,
         NEW low \in Nat, NEW low2 \in Nat, low2 <= low, low2 <= n,
         Recent(s, used, after, low)
  PROVE  Recent(Truncated(s, n), used, after, low2)
<1> DEFINE t == Truncated(s, n)
           l == Len(s)
           m == Len(t)
<1>1. /\ l \in Nat /\ m \in Nat /\ m <= l
      /\ m = IF n < l THEN n ELSE l
      /\ \A i \in 1..m : t[i] = s[i]
  <2>1. /\ t \in Seq(S) /\ m <= l /\ \A i \in 1..m : t[i] = s[i]
    BY TruncatedFacts
  <2>2. m = IF n < l THEN n ELSE l
    BY DEF Truncated
  <2> QED BY <2>1, <2>2
<1> HIDE DEF t, m, l
<1>2. \A i \in 1..m : i \in 1..l /\ KeyAt(t, i) = KeyAt(s, i)
  BY <1>1 DEF KeyAt
<1>3. ASSUME NEW k, Absent(t, k), ~Absent(s, k)
      PROVE  m = n /\ \E j \in 1..l : KeyAt(s, j) = k /\ \A i \in 1..m : i < j
  <2>1. PICK j \in 1..l : KeyAt(s, j) = k
    BY <1>3 DEF Absent, l
  <2>2. j \notin 1..m
    BY <1>2, <1>3, <2>1 DEF Absent, m
  <2>3. j > m /\ m = n
    BY <1>1, <2>2
  <2> QED BY <1>1, <2>1, <2>3
<1>4. \A i \in 1..m : KeyAt(t, i) \in used
  BY <1>2 DEF Recent, l
<1>5. \A i, j \in 1..m : i < j => << KeyAt(t, i), KeyAt(t, j) >> \in after
  BY <1>2 DEF Recent, l
<1>6. ASSUME NEW k \in used, Absent(t, k), NEW i \in 1..m
      PROVE  << KeyAt(t, i), k >> \in after
  <2>1. i \in 1..l /\ KeyAt(t, i) = KeyAt(s, i)
    BY <1>2
  <2>2. CASE Absent(s, k)
    BY <2>1, <2>2 DEF Recent, l
  <2>3. CASE ~Absent(s, k)
    <3>1. PICK j \in 1..l : KeyAt(s, j) = k /\ i < j
      BY <1>3, <1>6, <2>3
    <3> QED BY <2>1, <3>1 DEF Recent, l
  <2> QED BY <2>2, <2>3
<1>7. ASSUME NEW k \in used, Absent(t, k)
      PROVE  m >= low2
  <2>1. CASE Absent(s, k)
    <3>1. l >= low
      BY <2>1 DEF Recent, l
    <3> QED BY <1>1, <3>1
  <2>2. CASE ~Absent(s, k)
    BY <1>3, <1>7, <2>2
  <2> QED BY <2>1, <2>2
<1> QED BY <1>4, <1>5, <1>6, <1>7 DEF Recent, m, t

(* What a lookup does to the order of last use.                            *)
Afterwards(k) == {p \in later : p[1] # k /\ p[2] # k} \cup {<< k, j >> : j \in seen \ {k}}

(* What is used after a key, once another is. *)
LEMMA AfterwardsFacts ==
  ASSUME NEW k
  PROVE  /\ \A a, b : << a, b >> \in later /\ a # k /\ b # k => << a, b >> \in Afterwards(k)
         /\ \A b \in seen : b # k => << k, b >> \in Afterwards(k)
BY DEF Afterwards

(* A hit on what is listed makes it the most recent.                       *)
LEMMA HitIsRecent ==
  ASSUME IInv, Recent(tile_cache, seen, later, lowest), NEW i \in 1..Len(tile_cache)
  PROVE  LET k == KeyAt(tile_cache, i)
         IN  k \in seen /\ Recent(WithDirMoved(i), seen \cup {k}, Afterwards(k), lowest)
<1>0. PICK S : tile_cache \in Seq(S)
  BY DEF IInv, IsList
<1> DEFINE s == tile_cache
           n == Len(s)
           k == KeyAt(s, i)
           new == WithDirMoved(i)
<1>1. n \in Nat /\ i \in 1..n
  BY <1>0
<1>2. Len(new) = n /\ \A j \in 1..n : From(i, j) \in 1..n /\ new[j] = s[From(i, j)]
  BY <1>0, MovedEntries
<1>3. Once(s)
  BY IInvMeans DEF Sound
<1>4. k \in seen
  BY DEF Recent
<1> HIDE DEF new, n
<1>5. \A j \in 1..n : From(i, j) \in 1..n /\ KeyAt(new, j) = KeyAt(s, From(i, j))
  BY <1>2 DEF KeyAt
<1>6. \A j \in 1..n : j # i => KeyAt(s, j) # k
  BY <1>1, <1>3 DEF Once, KeyAt, n
<1>7. /\ \A j, m \in 2..n : j < m => From(i, j) < From(i, m)
      /\ \A j \in 2..n : From(i, j) # i
      /\ \A m \in 1..n : \E j \in 1..n : From(i, j) = m
  BY <1>1, FromFacts
<1>8. KeyAt(new, 1) = k
  BY <1>1, <1>5 DEF From
<1>9. ASSUME NEW j \in 2..n PROVE KeyAt(new, j) # k /\ KeyAt(new, j) \in seen
  <2>1. j \in 1..n
    BY <1>1
  <2>2. From(i, j) \in 1..n /\ From(i, j) # i /\ KeyAt(new, j) = KeyAt(s, From(i, j))
    BY <2>1, <1>5, <1>7
  <2> QED BY <2>2, <1>6 DEF Recent, n
<1>10. \A a : Absent(new, a) => Absent(s, a)
  BY <1>2, <1>5, <1>7 DEF Absent, n
<1> HIDE DEF k, s
<1>11. \A j \in 1..n : j = 1 \/ j \in 2..n
  BY <1>1
<1>12. \A j \in 1..n : KeyAt(new, j) \in seen
  BY <1>4, <1>8, <1>9, <1>11
<1>13. ASSUME NEW j \in 1..n, NEW m \in 1..n, j < m
       PROVE  << KeyAt(new, j), KeyAt(new, m) >> \in Afterwards(k)
  <2>1. m \in 2..n
    BY <1>1, <1>13
  <2>2. CASE j = 1
    BY <2>1, <2>2, <1>8, <1>9, AfterwardsFacts
  <2>3. CASE j \in 2..n
    <3>1. From(i, j) \in 1..n /\ From(i, m) \in 1..n /\ From(i, j) < From(i, m)
      BY <2>1, <2>3, <1>5, <1>7, <1>13
    <3>2. << KeyAt(s, From(i, j)), KeyAt(s, From(i, m)) >> \in later
      BY <3>1 DEF Recent, n, s
    <3>3. << KeyAt(new, j), KeyAt(new, m) >> \in later
      BY <3>2, <1>5
    <3> QED BY <3>3, <2>1, <2>3, <1>9, AfterwardsFacts
  <2> QED BY <2>2, <2>3, <1>11
<1>14. ASSUME NEW j \in 1..n, NEW a \in seen, Absent(new, a)
       PROVE  << KeyAt(new, j), a >> \in Afterwards(k)
  <2>1. Absent(s, a) /\ a # k
    <3>1. KeyAt(new, 1) # a
      BY <1>1, <1>2, <1>14 DEF Absent
    <3> QED BY <3>1, <1>8, <1>10, <1>14
  <2>2. CASE j = 1
    BY <2>1, <2>2, <1>8, AfterwardsFacts
  <2>3. CASE j \in 2..n
    <3>1. << KeyAt(s, From(i, j)), a >> \in later
      BY <2>1, <1>5 DEF Recent, n, s
    <3>2. << KeyAt(new, j), a >> \in later
      BY <3>1, <1>5
    <3> QED BY <3>2, <2>1, <2>3, <1>9, AfterwardsFacts
  <2> QED BY <2>2, <2>3, <1>11
<1>15. \A a \in seen : Absent(new, a) => n >= lowest
  BY <1>10 DEF Recent, n, s
<1>16. seen \cup {k} = seen
  BY <1>4
<1>17. Recent(new, seen, Afterwards(k), lowest)
  BY <1>2, <1>12, <1>13, <1>14, <1>15, Zenon DEF Recent
<1> QED BY <1>4, <1>16, <1>17 DEF new, k, s

(* A miss puts a new one in front.                                         *)
LEMMA MissIsRecent ==
  ASSUME NEW S, tile_cache \in Seq(S), NEW e \in S, lowest \in Nat,
         Recent(tile_cache, seen, later, lowest), Absent(tile_cache, << e.pos, e.res >>)
  PROVE  LET k == << e.pos, e.res >>
         IN  Recent(<< e >> \o tile_cache, seen \cup {k}, Afterwards(k), lowest)
<1> DEFINE s == tile_cache
           n == Len(s)
           k == << e.pos, e.res >>
           long == << e >> \o s
<1>1. n \in Nat
  OBVIOUS
<1>2. /\ Len(long) = n + 1 /\ long[1] = e
      /\ \A j \in 2..(n + 1) : long[j] = s[j - 1]
  BY InFront
<1> HIDE DEF long, n
<1>3. KeyAt(long, 1) = k
  BY <1>2 DEF KeyAt
<1>4. ASSUME NEW j \in 2..(n + 1)
      PROVE  /\ j - 1 \in 1..n /\ KeyAt(long, j) = KeyAt(s, j - 1)
             /\ KeyAt(long, j) # k /\ KeyAt(long, j) \in seen
  <2>1. j - 1 \in 1..n
    BY <1>1
  <2>2. KeyAt(long, j) = KeyAt(s, j - 1)
    BY <1>2 DEF KeyAt
  <2>3. KeyAt(s, j - 1) # k /\ KeyAt(s, j - 1) \in seen
    BY <2>1 DEF Absent, Recent, n
  <2> QED BY <2>1, <2>2, <2>3
<1>5. ASSUME NEW a, Absent(long, a) PROVE a # k /\ Absent(s, a)
  <2>1. a # k
    BY <1>1, <1>2, <1>3, <1>5 DEF Absent
  <2>2. ASSUME NEW j \in 1..n PROVE KeyAt(s, j) # a
    <3>1. j + 1 \in 2..(n + 1) /\ (j + 1) - 1 = j /\ j + 1 \in 1..(n + 1)
      BY <1>1
    <3>2. KeyAt(long, j + 1) = KeyAt(s, j)
      BY <3>1, <1>4
    <3> QED BY <3>1, <3>2, <1>2, <1>5 DEF Absent
  <2> QED BY <2>1, <2>2 DEF Absent, n
<1> HIDE DEF k, s
<1>6. \A j \in 1..(n + 1) : j = 1 \/ j \in 2..(n + 1)
  BY <1>1
<1>7. \A j \in 1..(n + 1) : KeyAt(long, j) \in seen \cup {k}
  BY <1>3, <1>4, <1>6
<1>8. ASSUME NEW j \in 1..(n + 1), NEW m \in 1..(n + 1), j < m
      PROVE  << KeyAt(long, j), KeyAt(long, m) >> \in Afterwards(k)
  <2>1. m \in 2..(n + 1)
    BY <1>1, <1>8
  <2>2. CASE j = 1
    BY <2>1, <2>2, <1>3, <1>4, AfterwardsFacts
  <2>3. CASE j \in 2..(n + 1)
    <3>1. j - 1 \in 1..n /\ m - 1 \in 1..n /\ j - 1 < m - 1
      BY <2>1, <2>3, <1>4, <1>8
    <3>2. << KeyAt(s, j - 1), KeyAt(s, m - 1) >> \in later
      BY <3>1 DEF Recent, n, s
    <3>3. << KeyAt(long, j), KeyAt(long, m) >> \in later
      BY <3>2, <2>1, <2>3, <1>4
    <3> QED BY <3>3, <2>1, <2>3, <1>4, AfterwardsFacts
  <2> QED BY <2>2, <2>3, <1>6
<1>9. ASSUME NEW j \in 1..(n + 1), NEW a \in seen \cup {k}, Absent(long, a)
      PROVE  << KeyAt(long, j), a >> \in Afterwards(k)
  <2>1. a # k /\ a \in seen /\ Absent(s, a)
    BY <1>5, <1>9
  <2>2. CASE j = 1
    BY <2>1, <2>2, <1>3, AfterwardsFacts
  <2>3. CASE j \in 2..(n + 1)
    <3>1. << KeyAt(s, j - 1), a >> \in later
      BY <2>1, <2>3, <1>4 DEF Recent, n, s
    <3>2. << KeyAt(long, j), a >> \in later
      BY <3>1, <2>3, <1>4
    <3> QED BY <3>2, <2>1, <2>3, <1>4, AfterwardsFacts
  <2> QED BY <2>2, <2>3, <1>6
<1>10. ASSUME NEW a \in seen \cup {k}, Absent(long, a) PROVE n + 1 >= lowest
  <2>1. a \in seen /\ Absent(s, a)
    BY <1>5, <1>10
  <2>2. n >= lowest
    BY <2>1 DEF Recent, n, s
  <2> QED BY <2>2, <1>1
<1>11. Recent(long, seen \cup {k}, Afterwards(k), lowest)
  BY <1>2, <1>7, <1>8, <1>9, <1>10, Zenon DEF Recent
<1> QED BY <1>11 DEF long, k, s
(* Only a lookup is observed as a use, and every lookup that goes on is.   *)
LEMMA OnlyLookups ==
  ASSUME Next, ~TileDirHit, ~TileDirMiss
  PROVE  ~(At("dir") /\ call' # None)
<1> SUFFICES ASSUME At("dir") PROVE call' = None
  OBVIOUS
<1>0. call # None /\ work # << >> /\ Top.do = "dir"
  BY DEF At
<1>1. /\ ~At("refuse") /\ ~At("fits") /\ ~At("fitsTile") /\ ~At("inRange") /\ ~At("alloc")
      /\ ~At("allocTile") /\ ~At("packed") /\ ~At("fill") /\ ~At("level") /\ ~At("tiles") /\ ~At("texel")
      /\ ~At("block") /\ ~At("tile") /\ ~At("reduce") /\ ~At("metadata")
  BY <1>0 DEF At
<1>2. ~Answer /\ ~AllDone /\ \A r : ~Ask(r) /\ ~SetTileCacheCapacity(r)
  BY <1>0 DEF Answer, AllDone, Ask, SetTileCacheCapacity
<1>3. /\ ~CheckBuffer /\ ~CheckTile /\ ~Alloc /\ ~PackedFaceData /\ ~Fill /\ ~EnsureLevel /\ ~Tiles
      /\ ~TexelOfTile /\ ~ReadBlock /\ ~Reduce /\ ~ReadMetadata
  BY <1>1 DEF CheckBuffer, CheckTile, Alloc, PackedFaceData, Fill, EnsureLevel, Tiles, TexelOfTile,
              ReadBlock, Reduce, ReadMetadata
<1>4. Refuse \/ Fault
  BY <1>2, <1>3 DEF Next, Step
<1> QED BY <1>4 DEF Refuse, Fault, Return

(* The history keeps its invariant. *)
LEMMA NextHInv == HInv /\ [Next /\ Observe]_<< vars, observers >> => HInv'
<1> SUFFICES ASSUME HInv, [Next /\ Observe]_<< vars, observers >> PROVE HInv'
  OBVIOUS
<1>0. /\ IInv /\ IInv' /\ lowest \in Nat /\ lowest <= tile_cache_cap
      /\ tile_cache_cap \in Nat /\ tile_cache_cap >= 1
      /\ Recent(tile_cache, seen, later, lowest)
  <2>1. IInv /\ [Next]_vars
    BY DEF HInv
  <2>2. tile_cache_cap \in Nat /\ tile_cache_cap >= 1
    BY <2>1 DEF IInv, DirectoriesHold
  <2> QED BY <2>1, <2>2, NextIInv DEF HInv
<1>a. PICK S0 : tile_cache \in Seq(S0)
  BY <1>0 DEF IInv, IsList
<1>1. CASE Next /\ Observe /\ TileDirHit
  <2>1. IsListed(Top.x) /\ tile_cache' = WithDirMoved(IndexOfDir(Top.x))
        /\ At("dir") /\ call' = call /\ tile_cache_cap' = tile_cache_cap
    BY <1>1 DEF TileDirHit, Continue
  <2> DEFINE i == IndexOfDir(Top.x)
             k == Key(Top.x)
  <2>2. DOMAIN Keys = 1..Len(tile_cache)
        /\ \A j \in 1..Len(tile_cache) : Keys[j] = KeyAt(tile_cache, j)
    BY <1>a DEF Keys, KeyAt
  <2>3. i \in DOMAIN Keys /\ Keys[i] = k
    BY <2>1, Zenon DEF IsListed, IndexOfDir, Range
  <2>4. i \in 1..Len(tile_cache) /\ KeyAt(tile_cache, i) = k
    BY <2>2, <2>3
  <2>5. call' # None
    BY <2>1 DEF At
  <2>6. seen' = seen \cup {k} /\ later' = Afterwards(k) /\ lowest' = lowest
    <3>1. Use(k)
      BY <1>1, <2>1, <2>5 DEF Observe
    <3>2. lowest' = lowest
      BY <1>0, <1>1, <2>1 DEF Observe
    <3> QED BY <3>1, <3>2 DEF Use, Afterwards
  <2> HIDE DEF i, k
  <2>7. Recent(WithDirMoved(i), seen \cup {k}, Afterwards(k), lowest)
    BY <1>0, <2>4, HitIsRecent
  <2>8. tile_cache' = WithDirMoved(i)
    BY <2>1 DEF i
  <2>9. Recent(tile_cache, seen, later, lowest)'
    BY <2>6, <2>7, <2>8, Zenon DEF Recent, Absent, KeyAt
  <2> QED BY <1>0, <2>1, <2>6, <2>9 DEF HInv
<1>2. CASE Next /\ Observe /\ TileDirMiss
  <2> DEFINE x == Top.x
             k == Key(x)
             e == [pos |-> Source[x].pos, res |-> ResOf[x], dir |-> Directory[Source[x].pos]]
             long == << e >> \o tile_cache
             S == S0 \cup {e}
  <2>1. ~IsListed(x) /\ At("dir") /\ tile_cache_cap' = tile_cache_cap
        /\ tile_cache' = Truncated(long, Capacity(tile_cache_cap))
    BY <1>2, Zenon DEF TileDirMiss, WithNewDir
  <2>2. tile_cache \in Seq(S) /\ e \in S /\ k = << e.pos, e.res >>
    BY <1>a DEF Key
  <2>3. Absent(tile_cache, k)
    <3>1. \A j \in 1..Len(tile_cache) : j \in DOMAIN Keys /\ Keys[j] = KeyAt(tile_cache, j)
      BY <1>a DEF Keys, KeyAt
    <3> QED BY <2>1, <3>1, Zenon DEF IsListed, Range, Absent
  <2> HIDE DEF e, S, k
  <2>4. Recent(long, seen \cup {k}, Afterwards(k), lowest)
    BY <1>0, <2>2, <2>3, MissIsRecent
  <2>5. long \in Seq(S) /\ Len(long) = Len(tile_cache) + 1 /\ Len(tile_cache) \in Nat
    BY <2>2, InFront
  <2> HIDE DEF long
  <2>6. Capacity(tile_cache_cap) = tile_cache_cap
    BY <1>0, CapacityClamps
  <2>7. tile_cache' = Truncated(long, tile_cache_cap)
    BY <2>1, <2>6
  <2>8. tile_cache' # << >>
    <3>1. Len(Truncated(long, tile_cache_cap)) >= 1
      BY <1>0, <2>5 DEF Truncated
    <3> QED BY <2>7, <3>1
  <2>9. call' # None
    <3>1. Continue(<< >>)
      BY <1>2, <2>8 DEF TileDirMiss
    <3> QED BY <2>1, <3>1 DEF At, Continue
  <2>10. seen' = seen \cup {k} /\ later' = Afterwards(k) /\ lowest' = lowest
    <3>1. Use(k)
      BY <1>2, <2>1, <2>9 DEF Observe, k
    <3>2. lowest' = lowest
      BY <1>0, <1>2, <2>1 DEF Observe
    <3> QED BY <3>1, <3>2 DEF Use, Afterwards
  <2>11. Recent(Truncated(long, tile_cache_cap), seen \cup {k}, Afterwards(k), lowest)
    BY <1>0, <2>4, <2>5, TruncatedIsRecent
  <2>12. Recent(tile_cache, seen, later, lowest)'
    BY <2>7, <2>10, <2>11, Zenon DEF Recent, Absent, KeyAt
  <2> QED BY <1>0, <2>1, <2>10, <2>12 DEF HInv
<1>3. CASE Next /\ Observe /\ \E c \in Capacities : SetTileCacheCapacity(c)
  <2>1. PICK c \in Capacities : SetTileCacheCapacity(c)
    BY <1>3
  <2>2. tile_cache_cap' \in Nat
    BY <1>0 DEF IInv
  <2>3. /\ tile_cache' = Truncated(tile_cache, tile_cache_cap')
        /\ ~At("dir")
    BY <2>1 DEF SetTileCacheCapacity, At
  <2>4. seen' = seen /\ later' = later
        /\ lowest' = IF tile_cache_cap' < lowest THEN tile_cache_cap' ELSE lowest
    BY <1>3, <2>3 DEF Observe
  <2>5. lowest' \in Nat /\ lowest' <= lowest /\ lowest' <= tile_cache_cap'
    BY <1>0, <2>2, <2>4
  <2>6. Recent(Truncated(tile_cache, tile_cache_cap'), seen, later, lowest')
    BY <1>0, <1>a, <2>2, <2>5, TruncatedIsRecent
  <2>7. Recent(tile_cache, seen, later, lowest)'
    BY <2>3, <2>4, <2>6, Zenon DEF Recent, Absent, KeyAt
  <2> QED BY <1>0, <2>5, <2>7 DEF HInv
<1>4. CASE /\ Next /\ Observe /\ ~TileDirHit /\ ~TileDirMiss
           /\ ~ \E c \in Capacities : SetTileCacheCapacity(c)
  <2>1. UNCHANGED << tile_cache, tile_cache_cap >>
    <3>1. CASE \E r \in Request : Ask(r)
      BY <3>1 DEF Ask, caches
    <3>2. CASE Answer \/ Refuse \/ CheckBuffer \/ CheckTile \/ Alloc \/ PackedFaceData \/ Fill
      BY <3>2 DEF Answer, Refuse, CheckBuffer, CheckTile, Alloc, PackedFaceData, Fill, caches
    <3>3. CASE EnsureLevel \/ Tiles \/ TexelOfTile \/ ReadBlock \/ Reduce \/ ReadMetadata
      BY <3>3 DEF EnsureLevel, Tiles, TexelOfTile, ReadBlock, Reduce, ReadMetadata, caches
    <3>4. CASE Fault \/ AllDone
      BY <3>4 DEF Fault, AllDone, vars, caches
    <3> QED BY <1>4, <3>1, <3>2, <3>3, <3>4 DEF Next, Step
  <2>2. ~(At("dir") /\ call' # None)
    BY <1>4, OnlyLookups
  <2>3. UNCHANGED << seen, later, lowest >>
    BY <1>0, <1>4, <2>1, <2>2 DEF Observe
  <2> QED BY <1>0, <2>1, <2>3 DEF HInv, Recent, Absent, KeyAt
<1>5. CASE UNCHANGED << vars, observers >>
  <2>1. UNCHANGED << tile_cache, tile_cache_cap, seen, later, lowest >>
    BY <1>5 DEF vars, caches, observers
  <2> QED BY <1>0, <2>1 DEF HInv, Recent, Absent, KeyAt
<1> QED BY <1>1, <1>2, <1>3, <1>4, <1>5

(* The history begins with its invariant. *)
LEMMA InitHInv == HInit => HInv
<1> SUFFICES ASSUME HInit PROVE HInv
  OBVIOUS
<1>1. IInv /\ tile_cache = << >> /\ lowest = tile_cache_cap /\ seen = {} /\ later = {}
  BY InitIInv DEF HInit, Init
<1>2. tile_cache_cap \in Nat
  BY <1>1 DEF IInv
<1> QED BY <1>1, <1>2 DEF HInv, Recent, Absent

(* For any requests, file and capacities, the directories kept are the     *)
(* most recently used, most recent first, and as many as were used or as   *)
(* the capacity ever allowed (tile_cache's doc, reader.rs:57-58; tile_dir, *)
(* 573-593; set_tile_cache_capacity, 487-499).                             *)
THEOREM DirectoriesAreRecent == HSpec => []MostRecentKept
<1>1. HInv => MostRecentKept
  BY RecentMeans DEF HInv, IInv
<1> QED BY <1>1, InitHInv, NextHInv, PTL DEF HSpec

(* Lists of tasks and of buffers. *)
Then(t, s) == << t >> \o s

(* Two lists have elements in common set. *)
LEMMA Lists ==
  ASSUME NEW a, IsList(a), NEW b, IsList(b)
  PROVE  \E S : a \in Seq(S) /\ b \in Seq(S)
<1>1. PICK A : a \in Seq(A)
  BY DEF IsList
<1>2. PICK B : b \in Seq(B)
  BY DEF IsList
<1>3. a \in Seq(A \cup B) /\ b \in Seq(A \cup B)
  BY <1>1, <1>2
<1> QED BY <1>3

(* The empty list is one. *)
LEMMA NoneLeft == IsList(<< >>)
<1>1. << >> \in Seq({})
  OBVIOUS
<1> QED BY <1>1, Zenon DEF IsList

(* A task before a list. *)
LEMMA ThenFacts ==
  ASSUME NEW t, NEW s, IsList(s)
  PROVE  /\ IsList(Then(t, s)) /\ Then(t, s) # << >>
         /\ Head(Then(t, s)) = t /\ Tail(Then(t, s)) = s
         /\ Len(s) \in Nat /\ Len(Then(t, s)) = Len(s) + 1
         /\ Then(t, s)[1] = t /\ \A i \in 1..Len(s) : Then(t, s)[i + 1] = s[i]
<1>1. PICK S : s \in Seq(S)
  BY DEF IsList
<1> DEFINE T == S \cup {t}
           u == << t >> \o s
<1>2. s \in Seq(T) /\ t \in T
  BY <1>1
<1> HIDE DEF T
<1>3. u \in Seq(T) /\ Len(u) = Len(s) + 1 /\ u[1] = t /\ Len(s) \in Nat
      /\ \A i \in 1..Len(s) : u[i + 1] = s[i]
  BY <1>2
<1>4. Head(u) = t /\ Tail(u) = s /\ u # << >>
  BY <1>2
<1>5. IsList(u)
  BY <1>3, Zenon DEF IsList
<1> QED
  BY <1>3, <1>4, <1>5 DEF Then

(* Lists joined. *)
LEMMA Joined ==
  ASSUME NEW a, IsList(a), NEW b, IsList(b)
  PROVE  IsList(a \o b) /\ << >> \o b = b /\ a \o << >> = a
<1>1. PICK S : a \in Seq(S) /\ b \in Seq(S)
  BY Lists
<1>3. a \o b \in Seq(S) /\ << >> \o b = b /\ a \o << >> = a
  BY <1>1
<1>5. IsList(a \o b)
  BY <1>3, Zenon DEF IsList
<1> QED
  BY <1>3, <1>5

Carries(t, a, b) == Then(t, a) \o b = Then(t, a \o b)
Regroups(a, b, c) == (a \o b) \o c = a \o (b \o c)

(* A task before two lists joined. *)
LEMMA ThenJoined ==
  ASSUME NEW t, NEW a, IsList(a), NEW b, IsList(b)
  PROVE  Carries(t, a, b)
<1>1. PICK S0 : a \in Seq(S0) /\ b \in Seq(S0)
  BY Lists
<1> DEFINE S == S0 \cup {t}
<1>2. a \in Seq(S) /\ b \in Seq(S) /\ t \in S
  BY <1>1
<1> HIDE DEF S
<1>3. (<< t >> \o a) \o b = << t >> \o (a \o b)
  BY <1>2
<1> QED
  BY <1>3 DEF Then, Carries

(* A list of one. *)
LEMMA Single ==
  ASSUME NEW t
  PROVE  << t >> = Then(t, << >>) /\ IsList(<< t >>)
<1>1. << t >> = << t >> \o << >>
  OBVIOUS
<1>2. << t >> = Then(t, << >>)
  BY <1>1 DEF Then
<1> QED BY <1>2, NoneLeft, ThenFacts

(* A list of two and of three. *)
LEMMA Pair ==
  ASSUME NEW a, NEW b
  PROVE  << a, b >> = Then(a, << b >>)
<1> DEFINE S == {a, b}
           p == << a >> \o << b >>
           q == << a, b >>
<1>1. << a >> \in Seq(S) /\ << b >> \in Seq(S) /\ q \in Seq(S) /\ Len(q) = 2 /\ q[1] = a /\ q[2] = b
  OBVIOUS
<1>2. p \in Seq(S) /\ Len(p) = 2 /\ p[1] = a /\ p[2] = b
  BY <1>1
<1> HIDE DEF p, q
<1>3. p = q
  <2>1. \A i \in 1..Len(p) : i = 1 \/ i = 2
    BY <1>2
  <2> QED BY <1>1, <1>2, <2>1, SeqEqual
<1> QED BY <1>3, Zenon DEF Then, p, q

(* A list of three. *)
LEMMA Triple ==
  ASSUME NEW a, NEW b, NEW c
  PROVE  << a, b, c >> = Then(a, << b, c >>)
<1> DEFINE S == {a, b, c}
           p == << a >> \o << b, c >>
           q == << a, b, c >>
<1>1. << a >> \in Seq(S) /\ << b, c >> \in Seq(S) /\ q \in Seq(S) /\ Len(q) = 3
      /\ q[1] = a /\ q[2] = b /\ q[3] = c
  OBVIOUS
<1>2. p \in Seq(S) /\ Len(p) = 3 /\ p[1] = a /\ p[2] = b /\ p[3] = c
  BY <1>1
<1> HIDE DEF p, q
<1>3. p = q
  <2>1. \A i \in 1..Len(p) : i = 1 \/ i = 2 \/ i = 3
    BY <1>2
  <2> QED BY <1>1, <1>2, <2>1, SeqEqual
<1> QED BY <1>3, Zenon DEF Then, p, q

(* Joining is associative. *)
LEMMA Rejoined ==
  ASSUME NEW a, IsList(a), NEW b, IsList(b), NEW c, IsList(c)
  PROVE  Regroups(a, b, c)
<1>1. PICK A : a \in Seq(A)
  BY DEF IsList
<1>2. PICK B : b \in Seq(B)
  BY DEF IsList
<1>3. PICK C : c \in Seq(C)
  BY DEF IsList
<1> DEFINE S == A \cup B \cup C
<1>4. a \in Seq(S) /\ b \in Seq(S) /\ c \in Seq(S)
  BY <1>1, <1>2, <1>3
<1> HIDE DEF S
<1>5. (a \o b) \o c = a \o (b \o c)
  BY <1>4
<1> QED BY <1>5 DEF Regroups

-----------------------------------------------------------------------------
(* Plans. *)
LevelTask(x) == Task("level", Source[x].level, 0)
DirTask(x) == Task("dir", x, 0)
RefuseTask == Task("refuse", None, 0)

(* The directory of x is the last that was asked for, and with that the    *)
(* index data of x are at hand.                                            *)
AtFront(tc, x) == IsTiled(x) => tc # << >> /\ tc[1].dir = DirOf(x)
Ready(tc, x) == IndexReads(x) /\ AtFront(tc, x)

(* The index of the level of x can be read. *)
LevelReads(x) == << "level", Source[x].level >> \notin Broken

(* w is to be done once the index data of x are at hand. *)
Behind(wk, tc, x, w) ==
  \/ wk = w /\ Ready(tc, x)
  \/ IsTiled(x) /\ LevelReads(x) /\ wk = Then(DirTask(x), w)
  \/ IsStored(x) /\ ~IsTiled(x) /\ wk = Then(LevelTask(x), w)
  \/ IsTiled(x) /\ wk = Then(LevelTask(x), Then(DirTask(x), w))

(* What a call does to have the index data of x at hand, before w. *)
LEMMA IndexPlanThen ==
  ASSUME NEW x \in Texture, NEW w, IsList(w), NEW tc
  PROVE  /\ IsList(IndexPlan(x)) /\ IsList(IndexPlan(x) \o w)
         /\ \/ Source[x].route = "none" /\ IndexPlan(x) \o w = Then(RefuseTask, w)
            \/ Source[x].route # "none" /\ Behind(IndexPlan(x) \o w, tc, x, w)
<1>1. IsList(<< >>)
  BY NoneLeft
<1>2. \A t : IsList(<< t >>) /\ << t >> \o w = Then(t, w)
  <2> TAKE t
  <2>2. IsList(<< t >>)
    BY Single
  <2> QED BY <2>2 DEF Then
<1>3. CASE ~IsStored(x) /\ Source[x].route # "none"
  <2>1. IndexPlan(x) = << >>
    BY <1>3 DEF IndexPlan
  <2>2. IndexPlan(x) \o w = w
    BY <1>1, <2>1, Joined
  <2>3. Ready(tc, x)
    BY <1>3 DEF Ready, AtFront, IndexReads, IsTiled
  <2> QED BY <1>1, <1>3, <2>1, <2>2, <2>3 DEF Behind
<1>4. CASE Source[x].route = "none"
  <2>1. IndexPlan(x) = << RefuseTask >>
    BY <1>4 DEF IndexPlan, IsStored, Refusal, RefuseTask
  <2>2. IsList(Then(RefuseTask, w))
    BY ThenFacts
  <2> QED BY <1>2, <1>4, <2>1, <2>2
<1>5. CASE IsStored(x) /\ ~IsTiled(x)
  <2>1. IndexPlan(x) = << LevelTask(x) >> \o << >>
    BY <1>5 DEF IndexPlan, LevelTask
  <2>2. IndexPlan(x) = << LevelTask(x) >>
    BY <1>1, <1>2, <2>1, Joined
  <2>3. IsList(Then(LevelTask(x), w))
    BY ThenFacts
  <2>4. Source[x].route # "none"
    BY <1>5 DEF IsStored
  <2> QED BY <1>2, <1>5, <2>2, <2>3, <2>4 DEF Behind
<1>6. CASE IsTiled(x)
  <2>0. IsStored(x) /\ Source[x].route # "none"
    BY <1>6 DEF IsTiled, IsStored
  <2>1. IndexPlan(x) = Then(LevelTask(x), << DirTask(x) >>)
    BY <1>6, <2>0 DEF IndexPlan, LevelTask, DirTask, Then
  <2>2. IndexPlan(x) \o w = Then(LevelTask(x), << DirTask(x) >> \o w)
    <3>1. IsList(<< DirTask(x) >>)
      BY <1>2, Zenon
    <3>2. Carries(LevelTask(x), << DirTask(x) >>, w)
      BY <3>1, ThenJoined
    <3> QED BY <2>1, <3>2 DEF Carries
  <2>3. IndexPlan(x) \o w = Then(LevelTask(x), Then(DirTask(x), w))
    BY <1>2, <2>2
  <2>4. IsList(IndexPlan(x)) /\ IsList(IndexPlan(x) \o w)
    BY <1>2, <2>1, <2>3, ThenFacts
  <2> QED BY <1>6, <2>0, <2>3, <2>4 DEF Behind
<1> QED
  BY <1>3, <1>4, <1>5, <1>6 DEF IsTiled

(* What follows "fits", and what follows "inRange". *)
Drawing0(x, s) ==
  CASE Source[x].route = "constant" -> Then(Task("fill", x, 0), s)
    [] Source[x].route = "none" -> Then(RefuseTask, s)
    [] Source[x].route = "stored" ->
         IndexPlan(x) \o Then(Task(IF IsTiled(x) THEN "tiles" ELSE "block", x, 0), s)
    [] Source[x].route = "reduced" ->
         Then(Task("packed", Source[x].from, 0), Then(Task("reduce", x, 0), s))

(* What a call does to draw a face, before s. *)
LEMMA DataPlanThen ==
  ASSUME NEW x \in Texture, NEW s, IsList(s)
  PROVE  /\ IsList(DataPlan(x)) /\ IsList(Drawing0(x, s))
         /\ DataPlan(x) \o s = Then(Task("fits", x, 0), Drawing0(x, s))
<1> DEFINE body ==
       CASE Source[x].route = "constant" -> << Task("fill", x, 0) >>
         [] Source[x].route = "none" -> Refusal
         [] IsStored(x) ->
              IndexPlan(x) \o << Task(IF IsTiled(x) THEN "tiles" ELSE "block", x, 0) >>
         [] Source[x].route = "reduced" ->
              << Task("packed", Source[x].from, 0), Task("reduce", x, 0) >>
           fits == Task("fits", x, 0)
<1>1. DataPlan(x) = Then(fits, body)
  BY DEF DataPlan, Then
<1>2. IsList(<< >>) /\ IsList(IndexPlan(x))
  BY NoneLeft, IndexPlanThen
<1>3. \A t : IsList(<< t >>) /\ << t >> \o s = Then(t, s)
  <2> TAKE t
  <2>2. IsList(<< t >>)
    BY Single
  <2> QED BY <2>2 DEF Then
<1> HIDE DEF fits
<1>4. IsList(body) /\ IsList(Drawing0(x, s)) /\ body \o s = Drawing0(x, s)
  <2>1. CASE Source[x].route = "constant"
    <3>1. body = << Task("fill", x, 0) >> /\ Drawing0(x, s) = Then(Task("fill", x, 0), s)
      BY <2>1 DEF IsStored, Drawing0
    <3> HIDE DEF body
    <3> QED BY <1>3, <3>1, ThenFacts
  <2>2. CASE Source[x].route = "none"
    <3>1. body = << RefuseTask >> /\ Drawing0(x, s) = Then(RefuseTask, s)
      BY <2>2 DEF IsStored, Refusal, RefuseTask, Drawing0
    <3> HIDE DEF body
    <3> QED BY <1>3, <3>1, ThenFacts
  <2>3. CASE Source[x].route = "stored"
    <3> DEFINE t == Task(IF IsTiled(x) THEN "tiles" ELSE "block", x, 0)
    <3>1. body = IndexPlan(x) \o << t >> /\ Drawing0(x, s) = IndexPlan(x) \o Then(t, s)
      BY <2>3 DEF IsStored, Drawing0
    <3> HIDE DEF body, t
    <3>2. IsList(body) /\ body \o s = IndexPlan(x) \o (<< t >> \o s)
      <4>1. IsList(<< t >>)
        BY <1>3
      <4>2. IsList(IndexPlan(x) \o << t >>)
        BY <1>2, <4>1, Joined
      <4>3. (IndexPlan(x) \o << t >>) \o s = IndexPlan(x) \o (<< t >> \o s)
        BY <1>2, <4>1, Rejoined DEF Regroups
      <4> QED BY <3>1, <4>2, <4>3
    <3>3. IsList(Then(t, s)) /\ << t >> \o s = Then(t, s)
      BY <1>3, ThenFacts
    <3>4. IsList(IndexPlan(x) \o Then(t, s))
      BY <1>2, <3>3, Joined
    <3> QED BY <3>1, <3>2, <3>3, <3>4
  <2>4. CASE Source[x].route = "reduced"
    <3> DEFINE a == Task("packed", Source[x].from, 0)
               b == Task("reduce", x, 0)
    <3>1. body = << a, b >> /\ Drawing0(x, s) = Then(a, Then(b, s))
      BY <2>4 DEF IsStored, Drawing0
    <3>2. << a, b >> = Then(a, << b >>)
      BY DEF Then
    <3> HIDE DEF body, a, b
    <3>3. body \o s = Then(a, << b >> \o s)
      <4>1. IsList(<< b >>)
        BY <1>3
      <4>2. Carries(a, << b >>, s)
        BY <4>1, ThenJoined
      <4> QED BY <3>1, <3>2, <4>2 DEF Carries
    <3> QED BY <1>3, <3>1, <3>2, <3>3, ThenFacts
  <2> QED BY <2>1, <2>2, <2>3, <2>4, Textures
<1> HIDE DEF body
<1>5. DataPlan(x) \o s = Then(fits, body \o s)
  <2>1. Carries(fits, body, s)
    BY <1>4, ThenJoined
  <2> QED BY <1>1, <2>1 DEF Carries
<1> QED
  BY <1>1, <1>4, <1>5, ThenFacts DEF fits

(* The rest of a tile call whose tile there is. *)
AfterRange(x, i) ==
  IF IsTiled(x)
  THEN Then(Task("fitsTile", x, 0), IndexPlan(x) \o << Task("tile", x, << i, 0 >>) >>)
  ELSE DataPlan(x)

(* What a call does to draw a tile. *)
LEMMA TilePlanThen ==
  ASSUME NEW x \in Texture, NEW i
  PROVE  /\ IsList(AfterRange(x, i))
         /\ TileIntoPlan(x, i) = IndexPlan(x) \o Then(Task("inRange", x, i), AfterRange(x, i))
<1> DEFINE P == IndexPlan(x)
           r == << Task("inRange", x, i) >>
           f == << Task("fitsTile", x, 0) >>
           t == << Task("tile", x, << i, 0 >>) >>
<1>1. IsList(<< >>) /\ IsList(P)
  BY NoneLeft, IndexPlanThen
<1>2. \A e : IsList(<< e >>) /\ << e >> = Then(e, << >>)
  BY Single
<1>3. IsList(r) /\ IsList(f) /\ IsList(t)
  BY <1>2
<1>4. TileIntoPlan(x, i) = (P \o r) \o (IF IsTiled(x) THEN (f \o P) \o t ELSE DataPlan(x))
  BY DEF TileIntoPlan
<1>5. AfterRange(x, i) = IF IsTiled(x) THEN f \o (P \o t) ELSE DataPlan(x)
  BY DEF AfterRange, Then
<1>6. Then(Task("inRange", x, i), AfterRange(x, i)) = r \o AfterRange(x, i)
  BY DEF Then
<1> HIDE DEF P, r, f, t
<1>7. (f \o P) \o t = f \o (P \o t) /\ IsList(P \o t)
  <2>1. (f \o P) \o t = f \o (P \o t)
    BY <1>1, <1>3, Rejoined DEF Regroups
  <2> QED BY <1>1, <1>3, <2>1, Joined
<1>8. IsList(f \o (P \o t))
  BY <1>3, <1>7, Joined
<1>9. IsList(AfterRange(x, i))
  BY <1>1, <1>5, <1>8, DataPlanThen
<1>10. TileIntoPlan(x, i) = (P \o r) \o AfterRange(x, i)
  BY <1>4, <1>5, <1>7
<1>11. (P \o r) \o AfterRange(x, i) = P \o (r \o AfterRange(x, i))
  <2>1. Regroups(P, r, AfterRange(x, i))
    BY <1>1, <1>3, <1>9, Rejoined
  <2> QED BY <2>1 DEF Regroups
<1> QED
  BY <1>6, <1>9, <1>10, <1>11 DEF P

-----------------------------------------------------------------------------
(* What a call wants of the buffer it brings or allocates. *)
BufferApis == {"get_data_at_res", "get_data_into"} \cup TileApis
Brings(cl) == cl.api \in {"get_data_into", "get_tile_into"}

OriginOf(cl) == IF cl.api \in TileApis THEN Origin(cl.of, TileOf(cl)) ELSE Corner
GivenStride(cl) == IF Brings(cl) THEN cl.stride ELSE U(ExtentOf(cl))
StrideOf(cl) == IF GivenStride(cl) = 0 THEN U(ExtentOf(cl)) ELSE GivenStride(cl)
LenOf(cl) == IF Brings(cl) THEN cl.len ELSE Size(ExtentOf(cl))
GivenFrame(cl) == Frame(GivenStride(cl), LenOf(cl))

Wanted(cl, b) ==
  /\ IsFrame(b) /\ b.len = LenOf(cl)
  /\ \A k \in 0..(b.len - 1) :
       b.data[k] \in {Old, Pic(cl.of, OriginOf(cl), ExtentOf(cl), StrideOf(cl), k)}

(* All buffers are buffers, and the outermost is on its way. *)
Frames(cl, bs) ==
  /\ IsList(bs) /\ \A i \in 1..Len(bs) : IsFrame(bs[i])
  /\ bs # << >> => cl.api \in BufferApis /\ Wanted(cl, bs[Len(bs)])

-----------------------------------------------------------------------------
(* The texel a pixel call asks for is in its face, and read from a block.  *)
Picks(cl) == InFace(cl, cl.of) /\ IsStored(cl.of)

(* A face drawn for a tile or a pixel call is the only tile there is.      *)
OnlyTile(cl) ==
  /\ cl.api = "get_pixel" => Picks(cl)
  /\ cl.api \in TileApis => ~IsTiled(cl.of) /\ InTiling(cl.of, TileOf(cl))

(* Faces: s are the reductions to be made of x, each from a buffer of its  *)
(* own into the next.                                                      *)
Drawable(cl, b, x, outermost) ==
  /\ Sketch(b, x, Corner, ResOf[x])
  /\ b.stride = IF outermost THEN StrideOf(cl) ELSE U(ResOf[x])
  /\ outermost => b.len = LenOf(cl)

Link(cl, s, bs, x, i) ==
  /\ s[i].x \in Texture /\ s[i] = Task("reduce", s[i].x, 0) /\ Source[s[i].x].route = "reduced"
  /\ Source[s[i].x].from = IF i = 1 THEN x ELSE s[i - 1].x
  /\ Drawable(cl, bs[i + 1], s[i].x, i = Len(s))

Face(cl, bs, s, x) ==
  /\ cl.api \in BufferApis /\ OriginOf(cl) = Corner /\ ExtentOf(cl) = ResOf[cl.of]
  /\ OnlyTile(cl)
  /\ x \in Texture /\ (Possible(cl) => Whole[x])
  /\ IsList(s) /\ IsList(bs) /\ Len(bs) = Len(s) + 1
  /\ cl.of = IF Len(s) = 0 THEN x ELSE s[Len(s)].x
  /\ \A i \in 1..Len(s) : Link(cl, s, bs, x, i)

Open(cl, bs, s, x) == Face(cl, bs, s, x) /\ Drawable(cl, bs[1], x, Len(s) = 0)

-----------------------------------------------------------------------------
(* Where a call can be that needs no index data. *)
Starting(cl, wk, bs) ==
  \E x, s :
    /\ Face(cl, bs, s, x)
    /\ wk = Then(Task("fits", x, 0), Drawing0(x, s))
    /\ bs[1] = IF Len(s) = 0 THEN GivenFrame(cl) ELSE PackedFrame(ResOf[x])
Filling(cl, wk, bs) ==
  \E x, s :
    /\ Open(cl, bs, s, x) /\ Source[x].route = "constant"
    /\ wk = Then(Task("fill", x, 0), s)
Packing(cl, wk, bs) ==
  \E x, s :
    /\ Open(cl, bs, s, x) /\ Source[x].route = "reduced"
    /\ wk = Then(Task("packed", Source[x].from, 0), Then(Task("reduce", x, 0), s))
Reducing(cl, wk, bs) ==
  \E x :
    /\ Open(cl, bs, wk, x) /\ wk # << >>
    /\ Finished(bs[1], x, Corner, ResOf[x]) /\ Whole[x]
Done(cl, tc, wk, bs) ==
  /\ wk = << >> /\ cl.api \in BufferApis /\ IsList(bs) /\ Len(bs) = 1
  /\ Possible(cl) /\ (cl.api = "get_pixel" => Picks(cl) /\ AtFront(tc, cl.of))
  /\ Finished(bs[1], cl.of, OriginOf(cl), ExtentOf(cl))
  /\ bs[1].stride = StrideOf(cl) /\ bs[1].len = LenOf(cl)
Doomed(cl, wk) == ~Possible(cl) /\ wk # << >> /\ Head(wk) = RefuseTask
Loading(cl, md, wk, bs) ==
  /\ cl.api = "metadata" /\ bs = << >>
  /\ wk = << Task("metadata", None, 0) >> \/ (wk = << >> /\ md = TRUE)

-----------------------------------------------------------------------------
(* Where it can be once the index data of x are at hand. *)
(* The tiles before i can be read. *)
ReadsTo(x, i) == \A j \in 0..(i - 1) : TileReads(x, j)

Blocking(cl, w, bs, x) ==
  \E s : /\ Open(cl, bs, s, x) /\ IsStored(x) /\ ~IsTiled(x)
         /\ w = Then(Task("block", x, 0), s)
Tiling0(cl, w, bs, x) ==
  \E s, i : /\ Open(cl, bs, s, x) /\ IsTiled(x)
            /\ i \in 0..NTiles(x) /\ Through(bs[1], x, i) /\ ReadsTo(x, i)
            /\ w = Then(Task("tiles", x, i), s)
Tiling1(cl, w, bs, x) ==
  \E s, i : /\ Open(cl, bs, s, x) /\ IsTiled(x)
            /\ InTiling(x, i) /\ Through(bs[1], x, i) /\ ReadsTo(x, i)
            /\ w = Then(Task("tile", x, << i, TileOffset(ResOf[x], DirOf(x).tile_res, i, bs[1].stride) >>),
                        Then(Task("tiles", x, i + 1), s))

InRangeAlloc(cl, w, bs, x) ==
  /\ cl.api = "get_tile" /\ bs = << >>
  /\ w = Then(Task("inRange", x, cl.tile), Then(Task("allocTile", x, 0), TileIntoPlan(x, cl.tile)))
AllocTile(cl, w, bs, x) ==
  /\ cl.api = "get_tile" /\ bs = << >> /\ InTiling(x, cl.tile)
  /\ w = Then(Task("allocTile", x, 0), TileIntoPlan(x, cl.tile))
InRange(cl, w, bs, x) ==
  /\ cl.api \in {"get_tile", "get_tile_into"} /\ bs = << GivenFrame(cl) >>
  /\ w = Then(Task("inRange", x, cl.tile), AfterRange(x, cl.tile))
FitsTile(cl, w, bs, x) ==
  /\ cl.api \in {"get_tile", "get_tile_into"} /\ bs = << GivenFrame(cl) >>
  /\ IsTiled(x) /\ InTiling(x, cl.tile)
  /\ w = Then(Task("fitsTile", x, 0), IndexPlan(x) \o << Task("tile", x, << cl.tile, 0 >>) >>)
OneTile(cl, w, bs, x) ==
  /\ cl.api \in TileApis /\ IsTiled(x) /\ InTiling(x, TileOf(cl))
  /\ cl.api = "get_pixel" => InFace(cl, x)
  /\ Len(bs) = 1 /\ IsList(bs)
  /\ Sketch(bs[1], x, OriginOf(cl), ExtentOf(cl))
  /\ bs[1].stride = StrideOf(cl) /\ bs[1].len = LenOf(cl)
  /\ w = << Task("tile", x, << TileOf(cl), 0 >>) >>

PickTile(cl, w, bs, x) ==
  /\ cl.api = "get_pixel" /\ InFace(cl, x) /\ bs = << >> /\ IsTiled(x)
  /\ w = << Task("texel", x, << cl.u, cl.v >>) >>
AllocFace(cl, w, bs, x) ==
  /\ cl.api = "get_pixel" /\ InFace(cl, x) /\ bs = << >> /\ IsStored(x) /\ ~IsTiled(x)
  /\ w = << Task("alloc", x, 0), Task("block", x, 0) >>
AllocPicked(cl, w, bs, x) ==
  /\ cl.api = "get_pixel" /\ InFace(cl, x) /\ bs = << >> /\ IsTiled(x)
  /\ w = << Task("allocTile", x, 0), Task("tile", x, << TileOf(cl), 0 >>) >>
AtHand(cl, w, bs, x) ==
  /\ bs = << >> /\ w = << >>
  /\ \/ cl.api = "tile_layout"
     \/ cl.api = "tile_info" /\ InTiling(x, cl.tile)
     \/ cl.api = "get_pixel" /\ InFace(cl, x) /\ Source[x].route = "constant"
InfoRange(cl, w, bs, x) ==
  /\ cl.api = "tile_info" /\ bs = << >>
  /\ w = Then(Task("inRange", x, cl.tile), IndexPlan(x))

Drawn0(cl, w, bs, x) == Blocking(cl, w, bs, x) \/ Tiling0(cl, w, bs, x) \/ Tiling1(cl, w, bs, x)
OfTile(cl, w, bs, x) ==
  \/ InRangeAlloc(cl, w, bs, x) \/ AllocTile(cl, w, bs, x) \/ InRange(cl, w, bs, x)
  \/ FitsTile(cl, w, bs, x) \/ OneTile(cl, w, bs, x)
  \/ PickTile(cl, w, bs, x) \/ AllocFace(cl, w, bs, x) \/ AllocPicked(cl, w, bs, x)
  \/ AtHand(cl, w, bs, x) \/ InfoRange(cl, w, bs, x)
Later(cl, w, bs, x) == Drawn0(cl, w, bs, x) \/ (cl.of = x /\ OfTile(cl, w, bs, x))

Now(cl, md, tc, wk, bs) ==
  \/ Starting(cl, wk, bs) \/ Filling(cl, wk, bs) \/ Packing(cl, wk, bs) \/ Reducing(cl, wk, bs)
  \/ Done(cl, tc, wk, bs) \/ Doomed(cl, wk) \/ Loading(cl, md, wk, bs)

Awaiting(cl, tc, wk, bs) ==
  \E x, w : /\ x \in Texture /\ Source[x].route # "none" /\ IsList(w)
            /\ Behind(wk, tc, x, w) /\ Later(cl, w, bs, x)

Busy(cl, md, tc, wk, bs) ==
  /\ cl \in Request /\ IsList(wk) /\ Frames(cl, bs)
  /\ Now(cl, md, tc, wk, bs) \/ Awaiting(cl, tc, wk, bs)

Idle(cl, wk, bs) == cl = None /\ wk = << >> /\ bs = << >>

(* What can be read of a texture that can be drawn. *)
LEMMA WholeReads ==
  ASSUME NEW x \in Texture
  PROVE  /\ Source[x].route # "reduced" => (Whole[x] <=> FaceReads(x))
         /\ Source[x].route = "reduced" => (Whole[x] <=> Whole[Source[x].from])
         /\ Whole[x] => IndexReads(x)
<1>1. Whole[x] = IF Source[x].route = "reduced" THEN Whole[Source[x].from] ELSE FaceReads(x)
  BY WholeIs DEF WholeOf
<1>2. Source[x].route # "reduced" => (Whole[x] <=> FaceReads(x))
  BY <1>1
<1>3. Source[x].route = "reduced" => (Whole[x] <=> Whole[Source[x].from])
  BY <1>1
<1>4. ASSUME Source[x].route = "reduced" PROVE IndexReads(x)
  BY <1>4 DEF IndexReads, IsStored, IsTiled
<1>5. ASSUME FaceReads(x) PROVE IndexReads(x)
  BY <1>5 DEF FaceReads
<1> QED BY <1>2, <1>3, <1>4, <1>5

(* A call that is to be answered needs an index that can be read. *)
LEMMA NeededIndex ==
  ASSUME NEW cl, NEW x \in Texture, NEW w, NEW bs, Later(cl, w, bs, x), Possible(cl)
  PROVE  IndexReads(x)
<1>1. CASE Drawn0(cl, w, bs, x)
  <2>1. \E s : Face(cl, bs, s, x)
    BY <1>1 DEF Drawn0, Blocking, Tiling0, Tiling1, Open
  <2>2. Whole[x]
    BY <2>1 DEF Face
  <2> QED BY <2>2, WholeReads
<1>2. CASE cl.of = x /\ OfTile(cl, w, bs, x)
  <2>1. cl.api \in {"get_tile", "get_tile_into", "get_pixel", "tile_layout", "tile_info"}
    BY <1>2 DEF OfTile, InRangeAlloc, AllocTile, InRange, FitsTile, OneTile, PickTile, AllocFace,
                AllocPicked, AtHand, InfoRange, TileApis
  <2>2. CASE cl.api = "tile_layout"
    BY <1>2, <2>2 DEF Possible, TileApis
  <2>3. CASE cl.api = "tile_info"
    BY <1>2, <2>3 DEF Possible, TileApis
  <2>4. CASE cl.api \in TileApis
    <3>1. IF IsTiled(cl.of) THEN IndexReads(cl.of) /\ TileReads(cl.of, TileOf(cl)) ELSE Whole[cl.of]
      BY <2>4 DEF Possible, TileApis
    <3> QED BY <1>2, <3>1, WholeReads
  <2> QED BY <2>1, <2>2, <2>3, <2>4 DEF TileApis
<1> QED BY <1>1, <1>2 DEF Later

(* A buffer that can be drawn fits. *)
LEMMA SketchFits ==
  ASSUME NEW cl, Brings(cl), NEW b, NEW x, NEW o, Sketch(b, x, o, ExtentOf(cl)),
         b.stride = StrideOf(cl), b.len = LenOf(cl)
  PROVE  Fitting(cl)
<1>1. Stride(cl, ExtentOf(cl)) = b.stride /\ b.len = cl.len
  BY DEF StrideOf, GivenStride, Stride, LenOf
<1>2. b.stride >= U(ExtentOf(cl)) /\ b.len >= Needed(ExtentOf(cl), b.stride)
  BY DEF Sketch
<1> QED BY <1>1, <1>2 DEF Fitting

(* A face that is drawn is what a call asked for. *)
LEMMA FacePossible ==
  ASSUME NEW cl, cl.api \in BufferApis, OnlyTile(cl), Whole[cl.of], Brings(cl) => Fitting(cl)
  PROVE  Possible(cl)
<1>1. CASE cl.api \in {"get_data_at_res", "get_data_into"}
  BY <1>1 DEF Possible, Brings, TileApis
<1>2. CASE cl.api \in TileApis
  <2>1. ~IsTiled(cl.of) /\ InTiling(cl.of, TileOf(cl)) /\ (cl.api = "get_pixel" => InFace(cl, cl.of))
    BY <1>2 DEF OnlyTile, Picks
  <2>2. cl.api # "get_pixel" => TileOf(cl) = cl.tile
    BY DEF TileOf
  <2> QED BY <1>2, <2>1, <2>2 DEF Possible, TileApis, Brings
<1> QED BY <1>1, <1>2 DEF BufferApis

(* An outermost buffer that can be drawn is as the call wants it. *)
LEMMA DrawableWanted ==
  ASSUME NEW cl, NEW b, NEW x, Drawable(cl, b, x, TRUE),
         cl.of = x, OriginOf(cl) = Corner, ExtentOf(cl) = ResOf[cl.of]
  PROVE  Wanted(cl, b)
<1>1. Sketch(b, x, Corner, ResOf[x]) /\ b.stride = StrideOf(cl) /\ b.len = LenOf(cl)
  BY DEF Drawable
<1>2. \A k \in 0..(b.len - 1) : b.data[k] \in {Old, Pic(x, Corner, ResOf[x], b.stride, k)}
  BY <1>1 DEF Sketch
<1>3. IsFrame(b)
  BY <1>1 DEF Sketch
<1> QED
  BY <1>1, <1>2, <1>3 DEF Wanted

(* The buffers of a face whose own is a buffer. *)
LEMMA FaceFrames ==
  ASSUME NEW cl, NEW bs, NEW s, NEW x, Face(cl, bs, s, x), IsFrame(bs[1]),
         Len(s) = 0 => Wanted(cl, bs[1])
  PROVE  Frames(cl, bs)
<1>1. IsList(s) /\ Len(s) \in Nat
  <2>1. IsList(s)
    BY DEF Face
  <2> QED BY <2>1, ThenFacts
<1>2. IsList(bs) /\ Len(bs) = Len(s) + 1 /\ cl.api \in BufferApis
  BY DEF Face
<1>3. ASSUME NEW j \in 1..Len(s)
      PROVE  IsFrame(bs[j + 1]) /\ Drawable(cl, bs[j + 1], s[j].x, j = Len(s))
  <2>1. Link(cl, s, bs, x, j)
    BY DEF Face
  <2> QED BY <2>1 DEF Link, Drawable, Sketch
<1>4. ASSUME NEW i \in 1..Len(bs) PROVE IsFrame(bs[i])
  <2>1. CASE i = 1
    BY <2>1
  <2>2. CASE i # 1
    <3>1. i - 1 \in 1..Len(s) /\ (i - 1) + 1 = i
      BY <1>1, <1>2, <2>2
    <3>2. IsFrame(bs[(i - 1) + 1])
      BY <1>3, <3>1
    <3> QED BY <3>1, <3>2
  <2> QED BY <2>1, <2>2
<1>5. Wanted(cl, bs[Len(bs)])
  <2>1. CASE Len(s) = 0
    BY <1>2, <2>1
  <2>2. CASE Len(s) # 0
    <3>1. Len(s) \in 1..Len(s)
      BY <1>1, <2>2
    <3>2. Drawable(cl, bs[Len(s) + 1], s[Len(s)].x, TRUE)
      BY <1>3, <3>1
    <3>3. cl.of = s[Len(s)].x /\ OriginOf(cl) = Corner /\ ExtentOf(cl) = ResOf[cl.of]
      BY <2>2 DEF Face
    <3> QED BY <1>2, <3>2, <3>3, DrawableWanted
  <2> QED BY <2>1, <2>2
<1> QED
  BY <1>2, <1>4, <1>5 DEF Frames

(* The buffers of a face that is being drawn. *)
LEMMA OpenFrames ==
  ASSUME NEW cl, NEW bs, NEW s, NEW x, Open(cl, bs, s, x)
  PROVE  Frames(cl, bs) /\ IsFrame(bs[1])
<1>1. Face(cl, bs, s, x) /\ Drawable(cl, bs[1], x, Len(s) = 0)
  BY DEF Open
<1>2. IsFrame(bs[1])
  BY <1>1 DEF Drawable, Sketch
<1>3. Len(s) = 0 => Wanted(cl, bs[1])
  <2> SUFFICES ASSUME Len(s) = 0 PROVE Wanted(cl, bs[1])
    OBVIOUS
  <2>1. Drawable(cl, bs[1], x, TRUE)
    BY <1>1
  <2>2. cl.of = x /\ OriginOf(cl) = Corner /\ ExtentOf(cl) = ResOf[cl.of]
    BY <1>1 DEF Face
  <2> QED BY <2>1, <2>2, DrawableWanted
<1> QED
  BY <1>1, <1>2, <1>3, FaceFrames

(* Only the first buffer changes. *)
LEMMA FaceOther ==
  ASSUME NEW cl, NEW bs, NEW s, NEW x, Face(cl, bs, s, x), NEW c, NEW cs, cs = Then(c, Tail(bs))
  PROVE  Face(cl, cs, s, x) /\ cs[1] = c /\ bs # << >> /\ Head(bs) = bs[1]
<1>1. IsList(s) /\ IsList(bs) /\ Len(bs) = Len(s) + 1
  BY DEF Face
<1>2. Len(s) \in Nat
  BY <1>1, ThenFacts
<1>3. PICK S : bs \in Seq(S)
  BY <1>1 DEF IsList
<1>4. bs # << >> /\ Tail(bs) \in Seq(S) /\ Len(Tail(bs)) = Len(s) /\ Head(bs) = bs[1]
      /\ \A i \in 1..Len(s) : Tail(bs)[i] = bs[i + 1]
  BY <1>1, <1>2, <1>3
<1>5. IsList(Tail(bs))
  BY <1>4, Zenon DEF IsList
<1>6. IsList(cs) /\ Len(cs) = Len(s) + 1 /\ cs[1] = c /\ \A i \in 1..Len(s) : cs[i + 1] = bs[i + 1]
  <2> DEFINE t == Tail(bs)
  <2>1. IsList(t) /\ Len(t) = Len(s) /\ \A i \in 1..Len(s) : t[i] = bs[i + 1]
    BY <1>4, <1>5
  <2> HIDE DEF t
  <2>2. cs = Then(c, t)
    BY DEF t
  <2>3. IsList(cs) /\ Len(cs) = Len(t) + 1 /\ cs[1] = c /\ \A i \in 1..Len(t) : cs[i + 1] = t[i]
    BY <2>1, <2>2, ThenFacts
  <2> QED BY <2>1, <2>3
<1>7. ASSUME NEW i \in 1..Len(s) PROVE Link(cl, s, cs, x, i)
  <2>1. Link(cl, s, bs, x, i)
    BY DEF Face
  <2> QED BY <1>6, <2>1 DEF Link
<1> QED
  BY <1>1, <1>4, <1>6, <1>7 DEF Face

(* A face is drawn: the call is done, or a reduction is to be made of it. *)
LEMMA FaceDone ==
  ASSUME NEW cl \in Request, NEW bs, NEW s, NEW x, Open(cl, bs, s, x),
         Finished(bs[1], x, Corner, ResOf[x]), Whole[x], NEW md, NEW tc
  PROVE  Busy(cl, md, tc, s, bs)
<1>1. IsList(s) /\ Frames(cl, bs)
  BY OpenFrames DEF Open, Face
<1>2. CASE s = << >>
  <2>1. Len(s) = 0
    BY <1>2
  <2>2. /\ cl.api \in BufferApis /\ Len(bs) = 1 /\ cl.of = x /\ OriginOf(cl) = Corner
        /\ ExtentOf(cl) = ResOf[cl.of] /\ Drawable(cl, bs[1], x, TRUE)
    <3>1. Face(cl, bs, s, x) /\ Drawable(cl, bs[1], x, Len(s) = 0)
      BY DEF Open
    <3>2. Drawable(cl, bs[1], x, TRUE)
      BY <2>1, <3>1
    <3>3. /\ cl.api \in BufferApis /\ Len(bs) = Len(s) + 1 /\ cl.of = x /\ OriginOf(cl) = Corner
          /\ ExtentOf(cl) = ResOf[cl.of]
      BY <2>1, <3>1 DEF Face
    <3>4. Len(bs) = 1
      BY ONLY <2>1, <3>3
    <3> QED BY <3>2, <3>3, <3>4, Zenon
  <2>3. bs[1].stride = StrideOf(cl) /\ bs[1].len = LenOf(cl)
    BY <2>2 DEF Drawable
  <2>5. IsList(bs) /\ OnlyTile(cl)
    BY DEF Open, Face
  <2>6. cl.api = "get_pixel" => Picks(cl) /\ AtFront(tc, cl.of)
    BY <2>5 DEF OnlyTile, AtFront, TileApis
  <2>7. Possible(cl)
    <3>1. Sketch(bs[1], x, Corner, ExtentOf(cl))
      BY <2>2 DEF Drawable
    <3>2. Brings(cl) => Fitting(cl)
      BY <2>3, <3>1, SketchFits
    <3> QED BY <2>2, <2>5, <3>2, FacePossible
  <2>4. Done(cl, tc, s, bs)
    BY <1>2, <2>2, <2>3, <2>5, <2>6, <2>7 DEF Done
  <2> QED BY <1>1, <2>4 DEF Busy, Now
<1>3. CASE s # << >>
  <2>1. Reducing(cl, s, bs)
    BY <1>3, Zenon DEF Reducing
  <2> QED BY <1>1, <2>1 DEF Busy, Now
<1> QED
  BY <1>2, <1>3

(* The index data of x are still to be fetched, or are at hand. *)
LEMMA Fetching ==
  ASSUME NEW cl \in Request, NEW bs, Frames(cl, bs), NEW x \in Texture, NEW w, IsList(w),
         Later(cl, w, bs, x), NEW md, NEW tc
  PROVE  /\ Busy(cl, md, tc, IndexPlan(x) \o w, bs)
         /\ Ready(tc, x) /\ Source[x].route # "none" => Busy(cl, md, tc, w, bs)
         /\ IsTiled(x) /\ LevelReads(x) => Busy(cl, md, tc, Then(DirTask(x), w), bs)
<1>1. IsList(IndexPlan(x) \o w)
  BY IndexPlanThen
<1>2. ASSUME IndexPlan(x) \o w = Then(RefuseTask, w), Source[x].route = "none"
      PROVE  Busy(cl, md, tc, IndexPlan(x) \o w, bs)
  <2> DEFINE p == IndexPlan(x) \o w
  <2>1. Doomed(cl, p)
    <3>1. p = Then(RefuseTask, w)
      BY <1>2
    <3>2. ~Possible(cl)
      BY <1>2, NeededIndex DEF IndexReads
    <3> HIDE DEF p
    <3> QED BY <3>1, <3>2, ThenFacts DEF Doomed
  <2>2. Now(cl, md, tc, p, bs)
    BY <2>1 DEF Now
  <2> HIDE DEF p
  <2>3. IsList(p)
    BY <1>1 DEF p
  <2>4. Busy(cl, md, tc, p, bs)
    BY <2>2, <2>3 DEF Busy
  <2> QED BY <2>4 DEF p
<1>3. ASSUME Source[x].route # "none", Behind(IndexPlan(x) \o w, tc, x, w)
      PROVE  Busy(cl, md, tc, IndexPlan(x) \o w, bs)
  <2> DEFINE p == IndexPlan(x) \o w
  <2>1. Awaiting(cl, tc, p, bs)
    BY <1>3 DEF Awaiting
  <2>2. IsList(p)
    BY <1>1
  <2> HIDE DEF p
  <2>3. Busy(cl, md, tc, p, bs)
    BY <2>1, <2>2 DEF Busy
  <2> QED BY <2>3 DEF p
<1>4. ASSUME Ready(tc, x), Source[x].route # "none" PROVE Busy(cl, md, tc, w, bs)
  <2>1. Behind(w, tc, x, w)
    BY <1>4 DEF Behind
  <2>2. Awaiting(cl, tc, w, bs)
    BY <1>4, <2>1 DEF Awaiting
  <2> QED BY <2>2 DEF Busy
<1>5. ASSUME IsTiled(x), LevelReads(x) PROVE Busy(cl, md, tc, Then(DirTask(x), w), bs)
  <2>1. Behind(Then(DirTask(x), w), tc, x, w) /\ IsList(Then(DirTask(x), w))
    BY <1>5, ThenFacts DEF Behind
  <2>2. Awaiting(cl, tc, Then(DirTask(x), w), bs)
    BY <1>5, <2>1 DEF Awaiting, IsTiled, IsStored
  <2> QED BY <2>1, <2>2 DEF Busy
<1> QED
  BY <1>2, <1>3, <1>4, <1>5, IndexPlanThen

(* Where a call is, by the task it is at, once the index data of x are at hand. *)
Here(cl, wk, bs, x, do) ==
  \/ do = "block" /\ Blocking(cl, wk, bs, x)
  \/ do = "tiles" /\ Tiling0(cl, wk, bs, x)
  \/ do = "tile" /\ (Tiling1(cl, wk, bs, x) \/ (cl.of = x /\ OneTile(cl, wk, bs, x)))
  \/ do = "inRange" /\ cl.of = x
       /\ (InRangeAlloc(cl, wk, bs, x) \/ InRange(cl, wk, bs, x) \/ InfoRange(cl, wk, bs, x))
  \/ do = "allocTile" /\ cl.of = x /\ (AllocTile(cl, wk, bs, x) \/ AllocPicked(cl, wk, bs, x))
  \/ do = "fitsTile" /\ cl.of = x /\ FitsTile(cl, wk, bs, x)
  \/ do = "texel" /\ cl.of = x /\ PickTile(cl, wk, bs, x)
  \/ do = "alloc" /\ cl.of = x /\ AllocFace(cl, wk, bs, x)

(* Where it is when they are not, or none are needed. *)
AtDir(cl, wk, bs) ==
  \E x, w : /\ x \in Texture /\ IsList(w) /\ Later(cl, w, bs, x)
            /\ IsTiled(x) /\ LevelReads(x) /\ wk = Then(DirTask(x), w)
AtLevel(cl, wk, bs) ==
  \E x, w : /\ x \in Texture /\ IsList(w) /\ Later(cl, w, bs, x) /\ IsStored(x)
            /\ wk = Then(LevelTask(x), IF IsTiled(x) THEN Then(DirTask(x), w) ELSE w)

Stage(cl, md, tc, wk, bs) ==
  LET do == Head(wk).do
  IN  \/ do = "fits" /\ Starting(cl, wk, bs)
      \/ do = "fill" /\ Filling(cl, wk, bs)
      \/ do = "packed" /\ Packing(cl, wk, bs)
      \/ do = "reduce" /\ Reducing(cl, wk, bs)
      \/ do = "refuse" /\ Doomed(cl, wk)
      \/ do = "metadata" /\ Loading(cl, md, wk, bs)
      \/ do = "dir" /\ AtDir(cl, wk, bs)
      \/ do = "level" /\ AtLevel(cl, wk, bs)
      \/ \E x \in Texture : Ready(tc, x) /\ Source[x].route # "none" /\ Here(cl, wk, bs, x, do)

(* The parts of a task before a list. *)
LEMMA TaskDo ==
  ASSUME NEW do, NEW x, NEW n, NEW s, IsList(s)
  PROVE  /\ Then(Task(do, x, n), s) # << >>
         /\ Head(Then(Task(do, x, n), s)).do = do
         /\ Head(Then(Task(do, x, n), s)).x = x
         /\ Head(Then(Task(do, x, n), s)).n = n
         /\ Tail(Then(Task(do, x, n), s)) = s
<1>1. Then(Task(do, x, n), s) # << >> /\ Head(Then(Task(do, x, n), s)) = Task(do, x, n)
      /\ Tail(Then(Task(do, x, n), s)) = s
  BY ThenFacts
<1> QED BY <1>1 DEF Task

(* The parts of a task that is the last. *)
LEMMA OneTask ==
  ASSUME NEW do, NEW x, NEW n
  PROVE  /\ << Task(do, x, n) >> # << >> /\ Head(<< Task(do, x, n) >>).do = do
         /\ Head(<< Task(do, x, n) >>).x = x /\ Head(<< Task(do, x, n) >>).n = n
         /\ Tail(<< Task(do, x, n) >>) = << >>
<1>1. << Task(do, x, n) >> = Then(Task(do, x, n), << >>) /\ IsList(<< >>)
  BY Single, NoneLeft
<1> QED BY <1>1, TaskDo

(* A face has one buffer more than reductions. *)
LEMMA FaceList ==
  ASSUME NEW cl, NEW bs, NEW s, NEW x, Face(cl, bs, s, x)
  PROVE  IsList(s) /\ IsList(bs) /\ x \in Texture /\ Len(s) \in Nat /\ Len(bs) = Len(s) + 1
<1>1. IsList(s) /\ IsList(bs) /\ x \in Texture /\ Len(bs) = Len(s) + 1
  BY DEF Face
<1> QED BY <1>1, ThenFacts

(* The plan of get_tile_into is a list. *)
LEMMA TileIntoList ==
  ASSUME NEW x \in Texture, NEW i
  PROVE  IsList(TileIntoPlan(x, i))
<1>1. IsList(AfterRange(x, i))
  BY TilePlanThen
<1>2. IsList(Then(Task("inRange", x, i), AfterRange(x, i)))
  BY <1>1, ThenFacts
<1> QED BY <1>2, TilePlanThen, IndexPlanThen

(* The task of a call whose index data are at hand. *)
LEMMA HereDo ==
  ASSUME NEW cl, NEW wk, NEW bs, NEW x \in Texture, Later(cl, wk, bs, x), wk # << >>
  PROVE  Here(cl, wk, bs, x, Head(wk).do)
<1> DEFINE do == Head(wk).do
<1>1. CASE Blocking(cl, wk, bs, x)
  <2>1. PICK s : Open(cl, bs, s, x) /\ wk = Then(Task("block", x, 0), s)
    BY <1>1 DEF Blocking
  <2>2. IsList(s)
    BY <2>1, FaceList DEF Open
  <2>3. do = "block"
    BY <2>1, <2>2, TaskDo
  <2> QED BY <1>1, <2>3 DEF Here
<1>2. CASE Tiling0(cl, wk, bs, x)
  <2>1. PICK s, i : Open(cl, bs, s, x) /\ wk = Then(Task("tiles", x, i), s)
    BY <1>2 DEF Tiling0
  <2>2. IsList(s)
    BY <2>1, FaceList DEF Open
  <2>3. do = "tiles"
    BY <2>1, <2>2, TaskDo
  <2> QED BY <1>2, <2>3 DEF Here
<1>3. CASE Tiling1(cl, wk, bs, x)
  <2>1. PICK s, i, n : Open(cl, bs, s, x) /\ wk = Then(Task("tile", x, n), Then(Task("tiles", x, i + 1), s))
    BY <1>3 DEF Tiling1
  <2>2. IsList(s)
    BY <2>1, FaceList DEF Open
  <2>3. IsList(Then(Task("tiles", x, i + 1), s))
    BY <2>2, ThenFacts
  <2>4. do = "tile"
    BY <2>1, <2>3, TaskDo
  <2> QED BY <1>3, <2>4 DEF Here
<1>4. CASE cl.of = x /\ InRangeAlloc(cl, wk, bs, x)
  <2>1. IsList(Then(Task("allocTile", x, 0), TileIntoPlan(x, cl.tile)))
    BY TileIntoList, ThenFacts
  <2>2. do = "inRange"
    BY <1>4, <2>1, TaskDo DEF InRangeAlloc
  <2> QED BY <1>4, <2>2 DEF Here
<1>5. CASE cl.of = x /\ AllocTile(cl, wk, bs, x)
  <2>1. do = "allocTile"
    BY <1>5, TileIntoList, TaskDo DEF AllocTile
  <2> QED BY <1>5, <2>1 DEF Here
<1>6. CASE cl.of = x /\ InRange(cl, wk, bs, x)
  <2>1. do = "inRange"
    BY <1>6, TilePlanThen, TaskDo DEF InRange
  <2> QED BY <1>6, <2>1 DEF Here
<1>7. CASE cl.of = x /\ FitsTile(cl, wk, bs, x)
  <2>1. IsList(<< Task("tile", x, << cl.tile, 0 >>) >>)
    BY Single
  <2>2. IsList(IndexPlan(x) \o << Task("tile", x, << cl.tile, 0 >>) >>)
    BY <2>1, IndexPlanThen
  <2>3. do = "fitsTile"
    BY <1>7, <2>2, TaskDo DEF FitsTile
  <2> QED BY <1>7, <2>3 DEF Here
<1>8. CASE cl.of = x /\ OneTile(cl, wk, bs, x)
  <2>1. do = "tile"
    BY <1>8, OneTask DEF OneTile
  <2> QED BY <1>8, <2>1 DEF Here
<1>9. CASE cl.of = x /\ PickTile(cl, wk, bs, x)
  <2>1. do = "texel"
    BY <1>9, OneTask DEF PickTile
  <2> QED BY <1>9, <2>1 DEF Here
<1>10. CASE cl.of = x /\ AllocFace(cl, wk, bs, x)
  <2>1. wk = Then(Task("alloc", x, 0), << Task("block", x, 0) >>) /\ IsList(<< Task("block", x, 0) >>)
    BY <1>10, Single DEF AllocFace, Then
  <2>2. do = "alloc"
    BY <2>1, TaskDo
  <2> QED BY <1>10, <2>2 DEF Here
<1>11. CASE cl.of = x /\ AllocPicked(cl, wk, bs, x)
  <2> DEFINE t == Task("tile", x, << TileOf(cl), 0 >>)
  <2>1. wk = Then(Task("allocTile", x, 0), << t >>) /\ IsList(<< t >>)
    BY <1>11, Single DEF AllocPicked, Then
  <2> HIDE DEF t
  <2>2. do = "allocTile"
    BY <2>1, TaskDo
  <2> QED BY <1>11, <2>2 DEF Here
<1>12. CASE cl.of = x /\ AtHand(cl, wk, bs, x)
  BY <1>12 DEF AtHand
<1>13. CASE cl.of = x /\ InfoRange(cl, wk, bs, x)
  <2>0. IsList(IndexPlan(x))
    BY NoneLeft, IndexPlanThen
  <2>1. do = "inRange"
    BY <1>13, <2>0, TaskDo DEF InfoRange
  <2> QED BY <1>13, <2>1 DEF Here
<1> QED
  BY <1>1, <1>2, <1>3, <1>4, <1>5, <1>6, <1>7, <1>8, <1>9, <1>10, <1>11, <1>12, <1>13 DEF Later, Drawn0, OfTile

(* A call with something left to do is at the state its task belongs to. *)
LEMMA StageOf ==
  ASSUME NEW cl, NEW md, NEW tc, NEW wk, NEW bs, Busy(cl, md, tc, wk, bs), wk # << >>
  PROVE  Stage(cl, md, tc, wk, bs)
<1> DEFINE do == Head(wk).do
<1>1. CASE Starting(cl, wk, bs)
  <2>1. PICK x, s : Face(cl, bs, s, x) /\ wk = Then(Task("fits", x, 0), Drawing0(x, s))
    BY <1>1 DEF Starting
  <2>2. IsList(Drawing0(x, s))
    BY <2>1, FaceList, DataPlanThen
  <2>3. do = "fits"
    BY <2>1, <2>2, TaskDo
  <2> QED BY <1>1, <2>3 DEF Stage
<1>2. CASE Filling(cl, wk, bs)
  <2>1. PICK x, s : Open(cl, bs, s, x) /\ wk = Then(Task("fill", x, 0), s)
    BY <1>2 DEF Filling
  <2>2. do = "fill"
    BY <2>1, FaceList, TaskDo DEF Open
  <2> QED BY <1>2, <2>2 DEF Stage
<1>3. CASE Packing(cl, wk, bs)
  <2>1. PICK x, s : Open(cl, bs, s, x)
                    /\ wk = Then(Task("packed", Source[x].from, 0), Then(Task("reduce", x, 0), s))
    BY <1>3 DEF Packing
  <2>2. IsList(Then(Task("reduce", x, 0), s))
    BY <2>1, FaceList, ThenFacts DEF Open
  <2>3. do = "packed"
    BY <2>1, <2>2, TaskDo
  <2> QED BY <1>3, <2>3 DEF Stage
<1>4. CASE Reducing(cl, wk, bs)
  <2>1. PICK x : Face(cl, bs, wk, x)
    BY <1>4 DEF Reducing, Open
  <2>2. IsList(wk) /\ Len(wk) \in Nat
    BY <2>1, FaceList
  <2>3. 1 \in 1..Len(wk) /\ Head(wk) = wk[1]
    <3>1. PICK S : wk \in Seq(S)
      BY <2>2 DEF IsList
    <3> QED BY <3>1
  <2>4. Link(cl, wk, bs, x, 1)
    BY <2>1, <2>3 DEF Face
  <2>5. do = "reduce"
    BY <2>3, <2>4 DEF Link, Task
  <2> QED BY <1>4, <2>5 DEF Stage
<1>5. CASE Done(cl, tc, wk, bs)
  BY <1>5 DEF Done
<1>6. CASE Doomed(cl, wk)
  BY <1>6 DEF Doomed, RefuseTask, Task, Stage
<1>7. CASE Loading(cl, md, wk, bs)
  <2>1. do = "metadata"
    BY <1>7, OneTask DEF Loading
  <2> QED BY <1>7, <2>1 DEF Stage
<1>8. CASE Awaiting(cl, tc, wk, bs)
  <2>1. PICK x, w : /\ x \in Texture /\ Source[x].route # "none" /\ IsList(w)
                    /\ Behind(wk, tc, x, w) /\ Later(cl, w, bs, x)
    BY <1>8 DEF Awaiting
  <2>2. CASE wk = w /\ Ready(tc, x)
    <3>1. Here(cl, wk, bs, x, do)
      BY <2>1, <2>2, HereDo
    <3> QED BY <2>1, <2>2, <3>1 DEF Stage
  <2>3. CASE IsTiled(x) /\ LevelReads(x) /\ wk = Then(DirTask(x), w)
    <3>1. do = "dir"
      BY <2>1, <2>3, TaskDo DEF DirTask
    <3>2. AtDir(cl, wk, bs)
      BY <2>1, <2>3 DEF AtDir
    <3> QED BY <3>1, <3>2 DEF Stage
  <2>4. CASE IsStored(x) /\ ~IsTiled(x) /\ wk = Then(LevelTask(x), w)
    <3>1. do = "level"
      BY <2>1, <2>4, TaskDo DEF LevelTask
    <3>2. AtLevel(cl, wk, bs)
      BY <2>1, <2>4 DEF AtLevel
    <3> QED BY <3>1, <3>2 DEF Stage
  <2>5. CASE IsTiled(x) /\ wk = Then(LevelTask(x), Then(DirTask(x), w))
    <3>1. IsList(Then(DirTask(x), w))
      BY <2>1, ThenFacts
    <3>2. do = "level"
      BY <2>5, <3>1, TaskDo DEF LevelTask
    <3>3. AtLevel(cl, wk, bs)
      BY <2>1, <2>5 DEF AtLevel, IsTiled
    <3> QED BY <3>2, <3>3 DEF Stage
  <2> QED BY <2>1, <2>2, <2>3, <2>4, <2>5 DEF Behind
<1> QED
  BY <1>1, <1>2, <1>3, <1>4, <1>5, <1>6, <1>7, <1>8 DEF Busy, Now

(* All that was to be drawn in a buffer is drawn. *)
LEMMA WholeRect ==
  ASSUME NEW b, NEW c, NEW x, NEW o, NEW r \in Resolution, Painted(b, c, x, o, r, r, 0, 0),
         Sketch(b, x, o, r)
  PROVE  Finished(c, x, o, r)
<1> DEFINE s == b.stride
<1>1. Sketch(c, x, o, r) /\ c.stride = s /\ c.len = b.len
  BY DEF Painted
<1>2. ASSUME NEW k \in 0..(c.len - 1)
      PROVE  c.data[k] = Pic(x, o, r, s, k)
  <2>1. k \in 0..(b.len - 1) /\ k \in Nat
    <3>1. b.len \in Nat
      BY DEF Sketch, IsFrame
    <3> QED BY <1>1, <1>2, <3>1
  <2>2. CASE InRect(k, s, r, 0, 0)
    BY <2>1, <2>2 DEF Painted
  <2>3. CASE ~InRect(k, s, r, 0, 0)
    <3>1. s \in Nat \ {0} /\ U(r) \in Nat /\ V(r) \in Nat
      <4>1. U(r) \in Nat \ {0} /\ V(r) \in Nat \ {0}
        BY Sides
      <4> QED BY <4>1 DEF Sketch, IsFrame
    <3>2. Col(k, s) \in Nat /\ Row(k, s) \in Nat
      <4>1. PICK n \in Nat \ {0} : n = s
        BY <3>1
      <4>2. Col(k, n) \in 0..(n - 1) /\ Row(k, n) \in Nat
        BY <2>1, Place
      <4> QED BY <4>1, <4>2
    <3>3. ~(Col(k, s) < U(r) /\ Row(k, s) < V(r))
      BY <2>3, <3>1, <3>2 DEF InRect
    <3>4. Pic(x, o, r, s, k) = Old
      BY <3>3 DEF Pic
    <3>5. c.data[k] \in {Old, Pic(x, o, r, c.stride, k)}
      BY <1>1, <1>2 DEF Sketch
    <3> QED BY <1>1, <3>4, <3>5
  <2> QED BY <2>2, <2>3
<1> QED
  BY <1>1, <1>2 DEF Finished

(* A face drawn in one go: the call is done, or reduces it. *)
LEMMA DrawnFace ==
  ASSUME NEW cl \in Request, NEW bs, NEW s, NEW x, Open(cl, bs, s, x), Whole[x],
         NEW img, Shows(img, ResOf[x], x, Corner, 0, 0),
         NEW cs, cs = Then(Paint(bs[1], 0, img, ResOf[x]), Tail(bs)), NEW md, NEW tc
  PROVE  Busy(cl, md, tc, s, cs)
<1> DEFINE b == bs[1]
           r == ResOf[x]
           c == Paint(b, 0, img, r)
<1>1. Face(cl, bs, s, x) /\ Drawable(cl, b, x, Len(s) = 0) /\ x \in Texture
  BY FaceList DEF Open
<1>2. r \in Resolution
  BY <1>1, Textures
<1>3. Sketch(b, x, Corner, r)
  BY <1>1 DEF Drawable
<1>4. Painted(b, c, x, Corner, r, r, 0, 0)
  <2>1. 0 = Offset(0, 0, b.stride)
    BY <1>3 DEF Offset, Sketch, IsFrame
  <2>2. 0 + U(r) <= U(r) /\ 0 + V(r) <= V(r)
    <3>1. U(r) \in Nat \ {0} /\ V(r) \in Nat \ {0}
      BY <1>2, Sides
    <3> QED BY <3>1
  <2> HIDE DEF b, r, c
  <2>3. Painted(b, Paint(b, 0, img, r), x, Corner, r, r, 0, 0)
    BY <1>2, <1>3, <2>1, <2>2, Painting DEF r
  <2> QED BY <2>3 DEF c
<1> HIDE DEF c
<1>5. Finished(c, x, Corner, r)
  BY <1>2, <1>3, <1>4, WholeRect
<1>6. Face(cl, cs, s, x) /\ cs[1] = c
  <2>1. cs = Then(c, Tail(bs))
    BY DEF c
  <2> QED BY <1>1, <2>1, FaceOther
<1>7. Drawable(cl, c, x, Len(s) = 0)
  <2>1. c.stride = b.stride /\ c.len = b.len /\ Sketch(c, x, Corner, r)
    BY <1>4 DEF Painted
  <2> QED BY <1>1, <2>1 DEF Drawable
<1>8. Open(cl, cs, s, x)
  BY <1>6, <1>7 DEF Open
<1> QED
  BY <1>5, <1>6, <1>8, FaceDone

(* The faces a reduction chain goes through. *)
LEMMA FacePush ==
  ASSUME NEW cl, NEW bs, NEW s, NEW x, Open(cl, bs, s, x), Source[x].route = "reduced",
         NEW b
  PROVE  Face(cl, Then(b, bs), Then(Task("reduce", x, 0), s), Source[x].from)
<1> DEFINE t == Task("reduce", x, 0)
           cs == Then(b, bs)
           w == Then(t, s)
           y == Source[x].from
<1>1. Face(cl, bs, s, x) /\ Drawable(cl, bs[1], x, Len(s) = 0)
  BY DEF Open
<1>2. IsList(s) /\ IsList(bs) /\ x \in Texture /\ Len(s) \in Nat /\ Len(bs) = Len(s) + 1
  BY <1>1, FaceList
<1> HIDE DEF t, cs, w, y
<1>3. IsList(w) /\ Len(w) = Len(s) + 1 /\ w[1] = t /\ \A i \in 1..Len(s) : w[i + 1] = s[i]
  BY <1>2, ThenFacts DEF w
<1>4. IsList(cs) /\ Len(cs) = Len(bs) + 1 /\ cs[1] = b /\ \A i \in 1..Len(bs) : cs[i + 1] = bs[i]
  BY <1>2, ThenFacts DEF cs
<1>5. y \in Texture /\ t.x = x
  BY <1>2, Textures DEF t, y, Task
<1>6. ASSUME NEW i \in 1..Len(w)
      PROVE  Link(cl, w, cs, y, i)
  <2>1. CASE i = 1
    <3>1. cs[1 + 1] = bs[1]
      BY <1>2, <1>4
    <3>2. (1 = Len(w)) = (Len(s) = 0)
      BY <1>2, <1>3
    <3>3. Drawable(cl, cs[1 + 1], x, 1 = Len(w))
      BY <1>1, <3>1, <3>2
    <3>4. w[1].x \in Texture /\ w[1] = Task("reduce", w[1].x, 0) /\ Source[w[1].x].route = "reduced"
          /\ Source[w[1].x].from = y
      BY <1>2, <1>3, <1>5 DEF t, y
    <3> QED BY <1>3, <1>5, <2>1, <3>3, <3>4 DEF Link
  <2>2. CASE i # 1
    <3>1. PICK j \in 1..Len(s) : i = j + 1
      <4>1. i - 1 \in 1..Len(s) /\ i = (i - 1) + 1
        BY <1>2, <1>3, <2>2
      <4> QED BY <4>1
    <3>2. Link(cl, s, bs, x, j)
      BY <1>1 DEF Face
    <3>3. w[i] = s[j] /\ cs[i + 1] = bs[j + 1] /\ (i = Len(w)) = (j = Len(s))
      BY <1>2, <1>3, <1>4, <3>1
    <3>4. IF j = 1 THEN w[i - 1].x = x ELSE w[i - 1].x = s[j - 1].x
      <4>1. CASE j = 1
        BY <1>3, <1>5, <3>1, <4>1
      <4>2. CASE j # 1
        <5>1. j - 1 \in 1..Len(s) /\ i - 1 = (j - 1) + 1
          BY <1>2, <3>1, <4>2
        <5> QED BY <1>3, <4>2, <5>1
      <4> QED BY <4>1, <4>2
    <3>5. Drawable(cl, cs[i + 1], w[i].x, i = Len(w))
      BY <3>2, <3>3 DEF Link
    <3> QED BY <2>2, <3>2, <3>3, <3>4, <3>5 DEF Link
  <2> QED BY <2>1, <2>2
<1>7. cl.of = w[Len(w)].x /\ Len(w) # 0
  <2>1. CASE Len(s) = 0
    BY <1>1, <1>3, <1>5, <2>1 DEF Face
  <2>2. CASE Len(s) # 0
    <3>1. Len(s) \in 1..Len(s)
      BY <1>2, <2>2
    <3> QED BY <1>1, <1>2, <1>3, <2>2, <3>1 DEF Face
  <2> QED BY <2>1, <2>2
<1>8. Len(cs) = Len(w) + 1
  BY <1>2, <1>3, <1>4
<1>9. cl.api \in BufferApis /\ OriginOf(cl) = Corner /\ ExtentOf(cl) = ResOf[cl.of]
      /\ OnlyTile(cl) /\ (Possible(cl) => Whole[y])
  <2>1. Possible(cl) => Whole[x]
    BY <1>1 DEF Face
  <2>2. Possible(cl) => Whole[y]
    BY <1>2, <2>1, WholeReads DEF y
  <2> QED BY <1>1, <2>2 DEF Face
<1>10. Face(cl, cs, w, y)
  BY <1>3, <1>4, <1>5, <1>6, <1>7, <1>8, <1>9 DEF Face
<1> QED
  BY <1>10 DEF cs, w, y, t

(* A reduction goes into the face below. *)
LEMMA FacePop ==
  ASSUME NEW cl, NEW bs, NEW w, NEW y, Face(cl, bs, w, y), w # << >>
  PROVE  LET x == Head(w).x
         IN  /\ Open(cl, Tail(bs), Tail(w), x) /\ Tail(bs)[1] = bs[2]
             /\ Source[x].route = "reduced" /\ Source[x].from = y /\ (Whole[x] <=> Whole[y])
<1> DEFINE s == Tail(w)
           cs == Tail(bs)
           x == Head(w).x
<1>1. IsList(w) /\ IsList(bs) /\ Len(w) \in Nat /\ Len(bs) = Len(w) + 1
  BY FaceList
<1>2. PICK S : w \in Seq(S) /\ bs \in Seq(S)
  BY <1>1, Lists
<1>3. /\ s \in Seq(S) /\ Len(s) = Len(w) - 1 /\ Head(w) = w[1] /\ Len(w) > 0
      /\ \A i \in 1..Len(s) : s[i] = w[i + 1]
  BY <1>1, <1>2
<1>4. /\ cs \in Seq(S) /\ Len(cs) = Len(bs) - 1 /\ \A i \in 1..Len(cs) : cs[i] = bs[i + 1]
  BY <1>1, <1>2, <1>3
<1>5. IsList(s) /\ IsList(cs)
  BY <1>3, <1>4, Zenon DEF IsList
<1> HIDE DEF s, cs
<1>6. Link(cl, w, bs, y, 1) /\ x = w[1].x
  <2>1. 1 \in 1..Len(w)
    BY <1>1, <1>3
  <2> QED BY <1>3, <2>1 DEF Face
<1> HIDE DEF x
<1>7. x \in Texture /\ Source[x].route = "reduced" /\ Source[x].from = y
      /\ Drawable(cl, bs[2], x, 1 = Len(w))
  <2>1. 1 + 1 = 2
    OBVIOUS
  <2> QED BY <1>6, <2>1 DEF Link
<1>8. cs[1] = bs[2] /\ Len(cs) = Len(s) + 1 /\ (1 = Len(w)) = (Len(s) = 0) /\ Len(s) \in Nat
  BY <1>1, <1>3, <1>4
<1>9. ASSUME NEW i \in 1..Len(s) PROVE Link(cl, s, cs, x, i)
  <2>1. i + 1 \in 1..Len(w) /\ i \in 1..Len(cs) /\ i + 1 \in 1..Len(cs) /\ i + 1 # 1
        /\ (i + 1 = Len(w)) = (i = Len(s)) /\ (i + 1) - 1 = i
    BY <1>1, <1>3, <1>8
  <2>2. Link(cl, w, bs, y, i + 1)
    BY <2>1 DEF Face
  <2>3. s[i] = w[i + 1] /\ cs[i + 1] = bs[(i + 1) + 1]
    BY <1>3, <1>4, <2>1
  <2>4. IF i = 1 THEN w[i].x = x ELSE w[i] = s[i - 1]
    <3>1. CASE i = 1
      BY <1>6, <3>1
    <3>2. CASE i # 1
      <4>1. i - 1 \in 1..Len(s) /\ (i - 1) + 1 = i
        BY <1>8, <3>2
      <4> QED BY <1>3, <3>2, <4>1
    <3> QED BY <3>1, <3>2
  <2>5. Source[s[i].x].from = w[i].x
    BY <2>1, <2>2, <2>3 DEF Link
  <2>6. Drawable(cl, cs[i + 1], s[i].x, i = Len(s))
    BY <2>1, <2>2, <2>3 DEF Link
  <2>7. s[i].x \in Texture /\ s[i] = Task("reduce", s[i].x, 0) /\ Source[s[i].x].route = "reduced"
    BY <2>2, <2>3 DEF Link
  <2> QED BY <2>4, <2>5, <2>6, <2>7 DEF Link
<1>10. cl.of = IF Len(s) = 0 THEN x ELSE s[Len(s)].x
  <2>1. cl.of = w[Len(w)].x
    BY <1>1, <1>3 DEF Face
  <2>2. CASE Len(s) = 0
    BY <1>6, <1>8, <2>1, <2>2
  <2>3. CASE Len(s) # 0
    <3>1. Len(s) \in 1..Len(s) /\ Len(s) + 1 = Len(w)
      BY <1>1, <1>3, <1>8, <2>3
    <3> QED BY <1>3, <2>1, <2>3, <3>1
  <2> QED BY <2>2, <2>3
<1>11. cl.api \in BufferApis /\ OriginOf(cl) = Corner /\ ExtentOf(cl) = ResOf[cl.of]
       /\ OnlyTile(cl) /\ (Possible(cl) => Whole[x]) /\ (Whole[x] <=> Whole[y])
  <2>1. Whole[x] <=> Whole[y]
    BY <1>7, WholeReads
  <2>2. Possible(cl) => Whole[y]
    BY DEF Face
  <2> QED BY <2>1, <2>2 DEF Face
<1>12. Face(cl, cs, s, x)
  BY <1>5, <1>7, <1>8, <1>9, <1>10, <1>11 DEF Face
<1>13. Open(cl, cs, s, x)
  BY <1>7, <1>8, <1>12 DEF Open
<1> QED
  BY <1>7, <1>8, <1>11, <1>13 DEF cs, s, x

(* A fresh buffer. *)
LEMMA FrameIs ==
  ASSUME NEW s \in Nat, NEW n \in Nat
  PROVE  /\ IsFrame(Frame(s, n)) /\ Frame(s, n).stride = s /\ Frame(s, n).len = n
         /\ \A k \in 0..(n - 1) : Frame(s, n).data[k] = Old
BY DEF IsFrame, Frame, Blank

(* check_buffer settles the stride. *)
Settled(b, r) == [b EXCEPT !.stride = IF @ = 0 THEN U(r) ELSE @]

(* A fresh buffer that fits is a sketch of anything. *)
LEMMA Fitted ==
  ASSUME NEW s \in Nat, NEW n \in Nat, NEW r \in Resolution, NEW x, NEW o,
         NEW t, t = IF s = 0 THEN U(r) ELSE s, t >= U(r), n >= Needed(r, t)
  PROVE  LET c == Settled(Frame(s, n), r)
         IN  Sketch(c, x, o, r) /\ c.stride = t /\ c.len = n
<1> DEFINE c == Settled(Frame(s, n), r)
<1>1. U(r) \in Nat
  BY Sides
<1>2. c = Frame(t, n) /\ t \in Nat
  BY <1>1 DEF Settled, Frame
<1> HIDE DEF c
<1>3. IsFrame(c) /\ c.stride = t /\ c.len = n /\ \A k \in 0..(n - 1) : c.data[k] = Old
  BY <1>2, FrameIs
<1> QED BY <1>3 DEF Sketch, c

(* What is known of a call that fills a buffer. *)
LEMMA RequestFacts ==
  ASSUME NEW cl \in Request, cl.api \in BufferApis
  PROVE  /\ cl.of \in Texture /\ ResOf[cl.of] \in Resolution /\ TileRes(cl.of) \in Resolution
         /\ ExtentOf(cl) \in Resolution /\ GivenStride(cl) \in Nat /\ LenOf(cl) \in Nat
         /\ StrideOf(cl) \in Nat
<1>1. cl.of \in Texture /\ (Brings(cl) => cl.stride \in Nat /\ cl.len \in Nat)
  BY RequestAssumption DEF BufferApis, TileApis, Brings
<1>2. ResOf[cl.of] \in Resolution
  BY <1>1, Textures
<1>3. TileRes(cl.of) \in Resolution
  <2>1. CASE IsTiled(cl.of)
    BY <1>1, <2>1, TiledFacts DEF TileRes, DirOf
  <2>2. CASE ~IsTiled(cl.of)
    BY <1>2, <2>2 DEF TileRes
  <2> QED BY <2>1, <2>2
<1>4. ExtentOf(cl) \in Resolution
  BY <1>2, <1>3 DEF ExtentOf
<1>5. U(ExtentOf(cl)) \in Nat /\ Size(ExtentOf(cl)) \in Nat
  BY <1>4, Sides
<1>6. GivenStride(cl) \in Nat /\ LenOf(cl) \in Nat
  BY <1>1, <1>5 DEF GivenStride, LenOf
<1>7. StrideOf(cl) \in Nat
  BY <1>5, <1>6 DEF StrideOf
<1> QED BY <1>1, <1>2, <1>3, <1>4, <1>6, <1>7

(* The buffer a call begins with. *)
LEMMA GivenFrames ==
  ASSUME NEW cl \in Request, cl.api \in BufferApis
  PROVE  /\ Frames(cl, << GivenFrame(cl) >>) /\ IsFrame(GivenFrame(cl))
         /\ IsList(<< GivenFrame(cl) >>) /\ Len(<< GivenFrame(cl) >>) = 1
         /\ << GivenFrame(cl) >>[1] = GivenFrame(cl)
<1> DEFINE g == GivenFrame(cl)
<1>1. IsFrame(g) /\ g.len = LenOf(cl) /\ LenOf(cl) \in Nat /\ \A k \in 0..(LenOf(cl) - 1) : g.data[k] = Old
  BY RequestFacts, FrameIs DEF GivenFrame
<1> HIDE DEF g
<1>2. Wanted(cl, g)
  BY <1>1 DEF Wanted
<1>3. IsList(<< g >>) /\ Len(<< g >>) = 1 /\ << g >>[1] = g /\ << g >> # << >>
  BY Single
<1>4. Frames(cl, << g >>)
  BY <1>1, <1>2, <1>3 DEF Frames
<1> QED BY <1>1, <1>3, <1>4 DEF g

(* No buffer at all. *)
LEMMA NoFrames ==
  ASSUME NEW cl
  PROVE  Frames(cl, << >>)
<1>1. IsList(<< >>) /\ Len(<< >>) = 0
  BY NoneLeft
<1> QED BY <1>1 DEF Frames

(* A call on its way to be refused. *)
LEMMA DoomedBusy ==
  ASSUME NEW cl \in Request, ~Possible(cl), NEW bs, Frames(cl, bs), NEW w, IsList(w), NEW md, NEW tc
  PROVE  Busy(cl, md, tc, Then(RefuseTask, w), bs)
<1> DEFINE p == Then(RefuseTask, w)
<1>1. IsList(p) /\ Doomed(cl, p)
  BY ThenFacts DEF Doomed
<1> HIDE DEF p
<1>2. Now(cl, md, tc, p, bs)
  BY <1>1 DEF Now
<1>3. Busy(cl, md, tc, p, bs)
  BY <1>1, <1>2 DEF Busy
<1> QED BY <1>3 DEF p

(* A whole face is needed. *)
LEMMA WholeNeeded ==
  ASSUME NEW cl, cl.api \in BufferApis, cl.api \in TileApis => ~IsTiled(cl.of), Possible(cl)
  PROVE  Whole[cl.of]
<1>1. CASE cl.api \in {"get_data_at_res", "get_data_into"}
  BY <1>1 DEF Possible, TileApis
<1>2. CASE cl.api \in TileApis
  <2>1. IF IsTiled(cl.of) THEN IndexReads(cl.of) /\ TileReads(cl.of, TileOf(cl)) ELSE Whole[cl.of]
    BY <1>2 DEF Possible, TileApis
  <2> QED BY <1>2, <2>1
<1> QED BY <1>1, <1>2 DEF BufferApis

(* A face about to be drawn from scratch. *)
LEMMA Begin ==
  ASSUME NEW cl \in Request, cl.api \in BufferApis, OnlyTile(cl), OriginOf(cl) = Corner,
         ExtentOf(cl) = ResOf[cl.of], NEW md, NEW tc
  PROVE  Busy(cl, md, tc, DataPlan(cl.of), << GivenFrame(cl) >>)
<1> DEFINE x == cl.of
           s == << >>
           bs == << GivenFrame(cl) >>
           wk == DataPlan(x)
<1>1. x \in Texture /\ IsList(s) /\ Len(s) = 0
  BY RequestFacts, NoneLeft
<1>2. IsList(wk) /\ wk = Then(Task("fits", x, 0), Drawing0(x, s))
  <2>1. IsList(wk) /\ wk \o s = Then(Task("fits", x, 0), Drawing0(x, s))
    BY <1>1, DataPlanThen
  <2>2. wk \o s = wk
    BY <1>1, <2>1, Joined
  <2> QED BY <2>1, <2>2
<1>3. Frames(cl, bs) /\ IsList(bs) /\ Len(bs) = 1 /\ bs[1] = GivenFrame(cl)
  BY GivenFrames
<1> HIDE DEF wk, bs, s
<1>4. Face(cl, bs, s, x)
  <2>1. \A i \in 1..Len(s) : Link(cl, s, bs, x, i)
    BY <1>1
  <2>2. Len(bs) = Len(s) + 1
    BY <1>1, <1>3
  <2>3. Possible(cl) => Whole[x]
    BY WholeNeeded DEF OnlyTile
  <2> QED BY <1>1, <1>3, <2>1, <2>2, <2>3 DEF Face
<1>5. Starting(cl, wk, bs)
  BY <1>1, <1>2, <1>3, <1>4 DEF Starting
<1>6. Busy(cl, md, tc, wk, bs)
  BY <1>2, <1>3, <1>5 DEF Busy, Now
<1> QED BY <1>6 DEF wk, bs

(* A face whose buffer fits. *)
LEMMA OpenBusy ==
  ASSUME NEW cl \in Request, NEW bs, NEW s, NEW x, Open(cl, bs, s, x), NEW md, NEW tc
  PROVE  Busy(cl, md, tc, Drawing0(x, s), bs)
<1>1. IsList(s) /\ x \in Texture /\ Frames(cl, bs) /\ IsFrame(bs[1])
  BY FaceList, OpenFrames DEF Open
<1>2. IsList(Drawing0(x, s))
  BY <1>1, DataPlanThen
<1>3. CASE Source[x].route = "constant"
  <2>1. Drawing0(x, s) = Then(Task("fill", x, 0), s)
    BY <1>3 DEF Drawing0
  <2>2. Filling(cl, Drawing0(x, s), bs)
    BY <1>3, <2>1 DEF Filling
  <2>3. Now(cl, md, tc, Drawing0(x, s), bs)
    BY <2>2 DEF Now
  <2> QED BY <1>1, <1>2, <2>3 DEF Busy
<1>4. CASE Source[x].route = "none"
  <2>1. Drawing0(x, s) = Then(RefuseTask, s)
    BY <1>4 DEF Drawing0
  <2>2. ~Possible(cl)
    <3>1. Possible(cl) => Whole[x]
      BY DEF Open, Face
    <3> QED BY <1>1, <1>4, <3>1, WholeReads DEF IndexReads
  <2> QED BY <1>1, <2>1, <2>2, DoomedBusy
<1>5. CASE Source[x].route = "reduced"
  <2>1. Drawing0(x, s) = Then(Task("packed", Source[x].from, 0), Then(Task("reduce", x, 0), s))
    BY <1>5 DEF Drawing0
  <2>2. Packing(cl, Drawing0(x, s), bs)
    BY <1>5, <2>1 DEF Packing
  <2>3. Now(cl, md, tc, Drawing0(x, s), bs)
    BY <2>2 DEF Now
  <2> QED BY <1>1, <1>2, <2>3 DEF Busy
<1>6. CASE Source[x].route = "stored" /\ IsTiled(x)
  <2> DEFINE w == Then(Task("tiles", x, 0), s)
  <2>1. Drawing0(x, s) = IndexPlan(x) \o w
    BY <1>6 DEF Drawing0
  <2>2. Through(bs[1], x, 0)
    BY <1>1, <1>6, ThroughNone DEF Open, Drawable
  <2>3. 0 \in 0..NTiles(x)
    <3>1. NTiles(x) = NU(x) * NV(x)
      BY <1>6 DEF NTiles, TileRes, NU, NV, DirOf
    <3>2. NU(x) * NV(x) \in Nat
      BY <1>1, <1>6, TiledFacts
    <3> QED BY <3>1, <3>2
  <2>4. Tiling0(cl, w, bs, x)
    BY <1>6, <2>2, <2>3 DEF Tiling0, ReadsTo
  <2>5. IsList(w) /\ Later(cl, w, bs, x)
    BY <1>1, <2>4, ThenFacts DEF Later, Drawn0
  <2> HIDE DEF w
  <2> QED BY <1>1, <2>1, <2>5, Fetching
<1>7. CASE Source[x].route = "stored" /\ ~IsTiled(x)
  <2> DEFINE w == Then(Task("block", x, 0), s)
  <2>1. Drawing0(x, s) = IndexPlan(x) \o w
    BY <1>7 DEF Drawing0
  <2>2. Blocking(cl, w, bs, x)
    BY <1>7 DEF Blocking, IsStored
  <2>3. IsList(w) /\ Later(cl, w, bs, x)
    BY <1>1, <2>2, ThenFacts DEF Later, Drawn0
  <2> HIDE DEF w
  <2> QED BY <1>1, <2>1, <2>3, Fetching
<1> QED
  BY <1>1, <1>3, <1>4, <1>5, <1>6, <1>7, Textures

(* A face whose buffer passed its check. *)
LEMMA FittedFace ==
  ASSUME NEW cl \in Request, NEW bs, NEW s, NEW x, Face(cl, bs, s, x),
         bs[1] = IF Len(s) = 0 THEN GivenFrame(cl) ELSE PackedFrame(ResOf[x]),
         NEW t, t = IF bs[1].stride = 0 THEN U(ResOf[x]) ELSE bs[1].stride,
         t >= U(ResOf[x]), bs[1].len >= Needed(ResOf[x], t),
         NEW cs, cs = Then(Settled(bs[1], ResOf[x]), Tail(bs)), NEW md, NEW tc
  PROVE  Busy(cl, md, tc, Drawing0(x, s), cs)
<1> DEFINE r == ResOf[x]
           c == Settled(bs[1], r)
<1>1. x \in Texture /\ r \in Resolution /\ cl.api \in BufferApis
  BY FaceList, Textures DEF Face
<1>2. U(r) \in Nat \ {0} /\ Size(r) \in Nat
  BY <1>1, Sides
<1>3. GivenStride(cl) \in Nat /\ LenOf(cl) \in Nat
  BY <1>1, RequestFacts
<1> DEFINE m == IF Len(s) = 0 THEN GivenStride(cl) ELSE U(r)
           n == IF Len(s) = 0 THEN LenOf(cl) ELSE Size(r)
<1>4. bs[1] = Frame(m, n) /\ m \in Nat /\ n \in Nat
  BY <1>2, <1>3 DEF GivenFrame, PackedFrame
<1>5. bs[1].stride = m /\ bs[1].len = n
  BY <1>4 DEF Frame
<1>6. c = Settled(Frame(m, n), r)
  BY <1>4
<1> HIDE DEF c, r
<1>7. t >= U(r) /\ n >= Needed(r, t) /\ t = IF m = 0 THEN U(r) ELSE m
  BY <1>5 DEF r
<1> HIDE DEF m, n
<1>8. Sketch(c, x, Corner, r) /\ c.stride = t /\ c.len = n
  BY <1>1, <1>4, <1>6, <1>7, Fitted
<1>9. t = IF Len(s) = 0 THEN StrideOf(cl) ELSE U(r)
  <2>1. CASE Len(s) = 0
    <3>1. cl.of = x /\ ExtentOf(cl) = r
      BY <2>1 DEF Face, r
    <3>2. m = GivenStride(cl)
      BY <2>1 DEF m
    <3> QED BY <1>7, <2>1, <3>1, <3>2 DEF StrideOf
  <2>2. CASE Len(s) # 0
    <3>1. m = U(r)
      BY <2>2 DEF m
    <3> QED BY <1>2, <1>7, <2>2, <3>1
  <2> QED BY <2>1, <2>2
<1>10. Drawable(cl, c, x, Len(s) = 0)
  BY <1>8, <1>9 DEF Drawable, r, n
<1>11. Face(cl, cs, s, x) /\ cs[1] = c
  BY FaceOther DEF c, r
<1>12. Open(cl, cs, s, x)
  BY <1>10, <1>11 DEF Open
<1> QED BY <1>12, OpenBusy

(* The tiling of a texture that is not tiled, and of one that is. *)
LEMMA OneTileOnly ==
  ASSUME NEW x \in Texture, ~IsTiled(x)
  PROVE  /\ TileRes(x) = ResOf[x] /\ NTiles(x) = 1 /\ Origin(x, 0) = Corner
         /\ \A u, v \in Nat : u < U(ResOf[x]) /\ v < V(ResOf[x])
              => TileIndex(ResOf[x], TileRes(x), u, v) = 0
<1> DEFINE r == ResOf[x]
<1>1. TileRes(x) = r /\ r \in Resolution
  BY Textures DEF TileRes
<1>2. r.u - r.u = 0 /\ r.v - r.v = 0 /\ TwoTo[0] = 1
  <2>1. r.u \in 0..31 /\ r.v \in 0..31
    BY <1>1 DEF Resolution
  <2>2. TwoTo[0] = 1
    BY TwoToIs
  <2> QED BY <2>1, <2>2
<1>3. NTilesU(r, r) = 1 /\ NTilesV(r, r) = 1 /\ Across(x) = 1
  BY <1>1, <1>2 DEF NTilesU, NTilesV, Across
<1>4. U(r) \in Nat \ {0} /\ V(r) \in Nat \ {0}
  BY <1>1, Sides
<1>5. Origin(x, 0) = Corner
  <2>1. 0 % 1 = 0 /\ 0 \div 1 = 0
    OBVIOUS
  <2>2. Origin(x, 0) = << 0 * U(r), 0 * V(r) >>
    BY <1>1, <1>3, <2>1 DEF Origin
  <2> QED BY <1>4, <2>2 DEF Corner
<1>6. ASSUME NEW u \in Nat, NEW v \in Nat, u < U(r), v < V(r)
      PROVE  TileIndex(r, TileRes(x), u, v) = 0
  <2>1. u \div U(r) = 0 /\ v \div V(r) = 0
    <3>1. \A n \in Nat, k \in Nat : k < n => k \div n = 0
      <4> TAKE n \in Nat, k \in Nat
      <4> HAVE k < n
      <4>1. k = 0 * n + k /\ k \in 0..(n - 1)
        OBVIOUS
      <4> QED BY <4>1, DivMod
    <3> QED BY <1>4, <1>6, <3>1
  <2>2. TileIndex(r, TileRes(x), u, v) = (v \div V(r)) * 1 + u \div U(r)
    BY <1>1, <1>3 DEF TileIndex
  <2> QED BY <2>1, <2>2
<1> QED BY <1>1, <1>3, <1>5, <1>6 DEF NTiles

(* The tiling of a texture that is tiled. *)
LEMMA ManyTiles ==
  ASSUME NEW x \in Texture, IsTiled(x)
  PROVE  /\ TileRes(x) = DirOf(x).tile_res /\ NTiles(x) = NU(x) * NV(x)
         /\ \A i : Origin(x, i) = << TileX(x, i), TileY(x, i) >>
         /\ \A u, v \in Nat : u < U(ResOf[x]) /\ v < V(ResOf[x])
              => InTiling(x, TileIndex(ResOf[x], TileRes(x), u, v))
<1>1. TileRes(x) = DirOf(x).tile_res
  BY DEF TileRes, DirOf
<1>2. NTiles(x) = NU(x) * NV(x)
  BY <1>1 DEF NTiles, NU, NV
<1>3. ASSUME NEW i PROVE Origin(x, i) = << TileX(x, i), TileY(x, i) >>
  BY <1>1 DEF Origin, TileX, TileY, TW, TH, Col, Row, Across, NU, NTilesU
<1>4. ASSUME NEW u \in Nat, NEW v \in Nat, u < U(ResOf[x]), v < V(ResOf[x])
      PROVE  InTiling(x, TileIndex(ResOf[x], TileRes(x), u, v))
  BY <1>1, <1>2, <1>4, TileOfPlace DEF InTiling
<1> QED BY <1>1, <1>2, <1>3, <1>4

(* A tile drawn in a buffer of its own. *)
LEMMA DrawnTile ==
  ASSUME NEW cl \in Request, NEW x, x = cl.of, NEW bs, OneTile(cl, << Task("tile", x, << TileOf(cl), 0 >>) >>, bs, x),
         NEW cs, cs = Then(Paint(bs[1], 0, TileImage(x, TileOf(cl)), DirOf(x).tile_res), Tail(bs)),
         NEW md, NEW tc, Ready(tc, x), TileReads(x, TileOf(cl))
  PROVE  Busy(cl, md, tc, << >>, cs)
<1> DEFINE i == TileOf(cl)
           r == DirOf(x).tile_res
           b == bs[1]
           c == Paint(b, 0, TileImage(x, i), r)
           o == << TileX(x, i), TileY(x, i) >>
<1>1. /\ cl.api \in TileApis /\ IsTiled(x) /\ InTiling(x, i) /\ Len(bs) = 1 /\ IsList(bs)
      /\ Sketch(b, x, OriginOf(cl), ExtentOf(cl)) /\ b.stride = StrideOf(cl) /\ b.len = LenOf(cl)
  BY DEF OneTile
<1>2. x \in Texture /\ cl.api \in BufferApis
  BY <1>1, RequestFacts DEF BufferApis
<1>3. OriginOf(cl) = o /\ ExtentOf(cl) = r /\ r \in Resolution /\ i \in 0..(NU(x) * NV(x) - 1)
  BY <1>1, <1>2, ManyTiles, TiledFacts DEF OriginOf, ExtentOf, InTiling
<1> HIDE DEF i, r, b, c, o
<1>4. Painted(b, c, x, o, r, r, 0, 0)
  <2>1. 0 = Offset(0, 0, b.stride)
    BY <1>1 DEF Offset, Sketch, IsFrame
  <2>2. 0 + U(r) <= U(r) /\ 0 + V(r) <= V(r)
    <3>1. U(r) \in Nat \ {0} /\ V(r) \in Nat \ {0}
      BY <1>3, Sides
    <3> QED BY <3>1
  <2>3. Shows(TileImage(x, i), r, x, o, 0, 0)
    BY <1>1, <1>2, <1>3, TileShows DEF r, o
  <2>4. Painted(b, Paint(b, 0, TileImage(x, i), r), x, o, r, r, 0, 0)
    BY <1>1, <1>3, <2>1, <2>2, <2>3, Painting
  <2> QED BY <2>4 DEF c
<1>5. Finished(c, x, o, r) /\ c.stride = b.stride /\ c.len = b.len
  <2>1. Sketch(b, x, o, r)
    BY <1>1, <1>3
  <2> QED BY <1>3, <1>4, <2>1, WholeRect DEF Painted
<1>6. cs = << c >>
  <2>1. PICK S : bs \in Seq(S)
    BY <1>1 DEF IsList
  <2>2. Tail(bs) = << >>
    <3>0. Len(bs) = 1
      BY <1>1
    <3>1. Tail(bs) \in Seq(S) /\ Len(Tail(bs)) = 0
      BY ONLY <2>1, <3>0
    <3> QED BY <3>1, EmptySeq
  <2>3. cs = Then(c, << >>)
    BY <2>2 DEF c, b, i, r
  <2> QED BY <2>3, Single
<1>7. IsList(cs) /\ Len(cs) = 1 /\ cs[1] = c
  BY <1>6, Single
<1>8. Done(cl, tc, << >>, cs)
  <2>1. cl.api = "get_pixel" => Picks(cl)
    BY <1>1 DEF OneTile, Picks, IsTiled
  <2>2. Possible(cl)
    <3>1. Brings(cl) => Fitting(cl)
      BY <1>1, SketchFits
    <3>2. IndexReads(cl.of) /\ TileReads(cl.of, TileOf(cl))
      BY DEF Ready
    <3>3. cl.api # "get_pixel" => InTiling(cl.of, cl.tile)
      BY <1>1 DEF TileOf, i
    <3>4. cl.api = "get_pixel" => InFace(cl, cl.of)
      BY DEF OneTile
    <3> QED BY <1>1, <3>1, <3>2, <3>3, <3>4 DEF Possible, TileApis, Brings
  <2>3. AtFront(tc, cl.of)
    BY DEF Ready
  <2> QED BY <1>1, <1>2, <1>3, <1>5, <1>7, <2>1, <2>2, <2>3 DEF Done
<1>9. Frames(cl, cs)
  <2>1. /\ IsFrame(c) /\ c.stride = StrideOf(cl) /\ c.len = LenOf(cl)
        /\ \A k \in 0..(c.len - 1) : c.data[k] = Pic(x, o, r, c.stride, k)
    BY <1>1, <1>5 DEF Finished, Sketch
  <2>2. Wanted(cl, c)
    BY <1>3, <2>1 DEF Wanted
  <2> QED BY <1>2, <1>7, <2>1, <2>2 DEF Frames
<1> QED BY <1>8, <1>9, NoneLeft DEF Busy, Now

(* A tile call whose tile there is. *)
LEMMA RangeBusy ==
  ASSUME NEW cl \in Request, cl.api \in {"get_tile", "get_tile_into"}, InTiling(cl.of, cl.tile),
         NEW tc, Ready(tc, cl.of), Source[cl.of].route # "none", NEW md
  PROVE  Busy(cl, md, tc, AfterRange(cl.of, cl.tile), << GivenFrame(cl) >>)
<1> DEFINE x == cl.of
           bs == << GivenFrame(cl) >>
<1>1. cl.api \in BufferApis /\ cl.api \in TileApis /\ TileOf(cl) = cl.tile
  BY DEF BufferApis, TileApis, TileOf
<1>2. x \in Texture /\ Frames(cl, bs)
  BY <1>1, RequestFacts, GivenFrames
<1>3. CASE IsTiled(x)
  <2> DEFINE w == Then(Task("fitsTile", x, 0), IndexPlan(x) \o << Task("tile", x, << cl.tile, 0 >>) >>)
  <2>1. AfterRange(x, cl.tile) = w
    BY <1>3 DEF AfterRange
  <2>2. FitsTile(cl, w, bs, x)
    BY <1>3 DEF FitsTile
  <2>3. Later(cl, w, bs, x)
    BY <2>2 DEF Later, OfTile
  <2>4. IsList(w)
    BY <1>2, <2>1, TilePlanThen
  <2> HIDE DEF w, bs
  <2>5. Busy(cl, md, tc, w, bs)
    BY <1>2, <2>3, <2>4, Fetching
  <2> QED BY <2>1, <2>5 DEF bs
<1>4. CASE ~IsTiled(x)
  <2>1. AfterRange(x, cl.tile) = DataPlan(x)
    BY <1>4 DEF AfterRange
  <2>2. cl.tile = 0
    BY <1>2, <1>4, OneTileOnly DEF InTiling
  <2>3. OriginOf(cl) = Corner /\ ExtentOf(cl) = ResOf[x]
    BY <1>1, <1>2, <1>4, <2>2, OneTileOnly DEF OriginOf, ExtentOf
  <2>4. OnlyTile(cl)
    BY <1>1, <1>4 DEF OnlyTile
  <2>5. Busy(cl, md, tc, DataPlan(cl.of), << GivenFrame(cl) >>)
    BY <1>1, <2>3, <2>4, Begin
  <2> QED BY <2>1, <2>5
<1> QED BY <1>3, <1>4

(* get_tile_into, or what is left of get_tile, from its lookup on. *)
LEMMA TileIntoBusy ==
  ASSUME NEW cl \in Request, cl.api \in {"get_tile", "get_tile_into"}, NEW md, NEW tc
  PROVE  Busy(cl, md, tc, TileIntoPlan(cl.of, cl.tile), << GivenFrame(cl) >>)
<1> DEFINE x == cl.of
           bs == << GivenFrame(cl) >>
           w == Then(Task("inRange", x, cl.tile), AfterRange(x, cl.tile))
<1>1. cl.api \in BufferApis
  BY DEF BufferApis, TileApis
<1>2. x \in Texture /\ Frames(cl, bs)
  BY <1>1, RequestFacts, GivenFrames
<1>3. IsList(w) /\ TileIntoPlan(x, cl.tile) = IndexPlan(x) \o w
  BY <1>2, TilePlanThen, ThenFacts
<1>4. InRange(cl, w, bs, x)
  BY DEF InRange
<1>5. Later(cl, w, bs, x)
  BY <1>4 DEF Later, OfTile
<1> HIDE DEF w, bs
<1>6. Busy(cl, md, tc, IndexPlan(x) \o w, bs)
  BY <1>2, <1>3, <1>5, Fetching
<1> QED BY <1>3, <1>6 DEF bs

(* The tile a pixel call read its directory for. *)
LEMMA PickedBusy ==
  ASSUME NEW cl \in Request, NEW x, x = cl.of, cl.api = "get_pixel", InFace(cl, x), IsTiled(x), NEW md, NEW tc,
         Ready(tc, x)
  PROVE  Busy(cl, md, tc, << Task("tile", x, << TileOf(cl), 0 >>) >>, << PackedFrame(TileRes(x)) >>)
<1> DEFINE f == PackedFrame(TileRes(x))
           bs == << f >>
           w == << Task("tile", x, << TileOf(cl), 0 >>) >>
<1>1. cl.api \in TileApis /\ cl.api \in BufferApis /\ ~Brings(cl)
  BY DEF BufferApis, TileApis, Brings
<1>2. x \in Texture /\ ExtentOf(cl) = TileRes(x) /\ TileRes(x) \in Resolution
  BY <1>1, RequestFacts DEF ExtentOf
<1>3. U(TileRes(x)) \in Nat \ {0} /\ Size(TileRes(x)) \in Nat
      /\ Needed(TileRes(x), U(TileRes(x))) = Size(TileRes(x)) /\ U(ResOf[x]) \in Nat /\ V(ResOf[x]) \in Nat
  BY <1>1, <1>2, RequestFacts, Sides
<1>4. f = GivenFrame(cl) /\ StrideOf(cl) = U(TileRes(x)) /\ LenOf(cl) = Size(TileRes(x))
  BY <1>1, <1>2, <1>3 DEF GivenFrame, GivenStride, StrideOf, LenOf, PackedFrame
<1>5. Frames(cl, bs) /\ IsList(bs) /\ Len(bs) = 1 /\ bs[1] = f
  BY <1>1, <1>4, GivenFrames
<1>6. IsFrame(f) /\ f.stride = U(TileRes(x)) /\ f.len = Size(TileRes(x))
      /\ \A k \in 0..(f.len - 1) : f.data[k] = Old
  BY <1>3, FrameIs DEF PackedFrame
<1>7. InTiling(x, TileOf(cl))
  <2>1. cl.u \in Nat /\ cl.v \in Nat /\ cl.u < U(ResOf[x]) /\ cl.v < V(ResOf[x])
    BY <1>3 DEF InFace
  <2> QED BY <1>2, <2>1, ManyTiles DEF TileOf
<1> HIDE DEF f, bs
<1>8. Sketch(bs[1], x, OriginOf(cl), ExtentOf(cl))
  BY <1>2, <1>3, <1>5, <1>6 DEF Sketch
<1>9. OneTile(cl, w, bs, x)
  BY <1>1, <1>4, <1>5, <1>6, <1>7, <1>8 DEF OneTile
<1>10. IsList(w) /\ Later(cl, w, bs, x)
  BY <1>9, Single DEF Later, OfTile
<1> HIDE DEF w
<1>11. Source[x].route # "none"
  BY DEF IsTiled, IsStored
<1>12. Busy(cl, md, tc, w, bs)
  BY <1>2, <1>5, <1>10, <1>11, Fetching
<1> QED BY <1>12 DEF w, bs, f

(* The face a pixel call reads to pick a texel of. *)
LEMMA PickedFace ==
  ASSUME NEW cl \in Request, NEW x, x = cl.of, cl.api = "get_pixel", InFace(cl, x), IsStored(x), ~IsTiled(x),
         NEW md, NEW tc, Ready(tc, x)
  PROVE  Busy(cl, md, tc, << Task("block", x, 0) >>, << PackedFrame(ResOf[x]) >>)
<1> DEFINE f == PackedFrame(ResOf[x])
           bs == << f >>
           w == << Task("block", x, 0) >>
           s == << >>
<1>1. cl.api \in TileApis /\ cl.api \in BufferApis /\ ~Brings(cl)
  BY DEF BufferApis, TileApis, Brings
<1>2. x \in Texture /\ ResOf[x] \in Resolution /\ ExtentOf(cl) = ResOf[x]
  BY <1>1, RequestFacts, OneTileOnly DEF ExtentOf
<1>3. U(ResOf[x]) \in Nat \ {0} /\ V(ResOf[x]) \in Nat \ {0} /\ Size(ResOf[x]) \in Nat
      /\ Needed(ResOf[x], U(ResOf[x])) = Size(ResOf[x])
  BY <1>2, Sides
<1>4. f = GivenFrame(cl) /\ StrideOf(cl) = U(ResOf[x]) /\ LenOf(cl) = Size(ResOf[x])
  BY <1>1, <1>2, <1>3 DEF GivenFrame, GivenStride, StrideOf, LenOf, PackedFrame
<1>5. Frames(cl, bs) /\ IsList(bs) /\ Len(bs) = 1 /\ bs[1] = f
  BY <1>1, <1>4, GivenFrames
<1>6. IsFrame(f) /\ f.stride = U(ResOf[x]) /\ f.len = Size(ResOf[x])
      /\ \A k \in 0..(f.len - 1) : f.data[k] = Old
  BY <1>3, FrameIs DEF PackedFrame
<1>7. OriginOf(cl) = Corner /\ InTiling(x, TileOf(cl))
  <2>1. cl.u \in Nat /\ cl.v \in Nat /\ cl.u < U(ResOf[x]) /\ cl.v < V(ResOf[x])
    BY <1>3 DEF InFace
  <2>2. TileOf(cl) = 0
    BY <1>2, <2>1, OneTileOnly DEF TileOf
  <2>3. NTiles(x) = 1
    BY <1>2, OneTileOnly
  <2>4. InTiling(x, TileOf(cl))
    BY <2>2, <2>3 DEF InTiling
  <2> QED BY <1>1, <1>2, <2>2, <2>4, OneTileOnly DEF OriginOf
<1>8. IsList(s) /\ Len(s) = 0 /\ IsList(w) /\ w = Then(Task("block", x, 0), s)
  BY Single, NoneLeft
<1> HIDE DEF f, bs, s, w
<1>9. Drawable(cl, bs[1], x, Len(s) = 0)
  BY <1>3, <1>4, <1>5, <1>6, <1>8 DEF Drawable, Sketch
<1>10. Face(cl, bs, s, x)
  <2>1. \A i \in 1..Len(s) : Link(cl, s, bs, x, i)
    BY <1>8
  <2>2. Len(bs) = Len(s) + 1
    BY <1>5, <1>8
  <2>3. OnlyTile(cl)
    BY <1>7 DEF Picks, OnlyTile
  <2>4. Possible(cl) => Whole[x]
    BY <1>1, <2>3, WholeNeeded DEF OnlyTile
  <2> QED BY <1>1, <1>2, <1>5, <1>7, <1>8, <2>1, <2>2, <2>3, <2>4 DEF Face
<1>11. Blocking(cl, w, bs, x)
  BY <1>8, <1>9, <1>10 DEF Blocking, Open
<1>12. Later(cl, w, bs, x) /\ Ready(tc, x) /\ Source[x].route # "none"
  BY <1>11 DEF Later, Drawn0, IsStored
<1>13. Busy(cl, md, tc, w, bs)
  BY <1>2, <1>5, <1>8, <1>12, Fetching
<1> QED BY <1>13 DEF w, bs, f

(* Between two calls, or on the way through one. *)
OnItsWay == Idle(call, work, bufs) \/ Busy(call, metadata, tile_cache, work, bufs)

(* A step goes on with the call, or returns what it may return. *)
Answering == \E val \in Outcomes[call] : Return(val)
Onward == OnItsWay' /\ ((call' = call /\ reply' = reply) \/ Answering)

(* A call that returns leaves the host between two calls. *)
LEMMA Returned ==
  ASSUME NEW val, Return(val)
  PROVE  OnItsWay'
BY DEF Return, OnItsWay, Idle

(* The outcomes of a call. *)
LEMMA OutcomesAre ==
  ASSUME NEW r \in Request
  PROVE  /\ Possible(r) => << r.api, Expected(r) >> \in Outcomes[r]
         /\ ~Possible(r) => << "err", "Refused" >> \in Outcomes[r]
         /\ << "err", "Io" >> \in Outcomes[r]
BY DEF Outcomes

(* A refusal the request or the file is to blame for. *)
LEMMA RefusedRightly ==
  ASSUME call \in Request, ~Possible(call), Return(<< "err", "Refused" >>)
  PROVE  Onward
BY OutcomesAre, Returned DEF Onward, Answering

(* A task done. *)
LEMMA Proceeded ==
  ASSUME NEW t, NEW s, IsList(s), work = Then(t, s), Continue(<< >>)
  PROVE  work' = s /\ call' = call /\ reply' = reply
<1>1. Tail(work) = s
  BY ThenFacts
<1>2. << >> \o s = s
  BY NoneLeft, Joined
<1> QED BY <1>1, <1>2 DEF Continue

(* A face drawn, or not. *)
LEMMA DrawnOrNot ==
  ASSUME NEW bs, NEW s, NEW x, Open(call, bs, s, x), Whole[x], call \in Request, IsList(s),
         NEW img, Shows(img, ResOf[x], x, Corner, 0, 0),
         NEW t, work = Then(t, s), Draw(bs[1], Tail(bs), 0, img, ResOf[x])
  PROVE  Onward
<1> DEFINE cs == Then(Paint(bs[1], 0, img, ResOf[x]), Tail(bs))
           n == Needed(ResOf[x], bs[1].stride)
<1>1. 0 + n <= bs[1].len
  <2>1. Sketch(bs[1], x, Corner, ResOf[x]) /\ x \in Texture
    BY FaceList DEF Open, Drawable
  <2>2. n <= bs[1].len /\ bs[1].stride \in Nat /\ bs[1].len \in Nat /\ ResOf[x] \in Resolution
    BY <2>1, Textures DEF Sketch, IsFrame
  <2>3. n \in Nat
    BY <2>2, Sides
  <2> QED BY <2>2, <2>3
<1>2. bufs' = cs /\ Continue(<< >>)
  BY <1>1 DEF Draw, Then, Paint
<1>3. work' = s /\ call' = call /\ reply' = reply
  BY <1>2, Proceeded
<1> HIDE DEF cs
<1>4. Busy(call, metadata', tile_cache', s, cs)
  BY DrawnFace DEF cs
<1> QED BY <1>2, <1>3, <1>4 DEF OnItsWay, Onward

(* The first of a list. *)
LEMMA HeadOf ==
  ASSUME NEW bs, IsList(bs), Len(bs) # 0
  PROVE  Head(bs) = bs[1] /\ bs # << >>
<1>1. PICK S : bs \in Seq(S)
  BY DEF IsList
<1>2. bs # << >>
  BY <1>1
<1> QED BY <1>1, <1>2

(* fill of a constant face. *)
LEMMA FillWay ==
  ASSUME Busy(call, metadata, tile_cache, work, bufs), Fill
  PROVE  Onward
<1>1. work # << >> /\ Head(work).do = "fill"
  BY DEF Fill, At, Top
<1>2. call \in Request
  BY DEF Busy
<1>3. PICK x, s : /\ Open(call, bufs, s, x) /\ Source[x].route = "constant"
                  /\ work = Then(Task("fill", x, 0), s)
  BY <1>1, StageOf DEF Stage, Here, Filling
<1>4. IsList(s) /\ IsList(bufs) /\ x \in Texture /\ Len(s) \in Nat /\ Len(bufs) = Len(s) + 1
  BY <1>3, FaceList DEF Open
<1>5. Top.x = x
  BY <1>3, <1>4, TaskDo DEF Top
<1>6. Buffer = bufs[1]
  <2>1. Len(bufs) # 0
    BY <1>4
  <2> QED BY <1>4, <2>1, HeadOf DEF Buffer
<1>7. Draw(bufs[1], Tail(bufs), 0, ShadeImage(x), ResOf[x])
  BY <1>5, <1>6 DEF Fill, ShadeImage, Packed
<1>8. Shows(ShadeImage(x), ResOf[x], x, Corner, 0, 0)
  BY <1>3, <1>4, ShadeShows
<1>9. Whole[x]
  <2>1. FaceReads(x)
    BY <1>3 DEF FaceReads, IndexReads, TileReads, IsTiled, IsStored
  <2> QED BY <1>3, <1>4, <2>1, WholeReads
<1> QED BY <1>2, <1>3, <1>4, <1>7, <1>8, <1>9, DrawnOrNot

(* A reduction into the buffer below. *)
LEMMA ReduceWay ==
  ASSUME Busy(call, metadata, tile_cache, work, bufs), Reduce
  PROVE  Onward
<1>1. work # << >> /\ Head(work).do = "reduce"
  BY DEF Reduce, At, Top
<1>2. call \in Request
  BY DEF Busy
<1>3. PICK y : /\ Open(call, bufs, work, y) /\ work # << >>
               /\ Finished(bufs[1], y, Corner, ResOf[y]) /\ Whole[y]
  BY <1>1, StageOf DEF Stage, Here, Reducing
<1> DEFINE x == Head(work).x
           cs == Tail(bufs)
           s == Tail(work)
<1>4. IsList(work) /\ IsList(bufs) /\ y \in Texture /\ Len(work) \in Nat /\ Len(bufs) = Len(work) + 1
      /\ Face(call, bufs, work, y) /\ Drawable(call, bufs[1], y, Len(work) = 0)
  BY <1>3, FaceList DEF Open
<1>5. /\ Open(call, cs, s, x) /\ cs[1] = bufs[2]
      /\ Source[x].route = "reduced" /\ Source[x].from = y /\ Whole[x]
  BY <1>3, <1>4, FacePop
<1>6. x \in Texture /\ IsList(s)
  BY <1>5, FaceList DEF Open
<1>7. Len(work) # 0 /\ Buffer = bufs[1]
  <2>1. Len(bufs) # 0
    BY <1>4
  <2>2. PICK S : work \in Seq(S)
    BY <1>4 DEF IsList
  <2> QED BY <1>3, <1>4, <2>1, <2>2, HeadOf DEF Buffer
<1>8. bufs[1].stride = U(ResOf[y])
  BY <1>4, <1>7 DEF Drawable
<1> DEFINE img == Halved(bufs[1].data, ResOf[y], ResOf[x], Source[x].kind)
<1>9. Draw(cs[1], Tail(cs), 0, img, ResOf[x])
  BY <1>5, <1>7 DEF Reduce, Top
<1> HIDE DEF img, cs
<1>10. Shows(img, ResOf[x], x, Corner, 0, 0)
  BY <1>3, <1>5, <1>6, <1>8, HalvedShows DEF img
<1>11. work = Then(Head(work), s)
  <2>1. PICK S : work \in Seq(S)
    BY <1>4 DEF IsList
  <2> QED BY <1>3, <2>1 DEF Then
<1> HIDE DEF x, s
<1> QED BY <1>2, <1>5, <1>6, <1>9, <1>10, <1>11, DrawnOrNot

(* packed_face_data. *)
LEMMA PackedWay ==
  ASSUME Busy(call, metadata, tile_cache, work, bufs), PackedFaceData
  PROVE  Onward
<1>1. work # << >> /\ Head(work).do = "packed"
  BY DEF PackedFaceData, At, Top
<1>2. call \in Request
  BY DEF Busy
<1>3. PICK x, s : /\ Open(call, bufs, s, x) /\ Source[x].route = "reduced"
                  /\ work = Then(Task("packed", Source[x].from, 0), Then(Task("reduce", x, 0), s))
  BY <1>1, StageOf DEF Stage, Here, Packing
<1> DEFINE y == Source[x].from
           w == Then(Task("reduce", x, 0), s)
           b == PackedFrame(ResOf[y])
           cs == Then(b, bufs)
<1>4. IsList(s) /\ IsList(bufs) /\ x \in Texture
  BY <1>3, FaceList DEF Open
<1>5. IsList(w) /\ w # << >> /\ Len(w) = Len(s) + 1 /\ Len(s) \in Nat
  BY <1>4, ThenFacts
<1>6. Top.x = y /\ Tail(work) = w
  BY <1>3, <1>5, TaskDo DEF Top
<1>7. y \in Texture
  BY <1>3, <1>4, Textures
<1>8. bufs' = cs /\ call' = call /\ reply' = reply /\ work' = DataPlan(y) \o w
  BY <1>6 DEF PackedFaceData, Continue, Then
<1>9. IsList(Drawing0(y, w)) /\ work' = Then(Task("fits", y, 0), Drawing0(y, w))
  BY <1>5, <1>7, <1>8, DataPlanThen
<1>10. Face(call, cs, w, y)
  BY <1>3, FacePush
<1> HIDE DEF w, y
<1>11. cs[1] = b
  BY <1>4, ThenFacts
<1>12. IsFrame(b)
  <2>1. ResOf[y] \in Resolution
    BY <1>7, Textures
  <2>2. U(ResOf[y]) \in Nat \ {0} /\ Size(ResOf[y]) \in Nat
    BY <2>1, Sides
  <2> QED BY <2>2, FrameIs DEF PackedFrame
<1> HIDE DEF cs, b
<1>13. Len(w) # 0
  BY <1>5
<1>14. Frames(call, cs)
  BY <1>10, <1>11, <1>12, <1>13, FaceFrames
<1>15. Starting(call, work', cs)
  BY <1>9, <1>10, <1>11, <1>13 DEF Starting, b
<1>16. IsList(work')
  BY <1>9, ThenFacts
<1>17. Now(call, metadata', tile_cache', work', cs)
  BY <1>15 DEF Now
<1>18. Busy(call, metadata', tile_cache', work', cs)
  BY <1>2, <1>14, <1>16, <1>17 DEF Busy
<1> QED BY <1>8, <1>18 DEF OnItsWay, Onward

(* The layout of a texture whose directory is at hand. *)
LEMMA LayoutAtFront ==
  ASSUME NEW x, AtFront(tile_cache, x)
  PROVE  /\ Layout(x).tile_res = TileRes(x) /\ NTilesOf(x) = NTiles(x)
         /\ IsTiled(x) => Dir = DirOf(x)
<1>1. IsTiled(x) => Dir = DirOf(x)
  BY DEF AtFront, Dir
<1>2. Layout(x).tile_res = TileRes(x)
  BY <1>1 DEF Layout, TileRes, DirOf
<1>3. Layout(x).ntilesu = NTilesU(ResOf[x], TileRes(x)) /\ Layout(x).ntilesv = NTilesV(ResOf[x], TileRes(x))
  BY <1>1 DEF Layout, TileRes, DirOf
<1> QED BY <1>1, <1>2, <1>3 DEF NTilesOf, NTiles

(* The same, of a texture whose index data are at hand. *)
LEMMA LayoutReady ==
  ASSUME NEW x, Ready(tile_cache, x)
  PROVE  /\ Layout(x).tile_res = TileRes(x) /\ NTilesOf(x) = NTiles(x)
         /\ IsTiled(x) => Dir = DirOf(x)
BY LayoutAtFront DEF Ready

(* A buffer that fits: its own stride, or the one it is settled on. *)
FitsIn(b, r) ==
  LET t == IF b.stride = 0 THEN U(r) ELSE b.stride IN t >= U(r) /\ b.len >= Needed(r, t)

(* A packed buffer fits, and so does the one a call brings if the call is  *)
(* to be answered.                                                         *)
LEMMA PackedFits ==
  ASSUME NEW r \in Resolution
  PROVE  FitsIn(PackedFrame(r), r)
<1>1. U(r) \in Nat \ {0} /\ Size(r) \in Nat /\ Needed(r, U(r)) = Size(r)
  BY Sides
<1>2. PackedFrame(r).stride = U(r) /\ PackedFrame(r).len = Size(r)
  BY <1>1, FrameIs DEF PackedFrame
<1> QED BY <1>1, <1>2 DEF FitsIn

(* The buffer of a call that is to be answered fits. *)
LEMMA GivenFits ==
  ASSUME NEW cl \in Request, cl.api \in BufferApis, Possible(cl)
  PROVE  FitsIn(GivenFrame(cl), ExtentOf(cl))
<1> DEFINE r == ExtentOf(cl)
<1>1. r \in Resolution /\ GivenStride(cl) \in Nat /\ LenOf(cl) \in Nat
  BY RequestFacts
<1>2. CASE ~Brings(cl)
  <2>1. GivenFrame(cl) = PackedFrame(r)
    BY <1>2 DEF GivenFrame, GivenStride, LenOf, PackedFrame
  <2> HIDE DEF r
  <2>2. FitsIn(GivenFrame(cl), r)
    BY <1>1, <2>1, PackedFits
  <2> QED BY <2>2 DEF r
<1>3. CASE Brings(cl)
  <2>1. Fitting(cl)
    BY <1>3 DEF Possible, Brings, TileApis
  <2>2. GivenFrame(cl).stride = cl.stride /\ GivenFrame(cl).len = cl.len
    BY <1>1, <1>3, FrameIs DEF GivenFrame, GivenStride, LenOf
  <2> QED BY <2>1, <2>2 DEF Fitting, Stride, FitsIn
<1> QED BY <1>2, <1>3

(* check_buffer of a face. *)
LEMMA FitsWay ==
  ASSUME Busy(call, metadata, tile_cache, work, bufs), CheckBuffer, At("fits")
  PROVE  Onward
<1>1. work # << >> /\ Head(work).do = "fits"
  BY DEF At, Top
<1>2. call \in Request
  BY DEF Busy
<1>3. PICK x, s : /\ Face(call, bufs, s, x) /\ work = Then(Task("fits", x, 0), Drawing0(x, s))
                  /\ bufs[1] = IF Len(s) = 0 THEN GivenFrame(call) ELSE PackedFrame(ResOf[x])
  BY <1>1, StageOf DEF Stage, Here, Starting
<1>4. IsList(s) /\ IsList(bufs) /\ x \in Texture /\ Len(s) \in Nat /\ Len(bufs) = Len(s) + 1
  BY <1>3, FaceList
<1>5. IsList(Drawing0(x, s)) /\ Top.x = x /\ Top.do = "fits"
  <2>1. IsList(Drawing0(x, s))
    BY <1>4, DataPlanThen
  <2> QED BY <1>3, <2>1, TaskDo DEF Top
<1>6. Buffer = bufs[1]
  <2>1. Len(bufs) # 0
    BY <1>4
  <2> QED BY <1>4, <2>1, HeadOf DEF Buffer
<1>7. CASE ~Fits(ResOf[x])
  <2>1. Return(<< "err", "Refused" >>)
    BY <1>5, <1>7 DEF CheckBuffer
  <2>2. ~FitsIn(bufs[1], ResOf[x])
    BY <1>6, <1>7 DEF Fits, FitsIn
  <2>3. Len(s) = 0
    <3>1. ResOf[x] \in Resolution
      BY <1>4, Textures
    <3> QED BY <1>3, <2>2, <3>1, PackedFits
  <2>4. call.api \in BufferApis /\ ExtentOf(call) = ResOf[x]
    BY <1>3, <2>3 DEF Face
  <2>5. ~Possible(call)
    BY <1>2, <1>3, <2>2, <2>3, <2>4, GivenFits
  <2> QED BY <1>2, <2>1, <2>5, RefusedRightly
<1>8. CASE Fits(ResOf[x])
  <2> DEFINE cs == Then(Settled(bufs[1], ResOf[x]), Tail(bufs))
             t == IF bufs[1].stride = 0 THEN U(ResOf[x]) ELSE bufs[1].stride
  <2>1. bufs' = cs /\ Continue(<< >>)
    BY <1>5, <1>6, <1>8 DEF CheckBuffer, Then, Settled
  <2>2. work' = Drawing0(x, s) /\ call' = call /\ reply' = reply
    BY <1>3, <1>5, <2>1, Proceeded
  <2>3. t >= U(ResOf[x]) /\ bufs[1].len >= Needed(ResOf[x], t)
    BY <1>6, <1>8 DEF Fits
  <2> HIDE DEF cs, t
  <2>4. Busy(call, metadata', tile_cache', Drawing0(x, s), cs)
    BY <1>2, <1>3, <2>3, FittedFace DEF cs, t
  <2> QED BY <2>1, <2>2, <2>4 DEF OnItsWay, Onward
<1> QED BY <1>7, <1>8

(* check_buffer of a tile. *)
LEMMA FitsTileWay ==
  ASSUME Busy(call, metadata, tile_cache, work, bufs), CheckBuffer, At("fitsTile")
  PROVE  Onward
<1>1. work # << >> /\ Head(work).do = "fitsTile"
  BY DEF At, Top
<1>2. call \in Request
  BY DEF Busy
<1>3. PICK x \in Texture : x = call.of /\ Ready(tile_cache, x) /\ FitsTile(call, work, bufs, x)
  BY <1>1, StageOf DEF Stage, Here
<1> DEFINE p == << Task("tile", x, << call.tile, 0 >>) >>
           b == GivenFrame(call)
           r == TileRes(x)
<1>4. /\ call.api \in {"get_tile", "get_tile_into"} /\ bufs = << b >>
      /\ IsTiled(x) /\ InTiling(x, call.tile)
      /\ work = Then(Task("fitsTile", x, 0), IndexPlan(x) \o p)
  BY <1>3 DEF FitsTile
<1>5. call.api \in TileApis /\ call.api \in BufferApis /\ TileOf(call) = call.tile /\ ExtentOf(call) = r
  BY <1>3, <1>4 DEF TileApis, BufferApis, TileOf, ExtentOf
<1>6. IsList(p) /\ IsList(IndexPlan(x) \o p)
  BY Single, IndexPlanThen
<1>7. Top.x = x /\ Top.do = "fitsTile"
  BY <1>4, <1>6, TaskDo DEF Top
<1>8. Layout(x).tile_res = r /\ r \in Resolution
  BY <1>2, <1>3, <1>5, LayoutReady, RequestFacts
<1>9. Buffer = b /\ Tail(bufs) = << >>
  BY <1>4, Single, NoneLeft, ThenFacts DEF Buffer
<1> HIDE DEF b, r
<1>10. CASE ~Fits(r)
  <2>1. Return(<< "err", "Refused" >>)
    BY <1>7, <1>8, <1>10 DEF CheckBuffer
  <2>2. ~FitsIn(GivenFrame(call), ExtentOf(call))
    BY <1>5, <1>9, <1>10 DEF Fits, FitsIn, b
  <2>3. ~Possible(call)
    BY <1>2, <1>5, <2>2, GivenFits
  <2> QED BY <1>2, <2>1, <2>3, RefusedRightly
<1>11. CASE Fits(r)
  <2> DEFINE c == Settled(b, r)
             cs == << c >>
             t == IF b.stride = 0 THEN U(r) ELSE b.stride
  <2>1. bufs' = Then(c, << >>) /\ Continue(<< >>)
    BY <1>7, <1>8, <1>9, <1>11 DEF CheckBuffer, Then, Settled
  <2>2. work' = IndexPlan(x) \o p /\ call' = call /\ reply' = reply
    BY <1>4, <1>6, <2>1, Proceeded
  <2>3. t >= U(r) /\ b.len >= Needed(r, t)
    BY <1>9, <1>11 DEF Fits
  <2>4. b = Frame(GivenStride(call), LenOf(call)) /\ GivenStride(call) \in Nat /\ LenOf(call) \in Nat
        /\ b.stride = GivenStride(call) /\ b.len = LenOf(call)
    BY <1>2, <1>5, RequestFacts, FrameIs DEF GivenFrame, b
  <2>5. t = StrideOf(call)
    BY <1>5, <2>4 DEF StrideOf
  <2>6. Sketch(c, x, OriginOf(call), r) /\ c.stride = t /\ c.len = LenOf(call)
    <3>1. t = IF GivenStride(call) = 0 THEN U(r) ELSE GivenStride(call)
      BY <2>4
    <3>2. t >= U(r) /\ LenOf(call) >= Needed(r, t)
      BY <2>3, <2>4
    <3> HIDE DEF t
    <3> QED BY <1>8, <2>4, <3>1, <3>2, Fitted
  <2> HIDE DEF c, t, p
  <2>7. IsList(cs) /\ Len(cs) = 1 /\ cs[1] = c /\ cs = Then(c, << >>) /\ cs # << >>
    BY Single
  <2> HIDE DEF cs
  <2>8. OneTile(call, p, cs, x)
    BY <1>4, <1>5, <2>5, <2>6, <2>7 DEF OneTile, p
  <2>9. Later(call, p, cs, x)
    BY <1>3, <2>8 DEF Later, OfTile
  <2>10. Frames(call, cs)
    <3>1. IsFrame(c) /\ \A k \in 0..(c.len - 1) : c.data[k] \in {Old, Pic(x, OriginOf(call), r, c.stride, k)}
      BY <2>6 DEF Sketch
    <3>2. Wanted(call, c)
      BY <1>3, <1>5, <2>5, <2>6, <3>1 DEF Wanted
    <3> QED BY <1>5, <2>7, <3>1, <3>2 DEF Frames
  <2>11. Busy(call, metadata', tile_cache', IndexPlan(x) \o p, cs)
    BY <1>2, <1>6, <2>9, <2>10, Fetching
  <2> QED BY <2>1, <2>2, <2>7, <2>11 DEF OnItsWay, Onward
<1> QED BY <1>10, <1>11

(* The check of a tile's number. *)
LEMMA RangeWay ==
  ASSUME Busy(call, metadata, tile_cache, work, bufs), CheckTile
  PROVE  Onward
<1>1. work # << >> /\ Head(work).do = "inRange"
  BY DEF CheckTile, At, Top
<1>2. call \in Request /\ tile_cache' = tile_cache
  BY DEF Busy, CheckTile, caches
<1>3. PICK x \in Texture : /\ x = call.of /\ Ready(tile_cache, x) /\ Source[x].route # "none"
                           /\ \/ InRangeAlloc(call, work, bufs, x)
                              \/ InRange(call, work, bufs, x) \/ InfoRange(call, work, bufs, x)
  BY <1>1, StageOf DEF Stage, Here
<1>4. PICK s : IsList(s) /\ work = Then(Task("inRange", x, call.tile), s)
               /\ \/ InRangeAlloc(call, work, bufs, x) /\ s = Then(Task("allocTile", x, 0), TileIntoPlan(x, call.tile))
                  \/ InRange(call, work, bufs, x) /\ s = AfterRange(x, call.tile)
                  \/ InfoRange(call, work, bufs, x) /\ s = IndexPlan(x)
  <2>1. CASE InRangeAlloc(call, work, bufs, x)
    <3>1. IsList(Then(Task("allocTile", x, 0), TileIntoPlan(x, call.tile)))
      BY TileIntoList, ThenFacts
    <3> QED BY <2>1, <3>1 DEF InRangeAlloc
  <2>2. CASE InRange(call, work, bufs, x)
    BY <2>2, TilePlanThen DEF InRange
  <2>3. CASE InfoRange(call, work, bufs, x)
    <3>1. IsList(IndexPlan(x))
      BY NoneLeft, IndexPlanThen
    <3> QED BY <2>3, <3>1 DEF InfoRange
  <2> QED BY <1>3, <2>1, <2>2, <2>3
<1>5. Top.x = x /\ Top.n = call.tile
  BY <1>4, TaskDo DEF Top
<1>6. NTilesOf(x) = NTiles(x)
  BY <1>3, LayoutReady
<1>7. CASE ~InTiling(x, call.tile)
  <2>1. Return(<< "err", "Refused" >>)
    BY <1>5, <1>6, <1>7 DEF CheckTile, InTiling
  <2>2. call.api \in {"get_tile", "get_tile_into", "tile_info"}
    BY <1>3 DEF InRangeAlloc, InRange, InfoRange
  <2>3. ~Possible(call)
    BY <1>3, <1>7, <2>2 DEF Possible, TileApis
  <2> QED BY <1>2, <2>1, <2>3, RefusedRightly
<1>8. CASE InTiling(x, call.tile)
  <2>1. Continue(<< >>) /\ bufs' = bufs
    BY <1>5, <1>6, <1>8 DEF CheckTile, InTiling
  <2>2. work' = s /\ call' = call /\ reply' = reply
    BY <1>4, <2>1, Proceeded
  <2>3. CASE InRangeAlloc(call, work, bufs, x) /\ s = Then(Task("allocTile", x, 0), TileIntoPlan(x, call.tile))
    <3>1. call.api = "get_tile" /\ bufs = << >>
      BY <2>3 DEF InRangeAlloc
    <3>2. AllocTile(call, s, bufs, x)
      BY <1>8, <2>3, <3>1 DEF AllocTile
    <3>3. Later(call, s, bufs, x)
      BY <1>3, <3>2 DEF Later, OfTile
    <3>4. Frames(call, bufs)
      BY <3>1, NoFrames
    <3>5. Busy(call, metadata', tile_cache, s, bufs)
      BY <1>2, <1>3, <1>4, <3>3, <3>4, Fetching
    <3> QED BY <1>2, <2>1, <2>2, <3>5 DEF OnItsWay, Onward
  <2>4. CASE InRange(call, work, bufs, x) /\ s = AfterRange(x, call.tile)
    <3>1. call.api \in {"get_tile", "get_tile_into"} /\ bufs = << GivenFrame(call) >>
      BY <2>4 DEF InRange
    <3>2. Busy(call, metadata', tile_cache, AfterRange(call.of, call.tile), << GivenFrame(call) >>)
      BY <1>2, <1>3, <1>8, <3>1, RangeBusy
    <3> QED BY <1>2, <1>3, <2>1, <2>2, <2>4, <3>1, <3>2 DEF OnItsWay, Onward
  <2>5. CASE InfoRange(call, work, bufs, x) /\ s = IndexPlan(x)
    <3>1. call.api = "tile_info" /\ bufs = << >>
      BY <2>5 DEF InfoRange
    <3>2. AtHand(call, << >>, bufs, x)
      BY <1>8, <3>1 DEF AtHand
    <3>3. Later(call, << >>, bufs, x) /\ IsList(<< >>)
      BY <1>3, <3>2, NoneLeft DEF Later, OfTile
    <3>4. Frames(call, bufs)
      BY <3>1, NoFrames
    <3>5. Busy(call, metadata', tile_cache', IndexPlan(x) \o << >>, bufs)
      BY <1>2, <3>3, <3>4, Fetching
    <3>6. IndexPlan(x) \o << >> = s
      BY <1>4, <2>5, <3>3, Joined
    <3> QED BY <2>1, <2>2, <3>5, <3>6 DEF OnItsWay, Onward
  <2> QED BY <1>4, <2>3, <2>4, <2>5
<1> QED BY <1>7, <1>8

(* A buffer for a face to pick a texel of. *)
LEMMA AllocFaceWay ==
  ASSUME Busy(call, metadata, tile_cache, work, bufs), Alloc, At("alloc")
  PROVE  Onward
<1>1. work # << >> /\ Head(work).do = "alloc"
  BY DEF At, Top
<1>2. call \in Request
  BY DEF Busy
<1>3. PICK x \in Texture : x = call.of /\ Ready(tile_cache, x) /\ AllocFace(call, work, bufs, x)
  BY <1>1, StageOf DEF Stage, Here
<1> DEFINE s == << Task("block", x, 0) >>
           f == PackedFrame(ResOf[x])
<1>4. IsList(s) /\ bufs = << >> /\ work = Then(Task("alloc", x, 0), s)
  BY <1>3, Single DEF AllocFace, Then
<1>5. Top.x = x /\ Top.do = "alloc"
  BY <1>4, TaskDo DEF Top
<1>6. bufs' = Then(f, << >>) /\ Continue(<< >>)
  BY <1>4, <1>5 DEF Alloc, Then
<1>7. work' = s /\ call' = call /\ reply' = reply
  BY <1>4, <1>6, Proceeded
<1>8. bufs' = << f >>
  BY <1>6, Single
<1>9. tile_cache' = tile_cache
  BY DEF Alloc, caches
<1>10. Busy(call, metadata', tile_cache, << Task("block", x, 0) >>, << PackedFrame(ResOf[x]) >>)
  BY <1>2, <1>3, PickedFace DEF AllocFace
<1> QED BY <1>7, <1>8, <1>9, <1>10 DEF OnItsWay, Onward

(* A buffer for a tile. *)
LEMMA AllocTileWay ==
  ASSUME Busy(call, metadata, tile_cache, work, bufs), Alloc, At("allocTile")
  PROVE  Onward
<1>1. work # << >> /\ Head(work).do = "allocTile"
  BY DEF At, Top
<1>2. call \in Request /\ tile_cache' = tile_cache
  BY DEF Busy, Alloc, caches
<1>3. PICK x \in Texture : /\ x = call.of /\ Ready(tile_cache, x)
                           /\ AllocTile(call, work, bufs, x) \/ AllocPicked(call, work, bufs, x)
  BY <1>1, StageOf DEF Stage, Here
<1> DEFINE f == PackedFrame(TileRes(x))
           p == << Task("tile", x, << TileOf(call), 0 >>) >>
<1>4. PICK s : IsList(s) /\ work = Then(Task("allocTile", x, 0), s) /\ bufs = << >>
               /\ \/ AllocTile(call, work, bufs, x) /\ s = TileIntoPlan(x, call.tile)
                  \/ AllocPicked(call, work, bufs, x) /\ s = p
  <2>1. IsList(p) /\ IsList(TileIntoPlan(x, call.tile))
    BY Single, TileIntoList
  <2>2. CASE AllocTile(call, work, bufs, x)
    BY <2>1, <2>2 DEF AllocTile
  <2>3. CASE AllocPicked(call, work, bufs, x)
    <3> DEFINE a == Task("allocTile", x, 0)
               t == Task("tile", x, << TileOf(call), 0 >>)
    <3>1. work = << a, t >> /\ bufs = << >> /\ p = << t >>
      BY <2>3 DEF AllocPicked
    <3> HIDE DEF a, t, p
    <3>2. work = Then(a, p)
      BY <3>1, Pair
    <3> QED BY <2>1, <2>3, <3>1, <3>2 DEF a
  <2> QED BY <1>3, <2>2, <2>3
<1>5. Top.x = x /\ Top.do = "allocTile"
  BY <1>4, TaskDo DEF Top
<1>6. bufs' = Then(f, << >>) /\ Continue(<< >>)
  BY <1>3, <1>4, <1>5, LayoutReady DEF Alloc, Then
<1>7. work' = s /\ call' = call /\ reply' = reply
  BY <1>4, <1>6, Proceeded
<1>8. bufs' = << f >>
  BY <1>6, Single
<1>9. CASE AllocTile(call, work, bufs, x) /\ s = TileIntoPlan(x, call.tile)
  <2>1. call.api = "get_tile"
    BY <1>9 DEF AllocTile
  <2>2. f = GivenFrame(call)
    BY <1>3, <2>1 DEF GivenFrame, GivenStride, LenOf, Brings, ExtentOf, TileApis, PackedFrame
  <2>3. Busy(call, metadata', tile_cache', TileIntoPlan(call.of, call.tile), << GivenFrame(call) >>)
    BY <1>2, <2>1, TileIntoBusy
  <2> QED BY <1>3, <1>7, <1>8, <1>9, <2>2, <2>3 DEF OnItsWay, Onward
<1>10. CASE AllocPicked(call, work, bufs, x) /\ s = p
  <2>1. call.api = "get_pixel" /\ InFace(call, x) /\ IsTiled(x)
    BY <1>10 DEF AllocPicked
  <2>2. Busy(call, metadata', tile_cache, << Task("tile", x, << TileOf(call), 0 >>) >>, << PackedFrame(TileRes(x)) >>)
    BY <1>2, <1>3, <2>1, PickedBusy
  <2> QED BY <1>2, <1>7, <1>8, <1>10, <2>2 DEF OnItsWay, Onward
<1> QED BY <1>4, <1>9, <1>10

(* The caches hold what could be read. *)
Readable ==
  /\ \A l \in levels : << "level", l >> \notin Broken
  /\ \A i \in DOMAIN tile_cache : << "dir", tile_cache[i].pos >> \notin Broken
  /\ metadata = TRUE => << "metadata" >> \notin Broken

(* The index of a level is at hand. *)
LEMMA LevelWay ==
  ASSUME Busy(call, metadata, tile_cache, work, bufs), Readable, EnsureLevel
  PROVE  Onward
<1>1. work # << >> /\ Head(work).do = "level"
  BY DEF EnsureLevel, At, Top
<1>2. call \in Request /\ Frames(call, bufs)
  BY DEF Busy
<1>3. AtLevel(call, work, bufs)
  BY <1>1, StageOf DEF Stage, Here
<1>4. PICK x, w : /\ x \in Texture /\ IsList(w) /\ Later(call, w, bufs, x) /\ IsStored(x)
                  /\ work = Then(LevelTask(x), IF IsTiled(x) THEN Then(DirTask(x), w) ELSE w)
  BY <1>3 DEF AtLevel
<1>5. bufs' = bufs /\ Continue(<< >>)
  BY DEF EnsureLevel
<1>8. LevelReads(x)
  <2>1. IsList(IF IsTiled(x) THEN Then(DirTask(x), w) ELSE w)
    BY <1>4, ThenFacts
  <2>2. Top.x = Source[x].level
    BY <1>4, <2>1, TaskDo DEF LevelTask, Top
  <2> QED BY <2>2 DEF EnsureLevel, Readable, LevelReads
<1>6. CASE IsTiled(x)
  <2>1. IsList(Then(DirTask(x), w)) /\ work = Then(LevelTask(x), Then(DirTask(x), w))
    BY <1>4, <1>6, ThenFacts
  <2>2. work' = Then(DirTask(x), w) /\ call' = call /\ reply' = reply
    BY <1>5, <2>1, Proceeded
  <2>3. Busy(call, metadata', tile_cache', Then(DirTask(x), w), bufs)
    BY <1>2, <1>4, <1>6, <1>8, Fetching
  <2> QED BY <1>5, <2>2, <2>3 DEF OnItsWay, Onward
<1>7. CASE ~IsTiled(x)
  <2>1. work' = w /\ call' = call /\ reply' = reply
    BY <1>4, <1>5, <1>7, Proceeded
  <2>2. Ready(tile_cache', x) /\ Source[x].route # "none"
    BY <1>4, <1>7, <1>8 DEF Ready, AtFront, IndexReads, LevelReads, IsStored
  <2>3. Busy(call, metadata', tile_cache', w, bufs)
    BY <1>2, <1>4, <2>2, Fetching
  <2> QED BY <1>5, <2>1, <2>3 DEF OnItsWay, Onward
<1> QED BY <1>6, <1>7

(* The directory of a texture is at hand. *)
LEMMA DirWay ==
  ASSUME NEW x \in Texture, NEW w, IsList(w), Later(call, w, bufs, x), IsTiled(x), LevelReads(x),
         << "dir", Source[x].pos >> \notin Broken,
         work = Then(DirTask(x), w), call \in Request, Frames(call, bufs),
         Continue(<< >>), bufs' = bufs, tile_cache' # << >>, tile_cache'[1].dir = DirOf(x)
  PROVE  Onward
<1>1. work' = w /\ call' = call /\ reply' = reply
  BY Proceeded
<1>2. Ready(tile_cache', x) /\ Source[x].route # "none"
  BY DEF Ready, AtFront, IndexReads, LevelReads, IsTiled, IsStored
<1>3. Busy(call, metadata', tile_cache', w, bufs)
  BY <1>2, Fetching
<1> QED BY <1>1, <1>3 DEF OnItsWay, Onward

(* A call about to look up a directory. *)
LEMMA DirTop ==
  ASSUME Busy(call, metadata, tile_cache, work, bufs), At("dir")
  PROVE  \E x, w : /\ x \in Texture /\ IsList(w) /\ Later(call, w, bufs, x)
                   /\ IsTiled(x) /\ LevelReads(x) /\ work = Then(DirTask(x), w) /\ Top.x = x
<1>1. work # << >> /\ Head(work).do = "dir"
  BY DEF At, Top
<1>2. AtDir(call, work, bufs)
  BY <1>1, StageOf DEF Stage, Here
<1>3. PICK x, w : /\ x \in Texture /\ IsList(w) /\ Later(call, w, bufs, x)
                  /\ IsTiled(x) /\ LevelReads(x) /\ work = Then(DirTask(x), w)
  BY <1>2 DEF AtDir
<1>4. Top.x = x
  BY <1>3, TaskDo DEF DirTask, Top
<1> QED BY <1>3, <1>4

(* tile_dir, of a directory that is listed. *)
LEMMA HitWay ==
  ASSUME Busy(call, metadata, tile_cache, work, bufs), IInv, Readable, TileDirHit
  PROVE  Onward
<1>1. At("dir") /\ IsListed(Top.x) /\ tile_cache' = WithDirMoved(IndexOfDir(Top.x))
      /\ Continue(<< >>) /\ bufs' = bufs
  BY DEF TileDirHit
<1>2. PICK x, w : /\ x \in Texture /\ IsList(w) /\ Later(call, w, bufs, x)
                  /\ IsTiled(x) /\ LevelReads(x) /\ work = Then(DirTask(x), w) /\ Top.x = x
  BY <1>1, DirTop
<1>3. PICK S : tile_cache \in Seq(S)
  BY DEF IInv, IsList
<1> DEFINE i == IndexOfDir(x)
<1>4. i \in 1..Len(tile_cache) /\ Keys[i] = Key(x)
  <2>1. DOMAIN Keys = 1..Len(tile_cache)
    BY <1>3 DEF Keys
  <2>2. i \in DOMAIN Keys /\ Keys[i] = Key(x)
    BY <1>1, <1>2, Zenon DEF IsListed, IndexOfDir, Range
  <2> QED BY <2>1, <2>2
<1> HIDE DEF i
<1>5. tile_cache[i].pos = Source[x].pos
  <2>1. DOMAIN Keys = 1..Len(tile_cache) /\ Keys[i] = << tile_cache[i].pos, tile_cache[i].res >>
    BY <1>3, <1>4 DEF Keys
  <2> QED BY <1>4, <2>1 DEF Key
<1>6. tile_cache[i].dir = DirOf(x)
  <2>1. Right(tile_cache)
    BY IInvMeans DEF Sound
  <2>2. tile_cache[i].dir = Directory[tile_cache[i].pos]
    BY <1>4, <2>1 DEF Right
  <2> QED BY <1>5, <2>2 DEF DirOf
<1>7. tile_cache' # << >> /\ tile_cache'[1] = tile_cache[i]
  <2>1. tile_cache' = << tile_cache[i] >> \o RemoveAt(tile_cache, i)
    BY <1>1, <1>2 DEF WithDirMoved, i
  <2>2. RemoveAt(tile_cache, i) \in Seq(S) /\ tile_cache[i] \in S
    BY <1>3, <1>4, Removed
  <2>3. (<< tile_cache[i] >> \o RemoveAt(tile_cache, i))[1] = tile_cache[i]
        /\ Len(<< tile_cache[i] >> \o RemoveAt(tile_cache, i)) = Len(RemoveAt(tile_cache, i)) + 1
    BY <2>2, InFront
  <2>4. Len(RemoveAt(tile_cache, i)) \in Nat /\ Len(<< >>) = 0
    BY <2>2
  <2> QED BY <2>1, <2>3, <2>4
<1>8. call \in Request /\ Frames(call, bufs)
  BY DEF Busy
<1>9. << "dir", Source[x].pos >> \notin Broken
  <2>1. i \in DOMAIN tile_cache
    BY <1>3, <1>4
  <2> QED BY <1>5, <2>1 DEF Readable
<1> QED BY <1>1, <1>2, <1>6, <1>7, <1>8, <1>9, DirWay

(* tile_dir, of a directory that is read: the list it returns the first    *)
(* of is not empty.                                                        *)
LEMMA MissWay ==
  ASSUME Busy(call, metadata, tile_cache, work, bufs), IInv, TileDirMiss
  PROVE  Onward
<1>1. At("dir") /\ tile_cache' = WithNewDir(Top.x) /\ << "dir", Source[Top.x].pos >> \notin Broken
  BY DEF TileDirMiss
<1>2. PICK x, w : /\ x \in Texture /\ IsList(w) /\ Later(call, w, bufs, x)
                  /\ IsTiled(x) /\ LevelReads(x) /\ work = Then(DirTask(x), w) /\ Top.x = x
  BY <1>1, DirTop
<1>3. PICK S0 : tile_cache \in Seq(S0)
  BY DEF IInv, IsList
<1> DEFINE e == [pos |-> Source[x].pos, res |-> ResOf[x], dir |-> Directory[Source[x].pos]]
           S == S0 \cup {e}
           long == << e >> \o tile_cache
           n == Capacity(tile_cache_cap)
<1>4. tile_cache' = Truncated(long, n)
  BY <1>1, <1>2 DEF WithNewDir
<1>5. e.dir = DirOf(x)
  BY DEF DirOf
<1>6. tile_cache \in Seq(S) /\ e \in S
  BY <1>3
<1>7. n \in Nat /\ n >= 1
  BY CapacityClamps DEF IInv
<1> HIDE DEF e, S, n
<1>8. long \in Seq(S) /\ long[1] = e /\ Len(long) = Len(tile_cache) + 1 /\ Len(tile_cache) \in Nat
  BY <1>6, InFront
<1> HIDE DEF long
<1>9. /\ Truncated(long, n) \in Seq(S) /\ Len(Truncated(long, n)) >= 1
      /\ \A i \in 1..Len(Truncated(long, n)) : Truncated(long, n)[i] = long[i]
  <2>1. Len(Truncated(long, n)) = IF n < Len(long) THEN n ELSE Len(long)
    <3> DEFINE m == IF n < Len(long) THEN n ELSE Len(long)
    <3>1. m \in 0..Len(long)
      BY <1>7, <1>8
    <3>2. Len(SubSeq(long, 1, m)) = m
      BY <1>8, <3>1
    <3> QED BY <3>2 DEF Truncated
  <2>2. Len(Truncated(long, n)) >= 1
    BY <1>7, <1>8, <2>1
  <2> QED BY <1>7, <1>8, <2>2, TruncatedFacts
<1>10. tile_cache' # << >> /\ tile_cache'[1].dir = DirOf(x)
  <2>1. Len(Truncated(long, n)) \in Nat /\ Len(<< >>) = 0
    BY <1>9
  <2>2. 1 \in 1..Len(Truncated(long, n))
    BY <1>9, <2>1
  <2> QED BY <1>4, <1>5, <1>8, <1>9, <2>1, <2>2
<1>11. Continue(<< >>) /\ bufs' = bufs
  BY <1>10 DEF TileDirMiss
<1>12. call \in Request /\ Frames(call, bufs)
  BY DEF Busy
<1> QED BY <1>1, <1>2, <1>10, <1>11, <1>12, DirWay

(* The next tile of a face, or none. *)
LEMMA TilesWay ==
  ASSUME Busy(call, metadata, tile_cache, work, bufs), Tiles
  PROVE  Onward
<1>1. work # << >> /\ Head(work).do = "tiles"
  BY DEF Tiles, At, Top
<1>2. call \in Request /\ Frames(call, bufs) /\ bufs' = bufs
  BY DEF Busy, Tiles
<1>3. PICK x \in Texture : Ready(tile_cache, x) /\ Tiling0(call, work, bufs, x)
  BY <1>1, StageOf DEF Stage, Here
<1>4. PICK s, i : /\ Open(call, bufs, s, x) /\ IsTiled(x)
                  /\ i \in 0..NTiles(x) /\ Through(bufs[1], x, i) /\ ReadsTo(x, i)
                  /\ work = Then(Task("tiles", x, i), s)
  BY <1>3 DEF Tiling0
<1>5. IsList(s) /\ IsList(bufs) /\ Len(s) \in Nat /\ Len(bufs) = Len(s) + 1
  BY <1>4, FaceList DEF Open
<1>6. Top.x = x /\ Top.n = i /\ Tail(work) = s
  BY <1>4, <1>5, TaskDo DEF Top
<1>7. Buffer = bufs[1]
  <2>1. Len(bufs) # 0
    BY <1>5
  <2> QED BY <1>5, <2>1, HeadOf DEF Buffer
<1>8. Dir = DirOf(x) /\ Len(DirOf(x).tiles) = NTiles(x) /\ NTiles(x) = NU(x) * NV(x) /\ NTiles(x) \in Nat
  <2>1. NU(x) * NV(x) \in Nat
    BY <1>4, TiledFacts
  <2> QED BY <1>3, <1>4, <2>1, LayoutReady, TiledFacts, ManyTiles
<1>11. LevelReads(x)
  BY <1>3, <1>4 DEF Ready, IndexReads, LevelReads, IsTiled
<1>9. CASE i = NTiles(x)
  <2>1. Continue(<< >>)
    BY <1>6, <1>8, <1>9 DEF Tiles
  <2>2. work' = s /\ call' = call /\ reply' = reply
    BY <1>4, <1>5, <2>1, Proceeded
  <2>3. Finished(bufs[1], x, Corner, ResOf[x])
    BY <1>4, <1>8, <1>9, ThroughAll
  <2>5. Whole[x]
    <3>1. FaceReads(x)
      BY <1>3, <1>4, <1>9 DEF FaceReads, ReadsTo, Ready
    <3> QED BY <1>4, <3>1, WholeReads DEF IsTiled, IsStored
  <2>4. Busy(call, metadata', tile_cache', s, bufs)
    BY <1>2, <1>4, <2>3, <2>5, FaceDone
  <2> QED BY <1>2, <2>2, <2>4 DEF OnItsWay, Onward
<1>10. CASE i # NTiles(x)
  <2> DEFINE off == TileOffset(ResOf[x], DirOf(x).tile_res, i, bufs[1].stride)
             a == Task("dir", x, 0)
             b == Task("tile", x, << i, off >>)
             c == Task("tiles", x, i + 1)
             w == Then(b, Then(c, s))
  <2>1. Continue(<< a, b, c >>)
    BY <1>6, <1>7, <1>8, <1>10 DEF Tiles
  <2>2. Tiling1(call, w, bufs, x)
    <3>1. InTiling(x, i)
      BY <1>4, <1>8, <1>10 DEF InTiling
    <3> QED BY <1>4, <3>1 DEF Tiling1
  <2>3. Later(call, w, bufs, x)
    BY <2>2 DEF Later, Drawn0
  <2>4. a = DirTask(x)
    BY DEF DirTask
  <2> HIDE DEF a, b, c
  <2>5. IsList(w)
    BY <1>5, ThenFacts
  <2>6. << a, b, c >> \o s = Then(a, w)
    <3>1. << a, b, c >> = Then(a, << b, c >>) /\ << b, c >> = Then(b, << c >>)
      BY Pair, Triple
    <3>2. IsList(<< c >>) /\ IsList(<< b, c >>)
      BY <3>1, Single, ThenFacts
    <3>3. Carries(a, << b, c >>, s) /\ Carries(b, << c >>, s)
      BY <1>5, <3>2, ThenJoined
    <3> QED BY <3>1, <3>3 DEF Carries, Then
  <2>7. work' = Then(a, w) /\ call' = call /\ reply' = reply
    BY <1>6, <2>1, <2>6 DEF Continue
  <2> HIDE DEF w
  <2>8. Busy(call, metadata', tile_cache', Then(DirTask(x), w), bufs)
    BY <1>2, <1>4, <1>11, <2>3, <2>5, Fetching
  <2> QED BY <1>2, <2>4, <2>7, <2>8 DEF OnItsWay, Onward
<1> QED BY <1>9, <1>10

(* The tile of a texel. *)
LEMMA TexelWay ==
  ASSUME Busy(call, metadata, tile_cache, work, bufs), TexelOfTile
  PROVE  Onward
<1>1. work # << >> /\ Head(work).do = "texel"
  BY DEF TexelOfTile, At, Top
<1>2. call \in Request /\ Frames(call, bufs) /\ bufs' = bufs
  BY DEF Busy, TexelOfTile
<1>3. PICK x \in Texture : x = call.of /\ Ready(tile_cache, x) /\ PickTile(call, work, bufs, x)
  BY <1>1, StageOf DEF Stage, Here
<1>4. call.api = "get_pixel" /\ InFace(call, x) /\ bufs = << >> /\ IsTiled(x)
      /\ work = << Task("texel", x, << call.u, call.v >>) >>
  BY <1>3 DEF PickTile
<1>5. Top.x = x /\ Top.n = << call.u, call.v >> /\ Tail(work) = << >>
  BY <1>4, OneTask DEF Top
<1>6. TileOf(call) = TileIndex(ResOf[x], Dir.tile_res, Top.n[1], Top.n[2])
  <2>1. Dir.tile_res = TileRes(x)
    BY <1>3, <1>4, LayoutReady, ManyTiles
  <2> QED BY <1>3, <1>4, <1>5, <2>1 DEF TileOf
<1> DEFINE a == Task("dir", x, 0)
           b == Task("allocTile", x, 0)
           c == Task("tile", x, << TileOf(call), 0 >>)
           w == << b, c >>
<1>7. Continue(<< a, b, c >>)
  BY <1>5, <1>6 DEF TexelOfTile
<1>8. AllocPicked(call, w, bufs, x)
  BY <1>4 DEF AllocPicked
<1>9. Later(call, w, bufs, x)
  BY <1>3, <1>8 DEF Later, OfTile
<1>10. a = DirTask(x)
  BY DEF DirTask
<1> HIDE DEF a, b, c
<1>11. w = Then(b, << c >>) /\ << a, b, c >> = Then(a, w)
  BY Pair, Triple
<1>12. IsList(w) /\ IsList(Then(a, w))
  BY <1>11, Single, ThenFacts
<1> HIDE DEF w
<1>13. work' = Then(a, w) /\ call' = call /\ reply' = reply
  BY <1>5, <1>7, <1>11, <1>12, Joined DEF Continue
<1>15. LevelReads(x)
  BY <1>3, <1>4 DEF Ready, IndexReads, LevelReads, IsTiled
<1>14. Busy(call, metadata', tile_cache', Then(DirTask(x), w), bufs)
  BY <1>2, <1>3, <1>4, <1>9, <1>12, <1>15, Fetching
<1> QED BY <1>2, <1>10, <1>13, <1>14 DEF OnItsWay, Onward

(* read_block_into of a whole face. *)
LEMMA BlockWay ==
  ASSUME Busy(call, metadata, tile_cache, work, bufs), ReadBlock, At("block")
  PROVE  Onward
<1>1. work # << >> /\ Head(work).do = "block"
  BY DEF At, Top
<1>2. call \in Request
  BY DEF Busy
<1>3. PICK x \in Texture : Ready(tile_cache, x) /\ Blocking(call, work, bufs, x)
  BY <1>1, StageOf DEF Stage, Here
<1>4. PICK s : /\ Open(call, bufs, s, x) /\ IsStored(x) /\ ~IsTiled(x)
               /\ work = Then(Task("block", x, 0), s)
  BY <1>3 DEF Blocking
<1>5. IsList(s) /\ IsList(bufs) /\ Len(s) \in Nat /\ Len(bufs) = Len(s) + 1
  BY <1>4, FaceList DEF Open
<1>6. Top.x = x /\ Top.do = "block"
  BY <1>4, <1>5, TaskDo DEF Top
<1>7. Buffer = bufs[1]
  <2>1. Len(bufs) # 0
    BY <1>5
  <2> QED BY <1>5, <2>1, HeadOf DEF Buffer
<1>8. BlockRes = ResOf[x] /\ BlockPos = Source[x].pos /\ BlockOffset = 0
  BY <1>6 DEF BlockRes, BlockPos, BlockOffset
<1>9. Draw(bufs[1], Tail(bufs), 0, BlockImage(Source[x].pos, ResOf[x]), ResOf[x])
  BY <1>7, <1>8 DEF ReadBlock, BlockImage, Packed
<1>10. Shows(BlockImage(Source[x].pos, ResOf[x]), ResOf[x], x, Corner, 0, 0)
  BY <1>4, BlockShows
<1>11. Whole[x]
  <2>1. TileRes(x) = ResOf[x] /\ NTiles(x) = 1 /\ PosOfTile(x, 0) = Source[x].pos
    BY <1>4, OneTileOnly DEF PosOfTile
  <2>2. TileReads(x, 0)
    BY <1>8, <2>1 DEF TileReads, BlockReads, ReadBlock
  <2>3. \A j \in 0..(NTiles(x) - 1) : j = 0
    BY <2>1
  <2>4. FaceReads(x)
    BY <1>3, <2>2, <2>3 DEF FaceReads, Ready
  <2> QED BY <1>4, <2>4, WholeReads DEF IsStored
<1> QED BY <1>2, <1>4, <1>5, <1>9, <1>10, <1>11, DrawnOrNot

(* read_block_into of a tile of a face. *)
LEMMA NextTileWay ==
  ASSUME NEW x \in Texture, Ready(tile_cache, x), Tiling1(call, work, bufs, x), call \in Request,
         ReadBlock, Top.do = "tile"
  PROVE  Onward
<1>1. PICK s, i : /\ Open(call, bufs, s, x) /\ IsTiled(x)
                  /\ InTiling(x, i) /\ Through(bufs[1], x, i) /\ ReadsTo(x, i)
                  /\ work = Then(Task("tile", x, << i, TileOffset(ResOf[x], DirOf(x).tile_res, i, bufs[1].stride) >>),
                                 Then(Task("tiles", x, i + 1), s))
  BY DEF Tiling1
<1> DEFINE off == TileOffset(ResOf[x], DirOf(x).tile_res, i, bufs[1].stride)
           q == DirOf(x).tile_res
           w == Then(Task("tiles", x, i + 1), s)
           c == Paint(bufs[1], off, TileImage(x, i), q)
           cs == Then(c, Tail(bufs))
<1>2. IsList(s) /\ IsList(bufs) /\ Len(s) \in Nat /\ Len(bufs) = Len(s) + 1
      /\ Face(call, bufs, s, x) /\ Drawable(call, bufs[1], x, Len(s) = 0)
  BY <1>1, FaceList DEF Open
<1>3. IsList(w)
  BY <1>2, ThenFacts
<1>4. Top.x = x /\ Top.n = << i, off >>
  BY <1>1, <1>3, TaskDo DEF Top
<1>5. Buffer = bufs[1]
  <2>1. Len(bufs) # 0
    BY <1>2
  <2> QED BY <1>2, <2>1, HeadOf DEF Buffer
<1>6. BlockRes = q /\ BlockPos = DirOf(x).tiles[i + 1] /\ BlockOffset = off
  BY <1>1, <1>4, LayoutReady DEF BlockRes, BlockPos, BlockOffset
<1> HIDE DEF off, w
<1>7. Draw(bufs[1], Tail(bufs), off, TileImage(x, i), q)
  BY <1>5, <1>6 DEF ReadBlock, TileImage, BlockImage, Packed
<1>8. i \in 0..(NU(x) * NV(x) - 1) /\ NTiles(x) = NU(x) * NV(x) /\ NTiles(x) \in Nat
  <2>1. NU(x) * NV(x) \in Nat
    BY <1>1, TiledFacts
  <2> QED BY <1>1, <2>1, ManyTiles DEF InTiling
<1> HIDE DEF c, cs
<1>9. /\ Through(c, x, i + 1) /\ c.stride = bufs[1].stride /\ c.len = bufs[1].len
      /\ off + Needed(q, bufs[1].stride) <= bufs[1].len
  BY <1>1, <1>8, ThroughNext DEF c, off
<1>10. bufs' = cs /\ Continue(<< >>)
  BY <1>7, <1>9 DEF Draw, Then, Paint, c, cs
<1>11. work' = w /\ call' = call /\ reply' = reply
  BY <1>1, <1>3, <1>10, Proceeded DEF w, off
<1>12. tile_cache' = tile_cache
  BY DEF ReadBlock, caches
<1>13. Face(call, cs, s, x) /\ cs[1] = c
  BY <1>2, FaceOther DEF cs
<1>14. Drawable(call, c, x, Len(s) = 0)
  BY <1>2, <1>9 DEF Drawable, Through
<1>15. Open(call, cs, s, x)
  BY <1>13, <1>14 DEF Open
<1>16. i + 1 \in 0..NTiles(x)
  BY <1>8
<1>17. ReadsTo(x, i + 1)
  <2>1. TileReads(x, i)
    <3>1. PosOfTile(x, i) = BlockPos /\ TileRes(x) = BlockRes
      BY <1>1, <1>6, ManyTiles DEF PosOfTile, DirOf
    <3> QED BY <3>1 DEF TileReads, BlockReads, ReadBlock
  <2>2. \A j \in 0..((i + 1) - 1) : j = i \/ j \in 0..(i - 1)
    BY <1>8
  <2> QED BY <1>1, <2>1, <2>2 DEF ReadsTo
<1>18. Tiling0(call, w, cs, x)
  BY <1>1, <1>9, <1>13, <1>15, <1>16, <1>17 DEF Tiling0, w
<1>19. Later(call, w, cs, x) /\ Frames(call, cs)
  BY <1>15, <1>18, OpenFrames DEF Later, Drawn0
<1>20. Source[x].route # "none"
  BY <1>1 DEF IsTiled, IsStored
<1>21. Busy(call, metadata', tile_cache, w, cs)
  BY <1>3, <1>19, <1>20, Fetching
<1> QED BY <1>10, <1>11, <1>12, <1>21 DEF OnItsWay, Onward

(* read_block_into of the tile asked for. *)
LEMMA OneTileWay ==
  ASSUME NEW x \in Texture, x = call.of, Ready(tile_cache, x), OneTile(call, work, bufs, x), call \in Request,
         ReadBlock, Top.do = "tile"
  PROVE  Onward
<1> DEFINE i == TileOf(call)
           q == DirOf(x).tile_res
           t == Task("tile", x, << i, 0 >>)
           cs == Then(Paint(bufs[1], 0, TileImage(x, i), q), Tail(bufs))
<1>1. work = << t >> /\ IsTiled(x) /\ IsList(bufs) /\ Len(bufs) = 1
  BY DEF OneTile
<1>2. Top.x = x /\ Top.n = << i, 0 >>
  BY <1>1, OneTask DEF Top
<1>3. Buffer = bufs[1]
  <2>1. Len(bufs) # 0
    BY <1>1
  <2> QED BY <1>1, <2>1, HeadOf DEF Buffer
<1> HIDE DEF i
<1>4. BlockRes = q /\ BlockPos = DirOf(x).tiles[i + 1] /\ BlockOffset = 0
  BY <1>1, <1>2, LayoutReady DEF BlockRes, BlockPos, BlockOffset
<1>5. Draw(bufs[1], Tail(bufs), 0, TileImage(x, i), q)
  BY <1>3, <1>4 DEF ReadBlock, TileImage, BlockImage, Packed
<1>6. 0 + Needed(q, bufs[1].stride) <= bufs[1].len
  <2>1. Sketch(bufs[1], x, OriginOf(call), ExtentOf(call)) /\ ExtentOf(call) = q
    BY <1>1, ManyTiles DEF OneTile, ExtentOf
  <2>2. Needed(q, bufs[1].stride) <= bufs[1].len /\ bufs[1].stride \in Nat /\ bufs[1].len \in Nat
    BY <2>1 DEF Sketch, IsFrame
  <2>3. Needed(q, bufs[1].stride) \in Nat
    BY <1>1, <2>2, TiledFacts, Sides
  <2> QED BY <2>2, <2>3
<1>7. bufs' = cs /\ Continue(<< >>)
  BY <1>5, <1>6 DEF Draw, Then, Paint
<1>8. work' = << >> /\ call' = call /\ reply' = reply
  <2>1. work = Then(t, << >>)
    BY <1>1, Single
  <2> HIDE DEF t, cs
  <2> QED BY <1>7, <2>1, NoneLeft, Proceeded
<1> HIDE DEF cs
<1>9. Ready(tile_cache', x)
  BY DEF ReadBlock, caches
<1>10. TileReads(x, i)
  <2>1. PosOfTile(x, i) = BlockPos /\ TileRes(x) = BlockRes
    BY <1>1, <1>4, ManyTiles DEF PosOfTile, DirOf
  <2> QED BY <2>1 DEF TileReads, BlockReads, ReadBlock
<1>11. Busy(call, metadata', tile_cache', << >>, cs)
  BY <1>1, <1>9, <1>10, DrawnTile DEF cs, i
<1> QED BY <1>7, <1>8, <1>11 DEF OnItsWay, Onward

(* read_block_into of a tile. *)
LEMMA TileWay ==
  ASSUME Busy(call, metadata, tile_cache, work, bufs), ReadBlock, At("tile")
  PROVE  Onward
<1>1. work # << >> /\ Head(work).do = "tile" /\ Top.do = "tile"
  BY DEF At, Top
<1>2. call \in Request
  BY DEF Busy
<1>3. PICK x \in Texture : /\ Ready(tile_cache, x)
                           /\ \/ Tiling1(call, work, bufs, x)
                              \/ x = call.of /\ OneTile(call, work, bufs, x)
  BY <1>1, StageOf DEF Stage, Here
<1> QED BY <1>1, <1>2, <1>3, NextTileWay, OneTileWay

(* The meta data are at hand. *)
LEMMA MetadataWay ==
  ASSUME Busy(call, metadata, tile_cache, work, bufs), ReadMetadata
  PROVE  Onward
<1>1. work # << >> /\ Head(work).do = "metadata"
  BY DEF ReadMetadata, At, Top
<1>2. call \in Request /\ Frames(call, bufs)
  BY DEF Busy
<1>3. Loading(call, metadata, work, bufs)
  BY <1>1, StageOf DEF Stage, Here
<1>4. call.api = "metadata" /\ bufs = << >> /\ work = << Task("metadata", None, 0) >>
  BY <1>1, <1>3 DEF Loading
<1>5. Continue(<< >>) /\ bufs' = bufs /\ metadata' = TRUE
  BY DEF ReadMetadata
<1>6. work' = << >> /\ call' = call /\ reply' = reply
  <2>1. work = Then(Task("metadata", None, 0), << >>)
    BY <1>4, Single
  <2> QED BY <1>5, <2>1, NoneLeft, Proceeded
<1>7. Loading(call, TRUE, << >>, bufs)
  BY <1>4 DEF Loading
<1>8. Now(call, metadata', tile_cache', << >>, bufs)
  BY <1>5, <1>7 DEF Now
<1>9. Busy(call, metadata', tile_cache', << >>, bufs)
  BY <1>2, <1>8, NoneLeft DEF Busy
<1> QED BY <1>5, <1>6, <1>9 DEF OnItsWay, Onward

-----------------------------------------------------------------------------
(* A call begins. *)
LEMMA DataBegins ==
  ASSUME NEW r \in Request, r.api \in {"get_data_at_res", "get_data_into"}, NEW md, NEW tc
  PROVE  Busy(r, md, tc, Plan(r), FirstBuffer(r))
<1>1. r.api \in BufferApis /\ OriginOf(r) = Corner /\ ExtentOf(r) = ResOf[r.of] /\ OnlyTile(r)
  BY DEF BufferApis, TileApis, OriginOf, ExtentOf, OnlyTile
<1>2. Plan(r) = DataPlan(r.of)
  BY DEF Plan
<1>3. FirstBuffer(r) = << GivenFrame(r) >>
  BY <1>1 DEF FirstBuffer, GivenFrame, GivenStride, LenOf, Brings, PackedFrame
<1> QED BY <1>1, <1>2, <1>3, Begin

(* get_tile_into. *)
LEMMA TileIntoBegins ==
  ASSUME NEW r \in Request, r.api = "get_tile_into", NEW md, NEW tc
  PROVE  Busy(r, md, tc, Plan(r), FirstBuffer(r))
<1>1. Plan(r) = TileIntoPlan(r.of, r.tile)
  BY DEF Plan
<1>2. FirstBuffer(r) = << GivenFrame(r) >>
  BY DEF FirstBuffer, GivenFrame, GivenStride, LenOf, Brings
<1> QED BY <1>1, <1>2, TileIntoBusy

(* get_tile. *)
LEMMA TileBegins ==
  ASSUME NEW r \in Request, r.api = "get_tile", NEW md, NEW tc
  PROVE  Busy(r, md, tc, Plan(r), FirstBuffer(r))
<1> DEFINE x == r.of
           P == IndexPlan(x)
           T == TileIntoPlan(x, r.tile)
           a == Task("inRange", x, r.tile)
           b == Task("allocTile", x, 0)
           w == Then(a, Then(b, T))
<1>1. r.api \in BufferApis
  BY DEF BufferApis, TileApis
<1>2. x \in Texture /\ FirstBuffer(r) = << >>
  BY <1>1, RequestFacts DEF FirstBuffer
<1>3. Plan(r) = (P \o << a, b >>) \o T
  BY DEF Plan
<1>4. InRangeAlloc(r, w, << >>, x)
  BY DEF InRangeAlloc
<1>5. Later(r, w, << >>, x)
  BY <1>4 DEF Later, OfTile
<1>6. IsList(P) /\ IsList(T)
  BY <1>2, NoneLeft, IndexPlanThen, TileIntoList
<1> HIDE DEF P, T, a, b
<1>7. IsList(<< a, b >>) /\ << a, b >> \o T = w /\ IsList(w)
  <2>1. << a, b >> = Then(a, << b >>) /\ IsList(<< b >>)
    BY Pair, Single
  <2>2. Carries(a, << b >>, T)
    BY <1>6, <2>1, ThenJoined
  <2>3. IsList(<< a, b >>) /\ IsList(Then(b, T))
    BY <1>6, <2>1, ThenFacts
  <2>4. << a, b >> \o T = Then(a, << b >> \o T)
    BY <2>1, <2>2 DEF Carries
  <2>5. << b >> \o T = Then(b, T)
    BY DEF Then
  <2> QED BY <2>3, <2>4, <2>5, ThenFacts
<1> HIDE DEF w
<1>8. Plan(r) = P \o w
  <2>1. Regroups(P, << a, b >>, T)
    BY <1>6, <1>7, Rejoined
  <2> QED BY <1>3, <1>7, <2>1 DEF Regroups
<1>9. Busy(r, md, tc, IndexPlan(x) \o w, << >>)
  BY <1>2, <1>5, <1>7, NoFrames, Fetching
<1> QED BY <1>2, <1>8, <1>9 DEF P

(* get_pixel. *)
LEMMA PixelBegins ==
  ASSUME NEW r \in Request, r.api = "get_pixel", NEW md, NEW tc
  PROVE  Busy(r, md, tc, Plan(r), FirstBuffer(r))
<1> DEFINE x == r.of
<1>1. r.api \in BufferApis
  BY DEF BufferApis, TileApis
<1>2. x \in Texture /\ FirstBuffer(r) = << >> /\ Source[x].route # "reduced" /\ Frames(r, << >>)
  BY <1>1, RequestFacts, RequestAssumption, NoFrames DEF FirstBuffer
<1>3. Plan(r) = TexelPlan(x, r.u, r.v)
  BY DEF Plan
<1>4. Refusal = Then(RefuseTask, << >>)
  BY Single DEF Refusal, RefuseTask
<1>5. CASE ~InFace(r, x)
  <2>1. Plan(r) = Refusal
    BY <1>3, <1>5 DEF TexelPlan, InFace
  <2>2. ~Possible(r)
    BY <1>5 DEF Possible, TileApis
  <2> QED BY <1>2, <1>4, <2>1, <2>2, NoneLeft, DoomedBusy
<1>6. CASE InFace(r, x)
  <2>1. CASE Source[x].route = "none"
    <3>1. Plan(r) = Refusal \o << >>
      BY <1>3, <1>6, <2>1 DEF TexelPlan, InFace, IsStored, IndexPlan
    <3>2. Plan(r) = Refusal
      BY <1>4, <3>1, NoneLeft, ThenFacts, Joined
    <3>3. ~Possible(r)
      <4>1. ~IndexReads(x) /\ ~Whole[x]
        BY <1>2, <2>1, WholeReads DEF IndexReads
      <4> QED BY <4>1 DEF Possible, TileApis
    <3> QED BY <1>2, <1>4, <3>2, <3>3, NoneLeft, DoomedBusy
  <2>2. CASE Source[x].route # "none"
    <3> DEFINE w == IF ~IsStored(x) THEN << >>
                    ELSE IF IsTiled(x) THEN << Task("texel", x, << r.u, r.v >>) >>
                    ELSE << Task("alloc", x, 0), Task("block", x, 0) >>
    <3>1. Plan(r) = IndexPlan(x) \o w
      BY <1>3, <1>6 DEF TexelPlan, InFace
    <3>2. IsList(w)
      <4>1. IsList(<< Task("alloc", x, 0), Task("block", x, 0) >>)
        <5> DEFINE a == Task("alloc", x, 0)
                   b == Task("block", x, 0)
        <5> HIDE DEF a, b
        <5>1. IsList(<< b >>) /\ << a, b >> = Then(a, << b >>)
          BY Pair, Single
        <5>2. IsList(<< a, b >>)
          BY <5>1, ThenFacts
        <5> QED BY <5>2 DEF a, b
      <4> QED BY <4>1, Single, NoneLeft
    <3>3. Later(r, w, << >>, x)
      <4>1. CASE ~IsStored(x)
        <5>1. Source[x].route = "constant"
          BY <1>2, <2>2, <4>1, Textures DEF IsStored
        <5>2. AtHand(r, w, << >>, x)
          BY <1>6, <4>1, <5>1 DEF AtHand
        <5> QED BY <5>2 DEF Later, OfTile
      <4>2. CASE IsTiled(x)
        <5>1. PickTile(r, w, << >>, x)
          BY <1>6, <4>2 DEF PickTile, IsTiled
        <5> QED BY <5>1 DEF Later, OfTile
      <4>3. CASE IsStored(x) /\ ~IsTiled(x)
        <5>1. AllocFace(r, w, << >>, x)
          BY <1>6, <4>3 DEF AllocFace
        <5> QED BY <5>1 DEF Later, OfTile
      <4> QED BY <4>1, <4>2, <4>3
    <3> HIDE DEF w
    <3>4. Busy(r, md, tc, IndexPlan(x) \o w, << >>)
      BY <1>2, <3>2, <3>3, Fetching
    <3> QED BY <1>2, <3>1, <3>4
  <2> QED BY <2>1, <2>2
<1> QED BY <1>5, <1>6

(* tile_layout, tile_info and metadata. *)
LEMMA InfoBegins ==
  ASSUME NEW r \in Request, r.api \in {"tile_layout", "tile_info", "metadata"}, NEW md, NEW tc
  PROVE  Busy(r, md, tc, Plan(r), FirstBuffer(r))
<1> DEFINE x == r.of
           P == IndexPlan(x)
<1>1. FirstBuffer(r) = << >> /\ Frames(r, << >>)
  BY NoFrames DEF FirstBuffer
<1>2. CASE r.api = "tile_layout"
  <2>1. x \in Texture
    BY <1>2, RequestAssumption
  <2>2. AtHand(r, << >>, << >>, x)
    BY <1>2 DEF AtHand
  <2>3. Later(r, << >>, << >>, x)
    BY <2>2 DEF Later, OfTile
  <2>4. Busy(r, md, tc, P \o << >>, << >>)
    BY <1>1, <2>1, <2>3, NoneLeft, Fetching
  <2>5. P \o << >> = P
    BY <2>1, NoneLeft, IndexPlanThen, Joined
  <2>6. Plan(r) = P
    BY <1>2 DEF Plan
  <2> QED BY <1>1, <2>4, <2>5, <2>6
<1>3. CASE r.api = "tile_info"
  <2> DEFINE t == << Task("inRange", x, r.tile) >>
             w == Then(Task("inRange", x, r.tile), P)
  <2>1. x \in Texture
    BY <1>3, RequestAssumption
  <2>2. InfoRange(r, w, << >>, x)
    BY <1>3 DEF InfoRange
  <2>3. Later(r, w, << >>, x)
    BY <2>2 DEF Later, OfTile
  <2>4. IsList(P) /\ IsList(t) /\ t \o P = w
    BY <2>1, NoneLeft, IndexPlanThen, Single DEF Then
  <2>5. Plan(r) = (P \o t) \o P
    BY <1>3 DEF Plan
  <2> HIDE DEF P, t
  <2>6. IsList(w)
    BY <2>4, ThenFacts
  <2> HIDE DEF w
  <2>7. Plan(r) = P \o w
    <3>1. Regroups(P, t, P)
      BY <2>4, Rejoined
    <3> QED BY <2>4, <2>5, <3>1 DEF Regroups
  <2>8. Busy(r, md, tc, IndexPlan(x) \o w, << >>)
    BY <1>1, <2>1, <2>3, <2>6, Fetching
  <2> QED BY <1>1, <2>7, <2>8 DEF P
<1>4. CASE r.api = "metadata"
  <2>1. Plan(r) = << Task("metadata", None, 0) >>
    BY <1>4 DEF Plan
  <2>2. Loading(r, md, Plan(r), << >>)
    BY <1>4, <2>1 DEF Loading
  <2>3. IsList(Plan(r))
    BY <2>1, Single
  <2>4. Now(r, md, tc, Plan(r), << >>)
    BY <2>2 DEF Now
  <2> QED BY <1>1, <2>3, <2>4 DEF Busy
<1> QED BY <1>2, <1>3, <1>4

(* Whatever is asked. *)
LEMMA AskWay ==
  ASSUME NEW r \in Request, Ask(r)
  PROVE  OnItsWay'
<1>1. call' = r /\ work' = Plan(r) /\ bufs' = FirstBuffer(r)
  BY DEF Ask
<1>2. r.api \in {"get_data_at_res", "get_data_into", "get_tile_into", "get_tile", "get_pixel",
                 "tile_layout", "tile_info", "metadata"}
  BY RequestAssumption
<1>3. Busy(r, metadata', tile_cache', Plan(r), FirstBuffer(r))
  BY <1>2, DataBegins, TileIntoBegins, TileBegins, PixelBegins, InfoBegins
<1> QED BY <1>1, <1>3 DEF OnItsWay

-----------------------------------------------------------------------------
(* Refusals: no call that could have been answered is refused. *)

(* A block of a texture that is not tiled, which cannot be read. *)
LEMMA BlockRefused ==
  ASSUME Busy(call, metadata, tile_cache, work, bufs), At("block"),
         BlockPos \in Refused \/ Undecodable(BlockPos, BlockRes)
  PROVE  ~Possible(call)
<1>1. work # << >> /\ Head(work).do = "block"
  BY DEF At, Top
<1>2. PICK x \in Texture : Ready(tile_cache, x) /\ Blocking(call, work, bufs, x)
  BY <1>1, StageOf DEF Stage, Here
<1>3. PICK s : /\ Open(call, bufs, s, x) /\ IsStored(x) /\ ~IsTiled(x)
               /\ work = Then(Task("block", x, 0), s)
  BY <1>2 DEF Blocking
<1>4. IsList(s)
  BY <1>3, FaceList DEF Open
<1>5. Top.x = x /\ Top.do = "block"
  BY <1>3, <1>4, TaskDo DEF Top
<1>6. BlockRes = ResOf[x] /\ BlockPos = Source[x].pos
  BY <1>5 DEF BlockRes, BlockPos
<1>7. TileRes(x) = ResOf[x] /\ NTiles(x) = 1 /\ PosOfTile(x, 0) = Source[x].pos
  BY <1>3, OneTileOnly DEF PosOfTile
<1>8. ~TileReads(x, 0)
  BY <1>3, <1>6, <1>7 DEF TileReads, BlockReads
<1>9. ~FaceReads(x)
  <2>1. 0 \in 0..(NTiles(x) - 1)
    BY <1>7
  <2> QED BY <1>8, <2>1 DEF FaceReads
<1>10. ~Whole[x]
  BY <1>3, <1>9, WholeReads DEF IsStored
<1> QED BY <1>3, <1>10 DEF Open, Face

(* A tile that cannot be read, of a face that is drawn, or the one asked   *)
(* for.                                                                    *)
LEMMA TileRefused ==
  ASSUME Busy(call, metadata, tile_cache, work, bufs), At("tile"),
         BlockPos \in Refused \/ Undecodable(BlockPos, BlockRes)
  PROVE  ~Possible(call)
<1>1. work # << >> /\ Head(work).do = "tile" /\ Top.do = "tile"
  BY DEF At, Top
<1>2. PICK x \in Texture : /\ Ready(tile_cache, x)
                           /\ \/ Tiling1(call, work, bufs, x)
                              \/ x = call.of /\ OneTile(call, work, bufs, x)
  BY <1>1, StageOf DEF Stage, Here
<1>3. CASE Tiling1(call, work, bufs, x)
  <2>1. PICK s, i : /\ Open(call, bufs, s, x) /\ IsTiled(x) /\ InTiling(x, i)
                    /\ work = Then(Task("tile", x, << i, TileOffset(ResOf[x], DirOf(x).tile_res, i, bufs[1].stride) >>),
                                   Then(Task("tiles", x, i + 1), s))
    BY <1>3 DEF Tiling1
  <2> DEFINE off == TileOffset(ResOf[x], DirOf(x).tile_res, i, bufs[1].stride)
             w == Then(Task("tiles", x, i + 1), s)
  <2>2. IsList(w)
    BY <2>1, FaceList, ThenFacts DEF Open
  <2>3. Top.x = x /\ Top.n = << i, off >>
    BY <2>1, <2>2, TaskDo DEF Top
  <2> HIDE DEF off, w
  <2>4. BlockRes = DirOf(x).tile_res /\ BlockPos = DirOf(x).tiles[i + 1]
    BY <1>1, <1>2, <2>1, <2>3, LayoutReady DEF BlockRes, BlockPos
  <2>5. ~TileReads(x, i)
    <3>1. PosOfTile(x, i) = BlockPos /\ TileRes(x) = BlockRes
      BY <2>1, <2>4, ManyTiles DEF PosOfTile, DirOf
    <3> QED BY <2>1, <3>1 DEF TileReads, BlockReads, IsTiled
  <2>6. ~Whole[x]
    BY <2>1, <2>5, WholeReads DEF FaceReads, InTiling, IsTiled, IsStored
  <2> QED BY <2>1, <2>6 DEF Open, Face
<1>4. CASE x = call.of /\ OneTile(call, work, bufs, x)
  <2> DEFINE i == TileOf(call)
  <2>1. work = << Task("tile", x, << i, 0 >>) >> /\ IsTiled(x) /\ call.api \in TileApis
    BY <1>4 DEF OneTile
  <2> HIDE DEF i
  <2>2. Top.x = x /\ Top.n = << i, 0 >>
    BY <2>1, OneTask DEF Top
  <2>3. BlockRes = DirOf(x).tile_res /\ BlockPos = DirOf(x).tiles[i + 1]
    BY <1>1, <1>2, <2>1, <2>2, LayoutReady DEF BlockRes, BlockPos
  <2>4. ~TileReads(x, i)
    <3>1. PosOfTile(x, i) = BlockPos /\ TileRes(x) = BlockRes
      BY <2>1, <2>3, ManyTiles DEF PosOfTile, DirOf
    <3> QED BY <2>1, <3>1 DEF TileReads, BlockReads, IsTiled
  <2> QED BY <1>4, <2>1, <2>4 DEF Possible, TileApis, i
<1> QED BY <1>2, <1>3, <1>4

(* The index of a level, or a directory, that cannot be read. *)
LEMMA IndexRefused ==
  ASSUME Busy(call, metadata, tile_cache, work, bufs),
         \/ At("level") /\ << "level", Top.x >> \in Broken
         \/ At("dir") /\ << "dir", Source[Top.x].pos >> \in Broken
  PROVE  ~Possible(call)
<1>1. CASE At("level") /\ << "level", Top.x >> \in Broken
  <2>1. AtLevel(call, work, bufs)
    BY <1>1, StageOf DEF Stage, Here, At, Top
  <2>2. PICK x, w : /\ x \in Texture /\ IsList(w) /\ Later(call, w, bufs, x) /\ IsStored(x)
                    /\ work = Then(LevelTask(x), IF IsTiled(x) THEN Then(DirTask(x), w) ELSE w)
    BY <2>1 DEF AtLevel
  <2>3. Top.x = Source[x].level
    <3>1. IsList(IF IsTiled(x) THEN Then(DirTask(x), w) ELSE w)
      BY <2>2, ThenFacts
    <3> QED BY <2>2, <3>1, TaskDo DEF LevelTask, Top
  <2>4. ~IndexReads(x)
    BY <1>1, <2>2, <2>3 DEF IndexReads
  <2> QED BY <2>2, <2>4, NeededIndex
<1>2. CASE At("dir") /\ << "dir", Source[Top.x].pos >> \in Broken
  <2>1. PICK x, w : x \in Texture /\ Later(call, w, bufs, x) /\ IsTiled(x) /\ Top.x = x
    BY <1>2, DirTop
  <2>2. ~IndexReads(x)
    BY <1>2, <2>1 DEF IndexReads
  <2> QED BY <2>1, <2>2, NeededIndex
<1> QED BY <1>1, <1>2

(* Whatever a call is refused for, it or the file is to blame. *)
LEMMA RefuseWay ==
  ASSUME Busy(call, metadata, tile_cache, work, bufs), Refuse
  PROVE  Onward
<1>1. call \in Request /\ Return(<< "err", "Refused" >>)
  BY DEF Busy, Refuse
<1>2. CASE At("refuse")
  <2>1. Doomed(call, work)
    BY <1>2, StageOf DEF Stage, Here, At, Top
  <2> QED BY <1>1, <2>1, RefusedRightly DEF Doomed
<1>3. CASE At("metadata") /\ << "metadata" >> \in Broken
  <2>1. Loading(call, metadata, work, bufs)
    BY <1>3, StageOf DEF Stage, Here, At, Top
  <2>2. ~Possible(call)
    <3>1. call.api = "metadata"
      BY <2>1 DEF Loading
    <3> QED BY <1>3, <3>1 DEF Possible, TileApis
  <2> QED BY <1>1, <2>2, RefusedRightly
<1>4. CASE (At("block") \/ At("tile")) /\ (BlockPos \in Refused \/ Undecodable(BlockPos, BlockRes))
  BY <1>1, <1>4, BlockRefused, TileRefused, RefusedRightly
<1>5. CASE \/ At("level") /\ << "level", Top.x >> \in Broken
           \/ At("dir") /\ << "dir", Source[Top.x].pos >> \in Broken
  BY <1>1, <1>5, IndexRefused, RefusedRightly
<1> QED BY <1>2, <1>3, <1>4, <1>5 DEF Refuse

(* A stream that fails may make any call fail. *)
LEMMA FaultWay ==
  ASSUME Busy(call, metadata, tile_cache, work, bufs), Fault
  PROVE  Onward
<1>1. call \in Request /\ Return(<< "err", "Io" >>)
  BY DEF Busy, Fault
<1> QED BY <1>1, OutcomesAre, Returned DEF Onward, Answering

-----------------------------------------------------------------------------
(* Answers: each is what the file makes it. *)

(* What a call that returns a picture is to return. *)
LEMMA ExpectedPicture ==
  ASSUME NEW cl \in Request, cl.api \in BufferApis, cl.api # "get_pixel"
  PROVE  Expected(cl) = [k \in 0..(LenOf(cl) - 1) |->
                           Pic(cl.of, OriginOf(cl), ExtentOf(cl), StrideOf(cl), k)]
<1> DEFINE x == cl.of
           P(o, r, s, len) == [k \in 0..(len - 1) |-> Pic(x, o, r, s, k)]
<1>1. ASSUME NEW o, NEW r, NEW s, NEW len
      PROVE  Picture(x, o, r, s, len) = P(o, r, s, len)
  BY DEF Picture, Pic, Col, Row
<1> HIDE DEF P
<1>2. Expected(cl) = P(OriginOf(cl), ExtentOf(cl), StrideOf(cl), LenOf(cl))
  <2>1. CASE cl.api = "get_data_at_res"
    BY <1>1, <2>1 DEF Expected, OriginOf, ExtentOf, StrideOf, GivenStride, LenOf, Brings, TileApis, Corner
  <2>2. CASE cl.api = "get_data_into"
    BY <1>1, <2>2 DEF Expected, OriginOf, ExtentOf, StrideOf, GivenStride, LenOf, Brings, TileApis, Corner, Stride
  <2>3. CASE cl.api = "get_tile"
    BY <1>1, <2>3 DEF Expected, OriginOf, ExtentOf, StrideOf, GivenStride, LenOf, Brings, TileApis, TileOf
  <2>4. CASE cl.api = "get_tile_into"
    BY <1>1, <2>4 DEF Expected, OriginOf, ExtentOf, StrideOf, GivenStride, LenOf, Brings, TileApis, TileOf, Stride
  <2> QED BY <2>1, <2>2, <2>3, <2>4 DEF BufferApis, TileApis
<1> QED BY <1>2 DEF P

(* Where a call is that has nothing left to do. *)
Over(cl, md, tc, bs) ==
  \/ Done(cl, tc, << >>, bs)
  \/ cl.api = "metadata" /\ md = TRUE
  \/ /\ cl.of \in Texture /\ Source[cl.of].route # "none"
     /\ Ready(tc, cl.of) /\ AtHand(cl, << >>, bs, cl.of)

(* A call with nothing left to do is there. *)
LEMMA OverWhen ==
  ASSUME NEW cl, NEW md, NEW tc, NEW bs, Busy(cl, md, tc, << >>, bs)
  PROVE  Over(cl, md, tc, bs)
<1>1. ASSUME NEW do, NEW x, NEW n, NEW s, IsList(s), << >> = Then(Task(do, x, n), s)
      PROVE  FALSE
  BY <1>1, TaskDo
<1>2. CASE Now(cl, md, tc, << >>, bs)
  <2>1. ~Starting(cl, << >>, bs)
    <3> SUFFICES ASSUME NEW x, NEW s, Face(cl, bs, s, x), << >> = Then(Task("fits", x, 0), Drawing0(x, s))
                 PROVE  FALSE
      BY DEF Starting
    <3>1. IsList(Drawing0(x, s))
      BY FaceList, DataPlanThen
    <3> QED BY <1>1, <3>1
  <2>2. ~Filling(cl, << >>, bs)
    <3> SUFFICES ASSUME NEW x, NEW s, Open(cl, bs, s, x), << >> = Then(Task("fill", x, 0), s)
                 PROVE  FALSE
      BY DEF Filling
    <3>1. IsList(s)
      BY FaceList DEF Open
    <3> QED BY <1>1, <3>1
  <2>3. ~Packing(cl, << >>, bs)
    <3> SUFFICES ASSUME NEW x, NEW s, Open(cl, bs, s, x),
                        << >> = Then(Task("packed", Source[x].from, 0), Then(Task("reduce", x, 0), s))
                 PROVE  FALSE
      BY DEF Packing
    <3>1. IsList(Then(Task("reduce", x, 0), s))
      BY FaceList, ThenFacts DEF Open
    <3> QED BY <1>1, <3>1
  <2>4. ~Reducing(cl, << >>, bs) /\ ~Doomed(cl, << >>)
    BY DEF Reducing, Doomed
  <2>5. Loading(cl, md, << >>, bs) => cl.api = "metadata" /\ md = TRUE
    BY DEF Loading
  <2> QED BY <1>2, <2>1, <2>2, <2>3, <2>4, <2>5 DEF Now, Over
<1>3. CASE Awaiting(cl, tc, << >>, bs)
  <2>1. PICK x, w : /\ x \in Texture /\ Source[x].route # "none" /\ IsList(w)
                    /\ Behind(<< >>, tc, x, w) /\ Later(cl, w, bs, x)
    BY <1>3 DEF Awaiting
  <2>2. << >> # Then(DirTask(x), w) /\ << >> # Then(LevelTask(x), w)
        /\ << >> # Then(LevelTask(x), Then(DirTask(x), w))
    <3>1. IsList(Then(DirTask(x), w))
      BY <2>1, ThenFacts
    <3> QED BY <1>1, <2>1, <3>1 DEF DirTask, LevelTask
  <2>3. w = << >> /\ Ready(tc, x)
    BY <2>1, <2>2 DEF Behind
  <2>4. Later(cl, << >>, bs, x)
    BY <2>1, <2>3
  <2>5. ~Drawn0(cl, << >>, bs, x)
    <3>1. ASSUME NEW s, Open(cl, bs, s, x)
          PROVE  IsList(s) /\ \A i : IsList(Then(Task("tiles", x, i), s))
      BY <3>1, FaceList, ThenFacts DEF Open
    <3>2. ~Blocking(cl, << >>, bs, x)
      BY <1>1, <3>1 DEF Blocking
    <3>3. ~Tiling0(cl, << >>, bs, x)
      BY <1>1, <3>1 DEF Tiling0
    <3>4. ~Tiling1(cl, << >>, bs, x)
      BY <1>1, <3>1 DEF Tiling1
    <3> QED BY <3>2, <3>3, <3>4 DEF Drawn0
  <2>6. AtHand(cl, << >>, bs, x)
    <3>1. IsList(TileIntoPlan(x, cl.tile)) /\ IsList(AfterRange(x, cl.tile)) /\ IsList(IndexPlan(x))
      BY <2>1, TileIntoList, TilePlanThen, IndexPlanThen, NoneLeft
    <3>2. IsList(Then(Task("allocTile", x, 0), TileIntoPlan(x, cl.tile)))
      BY <3>1, ThenFacts
    <3>3. IsList(IndexPlan(x) \o << Task("tile", x, << cl.tile, 0 >>) >>)
      BY <2>1, Single, IndexPlanThen
    <3>4. ~InRangeAlloc(cl, << >>, bs, x) /\ ~AllocTile(cl, << >>, bs, x) /\ ~InRange(cl, << >>, bs, x)
      BY <1>1, <3>1, <3>2 DEF InRangeAlloc, AllocTile, InRange
    <3>5. ~FitsTile(cl, << >>, bs, x) /\ ~InfoRange(cl, << >>, bs, x)
      BY <1>1, <3>1, <3>3 DEF FitsTile, InfoRange
    <3>6. ~OneTile(cl, << >>, bs, x) /\ ~PickTile(cl, << >>, bs, x)
          /\ ~AllocFace(cl, << >>, bs, x) /\ ~AllocPicked(cl, << >>, bs, x)
      BY DEF OneTile, PickTile, AllocFace, AllocPicked
    <3> QED BY <2>4, <2>5, <3>4, <3>5, <3>6 DEF Later, OfTile
  <2>7. cl.of = x
    BY <2>4, <2>5 DEF Later
  <2> QED BY <2>1, <2>3, <2>6, <2>7 DEF Over
<1> QED BY <1>2, <1>3 DEF Busy

(* A whole-face or tile call returns the picture it asked for. *)
LEMMA PictureIsRight ==
  ASSUME NEW cl \in Request, NEW tc, NEW bs, Done(cl, tc, << >>, bs), cl.api # "get_pixel"
  PROVE  Head(bs).data = Expected(cl)
<1> DEFINE b == bs[1]
           P(k) == Pic(cl.of, OriginOf(cl), ExtentOf(cl), StrideOf(cl), k)
<1>1. /\ cl.api \in BufferApis /\ IsList(bs) /\ Len(bs) # 0
      /\ Finished(b, cl.of, OriginOf(cl), ExtentOf(cl)) /\ b.stride = StrideOf(cl) /\ b.len = LenOf(cl)
  BY DEF Done
<1>2. Head(bs) = b
  BY <1>1, HeadOf
<1>3. b.data = [k \in 0..(LenOf(cl) - 1) |-> b.data[k]]
  BY <1>1 DEF Finished, Sketch, IsFrame
<1>4. \A k \in 0..(LenOf(cl) - 1) : b.data[k] = P(k)
  BY <1>1 DEF Finished
<1>5. Expected(cl) = [k \in 0..(LenOf(cl) - 1) |-> P(k)]
  BY <1>1, ExpectedPicture
<1> HIDE DEF b, P
<1>6. b.data = [k \in 0..(LenOf(cl) - 1) |-> P(k)]
  BY <1>3, <1>4
<1> QED BY <1>2, <1>5, <1>6

(* The place of a texel in its tile. *)
PlaceIn(r, u, v) == (v - (v \div V(r)) * V(r)) * U(r) + (u - (u \div U(r)) * U(r))

(* It is in the tile, and its own. *)
LEMMA PlaceInTile ==
  ASSUME NEW cl \in Request, cl.api = "get_pixel", Picks(cl)
  PROVE  LET x == cl.of
             r == TileRes(x)
             o == OriginOf(cl)
             k == PlaceIn(r, cl.u, cl.v)
         IN  /\ k \in 0..(Size(r) - 1) /\ Col(k, U(r)) < U(r) /\ Row(k, U(r)) < V(r)
             /\ o[1] + Col(k, U(r)) = cl.u /\ o[2] + Row(k, U(r)) = cl.v
<1> DEFINE x == cl.of
           r == TileRes(x)
           u == cl.u
           v == cl.v
           i == TileIndex(ResOf[x], r, u, v)
           c == u - (u \div U(r)) * U(r)
           d == v - (v \div V(r)) * V(r)
           o == Origin(x, i)
<1>1. x \in Texture /\ r \in Resolution /\ ResOf[x] \in Resolution /\ u \in Nat /\ v \in Nat
      /\ u < U(ResOf[x]) /\ v < V(ResOf[x]) /\ OriginOf(cl) = o
  <2>1. x \in Texture /\ r \in Resolution /\ ResOf[x] \in Resolution
    BY RequestFacts DEF BufferApis, TileApis
  <2>2. U(ResOf[x]) \in Nat /\ V(ResOf[x]) \in Nat
    BY <2>1, Sides
  <2>3. OriginOf(cl) = o
    BY DEF OriginOf, TileApis, TileOf
  <2> QED BY <2>1, <2>2, <2>3 DEF Picks, InFace
<1>2. c \in Nat /\ d \in Nat /\ c < U(r) /\ d < V(r) /\ o[1] + c = u /\ o[2] + d = v
  <2>1. CASE IsTiled(x)
    <3>1. r = DirOf(x).tile_res /\ o = << TileX(x, i), TileY(x, i) >>
      BY <1>1, <2>1, ManyTiles
    <3>2. /\ TileX(x, i) <= u /\ u < TileX(x, i) + TW(x)
          /\ TileY(x, i) <= v /\ v < TileY(x, i) + TH(x)
          /\ Col(u, TW(x)) = u - TileX(x, i) /\ Col(v, TH(x)) = v - TileY(x, i)
          /\ i \in 0..(NU(x) * NV(x) - 1)
      BY <1>1, <2>1, <3>1, TileOfPlace
    <3>3. TileX(x, i) \in Nat /\ TileY(x, i) \in Nat
      BY <1>1, <2>1, <3>2, TileInFace
    <3>4. U(r) = TW(x) /\ V(r) = TH(x) /\ TW(x) \in Nat \ {0} /\ TH(x) \in Nat \ {0}
      BY <1>1, <2>1, <3>1, TiledFacts DEF TW, TH
    <3>5. c = Col(u, TW(x)) /\ d = Col(v, TH(x))
      <4> HIDE DEF r, u, v
      <4>1. u \div TW(x) \in Nat /\ u % TW(x) \in 0..(TW(x) - 1) /\ u = (u \div TW(x)) * TW(x) + (u % TW(x))
        BY <1>1, <3>4, DivModOf
      <4>2. v \div TH(x) \in Nat /\ v % TH(x) \in 0..(TH(x) - 1) /\ v = (v \div TH(x)) * TH(x) + (v % TH(x))
        BY <1>1, <3>4, DivModOf
      <4>3. (u \div TW(x)) * TW(x) \in Nat /\ (v \div TH(x)) * TH(x) \in Nat
        BY <3>4, <4>1, <4>2
      <4>4. c = u - (u \div TW(x)) * TW(x) /\ d = v - (v \div TH(x)) * TH(x)
        BY <3>4
      <4>5. \A a, p, m \in Nat : a = p + m => a - p = m
        OBVIOUS
      <4> HIDE DEF c, d
      <4>6. c = u % TW(x) /\ d = v % TH(x)
        BY <1>1, <4>1, <4>2, <4>3, <4>4, <4>5
      <4> QED BY <4>6 DEF Col
    <3> HIDE DEF c, d, o, i, r, u, v
    <3>6. o[1] = TileX(x, i) /\ o[2] = TileY(x, i)
      BY <3>1
    <3> QED BY <1>1, <3>2, <3>3, <3>4, <3>5, <3>6
  <2>2. CASE ~IsTiled(x)
    <3>1. r = ResOf[x] /\ Origin(x, 0) = Corner /\ i = 0
      BY <1>1, <2>2, OneTileOnly
    <3>2. o[1] = 0 /\ o[2] = 0
      BY <3>1 DEF Corner
    <3>3. \A n \in Nat, k \in Nat : k < n => k \div n = 0
      <4> TAKE n \in Nat, k \in Nat
      <4> HAVE k < n
      <4>1. k = 0 * n + k /\ k \in 0..(n - 1)
        OBVIOUS
      <4> QED BY <4>1, DivMod
    <3>4. U(r) \in Nat /\ V(r) \in Nat
      BY <1>1, Sides
    <3>5. u \div U(r) = 0 /\ v \div V(r) = 0
      BY <1>1, <3>1, <3>3, <3>4
    <3> HIDE DEF o, i, r, u, v
    <3>6. c = u /\ d = v
      BY <1>1, <3>4, <3>5
    <3> QED BY <1>1, <3>1, <3>2, <3>6
  <2> QED BY <2>1, <2>2
<1> HIDE DEF c, d, o, i, r, u, v
<1>3. LET k == d * U(r) + c
      IN  k \in 0..(Size(r) - 1) /\ Col(k, U(r)) = c /\ Row(k, U(r)) = d
  BY <1>1, <1>2, PlaceInImage
<1>4. PlaceIn(r, u, v) = d * U(r) + c
  BY DEF PlaceIn, c, d
<1>5. LET k == PlaceIn(r, u, v)
      IN  /\ k \in 0..(Size(r) - 1) /\ Col(k, U(r)) < U(r) /\ Row(k, U(r)) < V(r)
          /\ o[1] + Col(k, U(r)) = u /\ o[2] + Row(k, U(r)) = v
  BY <1>2, <1>3, <1>4
<1> QED BY <1>1, <1>5 DEF r, u, v

(* A pixel call returns the texel at its place. *)
LEMMA TexelIsRight ==
  ASSUME call \in Request, Done(call, tile_cache, << >>, bufs), call.api = "get_pixel"
  PROVE  PickedTexel(call.of, call.u, call.v) = Expected(call)
<1> DEFINE x == call.of
           r == TileRes(x)
           k == PlaceIn(r, call.u, call.v)
           b == bufs[1]
<1>1. /\ Picks(call) /\ AtFront(tile_cache, x) /\ IsList(bufs) /\ Len(bufs) # 0
      /\ Finished(b, x, OriginOf(call), ExtentOf(call)) /\ b.stride = StrideOf(call) /\ b.len = LenOf(call)
  BY DEF Done
<1>2. x \in Texture /\ r \in Resolution
  BY RequestFacts DEF BufferApis, TileApis
<1>3. ExtentOf(call) = r /\ StrideOf(call) = U(r) /\ LenOf(call) = Size(r)
  <2>1. U(r) # 0
    BY <1>2, Sides
  <2> QED BY <2>1 DEF ExtentOf, TileApis, StrideOf, GivenStride, LenOf, Brings
<1>4. PickedTexel(x, call.u, call.v) = Buffer.data[k]
  BY <1>1, LayoutAtFront DEF PickedTexel, PlaceIn, Picks
<1>5. Buffer = b
  BY <1>1, HeadOf DEF Buffer
<1>6. /\ k \in 0..(Size(r) - 1) /\ Col(k, U(r)) < U(r) /\ Row(k, U(r)) < V(r)
      /\ OriginOf(call)[1] + Col(k, U(r)) = call.u /\ OriginOf(call)[2] + Row(k, U(r)) = call.v
  BY <1>1, PlaceInTile
<1>7. Expected(call) = Pixels[x][<< call.u, call.v >>]
  BY DEF Expected
<1> HIDE DEF r, k, b
<1>8. b.data[k] = Pic(x, OriginOf(call), r, U(r), k)
  BY <1>1, <1>3, <1>6 DEF Finished
<1>9. Pic(x, OriginOf(call), r, U(r), k) = Pixels[x][<< call.u, call.v >>]
  BY <1>6 DEF Pic
<1> QED BY <1>4, <1>5, <1>7, <1>8, <1>9 DEF k, b

(* What is said of a texture and of a tile of it, once its directory is at *)
(* hand, is what the file says of it.                                      *)
LEMMA SaidRightly ==
  ASSUME call \in Request, NEW x \in Texture, x = call.of, Source[x].route # "none",
         Ready(tile_cache, x), AtHand(call, << >>, bufs, x)
  PROVE  Result(call) = Expected(call) /\ Possible(call)
<1>1. AtFront(tile_cache, x) /\ IndexReads(x)
  BY DEF Ready
<1>2. Layout(x).tile_res = TileRes(x) /\ (IsTiled(x) => Dir = DirOf(x))
  BY <1>1, LayoutAtFront
<1>3. ~IsTiled(x) => PosOfTile(x, 0) = Source[x].pos
  BY DEF PosOfTile
<1>4. Source[x].route \in {"constant", "stored", "reduced"}
  BY Textures
<1>5. CASE call.api = "tile_layout"
  <2>1. Layout(x).is_constant <=> ~IsTiled(x) /\ OneColour(x, 0)
    BY <1>3, <1>4 DEF Layout, OneColour, IsTiled, IsStored
  <2>2. Layout(x).is_constant = (~IsTiled(x) /\ OneColour(x, 0))
    <3>1. Layout(x).is_constant \in BOOLEAN
      BY DEF Layout
    <3> QED BY <2>1, <3>1
  <2>3. Layout(x).is_stored = (Source[x].route # "reduced")
    BY <1>4 DEF Layout
  <2>4. Layout(x).ntilesu = Across(x) /\ Layout(x).ntilesv = TwoTo[ResOf[x].v - TileRes(x).v]
    BY <1>2 DEF Layout, Across, NTilesU, NTilesV
  <2>5. Layout(x) = [res |-> ResOf[x], tile_res |-> TileRes(x), ntilesu |-> Across(x),
                     ntilesv |-> TwoTo[ResOf[x].v - TileRes(x).v], is_tiled |-> IsTiled(x),
                     is_constant |-> ~IsTiled(x) /\ OneColour(x, 0),
                     is_stored |-> Source[x].route # "reduced"]
    <3> DEFINE c == ~IsTiled(x) /\ OneColour(x, 0)
               s == Source[x].route # "reduced"
               n == Layout(x).ntilesu
               m == Layout(x).ntilesv
    <3>1. /\ Layout(x).is_constant = c /\ Layout(x).is_stored = s
          /\ n = Across(x) /\ m = TwoTo[ResOf[x].v - TileRes(x).v]
      BY <2>2, <2>3, <2>4
    <3>2. Layout(x) = [res |-> ResOf[x], tile_res |-> Layout(x).tile_res, ntilesu |-> n,
                       ntilesv |-> m, is_tiled |-> IsTiled(x),
                       is_constant |-> Layout(x).is_constant, is_stored |-> Layout(x).is_stored]
      BY Zenon DEF Layout
    <3> QED BY <1>2, <3>1, <3>2, Zenon
  <2>6. Result(call) = Layout(x) /\ Possible(call)
    BY <1>1, <1>5 DEF Result, Possible, TileApis
  <2> QED BY <1>5, <2>5, <2>6 DEF Expected
<1>6. CASE call.api = "tile_info" /\ InTiling(x, call.tile)
  <2> DEFINE i == call.tile
             pos == IF IsTiled(x) THEN Dir.tiles[i + 1] ELSE Source[x].pos
             said == IF IsStored(x) THEN Encoding[pos] = "constant" ELSE Layout(x).is_constant
  <2>1. pos = PosOfTile(x, i)
    BY <1>2 DEF PosOfTile, DirOf
  <2>2. TileOrigin(ResOf[x], Layout(x).tile_res, i) = Origin(x, i)
    BY <1>2 DEF TileOrigin, Origin, Across, NTilesU
  <2>3. ~IsStored(x) => (Layout(x).is_constant <=> Source[x].route = "constant")
    BY DEF Layout
  <2>4. said <=> OneColour(x, i)
    BY <2>1, <2>3 DEF OneColour, IsStored
  <2>5. said \in BOOLEAN /\ OneColour(x, i) \in BOOLEAN
    BY DEF Layout, OneColour
  <2>6. TileInfo(x, i) = [res |-> Layout(x).tile_res,
                          origin |-> TileOrigin(ResOf[x], Layout(x).tile_res, i),
                          is_constant |-> said,
                          file_offset |-> IF IsStored(x) THEN << pos >> ELSE << >>]
    BY Zenon DEF TileInfo
  <2> HIDE DEF said, pos
  <2>7. said = OneColour(x, i)
    BY <2>4, <2>5
  <2>8. TileInfo(x, i) = [res |-> TileRes(x), origin |-> Origin(x, i),
                          is_constant |-> OneColour(x, i),
                          file_offset |-> IF IsStored(x) THEN << PosOfTile(x, i) >> ELSE << >>]
    BY <1>2, <2>1, <2>2, <2>6, <2>7, Zenon
  <2>9. Result(call) = TileInfo(x, i) /\ Possible(call)
    BY <1>1, <1>6 DEF Result, Possible, TileApis
  <2> QED BY <1>6, <2>8, <2>9 DEF Expected
<1>7. CASE call.api = "get_pixel" /\ InFace(call, x) /\ Source[x].route = "constant"
  <2>1. /\ call.u \in Nat /\ call.v \in Nat /\ U(ResOf[x]) \in Nat /\ V(ResOf[x]) \in Nat
        /\ call.u < U(ResOf[x]) /\ call.v < V(ResOf[x])
    <3>1. U(ResOf[x]) \in Nat /\ V(ResOf[x]) \in Nat
      BY Textures, Sides
    <3> QED BY <1>7, <3>1 DEF InFace
  <2>2. Pixels[x][<< call.u, call.v >>] = Shade(x)
    BY <1>7, <2>1, PixelAt
  <2>3. Result(call) = Shade(x)
    BY <1>7 DEF Result, PickedTexel, IsStored
  <2>4. Expected(call) = Pixels[x][<< call.u, call.v >>]
    BY <1>7 DEF Expected
  <2>5. Whole[x]
    BY <1>1, <1>7, WholeReads DEF FaceReads, TileReads, IsStored
  <2>6. ~IsTiled(x)
    BY <1>7 DEF IsTiled, IsStored
  <2>7. Possible(call)
    BY <1>7, <2>5, <2>6 DEF Possible, TileApis
  <2> QED BY <2>2, <2>3, <2>4, <2>7
<1> QED BY <1>5, <1>6, <1>7 DEF AtHand

(* A call that has nothing left to do returns what it is to return. *)
LEMMA AnswerWay ==
  ASSUME Busy(call, metadata, tile_cache, work, bufs), Readable, Answer
  PROVE  Onward
<1>1. call \in Request /\ work = << >> /\ Return(<< call.api, Result(call) >>)
  BY DEF Busy, Answer
<1>2. Over(call, metadata, tile_cache, bufs)
  BY <1>1, OverWhen
<1>3. Possible(call) /\ Result(call) = Expected(call)
  <2>1. CASE Done(call, tile_cache, << >>, bufs) /\ call.api # "get_pixel"
    <3>1. Buffer.data = Expected(call)
      BY <1>1, <2>1, PictureIsRight DEF Buffer
    <3>2. Result(call) = Buffer.data
      BY <2>1 DEF Result, Done, BufferApis, TileApis
    <3> QED BY <2>1, <3>1, <3>2 DEF Done
  <2>2. CASE Done(call, tile_cache, << >>, bufs) /\ call.api = "get_pixel"
    <3>1. PickedTexel(call.of, call.u, call.v) = Expected(call)
      BY <1>1, <2>2, TexelIsRight
    <3>2. Result(call) = PickedTexel(call.of, call.u, call.v)
      BY <2>2 DEF Result
    <3> QED BY <2>2, <3>1, <3>2 DEF Done
  <2>3. CASE call.api = "metadata" /\ metadata = TRUE
    <3>1. Result(call) = TRUE /\ Expected(call) = TRUE
      BY <2>3 DEF Result, Expected
    <3>2. Possible(call)
      <4>1. << "metadata" >> \notin Broken
        BY <2>3 DEF Readable
      <4> QED BY <2>3, <4>1 DEF Possible, TileApis
    <3> QED BY <3>1, <3>2
  <2>4. CASE /\ call.of \in Texture /\ Source[call.of].route # "none"
             /\ Ready(tile_cache, call.of) /\ AtHand(call, << >>, bufs, call.of)
    BY <1>1, <2>4, SaidRightly
  <2> QED BY <1>2, <2>1, <2>2, <2>3, <2>4 DEF Over
<1> QED BY <1>1, <1>3, OutcomesAre, Returned DEF Onward, Answering

-----------------------------------------------------------------------------
(* Directories are those of blocks of the file, and decode. *)
InFile(list) ==
  \A i \in DOMAIN list :
    list[i].pos \in DOMAIN Directory /\ << "dir", list[i].pos >> \notin Broken

(* The inductive invariant. *)
BInv ==
  /\ IInv /\ levels \subseteq Level /\ metadata \in BOOLEAN
  /\ InFile(tile_cache) /\ Readable
  /\ OnItsWay

(* The invariant holds at first. *)
LEMMA InitBInv == Init => BInv
<1> SUFFICES ASSUME Init PROVE BInv
  OBVIOUS
<1>1. IInv
  BY InitIInv
<1>2. levels \subseteq Level /\ metadata \in BOOLEAN
  BY DEF Init
<1>3. InFile(tile_cache)
  BY DEF Init, InFile
<1>4. OnItsWay
  BY DEF Init, OnItsWay, Idle
<1>5. Readable
  BY DEF Init, Readable
<1> QED BY <1>1, <1>2, <1>3, <1>4, <1>5 DEF BInv

(* Every step of a call takes it on, or returns what it may return. *)
LEMMA StepOnward ==
  ASSUME BInv, Step \/ Fault
  PROVE  Onward
<1>1. IInv /\ Readable /\ (Idle(call, work, bufs) \/ Busy(call, metadata, tile_cache, work, bufs))
  BY DEF BInv, OnItsWay
<1>2. ASSUME call # None
      PROVE  Busy(call, metadata, tile_cache, work, bufs)
  BY <1>1, <1>2 DEF Idle
<1>3. CASE Answer
  BY <1>1, <1>2, <1>3, AnswerWay DEF Answer
<1>4. CASE Refuse
  BY <1>2, <1>4, RefuseWay DEF Refuse, At
<1>5. CASE Fault
  BY <1>2, <1>5, FaultWay DEF Fault, Reads, At
<1>6. CASE CheckBuffer
  <2>1. call # None /\ (At("fits") \/ At("fitsTile"))
    BY <1>6 DEF CheckBuffer, At
  <2> QED BY <1>2, <1>6, <2>1, FitsWay, FitsTileWay
<1>7. CASE CheckTile
  BY <1>2, <1>7, RangeWay DEF CheckTile, At
<1>8. CASE Alloc
  <2>1. call # None /\ (At("alloc") \/ At("allocTile"))
    BY <1>8 DEF Alloc, At
  <2> QED BY <1>2, <1>8, <2>1, AllocFaceWay, AllocTileWay
<1>9. CASE PackedFaceData
  BY <1>2, <1>9, PackedWay DEF PackedFaceData, At
<1>10. CASE Fill
  BY <1>2, <1>10, FillWay DEF Fill, At
<1>11. CASE EnsureLevel
  BY <1>1, <1>2, <1>11, LevelWay DEF EnsureLevel, At
<1>12. CASE TileDirHit
  BY <1>1, <1>2, <1>12, HitWay DEF TileDirHit, At
<1>13. CASE TileDirMiss
  BY <1>1, <1>2, <1>13, MissWay DEF TileDirMiss, At
<1>14. CASE Tiles
  BY <1>2, <1>14, TilesWay DEF Tiles, At
<1>15. CASE TexelOfTile
  BY <1>2, <1>15, TexelWay DEF TexelOfTile, At
<1>16. CASE ReadBlock
  <2>1. call # None /\ (At("block") \/ At("tile"))
    BY <1>16 DEF ReadBlock, At
  <2> QED BY <1>2, <1>16, <2>1, BlockWay, TileWay
<1>17. CASE Reduce
  BY <1>2, <1>17, ReduceWay DEF Reduce, At
<1>18. CASE ReadMetadata
  BY <1>2, <1>18, MetadataWay DEF ReadMetadata, At
<1> QED
  BY <1>3, <1>4, <1>5, <1>6, <1>7, <1>8, <1>9, <1>10, <1>11, <1>12, <1>13, <1>14, <1>15, <1>16,
     <1>17, <1>18 DEF Step

(* Every step leaves the host between two calls, or on the way through one. *)
LEMMA StepWay ==
  ASSUME BInv, [Next]_vars
  PROVE  OnItsWay'
<1>1. IInv /\ (Idle(call, work, bufs) \/ Busy(call, metadata, tile_cache, work, bufs))
  BY DEF BInv, OnItsWay
<1>2. CASE \E r \in Request : Ask(r)
  BY <1>2, AskWay
<1>3. CASE UNCHANGED vars
  BY <1>1, <1>3 DEF OnItsWay, vars, caches
<1>4. CASE \E c \in Capacities : SetTileCacheCapacity(c)
  <2>1. call = None /\ call' = call /\ work' = work /\ bufs' = bufs
    BY <1>4 DEF SetTileCacheCapacity
  <2>2. ~Busy(call, metadata, tile_cache, work, bufs)
    BY <2>1, RequestAssumption DEF Busy
  <2> QED BY <1>1, <2>1, <2>2 DEF OnItsWay, Idle
<1>5. CASE Step \/ Fault
  BY <1>5, StepOnward DEF Onward
<1>6. CASE AllDone
  BY <1>3, <1>6 DEF AllDone
<1> QED BY <1>2, <1>3, <1>4, <1>5, <1>6 DEF Next

(* Only levels of the file that can be read are kept, and only meta data   *)
(* that can be.                                                            *)
LevelsHold ==
  /\ levels \subseteq Level /\ metadata \in BOOLEAN
  /\ \A l \in levels : << "level", l >> \notin Broken
  /\ metadata = TRUE => << "metadata" >> \notin Broken

(* No step disturbs them. *)
LEMMA StepLevels ==
  ASSUME BInv, [Next]_vars
  PROVE  LevelsHold'
<1>0. LevelsHold
  BY DEF BInv, Readable, LevelsHold
<1>1. CASE EnsureLevel
  <2>1. call # None /\ work # << >> /\ Head(work).do = "level"
    BY <1>1 DEF EnsureLevel, At, Top
  <2>2. Busy(call, metadata, tile_cache, work, bufs)
    BY <2>1 DEF BInv, OnItsWay, Idle
  <2>3. AtLevel(call, work, bufs)
    BY <2>1, <2>2, StageOf DEF Stage, Here
  <2>4. PICK x, w : /\ x \in Texture /\ IsList(w) /\ IsStored(x)
                    /\ work = Then(LevelTask(x), w)
    <3>1. PICK x, w : /\ x \in Texture /\ IsList(w) /\ IsStored(x)
                      /\ work = Then(LevelTask(x), IF IsTiled(x) THEN Then(DirTask(x), w) ELSE w)
      BY <2>3 DEF AtLevel
    <3>2. IsList(Then(DirTask(x), w))
      BY <3>1, ThenFacts
    <3> QED BY <3>1, <3>2
  <2>5. Top.x = Source[x].level
    BY <2>4, TaskDo DEF LevelTask, Top
  <2>6. Source[x].level \in Level
    BY <2>4, FileAssumption DEF IsStored
  <2>7. levels' = levels \cup {Top.x} /\ metadata' = metadata
        /\ (Top.x \in levels \/ << "level", Top.x >> \notin Broken)
    BY <1>1 DEF EnsureLevel
  <2> QED BY <1>0, <2>5, <2>6, <2>7 DEF LevelsHold
<1>2. CASE ReadMetadata
  <2>1. levels' = levels /\ metadata' = TRUE
        /\ (metadata = TRUE \/ << "metadata" >> \notin Broken)
    BY <1>0, <1>2 DEF ReadMetadata, LevelsHold
  <2> QED BY <1>0, <2>1 DEF LevelsHold
<1>3. CASE levels' = levels /\ metadata' = metadata
  BY <1>0, <1>3 DEF LevelsHold
<1>4. EnsureLevel \/ ReadMetadata \/ (levels' = levels /\ metadata' = metadata)
  <2>1. CASE \E r \in Request : Ask(r)
    BY <2>1 DEF Ask, caches
  <2>2. CASE \E c \in Capacities : SetTileCacheCapacity(c)
    BY <2>2 DEF SetTileCacheCapacity
  <2>3. CASE Fault \/ AllDone \/ UNCHANGED vars
    BY <2>3 DEF Fault, AllDone, vars, caches
  <2>4. CASE Step
    BY <2>4 DEF Step, Answer, Refuse, CheckBuffer, CheckTile, Alloc, PackedFaceData, Fill,
                TileDirHit, TileDirMiss, Tiles, TexelOfTile, ReadBlock, Reduce, caches
  <2> QED BY <2>1, <2>2, <2>3, <2>4 DEF Next
<1> QED BY <1>1, <1>2, <1>3, <1>4

(* Only directories of the file that decode are kept. *)
LEMMA StepInFile ==
  ASSUME BInv, [Next]_vars
  PROVE  InFile(tile_cache')
<1>0. PICK S : tile_cache \in Seq(S)
  BY DEF BInv, IInv, IsList
<1>1. DOMAIN tile_cache = 1..Len(tile_cache) /\ InFile(tile_cache)
  BY <1>0 DEF BInv
<1>2. ASSUME NEW Q, NEW s \in Seq(Q), NEW n \in Nat, InFile(s)
      PROVE  InFile(Truncated(s, n))
  <2>1. /\ Truncated(s, n) \in Seq(Q) /\ Len(Truncated(s, n)) <= Len(s)
        /\ \A i \in 1..Len(Truncated(s, n)) : Truncated(s, n)[i] = s[i]
    BY <1>2, TruncatedFacts
  <2> DEFINE t == Truncated(s, n)
  <2> HIDE DEF t
  <2>2. t \in Seq(Q) /\ Len(t) <= Len(s) /\ \A i \in 1..Len(t) : t[i] = s[i]
    BY <2>1 DEF t
  <2>3. DOMAIN t = 1..Len(t) /\ DOMAIN s = 1..Len(s) /\ Len(t) \in Nat /\ Len(s) \in Nat
    BY <2>2
  <2>4. \A i \in 1..Len(t) : i \in 1..Len(s)
    BY <2>2, <2>3
  <2>5. InFile(t)
    BY <1>2, <2>2, <2>3, <2>4 DEF InFile
  <2> QED BY <2>5 DEF t
<1>3. CASE TileDirHit
  <2>1. IsListed(Top.x) /\ tile_cache' = WithDirMoved(IndexOfDir(Top.x))
    BY <1>3 DEF TileDirHit
  <2>2. IndexOfDir(Top.x) \in 1..Len(tile_cache)
    <3>1. DOMAIN Keys = 1..Len(tile_cache)
      BY <1>0 DEF Keys
    <3>2. IndexOfDir(Top.x) \in DOMAIN Keys
      BY <2>1, Zenon DEF IsListed, IndexOfDir, Range
    <3> QED BY <3>1, <3>2
  <2>3. PICK i \in 1..Len(tile_cache) : tile_cache' = WithDirMoved(i)
    BY <2>1, <2>2
  <2> DEFINE new == WithDirMoved(i)
  <2>4. new \in Seq(S) /\ Len(new) = Len(tile_cache)
        /\ \A j \in 1..Len(new) : \E k \in 1..Len(tile_cache) : new[j] = tile_cache[k]
    BY <1>0, MovedToFront
  <2> HIDE DEF new
  <2>5. DOMAIN new = 1..Len(new)
    BY <2>4
  <2>6. InFile(new)
    BY <1>1, <2>4, <2>5 DEF InFile
  <2> QED BY <2>3, <2>6 DEF new
<1>4. CASE TileDirMiss
  <2>1. At("dir") /\ tile_cache' = WithNewDir(Top.x) /\ call # None
    BY <1>4 DEF TileDirMiss, At
  <2>2. Busy(call, metadata, tile_cache, work, bufs)
    BY <2>1 DEF BInv, OnItsWay, Idle
  <2>3. PICK x \in Texture : IsTiled(x) /\ Top.x = x
    BY <2>1, <2>2, DirTop
  <2> DEFINE e == [pos |-> Source[x].pos, res |-> ResOf[x], dir |-> Directory[Source[x].pos]]
             long == << e >> \o tile_cache
             n == Capacity(tile_cache_cap)
             Q == S \cup {e}
  <2>4. tile_cache' = Truncated(long, n)
    BY <2>1, <2>3 DEF WithNewDir
  <2>5. e.pos \in DOMAIN Directory /\ << "dir", e.pos >> \notin Broken
    BY <1>4, <2>3, FileAssumption DEF IsTiled, IsStored, TileDirMiss
  <2>6. tile_cache \in Seq(Q) /\ e \in Q
    BY <1>0
  <2>7. n \in Nat
    BY CapacityClamps DEF BInv, IInv
  <2> HIDE DEF e, Q, n
  <2>8. /\ long \in Seq(Q) /\ Len(long) = Len(tile_cache) + 1 /\ long[1] = e
        /\ \A i \in 2..(Len(tile_cache) + 1) : long[i] = tile_cache[i - 1]
    BY <2>6, InFront
  <2> HIDE DEF long
  <2>9. ASSUME NEW i \in DOMAIN long
        PROVE  long[i].pos \in DOMAIN Directory /\ << "dir", long[i].pos >> \notin Broken
    <3>1. i \in 1..(Len(tile_cache) + 1) /\ Len(tile_cache) \in Nat
      BY <1>0, <2>8
    <3>2. CASE i = 1
      BY <2>5, <2>8, <3>2
    <3>3. CASE i # 1
      <4>1. i \in 2..(Len(tile_cache) + 1) /\ i - 1 \in 1..Len(tile_cache)
        BY <3>1, <3>3
      <4> QED BY <1>1, <2>8, <4>1 DEF InFile
    <3> QED BY <3>2, <3>3
  <2>10. InFile(long)
    BY <2>9 DEF InFile
  <2>11. InFile(Truncated(long, n))
    BY <1>2, <2>7, <2>8, <2>10
  <2> QED BY <2>4, <2>11
<1>5. CASE \E c \in Capacities : SetTileCacheCapacity(c)
  <2>1. PICK c \in Capacities : tile_cache' = Truncated(tile_cache, Capacity(c))
    BY <1>5 DEF SetTileCacheCapacity
  <2>2. Capacity(c) \in Nat
    BY CapacityAssumption, CapacityClamps
  <2>3. InFile(Truncated(tile_cache, Capacity(c)))
    BY <1>0, <1>1, <1>2, <2>2
  <2> QED BY <2>1, <2>3
<1>6. CASE tile_cache' = tile_cache
  BY <1>1, <1>6
<1>7. \/ TileDirHit \/ TileDirMiss \/ (\E c \in Capacities : SetTileCacheCapacity(c))
      \/ tile_cache' = tile_cache
  <2>1. CASE \E r \in Request : Ask(r)
    BY <2>1 DEF Ask, caches
  <2>2. CASE Fault \/ AllDone \/ UNCHANGED vars
    BY <2>2 DEF Fault, AllDone, vars, caches
  <2>3. CASE Step
    BY <2>3 DEF Step, Answer, Refuse, CheckBuffer, CheckTile, Alloc, PackedFaceData, Fill,
                EnsureLevel, Tiles, TexelOfTile, ReadBlock, Reduce, ReadMetadata, caches
  <2> QED BY <2>1, <2>2, <2>3 DEF Next
<1> QED BY <1>3, <1>4, <1>5, <1>6, <1>7

(* The invariant is inductive. *)
LEMMA NextBInv == BInv /\ [Next]_vars => BInv'
<1> SUFFICES ASSUME BInv, [Next]_vars PROVE BInv'
  OBVIOUS
<1>1. IInv'
  BY NextIInv DEF BInv
<1>2. InFile(tile_cache)'
  BY StepInFile DEF InFile
<1>3. LevelsHold'
  BY StepLevels
<1>4. Readable'
  BY <1>2, <1>3 DEF Readable, LevelsHold, InFile
<1> QED BY <1>1, <1>2, <1>3, <1>4, StepWay DEF BInv, LevelsHold

(* The buffers are as BuffersHold has them. *)
LEMMA BInvBuffers == BInv => BuffersHold
<1> SUFFICES ASSUME BInv PROVE BuffersHold
  OBVIOUS
<1>1. CASE Idle(call, work, bufs)
  <2>1. IsList(<< >>) /\ Len(<< >>) = 0 /\ DOMAIN << >> = {}
    BY NoneLeft
  <2> QED BY <1>1, <2>1 DEF BInv, InFile, IInv, Idle, BuffersHold, TypeOK, WrittenIsRight
<1>2. CASE Busy(call, metadata, tile_cache, work, bufs)
  <2>1. call \in Request /\ Frames(call, bufs)
    BY <1>2 DEF Busy
  <2>2. PICK S : bufs \in Seq(S)
    BY <2>1 DEF Frames, IsList
  <2>3. DOMAIN bufs = 1..Len(bufs) /\ (bufs # << >> => Last(bufs) = bufs[Len(bufs)])
    BY <2>2 DEF Last
  <2>4. ASSUME NEW i \in DOMAIN bufs
        PROVE  DOMAIN bufs[i].data = 0..(bufs[i].len - 1)
    BY <2>1, <2>3 DEF Frames, IsFrame
  <2>5. TypeOK
    BY <2>1, <2>4, RequestAssumption DEF BInv, InFile, IInv, TypeOK
  <2>6. ASSUME bufs # << >>, call.api # "get_pixel", NEW k \in DOMAIN Last(bufs).data
        PROVE  Last(bufs).data[k] \in {Old, Expected(call)[k]}
    <3>1. call.api \in BufferApis /\ Wanted(call, Last(bufs))
      BY <2>1, <2>3, <2>6 DEF Frames
    <3>2. k \in 0..(LenOf(call) - 1) /\ Last(bufs).len = LenOf(call)
      BY <2>6, <3>1 DEF Wanted, IsFrame
    <3>3. Expected(call)[k] = Pic(call.of, OriginOf(call), ExtentOf(call), StrideOf(call), k)
      BY <2>1, <2>6, <3>1, <3>2, ExpectedPicture
    <3> QED BY <3>1, <3>2, <3>3 DEF Wanted
  <2>7. WrittenIsRight
    BY <2>6 DEF WrittenIsRight
  <2> QED BY <2>5, <2>7 DEF BuffersHold
<1> QED BY <1>1, <1>2 DEF BInv, OnItsWay

(* For any file, requests, capacities and failures: buffers keep their     *)
(* length, and at every moment of a call, so also when a read fails under  *)
(* it, its outermost buffer holds the right texels where it has been       *)
(* written and what it held before everywhere else (get_data_into and      *)
(* get_tile_into, reader.rs:263-329 and 456-483).                          *)
THEOREM BuffersAreRight == Spec => []BuffersHold
BY InitBInv, NextBInv, BInvBuffers, PTL DEF Spec

-----------------------------------------------------------------------------
(* The service: what the host sees of a call is its beginning and its      *)
(* answer.                                                                 *)

(* Both begin with no call and no reply. *)
LEMMA InitServes == Init => Service!Init
BY DEF Init, Service!Init

(* Every step of the reader is a step of the service, or none. *)
LEMMA NextServes ==
  ASSUME BInv, [Next]_vars
  PROVE  [Service!Next]_Service!vars
<1>1. CASE call' = call /\ reply' = reply
  BY <1>1 DEF Service!vars
<1>2. CASE \E r \in Request : Ask(r)
  <2>1. PICK r \in Request : call = None /\ call' = r /\ reply' = reply
    BY <1>2 DEF Ask
  <2>2. Service!Ask("host", r)
    BY <2>1 DEF Service!Ask
  <2> QED BY <2>2 DEF Service!Next
<1>3. CASE Answering /\ call # None
  <2>1. PICK val \in Outcomes[call] : reply' = [to |-> call, val |-> val] /\ call' = None
    BY <1>3 DEF Answering, Return
  <2>2. Service!Answer("host")
    BY <1>3, <2>1 DEF Service!Answer
  <2> QED BY <2>2 DEF Service!Next
<1>4. CASE Step \/ Fault
  <2>1. call # None
    BY <1>4 DEF Step, Fault, Reads, At, Answer, Refuse, CheckBuffer, CheckTile, Alloc, PackedFaceData,
                Fill, EnsureLevel, TileDirHit, TileDirMiss, Tiles, TexelOfTile, ReadBlock, Reduce,
                ReadMetadata
  <2>2. (call' = call /\ reply' = reply) \/ Answering
    BY <1>4, StepOnward DEF Onward
  <2> QED BY <1>1, <1>3, <2>1, <2>2
<1>5. CASE \E c \in Capacities : SetTileCacheCapacity(c)
  BY <1>1, <1>5 DEF SetTileCacheCapacity
<1>6. CASE AllDone \/ UNCHANGED vars
  BY <1>1, <1>6 DEF AllDone, vars
<1> QED BY <1>2, <1>4, <1>5, <1>6 DEF Next

(* Whatever a host asks, in whatever order, under whatever capacity and    *)
(* failures: it is answered with exactly what the file's pixels and tiling *)
(* make the answer, or with an error that the request or the file is to    *)
(* blame for, or the stream.                                               *)
THEOREM PlainReaderServes == Spec => ServiceSafety
<1>1. Init => Service!Init /\ BInv
  BY InitServes, InitBInv
<1>2. BInv /\ [Next]_vars => BInv' /\ [Service!Next]_Service!vars
  BY NextBInv, NextServes
<1> QED BY <1>1, <1>2, PTL DEF Spec, ServiceSafety

=============================================================================
