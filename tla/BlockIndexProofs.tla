---------------------------- MODULE BlockIndexProofs ----------------------------
(***************************************************************************)
(* The index of a level and the directory of a tiled block are the         *)
(* format's: proved for levels of any length and any mix of large faces.   *)
(***************************************************************************)
EXTENDS BlockIndex, FiniteSetTheorems, SequenceTheorems, TLAPS

-----------------------------------------------------------------------------
(* Addition of positions is a commutative monoid. *)

LEMMA SumType ==
  ASSUME NEW a \in Position, NEW b \in Position
  PROVE  Sum(a, b) \in Position
BY WidthAssumption DEF Sum, Position

LEMMA SumCommutes ==
  ASSUME NEW a \in Position, NEW b \in Position
  PROVE  Sum(a, b) = Sum(b, a)
BY WidthAssumption DEF Sum, Position

LEMMA SumAssociates ==
  ASSUME NEW a \in Position, NEW b \in Position, NEW c \in Position
  PROVE  Sum(Sum(a, b), c) = Sum(a, Sum(b, c))
BY WidthAssumption DEF Sum, Position

LEMMA SumZero ==
  ASSUME NEW a \in Position
  PROVE  Sum(a, 0) = a /\ 0 \in Position
BY WidthAssumption DEF Sum, Position

LEMMA SumSwaps ==
  ASSUME NEW a \in Position, NEW b \in Position, NEW c \in Position
  PROVE  Sum(Sum(a, b), c) = Sum(Sum(a, c), b)
BY SumType, SumCommutes, SumAssociates

-----------------------------------------------------------------------------
(* The large faces. *)

LargeUpTo(n) == {m \in 1..n : IsLarge(m)}

(* What the first pass reckons with for face j.                            *)
Apparent(j) == IF IsLarge(j) THEN 0 ELSE headers[j].blocksize

(* One more face adds itself if it is large.                               *)
LEMMA OneMore ==
  ASSUME NEW n \in Nat
  PROVE  /\ IsFiniteSet(LargeUpTo(n))
         /\ Cardinality(LargeUpTo(n)) \in 0..n
         /\ IsLarge(n + 1) => Cardinality(LargeUpTo(n + 1)) = Cardinality(LargeUpTo(n)) + 1
         /\ ~IsLarge(n + 1) => LargeUpTo(n + 1) = LargeUpTo(n)
<1>1. IsFiniteSet(1..n) /\ Cardinality(1..n) = n
  BY FS_Interval
<1>2. LargeUpTo(n) \subseteq 1..n
  BY DEF LargeUpTo
<1>3. IsFiniteSet(LargeUpTo(n)) /\ Cardinality(LargeUpTo(n)) <= n
  BY <1>1, <1>2, FS_Subset
<1>4. Cardinality(LargeUpTo(n)) \in Nat
  BY <1>3, FS_CardinalityType
<1>5. 1..(n + 1) = 1..n \cup {n + 1} /\ n + 1 \notin 1..n
  OBVIOUS
<1>6. CASE IsLarge(n + 1)
  <2>1. LargeUpTo(n + 1) = LargeUpTo(n) \cup {n + 1} /\ n + 1 \notin LargeUpTo(n)
    BY <1>5, <1>6 DEF LargeUpTo
  <2> QED BY <2>1, <1>3, <1>4, <1>6, FS_AddElement
<1>7. CASE ~IsLarge(n + 1)
  BY <1>3, <1>4, <1>5, <1>7 DEF LargeUpTo
<1> QED
  BY <1>3, <1>4, <1>6, <1>7

(* largeFaces lists those up to n, in order.                               *)
Listed(n) ==
  /\ largeFaces \in Seq(Nat)
  /\ Len(largeFaces) = Cardinality(LargeUpTo(n))
  /\ \A k \in 1..Len(largeFaces) :
       largeFaces[k] \in 1..n /\ IsLarge(largeFaces[k]) /\ Rank(largeFaces[k]) = k
  /\ \A j \in 1..n : IsLarge(j) => \E k \in 1..Len(largeFaces) : largeFaces[k] = j
  /\ \A k, l \in 1..Len(largeFaces) : k < l => largeFaces[k] < largeFaces[l]

LEMMA ListedNext ==
  ASSUME NEW n \in Nat, Listed(n), headers' = headers,
         largeFaces' = IF IsLarge(n + 1) THEN Append(largeFaces, n + 1) ELSE largeFaces
  PROVE  Listed(n + 1)'
<1>0. /\ \A j : IsLarge(j)' <=> IsLarge(j)
      /\ \A j : LargeUpTo(j)' = LargeUpTo(j)
      /\ \A j : Rank(j)' = Rank(j)
  BY DEF IsLarge, LargeUpTo, Rank
<1>1. CASE ~IsLarge(n + 1)
  <2>1. LargeUpTo(n + 1) = LargeUpTo(n)
    BY <1>1, OneMore
  <2>2. \A j \in 1..(n + 1) : IsLarge(j) => j \in 1..n
    BY <1>1
  <2> QED BY <1>0, <1>1, <2>1, <2>2 DEF Listed
<1>2. CASE IsLarge(n + 1)
  <2> DEFINE c == Len(largeFaces)
  <2>1. largeFaces \in Seq(Nat) /\ c \in Nat /\ c = Cardinality(LargeUpTo(n))
    BY LenProperties DEF Listed
  <2>2. /\ largeFaces' \in Seq(Nat) /\ Len(largeFaces') = c + 1
        /\ \A k \in 1..c : largeFaces'[k] = largeFaces[k]
        /\ largeFaces'[c + 1] = n + 1
    BY <1>2, <2>1, AppendProperties
  <2>3. Cardinality(LargeUpTo(n + 1)) = c + 1
    BY <1>2, <2>1, OneMore
  <2>4. Rank(n + 1) = c + 1
    BY <2>3 DEF Rank, LargeUpTo
  <2> HIDE DEF c
  <2>5. \A k \in 1..(c + 1) : k \in 1..c \/ k = c + 1
    BY <2>1
  <2>6. \A k \in 1..c : largeFaces[k] \in 1..n /\ IsLarge(largeFaces[k]) /\ Rank(largeFaces[k]) = k
    BY DEF Listed, c
  <2>7. ASSUME NEW k \in 1..(c + 1)
        PROVE  largeFaces'[k] \in 1..(n + 1) /\ IsLarge(largeFaces'[k]) /\ Rank(largeFaces'[k]) = k
    BY <1>2, <2>2, <2>4, <2>5, <2>6
  <2>8. ASSUME NEW j \in 1..(n + 1), IsLarge(j)
        PROVE  \E k \in 1..(c + 1) : largeFaces'[k] = j
    <3>0. j = n + 1 \/ j \in 1..n
      OBVIOUS
    <3>1. CASE j = n + 1
      BY <2>1, <2>2, <3>1
    <3>2. CASE j \in 1..n
      <4>1. PICK k \in 1..c : largeFaces[k] = j
        BY <2>8, <3>2 DEF Listed, c
      <4> QED BY <4>1, <2>1, <2>2
    <3> QED BY <3>0, <3>1, <3>2
  <2>9. ASSUME NEW k \in 1..(c + 1), NEW l \in 1..(c + 1), k < l
        PROVE  largeFaces'[k] < largeFaces'[l]
    <3>1. CASE l \in 1..c
      <4>1. k \in 1..c
        BY <2>1, <2>9, <3>1
      <4> QED BY <2>2, <2>9, <3>1, <4>1 DEF Listed, c
    <3>2. CASE l = c + 1
      <4>1. k \in 1..c
        BY <2>1, <2>9, <3>2
      <4> QED BY <2>2, <2>6, <3>2, <4>1
    <3> QED BY <2>5, <3>1, <3>2
  <2> QED BY <1>0, <2>2, <2>3, <2>7, <2>8, <2>9 DEF Listed
<1> QED
  BY <1>1, <1>2

-----------------------------------------------------------------------------
(* The inductive invariant. *)

(* The first pass, or a directory's only one, has placed the faces up to g.*)
Placed(g) ==
  /\ Len(offsets) = g - 1
  /\ g = 1 => offset = base
  /\ g > 1 => offsets[1] = base /\ offset = Sum(offsets[g - 1], Apparent(g - 1))
  /\ \A j \in 2..(g - 1) : offsets[j] = Sum(offsets[j - 1], Apparent(j - 1))

(* The second pass: faces before f are where they belong, those behind it  *)
(* as far apart as the first pass left them; what f itself lacks is extra, *)
(* but for the size of the large face before it if that is still to come.  *)
Shifted ==
  /\ Len(offsets) = Len(headers)
  /\ f = 1 => i = 1 /\ extra = 8 * Len(largeFaces) /\ (headers # << >> => offsets[1] = base)
  /\ f > 1 => offsets[1] = Sum(base, 8 * Len(largeFaces))
  /\ \A j \in 2..(f - 1) : offsets[j] = Sum(offsets[j - 1], ActualSize(j - 1))
  /\ \A j \in (f + 1)..Len(headers) : offsets[j] = Sum(offsets[j - 1], Apparent(j - 1))
  /\ f > 1 /\ f <= Len(headers) =>
       IF i <= Len(largeFaces) /\ f = largeFaces[i] + 1
       THEN Sum(offsets[f], extra) = offsets[f - 1]
       ELSE Sum(offsets[f], extra) = Sum(offsets[f - 1], ActualSize(f - 1))
  /\ i > 1 => largeFaces[i - 1] < f
  /\ i <= Len(largeFaces) => f <= largeFaces[i] + 1

NoLarge(n) == \A j \in 1..n : ~IsLarge(j) /\ headers[j].encoding # "tiled"

IndexInv ==
  /\ headers \in Seq(Header)
  /\ base \in Position /\ offset \in Position /\ extra \in Position
  /\ offsets \in Seq(Position)
  /\ f \in 1..(Len(headers) + 1)
  /\ i \in Nat
  /\ res \in FaceRes
  /\ \/ /\ job = "level"
        /\ pc \in {"table", "faces", "shift", "done"}
        /\ Len(headers) <= MaxFaces
        /\ pc # "table" => table \in Seq(TableSizes)
                           /\ Len(table) = Cardinality(LargeFacePositions)
        /\ pc \in {"table", "faces"} => Placed(f) /\ Listed(f - 1)
        /\ pc = "table" => f = 1
        /\ pc = "shift" => /\ Listed(Len(headers)) /\ Shifted
                           /\ i \in 1..(Len(largeFaces) + 1)
     \/ /\ job = "tiles"
        /\ pc \in {"tilehead", "tiles", "done", "err"}
        /\ pc = "tilehead" => headers = << >>
        /\ pc \in {"tilehead", "tiles"} => Placed(f)
        /\ pc \in {"tilehead", "tiles", "done"} => NoLarge(f - 1)
        /\ pc = "tilehead" => f = 1
        /\ pc \in {"tiles", "done"} =>
             \E t \in [u : 0..res.u, v : 0..res.v] : Len(headers) = NTiles(res, t)
        /\ pc = "done" => f = Len(headers) + 1
        /\ pc = "err" /\ headers # << >> =>
             \E j \in DOMAIN headers : IsLarge(j) \/ headers[j].encoding = "tiled"
  /\ pc = "done" => BlocksAreAdjacent

(* The sizes are positions, and so are the sums of them.                   *)
LEMMA Sizes ==
  ASSUME IndexInv, NEW j \in 1..Len(headers)
  PROVE  /\ headers[j].blocksize \in Position /\ headers[j].blocksize <= Large
         /\ Apparent(j) \in Position
<1>1. headers[j] \in Header
  BY ElementOfSeq DEF IndexInv
<1>2. headers[j].blocksize \in 0..Large
  BY <1>1, SizeAssumption DEF Header
<1> QED
  BY <1>2, SizeAssumption, WidthAssumption, SumZero DEF Apparent, Position

(* Placing one more block.                                                 *)
LEMMA PlacedNext ==
  ASSUME IndexInv, f <= Len(headers), Placed(f), headers' = headers, base' = base,
         offsets' = Append(offsets, offset), f' = f + 1,
         offset' = Sum(offset, Apparent(f))
  PROVE  /\ Placed(f)'
         /\ offsets' \in Seq(Position) /\ offset' \in Position
         /\ f' \in 1..(Len(headers) + 1)
<1>1. /\ f \in 1..Len(headers) /\ Len(headers) \in Nat
      /\ Len(offsets) = f - 1
      /\ offset \in Position /\ offsets \in Seq(Position)
  BY LenProperties DEF IndexInv, Placed
<1>2. /\ offsets' \in Seq(Position) /\ Len(offsets') = f
      /\ \A j \in 1..(f - 1) : offsets'[j] = offsets[j]
      /\ offsets'[f] = offset
  BY <1>1, AppendProperties
<1>3. offset' \in Position
  BY <1>1, Sizes, SumType
<1>4. \A j : Apparent(j)' = Apparent(j)
  BY DEF Apparent, IsLarge
<1>5. offsets'[1] = base'
  <2>1. CASE f = 1
    BY <2>1, <1>2 DEF Placed
  <2>2. CASE f > 1
    BY <2>2, <1>1, <1>2 DEF Placed
  <2> QED BY <1>1, <2>1, <2>2
<1>6. ASSUME NEW j \in 2..f PROVE offsets'[j] = Sum(offsets'[j - 1], Apparent(j - 1))
  <2>1. j - 1 \in 1..(f - 1)
    BY <1>1
  <2>2. CASE j = f
    BY <2>1, <2>2, <1>1, <1>2 DEF Placed
  <2>3. CASE j \in 2..(f - 1)
    BY <2>1, <2>3, <1>1, <1>2 DEF Placed
  <2> QED BY <1>1, <2>2, <2>3
<1>7. f' - 1 = f /\ f' > 1 /\ f' # 1
  BY <1>1
<1> QED
  BY <1>1, <1>2, <1>3, <1>4, <1>5, <1>6, <1>7 DEF Placed

-----------------------------------------------------------------------------
(* The steps of a level's index. *)

LEMMA InitIndexInv == Init => IndexInv
<1> SUFFICES ASSUME Init PROVE IndexInv
  OBVIOUS
<1>1. /\ base \in Position /\ 0 \in Position
      /\ offset = base /\ extra = 0 /\ offsets = << >> /\ largeFaces = << >>
      /\ f = 1 /\ i = 1 /\ res \in FaceRes
      /\ Len(offsets) = 0 /\ Len(largeFaces) = 0
      /\ offsets \in Seq(Position) /\ largeFaces \in Seq(Nat)
  BY WidthAssumption, SumZero, EmptySeq DEF Init, Position
<1>2. Placed(f)
  BY <1>1 DEF Placed
<1>3. Listed(f - 1)
  <2>1. LargeUpTo(0) = {} /\ f - 1 = 0
    BY <1>1 DEF LargeUpTo
  <2>2. Len(largeFaces) = Cardinality(LargeUpTo(0))
    BY <2>1, <1>1, FS_EmptySet
  <2>3. 1..Len(largeFaces) = {} /\ 1..0 = {}
    BY <1>1
  <2>4. Listed(0)
    BY <2>2, <2>3, <1>1 DEF Listed
  <2> QED BY <2>1, <2>4
<1>4. CASE job = "level"
  <2>1. PICK n \in 0..MaxFaces : headers \in [1..n -> Header] /\ pc = "table"
    BY <1>4 DEF Init
  <2>2. headers \in Seq(Header) /\ Len(headers) = n /\ n \in Nat /\ n <= MaxFaces
    BY <2>1, WidthAssumption
  <2> QED BY <1>1, <1>2, <1>3, <1>4, <2>1, <2>2 DEF IndexInv
<1>5. CASE job = "tiles"
  <2>1. headers = << >> /\ headers \in Seq(Header) /\ Len(headers) = 0 /\ pc = "tilehead"
    BY <1>5, EmptySeq DEF Init
  <2>2. NoLarge(f - 1)
    BY <1>1 DEF NoLarge
  <2> QED BY <1>1, <1>2, <1>5, <2>1, <2>2 DEF IndexInv
<1> QED
  BY <1>4, <1>5 DEF Init

(* The definitions the rest of the state decides are left alone by a step  *)
(* that leaves the headers alone.                                          *)
LEMMA HeadersDecide ==
  ASSUME headers' = headers
  PROVE  /\ \A j : IsLarge(j)' <=> IsLarge(j)
         /\ \A j : Apparent(j)' = Apparent(j)
         /\ \A j : Rank(j)' = Rank(j)
         /\ \A j : LargeUpTo(j)' = LargeUpTo(j)
         /\ \A j : NoLarge(j)' = NoLarge(j)
         /\ LargeFacePositions' = LargeFacePositions
BY DEF IsLarge, Apparent, Rank, LargeUpTo, NoLarge, LargeFacePositions

LEMMA ReadTablePreserves ==
  ASSUME IndexInv, ReadTable
  PROVE  IndexInv'
<1>1. /\ pc = "table" /\ pc' = "faces" /\ job' = job /\ res' = res
      /\ headers' = headers /\ base' = base /\ UNCHANGED locals
      /\ table' \in [1..Cardinality(LargeFacePositions) -> TableSizes]
      /\ job = "level"
  BY DEF ReadTable, IndexInv
<1>2. /\ headers \in Seq(Header) /\ Len(headers) \in Nat
      /\ LargeFacePositions = LargeUpTo(Len(headers))
  BY LenProperties DEF IndexInv, LargeFacePositions, LargeUpTo
<1>3. Cardinality(LargeFacePositions) \in Nat
  BY <1>2, OneMore
<1>4. table' \in Seq(TableSizes) /\ Len(table') = Cardinality(LargeFacePositions)'
  BY <1>1, <1>3, HeadersDecide
<1>5. Placed(f)' /\ Listed(f - 1)'
  <2>1. Placed(f) /\ Listed(f - 1)
    BY <1>1 DEF IndexInv
  <2> QED BY <2>1, <1>1, HeadersDecide DEF Placed, Listed, locals
<1> QED
  BY <1>1, <1>4, <1>5 DEF IndexInv, locals

LEMMA PlaceFacePreserves ==
  ASSUME IndexInv, PlaceFace
  PROVE  IndexInv'
<1>1. /\ pc = "faces" /\ pc' = pc /\ UNCHANGED input /\ extra' = extra /\ i' = i
      /\ f <= Len(headers) /\ f \in 1..Len(headers)
      /\ offsets' = Append(offsets, offset) /\ f' = f + 1
      /\ job = "level" /\ Placed(f) /\ Listed(f - 1)
      /\ headers' = headers /\ base' = base /\ offset \in Position
  BY LenProperties DEF PlaceFace, IndexInv, input
<1>2. /\ offset' = Sum(offset, Apparent(f))
      /\ largeFaces' = IF IsLarge(f) THEN Append(largeFaces, f) ELSE largeFaces
  BY <1>1, SumZero DEF PlaceFace, Apparent
<1>3. /\ Placed(f)' /\ offsets' \in Seq(Position) /\ offset' \in Position
      /\ f' \in 1..(Len(headers) + 1)
  BY <1>1, <1>2, PlacedNext
<1>4. Listed(f - 1)'
  <2>1. PICK n \in Nat : n = f - 1
    BY <1>1
  <2>2. f = n + 1 /\ f' - 1 = n + 1
    BY <1>1, <2>1
  <2>3. Listed(n + 1)'
    BY <1>1, <1>2, <2>1, <2>2, ListedNext
  <2> QED BY <2>2, <2>3 DEF Listed
<1> QED
  BY <1>1, <1>3, <1>4, HeadersDecide DEF IndexInv, input

(* The table has an entry for every large face there is.                   *)
LEMMA LargeCounted ==
  ASSUME IndexInv, Listed(Len(headers))
  PROVE  /\ Len(largeFaces) = Cardinality(LargeFacePositions)
         /\ Len(largeFaces) \in 0..Len(headers)
<1>1. Len(headers) \in Nat /\ LargeFacePositions = LargeUpTo(Len(headers))
  BY LenProperties DEF IndexInv, LargeFacePositions, LargeUpTo
<1> QED
  BY <1>1, OneMore DEF Listed

LEMMA StartShiftPreserves ==
  ASSUME IndexInv, StartShift
  PROVE  IndexInv'
<1> DEFINE n == Len(headers)
<1>1. /\ pc = "faces" /\ UNCHANGED input /\ job = "level"
      /\ UNCHANGED <<offsets, offset, largeFaces>>
      /\ extra' = 8 * Len(largeFaces) /\ f' = 1 /\ i' = 1
      /\ n \in Nat /\ n <= MaxFaces /\ f = n + 1
      /\ Placed(n + 1) /\ Listed(n)
      /\ headers' = headers /\ base' = base /\ table' = table
      /\ Len(table) = Cardinality(LargeFacePositions)
  <2>1. /\ pc = "faces" /\ f > n /\ n \in Nat /\ f \in 1..(n + 1)
        /\ job = "level" /\ Placed(f) /\ Listed(f - 1) /\ n <= MaxFaces
        /\ Len(table) = Cardinality(LargeFacePositions)
    BY LenProperties DEF StartShift, IndexInv
  <2>2. f = n + 1 /\ f - 1 = n
    BY <2>1
  <2> QED BY <2>1, <2>2 DEF StartShift, input
<1>2. Len(largeFaces) = Len(table) /\ Len(largeFaces) \in 0..n
  BY <1>1, LargeCounted
<1>3. extra' \in Position
  BY <1>1, <1>2, WidthAssumption DEF Position
<1>4. pc' = IF largeFaces = << >> THEN "done" ELSE "shift"
  BY <1>1, <1>2 DEF StartShift
<1>5. f' \in 1..(n + 1) /\ i' \in Nat
  BY <1>1
<1>6. CASE largeFaces = << >>
  <2>1. Len(largeFaces) = 0 /\ 1..Len(largeFaces) = {}
    BY <1>2, <1>6, EmptySeq
  <2>2. \A j \in 1..n : ~IsLarge(j)
    BY <1>1, <2>1 DEF Listed
  <2>3. 8 * Cardinality(LargeFacePositions) = 0
    BY <1>1, <1>2, <2>1
  <2>4. Len(offsets) = n /\ (headers # << >> => offsets[1] = Sum(base, 0))
    <3>1. Len(offsets) = n
      BY <1>1 DEF Placed
    <3>2. ASSUME headers # << >> PROVE offsets[1] = Sum(base, 0)
      <4>1. n > 0
        BY <1>1, <3>2, EmptySeq DEF IndexInv
      <4>2. base \in Position
        BY DEF IndexInv
      <4> QED BY <1>1, <4>1, <4>2, SumZero DEF Placed
    <3> QED BY <3>1, <3>2
  <2>5. ASSUME NEW j \in 2..n PROVE offsets[j] = Sum(offsets[j - 1], ActualSize(j - 1))
    <3>1. j \in 2..((n + 1) - 1) /\ j - 1 \in 1..n
      BY <1>1
    <3>2. ActualSize(j - 1) = Apparent(j - 1)
      BY <2>2, <3>1 DEF ActualSize, Apparent
    <3> QED BY <1>1, <3>1, <3>2 DEF Placed
  <2>6. BlocksAreAdjacent'
    BY <2>3, <2>4, <2>5, <1>1, HeadersDecide DEF BlocksAreAdjacent, ActualSize
  <2> QED BY <1>1, <1>3, <1>4, <1>5, <1>6, <2>6, HeadersDecide DEF IndexInv, input
<1>7. CASE largeFaces # << >>
  <2>1. Len(largeFaces) \in 1..n
    BY <1>1, <1>2, <1>7, EmptySeq DEF Listed
  <2>2. Shifted'
    <3>1. n >= 1 /\ headers # << >> /\ offsets[1] = base
      BY <1>1, <2>1, EmptySeq DEF Placed, IndexInv
    <3>2. Len(offsets) = n
      BY <1>1 DEF Placed
    <3>3. ASSUME NEW j \in 2..n PROVE offsets[j] = Sum(offsets[j - 1], Apparent(j - 1))
      BY <1>1 DEF Placed
    <3>4. 1 <= largeFaces[1] + 1
      BY <1>1, <2>1 DEF Listed
    <3>5. f' = 1 /\ i' = 1 /\ (f' + 1)..n = 2..n /\ 2..(f' - 1) = {}
      BY <1>1
    <3> QED BY <1>1, <3>1, <3>2, <3>3, <3>4, <3>5, HeadersDecide DEF Shifted
  <2>3. Listed(Len(headers))'
    BY <1>1, HeadersDecide DEF Listed
  <2>4. i' \in 1..(Len(largeFaces') + 1)
    BY <1>1, <2>1
  <2> QED BY <1>1, <1>3, <1>4, <1>5, <1>7, <2>2, <2>3, <2>4, HeadersDecide DEF IndexInv, input
<1> QED
  BY <1>6, <1>7

(* A face between two large ones is not large.                             *)
LEMMA BetweenLarge ==
  ASSUME Listed(Len(headers)), Len(headers) \in Nat, f \in 1..Len(headers),
         i \in 1..(Len(largeFaces) + 1), i > 1 => largeFaces[i - 1] < f,
         i <= Len(largeFaces) => f < largeFaces[i]
  PROVE  ~IsLarge(f)
<1> SUFFICES ASSUME IsLarge(f) PROVE FALSE
  OBVIOUS
<1>1. PICK k \in 1..Len(largeFaces) : largeFaces[k] = f
  BY DEF Listed
<1>2. Len(largeFaces) \in Nat /\ \A l \in 1..Len(largeFaces) : largeFaces[l] \in Nat
  BY LenProperties, ElementOfSeq DEF Listed
<1>3. CASE k < i
  <2>1. i - 1 \in 1..Len(largeFaces) /\ (k = i - 1 \/ k < i - 1)
    BY <1>2, <1>3
  <2>2. largeFaces[k] <= largeFaces[i - 1]
    BY <1>2, <2>1 DEF Listed
  <2> QED BY <1>1, <1>2, <1>3, <2>1, <2>2
<1>4. CASE k >= i
  <2>1. i \in 1..Len(largeFaces) /\ (k = i \/ i < k)
    BY <1>2, <1>4
  <2>2. largeFaces[i] <= largeFaces[k]
    BY <1>2, <2>1 DEF Listed
  <2> QED BY <1>1, <1>2, <2>1, <2>2
<1> QED
  BY <1>2, <1>3, <1>4

(* Actual sizes are positions, once the table is there.                    *)
LEMMA TableEntries ==
  ASSUME IndexInv, job = "level", pc = "shift", NEW k \in 1..Len(largeFaces)
  PROVE  /\ table[k] \in Position
         /\ largeFaces[k] \in 1..Len(headers)
         /\ ActualSize(largeFaces[k]) = table[k]
<1>1. Listed(Len(headers)) /\ table \in Seq(TableSizes) /\ Len(table) = Len(largeFaces)
  BY LargeCounted DEF IndexInv
<1>2. table[k] \in Position
  BY <1>1, ElementOfSeq, SizeAssumption DEF Position
<1> QED
  BY <1>1, <1>2 DEF Listed, ActualSize

LEMMA ShiftPreserves ==
  ASSUME IndexInv, Shift
  PROVE  IndexInv'
<1> DEFINE n == Len(headers)
           c == Len(largeFaces)
<1>1. /\ pc = "shift" /\ pc' = pc /\ UNCHANGED input /\ job = "level"
      /\ UNCHANGED <<offset, largeFaces, extra, i>>
      /\ offsets' = [offsets EXCEPT ![f] = Sum(@, extra)] /\ f' = f + 1
      /\ n \in Nat /\ c \in Nat /\ f \in 1..n /\ i \in 1..(c + 1)
      /\ Listed(n) /\ Shifted
      /\ i <= c => f <= largeFaces[i]
      /\ headers' = headers /\ base' = base /\ table' = table
      /\ offsets \in Seq(Position) /\ Len(offsets) = n /\ extra \in Position /\ base \in Position
  BY LenProperties DEF Shift, BeforeLarge, IndexInv, Shifted, Listed, input
<1>2. /\ DOMAIN offsets = 1..n
      /\ \A j \in 1..n : offsets[j] \in Position
  BY <1>1, LenProperties, ElementOfSeq
<1>3. /\ offsets' \in Seq(Position) /\ Len(offsets') = n
      /\ offsets'[f] = Sum(offsets[f], extra)
      /\ \A j \in 1..n : j # f => offsets'[j] = offsets[j]
  <2>1. Sum(offsets[f], extra) \in Position
    BY <1>1, <1>2, SumType
  <2> QED BY <1>1, <1>2, <2>1, ExceptSeq
<1>4. f' \in 1..(n + 1) /\ f' > 1
  BY <1>1
<1>5. offsets'[1] = Sum(base, 8 * c)
  <2>1. CASE f = 1
    <3>1. n > 0 /\ headers # << >>
      BY <1>1, EmptySeq DEF IndexInv
    <3> QED BY <1>1, <1>3, <2>1, <3>1 DEF Shifted
  <2>2. CASE f > 1
    BY <1>1, <1>3, <2>2 DEF Shifted
  <2> QED BY <1>1, <2>1, <2>2
<1>6. ASSUME NEW j \in 2..f
      PROVE  offsets'[j] = Sum(offsets'[j - 1], ActualSize(j - 1))
  <2>0. j - 1 \in 1..n /\ j - 1 # f /\ j \in 1..n
    BY <1>1
  <2>1. CASE j = f
    <3>1. f > 1 /\ ~ (i <= c /\ f = largeFaces[i] + 1)
      BY <1>1, <2>1 DEF Listed
    <3>2. Sum(offsets[f], extra) = Sum(offsets[f - 1], ActualSize(f - 1))
      BY <1>1, <3>1 DEF Shifted
    <3> QED BY <1>3, <2>0, <2>1, <3>2
  <2>2. CASE j \in 2..(f - 1)
    <3>1. j # f
      BY <1>1, <2>2
    <3> QED BY <1>1, <1>3, <2>0, <2>2, <3>1 DEF Shifted
  <2> QED BY <1>1, <2>1, <2>2
<1>7. ASSUME NEW j \in (f + 2)..n
      PROVE  offsets'[j] = Sum(offsets'[j - 1], Apparent(j - 1))
  <2>1. j \in (f + 1)..n /\ j \in 1..n /\ j - 1 \in 1..n /\ j # f /\ j - 1 # f
    BY <1>1
  <2> QED BY <1>1, <1>3, <2>1 DEF Shifted
<1>8. ASSUME f + 1 <= n
      PROVE  IF i <= c /\ f + 1 = largeFaces[i] + 1
             THEN Sum(offsets'[f + 1], extra) = offsets'[f]
             ELSE Sum(offsets'[f + 1], extra) = Sum(offsets'[f], ActualSize(f))
  <2>1. offsets'[f + 1] = Sum(offsets[f], Apparent(f)) /\ Apparent(f) \in Position
    <3>1. f + 1 \in (f + 1)..n /\ (f + 1) - 1 = f /\ f + 1 \in 1..n /\ f + 1 # f
      BY <1>1, <1>8
    <3> QED BY <1>1, <1>3, <3>1, Sizes DEF Shifted
  <2>2. Sum(offsets'[f + 1], extra) = Sum(offsets'[f], Apparent(f))
    BY <1>1, <1>2, <1>3, <2>1, SumSwaps
  <2>3. CASE i <= c /\ f = largeFaces[i]
    <3>1. Apparent(f) = 0
      BY <1>1, <2>3 DEF Listed, Apparent
    <3>2. offsets'[f] \in Position
      BY <1>1, <1>2, <1>3, SumType
    <3> QED BY <1>1, <2>2, <2>3, <3>1, <3>2, SumZero
  <2>4. CASE ~ (i <= c /\ f = largeFaces[i])
    <3>1. i <= c => largeFaces[i] \in Nat /\ f < largeFaces[i]
      BY <1>1, <2>4 DEF Listed
    <3>2. ~IsLarge(f)
      BY <1>1, <3>1, BetweenLarge DEF Shifted
    <3>3. Apparent(f) = ActualSize(f)
      BY <3>2 DEF Apparent, ActualSize
    <3>4. ~ (i <= c /\ f + 1 = largeFaces[i] + 1)
      BY <1>1, <3>1
    <3> QED BY <2>2, <3>3, <3>4
  <2> QED BY <2>3, <2>4
<1>9. Shifted'
  <2>1. /\ i > 1 => largeFaces[i - 1] < f + 1
        /\ i <= c => f + 1 <= largeFaces[i] + 1
    <3>1. i > 1 => i - 1 \in 1..c /\ largeFaces[i - 1] \in Nat /\ largeFaces[i - 1] < f
      BY <1>1 DEF Listed, Shifted
    <3>2. i <= c => i \in 1..c /\ largeFaces[i] \in Nat /\ f <= largeFaces[i]
      BY <1>1 DEF Listed
    <3> QED BY <1>1, <3>1, <3>2
  <2>2. f' = f + 1 /\ f' - 1 = f /\ f' + 1 = f + 2 /\ ~ (f' = 1)
    BY <1>1
  <2>3. \A j : ActualSize(j)' = ActualSize(j)
    BY <1>1, HeadersDecide DEF ActualSize
  <2> QED BY <1>1, <1>3, <1>5, <1>6, <1>7, <1>8, <2>1, <2>2, <2>3, HeadersDecide DEF Shifted
<1>10. Listed(Len(headers))'
  BY <1>1, HeadersDecide DEF Listed
<1> QED
  BY <1>1, <1>3, <1>4, <1>9, <1>10, HeadersDecide DEF IndexInv, input

LEMMA PassLargePreserves ==
  ASSUME IndexInv, PassLarge
  PROVE  IndexInv'
<1> DEFINE n == Len(headers)
           c == Len(largeFaces)
<1>1. /\ pc = "shift" /\ pc' = pc /\ UNCHANGED input /\ job = "level"
      /\ UNCHANGED <<offsets, offset, largeFaces, f>>
      /\ i \in 1..c /\ f > largeFaces[i]
      /\ extra' = Sum(extra, table[i]) /\ i' = i + 1
      /\ n \in Nat /\ c \in Nat /\ f \in 1..(n + 1)
      /\ Listed(n) /\ Shifted
      /\ headers' = headers /\ base' = base /\ table' = table
      /\ offsets \in Seq(Position) /\ Len(offsets) = n /\ extra \in Position
  <2>1. /\ pc = "shift" /\ f \in 1..(n + 1) /\ n \in Nat /\ c \in Nat /\ i \in Nat
        /\ i <= c /\ ~ (f <= largeFaces[i]) /\ job = "level" /\ i \in 1..(c + 1)
        /\ Listed(n) /\ Shifted /\ Len(offsets) = n
    BY LenProperties DEF PassLarge, BeforeLarge, IndexInv, Listed, Shifted
  <2>2. i \in 1..c /\ largeFaces[i] \in Nat
    BY <2>1 DEF Listed
  <2> QED BY <2>1, <2>2 DEF PassLarge, IndexInv, input
<1>2. /\ f = largeFaces[i] + 1 /\ largeFaces[i] \in 1..n /\ IsLarge(largeFaces[i])
      /\ table[i] \in Position /\ ActualSize(f - 1) = table[i]
  <2>1. largeFaces[i] \in 1..n /\ IsLarge(largeFaces[i])
    BY <1>1 DEF Listed
  <2>2. f <= largeFaces[i] + 1
    BY <1>1 DEF Shifted
  <2>3. f = largeFaces[i] + 1 /\ f - 1 = largeFaces[i]
    BY <1>1, <2>1, <2>2
  <2> QED BY <1>1, <2>1, <2>3, TableEntries
<1>3. extra' \in Position
  BY <1>1, <1>2, SumType
<1>4. i' \in 1..(c + 1) /\ i' > 1 /\ i' - 1 = i /\ i' \in Nat
  BY <1>1
<1>5. i' <= c => i' \in 1..c /\ largeFaces[i'] \in Nat /\ f <= largeFaces[i']
  <2>1. i' <= c => i' \in 1..c /\ i < i'
    BY <1>1, <1>4
  <2>2. i' <= c => largeFaces[i] < largeFaces[i'] /\ largeFaces[i'] \in Nat
    BY <1>1, <2>1 DEF Listed
  <2> QED BY <1>1, <1>2, <2>1, <2>2
<1>6. ASSUME f <= n
      PROVE  Sum(offsets[f], extra') = Sum(offsets[f - 1], ActualSize(f - 1))
  <2>1. f > 1 /\ f \in 1..n /\ f - 1 \in 1..n
    BY <1>1, <1>2, <1>6
  <2>2. Sum(offsets[f], extra) = offsets[f - 1]
    BY <1>1, <1>2, <1>6, <2>1 DEF Shifted
  <2>3. offsets[f] \in Position
    BY <1>1, <2>1, ElementOfSeq
  <2>4. Sum(offsets[f], extra') = Sum(Sum(offsets[f], extra), table[i])
    BY <1>1, <1>2, <2>3, SumAssociates
  <2> QED BY <1>2, <2>2, <2>4
<1>7. Shifted'
  <2>1. f > 1 /\ f # 1 /\ largeFaces[i] < f
    BY <1>1, <1>2
  <2>2. ~ (i' <= c /\ f = largeFaces[i'] + 1) /\ (i' <= c => f <= largeFaces[i'] + 1)
    BY <1>1, <1>5
  <2>3. \A j : ActualSize(j)' = ActualSize(j)
    BY <1>1, HeadersDecide DEF ActualSize
  <2> QED BY <1>1, <1>4, <1>6, <2>1, <2>2, <2>3, HeadersDecide DEF Shifted
<1>8. Listed(Len(headers))'
  BY <1>1, HeadersDecide DEF Listed
<1> QED
  BY <1>1, <1>3, <1>4, <1>7, <1>8, HeadersDecide DEF IndexInv, input

LEMMA EndShiftPreserves ==
  ASSUME IndexInv, EndShift
  PROVE  IndexInv'
<1>1. /\ pc = "shift" /\ pc' = "done" /\ UNCHANGED input /\ UNCHANGED locals
      /\ Len(headers) \in Nat /\ f = Len(headers) + 1
      /\ Listed(Len(headers)) /\ Shifted /\ job = "level"
      /\ headers' = headers
  BY LenProperties DEF EndShift, IndexInv, input
<1>2. /\ Len(offsets) = Len(headers)
      /\ headers # << >> => offsets[1] = Sum(base, 8 * Cardinality(LargeFacePositions))
      /\ \A j \in 2..Len(headers) : offsets[j] = Sum(offsets[j - 1], ActualSize(j - 1))
  <2>1. Len(largeFaces) = Cardinality(LargeFacePositions)
    BY <1>1, LargeCounted
  <2>2. headers # << >> => f > 1
    BY <1>1, EmptySeq DEF IndexInv
  <2>3. \A j \in 2..Len(headers) : j \in 2..(f - 1)
    BY <1>1
  <2> QED BY <1>1, <2>1, <2>2, <2>3 DEF Shifted
<1>3. BlocksAreAdjacent'
  <2>1. \A j : ActualSize(j)' = ActualSize(j)
    BY <1>1, HeadersDecide DEF ActualSize, input
  <2> QED BY <1>1, <1>2, <2>1, HeadersDecide DEF BlocksAreAdjacent, input, locals
<1>4. /\ table \in Seq(TableSizes) /\ Len(table) = Cardinality(LargeFacePositions)
      /\ Len(headers) <= MaxFaces
  BY <1>1 DEF IndexInv
<1>5. /\ headers \in Seq(Header) /\ base \in Position /\ offset \in Position /\ extra \in Position
      /\ offsets \in Seq(Position) /\ f \in 1..(Len(headers) + 1) /\ i \in Nat /\ res \in FaceRes
  BY DEF IndexInv
<1> QED
  BY <1>1, <1>3, <1>4, <1>5, HeadersDecide DEF IndexInv, input, locals

-----------------------------------------------------------------------------
(* The steps of a directory. *)

LEMMA ReadTileHeaderPreserves ==
  ASSUME IndexInv, ReadTileHeader
  PROVE  IndexInv'
<1>1. /\ pc = "tilehead" /\ job = "tiles" /\ job' = job /\ res' = res /\ base' = base
      /\ UNCHANGED locals /\ headers = << >> /\ f = 1 /\ Placed(1)
      /\ res \in FaceRes /\ base \in Position /\ offset \in Position /\ extra \in Position
      /\ offsets \in Seq(Position) /\ i \in Nat
  BY DEF ReadTileHeader, IndexInv
<1>2. /\ f' = 1 /\ i' = i /\ offset' = offset /\ extra' = extra /\ offsets' = offsets
  BY <1>1 DEF locals
<1>3. Placed(f)'
  <2>1. Len(offsets) = 0 /\ offset = base
    BY <1>1 DEF Placed
  <2>2. 2..(f' - 1) = {} /\ ~ (f' > 1)
    BY <1>2
  <2> QED BY <1>1, <1>2, <2>1, <2>2 DEF Placed
<1>4. NoLarge(f - 1)'
  <2>1. 1..(f' - 1) = {}
    BY <1>2
  <2> QED BY <2>1 DEF NoLarge
<1>5. PICK t \in [u : TileLogs, v : TileLogs] :
        IF TileFits(t)
        THEN headers' \in [1..NTiles(res, t) -> Header] /\ pc' = "tiles"
        ELSE pc' = "err" /\ UNCHANGED headers
  BY DEF ReadTileHeader
<1>6. CASE TileFits(t)
  <2>1. res.u \in Nat /\ res.v \in Nat
    BY <1>1, ResAssumption
  <2>2. t.u \in 0..res.u /\ t.v \in 0..res.v
    <3>1. t.u \in TileLogs /\ t.v \in TileLogs
      BY <1>5
    <3>2. t.u \in Int /\ t.v \in Int
      BY <3>1, ResAssumption
    <3> QED BY <1>6, <2>1, <3>2 DEF TileFits
  <2>3. t \in [u : 0..res.u, v : 0..res.v]
    BY <1>5, <2>2
  <2>4. PICK n \in Nat \ {0} : n = NTiles(res, t)
    BY <1>1, <2>3, TilesAssumption
  <2>5. headers' \in Seq(Header) /\ Len(headers') = n
    BY <1>5, <1>6, <2>4
  <2>6. f' \in 1..(Len(headers') + 1)
    BY <1>2, <2>5
  <2>7. NTiles(res, t)' = NTiles(res, t)
    BY <1>1 DEF NTiles
  <2>8. \E s \in [u : 0..res'.u, v : 0..res'.v] : Len(headers') = NTiles(res, s)'
    BY <1>1, <2>3, <2>4, <2>5, <2>7 DEF NTiles
  <2> QED BY <1>1, <1>2, <1>3, <1>4, <1>5, <1>6, <2>5, <2>6, <2>8 DEF IndexInv, NTiles
<1>7. CASE ~TileFits(t)
  <2>1. pc' = "err" /\ headers' = headers /\ Len(headers) = 0 /\ headers \in Seq(Header)
    BY <1>1, <1>5, <1>7, EmptySeq
  <2> QED BY <1>1, <1>2, <2>1 DEF IndexInv
<1> QED
  BY <1>6, <1>7

LEMMA PlaceTilePreserves ==
  ASSUME IndexInv, PlaceTile
  PROVE  IndexInv'
<1>1. /\ pc = "tiles" /\ job = "tiles" /\ UNCHANGED input
      /\ headers \in Seq(Header) /\ Len(headers) \in Nat /\ f \in 1..Len(headers)
      /\ Placed(f) /\ NoLarge(f - 1)
      /\ headers' = headers /\ base' = base /\ res' = res
      /\ \E t \in [u : 0..res.u, v : 0..res.v] : Len(headers) = NTiles(res, t)
  BY LenProperties DEF PlaceTile, IndexInv, input
<1>2. /\ res \in FaceRes /\ base \in Position /\ offset \in Position /\ extra \in Position
      /\ offsets \in Seq(Position) /\ i \in Nat /\ DOMAIN headers = 1..Len(headers)
  BY LenProperties DEF IndexInv
<1>3. CASE IsLarge(f) \/ headers[f].encoding = "tiled"
  <2>1. pc' = "err" /\ UNCHANGED locals
    BY <1>3 DEF PlaceTile
  <2>2. \E j \in DOMAIN headers' : IsLarge(j)' \/ headers'[j].encoding = "tiled"
    BY <1>1, <1>2, <1>3, HeadersDecide
  <2>3. f' \in 1..(Len(headers') + 1)
    BY <1>1, <2>1 DEF locals
  <2> QED BY <1>1, <1>2, <2>1, <2>2, <2>3 DEF IndexInv, input, locals
<1>4. CASE ~ (IsLarge(f) \/ headers[f].encoding = "tiled")
  <2>1. /\ offsets' = Append(offsets, offset) /\ f' = f + 1 /\ pc' = pc
        /\ offset' = Sum(offset, Apparent(f)) /\ extra' = extra /\ i' = i
    BY <1>4 DEF PlaceTile, Apparent
  <2>2. /\ Placed(f)' /\ offsets' \in Seq(Position) /\ offset' \in Position
        /\ f' \in 1..(Len(headers) + 1)
    BY <1>1, <2>1, PlacedNext
  <2>3. NoLarge(f - 1)'
    <3>1. \A j \in 1..(f' - 1) : j = f \/ j \in 1..(f - 1)
      BY <1>1, <2>1
    <3> QED BY <1>1, <1>4, <3>1, HeadersDecide DEF NoLarge
  <2>4. \E t \in [u : 0..res'.u, v : 0..res'.v] : Len(headers') = NTiles(res, t)'
    BY <1>1 DEF NTiles
  <2> QED BY <1>1, <1>2, <2>1, <2>2, <2>3, <2>4 DEF IndexInv, input, NTiles
<1> QED
  BY <1>3, <1>4

LEMMA EndTilesPreserves ==
  ASSUME IndexInv, EndTiles
  PROVE  IndexInv'
<1> DEFINE n == Len(headers)
<1>1. /\ pc = "tiles" /\ job = "tiles" /\ pc' = "done" /\ UNCHANGED input /\ UNCHANGED locals
      /\ n \in Nat /\ f = n + 1 /\ Placed(n + 1) /\ NoLarge(n)
      /\ headers' = headers /\ headers \in Seq(Header) /\ base \in Position
      /\ \E t \in [u : 0..res.u, v : 0..res.v] : n = NTiles(res, t)
  <2>1. /\ pc = "tiles" /\ job = "tiles" /\ f > n /\ n \in Nat /\ f \in 1..(n + 1)
        /\ Placed(f) /\ NoLarge(f - 1) /\ headers \in Seq(Header) /\ base \in Position
        /\ \E t \in [u : 0..res.u, v : 0..res.v] : n = NTiles(res, t)
    BY LenProperties DEF EndTiles, IndexInv
  <2>2. f = n + 1 /\ f - 1 = n
    BY <2>1
  <2> QED BY <2>1, <2>2 DEF EndTiles, input
<1>2. 8 * Cardinality(LargeFacePositions) = 0
  <2>1. DOMAIN headers = 1..n
    BY <1>1, LenProperties
  <2>2. LargeFacePositions = {}
    BY <1>1, <2>1 DEF LargeFacePositions, NoLarge
  <2>3. Cardinality({}) = 0
    BY FS_EmptySet
  <2> QED BY <2>2, <2>3
<1>3. headers # << >> => offsets[1] = Sum(base, 0)
  <2>1. headers # << >> => n > 0
    BY <1>1, EmptySeq
  <2> QED BY <1>1, <2>1, SumZero DEF Placed
<1>4. ASSUME NEW j \in 2..n
      PROVE  offsets[j] = Sum(offsets[j - 1], ActualSize(j - 1))
  <2>1. j \in 2..((n + 1) - 1) /\ j - 1 \in 1..n
    BY <1>1
  <2>2. ActualSize(j - 1) = Apparent(j - 1)
    BY <1>1, <2>1 DEF NoLarge, ActualSize, Apparent
  <2> QED BY <1>1, <2>1, <2>2 DEF Placed
<1>5. Len(offsets) = n
  BY <1>1 DEF Placed
<1>6. BlocksAreAdjacent'
  <2>1. \A j : ActualSize(j)' = ActualSize(j)
    BY <1>1, HeadersDecide DEF ActualSize, input
  <2> QED BY <1>1, <1>2, <1>3, <1>4, <1>5, <2>1, HeadersDecide DEF BlocksAreAdjacent, input, locals
<1>7. NoLarge(f - 1)' /\ f' = Len(headers') + 1
  <2>1. f' = f /\ f' - 1 = n
    BY <1>1 DEF locals
  <2> QED BY <1>1, <2>1, HeadersDecide DEF NoLarge
<1>8. \E t \in [u : 0..res'.u, v : 0..res'.v] : Len(headers') = NTiles(res, t)'
  BY <1>1 DEF NTiles, input
<1>9. /\ res \in FaceRes /\ offset \in Position /\ extra \in Position
      /\ offsets \in Seq(Position) /\ i \in Nat
  BY DEF IndexInv
<1>10. f' \in 1..(Len(headers') + 1)
  BY <1>1, <1>7
<1> QED
  BY <1>1, <1>6, <1>7, <1>8, <1>9, <1>10 DEF IndexInv, input, locals, NTiles

LEMMA StutterPreserves ==
  ASSUME IndexInv, UNCHANGED vars
  PROVE  IndexInv'
<1>1. /\ pc' = pc /\ job' = job /\ res' = res /\ headers' = headers /\ table' = table
      /\ base' = base /\ offsets' = offsets /\ offset' = offset /\ largeFaces' = largeFaces
      /\ extra' = extra /\ f' = f /\ i' = i
  BY DEF vars, input, locals
<1>2. /\ \A j : IsLarge(j)' = IsLarge(j)
      /\ \A j : Apparent(j)' = Apparent(j)
      /\ \A j : LargeUpTo(j)' = LargeUpTo(j)
      /\ \A j : NoLarge(j)' = NoLarge(j)
      /\ LargeFacePositions' = LargeFacePositions
  BY <1>1 DEF IsLarge, Apparent, LargeUpTo, NoLarge, LargeFacePositions
<1>3. \A j : Rank(j)' = Rank(j) /\ ActualSize(j)' = ActualSize(j)
  BY <1>1 DEF IsLarge, Rank, ActualSize
<1>4. /\ (Placed(f) => Placed(f)') /\ (Listed(f - 1) => Listed(f - 1)')
      /\ (Listed(Len(headers)) => Listed(Len(headers))') /\ (Shifted => Shifted')
      /\ (NoLarge(f - 1) => NoLarge(f - 1)')
  BY <1>1, <1>2, <1>3 DEF Placed, Listed, Shifted, NoLarge
<1>5. BlocksAreAdjacent => BlocksAreAdjacent'
  BY <1>1, <1>2, <1>3 DEF BlocksAreAdjacent
<1>6. (\E t \in [u : 0..res.u, v : 0..res.v] : Len(headers) = NTiles(res, t)) =>
        \E t \in [u : 0..res'.u, v : 0..res'.v] : Len(headers') = NTiles(res, t)'
  BY <1>1 DEF NTiles
<1> QED
  BY <1>1, <1>2, <1>4, <1>5, <1>6 DEF IndexInv, NTiles

LEMMA NextIndexInv == IndexInv /\ [Next]_vars => IndexInv'
BY ReadTablePreserves, PlaceFacePreserves, StartShiftPreserves, ShiftPreserves,
   PassLargePreserves, EndShiftPreserves, ReadTileHeaderPreserves, PlaceTilePreserves,
   EndTilesPreserves, StutterPreserves DEF Next

LEMMA IndexInvHolds == Spec => []IndexInv
BY InitIndexInv, NextIndexInv, PTL DEF Spec

-----------------------------------------------------------------------------
(* A finished index puts every block just past the one before it, the      *)
(* first just past the table, for a level of any length with any mix of    *)
(* large faces (level_offsets, decode.rs:73-110) and for a directory       *)
(* (parse_tile_dir, 133-161); and the error "truncated large face table"   *)
(* (91-94) is unreachable for both readers, as large_face_positions        *)
(* (62-66) counts what the first pass counts.                              *)
THEOREM LevelsAreIndexed == Spec => []IndexHolds
<1>1. ASSUME IndexInv PROVE BlocksAreAdjacent
  <2>1. CASE pc = "done"
    BY <1>1, <2>1 DEF IndexInv
  <2>2. CASE pc # "done"
    BY <2>2 DEF BlocksAreAdjacent
  <2> QED BY <2>1, <2>2
<1>2. ASSUME IndexInv PROVE TableIsLongEnough
  BY <1>2 DEF IndexInv, TableIsLongEnough
<1>3. IndexInv => IndexHolds
  BY <1>1, <1>2 DEF IndexHolds
<1> QED
  BY <1>3, IndexInvHolds, PTL

(* A directory is only of a face its tiles divide, holds one header a tile *)
(* and no tile without a size or a place of its own, and is refused for    *)
(* nothing else (decode.rs:120-125, 136-152).                              *)
THEOREM DirectoriesAreWhole == Spec => []OnlyWholeDirectories
<1>1. ASSUME IndexInv PROVE OnlyWholeDirectories
  <2>1. DOMAIN headers = 1..Len(headers)
    BY LenProperties DEF IndexInv
  <2>2. ASSUME job = "tiles", pc = "done"
        PROVE  /\ \E t \in [u : 0..res.u, v : 0..res.v] : Len(headers) = NTiles(res, t)
               /\ \A j \in DOMAIN headers : headers[j].blocksize < Large
               /\ \A j \in DOMAIN headers : headers[j].encoding # "tiled"
    <3>1. NoLarge(Len(headers))
      <4>1. NoLarge(f - 1) /\ f = Len(headers) + 1 /\ Len(headers) \in Nat
        BY <1>1, <2>2, LenProperties DEF IndexInv
      <4>2. f - 1 = Len(headers)
        BY <4>1
      <4> QED BY <4>1, <4>2
    <3>2. ASSUME NEW j \in 1..Len(headers) PROVE headers[j].blocksize < Large
      <4>1. headers[j].blocksize # Large
        BY <3>1 DEF NoLarge, IsLarge
      <4> QED BY <1>1, <4>1, Sizes, SizeAssumption, WidthAssumption DEF Position
    <3> QED BY <1>1, <2>1, <2>2, <3>1, <3>2 DEF NoLarge, IndexInv
  <2>3. pc = "err" /\ headers # << >> =>
          \E j \in DOMAIN headers : IsLarge(j) \/ headers[j].encoding = "tiled"
    BY <1>1 DEF IndexInv
  <2> QED BY <2>2, <2>3 DEF OnlyWholeDirectories
<1> QED
  BY <1>1, IndexInvHolds, PTL
=============================================================================
