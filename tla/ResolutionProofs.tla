---------------------------- MODULE ResolutionProofs ----------------------------
(***************************************************************************)
(* Routing is sound for any face, any file and any request: no chain of    *)
(* reductions gets lost, the query that promises no computation tells the  *)
(* truth, and every level a face is said to have can be read.              *)
(***************************************************************************)
EXTENDS Resolution, FiniteSetTheorems, WellFoundedInduction, TLAPS

-----------------------------------------------------------------------------
(* Subtraction of eight-bit logarithms: from a face's own, which is not    *)
(* negative, it wraps only below a very negative request, and then to a    *)
(* negative difference.                                                    *)
LEMMA Sub8Value ==
  ASSUME NEW a \in 0..127, NEW b \in -128..127
  PROVE  Sub8(a, b) = IF a - b <= 127 THEN a - b ELSE a - b - 256
BY DEF Sub8

LEMMA Sub8Exact ==
  ASSUME NEW a \in 0..127, NEW b \in 0..127
  PROVE  Sub8(a, b) = a - b
<1>1. b \in -128..127 /\ a - b <= 127
  OBVIOUS
<1>2. Sub8(a, b) = IF a - b <= 127 THEN a - b ELSE a - b - 256
  BY <1>1, Sub8Value, Zenon
<1> QED
  BY <1>1, <1>2

Log2 == -128..127

(* Halvings left on one axis.                                              *)
LEMMA HalvingsLeft ==
  /\ \A a \in 0..127 : \A b \in 0..a : a - b \in 0..127 /\ b \in 0..127
  /\ \A a, b \in 0..127 : a - b >= 0 => b \in 0..a
  /\ \A a, b \in Log2 : a - b \in Int
  /\ \A a \in 0..127 : \A b \in 0..a : a - b > 0 => b + 1 \in 0..a
<1>1. ASSUME NEW a \in 0..127, NEW b \in 0..a
      PROVE  a - b \in 0..127 /\ b \in 0..127 /\ (a - b > 0 => b + 1 \in 0..a)
  <2>1. a \in Int /\ b \in Int /\ 0 <= b /\ b <= a /\ a <= 127
    OBVIOUS
  <2> QED BY <2>1
<1>2. \A a, b \in 0..127 : a - b >= 0 => b \in 0..a
  OBVIOUS
<1>3. \A a, b \in Log2 : a - b \in Int
  BY DEF Log2
<1> QED
  BY <1>1, <1>2, <1>3

LEMMA LeastLogarithm ==
  ASSUME NEW a \in 0..127, NEW b \in 0..127, NEW l \in Int
  PROVE  /\ Least(a, b) \in 0..127
         /\ l <= Least(a, b) <=> l <= a /\ l <= b
BY DEF Least

(* A set of naturals that is not empty has a least element: the first      *)
(* level that is not stored.                                               *)
LEMMA LeastElement ==
  ASSUME NEW S \in SUBSET Nat, S # {}
  PROVE  \E n \in S : \A m \in 0..(n - 1) : m \notin S
<1> DEFINE R == StrictSubsetOrdering(Nat)
           F == FiniteSubsetsOf(Nat)
           I == {1..n : n \in S}
<1>1. ASSUME NEW n \in Nat PROVE 1..n \in F
  <2>1. IsFiniteSet(1..n)
    BY FS_Interval
  <2> QED BY <2>1 DEF FiniteSubsetsOf
<1>2. I \subseteq F /\ I # {}
  BY <1>1
<1>3. IsWellFoundedOn(R, F)
  BY FS_StrictSubsetOrderingWellFounded
<1> HIDE DEF R, F
<1>4. PICK i \in I : \A j \in I : ~ (<<j, i>> \in R)
  BY <1>2, <1>3, WFMin
<1>5. PICK n \in S : i = 1..n
  BY <1>4
<1>6. ASSUME NEW m \in 0..(n - 1), m \in S PROVE FALSE
  <2>1. n \in Nat /\ 1..m \in I
    BY <1>6
  <2>2. 1..m \subseteq 1..n /\ n \in 1..n /\ n \notin 1..m
    BY <1>6, <2>1
  <2>3. <<1..m, 1..n>> \in R
    <3>1. 1..m \in SUBSET Nat /\ 1..n \in SUBSET Nat
      OBVIOUS
    <3> QED BY <2>2, <3>1 DEF R, StrictSubsetOrdering
  <2> QED BY <1>4, <1>5, <2>1, <2>3
<1> QED
  BY <1>6

-----------------------------------------------------------------------------
(* The inductive invariant.  The file does not change; what the chain has  *)
(* come to is the request itself, or a resolution of the face that is      *)
(* larger than one texel, halved evenly, of a face that is not constant.   *)

FileInv ==
  /\ mesh \in {"triangle", "quad"}
  /\ constant \in BOOLEAN /\ edited \in BOOLEAN
  /\ full \in [u : 0..127, v : 0..127]
  /\ nlevels \in Nat /\ inLevel \subseteq 0..(nlevels - 1)
  /\ asked \in [u : Log2, v : Log2]

Passed(r) ==
  /\ ~constant
  /\ r \in [u : 0..full.u, v : 0..full.v]
  /\ ~IsOne(r)
  /\ mesh = "triangle" => RedU(r) = RedV(r)
  /\ Gap(r) <= IF Gap(asked) = 0 THEN 1 ELSE Gap(asked)

IInv == FileInv /\ (res = asked \/ Passed(res))

LEMMA InitInv == Init => IInv
BY FaceLog2Assumption, RequestLog2Assumption, MaxLevelsAssumption
   DEF Init, IInv, FileInv, Res, Log2

(* A resolution the face contains.                                         *)
LEMMA Inside ==
  ASSUME FileInv, NEW r \in [u : 0..full.u, v : 0..full.v]
  PROVE  /\ r \in [u : 0..127, v : 0..127]
         /\ RedU(r) = full.u - r.u /\ RedV(r) = full.v - r.v
         /\ RedU(r) \in 0..127 /\ RedV(r) \in 0..127
<1>1. full.u \in 0..127 /\ full.v \in 0..127
  BY DEF FileInv
<1>2. r.u \in 0..full.u /\ r.v \in 0..full.v /\ r = [u |-> r.u, v |-> r.v]
  OBVIOUS
<1>3. r.u \in 0..127 /\ r.v \in 0..127
  BY <1>1, <1>2
<1>4. RedU(r) = full.u - r.u /\ RedV(r) = full.v - r.v
  BY <1>1, <1>3, Sub8Exact DEF RedU, RedV
<1>5. full.u - r.u \in 0..127 /\ full.v - r.v \in 0..127
  BY <1>1, <1>2, HalvingsLeft
<1>6. r \in [u : 0..127, v : 0..127]
  BY <1>2, <1>3
<1> QED
  BY <1>4, <1>5, <1>6

(* Any request at all has differences that are integers.                   *)
LEMMA Differences ==
  ASSUME FileInv, NEW r \in [u : Log2, v : Log2]
  PROVE  /\ RedU(r) = IF full.u - r.u <= 127 THEN full.u - r.u ELSE full.u - r.u - 256
         /\ RedV(r) = IF full.v - r.v <= 127 THEN full.v - r.v ELSE full.v - r.v - 256
         /\ RedU(r) \in Int /\ RedV(r) \in Int
<1>1. full.u \in 0..127 /\ full.v \in 0..127
  BY DEF FileInv
<1>2. r.u \in -128..127 /\ r.v \in -128..127
  BY DEF Log2
<1>3. RedU(r) = IF full.u - r.u <= 127 THEN full.u - r.u ELSE full.u - r.u - 256
  BY <1>1, <1>2, Sub8Value DEF RedU
<1>4. RedV(r) = IF full.v - r.v <= 127 THEN full.v - r.v ELSE full.v - r.v - 256
  BY <1>1, <1>2, Sub8Value DEF RedV
<1>5. full.u - r.u \in Int /\ full.v - r.v \in Int
  <2>1. full.u \in Log2 /\ full.v \in Log2 /\ r.u \in Log2 /\ r.v \in Log2
    BY <1>1 DEF Log2
  <2> QED BY <2>1, HalvingsLeft
<1>6. RedU(r) \in Int
  BY <1>3, <1>5
<1>7. RedV(r) \in Int
  BY <1>4, <1>5
<1> QED
  BY <1>3, <1>4, <1>6, <1>7

(* What the chain has come to is a request in range.                       *)
LEMMA ResInRange ==
  ASSUME IInv
  PROVE  res \in [u : Log2, v : Log2]
<1>1. CASE res = asked
  BY <1>1 DEF IInv, FileInv
<1>2. CASE Passed(res)
  <2>1. res \in [u : 0..full.u, v : 0..full.v]
    BY <1>2 DEF Passed
  <2>2. res \in [u : 0..127, v : 0..127]
    BY <2>1, Inside DEF IInv
  <2> QED BY <2>2 DEF Log2
<1> QED
  BY <1>1, <1>2 DEF IInv

(* A reduction is promised only of a resolution the face contains, larger  *)
(* than a texel and smaller than the face, lopsided only on a quad.        *)
LEMMA ReducedIsInside ==
  ASSUME FileInv, NEW r \in [u : Log2, v : Log2], Resolve(r) = "reduced"
  PROVE  /\ ~constant /\ ~IsOne(r)
         /\ r \in [u : 0..full.u, v : 0..full.v]
         /\ ~ (RedU(r) = 0 /\ RedV(r) = 0)
         /\ mesh = "triangle" => RedU(r) = RedV(r)
<1>1. ~ConstantRoute(r) /\ ~FullRoute(r) /\ ~Unsupported(r)
  BY DEF Resolve
<1>2. full.u \in 0..127 /\ full.v \in 0..127
  BY DEF FileInv
<1>3. r.u \in -128..127 /\ r.v \in -128..127 /\ r = [u |-> r.u, v |-> r.v]
  BY DEF Log2
<1>4. r.u >= 0 /\ r.v >= 0 /\ RedU(r) >= 0 /\ RedV(r) >= 0
  BY <1>1, <1>3, Differences DEF Unsupported
<1>5. r.u \in 0..127 /\ r.v \in 0..127
  BY <1>3, <1>4
<1>6. RedU(r) = full.u - r.u /\ RedV(r) = full.v - r.v
  BY <1>2, <1>5, Sub8Exact DEF RedU, RedV
<1>7. full.u - r.u >= 0 /\ full.v - r.v >= 0
  BY <1>4, <1>6
<1>8. r.u \in 0..full.u /\ r.v \in 0..full.v
  BY <1>2, <1>5, <1>7, HalvingsLeft
<1> QED
  BY <1>1, <1>3, <1>8 DEF ConstantRoute, FullRoute, Unsupported

(* What it is reduced from is inside the face too, one halving nearer to   *)
(* it on one axis of a quad, on both of a triangle.                        *)
LEMMA SourceIsNearer ==
  ASSUME FileInv, NEW r \in [u : Log2, v : Log2], Resolve(r) = "reduced"
  PROVE  LET s == ReductionSource(r)
         IN /\ s \in [u : 0..full.u, v : 0..full.v]
            /\ ~IsOne(s)
            /\ mesh = "triangle" => RedU(s) = RedV(s)
            /\ RedU(s) \in 0..RedU(r) /\ RedV(s) \in 0..RedV(r)
            /\ RedU(s) + RedV(s) < RedU(r) + RedV(r)
            /\ Gap(s) <= IF Gap(r) = 0 THEN 1 ELSE Gap(r)
<1> DEFINE s == ReductionSource(r)
           x == full.u - r.u
           y == full.v - r.v
<1>1. /\ r \in [u : 0..full.u, v : 0..full.v]
      /\ ~ (RedU(r) = 0 /\ RedV(r) = 0)
      /\ mesh = "triangle" => RedU(r) = RedV(r)
  BY ReducedIsInside
<1>2. RedU(r) = x /\ RedV(r) = y /\ x \in 0..127 /\ y \in 0..127 /\ ~(x = 0 /\ y = 0)
  <2>1. RedU(r) = x /\ RedV(r) = y /\ RedU(r) \in 0..127 /\ RedV(r) \in 0..127
    BY <1>1, Inside
  <2> QED BY <1>1, <2>1
<1>3. /\ full.u \in 0..127 /\ full.v \in 0..127
      /\ r.u \in 0..full.u /\ r.v \in 0..full.v
  BY <1>1 DEF FileInv
<1>4. \/ mesh = "triangle" /\ s = Res(r.u + 1, r.v + 1) /\ x = y
      \/ mesh # "triangle" /\ s = Res(r.u + 1, r.v) /\ x >= y
      \/ mesh # "triangle" /\ s = Res(r.u, r.v + 1) /\ x <= y
  <2> HIDE DEF x, y
  <2>1. CASE mesh = "triangle"
    BY <1>1, <1>2, <2>1 DEF ReductionSource
  <2>2. CASE mesh # "triangle" /\ BlendU(r)
    <3>1. x >= y
      BY <1>2, <2>2 DEF BlendU
    <3> QED BY <2>2, <3>1 DEF ReductionSource
  <2>3. CASE mesh # "triangle" /\ ~BlendU(r)
    <3>1. x <= y
      BY <1>2, <2>3 DEF BlendU
    <3> QED BY <2>3, <3>1 DEF ReductionSource
  <2> QED BY <2>1, <2>2, <2>3
<1>5. /\ s.u \in 0..full.u /\ s.v \in 0..full.v
      /\ s = [u |-> s.u, v |-> s.v]
      /\ s.u + s.v > r.u + r.v
  <2>1. /\ x > 0 => r.u + 1 \in 0..full.u
        /\ y > 0 => r.v + 1 \in 0..full.v
    BY <1>3, HalvingsLeft
  <2>2. /\ s = Res(r.u + 1, r.v + 1) \/ s = Res(r.u + 1, r.v) => x > 0
        /\ s = Res(r.u + 1, r.v + 1) \/ s = Res(r.u, r.v + 1) => y > 0
    <3> HIDE DEF x, y
    <3>1. Res(r.u + 1, r.v + 1) # Res(r.u + 1, r.v) /\ Res(r.u + 1, r.v + 1) # Res(r.u, r.v + 1)
          /\ Res(r.u + 1, r.v) # Res(r.u, r.v + 1)
      BY <1>3 DEF Res
    <3> QED BY <1>2, <1>4, <3>1
  <2>3. /\ s = Res(r.u + 1, r.v + 1) \/ s = Res(r.u + 1, r.v) \/ s = Res(r.u, r.v + 1)
    BY <1>4
  <2> HIDE DEF x, y, s
  <2>4. s.u \in 0..full.u /\ s.v \in 0..full.v /\ s = [u |-> s.u, v |-> s.v]
    BY <1>3, <2>1, <2>2, <2>3 DEF Res
  <2>5. s.u + s.v > r.u + r.v
    BY <1>3, <2>3 DEF Res
  <2> QED BY <2>4, <2>5
<1>6. s \in [u : 0..full.u, v : 0..full.v]
  BY <1>5
<1>7. RedU(s) = full.u - s.u /\ RedV(s) = full.v - s.v
  BY <1>6, Inside
<1>8. ~IsOne(s)
  BY <1>3, <1>5 DEF IsOne
<1>9. \/ mesh = "triangle" /\ RedU(s) = x - 1 /\ RedV(s) = y - 1 /\ x = y
      \/ mesh # "triangle" /\ RedU(s) = x - 1 /\ RedV(s) = y /\ x >= y
      \/ mesh # "triangle" /\ RedU(s) = x /\ RedV(s) = y - 1 /\ x <= y
  <2>1. full.u - (r.u + 1) = x - 1 /\ full.v - (r.v + 1) = y - 1
    BY <1>3
  <2> HIDE DEF x, y, s
  <2>2. CASE mesh = "triangle" /\ s = Res(r.u + 1, r.v + 1) /\ x = y
    BY <1>7, <2>1, <2>2 DEF Res
  <2>3. CASE mesh # "triangle" /\ s = Res(r.u + 1, r.v) /\ x >= y
    BY <1>7, <2>1, <2>3 DEF Res, y
  <2>4. CASE mesh # "triangle" /\ s = Res(r.u, r.v + 1) /\ x <= y
    BY <1>7, <2>1, <2>4 DEF Res, x
  <2> QED BY <1>4, <2>2, <2>3, <2>4
<1>10. RedU(s) \in Nat /\ RedV(s) \in Nat
  BY <1>6, Inside
<1> HIDE DEF x, y, s
<1>11. mesh = "triangle" => RedU(s) = RedV(s)
  BY <1>9
<1>12. /\ RedU(s) \in 0..RedU(r) /\ RedV(s) \in 0..RedV(r)
       /\ RedU(s) + RedV(s) < RedU(r) + RedV(r)
  BY <1>2, <1>9, <1>10
<1>13. Gap(s) <= IF Gap(r) = 0 THEN 1 ELSE Gap(r)
  <2>1. CASE x = y
    BY <1>2, <1>9, <2>1 DEF Gap
  <2>2. CASE x # y
    BY <1>2, <1>9, <2>2 DEF Gap
  <2> QED BY <2>1, <2>2
<1> QED
  BY <1>6, <1>8, <1>11, <1>12, <1>13 DEF s

LEMMA RecurseKeeps ==
  ASSUME IInv, Recurse
  PROVE  IInv'
<1> DEFINE r == res
           s == ReductionSource(res)
           Bound == IF Gap(asked) = 0 THEN 1 ELSE Gap(asked)
<1>1. res \in [u : Log2, v : Log2] /\ Resolve(res) = "reduced" /\ FileInv
  BY ResInRange DEF Recurse, IInv
<1>2. ~constant
  BY <1>1, ReducedIsInside
<1>3. /\ s \in [u : 0..full.u, v : 0..full.v] /\ ~IsOne(s)
      /\ mesh = "triangle" => RedU(s) = RedV(s)
      /\ Gap(s) <= IF Gap(res) = 0 THEN 1 ELSE Gap(res)
  BY <1>1, SourceIsNearer
<1>4. Gap(s) <= Bound
  <2>1. asked \in [u : Log2, v : Log2] /\ s \in [u : Log2, v : Log2]
    <3>1. s \in [u : 0..127, v : 0..127]
      BY <1>1, <1>3, Inside
    <3> QED BY <1>1, <3>1 DEF FileInv, Log2
  <2>2. Gap(asked) \in Nat /\ Gap(res) \in Nat /\ Gap(s) \in Nat
    BY <1>1, <2>1, Differences DEF Gap
  <2>3. CASE res = asked
    BY <1>3, <2>3
  <2>4. CASE Passed(res)
    <3>1. Gap(res) <= Bound
      BY <2>4 DEF Passed
    <3> HIDE DEF s
    <3> QED BY <1>3, <2>2, <3>1
  <2> QED BY <2>3, <2>4 DEF IInv
<1>5. Passed(s)
  BY <1>2, <1>3, <1>4 DEF Passed
<1>6. res' = s /\ UNCHANGED <<file, asked>>
  BY DEF Recurse
<1>7. FileInv'
  BY <1>1, <1>6 DEF FileInv, file
<1>8. Passed(res)'
  <2>1. /\ mesh' = mesh /\ constant' = constant /\ full' = full /\ asked' = asked
    BY <1>6 DEF file
  <2> HIDE DEF s
  <2> QED BY <1>5, <1>6, <2>1 DEF Passed, RedU, RedV, Gap, IsOne
<1> QED
  BY <1>7, <1>8 DEF IInv

(* The chain stays on the face.                                            *)
LEMMA Invariance == Spec => []IInv
<1>1. IInv /\ [Next]_vars => IInv'
  <2> SUFFICES ASSUME IInv, [Next]_vars PROVE IInv'
    OBVIOUS
  <2>1. CASE Recurse
    BY <2>1, RecurseKeeps
  <2>2. CASE UNCHANGED vars
    BY <2>2 DEF vars, file, IInv, FileInv, Passed, RedU, RedV, Gap, IsOne
  <2> QED BY <2>1, <2>2 DEF Next
<1> QED
  BY InitInv, <1>1, PTL DEF Spec
-----------------------------------------------------------------------------
(* A chain of reductions is sound whatever the face, the file and the      *)
(* request: it passes through resolutions the face has, evenly, and comes  *)
(* to an end at texels that are stored, unless level 0 lacks the face      *)
(* (resolve and reduction_source, file_info.rs:336-410, as reduced() of    *)
(* cache.rs:1277-1289 follows them).                                       *)
THEOREM ChainsAreSound == Spec => []ChainIsSound
<1>1. ASSUME IInv PROVE ChainIsSound
  <2>1. FileInv /\ res \in [u : Log2, v : Log2]
    BY <1>1, ResInRange DEF IInv
  <2>2. TypeOK
    <3>1. res.u \in -128..127 /\ res.v \in -128..127
      BY <2>1 DEF Log2
    <3> QED BY <3>1 DEF TypeOK, Resolve
  <2>3. Resolve(res) = "corrupt" => 0 \notin inLevel
    BY DEF Resolve
  <2>4. ASSUME Passed(res)
        PROVE  /\ Resolve(res) \in {"stored", "reduced", "corrupt"}
               /\ Resolve(res) # "reduced" =>
                    res = full \/ (RedU(res) = RedV(res) /\ RedU(res) \in inLevel)
    <3>1. /\ ~ConstantRoute(res)
          /\ res \in [u : 0..full.u, v : 0..full.v]
          /\ mesh = "triangle" => RedU(res) = RedV(res)
      BY <2>4 DEF Passed, ConstantRoute
    <3>2. /\ res.u \in 0..127 /\ res.v \in 0..127
          /\ RedU(res) = full.u - res.u /\ RedV(res) = full.v - res.v
          /\ RedU(res) \in 0..127 /\ RedV(res) \in 0..127
      BY <2>1, <3>1, Inside
    <3>3. ~Unsupported(res)
      BY <3>1, <3>2 DEF Unsupported
    <3>4. CASE FullRoute(res)
      <4>1. RedU(res) = 0 /\ RedV(res) = 0
        BY <3>4 DEF FullRoute
      <4>2. full.u = res.u /\ full.v = res.v /\ full = [u |-> full.u, v |-> full.v]
            /\ res = [u |-> res.u, v |-> res.v]
        <5>1. full.u = res.u /\ full.v = res.v
          <6>1. full.u \in 0..127 /\ full.v \in 0..127
            BY <2>1 DEF FileInv
          <6>2. full.u - res.u = 0 /\ full.v - res.v = 0
            BY <3>2, <4>1
          <6>3. \A a, b \in 0..127 : a - b = 0 => a = b
            BY SMT
          <6> QED BY ONLY <3>2, <6>1, <6>2, <6>3
        <5>2. full = [u |-> full.u, v |-> full.v] /\ res = [u |-> res.u, v |-> res.v]
          BY <2>1, <3>1 DEF FileInv
        <5> QED BY <5>1, <5>2
      <4>3. Resolve(res) \in {"stored", "corrupt"}
        BY <3>1, <3>4 DEF Resolve
      <4> QED BY <4>2, <4>3
    <3>5. CASE LevelRoute(res)
      BY <3>5 DEF Resolve, LevelRoute, StoredReduction
    <3>6. CASE ~FullRoute(res) /\ ~LevelRoute(res)
      BY <3>1, <3>3, <3>6 DEF Resolve
    <3> QED BY <3>4, <3>5, <3>6
  <2>5. res # asked => Passed(res)
    BY <1>1 DEF IInv
  <2>6. ChainStaysSupported /\ ChainEndsInTexels
    BY <2>3, <2>4, <2>5 DEF ChainStaysSupported, ChainEndsInTexels
  <2>7. ChainIsEven
    BY <2>5 DEF ChainIsEven, Passed
  <2> QED BY <2>2, <2>6, <2>7 DEF ChainIsSound
<1> QED
  BY Invariance, <1>1, PTL

(* A chain comes nearer to the face with every reduction and never         *)
(* oversteps it, so that reduced() recurses at most as deep as the request *)
(* is halvings away from the face (reduction_source, file_info.rs:388-410; *)
(* cache.rs:1277-1289).                                                    *)
THEOREM ChainsDescend == Spec => ChainDescends
<1>1. ASSUME IInv, [Next]_vars PROVE [Nearer]_vars
  <2>1. CASE Recurse
    <3> DEFINE s == ReductionSource(res)
    <3>1. FileInv /\ res \in [u : Log2, v : Log2] /\ Resolve(res) = "reduced"
      BY <1>1, <2>1, ResInRange DEF IInv, Recurse
    <3>2. /\ RedU(s) \in 0..RedU(res) /\ RedV(s) \in 0..RedV(res)
          /\ RedU(s) + RedV(s) < RedU(res) + RedV(res)
      BY <3>1, SourceIsNearer
    <3>3. res' = s /\ full' = full
      BY <2>1 DEF Recurse, file
    <3>4. RedU(res)' = RedU(s) /\ RedV(res)' = RedV(s)
      BY <3>3 DEF RedU, RedV
    <3> QED BY <3>2, <3>4 DEF Nearer
  <2>2. CASE UNCHANGED vars
    BY <2>2
  <2> QED BY <1>1, <2>1, <2>2 DEF Next
<1> QED
  BY Invariance, <1>1, PTL DEF Spec, ChainDescends

(* is_res_stored tells of every face and resolution what resolve will do   *)
(* (file_info.rs:291-306 and 336-386).                                     *)
THEOREM QueryTellsTheTruth == Spec => []StoredQueryAgrees
<1>1. StoredQueryAgrees
  <2>1. CASE ConstantRoute(res)
    <3>1. IsResStored(res)
      BY <2>1 DEF IsResStored, ConstantRoute
    <3>2. Resolve(res) = "constant"
      <4>1. ~FullRoute(res) /\ ~LevelRoute(res)
        BY <2>1 DEF FullRoute, LevelRoute
      <4> QED BY <2>1, <4>1 DEF Resolve
    <3> QED BY <3>1, <3>2 DEF StoredQueryAgrees
  <2>2. CASE FullRoute(res)
    <3>1. IsResStored(res) <=> 0 \in inLevel
      BY <2>2 DEF IsResStored, FullRoute, ConstantRoute
    <3>2. Resolve(res) = IF 0 \in inLevel THEN "stored" ELSE "corrupt"
      <4>1. ~ConstantRoute(res) /\ ~LevelRoute(res)
        BY <2>2 DEF FullRoute, LevelRoute
      <4> QED BY <2>2, <4>1 DEF Resolve
    <3> QED BY <3>1, <3>2 DEF StoredQueryAgrees
  <2>3. CASE ~ConstantRoute(res) /\ ~FullRoute(res)
    BY <2>3 DEF StoredQueryAgrees, IsResStored, Resolve, ConstantRoute, FullRoute,
                LevelRoute
  <2> QED BY <2>1, <2>2, <2>3 DEF FullRoute
<1> QED
  BY <1>1, PTL

(* Counting the leading stored levels has an answer, and the levels below  *)
(* it are stored.                                                          *)
LEMMA StoredLevels ==
  ASSUME FileInv
  PROVE  /\ NumStoredLevels \in 0..FaceNumLevels
         /\ \A l \in 0..(NumStoredLevels - 1) : IsResStored(FaceLevelRes(l))
<1> DEFINE S == {n \in Nat : n = FaceNumLevels \/ ~IsResStored(FaceLevelRes(n))}
           Right(n) == /\ \A l \in 0..(n - 1) : IsResStored(FaceLevelRes(l))
                       /\ n < FaceNumLevels => ~IsResStored(FaceLevelRes(n))
<1>1. FaceNumLevels \in Nat
  BY DEF FileInv, FaceNumLevels, Least
<1>2. PICK n \in S : \A m \in 0..(n - 1) : m \notin S
  <2>1. FaceNumLevels \in S
    BY <1>1
  <2>2. S \in SUBSET Nat
    OBVIOUS
  <2> HIDE DEF S
  <2> QED BY <2>1, <2>2, LeastElement
<1>3. n \in 0..FaceNumLevels
  <2>1. n \in Nat /\ ~(FaceNumLevels \in 0..(n - 1))
    BY <1>1, <1>2
  <2> QED BY <1>1, <2>1
<1>4. Right(n)
  <2>1. ASSUME NEW l \in 0..(n - 1) PROVE IsResStored(FaceLevelRes(l))
    <3>1. l \in Nat /\ l \notin S
      BY <1>2, <1>3, <1>1
    <3> QED BY <3>1
  <2>2. n < FaceNumLevels => ~IsResStored(FaceLevelRes(n))
    <3>1. n \in Nat /\ (n = FaceNumLevels \/ ~IsResStored(FaceLevelRes(n)))
      BY <1>2
    <3> QED BY <1>1, <3>1
  <2> QED BY <2>1, <2>2
<1>5. NumStoredLevels = CHOOSE i \in 0..FaceNumLevels : Right(i)
  BY DEF NumStoredLevels
<1> HIDE DEF Right
<1>6. NumStoredLevels \in 0..FaceNumLevels /\ Right(NumStoredLevels)
  BY <1>3, <1>4, <1>5
<1> QED
  BY <1>6 DEF Right

(* Every level a face is said to have can be read, and those counted as    *)
(* stored without computing, for every face of every file whose level 0    *)
(* holds it (face_num_levels and face_level_res, file_info.rs:271-286;     *)
(* num_stored_levels, 310-321).                                            *)
THEOREM LevelsCanBeRead == Spec => []LevelsReadable
<1>1. ASSUME IInv PROVE LevelsReadable
  <2> SUFFICES ASSUME 0 \in inLevel, NEW l \in 0..(FaceNumLevels - 1)
               PROVE  /\ Resolve(FaceLevelRes(l)) \in {"constant", "stored", "reduced"}
                      /\ l < NumStoredLevels => Resolve(FaceLevelRes(l)) # "reduced"
    BY DEF LevelsReadable
  <2> DEFINE r == FaceLevelRes(l)
  <2>1. FileInv /\ full.u \in 0..127 /\ full.v \in 0..127
    BY <1>1 DEF IInv, FileInv
  <2>2. l \in 0..127 /\ l <= full.u /\ l <= full.v
    <3>1. l \in Int /\ Least(full.u, full.v) \in 0..127
      <4>1. l \in Int
        OBVIOUS
      <4> QED BY <2>1, <4>1, LeastLogarithm
    <3>2. FaceNumLevels - 1 = Least(full.u, full.v)
      BY <3>1 DEF FaceNumLevels
    <3>3. 0 <= l /\ l <= Least(full.u, full.v)
      BY <3>1, <3>2
    <3>4. l <= full.u /\ l <= full.v
      BY <2>1, <3>1, <3>3, LeastLogarithm
    <3> QED BY <2>1, <3>1, <3>3, <3>4
  <2>3. r.u \in 0..full.u /\ r.v \in 0..full.v /\ r = [u |-> r.u, v |-> r.v]
    BY <2>1, <2>2 DEF FaceLevelRes, Res
  <2>4. r.u \in 0..127 /\ r.v \in 0..127 /\ RedU(r) = l /\ RedV(r) = l
    <3>1. r \in [u : 0..full.u, v : 0..full.v]
      BY <2>3
    <3>2. /\ r.u \in 0..127 /\ r.v \in 0..127
          /\ RedU(r) = full.u - r.u /\ RedV(r) = full.v - r.v
      BY <2>1, <3>1, Inside
    <3>3. full.u - r.u = l /\ full.v - r.v = l
      BY <2>1, <2>2 DEF FaceLevelRes, Res
    <3> QED BY <3>2, <3>3
  <2>5. ~Unsupported(r)
    BY <2>2, <2>4 DEF Unsupported
  <2>6. Resolve(r) \in {"constant", "stored", "reduced"}
    BY <2>5 DEF Resolve
  <2>7. ASSUME l < NumStoredLevels PROVE Resolve(r) # "reduced"
    <3>1. IsResStored(r)
      <4>1. NumStoredLevels \in Int
        BY <2>1, StoredLevels, <2>1 DEF FaceNumLevels, Least
      <4>2. l \in 0..(NumStoredLevels - 1)
        BY <2>2, <2>7, <4>1
      <4> QED BY <2>1, <4>2, StoredLevels
    <3> QED BY <3>1 DEF IsResStored, Resolve, ConstantRoute, FullRoute, LevelRoute
  <2> QED BY <2>6, <2>7
<1> QED
  BY Invariance, <1>1, PTL

(* No resolution the face does not have is served, for every file whose    *)
(* levels keep a face only while it has texels (resolve, file_info.rs:     *)
(* 346-385): the differences, which wrap around eight bits, do not mistake *)
(* a negative or a larger request for one of the face's own.               *)
THEOREM OnlyRealOnesAreServed == Spec => []OnlyRealResolutions
<1>1. ASSUME IInv PROVE OnlyRealResolutions
  <2> SUFFICES ASSUME LevelsFit, ~constant, Resolve(asked) \in {"stored", "reduced"}
               PROVE  asked.u \in 0..full.u /\ asked.v \in 0..full.v
    BY DEF OnlyRealResolutions
  <2>1. FileInv /\ asked \in [u : Log2, v : Log2]
    BY <1>1 DEF IInv, FileInv
  <2>2. full.u \in 0..127 /\ full.v \in 0..127
    BY <2>1 DEF FileInv
  <2>3. asked.u \in -128..127 /\ asked.v \in -128..127
    BY <2>1 DEF Log2
  <2>4. CASE Resolve(asked) = "reduced"
    <3>1. asked \in [u : 0..full.u, v : 0..full.v]
      BY <2>1, <2>4, ReducedIsInside
    <3> QED BY <3>1
  <2>5. CASE FullRoute(asked)
    <3>1. RedU(asked) = 0 /\ RedV(asked) = 0
      BY <2>5 DEF FullRoute
    <3>2. \A a \in 0..127, b \in -128..127 : Sub8(a, b) = 0 => b \in 0..a
      <4>1. ASSUME NEW a \in 0..127, NEW b \in -128..127, Sub8(a, b) = 0
            PROVE  b \in 0..a
        <5>1. Sub8(a, b) = IF a - b <= 127 THEN a - b ELSE a - b - 256
          BY Sub8Value
        <5>2. CASE a - b <= 127
          BY <4>1, <5>1, <5>2
        <5>3. CASE a - b > 127
          BY <4>1, <5>1, <5>3
        <5> QED BY <5>2, <5>3
      <4> QED BY <4>1
    <3> QED BY <2>2, <2>3, <3>1, <3>2 DEF RedU, RedV
  <2>6. CASE LevelRoute(asked)
    <3> DEFINE l == RedU(asked)
    <3>1. l = RedV(asked) /\ l \in inLevel /\ l > 0
      BY <2>6 DEF LevelRoute, StoredReduction
    <3>2. l <= full.u /\ l <= full.v
      <4>1. l <= Least(full.u, full.v) /\ l \in Int
        BY <2>1, <3>1, Differences DEF LevelsFit
      <4> QED BY <2>2, <4>1, LeastLogarithm
    <3>3. l \in Int
      BY <2>1, Differences
    <3>4. \A a \in 0..127, b \in -128..127 :
             Sub8(a, b) > 0 /\ Sub8(a, b) <= a => b \in 0..a
      <4>1. ASSUME NEW a \in 0..127, NEW b \in -128..127,
                   Sub8(a, b) > 0, Sub8(a, b) <= a
            PROVE  b \in 0..a
        <5>1. Sub8(a, b) = IF a - b <= 127 THEN a - b ELSE a - b - 256
          BY Sub8Value
        <5>2. CASE a - b <= 127
          BY <4>1, <5>1, <5>2
        <5>3. CASE a - b > 127
          BY <4>1, <5>1, <5>3
        <5> QED BY <5>2, <5>3
      <4> QED BY <4>1
    <3> QED BY <2>2, <2>3, <3>1, <3>2, <3>4 DEF RedU, RedV
  <2>7. \/ Resolve(asked) = "reduced" \/ FullRoute(asked) \/ LevelRoute(asked)
    BY DEF Resolve
  <2> QED BY <2>4, <2>5, <2>6, <2>7
<1> QED
  BY Invariance, <1>1, PTL
=============================================================================
