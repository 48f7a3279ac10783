---------------------------- MODULE ReduceKernels ----------------------------
(***************************************************************************)
(* What a reduction makes of a face: reduce_step of src/src/decode.rs and  *)
(* the kernels reduce_u, reduce_v and reduce_tri of utils.rs, applied one  *)
(* after the other as the readers do.  A texel is an integer and, beside   *)
(* it, the cells of the author's face it is made of.  A triangular face is *)
(* packed into a square: the cells that point the other way fill the upper *)
(* half of it.  Buffers are packed, as the readers' are.                   *)
(***************************************************************************)
EXTENDS Integers, Sequences, FiniteSets

VARIABLES
  face,    \* what is reduced, [mesh, res, values]: of a quad or a triangle
           \* mesh, the values by row, of equal axes in a triangle mesh
  res,     \* the resolution reached
  data,    \* its texels by row, [value, cells, uses]
  steps    \* reductions made

vars == <<face, res, data, steps>>

(* 1 << n. *)
Side(n) ==
  LET shifted[k \in 0..n] == IF k = 0 THEN 1 ELSE 2 * shifted[k - 1] IN shifted[n]

Width(r) == Side(r.u)
Height(r) == Side(r.v)

(* Column and row of place j in a buffer of resolution r, and back. *)
Col(r, j) == (j - 1) % Width(r)
Row(r, j) == (j - 1) \div Width(r)
At(u, v) == data[v * Width(res) + u + 1]

(* Slip: the sum is kept in a byte. *)
HalvedNarrow(a, b) ==
  [value |-> ((a.value + b.value) % 256) \div 2, cells |-> a.cells \cup b.cells,
   uses |-> a.uses + b.uses]

(* The texel averaged from two, halve_sum, and from four, quarter_sum,     *)
(* which accumulate in a wider type.                                       *)
Halved(a, b) ==
  [value |-> (a.value + b.value) \div 2, cells |-> a.cells \cup b.cells,
   uses |-> a.uses + b.uses]

Quartered(a, b, c, d) ==
  [value |-> (a.value + b.value + c.value + d.value) \div 4,
   cells |-> a.cells \cup b.cells \cup c.cells \cup d.cells,
   uses |-> a.uses + b.uses + c.uses + d.uses]

Places(r) == 1..(Width(r) * Height(r))

ReduceStep(dstRes, texels) ==
  /\ data' = texels
  /\ res' = dstRes
  /\ steps' = steps + 1
  /\ UNCHANGED face

ReduceU ==
  /\ face.mesh = "quad" /\ res.u > 0
  /\ LET dst == [res EXCEPT !.u = @ - 1]
         Texel(u, v) == Halved(At(2 * u, v), At(2 * u + 1, v))
     IN  ReduceStep(dst, [j \in Places(dst) |-> Texel(Col(dst, j), Row(dst, j))])

ReduceV ==
  /\ face.mesh = "quad" /\ res.v > 0
  /\ LET dst == [res EXCEPT !.v = @ - 1]
         Texel(u, v) == Halved(At(u, 2 * v), At(u, 2 * v + 1))
     IN  ReduceStep(dst, [j \in Places(dst) |-> Texel(Col(dst, j), Row(dst, j))])

(* Slip: the mirrored texel is the one across, not the one transposed. *)
MirrorAcross(u, v) == At(Width(res) - 1 - 2 * u, Width(res) - 1 - 2 * v)

(* The fourth texel: row w-1-2u, column w-1-2v. *)
Mirror(u, v) == At(Width(res) - 1 - 2 * v, Width(res) - 1 - 2 * u)

ReduceTri ==
  /\ face.mesh = "triangle" /\ res.u > 0
  /\ LET dst == [u |-> res.u - 1, v |-> res.v - 1]
         Texel(u, v) == Quartered(At(2 * u, 2 * v), At(2 * u + 1, 2 * v),
                                  At(2 * u, 2 * v + 1), Mirror(u, v))
     IN  ReduceStep(dst, [j \in Places(dst) |-> Texel(Col(dst, j), Row(dst, j))])

(* A face is given to the reductions, [mesh, res, values]. *)
Given(f) ==
  /\ face' = f
  /\ res' = f.res
  /\ data' = [j \in DOMAIN f.values |->
                [value |-> f.values[j], cells |-> {j}, uses |-> 1]]
  /\ steps' = 0

(* A face of one texel, of which nothing can be reduced. *)
OneTexel == [mesh |-> "quad", res |-> [u |-> 0, v |-> 0], values |-> <<0>>]

Init ==
  /\ face = OneTexel /\ res = OneTexel.res
  /\ data = <<[value |-> 0, cells |-> {1}, uses |-> 1]>>
  /\ steps = 0

Next == ReduceU \/ ReduceV \/ ReduceTri

-----------------------------------------------------------------------------
(* Where a packed texel is on the triangle of side w: as it is stored, or, *)
(* pointing the other way, mirrored in the packing's diagonal.             *)
Upright(u, v, w) == u + v < w

CornersOf(u, v, w) ==
  IF Upright(u, v, w) THEN {<<u, v>>, <<u + 1, v>>, <<u, v + 1>>}
  ELSE {<<w - v, w - u>>, <<w - v - 1, w - u>>, <<w - v, w - u - 1>>}

(* The part of the face texel (u, v) of a triangle of side w stands for,   *)
(* in cells k to a side of it.                                             *)
InTriangle(x, y, u, v, w, k) ==
  IF Upright(u, v, w) THEN x >= k * u /\ y >= k * v /\ x + y <= k * (u + v + 1)
  ELSE x <= k * (w - v) /\ y <= k * (w - u) /\ x + y >= k * (2 * w - u - v - 1)

CellsUnder(u, v) ==
  LET ku == Side(face.res.u - res.u)
      kv == Side(face.res.v - res.v)
      Quad(x, y) == x \div ku = u /\ y \div kv = v
      Triangle(x, y) ==
        \A p \in CornersOf(x, y, Width(face.res)) : InTriangle(p[1], p[2], u, v, Width(res), ku)
  IN  {j \in DOMAIN face.values :
         LET x == Col(face.res, j) y == Row(face.res, j)
         IN  IF face.mesh = "quad" THEN Quad(x, y) ELSE Triangle(x, y)}

(* A reduced texel is made of the cells in its own part of the face, each  *)
(* used once: nothing leaks between neighbours, and in a triangle the      *)
(* texels that point the other way stay with the ones they complete        *)
(* (utils.rs:394-480, decode.rs:219-246).                                  *)
TexelCoversItsPlace ==
  /\ Len(data) = Width(res) * Height(res)
  /\ \A j \in DOMAIN data :
       /\ data[j].cells = CellsUnder(Col(res, j), Row(res, j))
       /\ data[j].uses = Cardinality(data[j].cells)

(* The sum of the values of some cells of a face. *)
SumOver(values, cells) ==
  LET upTo[j \in 0..Len(values)] ==
        IF j = 0 THEN 0 ELSE upTo[j - 1] + (IF j \in cells THEN values[j] ELSE 0)
  IN  upTo[Len(values)]

(* Rounding down costs at most a half per halving and three quarters per   *)
(* quartering, and never adds: the chain of reductions a reader computes   *)
(* stays that close to the mean of what it covers (halve_sum, quarter_sum, *)
(* utils.rs:35-40, 51-56).                                                 *)
LossIsBounded ==
  \A j \in DOMAIN data :
    LET n == Cardinality(data[j].cells)
        sum == SumOver(face.values, data[j].cells)
        loss == 4 * sum - 4 * n * data[j].value
    IN  0 <= loss /\ loss <= steps * n * (IF face.mesh = "quad" THEN 2 ELSE 3)
=============================================================================
