----------------------------- MODULE FaceGeometry -----------------------------
(***************************************************************************)
(* The arithmetic of faces, tiles and destination buffers, from            *)
(* src/src/types.rs (Res), tile.rs (TileLayout) and utils.rs (fill,        *)
(* copy_rows, the reductions).  An image is a function from offsets; an    *)
(* offset, a stride and a length count texels, not bytes.                  *)
(***************************************************************************)
EXTENDS Integers

(* 1 << n, as far as Res::u and Res::v shift. *)
TwoTo[n \in 0..31] == IF n = 0 THEN 1 ELSE 2 * TwoTo[n - 1]

(* A resolution is a pair of base-2 logarithms. *)
Res(u, v) == [u |-> u, v |-> v]
U(r) == TwoTo[r.u]
V(r) == TwoTo[r.v]
Size(r) == U(r) * V(r)

NTilesU(r, tile_res) == TwoTo[r.u - tile_res.u]
NTilesV(r, tile_res) == TwoTo[r.v - tile_res.v]

(* Slip: tiles are numbered column by column. *)
TileIndexUMajor(r, tile_res, u, v) ==
  (u \div U(tile_res)) * NTilesV(r, tile_res) + v \div V(tile_res)

(* Tiles are numbered row by row, from 0. *)
TileIndex(r, tile_res, u, v) ==
  (v \div V(tile_res)) * NTilesU(r, tile_res) + u \div U(tile_res)

TileOrigin(r, tile_res, i) ==
  << (i % NTilesU(r, tile_res)) * U(tile_res), (i \div NTilesU(r, tile_res)) * V(tile_res) >>

(* Slip: rows are found by the number of tiles down, not across. *)
TileOffsetByColumns(r, tile_res, i, stride) ==
  (i \div NTilesV(r, tile_res)) * stride * V(tile_res) + (i % NTilesV(r, tile_res)) * U(tile_res)

(* Where get_data_into puts a tile. *)
TileOffset(r, tile_res, i, stride) ==
  (i \div NTilesU(r, tile_res)) * stride * V(tile_res) + (i % NTilesU(r, tile_res)) * U(tile_res)

(* Texels a buffer must have: its last row may stop short of the stride. *)
Needed(r, stride) == stride * (V(r) - 1) + U(r)

Packed(r, texel(_, _)) ==
  [k \in 0..(Size(r) - 1) |-> texel(k % U(r), k \div U(r))]

(* copy_rows, and fill with an image that is all one texel. *)
Drawn(dst, off, stride, img, r) ==
  [k \in DOMAIN dst |->
     LET col == (k - off) % stride
         row == (k - off) \div stride
     IN  IF k >= off /\ col < U(r) /\ row < V(r) THEN img[row * U(r) + col] ELSE dst[k]]

(* The two ways to halve a quad: the mean of neighbours in u or in v. *)
Halved(src, from, to, kind) ==
  Packed(to, LAMBDA u, v :
    IF kind = "U"
    THEN << "mean", src[v * U(from) + 2 * u], src[v * U(from) + 2 * u + 1] >>
    ELSE << "mean", src[2 * v * U(from) + u], src[(2 * v + 1) * U(from) + u] >>)
=============================================================================
