---------------------------- MODULE MCPlainReader ----------------------------
(***************************************************************************)
(* PlainReader on a quad file with a face of every kind.                   *)
(***************************************************************************)
EXTENDS DirectoryHistory, TLC

Stored(level, pos) == [route |-> "stored", level |-> level, pos |-> pos]
ReducedFrom(x, kind) == [route |-> "reduced", from |-> x, kind |-> kind]

MCSource ==
  \* 8 by 4 texels in 4 by 2 tiles, its first mipmap level in 1 by 2 tiles
  "wide" :> Stored("L0", "wide") @@ "wide1" :> Stored("L1", "wide1") @@
  \* 2 by 4 in 1 by 4, and a reduction of it
  "tall" :> Stored("L0", "tall") @@ "tallHalf" :> ReducedFrom("tall", "V") @@
  \* 2 by 2 packed, and two steps of reduction
  "plain" :> Stored("L0", "plain") @@ "half" :> ReducedFrom("plain", "U") @@
  "quarter" :> ReducedFrom("half", "V") @@
  \* flagged constant, and stored as a constant block
  "flat" :> [route |-> "constant", face |-> "flat"] @@ "lone" :> Stored("L0", "lone") @@
  \* no such resolution; a level and a directory that do not decode; a tile
  \* that does not; a block of the wrong size; a block refused by its header
  "larger" :> [route |-> "none"] @@
  "lost" :> Stored("L2", "plain") @@ "garbled" :> Stored("L0", "garbled") @@
  "holed" :> Stored("L0", "holed") @@ "cut" :> Stored("L0", "cut") @@
  "large" :> Stored("L0", "large")

MCResOf ==
  "wide" :> Res(3, 2) @@ "wide1" :> Res(2, 1) @@ "tall" :> Res(1, 2) @@
  "tallHalf" :> Res(1, 1) @@ "plain" :> Res(1, 1) @@ "half" :> Res(0, 1) @@
  "quarter" :> Res(0, 0) @@ "flat" :> Res(1, 0) @@ "lone" :> Res(1, 1) @@
  "larger" :> Res(4, 4) @@ "lost" :> Res(1, 1) @@ "garbled" :> Res(1, 1) @@
  "holed" :> Res(1, 1) @@ "cut" :> Res(1, 1) @@ "large" :> Res(1, 1)

MCDirectory ==
  "wide" :> [tile_res |-> Res(1, 1),
             tiles |-> << "w0", "w1", "w2", "w3", "w4", "w5", "w6", "w7" >>] @@
  "wide1" :> [tile_res |-> Res(2, 0), tiles |-> << "x0", "x1" >>] @@
  "tall" :> [tile_res |-> Res(1, 0), tiles |-> << "t0", "t1", "t2", "t3" >>] @@
  "garbled" :> [tile_res |-> Res(0, 0), tiles |-> << "t0", "t1", "t2", "t3" >>] @@
  "holed" :> [tile_res |-> Res(1, 0), tiles |-> << "h0", "h1" >>]

TileNames == {"w0", "w1", "w2", "w3", "w4", "w5", "w6", "w7", "x0", "x1",
              "t0", "t1", "t2", "t3", "h0", "h1"}
MCEncoding ==
  [p \in DOMAIN MCDirectory |-> "tiled"] @@
  "w5" :> "constant" @@ "t1" :> "constant" @@ "lone" :> "constant" @@
  [p \in TileNames \cup {"plain", "cut", "large"} |-> "zipped"]
MCHeld ==
  [p \in {"w0", "w1", "w2", "w3", "w4", "w6", "w7", "x0", "x1", "plain", "large"} |-> 4] @@
  [p \in {"t0", "t2", "t3", "h0", "h1"} |-> 2] @@ "cut" :> 3

MCRefused == {"large"}
MCBroken == {<< "level", "L2" >>, << "dir", "garbled" >>, << "block", "h1" >>}

Data(x) == [api |-> "get_data_at_res", of |-> x]
DataInto(x, stride, len) == [api |-> "get_data_into", of |-> x, stride |-> stride, len |-> len]
Tile(x, i) == [api |-> "get_tile", of |-> x, tile |-> i]
TileInto(x, i, stride, len) ==
  [api |-> "get_tile_into", of |-> x, tile |-> i, stride |-> stride, len |-> len]
Pixel(x, u, v) == [api |-> "get_pixel", of |-> x, u |-> u, v |-> v]
Lay(x) == [api |-> "tile_layout", of |-> x]
Info(x, i) == [api |-> "tile_info", of |-> x, tile |-> i]
Metadata == [api |-> "metadata"]

\* Requests the reader refuses, and every entry point on every kind of face.
Impossible ==
  {Data(x) : x \in {"larger", "lost", "garbled", "holed", "cut", "large"}} \cup
  {DataInto("wide", 7, 40), DataInto("wide", 9, 34), Tile("tall", 4), Pixel("wide", 8, 0),
   TileInto("wide", 3, 0, 3), Lay("larger"), Info("plain", 1)}
EveryRequest ==
  Impossible \cup
  {Data(x) : x \in {"wide", "wide1", "tallHalf", "half", "quarter", "flat", "lone"}} \cup
  {DataInto("wide", 9, 35), DataInto("quarter", 0, 2), DataInto("lone", 3, 8),
   Tile("wide", 6), Tile("wide", 5), Tile("half", 0), Tile("holed", 0),
   TileInto("tall", 3, 5, 9), TileInto("wide", 3, 3, 6), TileInto("flat", 0, 4, 7),
   Lay("wide"), Lay("half"), Lay("flat"), Lay("lone"),
   Info("wide", 7), Info("wide", 5), Info("lone", 0), Info("half", 0), Info("flat", 0),
   Metadata} \cup
  {Pixel("wide", u, v) : u \in {1, 3, 4}, v \in {0, 3}} \cup
  {Pixel("tall", 1, 2), Pixel("plain", 1, 0), Pixel("lone", 1, 1), Pixel("flat", 1, 0)}

\* Three directories; a face of two rows of tiles drawn in a larger picture.
DirectoryRequests ==
  {Tile("tall", 2), Tile("wide1", 1), DataInto("wide", 9, 35), Data("tallHalf")}
=============================================================================
