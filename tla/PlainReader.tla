----------------------------- MODULE PlainReader -----------------------------
(***************************************************************************)
(* The single-threaded reader of src/src/reader.rs, PtexReader.  A call    *)
(* borrows the reader exclusively, so nothing interleaves with it; what    *)
(* is hard is what one call leaves behind for the next: level indexes and  *)
(* meta data loaded on first use, the move-to-front list of tile           *)
(* directories under a capacity the host may change, and reads of the      *)
(* stream that may fail at any point.                                      *)
(*                                                                         *)
(* A call is what it still has to do, work, and the buffers it writes,     *)
(* bufs, the innermost first.  Here texels are modelled: a texel is the    *)
(* block it was decoded from and its place in it.                          *)
(***************************************************************************)
EXTENDS FaceGeometry, SequencesExt

CONSTANTS
  Request,      \* the calls the host may make
  Source,       \* texture -> where FileInfo::resolve finds its pixels
  ResOf,        \* texture -> its resolution
  Encoding,     \* block position -> encoding of its header
  Held,         \* block position -> texels its bytes decode to
  Directory,    \* tiled block position -> its tile_res and tiles
  Level,        \* levels of the file
  Refused,      \* blocks whose header alone makes them unreadable
  Broken,       \* levels, directories and blocks that do not decode
  Capacities,   \* arguments of set_tile_cache_capacity
  DEFAULT_TILE_CACHE_CAPACITY,
  MaxCalls,     \* bound on calls
  MaxFaults,    \* bound on failing reads
  MaxResizes,   \* bound on changes of the capacity
  None

Texture == DOMAIN Source

(* What parse_tile_header and parse_tile_dir check a directory for. *)
IsTiling(d, r) ==
  /\ d.tile_res \in [u : 0..r.u, v : 0..r.v]
  /\ d.tiles \in [1..(NTilesU(r, d.tile_res) * NTilesV(r, d.tile_res)) -> DOMAIN Encoding]

(* Sides are what Res::u and Res::v can shift to, FileInfo::resolve finds   *)
(* what it says, reductions are those of quads, and a directory is parsed.  *)
ASSUME FileAssumption ==
  /\ ResOf \in [Texture -> [u : 0..31, v : 0..31]]
  /\ \A x \in Texture :
       \/ Source[x].route \in {"constant", "none"}
       \/ /\ Source[x].route = "stored" /\ Source[x].level \in Level
          /\ Encoding[Source[x].pos] = "tiled" =>
               /\ Source[x].pos \in DOMAIN Directory
               /\ IsTiling(Directory[Source[x].pos], ResOf[x])
       \/ /\ Source[x].route = "reduced" /\ Source[x].from \in Texture
          /\ LET from == ResOf[Source[x].from]
             IN  \/ Source[x].kind = "U" /\ from = Res(ResOf[x].u + 1, ResOf[x].v)
                 \/ Source[x].kind = "V" /\ from = Res(ResOf[x].u, ResOf[x].v + 1)

ASSUME RequestAssumption ==
  /\ None \notin Request
  /\ \A r \in Request :
       \/ r.api = "metadata"
       \/ /\ r.api \in {"get_data_at_res", "tile_layout"}
          /\ r.of \in Texture
       \/ /\ r.api = "get_data_into"
          /\ r.of \in Texture /\ r.stride \in Nat /\ r.len \in Nat
       \/ /\ r.api \in {"get_tile", "tile_info"}
          /\ r.of \in Texture /\ r.tile \in Nat
       \/ /\ r.api = "get_tile_into"
          /\ r.of \in Texture /\ r.tile \in Nat /\ r.stride \in Nat /\ r.len \in Nat
       \/ /\ r.api = "get_pixel"
          /\ r.of \in Texture /\ Source[r.of].route # "reduced"
          /\ r.u \in Nat /\ r.v \in Nat

ASSUME CapacityAssumption ==
  Capacities \subseteq Nat /\ DEFAULT_TILE_CACHE_CAPACITY \in Nat \ {0}

VARIABLES
  levels,          \* the levels whose index is loaded
  tile_cache,      \* directories read, most recently used first
  tile_cache_cap,
  metadata,        \* whether the meta data are loaded
  call,            \* the call in progress, or None
  work,            \* what is left of it
  bufs,            \* its buffers
  reply,           \* the outcome of the last call
  calls, faults, resizes

caches == <<levels, tile_cache, tile_cache_cap, metadata>>
bounds == <<calls, faults, resizes>>
vars == <<caches, call, work, bufs, reply, bounds>>

-----------------------------------------------------------------------------
(* Texels. *)

Old == << "old", 0 >>                       \* what a buffer held before the call
Shade(x) == << "constant", Source[x].face >>   \* from the constant-data block
Texel(pos, k) == << pos, IF Encoding[pos] = "constant" THEN 0 ELSE k >>

Blank(len) == [k \in 0..(len - 1) |-> Old]
Frame(stride, len) == [stride |-> stride, len |-> len, data |-> Blank(len)]
PackedFrame(r) == Frame(U(r), Size(r))

-----------------------------------------------------------------------------
(* What a call has to do. *)

Task(do, x, n) == [do |-> do, x |-> x, n |-> n]

IsStored(x) == Source[x].route = "stored"
IsTiled(x) == IsStored(x) /\ Encoding[Source[x].pos] = "tiled"

Refusal == << Task("refuse", None, 0) >>

(* level_entry, and tile_dir for a tiled block. *)
IndexPlan(x) ==
  IF ~IsStored(x) THEN IF Source[x].route = "none" THEN Refusal ELSE << >>
  ELSE << Task("level", Source[x].level, 0) >> \o
       IF IsTiled(x) THEN << Task("dir", x, 0) >> ELSE << >>

(* get_data_into. *)
DataPlan(x) ==
  << Task("fits", x, 0) >> \o
  CASE Source[x].route = "constant" -> << Task("fill", x, 0) >>
    [] Source[x].route = "none" -> Refusal
    [] IsStored(x) ->
         IndexPlan(x) \o << Task(IF IsTiled(x) THEN "tiles" ELSE "block", x, 0) >>
    [] Source[x].route = "reduced" ->
         << Task("packed", Source[x].from, 0), Task("reduce", x, 0) >>

TileIntoPlan(x, i) ==
  IndexPlan(x) \o << Task("inRange", x, i) >> \o
  IF IsTiled(x)
  THEN << Task("fitsTile", x, 0) >> \o IndexPlan(x) \o << Task("tile", x, << i, 0 >>) >>
  ELSE DataPlan(x)

(* read_texel.  Only full resolutions are asked for, so its branch for     *)
(* reductions is never taken.                                              *)
TexelPlan(x, u, v) ==
  IF ~(u \in 0..(U(ResOf[x]) - 1) /\ v \in 0..(V(ResOf[x]) - 1)) THEN Refusal
  ELSE IndexPlan(x) \o
       IF ~IsStored(x) THEN << >>
       ELSE IF IsTiled(x) THEN << Task("texel", x, << u, v >>) >>
       ELSE << Task("alloc", x, 0), Task("block", x, 0) >>

Plan(r) ==
  CASE r.api \in {"get_data_at_res", "get_data_into"} -> DataPlan(r.of)
    [] r.api = "get_tile_into" -> TileIntoPlan(r.of, r.tile)
    [] r.api = "get_tile" ->
         IndexPlan(r.of) \o << Task("inRange", r.of, r.tile), Task("allocTile", r.of, 0) >>
           \o TileIntoPlan(r.of, r.tile)
    [] r.api = "get_pixel" -> TexelPlan(r.of, r.u, r.v)
    [] r.api = "tile_layout" -> IndexPlan(r.of)
    [] r.api = "tile_info" ->
         IndexPlan(r.of) \o << Task("inRange", r.of, r.tile) >> \o IndexPlan(r.of)
    [] r.api = "metadata" -> << Task("metadata", None, 0) >>

(* The buffer the caller brings, or get_data_at_res allocates. *)
FirstBuffer(r) ==
  CASE r.api = "get_data_at_res" -> << PackedFrame(ResOf[r.of]) >>
    [] r.api \in {"get_data_into", "get_tile_into"} ->
         << Frame(r.stride, r.len) >>
    [] OTHER -> << >>

-----------------------------------------------------------------------------
(* The list of tile directories. *)

Key(x) == << Source[x].pos, ResOf[x] >>
Keys == [i \in DOMAIN tile_cache |-> << tile_cache[i].pos, tile_cache[i].res >>]
IsListed(x) == Key(x) \in Range(Keys)
IndexOfDir(x) == CHOOSE i \in DOMAIN Keys : Keys[i] = Key(x)

Truncated(list, n) == SubSeq(list, 1, IF n < Len(list) THEN n ELSE Len(list))

Capacity(n) == IF n < 1 THEN 1 ELSE n

(* Slip: a hit stays where it is. *)
WithDirUnmoved(i) == tile_cache

WithNewDir(x) ==
  LET e == [pos |-> Source[x].pos, res |-> ResOf[x], dir |-> Directory[Source[x].pos]]
  IN  Truncated(<< e >> \o tile_cache, Capacity(tile_cache_cap))

WithDirMoved(i) == << tile_cache[i] >> \o RemoveAt(tile_cache, i)

(* The directory the last lookup returned. *)
Dir == tile_cache[1].dir

(* tile_layout and tile_info, once the index data are at hand. *)
Layout(x) ==
  LET tile_res == IF IsTiled(x) THEN Dir.tile_res ELSE ResOf[x]
  IN  [res |-> ResOf[x], tile_res |-> tile_res,
       ntilesu |-> NTilesU(ResOf[x], tile_res), ntilesv |-> NTilesV(ResOf[x], tile_res),
       is_tiled |-> IsTiled(x),
       is_constant |-> \/ Source[x].route = "constant"
                       \/ IsStored(x) /\ Encoding[Source[x].pos] = "constant",
       is_stored |-> Source[x].route \in {"constant", "stored"}]

NTilesOf(x) == Layout(x).ntilesu * Layout(x).ntilesv

TileInfo(x, i) ==
  LET pos == IF IsTiled(x) THEN Dir.tiles[i + 1] ELSE Source[x].pos
  IN  [res |-> Layout(x).tile_res, origin |-> TileOrigin(ResOf[x], Layout(x).tile_res, i),
       is_constant |-> IF IsStored(x) THEN Encoding[pos] = "constant"
                                      ELSE Layout(x).is_constant,
       file_offset |-> IF IsStored(x) THEN << pos >> ELSE << >>]

-----------------------------------------------------------------------------
(* Steps of a call. *)

Top == Head(work)
At(do) == call # None /\ work # << >> /\ Top.do = do
Buffer == Head(bufs)

Return(val) ==
  /\ reply' = [to |-> call, val |-> val]
  /\ call' = None /\ work' = << >> /\ bufs' = << >>

(* The first task is done; those of first come in its place. *)
Continue(first) ==
  /\ work' = first \o Tail(work)
  /\ UNCHANGED << call, reply >>

Ask(r) ==
  /\ call = None /\ calls < MaxCalls
  /\ calls' = calls + 1
  /\ call' = r /\ work' = Plan(r) /\ bufs' = FirstBuffer(r)
  /\ UNCHANGED << caches, reply, faults, resizes >>

(* The texel a pixel call picks from the block, or the tile, it read. *)
PickedTexel(x, u, v) ==
  IF ~IsStored(x) THEN Shade(x)
  ELSE LET r == Layout(x).tile_res
       IN  Buffer.data[(v - (v \div V(r)) * V(r)) * U(r) + (u - (u \div U(r)) * U(r))]

Result(r) ==
  CASE r.api = "get_pixel" -> PickedTexel(r.of, r.u, r.v)
    [] r.api = "tile_layout" -> Layout(r.of)
    [] r.api = "tile_info" -> TileInfo(r.of, r.tile)
    [] r.api = "metadata" -> metadata
    [] OTHER -> Buffer.data

Answer ==
  /\ call # None /\ work = << >>
  /\ Return(<< call.api, Result(call) >>)
  /\ UNCHANGED << caches, bounds >>

(* check_buffer, which also settles the stride, and the tile numbers. *)
Fits(r) ==
  LET stride == IF Buffer.stride = 0 THEN U(r) ELSE Buffer.stride
  IN  stride >= U(r) /\ Buffer.len >= Needed(r, stride)

CheckBuffer ==
  /\ At("fits") \/ At("fitsTile")
  /\ LET r == IF Top.do = "fits" THEN ResOf[Top.x] ELSE Layout(Top.x).tile_res
     IN  IF Fits(r)
         THEN /\ bufs' = << [Buffer EXCEPT !.stride = IF @ = 0 THEN U(r) ELSE @] >> \o Tail(bufs)
              /\ Continue(<< >>)
         ELSE Return(<< "err", "Refused" >>)
  /\ UNCHANGED << caches, bounds >>

CheckTile ==
  /\ At("inRange")
  /\ IF Top.n \in 0..(NTilesOf(Top.x) - 1)
     THEN Continue(<< >>) /\ UNCHANGED bufs
     ELSE Return(<< "err", "Refused" >>)
  /\ UNCHANGED << caches, bounds >>

Alloc ==
  /\ At("alloc") \/ At("allocTile")
  /\ LET r == IF Top.do = "alloc" THEN ResOf[Top.x] ELSE Layout(Top.x).tile_res
     IN  bufs' = << PackedFrame(r) >> \o bufs
  /\ Continue(<< >>)
  /\ UNCHANGED << caches, bounds >>

(* packed_face_data: a buffer of its own for a whole other texture. *)
PackedFaceData ==
  /\ At("packed")
  /\ bufs' = << PackedFrame(ResOf[Top.x]) >> \o bufs
  /\ Continue(DataPlan(Top.x))
  /\ UNCHANGED << caches, bounds >>

(* Writes past the end of a slice panic. *)
Draw(into, below, off, img, r) ==
  IF off + Needed(r, into.stride) <= into.len
  THEN /\ bufs' = << [into EXCEPT !.data = Drawn(@, off, into.stride, img, r)] >> \o below
       /\ Continue(<< >>)
  ELSE Return(<< "panic", "slice" >>)

Fill ==
  /\ At("fill")
  /\ Draw(Buffer, Tail(bufs), 0, Packed(ResOf[Top.x], LAMBDA u, v : Shade(Top.x)), ResOf[Top.x])
  /\ UNCHANGED << caches, bounds >>

(* ensure_level stores an index only when all of it is read and parsed. *)
EnsureLevel ==
  /\ At("level")
  /\ Top.x \in levels \/ << "level", Top.x >> \notin Broken
  /\ levels' = levels \cup {Top.x}
  /\ Continue(<< >>)
  /\ UNCHANGED << tile_cache, tile_cache_cap, metadata, bufs, bounds >>

TileDirHit ==
  /\ At("dir")
  /\ IsListed(Top.x)
  /\ tile_cache' = WithDirMoved(IndexOfDir(Top.x))
  /\ Continue(<< >>)
  /\ UNCHANGED << levels, tile_cache_cap, metadata, bufs, bounds >>

(* A miss reads the directory and returns the first of the list, which     *)
(* would panic on a list truncated to nothing.                             *)
TileDirMiss ==
  /\ At("dir")
  /\ ~IsListed(Top.x)
  /\ << "dir", Source[Top.x].pos >> \notin Broken
  /\ tile_cache' = WithNewDir(Top.x)
  /\ IF tile_cache' # << >> THEN Continue(<< >>) /\ UNCHANGED bufs
                            ELSE Return(<< "panic", "index" >>)
  /\ UNCHANGED << levels, tile_cache_cap, metadata, bounds >>

(* get_data_into over the tiles; each looks its directory up again. *)
Tiles ==
  /\ At("tiles")
  /\ LET x == Top.x
         i == Top.n
         offset == TileOffset(ResOf[x], Dir.tile_res, i, Buffer.stride)
     IN  Continue(IF i = Len(Dir.tiles) THEN << >>
                  ELSE << Task("dir", x, 0), Task("tile", x, << i, offset >>),
                          Task("tiles", x, i + 1) >>)
  /\ UNCHANGED << caches, bufs, bounds >>

TexelOfTile ==
  /\ At("texel")
  /\ LET x == Top.x
         i == TileIndex(ResOf[x], Dir.tile_res, Top.n[1], Top.n[2])
     IN  Continue(<< Task("dir", x, 0), Task("allocTile", x, 0), Task("tile", x, << i, 0 >>) >>)
  /\ UNCHANGED << caches, bufs, bounds >>

(* read_block_into, of a whole face or of a tile. *)
BlockRes == IF Top.do = "block" THEN ResOf[Top.x] ELSE Dir.tile_res
BlockPos == IF Top.do = "block" THEN Source[Top.x].pos ELSE Dir.tiles[Top.n[1] + 1]
BlockOffset == IF Top.do = "block" THEN 0 ELSE Top.n[2]

Undecodable(pos, r) ==
  \/ << "block", pos >> \in Broken
  \/ Encoding[pos] = "zipped" /\ Held[pos] # Size(r)

ReadBlock ==
  /\ At("block") \/ At("tile")
  /\ BlockPos \notin Refused /\ ~Undecodable(BlockPos, BlockRes)
  /\ Draw(Buffer, Tail(bufs), BlockOffset,
          Packed(BlockRes, LAMBDA u, v : Texel(BlockPos, v * U(BlockRes) + u)), BlockRes)
  /\ UNCHANGED << caches, bounds >>

Reduce ==
  /\ At("reduce")
  /\ LET x == Top.x
         from == Source[x].from
     IN  Draw(bufs[2], Tail(Tail(bufs)), 0,
              Halved(Buffer.data, ResOf[from], ResOf[x], Source[x].kind), ResOf[x])
  /\ UNCHANGED << caches, bounds >>

ReadMetadata ==
  /\ At("metadata")
  /\ metadata \/ << "metadata" >> \notin Broken
  /\ metadata' = TRUE
  /\ Continue(<< >>)
  /\ UNCHANGED << levels, tile_cache, tile_cache_cap, bufs, bounds >>

(* Something the file does not have, or that does not decode. *)
Refuse ==
  /\ \/ At("refuse")
     \/ At("level") /\ Top.x \notin levels /\ << "level", Top.x >> \in Broken
     \/ At("dir") /\ ~IsListed(Top.x) /\ << "dir", Source[Top.x].pos >> \in Broken
     \/ (At("block") \/ At("tile"))
          /\ (BlockPos \in Refused \/ Undecodable(BlockPos, BlockRes))
     \/ At("metadata") /\ ~metadata /\ << "metadata" >> \in Broken
  /\ Return(<< "err", "Refused" >>)
  /\ UNCHANGED << caches, bounds >>

(* The stream fails under the read of an index, of a directory, of a block *)
(* or of the meta data.                                                    *)
Reads ==
  \/ At("level") /\ Top.x \notin levels
  \/ At("dir") /\ ~IsListed(Top.x)
  \/ (At("block") \/ At("tile")) /\ BlockPos \notin Refused
  \/ At("metadata") /\ ~metadata

Fault ==
  /\ Reads
  /\ faults < MaxFaults
  /\ faults' = faults + 1
  /\ Return(<< "err", "Io" >>)
  /\ UNCHANGED << caches, calls, resizes >>

(* Slip: the list keeps its length until the next miss. *)
SetTileCacheCapacityLazily(capacity) ==
  /\ call = None /\ resizes < MaxResizes
  /\ resizes' = resizes + 1
  /\ tile_cache_cap' = Capacity(capacity)
  /\ UNCHANGED << levels, tile_cache, metadata, call, work, bufs, reply, calls, faults >>

SetTileCacheCapacity(capacity) ==
  /\ call = None /\ resizes < MaxResizes
  /\ resizes' = resizes + 1
  /\ tile_cache_cap' = Capacity(capacity)
  /\ tile_cache' = Truncated(tile_cache, tile_cache_cap')
  /\ UNCHANGED << levels, metadata, call, work, bufs, reply, calls, faults >>

-----------------------------------------------------------------------------
Init ==
  /\ levels = {} /\ metadata = FALSE
  /\ tile_cache = << >> /\ tile_cache_cap = DEFAULT_TILE_CACHE_CAPACITY
  /\ call = None /\ work = << >> /\ bufs = << >> /\ reply = None
  /\ calls = 0 /\ faults = 0 /\ resizes = 0

Step ==
  \/ Answer \/ Refuse \/ CheckBuffer \/ CheckTile \/ Alloc \/ PackedFaceData \/ Fill
  \/ EnsureLevel \/ TileDirHit \/ TileDirMiss \/ Tiles \/ TexelOfTile
  \/ ReadBlock \/ Reduce \/ ReadMetadata

(* The host has made all its calls. *)
AllDone ==
  /\ call = None /\ calls = MaxCalls
  /\ UNCHANGED vars

Next ==
  \/ Step \/ Fault \/ AllDone
  \/ \E r \in Request : Ask(r)
  \/ \E c \in Capacities : SetTileCacheCapacity(c)

Fairness == WF_vars(Step)

Spec == Init /\ [][Next]_vars /\ Fairness

-----------------------------------------------------------------------------
(* What the file holds, by the format's definition. *)

Area(x) == (0..(U(ResOf[x]) - 1)) \X (0..(V(ResOf[x]) - 1))

(* The texel of a stored texture at p.  A tile holds the texels of its     *)
(* rectangle, and the tiles are numbered row by row from the origin.       *)
TexelAt(x, p) ==
  LET d == Directory[Source[x].pos]
      n == NTilesU(ResOf[x], d.tile_res)
      w == U(d.tile_res)
      h == V(d.tile_res)
      \* the texel of the face that is the k-th of tile i
      place(i, k) == << (i % n) * w + (k % w), (i \div n) * h + (k \div w) >>
      ik == CHOOSE ik \in (0..(Len(d.tiles) - 1)) \X (0..(w * h - 1)) :
              place(ik[1], ik[2]) = p
  IN  IF IsTiled(x) THEN Texel(d.tiles[ik[1] + 1], ik[2])
                    ELSE Texel(Source[x].pos, p[2] * U(ResOf[x]) + p[1])

PixelsHeld(x) ==
  [p \in Area(x) |-> CASE Source[x].route = "constant" -> Shade(x)
                       [] Source[x].route = "none" -> Old
                       [] IsStored(x) -> TexelAt(x, p)]

MeansOf(x, src) ==
  [p \in Area(x) |->
     IF Source[x].kind = "U"
     THEN << "mean", src[<< 2 * p[1], p[2] >>], src[<< 2 * p[1] + 1, p[2] >>] >>
     ELSE << "mean", src[<< p[1], 2 * p[2] >>], src[<< p[1], 2 * p[2] + 1 >>] >>]

(* The pixels of a texture, its own or means of those it is reduced from.  *)
Pixels[x \in Texture] ==
  IF Source[x].route = "reduced" THEN MeansOf(x, Pixels[Source[x].from]) ELSE PixelsHeld(x)

(* A caller's buffer with a rectangle of a texture drawn in it. *)
Picture(x, origin, r, stride, len) ==
  [k \in 0..(len - 1) |->
     IF k % stride < U(r) /\ k \div stride < V(r)
     THEN Pixels[x][<< origin[1] + (k % stride), origin[2] + (k \div stride) >>]
     ELSE Old]

(* The tiling of a texture, from its directory. *)
TileRes(x) == IF IsTiled(x) THEN Directory[Source[x].pos].tile_res ELSE ResOf[x]
PosOfTile(x, i) == IF IsTiled(x) THEN Directory[Source[x].pos].tiles[i + 1] ELSE Source[x].pos
Across(x) == TwoTo[ResOf[x].u - TileRes(x).u]
Origin(x, i) == << (i % Across(x)) * U(TileRes(x)), (i \div Across(x)) * V(TileRes(x)) >>
OneColour(x, i) ==
  \/ Source[x].route = "constant"
  \/ IsStored(x) /\ Encoding[PosOfTile(x, i)] = "constant"

Stride(r, res) == IF r.stride = 0 THEN U(res) ELSE r.stride

(* What each call is to return. *)
Expected(r) ==
  CASE r.api = "get_data_at_res" ->
         Picture(r.of, << 0, 0 >>, ResOf[r.of], U(ResOf[r.of]), Size(ResOf[r.of]))
    [] r.api = "get_data_into" ->
         Picture(r.of, << 0, 0 >>, ResOf[r.of], Stride(r, ResOf[r.of]), r.len)
    [] r.api = "get_tile" ->
         Picture(r.of, Origin(r.of, r.tile), TileRes(r.of), U(TileRes(r.of)), Size(TileRes(r.of)))
    [] r.api = "get_tile_into" ->
         Picture(r.of, Origin(r.of, r.tile), TileRes(r.of), Stride(r, TileRes(r.of)), r.len)
    [] r.api = "get_pixel" -> Pixels[r.of][<< r.u, r.v >>]
    [] r.api = "tile_layout" ->
         [res |-> ResOf[r.of], tile_res |-> TileRes(r.of), ntilesu |-> Across(r.of),
          ntilesv |-> TwoTo[ResOf[r.of].v - TileRes(r.of).v], is_tiled |-> IsTiled(r.of),
          is_constant |-> ~IsTiled(r.of) /\ OneColour(r.of, 0),
          is_stored |-> Source[r.of].route # "reduced"]
    [] r.api = "tile_info" ->
         [res |-> TileRes(r.of), origin |-> Origin(r.of, r.tile),
          is_constant |-> OneColour(r.of, r.tile),
          file_offset |-> IF IsStored(r.of) THEN << PosOfTile(r.of, r.tile) >> ELSE << >>]
    [] r.api = "metadata" -> TRUE

(* What of the file can be read: a block as texels of resolution r, the    *)
(* index data of a texture, and all it takes to draw one.                  *)
BlockReads(pos, r) == pos \notin Refused /\ ~Undecodable(pos, r)

IndexReads(x) ==
  /\ Source[x].route # "none"
  /\ IsStored(x) => << "level", Source[x].level >> \notin Broken
  /\ IsTiled(x) => << "dir", Source[x].pos >> \notin Broken

TileReads(x, i) == IsStored(x) => BlockReads(PosOfTile(x, i), TileRes(x))

NTiles(x) == NTilesU(ResOf[x], TileRes(x)) * NTilesV(ResOf[x], TileRes(x))
InTiling(x, i) == i \in 0..(NTiles(x) - 1)

FaceReads(x) == IndexReads(x) /\ \A i \in 0..(NTiles(x) - 1) : TileReads(x, i)

Whole[x \in Texture] ==
  IF Source[x].route = "reduced" THEN Whole[Source[x].from] ELSE FaceReads(x)

(* The tile of a call that reads one, and the extent of what it is to draw. *)
TileApis == {"get_tile", "get_tile_into", "get_pixel"}
TileOf(r) ==
  IF r.api = "get_pixel" THEN TileIndex(ResOf[r.of], TileRes(r.of), r.u, r.v) ELSE r.tile
ExtentOf(r) == IF r.api \in TileApis THEN TileRes(r.of) ELSE ResOf[r.of]

InFace(r, x) == r.u \in 0..(U(ResOf[x]) - 1) /\ r.v \in 0..(V(ResOf[x]) - 1)

(* A buffer of the caller's is wide and long enough. *)
Fitting(r) ==
  LET stride == Stride(r, ExtentOf(r))
  IN  stride >= U(ExtentOf(r)) /\ r.len >= Needed(ExtentOf(r), stride)

(* Neither the request nor the file is to blame for an error. *)
Possible(r) ==
  CASE r.api = "metadata" -> << "metadata" >> \notin Broken
    [] r.api = "get_data_at_res" -> Whole[r.of]
    [] r.api = "get_data_into" -> Fitting(r) /\ Whole[r.of]
    [] r.api \in TileApis ->
         /\ IF r.api = "get_pixel" THEN InFace(r, r.of) ELSE InTiling(r.of, r.tile)
         /\ r.api = "get_tile_into" => Fitting(r)
         /\ IF IsTiled(r.of) THEN IndexReads(r.of) /\ TileReads(r.of, TileOf(r)) ELSE Whole[r.of]
    [] r.api = "tile_layout" -> IndexReads(r.of)
    [] r.api = "tile_info" -> IndexReads(r.of) /\ InTiling(r.of, r.tile)

(* A call that reads the stream may also find it failing. *)
Outcomes ==
  [r \in Request |->
     {IF Possible(r) THEN << r.api, Expected(r) >> ELSE << "err", "Refused" >>, << "err", "Io" >>}]

Service == INSTANCE ReadService
             WITH Thread <- {"host"},
                  pending <- [t \in {"host"} |-> call], reply <- [t \in {"host"} |-> reply]

-----------------------------------------------------------------------------
TypeOK ==
  /\ levels \subseteq Level /\ metadata \in BOOLEAN
  /\ tile_cache_cap \in Nat
  /\ \A i \in DOMAIN tile_cache : tile_cache[i].pos \in DOMAIN Directory
  /\ call \in Request \cup {None}
  /\ call = None => work = << >> /\ bufs = << >>
  /\ \A i \in DOMAIN bufs : DOMAIN bufs[i].data = 0..(bufs[i].len - 1)

(* Whatever was asked, in whatever order, failed or resized in between,    *)
(* each directory kept is that of the block and resolution it is listed    *)
(* under, is listed once, and no more are kept than the capacity, which    *)
(* is never zero, allows (tile_dir and set_tile_cache_capacity,            *)
(* reader.rs:487-499 and 573-593).                                         *)
DirectoriesHold ==
  /\ \A i \in DOMAIN tile_cache : tile_cache[i].dir = Directory[tile_cache[i].pos]
  /\ IsInjective(Keys)
  /\ Len(tile_cache) <= tile_cache_cap
  /\ tile_cache_cap >= 1

(* At every moment of a call, so also when a read fails under it, its      *)
(* outermost buffer holds the right texels where it has been written, and  *)
(* what it held before everywhere else, the gaps between rows included     *)
(* (get_data_into's and get_tile_into's stride, reader.rs:263-329 and      *)
(* 456-483).                                                               *)
WrittenIsRight ==
  call # None /\ bufs # << >> /\ call.api # "get_pixel" =>
    \A k \in DOMAIN Last(bufs).data : Last(bufs).data[k] \in {Old, Expected(call)[k]}

(* Both: buffers have the length asked for and hold what they should.      *)
BuffersHold == TypeOK /\ WrittenIsRight

(* Every call returns, with exactly what the file's pixels and tiling      *)
(* make its answer - however the buffer is laid out, whatever was asked    *)
(* before, whichever directories are still kept - or with an error if the  *)
(* request or the file is to blame for it; the whole-face, tile and texel  *)
(* calls therefore agree with one another.  No call writes outside its     *)
(* buffer or takes a directory off an empty list (reader.rs:263-483 and    *)
(* 562-740).                                                               *)
ServiceSpec == Service!Spec

(* Its safety half: whatever a call returns is what it is to return.       *)
ServiceSafety == Service!Init /\ [][Service!Next]_Service!vars
=============================================================================
