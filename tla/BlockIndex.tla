------------------------------ MODULE BlockIndex ------------------------------
(***************************************************************************)
(* Where the blocks of a file are: how both readers build the index of a   *)
(* level (ensure_level of src/src/reader.rs, level of cache.rs,            *)
(* level_offsets of decode.rs) and the directory of a tiled block          *)
(* (tile_dir, parse_tile_header, parse_tile_dir).  Blocks follow one       *)
(* another; a face whose size field is the sentinel Large has its size in  *)
(* a table in front of the first block.  One behaviour builds one index.   *)
(* Positions wrap as u64 does in a release build.                          *)
(***************************************************************************)
EXTENDS Integers, Sequences, FiniteSets

CONSTANTS
  Large,      \* BLOCKSIZE_MAX, the size field that refers to the table
  BlockSizes, \* the size fields of the file's headers
  Encodings,  \* and their encodings
  TableSizes, \* the sizes its tables hold
  MaxFaces,   \* bound on the faces of a level
  TileLogs,   \* logarithms a tile header may hold, negative ones included
  FaceRes,    \* resolutions of tiled faces
  Positions,  \* where the data of an index may start
  Modulus     \* 2^64

ASSUME SizeAssumption ==
  /\ Large \in Nat /\ Large < Modulus
  /\ BlockSizes \subseteq 0..Large
  /\ TableSizes \subseteq 0..(Modulus - 1)
ASSUME WidthAssumption ==
  /\ MaxFaces \in Nat /\ Modulus \in Nat
  /\ 8 * MaxFaces < Modulus
  /\ Positions \subseteq 0..(Modulus - 1)
ASSUME ResAssumption == FaceRes \subseteq [u : Nat, v : Nat] /\ TileLogs \subseteq Int

VARIABLES
  pc,          \* what is done next; "done" and "err" are the outcomes
  job,         \* "level" or "tiles"
  res,         \* resolution of the tiled face
  headers,     \* fdh, the face data headers
  table,       \* large_table
  base,        \* where the first block, or the table, is
  offsets, offset, largeFaces, extra, f, i   \* the locals of the code

input == <<job, res, headers, table, base>>
locals == <<offsets, offset, largeFaces, extra, f, i>>
vars == <<pc, input, locals>>

Header == [blocksize : BlockSizes, encoding : Encodings]

Position == 0..(Modulus - 1)

(* u64 addition. *)
Sum(a, b) == IF a + b < Modulus THEN a + b ELSE a + b - Modulus

IsLarge(j) == headers[j].blocksize = Large

NTiles(r, tileRes) == 2 ^ (r.u - tileRes.u) * 2 ^ (r.v - tileRes.v)

\* A fact of arithmetic, stated because the provers know nothing of powers.
ASSUME TilesAssumption ==
  \A r \in FaceRes : \A t \in [u : 0..r.u, v : 0..r.v] : NTiles(r, t) \in Nat \ {0}

-----------------------------------------------------------------------------
(* The index of a level. *)

LargeFacePositions == {j \in DOMAIN headers : IsLarge(j)}

(* The second read, of as many entries as there are large faces. *)
ReadTable ==
  /\ pc = "table"
  /\ table' \in [1..Cardinality(LargeFacePositions) -> TableSizes]
  /\ pc' = "faces"
  /\ UNCHANGED <<job, res, headers, base, locals>>

(* The first pass: running sums that leave the large faces out. *)
PlaceFace ==
  /\ pc = "faces" /\ f <= Len(headers)
  /\ offsets' = Append(offsets, offset)
  /\ IF IsLarge(f)
     THEN largeFaces' = Append(largeFaces, f) /\ UNCHANGED offset
     ELSE offset' = Sum(offset, headers[f].blocksize) /\ UNCHANGED largeFaces
  /\ f' = f + 1
  /\ UNCHANGED <<pc, input, extra, i>>

(* Between the passes, the size of the table is checked. *)
StartShift ==
  /\ pc = "faces" /\ f > Len(headers)
  /\ pc' = IF largeFaces = << >> THEN "done"
           ELSE IF Len(table) < Len(largeFaces) THEN "truncated" ELSE "shift"
  /\ extra' = 8 * Len(largeFaces) /\ f' = 1 /\ i' = 1
  /\ UNCHANGED <<input, offsets, offset, largeFaces>>

(* Slip: a large face itself is left where the first pass put it. *)
ShiftedBeforeLarge == i <= Len(largeFaces) => f < largeFaces[i]

(* The second pass moves what lies up to the next large face, *)
BeforeLarge == i <= Len(largeFaces) => f <= largeFaces[i]

Shift ==
  /\ pc = "shift" /\ f <= Len(headers) /\ BeforeLarge
  /\ offsets' = [offsets EXCEPT ![f] = Sum(@, extra)]
  /\ f' = f + 1
  /\ UNCHANGED <<pc, input, offset, largeFaces, extra, i>>

(* and makes room for that face from there on. *)
PassLarge ==
  /\ pc = "shift" /\ i <= Len(largeFaces) /\ ~BeforeLarge
  /\ extra' = Sum(extra, table[i])
  /\ i' = i + 1
  /\ UNCHANGED <<pc, input, offsets, offset, largeFaces, f>>

EndShift ==
  /\ pc = "shift" /\ i > Len(largeFaces) /\ f > Len(headers)
  /\ pc' = "done"
  /\ UNCHANGED <<input, locals>>

-----------------------------------------------------------------------------
(* The directory of a tiled block, from its header of six bytes on. *)

(* parse_tile_header: neither negative nor larger than the face. *)
TileFits(tileRes) ==
  /\ tileRes.u >= 0 /\ tileRes.v >= 0
  /\ tileRes.u <= res.u /\ tileRes.v <= res.v

(* The directory inflates to one header per tile, or unzip fails. *)
ReadTileHeader ==
  /\ pc = "tilehead"
  /\ \E tileRes \in [u : TileLogs, v : TileLogs] :
       IF TileFits(tileRes)
       THEN headers' \in [1..NTiles(res, tileRes) -> Header] /\ pc' = "tiles"
       ELSE pc' = "err" /\ UNCHANGED headers
  /\ UNCHANGED <<job, res, table, base, locals>>

(* Slip: a tile with the sentinel size is taken for a tile of that size. *)
PlaceLargeTile ==
  /\ pc = "tiles" /\ f <= Len(headers)
  /\ IF headers[f].encoding = "tiled"
     THEN pc' = "err" /\ UNCHANGED locals
     ELSE /\ offsets' = Append(offsets, offset)
          /\ offset' = Sum(offset, headers[f].blocksize)
          /\ f' = f + 1
          /\ UNCHANGED <<pc, largeFaces, extra, i>>
  /\ UNCHANGED input

(* parse_tile_dir. *)
PlaceTile ==
  /\ pc = "tiles" /\ f <= Len(headers)
  /\ IF IsLarge(f) \/ headers[f].encoding = "tiled"
     THEN pc' = "err" /\ UNCHANGED locals
     ELSE /\ offsets' = Append(offsets, offset)
          /\ offset' = Sum(offset, headers[f].blocksize)
          /\ f' = f + 1
          /\ UNCHANGED <<pc, largeFaces, extra, i>>
  /\ UNCHANGED input

EndTiles ==
  /\ pc = "tiles" /\ f > Len(headers)
  /\ pc' = "done"
  /\ UNCHANGED <<input, locals>>

-----------------------------------------------------------------------------
Init ==
  /\ \/ /\ job = "level" /\ pc = "table"
        /\ headers \in UNION {[1..n -> Header] : n \in 0..MaxFaces}
     \/ job = "tiles" /\ pc = "tilehead" /\ headers = << >>
  /\ res \in FaceRes
  /\ base \in Positions
  /\ table = << >>
  /\ offsets = << >> /\ offset = base /\ largeFaces = << >>
  /\ extra = 0 /\ f = 1 /\ i = 1

Next ==
  \/ ReadTable \/ PlaceFace \/ StartShift \/ Shift \/ PassLarge \/ EndShift
  \/ ReadTileHeader \/ PlaceTile \/ EndTiles

Spec == Init /\ [][Next]_vars

-----------------------------------------------------------------------------
(* The size of block j: its header's, or the entry of the table that is    *)
(* its turn among the large faces.                                         *)
Rank(j) == Cardinality({k \in 1..j : IsLarge(k)})
ActualSize(j) == IF IsLarge(j) THEN table[Rank(j)] ELSE headers[j].blocksize

(* A finished index is the format's: the first block is just past the      *)
(* table, and every block just past the one before it, whichever of them   *)
(* are large (level_offsets, decode.rs:73-110; parse_tile_dir, 133-161).   *)
BlocksAreAdjacent ==
  pc = "done" =>
    /\ Len(offsets) = Len(headers)
    /\ headers # << >> => offsets[1] = Sum(base, 8 * Cardinality(LargeFacePositions))
    /\ \A j \in 2..Len(headers) : offsets[j] = Sum(offsets[j - 1], ActualSize(j - 1))

(* The table that is read, sized by large_face_positions, is as long as    *)
(* level_offsets, which counts for itself, needs it to be: "truncated      *)
(* large face table" (decode.rs:91-94) never happens to a reader.          *)
TableIsLongEnough == pc # "truncated"

(* A level is always indexed, and as the format says.                      *)
IndexHolds == TableIsLongEnough /\ BlocksAreAdjacent

(* A directory is only of a face its tiles divide, one header a tile, and  *)
(* no tile of it is one whose size or place it could not say (decode.rs:   *)
(* 120-125, 136-152): a face is never refused for less.                    *)
OnlyWholeDirectories ==
  /\ job = "tiles" /\ pc = "done" =>
       /\ \E t \in [u : 0..res.u, v : 0..res.v] : Len(headers) = NTiles(res, t)
       /\ \A j \in DOMAIN headers : headers[j].blocksize < Large
       /\ \A j \in DOMAIN headers : headers[j].encoding # "tiled"
  /\ pc = "err" /\ headers # << >> =>
       \E j \in DOMAIN headers : IsLarge(j) \/ headers[j].encoding = "tiled"
=============================================================================
