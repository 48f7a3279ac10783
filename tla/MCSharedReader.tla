--------------------------- MODULE MCSharedReader ---------------------------
(***************************************************************************)
(* SharedReader on a small file that holds one face of every kind the      *)
(* reader treats differently, and two threads.                             *)
(***************************************************************************)
EXTENDS SharedReader, TLC

CONSTANTS t1, t2

MCThread == {t1, t2}

MCSource ==
  \* a packed and a constant tile
  "tiled" :> [route |-> "stored", level |-> "L0", pos |-> "dir"] @@
  \* one packed block, and two reductions of it
  "plain" :> [route |-> "stored", level |-> "L0", pos |-> "packed"] @@
  "half" :> [route |-> "reduced", from |-> "plain"] @@
  "quarter" :> [route |-> "reduced", from |-> "half"] @@
  \* a face flagged constant, and one that is not but whose block is
  "flat" :> [route |-> "constant"] @@
  "lone" :> [route |-> "stored", level |-> "L0", pos |-> "lone"] @@
  \* a resolution larger than the face
  "larger" :> [route |-> "none"] @@
  \* faces that cannot be read: a constant block shorter than a pixel, a
  \* packed block too large not to be tiled, a tile that is itself tiled,
  \* bytes that do not inflate
  "short" :> [route |-> "stored", level |-> "L0", pos |-> "short"] @@
  "large" :> [route |-> "stored", level |-> "L0", pos |-> "large"] @@
  "nested" :> [route |-> "stored", level |-> "L1", pos |-> "outer"] @@
  "rotten" :> [route |-> "stored", level |-> "L1", pos |-> "rotten"]

MCEncoding ==
  "dir" :> "tiled" @@ "tile1" :> "zipped" @@ "tile2" :> "constant" @@
  "packed" :> "zipped" @@ "lone" :> "constant" @@ "short" :> "constant" @@
  "large" :> "zipped" @@ "outer" :> "tiled" @@ "inner" :> "tiled" @@
  "rotten" :> "zipped"

MCTiles == "dir" :> << "tile1", "tile2" >> @@ "outer" :> << "inner" >>

\* L1 has large faces, so its index takes a second read.
MCCellReads == "L0" :> 1 @@ "L1" :> 2 @@ "metadata" :> 2

MCRefused == {"short", "large"}
\* A directory that lists a tiled tile does not parse.
MCBroken == {Block("rotten"), TileDir("outer")}

MCDerivedBase == "plain" :> "quarter" @@ "tiled" :> "tiled"
MCDerivedCount == "plain" :> 3 @@ "tiled" :> 2

\* A directory or a coarse level is small, a packed block large; a finest
\* derived level is larger than the budget of the run that asks for one.
MCSizeOf ==
  [v \in CacheValue |->
     CASE v = Junk -> 1
       [] v # Junk /\ v[1] = "TileDir" -> 1
       [] v # Junk /\ v[1] = "Block" -> 3
       [] v # Junk /\ v[1] = "Reduced" -> 2
       [] v # Junk /\ v[1] = "Derived" -> 4 - v[3]]

Data(x) == [api |-> "data", of |-> x]
Layout(x) == [api |-> "layout", of |-> x]
Info(x, i) == [api |-> "info", of |-> x, tile |-> i]
Tile(x, i) == [api |-> "tile", of |-> x, tile |-> i]
Pixel(x, i) == [api |-> "pixel", of |-> x, tile |-> i]
Level(f, k) == [api |-> "derived", of |-> f, level |-> k]
Metadata == [api |-> "metadata"]

\* The calls of each run.
TileRequests == {Data("tiled"), Tile("tiled", 1), Pixel("lone", 1)}
DerivedRequests == {Data("half"), Level("plain", 2), Level("plain", 1), Level("tiled", 0)}
EveryRequest ==
  {Data(x) : x \in {"half", "lone", "larger", "short", "large", "nested", "rotten"}}
    \cup {Layout("tiled"), Info("tiled", 2), Tile("tiled", 3), Pixel("tiled", 1),
          Pixel("flat", 1), Level("tiled", 2), Metadata}
LoneRequests == {Pixel("lone", 1), Data("lone")}

\* What the file makes impossible fails, everything else does not.
Unreadable ==
  {Data("larger"), Data("short"), Data("large"), Data("nested"), Data("rotten"),
   Tile("tiled", 3), Level("tiled", 2)}
ASSUME ReadableAssumption == \A r \in EveryRequest : Readable(r) <=> r \notin Unreadable
=============================================================================
