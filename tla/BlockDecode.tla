----------------------------- MODULE BlockDecode -----------------------------
(***************************************************************************)
(* From the inflated bytes of a block to pixels: decode_packed and         *)
(* decode_constant of src/src/decode.rs with decode_difference, interleave *)
(* and multalpha of utils.rs.  The file holds a block plane by plane, as   *)
(* it is or as differences; the reader returns interleaved pixels,         *)
(* premultiplied at level 0 if it was opened so.  Elements are numbers of  *)
(* the data type's width: their little-endian bytes are put together and   *)
(* taken apart the same way throughout.  One behaviour decodes one block.  *)
(***************************************************************************)
EXTENDS PixelMath, Sequences

CONSTANTS
  Request   \* blocks as an author made them, and how they are stored and read:
            \* [image, encoding, levelid, premultiply], where an image has a
            \* data type, a size, channels, an alpha channel and its elements
            \* plane by plane, plain

Width(dt) == CASE dt = "uint8" -> 256 [] dt \in {"uint16", "half"} -> 65536

ASSUME RequestAssumption ==
  \A r \in Request :
    LET im == r.image
    IN  /\ im.dt \in {"uint8", "uint16", "half"}
        /\ r.encoding \in {"constant", "zipped", "diffzipped"}
        /\ im.uw \in Nat /\ im.vw \in Nat /\ im.nchan \in Nat /\ im.alphachan \in Int
        /\ im.plain \in Seq(0..(Width(im.dt) - 1))
        /\ Len(im.plain) = im.uw * im.vw * im.nchan
        \* A constant block is one pixel; infinities are not multiplied here.
        /\ r.encoding = "constant" => im.uw * im.vw = 1
        /\ im.dt = "half" /\ r.premultiply =>
             \A j \in DOMAIN im.plain : im.plain[j] % 32768 < Infinity

VARIABLES
  pc,
  image, encoding, levelid, premultiply,   \* the block, and how it is read
  data,      \* the buffer
  i, prev    \* the locals of decode_difference

request == <<image, encoding, levelid, premultiply>>
vars == <<pc, request, data, i, prev>>

(* Differences are only taken, and undone, of the integer types. *)
IsDifference == encoding = "diffzipped" /\ image.dt \in {"uint8", "uint16"}

WrappingAdd(a, b) ==
  IF a + b < Width(image.dt) THEN a + b ELSE a + b - Width(image.dt)

WrappingSub(a, b) == IF a >= b THEN a - b ELSE a - b + Width(image.dt)

(* What is in the file. *)
Stored ==
  [j \in DOMAIN image.plain |->
     IF IsDifference /\ j > 1 THEN WrappingSub(image.plain[j], image.plain[j - 1])
     ELSE image.plain[j]]

-----------------------------------------------------------------------------
Inflate ==
  /\ pc = "inflate"
  /\ data' = Stored
  /\ pc' = CASE encoding = "constant" -> "premultiply"
             [] encoding = "zipped" -> "interleave"
             [] encoding = "diffzipped" -> "undo"
  /\ UNCHANGED <<request, i, prev>>

(* Slip: the difference is to the element as stored. *)
UndoDifferenceOfStored ==
  /\ pc = "undo" /\ IsDifference /\ i <= Len(data)
  /\ data' = [data EXCEPT ![i] = WrappingAdd(@, prev)]
  /\ prev' = data[i]
  /\ i' = i + 1
  /\ UNCHANGED <<pc, request>>

(* decode_difference, one element; floats are left as they are. *)
UndoDifference ==
  /\ pc = "undo" /\ IsDifference /\ i <= Len(data)
  /\ data' = [data EXCEPT ![i] = WrappingAdd(@, prev)]
  /\ prev' = data'[i]
  /\ i' = i + 1
  /\ UNCHANGED <<pc, request>>

EndDifference ==
  /\ pc = "undo" /\ (IsDifference => i > Len(data))
  /\ pc' = "interleave"
  /\ UNCHANGED <<request, data, i, prev>>

Planar(u, v, c) == c * image.uw * image.vw + v * image.uw + u + 1
Interleaved(u, v, c) == (v * image.uw + u) * image.nchan + c + 1

(* The texel whose channel c is at j. *)
Channel(j) == (j - 1) % image.nchan

(* Slip: the rows of the result are as long as the columns. *)
TexelAtTransposed(j) ==
  LET p == (j - 1) \div image.nchan IN [u |-> p \div image.vw, v |-> p % image.vw]

TexelAt(j) ==
  LET p == (j - 1) \div image.nchan IN [u |-> p % image.uw, v |-> p \div image.uw]

Interleave ==
  /\ pc = "interleave"
  /\ data' = [j \in DOMAIN data |-> data[Planar(TexelAt(j).u, TexelAt(j).v, Channel(j))]]
  /\ pc' = "premultiply"
  /\ UNCHANGED <<request, i, prev>>

HasAlpha == image.alphachan >= 0 /\ image.alphachan < image.nchan

Multiplies == levelid = 0 /\ premultiply /\ HasAlpha

(* multalpha multiplies the channels before the alpha, or those after it   *)
(* if there is none before.                                                *)
Multiplied == IF image.alphachan = 0 THEN 1..(image.nchan - 1) ELSE 0..(image.alphachan - 1)

MultAlpha ==
  /\ pc = "premultiply"
  /\ data' = [j \in DOMAIN data |->
                IF Multiplies /\ Channel(j) \in Multiplied
                THEN Premultiplied(image.dt, data[j], data[j - Channel(j) + image.alphachan])
                ELSE data[j]]
  /\ pc' = "done"
  /\ UNCHANGED <<request, i, prev>>

-----------------------------------------------------------------------------
Init ==
  /\ pc = "inflate"
  /\ \E r \in Request :
       /\ image = r.image /\ encoding = r.encoding
       /\ levelid = r.levelid /\ premultiply = r.premultiply
  /\ data = << >> /\ i = 1 /\ prev = 0

Next == Inflate \/ UndoDifference \/ EndDifference \/ Interleave \/ MultAlpha

Spec == Init /\ [][Next]_vars

-----------------------------------------------------------------------------
(* Undoing the differences gives back the planes, however often a sum      *)
(* wraps, and leaves everything else alone (decode_difference,             *)
(* utils.rs:131-152; only an encoding and a type that have differences are *)
(* touched).                                                               *)
DifferencesUndone == pc = "interleave" => data = image.plain

Author(u, v, c) == image.plain[Planar(u, v, c)]
Result(u, v, c) == data[Interleaved(u, v, c)]

(* A decoded block has the author's texels, each channel at its place; a   *)
(* colour of level 0 is multiplied by its own pixel's alpha, whatever the  *)
(* alpha's place, and the alpha and what comes after it are left alone     *)
(* (interleave, utils.rs:102-129; multalpha_t, 234-251; decode.rs:163-217).*)
PixelsAreTheAuthors ==
  pc = "done" =>
    \A u \in 0..(image.uw - 1), v \in 0..(image.vw - 1), c \in 0..(image.nchan - 1) :
      Result(u, v, c) =
        IF Multiplies /\ c \in Multiplied
        THEN Premultiplied(image.dt, Author(u, v, c), Author(u, v, image.alphachan))
        ELSE Author(u, v, c)

(* What a half says of its number: +0.0 and -0.0 are the same. *)
Number(value) == IF image.dt = "half" /\ value = 32768 THEN 0 ELSE value

Floored(value, alpha) == (value * alpha) \div OneValue(image.dt)

(* A premultiplied colour never exceeds its colour or its alpha, and an    *)
(* opaque pixel is left exactly as it was: although one over the largest   *)
(* value is not a float (one_value_inv, types.rs:82-89), and a half goes   *)
(* through a float and back, rounded in another way when it is subnormal   *)
(* (types.rs:419-484).  Halves of up to 1.0 are ordered as their codes.    *)
(* An 8-bit colour is the exact product with the alpha, rounded down,      *)
(* although it is computed in floats (multalpha, utils.rs:181-251).        *)
NeverBrighterThanAlpha ==
  pc = "done" /\ Multiplies =>
    \A u \in 0..(image.uw - 1), v \in 0..(image.vw - 1), c \in Multiplied :
      LET alpha == Author(u, v, image.alphachan)
          colour == Author(u, v, c)
      IN  /\ alpha <= OneValue(image.dt) /\ colour <= OneValue(image.dt) =>
               Result(u, v, c) <= colour /\ Result(u, v, c) <= alpha
          /\ alpha = OneValue(image.dt) => Result(u, v, c) = Number(colour)
          /\ image.dt = "uint8" => Result(u, v, c) = Floored(colour, alpha)
=============================================================================
