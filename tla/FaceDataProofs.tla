---------------------------- MODULE FaceDataProofs ----------------------------
(***************************************************************************)
(* Undoing the differences of a block gives back what was differenced,     *)
(* however often a sum wraps, and interleaving and premultiplying leave    *)
(* every channel of every texel at its place: proved for blocks of any     *)
(* size, number of channels and place of the alpha channel.  What is then  *)
(* reduced is, at every resolution and by every order of steps, the mean   *)
(* of the texel's own part of the face, up to what rounding costs.  A      *)
(* colour multiplied by its alpha is never brighter than either, and as it *)
(* was if the pixel is opaque, whatever the two floats' roundings do.      *)
(***************************************************************************)
EXTENDS FaceData, SequenceTheorems, FiniteSetTheorems, WellFoundedInduction, TLAPS

plain == image.plain

(* Up to i the planes are the author's, from i on what the file holds, and *)
(* prev is the last element of the author's.                               *)
Undone ==
  /\ data \in Seq(0..(Width(image.dt) - 1)) /\ Len(data) = Len(plain)
  /\ i \in 1..(Len(plain) + 1)
  /\ \A j \in 1..Len(plain) : data[j] = IF j < i THEN plain[j] ELSE Stored[j]
  /\ prev = IF i = 1 THEN 0 ELSE plain[i - 1]

DecodeInv ==
  /\ encoding \in {"constant", "zipped", "diffzipped"}
  /\ image.dt \in {"uint8", "uint16", "half"}
  /\ plain \in Seq(0..(Width(image.dt) - 1))
  /\ pc = "inflate" => i = 1 /\ prev = 0
  /\ pc = "undo" /\ IsDifference => Undone
  /\ pc = "undo" /\ ~IsDifference => data = plain
  /\ pc = "interleave" => data = plain

-----------------------------------------------------------------------------
LEMMA WidthIs ==
  ASSUME image.dt \in {"uint8", "uint16", "half"}
  PROVE  Width(image.dt) \in {256, 65536}
BY DEF Width

(* Adding back what was taken away, modulo the width.                      *)
LEMMA AddUndoesSub ==
  ASSUME image.dt \in {"uint8", "uint16", "half"},
         NEW a \in 0..(Width(image.dt) - 1), NEW b \in 0..(Width(image.dt) - 1)
  PROVE  /\ WrappingSub(a, b) \in 0..(Width(image.dt) - 1)
         /\ WrappingAdd(WrappingSub(a, b), b) = a
<1>1. PICK w \in Nat : w = Width(image.dt)
  BY WidthIs
<1>2. a \in 0..(w - 1) /\ b \in 0..(w - 1)
  BY <1>1
<1>3. CASE a >= b
  <2>1. WrappingSub(a, b) = a - b /\ a - b \in 0..(w - 1) /\ (a - b) + b = a /\ a < w
    BY <1>1, <1>2, <1>3 DEF WrappingSub
  <2> QED BY <1>1, <2>1 DEF WrappingAdd
<1>4. CASE a < b
  <2>1. WrappingSub(a, b) = a - b + w
    BY <1>1, <1>2, <1>4 DEF WrappingSub
  <2>2. a - b + w \in 0..(w - 1) /\ ~ ((a - b + w) + b < w) /\ ((a - b + w) + b) - w = a
    BY <1>1, <1>2, <1>4
  <2> QED BY <1>1, <2>1, <2>2 DEF WrappingAdd
<1> QED
  BY <1>1, <1>2, <1>3, <1>4

(* What the file holds, element by element.                                *)
LEMMA StoredIs ==
  ASSUME DecodeInv
  PROVE  /\ Stored \in Seq(0..(Width(image.dt) - 1)) /\ Len(Stored) = Len(plain)
         /\ ~IsDifference => Stored = plain
         /\ IsDifference =>
              \A j \in 1..Len(plain) :
                Stored[j] = IF j > 1 THEN WrappingSub(plain[j], plain[j - 1]) ELSE plain[j]
<1> DEFINE n == Len(plain)
           E == 0..(Width(image.dt) - 1)
<1>1. /\ plain \in Seq(E) /\ n \in Nat /\ DOMAIN plain = 1..n
      /\ \A j \in 1..n : plain[j] \in E
  BY LenProperties, ElementOfSeq DEF DecodeInv
<1>2. plain \in [1..n -> E]
  BY <1>1, LenProperties
<1>3. \A j \in 1..n : j > 1 => j - 1 \in 1..n
  BY <1>1
<1>4. \A j \in 1..n : j > 1 => WrappingSub(plain[j], plain[j - 1]) \in E
  BY <1>1, <1>3, AddUndoesSub DEF DecodeInv
<1>5. Stored = [j \in 1..n |-> IF IsDifference /\ j > 1 THEN WrappingSub(plain[j], plain[j - 1])
                               ELSE plain[j]]
  BY <1>1 DEF Stored, plain
<1>6. Stored \in [1..n -> E]
  BY <1>1, <1>4, <1>5
<1>7. Stored \in Seq(E) /\ Len(Stored) = n
  <2> HIDE DEF E
  <2> QED BY <1>1, <1>6
<1>8. ~IsDifference => Stored = plain
  BY <1>2, <1>5
<1> QED
  BY <1>5, <1>7, <1>8

-----------------------------------------------------------------------------
LEMMA InitDecodeInv == Init => DecodeInv
<1> SUFFICES ASSUME Init PROVE DecodeInv
  OBVIOUS
<1>1. PICK r \in Request : image = r.image /\ encoding = r.encoding
  BY DEF Init
<1>2. /\ image.dt \in {"uint8", "uint16", "half"}
      /\ encoding \in {"constant", "zipped", "diffzipped"}
      /\ plain \in Seq(0..(Width(image.dt) - 1))
  BY <1>1, RequestAssumption DEF plain
<1> QED
  BY <1>2 DEF Init, DecodeInv

(* All steps leave the block itself alone.                                 *)
LEMMA RequestStays ==
  ASSUME UNCHANGED request
  PROVE  /\ image' = image /\ encoding' = encoding /\ plain' = plain
         /\ IsDifference' = IsDifference /\ Stored' = Stored
BY DEF request, plain, IsDifference, Stored, WrappingSub

LEMMA InflatePreserves ==
  ASSUME DecodeInv, Inflate
  PROVE  DecodeInv'
<1>1. /\ pc = "inflate" /\ data' = Stored /\ UNCHANGED request
      /\ i = 1 /\ prev = 0 /\ i' = i /\ prev' = prev
      /\ pc' = CASE encoding = "constant" -> "premultiply"
                 [] encoding = "zipped" -> "interleave"
                 [] encoding = "diffzipped" -> "undo"
  BY DEF Inflate, DecodeInv
<1>2. ASSUME IsDifference PROVE Undone'
  <2>1. /\ data' \in Seq(0..(Width(image.dt) - 1)) /\ Len(data') = Len(plain)
        /\ Len(plain) \in Nat
    BY <1>1, StoredIs, LenProperties DEF DecodeInv
  <2>2. i' \in 1..(Len(plain) + 1) /\ \A j \in 1..Len(plain) : ~ (j < i')
    BY <1>1, <2>1
  <2> QED BY <1>1, <2>1, <2>2, RequestStays DEF Undone
<1>3. ASSUME ~IsDifference PROVE data' = plain
  BY <1>1, <1>3, StoredIs
<1>4. pc' # "inflate" /\ (pc' = "interleave" => ~IsDifference)
  <2>1. CASE encoding = "constant"
    BY <1>1, <2>1
  <2>2. CASE encoding = "zipped"
    BY <1>1, <2>2 DEF IsDifference
  <2>3. CASE encoding = "diffzipped"
    BY <1>1, <2>3
  <2> QED BY <2>1, <2>2, <2>3 DEF DecodeInv
<1>5. CASE IsDifference
  BY <1>1, <1>2, <1>4, <1>5, RequestStays DEF DecodeInv
<1>6. CASE ~IsDifference
  BY <1>1, <1>3, <1>4, <1>6, RequestStays DEF DecodeInv
<1> QED
  BY <1>5, <1>6

LEMMA UndoDifferencePreserves ==
  ASSUME DecodeInv, UndoDifference
  PROVE  DecodeInv'
<1> DEFINE n == Len(plain)
           E == 0..(Width(image.dt) - 1)
<1>1. /\ pc = "undo" /\ pc' = pc /\ IsDifference /\ UNCHANGED request /\ Undone
      /\ n \in Nat /\ i \in 1..n /\ Len(data) = n /\ data \in Seq(E)
      /\ data' = [data EXCEPT ![i] = WrappingAdd(@, prev)]
      /\ prev' = data'[i] /\ i' = i + 1
  <2>1. n \in Nat
    BY LenProperties DEF DecodeInv
  <2> QED BY <2>1 DEF UndoDifference, DecodeInv, Undone
<1>2. /\ DOMAIN data = 1..n
      /\ \A j \in 1..n : plain[j] \in E
      /\ plain \in Seq(E)
  BY <1>1, LenProperties, ElementOfSeq DEF DecodeInv
<1>3. WrappingAdd(data[i], prev) = plain[i]
  <2>1. data[i] = Stored[i]
    BY <1>1 DEF Undone
  <2>2. CASE i = 1
    <3>1. data[i] = plain[i] /\ prev = 0
      BY <1>1, <2>1, <2>2, StoredIs DEF Undone
    <3>2. Width(image.dt) \in Nat
      BY WidthIs DEF DecodeInv
    <3> QED BY <1>1, <1>2, <3>1, <3>2 DEF WrappingAdd
  <2>3. CASE i > 1
    <3>1. i - 1 \in 1..n /\ prev = plain[i - 1]
      BY <1>1, <2>3 DEF Undone
    <3>2. data[i] = WrappingSub(plain[i], plain[i - 1])
      BY <1>1, <2>1, <2>3, StoredIs
    <3>3. plain[i] \in E /\ plain[i - 1] \in E /\ image.dt \in {"uint8", "uint16", "half"}
      BY <1>1, <1>2, <3>1 DEF DecodeInv
    <3>4. WrappingAdd(WrappingSub(plain[i], plain[i - 1]), plain[i - 1]) = plain[i]
      BY <3>3, AddUndoesSub
    <3> QED BY <3>1, <3>2, <3>4
  <2> QED BY <1>1, <2>2, <2>3
<1>4. /\ data' \in Seq(E) /\ Len(data') = n
      /\ data'[i] = plain[i]
      /\ \A j \in 1..n : j # i => data'[j] = data[j]
  <2>1. data' = [data EXCEPT ![i] = plain[i]]
    BY <1>1, <1>3
  <2> QED BY <1>1, <1>2, <2>1, ExceptSeq
<1>5. ASSUME NEW j \in 1..n
      PROVE  data'[j] = IF j < i + 1 THEN plain[j] ELSE Stored[j]
  <2>1. CASE j = i
    BY <1>1, <1>4, <2>1
  <2>2. CASE j # i
    <3>1. data[j] = IF j < i THEN plain[j] ELSE Stored[j]
      BY <1>1 DEF Undone
    <3>2. j < i + 1 <=> j < i
      BY <1>1, <2>2
    <3> QED BY <1>4, <2>2, <3>1, <3>2
  <2> QED BY <2>1, <2>2
<1>6. i' \in 1..(n + 1) /\ i' # 1 /\ i' - 1 = i
  BY <1>1
<1>7. Undone'
  BY <1>1, <1>4, <1>5, <1>6, RequestStays DEF Undone
<1> QED
  BY <1>1, <1>7, RequestStays DEF DecodeInv

LEMMA EndDifferencePreserves ==
  ASSUME DecodeInv, EndDifference
  PROVE  DecodeInv'
<1>1. /\ pc = "undo" /\ pc' = "interleave" /\ UNCHANGED request /\ data' = data
      /\ IsDifference => i > Len(data)
  BY DEF EndDifference
<1>2. data = plain
  <2>1. CASE ~IsDifference
    BY <1>1, <2>1 DEF DecodeInv
  <2>2. CASE IsDifference
    <3>1. Undone /\ i > Len(data)
      BY <1>1, <2>2 DEF DecodeInv
    <3>2. /\ Len(plain) \in Nat /\ Len(data) = Len(plain)
          /\ plain \in [1..Len(plain) -> 0..(Width(image.dt) - 1)]
          /\ data \in [1..Len(plain) -> 0..(Width(image.dt) - 1)]
      BY <3>1, LenProperties DEF DecodeInv, Undone
    <3>3. i \in Nat /\ \A j \in 1..Len(plain) : j < i
      BY <3>1, <3>2 DEF Undone
    <3>4. \A j \in 1..Len(plain) : data[j] = plain[j]
      BY <3>1, <3>3 DEF Undone
    <3> QED BY <3>2, <3>4
  <2> QED BY <2>1, <2>2
<1> QED
  BY <1>1, <1>2, RequestStays DEF DecodeInv

LEMMA NextDecodeInv == DecodeInv /\ [Next]_vars => DecodeInv'
<1> SUFFICES ASSUME DecodeInv, [Next]_vars PROVE DecodeInv'
  OBVIOUS
<1>1. CASE Interleave
  <2>1. pc' = "premultiply" /\ UNCHANGED request
    BY <1>1 DEF Interleave
  <2> QED BY <2>1, RequestStays DEF DecodeInv
<1>2. CASE MultAlpha
  <2>1. pc' = "done" /\ UNCHANGED request
    BY <1>2 DEF MultAlpha
  <2> QED BY <2>1, RequestStays DEF DecodeInv
<1>3. CASE UNCHANGED vars
  <2>1. UNCHANGED request /\ pc' = pc /\ data' = data /\ i' = i /\ prev' = prev
    BY <1>3 DEF vars
  <2> QED BY <2>1, RequestStays DEF DecodeInv, Undone
<1> QED
  BY <1>1, <1>2, <1>3, InflatePreserves, UndoDifferencePreserves, EndDifferencePreserves
     DEF Next

-----------------------------------------------------------------------------
(* Whatever was differenced is given back, element for element, before it  *)
(* is interleaved, and what was not is left alone (decode_difference,      *)
(* utils.rs:131-152; called at decode.rs:193-195).                         *)
THEOREM DifferencesAreUndone == Spec => []DifferencesUndone
<1>1. DecodeInv => DifferencesUndone
  BY DEF DecodeInv, DifferencesUndone, plain
<1> QED
  BY <1>1, InitDecodeInv, NextDecodeInv, PTL DEF Spec

-----------------------------------------------------------------------------
(* Offsets: a number is where its quotient and remainder say.              *)
LEMMA Monotone ==
  ASSUME NEW a \in Nat, NEW b \in Nat, NEW k \in Nat, a <= b
  PROVE  a * k <= b * k
OBVIOUS

LEMMA Pack ==
  ASSUME NEW A \in Nat, NEW B \in Nat, NEW a \in 0..(A - 1), NEW b \in 0..(B - 1)
  PROVE  a * B + b \in 0..(A * B - 1)
<1>1. a * B <= (A - 1) * B
  BY Monotone
<1>2. (A - 1) * B = A * B - B
  OBVIOUS
<1>3. a * B \in Nat /\ A * B \in Nat
  OBVIOUS
<1> QED BY <1>1, <1>2, <1>3

LEMMA DivMod ==
  ASSUME NEW B \in Nat, NEW a \in Nat, NEW b \in 0..(B - 1)
  PROVE  (a * B + b) % B = b /\ (a * B + b) \div B = a
OBVIOUS

(* A product of naturals is 1 only if both are.                            *)
LEMMA OneByOne ==
  ASSUME NEW A \in Nat, NEW B \in Nat, A * B = 1
  PROVE  A = 1 /\ B = 1
<1>1. A # 0 /\ B # 0
  OBVIOUS
<1>2. CASE A >= 2
  <2>1. 2 * B <= A * B
    BY <1>2, Monotone
  <2> QED BY <1>1, <2>1
<1>3. CASE A = 1
  BY <1>3
<1> QED BY <1>1, <1>2, <1>3

(* Both layouts stay within the block.                                     *)
LEMMA PlacesAreInside ==
  ASSUME NEW uw \in Nat, NEW vw \in Nat, NEW n \in Nat,
         NEW u \in 0..(uw - 1), NEW v \in 0..(vw - 1), NEW c \in 0..(n - 1)
  PROVE  /\ (v * uw + u) * n + c + 1 \in 1..(uw * vw * n)
         /\ c * uw * vw + v * uw + u + 1 \in 1..(uw * vw * n)
<1> DEFINE p == v * uw + u
           size == vw * uw
<1>1. p \in 0..(size - 1) /\ size \in Nat
  BY Pack
<1>2. uw * vw = size /\ c * uw * vw = c * size /\ uw * vw * n = size * n /\ n * size = size * n
  OBVIOUS
<1> HIDE DEF p, size
<1>3. p * n + c \in 0..(size * n - 1)
  BY <1>1, Pack
<1>4. c * size + p \in 0..(n * size - 1)
  BY <1>1, Pack
<1>5. c * uw * vw + v * uw + u + 1 = c * size + p + 1
  BY <1>1, <1>2 DEF p
<1>6. /\ p * n + c + 1 \in 1..(size * n) /\ c * size + p + 1 \in 1..(size * n)
  <2>1. size * n \in Nat /\ p * n + c \in Nat /\ c * size + p \in Nat
    BY <1>1, <1>3, <1>4
  <2> QED BY <1>2, <1>3, <1>4, <2>1
<1> QED
  BY <1>2, <1>5, <1>6 DEF p

-----------------------------------------------------------------------------
(* The block is as RequestAssumption has it, and once it is interleaved    *)
(* every channel of every texel is at its place.                           *)
Us == 0..(image.uw - 1)
Vs == 0..(image.vw - 1)
Channels == 0..(image.nchan - 1)

ImageOK ==
  /\ image.uw \in Nat /\ image.vw \in Nat /\ image.nchan \in Nat /\ image.alphachan \in Int
  /\ Len(plain) = image.uw * image.vw * image.nchan
  /\ encoding = "constant" => image.uw * image.vw = 1

InPlace == \A u \in Us, v \in Vs, c \in Channels : Result(u, v, c) = Author(u, v, c)

PlaceInv ==
  /\ DecodeInv
  /\ ImageOK
  /\ pc = "premultiply" => DOMAIN data = DOMAIN plain /\ InPlace
  /\ PixelsAreTheAuthors

LEMMA ProductIsNatural ==
  ASSUME NEW a \in Nat, NEW b \in Nat
  PROVE  a * b \in Nat
OBVIOUS

(* Where the interleaved offset of a channel comes from.                   *)
LEMMA InterleavedIs ==
  ASSUME ImageOK, plain \in Seq(0..(Width(image.dt) - 1)),
         NEW u \in Us, NEW v \in Vs, NEW c \in Channels
  PROVE  LET j == Interleaved(u, v, c) IN
           /\ j \in DOMAIN plain
           /\ Channel(j) = c
           /\ TexelAt(j).u = u /\ TexelAt(j).v = v
           /\ (v * image.uw + u) * image.nchan \in Nat
           /\ j - c = (v * image.uw + u) * image.nchan + 1
<1> DEFINE p == v * image.uw + u
           j == Interleaved(u, v, c)
<1>0. /\ image.uw \in Nat /\ image.vw \in Nat /\ image.nchan \in Nat
      /\ u \in 0..(image.uw - 1) /\ v \in 0..(image.vw - 1) /\ c \in 0..(image.nchan - 1)
      /\ Len(plain) = image.uw * image.vw * image.nchan /\ DOMAIN plain = 1..Len(plain)
  BY LenProperties DEF ImageOK, Us, Vs, Channels
<1>1. p \in Nat /\ j = p * image.nchan + c + 1 /\ p * image.nchan \in Nat
  <2>0. u \in Nat /\ v \in Nat
    BY <1>0
  <2>1. v * image.uw \in Nat
    BY <1>0, <2>0, ProductIsNatural, Zenon
  <2>2. p \in Nat
    BY <2>0, <2>1
  <2>3. p * image.nchan \in Nat
    <3> HIDE DEF p
    <3> QED BY <1>0, <2>2, ProductIsNatural, Zenon
  <2> QED BY <2>2, <2>3 DEF Interleaved
<1>2. j \in DOMAIN plain
  <2>1. (v * image.uw + u) * image.nchan + c + 1 \in 1..(image.uw * image.vw * image.nchan)
    BY <1>0, PlacesAreInside, Zenon
  <2> QED BY <1>0, <2>1 DEF Interleaved
<1>3. j - 1 = p * image.nchan + c
  BY <1>0, <1>1
<1>4. p % image.uw = u /\ p \div image.uw = v
  <2>1. v \in Nat
    BY <1>0
  <2> QED BY <1>0, <2>1, DivMod, Zenon
<1> HIDE DEF p, j
<1>5. (j - 1) % image.nchan = c /\ (j - 1) \div image.nchan = p
  <2>1. /\ (p * image.nchan + c) % image.nchan = c
        /\ (p * image.nchan + c) \div image.nchan = p
    BY <1>0, <1>1, DivMod, Zenon
  <2> QED BY <1>3, <2>1
<1>6. Channel(j) = c /\ TexelAt(j) = [u |-> u, v |-> v]
  BY <1>4, <1>5 DEF Channel, TexelAt
<1>7. j - c = p * image.nchan + 1
  BY <1>0, <1>1
<1> QED
  BY <1>1, <1>2, <1>6, <1>7 DEF p, j

LEMMA InitPlaceInv == Init => PlaceInv
<1> SUFFICES ASSUME Init PROVE PlaceInv
  OBVIOUS
<1>1. PICK r \in Request : image = r.image /\ encoding = r.encoding
  BY DEF Init
<1>2. ImageOK
  BY <1>1, RequestAssumption DEF ImageOK, plain
<1> QED
  BY <1>2, InitDecodeInv DEF Init, PlaceInv, PixelsAreTheAuthors

LEMMA ImageStays ==
  ASSUME UNCHANGED request
  PROVE  /\ ImageOK' = ImageOK /\ Us' = Us /\ Vs' = Vs /\ Channels' = Channels
         /\ Multiplies' = Multiplies /\ Multiplied' = Multiplied
         /\ \A u, v, c : Author(u, v, c)' = Author(u, v, c)
         /\ \A u, v, c : Result(u, v, c)' = data'[Interleaved(u, v, c)]
BY RequestStays
   DEF request, ImageOK, Us, Vs, Channels, Multiplies, HasAlpha, Multiplied, Author, Planar, Result,
       Interleaved

(* A constant block is one texel: its planes are its pixel.                *)
LEMMA ConstantInPlace ==
  ASSUME PlaceInv, Inflate, encoding = "constant"
  PROVE  data' = plain /\ InPlace'
<1>1. data' = plain /\ UNCHANGED request
  BY StoredIs DEF Inflate, PlaceInv, IsDifference
<1>2. image.uw = 1 /\ image.vw = 1
  BY OneByOne DEF PlaceInv, ImageOK
<1>3. ASSUME NEW u \in Us, NEW v \in Vs, NEW c \in Channels
      PROVE  Interleaved(u, v, c) = Planar(u, v, c)
  <2>1. u = 0 /\ v = 0 /\ c \in Nat
    BY <1>2 DEF Us, Vs, Channels, PlaceInv, ImageOK
  <2> QED BY <1>2, <2>1 DEF Interleaved, Planar, PlaceInv, ImageOK
<1> QED
  BY <1>1, <1>3, ImageStays DEF InPlace, Author, plain

LEMMA InterleaveInPlace ==
  ASSUME PlaceInv, Interleave
  PROVE  DOMAIN data' = DOMAIN plain /\ InPlace'
<1>1. /\ data = plain /\ UNCHANGED request
      /\ data' = [j \in DOMAIN plain |-> plain[Planar(TexelAt(j).u, TexelAt(j).v, Channel(j))]]
  BY DEF Interleave, PlaceInv, DecodeInv
<1>2. ASSUME NEW u \in Us, NEW v \in Vs, NEW c \in Channels
      PROVE  data'[Interleaved(u, v, c)] = Author(u, v, c)
  BY <1>1, InterleavedIs DEF PlaceInv, DecodeInv, Author, plain
<1> QED
  BY <1>1, <1>2, ImageStays DEF InPlace

LEMMA MultAlphaInPlace ==
  ASSUME PlaceInv, MultAlpha
  PROVE  PixelsAreTheAuthors'
<1>1. /\ DOMAIN data = DOMAIN plain /\ InPlace /\ UNCHANGED request
      /\ data' = [j \in DOMAIN data |->
                    IF Multiplies /\ Channel(j) \in Multiplied
                    THEN Premultiplied(image.dt, data[j], data[j - Channel(j) + image.alphachan])
                    ELSE data[j]]
  BY DEF MultAlpha, PlaceInv
<1>2. ASSUME NEW u \in Us, NEW v \in Vs, NEW c \in Channels
      PROVE  data'[Interleaved(u, v, c)] =
               IF Multiplies /\ c \in Multiplied
               THEN Premultiplied(image.dt, Author(u, v, c), Author(u, v, image.alphachan))
               ELSE Author(u, v, c)
  <2> DEFINE j == Interleaved(u, v, c)
  <2>1. j \in DOMAIN plain /\ Channel(j) = c /\ j - c = (v * image.uw + u) * image.nchan + 1
    BY InterleavedIs DEF PlaceInv, DecodeInv
  <2>2. data[j] = Author(u, v, c)
    BY <1>1 DEF InPlace, Result
  <2>3. ASSUME Multiplies
        PROVE  data[j - c + image.alphachan] = Author(u, v, image.alphachan)
    <3>1. image.alphachan \in Channels
      BY <2>3 DEF Multiplies, HasAlpha, Channels, PlaceInv, ImageOK
    <3>2. j - c + image.alphachan = Interleaved(u, v, image.alphachan)
      <4>1. (v * image.uw + u) * image.nchan \in Nat /\ image.alphachan \in Int
        BY InterleavedIs DEF PlaceInv, DecodeInv, ImageOK
      <4> QED BY <2>1, <4>1 DEF Interleaved
    <3> QED BY <1>1, <3>1, <3>2 DEF InPlace, Result
  <2> HIDE DEF j
  <2>4. data'[j] = IF Multiplies /\ c \in Multiplied
                   THEN Premultiplied(image.dt, data[j], data[j - c + image.alphachan])
                   ELSE data[j]
    BY <1>1, <2>1
  <2> QED BY <2>2, <2>3, <2>4 DEF j
<1>3. image' = image
  BY <1>1, RequestStays
<1> QED
  BY <1>1, <1>2, <1>3, ImageStays DEF PixelsAreTheAuthors, Us, Vs, Channels

LEMMA NextPlaceInv == PlaceInv /\ [Next]_vars => PlaceInv'
<1> SUFFICES ASSUME PlaceInv, [Next]_vars PROVE PlaceInv'
  OBVIOUS
<1>1. DecodeInv'
  BY NextDecodeInv DEF PlaceInv
<1>2. UNCHANGED request
  BY DEF Next, vars, Inflate, UndoDifference, EndDifference, Interleave, MultAlpha
<1>3. ImageOK' /\ plain' = plain
  BY <1>2, ImageStays, RequestStays DEF PlaceInv
<1>4. CASE Inflate
  <2>1. pc' # "done" /\ (pc' = "premultiply" => encoding = "constant")
    BY <1>4 DEF Inflate, PlaceInv, DecodeInv
  <2> QED BY <1>1, <1>3, <1>4, <2>1, ConstantInPlace DEF PlaceInv, PixelsAreTheAuthors
<1>5. CASE UndoDifference \/ EndDifference
  <2>1. pc' \in {"undo", "interleave"}
    BY <1>5 DEF UndoDifference, EndDifference
  <2> QED BY <1>1, <1>3, <2>1 DEF PlaceInv, PixelsAreTheAuthors
<1>6. CASE Interleave
  <2>1. pc' = "premultiply"
    BY <1>6 DEF Interleave
  <2> QED BY <1>1, <1>3, <1>6, <2>1, InterleaveInPlace DEF PlaceInv, PixelsAreTheAuthors
<1>7. CASE MultAlpha
  <2>1. pc' = "done"
    BY <1>7 DEF MultAlpha
  <2> QED BY <1>1, <1>3, <1>7, <2>1, MultAlphaInPlace DEF PlaceInv
<1>8. CASE UNCHANGED vars
  <2>1. pc' = pc /\ data' = data /\ image' = image
    BY <1>8, <1>2, RequestStays DEF vars
  <2>2. InPlace' = InPlace /\ PixelsAreTheAuthors' = PixelsAreTheAuthors
    BY <1>2, <2>1, ImageStays DEF InPlace, PixelsAreTheAuthors, Us, Vs, Channels, Result
  <2> QED BY <1>1, <1>3, <2>1, <2>2 DEF PlaceInv
<1> QED
  BY <1>4, <1>5, <1>6, <1>7, <1>8 DEF Next

(* A decoded block has the author's texels, every channel at its place,    *)
(* and each colour of a premultiplied level 0 multiplied by the alpha of   *)
(* its own texel (interleave, utils.rs:102-129; multalpha_t, 234-251;      *)
(* decode.rs:163-217).                                                     *)
THEOREM TexelsAreInPlace == Spec => []PixelsAreTheAuthors
<1>1. PlaceInv => PixelsAreTheAuthors
  BY DEF PlaceInv
<1> QED
  BY <1>1, InitPlaceInv, NextPlaceInv, PTL DEF Spec

-----------------------------------------------------------------------------
(* Recursive definitions of the reductions. *)

(* Induction on the natural numbers, stated over a set: the intervals 1..n *)
(* of the numbers not in S would have no least one.                        *)
LEMMA NatSetInduction ==
  ASSUME NEW S, 0 \in S, \A n \in Nat : n \in S => n + 1 \in S
  PROVE  Nat \subseteq S
<1> DEFINE T == Nat \ S
           Order == StrictSubsetOrdering(Nat)
           F == FiniteSubsetsOf(Nat)
           I == {1..n : n \in T}
<1> SUFFICES ASSUME T # {} PROVE FALSE
  OBVIOUS
<1>1. ASSUME NEW n \in Nat PROVE 1..n \in F
  <2>1. IsFiniteSet(1..n) /\ 1..n \in SUBSET Nat
    BY FS_Interval
  <2> QED BY <2>1 DEF FiniteSubsetsOf
<1>2. I \subseteq F /\ I # {} /\ IsWellFoundedOn(Order, F)
  BY <1>1, FS_StrictSubsetOrderingWellFounded
<1> HIDE DEF Order, F
<1>3. PICK m \in I : \A y \in I : ~ (<<y, m>> \in Order)
  BY <1>2, WFMin
<1>4. PICK x \in T : m = 1..x
  BY <1>3
<1>5. x \in Nat /\ x # 0 /\ x - 1 \in T /\ 1..(x - 1) \in I
  <2>1. x \in Nat /\ x # 0
    OBVIOUS
  <2>2. x - 1 \in Nat /\ x - 1 \notin S
    BY <2>1
  <2> QED BY <2>1, <2>2
<1>6. <<1..(x - 1), 1..x>> \in Order
  <2>1. 1..(x - 1) \subseteq 1..x /\ x \in 1..x /\ x \notin 1..(x - 1)
    BY <1>5
  <2> QED BY <1>5, <2>1 DEF Order, StrictSubsetOrdering
<1> QED
  BY <1>3, <1>4, <1>5, <1>6

(* f doubles from 1 on. *)
Doubles(f, n) == f = [k \in 0..n |-> IF k = 0 THEN 1 ELSE 2 * f[k - 1]]

LEMMA DoublesExist ==
  ASSUME NEW n \in Nat
  PROVE  \E f : Doubles(f, n)
<1> DEFINE A == {m \in Nat : \E f : Doubles(f, m)}
<1>1. 0 \in A
  <2> DEFINE f == [k \in 0..0 |-> 1]
  <2>1. Doubles(f, 0)
    BY DEF Doubles
  <2> QED BY <2>1
<1>2. ASSUME NEW m \in Nat, m \in A PROVE m + 1 \in A
  <2>1. PICK f : Doubles(f, m)
    BY <1>2
  <2> DEFINE h == [k \in 0..(m + 1) |-> IF k <= m THEN f[k] ELSE 2 * f[m]]
             r == [k \in 0..(m + 1) |-> IF k = 0 THEN 1 ELSE 2 * h[k - 1]]
  <2>2. ASSUME NEW k \in 0..(m + 1) PROVE h[k] = r[k]
    <3>1. CASE k = 0
      BY <2>1, <3>1 DEF Doubles
    <3>2. CASE k \in 1..m
      <4>1. k - 1 \in 0..m /\ k \in 0..m /\ k # 0
        BY <3>2
      <4>2. f[k] = 2 * f[k - 1]
        BY <2>1, <4>1 DEF Doubles
      <4> QED BY <4>1, <4>2
    <3>3. CASE k = m + 1
      BY <3>3
    <3> QED BY <3>1, <3>2, <3>3
  <2>3. Doubles(h, m + 1)
    <3>1. h = r
      BY <2>2
    <3> QED BY <3>1 DEF Doubles
  <2> HIDE DEF h
  <2> QED BY <2>3
<1>3. Nat \subseteq A
  <2> HIDE DEF A
  <2> QED BY <1>1, <1>2, NatSetInduction
<1> QED
  BY <1>3

LEMMA SideRun ==
  ASSUME NEW n \in Nat
  PROVE  \E f : Doubles(f, n) /\ R!Side(n) = f[n]
<1> DEFINE shifted == CHOOSE f : Doubles(f, n)
<1>1. Doubles(shifted, n)
  BY DoublesExist
<1>2. R!Side(n) = shifted[n]
  BY DEF R!Side, Doubles
<1> QED
  BY <1>1, <1>2

(* Two runs of a doubling agree where both are defined. *)
LEMMA DoublesAgree ==
  ASSUME NEW f, NEW g, NEW n \in Nat, Doubles(f, n), Doubles(g, n + 1)
  PROVE  f[n] = g[n]
<1> DEFINE A == {k \in Nat : k <= n => f[k] = g[k]}
<1>1. 0 \in A
  BY DEF Doubles
<1>2. ASSUME NEW k \in Nat, k \in A PROVE k + 1 \in A
  <2> SUFFICES ASSUME k + 1 <= n PROVE f[k + 1] = g[k + 1]
    OBVIOUS
  <2>1. k + 1 \in 0..n /\ k + 1 \in 0..(n + 1) /\ k + 1 # 0 /\ (k + 1) - 1 = k
    OBVIOUS
  <2>2. f[k + 1] = 2 * f[k] /\ g[k + 1] = 2 * g[k]
    BY <2>1 DEF Doubles
  <2>3. f[k] = g[k]
    BY <1>2
  <2> QED BY <2>2, <2>3
<1>3. Nat \subseteq A
  <2> HIDE DEF A
  <2> QED BY <1>1, <1>2, NatSetInduction
<1> QED
  BY <1>3

(* A side of one more bit is twice as long. *)
LEMMA SideIs ==
  /\ R!Side(0) = 1
  /\ \A n \in Nat : R!Side(n) \in Nat \ {0} /\ R!Side(n + 1) = 2 * R!Side(n)
<1>1. R!Side(0) = 1
  <2>1. PICK f : Doubles(f, 0) /\ R!Side(0) = f[0]
    BY SideRun
  <2> QED BY <2>1 DEF Doubles
<1>2. ASSUME NEW n \in Nat PROVE R!Side(n + 1) = 2 * R!Side(n)
  <2>1. PICK f : Doubles(f, n) /\ R!Side(n) = f[n]
    BY SideRun
  <2>2. PICK g : Doubles(g, n + 1) /\ R!Side(n + 1) = g[n + 1]
    BY SideRun
  <2>3. g[n + 1] = 2 * g[n]
    <3>1. n + 1 \in 0..(n + 1) /\ n + 1 # 0 /\ (n + 1) - 1 = n
      OBVIOUS
    <3> QED BY <2>2, <3>1 DEF Doubles
  <2>4. f[n] = g[n]
    BY <2>1, <2>2, DoublesAgree
  <2> QED BY <2>1, <2>2, <2>3, <2>4
<1> DEFINE A == {n \in Nat : R!Side(n) \in Nat \ {0}}
<1>3. Nat \subseteq A
  <2>1. 0 \in A
    BY <1>1
  <2>2. ASSUME NEW n \in Nat, n \in A PROVE n + 1 \in A
    BY <1>2, <2>2
  <2> HIDE DEF A
  <2> QED BY <2>1, <2>2, NatSetInduction
<1> QED
  BY <1>1, <1>2, <1>3

(* s is the running sum of the values of cells. *)
Sums(s, values, cells) ==
  s = [j \in 0..Len(values) |->
         IF j = 0 THEN 0 ELSE s[j - 1] + (IF j \in cells THEN values[j] ELSE 0)]

LEMMA SumRun ==
  ASSUME NEW values \in Seq(Nat), NEW cells
  PROVE  \E s : Sums(s, values, cells) /\ R!SumOver(values, cells) = s[Len(values)]
<1> DEFINE Term(j) == IF j \in cells THEN values[j] ELSE 0
           Upto(f, n) == f = [j \in 0..n |-> IF j = 0 THEN 0 ELSE f[j - 1] + Term(j)]
           A == {n \in Nat : \E f : Upto(f, n)}
<1>0. Len(values) \in Nat
  BY LenProperties
<1>1. 0 \in A
  <2> DEFINE s == [j \in 0..0 |-> 0]
  <2>1. Upto(s, 0)
    OBVIOUS
  <2> QED BY <2>1
<1>2. ASSUME NEW n \in Nat, n \in A PROVE n + 1 \in A
  <2>1. PICK s : Upto(s, n)
    BY <1>2
  <2> HIDE DEF Term
  <2> DEFINE h == [j \in 0..(n + 1) |-> IF j <= n THEN s[j] ELSE s[n] + Term(n + 1)]
             r == [j \in 0..(n + 1) |-> IF j = 0 THEN 0 ELSE h[j - 1] + Term(j)]
  <2>2. ASSUME NEW j \in 0..(n + 1) PROVE h[j] = r[j]
    <3>1. CASE j = 0
      BY <2>1, <3>1
    <3>2. CASE j \in 1..n
      <4>1. j - 1 \in 0..n /\ j \in 0..n /\ j # 0
        BY <3>2
      <4>2. s[j] = s[j - 1] + Term(j)
        BY <2>1, <4>1
      <4> QED BY <4>1, <4>2
    <3>3. CASE j = n + 1
      BY <3>3
    <3> QED BY <3>1, <3>2, <3>3
  <2>3. Upto(h, n + 1)
    <3>1. h = r
      BY <2>2
    <3> QED BY <3>1
  <2> HIDE DEF h, Upto
  <2> QED BY <2>3
<1>3. Len(values) \in A
  <2> HIDE DEF A
  <2> QED BY <1>0, <1>1, <1>2, NatSetInduction
<1>4. \E f : Upto(f, Len(values))
  BY <1>3
<1> DEFINE upTo == CHOOSE f : Upto(f, Len(values))
<1>5. Upto(upTo, Len(values))
  BY <1>4
<1>6. R!SumOver(values, cells) = upTo[Len(values)]
  BY DEF R!SumOver
<1> QED
  BY <1>5, <1>6 DEF Sums

(* The sum over disjoint sets of cells is the sum of the sums. *)
LEMMA SumOfUnion ==
  ASSUME NEW values \in Seq(Nat), NEW c, NEW d, c \cap d = {}
  PROVE  /\ R!SumOver(values, c \cup d) = R!SumOver(values, c) + R!SumOver(values, d)
         /\ R!SumOver(values, c) \in Nat /\ R!SumOver(values, d) \in Nat
<1>0. Len(values) \in Nat /\ \A j \in 1..Len(values) : values[j] \in Nat
  BY LenProperties, ElementOfSeq
<1>1. PICK s : Sums(s, values, c) /\ R!SumOver(values, c) = s[Len(values)]
  BY SumRun
<1>2. PICK t : Sums(t, values, d) /\ R!SumOver(values, d) = t[Len(values)]
  BY SumRun
<1>3. PICK u : Sums(u, values, c \cup d) /\ R!SumOver(values, c \cup d) = u[Len(values)]
  BY SumRun
<1> DEFINE A == {n \in Nat : n <= Len(values) =>
                   s[n] \in Nat /\ t[n] \in Nat /\ u[n] = s[n] + t[n]}
<1>4. 0 \in A
  BY <1>0, <1>1, <1>2, <1>3 DEF Sums
<1>5. ASSUME NEW n \in Nat, n \in A PROVE n + 1 \in A
  <2> SUFFICES ASSUME n + 1 <= Len(values)
               PROVE  /\ s[n + 1] \in Nat /\ t[n + 1] \in Nat
                      /\ u[n + 1] = s[n + 1] + t[n + 1]
    OBVIOUS
  <2> DEFINE m == n + 1
             x == values[m]
  <2>1. m \in 0..Len(values) /\ m # 0 /\ m - 1 = n /\ m \in 1..Len(values) /\ x \in Nat
    BY <1>0
  <2>2. s[n] \in Nat /\ t[n] \in Nat /\ u[n] = s[n] + t[n]
    BY <1>0, <1>5
  <2> HIDE DEF m, x
  <2>3. /\ s[m] = s[n] + (IF m \in c THEN x ELSE 0)
        /\ t[m] = t[n] + (IF m \in d THEN x ELSE 0)
        /\ u[m] = u[n] + (IF m \in c \cup d THEN x ELSE 0)
    BY <1>1, <1>2, <1>3, <2>1 DEF Sums, x
  <2>4. s[m] \in Nat /\ t[m] \in Nat /\ u[m] = s[m] + t[m]
    BY <2>1, <2>2, <2>3
  <2> QED BY <2>4 DEF m
<1>6. Nat \subseteq A
  <2> HIDE DEF A
  <2> QED BY <1>4, <1>5, NatSetInduction
<1> QED
  BY <1>0, <1>1, <1>2, <1>3, <1>6

-----------------------------------------------------------------------------
(* Where a reduced texel's part of the face is, for cells by their corners *)
(* (a, b), (a + s, b) and (a, b + s): s is 1 for the cells stored as they  *)
(* are and -1 for those that point the other way.                          *)

Corners3(a, b, s, u, v, w, k) ==
  /\ R!InTriangle(a, b, u, v, w, k)
  /\ R!InTriangle(a + s, b, u, v, w, k)
  /\ R!InTriangle(a, b + s, u, v, w, k)

LEMMA CornersAre ==
  ASSUME NEW x \in Int, NEW y \in Int, NEW side \in Int, NEW u, NEW v, NEW w, NEW k
  PROVE  (\A p \in R!CornersOf(x, y, side) : R!InTriangle(p[1], p[2], u, v, w, k)) <=>
           IF x + y < side THEN Corners3(x, y, 1, u, v, w, k)
           ELSE Corners3(side - y, side - x, -1, u, v, w, k)
<1>1. CASE x + y < side
  <2>1. R!CornersOf(x, y, side) = {<<x, y>>, <<x + 1, y>>, <<x, y + 1>>}
    BY <1>1 DEF R!CornersOf, R!Upright
  <2> QED BY <1>1, <2>1 DEF Corners3
<1>2. CASE ~(x + y < side)
  <2> DEFINE a == side - y
             b == side - x
  <2>1. R!CornersOf(x, y, side) = {<<a, b>>, <<a - 1, b>>, <<a, b - 1>>}
    BY <1>2 DEF R!CornersOf, R!Upright
  <2>2. a \in Int /\ b \in Int
    OBVIOUS
  <2> HIDE DEF a, b
  <2>3. a - 1 = a + (-1) /\ b - 1 = b + (-1)
    BY <2>2
  <2>4. (\A p \in R!CornersOf(x, y, side) : R!InTriangle(p[1], p[2], u, v, w, k)) <=>
          Corners3(a, b, -1, u, v, w, k)
    BY <2>1, <2>3 DEF Corners3
  <2> QED BY <1>2, <2>4 DEF a, b
<1> QED
  BY <1>1, <1>2

(* The four texels a triangle's texel is reduced from.                     *)
Quarter1(a, b, s, u, v, w, k) == Corners3(a, b, s, 2 * u, 2 * v, 2 * w, k)
Quarter2(a, b, s, u, v, w, k) == Corners3(a, b, s, 2 * u + 1, 2 * v, 2 * w, k)
Quarter3(a, b, s, u, v, w, k) == Corners3(a, b, s, 2 * u, 2 * v + 1, 2 * w, k)
Quarter4(a, b, s, u, v, w, k) ==
  Corners3(a, b, s, 2 * w - 1 - 2 * v, 2 * w - 1 - 2 * u, 2 * w, k)

LEMMA QuartersOfUpright ==
  ASSUME NEW a \in Int, NEW b \in Int, NEW s \in {1, -1}, NEW w \in Nat,
         NEW u \in 0..(w - 1), NEW v \in 0..(w - 1), NEW k \in Nat \ {0}, u + v < w
  PROVE  LET q1 == Quarter1(a, b, s, u, v, w, k)
             q2 == Quarter2(a, b, s, u, v, w, k)
             q3 == Quarter3(a, b, s, u, v, w, k)
             q4 == Quarter4(a, b, s, u, v, w, k)
         IN  /\ Corners3(a, b, s, u, v, w, 2 * k) <=> q1 \/ q2 \/ q3 \/ q4
             /\ ~(q1 /\ q2) /\ ~(q1 /\ q3) /\ ~(q1 /\ q4)
             /\ ~(q2 /\ q3) /\ ~(q2 /\ q4) /\ ~(q3 /\ q4)
<1>1. PICK p \in Nat, q \in Nat : p = k * u /\ q = k * v
  <2>1. k * u \in Nat /\ k * v \in Nat
    OBVIOUS
  <2> QED BY <2>1
<1>2. /\ (2 * k) * u = 2 * p /\ (2 * k) * v = 2 * q
      /\ (2 * k) * (u + v + 1) = 2 * p + 2 * q + 2 * k
      /\ k * (2 * u) = 2 * p /\ k * (2 * v) = 2 * q
      /\ k * (2 * u + 1) = 2 * p + k /\ k * (2 * v + 1) = 2 * q + k
      /\ k * (2 * u + 2 * v + 1) = 2 * p + 2 * q + k
      /\ k * (2 * u + 1 + 2 * v + 1) = 2 * p + 2 * q + 2 * k
      /\ k * (2 * u + (2 * v + 1) + 1) = 2 * p + 2 * q + 2 * k
  BY <1>1
<1>3. /\ 2 * w - (2 * w - 1 - 2 * u) = 2 * u + 1
      /\ 2 * w - (2 * w - 1 - 2 * v) = 2 * v + 1
      /\ 2 * (2 * w) - (2 * w - 1 - 2 * v) - (2 * w - 1 - 2 * u) - 1 = 2 * u + 2 * v + 1
  OBVIOUS
<1>4. /\ u + v < w /\ 2 * u + 2 * v < 2 * w /\ 2 * u + 1 + 2 * v < 2 * w
      /\ 2 * u + (2 * v + 1) < 2 * w
      /\ ~((2 * w - 1 - 2 * v) + (2 * w - 1 - 2 * u) < 2 * w)
  OBVIOUS
<1>5. ASSUME NEW x \in Int, NEW y \in Int
      PROVE  /\ R!InTriangle(x, y, u, v, w, 2 * k) <=>
                  x >= 2 * p /\ y >= 2 * q /\ x + y <= 2 * p + 2 * q + 2 * k
             /\ R!InTriangle(x, y, 2 * u, 2 * v, 2 * w, k) <=>
                  x >= 2 * p /\ y >= 2 * q /\ x + y <= 2 * p + 2 * q + k
             /\ R!InTriangle(x, y, 2 * u + 1, 2 * v, 2 * w, k) <=>
                  x >= 2 * p + k /\ y >= 2 * q /\ x + y <= 2 * p + 2 * q + 2 * k
             /\ R!InTriangle(x, y, 2 * u, 2 * v + 1, 2 * w, k) <=>
                  x >= 2 * p /\ y >= 2 * q + k /\ x + y <= 2 * p + 2 * q + 2 * k
             /\ R!InTriangle(x, y, 2 * w - 1 - 2 * v, 2 * w - 1 - 2 * u, 2 * w, k) <=>
                  x <= 2 * p + k /\ y <= 2 * q + k /\ x + y >= 2 * p + 2 * q + k
  BY <1>2, <1>3, <1>4, Zenon DEF R!InTriangle, R!Upright
<1>6. a + s \in Int /\ b + s \in Int
  OBVIOUS
<1>7. /\ Corners3(a, b, s, u, v, w, 2 * k) <=>
           /\ a >= 2 * p /\ a + s >= 2 * p /\ b >= 2 * q /\ b + s >= 2 * q
           /\ a + b <= 2 * p + 2 * q + 2 * k /\ a + b + s <= 2 * p + 2 * q + 2 * k
      /\ Quarter1(a, b, s, u, v, w, k) <=>
           /\ a >= 2 * p /\ a + s >= 2 * p /\ b >= 2 * q /\ b + s >= 2 * q
           /\ a + b <= 2 * p + 2 * q + k /\ a + b + s <= 2 * p + 2 * q + k
      /\ Quarter2(a, b, s, u, v, w, k) <=>
           /\ a >= 2 * p + k /\ a + s >= 2 * p + k /\ b >= 2 * q /\ b + s >= 2 * q
           /\ a + b <= 2 * p + 2 * q + 2 * k /\ a + b + s <= 2 * p + 2 * q + 2 * k
      /\ Quarter3(a, b, s, u, v, w, k) <=>
           /\ a >= 2 * p /\ a + s >= 2 * p /\ b >= 2 * q + k /\ b + s >= 2 * q + k
           /\ a + b <= 2 * p + 2 * q + 2 * k /\ a + b + s <= 2 * p + 2 * q + 2 * k
      /\ Quarter4(a, b, s, u, v, w, k) <=>
           /\ a <= 2 * p + k /\ a + s <= 2 * p + k /\ b <= 2 * q + k /\ b + s <= 2 * q + k
           /\ a + b >= 2 * p + 2 * q + k /\ a + b + s >= 2 * p + 2 * q + k
  BY <1>5, <1>6 DEF Corners3, Quarter1, Quarter2, Quarter3, Quarter4
<1> QED
  BY <1>7

LEMMA QuartersOfInverted ==
  ASSUME NEW a \in Int, NEW b \in Int, NEW s \in {1, -1}, NEW w \in Nat,
         NEW u \in 0..(w - 1), NEW v \in 0..(w - 1), NEW k \in Nat \ {0}, ~(u + v < w)
  PROVE  LET q1 == Quarter1(a, b, s, u, v, w, k)
             q2 == Quarter2(a, b, s, u, v, w, k)
             q3 == Quarter3(a, b, s, u, v, w, k)
             q4 == Quarter4(a, b, s, u, v, w, k)
         IN  /\ Corners3(a, b, s, u, v, w, 2 * k) <=> q1 \/ q2 \/ q3 \/ q4
             /\ ~(q1 /\ q2) /\ ~(q1 /\ q3) /\ ~(q1 /\ q4)
             /\ ~(q2 /\ q3) /\ ~(q2 /\ q4) /\ ~(q3 /\ q4)
<1>1. PICK c \in Nat, d \in Nat : c = w - v /\ d = w - u
  OBVIOUS
<1>2. PICK p \in Nat, q \in Nat : p = k * c /\ q = k * d
  <2>1. k * c \in Nat /\ k * d \in Nat
    OBVIOUS
  <2> QED BY <2>1
<1>3. /\ 2 * w - u - v - 1 = c + d - 1 /\ w - v = c /\ w - u = d
      /\ 2 * w - 2 * v = 2 * c /\ 2 * w - 2 * u = 2 * d
      /\ 2 * w - (2 * v + 1) = 2 * c - 1 /\ 2 * w - (2 * u + 1) = 2 * d - 1
      /\ 2 * (2 * w) - 2 * u - 2 * v - 1 = 2 * c + 2 * d - 1
      /\ 2 * (2 * w) - (2 * u + 1) - 2 * v - 1 = 2 * c + 2 * d - 2
      /\ 2 * (2 * w) - 2 * u - (2 * v + 1) - 1 = 2 * c + 2 * d - 2
      /\ 2 * w - 1 - 2 * v = 2 * c - 1 /\ 2 * w - 1 - 2 * u = 2 * d - 1
      /\ (2 * c - 1) + (2 * d - 1) + 1 = 2 * c + 2 * d - 1
  BY <1>1
<1>4. /\ (2 * k) * c = 2 * p /\ (2 * k) * d = 2 * q
      /\ (2 * k) * (c + d - 1) = 2 * p + 2 * q - 2 * k
      /\ k * (2 * c) = 2 * p /\ k * (2 * d) = 2 * q
      /\ k * (2 * c - 1) = 2 * p - k /\ k * (2 * d - 1) = 2 * q - k
      /\ k * (2 * c + 2 * d - 1) = 2 * p + 2 * q - k
      /\ k * (2 * c + 2 * d - 2) = 2 * p + 2 * q - 2 * k
  BY <1>2
<1>5. /\ ~(u + v < w) /\ ~(2 * u + 2 * v < 2 * w) /\ ~((2 * u + 1) + 2 * v < 2 * w)
      /\ ~(2 * u + (2 * v + 1) < 2 * w)
      /\ (2 * c - 1) + (2 * d - 1) < 2 * w
  BY <1>1
<1>6. ASSUME NEW x \in Int, NEW y \in Int
      PROVE  /\ R!InTriangle(x, y, u, v, w, 2 * k) <=>
                  x <= 2 * p /\ y <= 2 * q /\ x + y >= 2 * p + 2 * q - 2 * k
             /\ R!InTriangle(x, y, 2 * u, 2 * v, 2 * w, k) <=>
                  x <= 2 * p /\ y <= 2 * q /\ x + y >= 2 * p + 2 * q - k
             /\ R!InTriangle(x, y, 2 * u + 1, 2 * v, 2 * w, k) <=>
                  x <= 2 * p /\ y <= 2 * q - k /\ x + y >= 2 * p + 2 * q - 2 * k
             /\ R!InTriangle(x, y, 2 * u, 2 * v + 1, 2 * w, k) <=>
                  x <= 2 * p - k /\ y <= 2 * q /\ x + y >= 2 * p + 2 * q - 2 * k
             /\ R!InTriangle(x, y, 2 * w - 1 - 2 * v, 2 * w - 1 - 2 * u, 2 * w, k) <=>
                  x >= 2 * p - k /\ y >= 2 * q - k /\ x + y <= 2 * p + 2 * q - k
  <2>1. R!InTriangle(x, y, u, v, w, 2 * k) <=>
          x <= 2 * p /\ y <= 2 * q /\ x + y >= 2 * p + 2 * q - 2 * k
    <3>1. R!InTriangle(x, y, u, v, w, 2 * k) <=>
            x <= (2 * k) * c /\ y <= (2 * k) * d /\ x + y >= (2 * k) * (c + d - 1)
      BY <1>3, <1>5, Zenon DEF R!InTriangle, R!Upright
    <3> QED BY <3>1, <1>4, Zenon
  <2>2. R!InTriangle(x, y, 2 * u, 2 * v, 2 * w, k) <=>
          x <= 2 * p /\ y <= 2 * q /\ x + y >= 2 * p + 2 * q - k
    <3>1. R!InTriangle(x, y, 2 * u, 2 * v, 2 * w, k) <=>
            x <= k * (2 * c) /\ y <= k * (2 * d) /\ x + y >= k * (2 * c + 2 * d - 1)
      BY <1>3, <1>5, Zenon DEF R!InTriangle, R!Upright
    <3> QED BY <3>1, <1>4, Zenon
  <2>3. R!InTriangle(x, y, 2 * u + 1, 2 * v, 2 * w, k) <=>
          x <= 2 * p /\ y <= 2 * q - k /\ x + y >= 2 * p + 2 * q - 2 * k
    <3>1. R!InTriangle(x, y, 2 * u + 1, 2 * v, 2 * w, k) <=>
            x <= k * (2 * c) /\ y <= k * (2 * d - 1) /\ x + y >= k * (2 * c + 2 * d - 2)
      BY <1>3, <1>5, Zenon DEF R!InTriangle, R!Upright
    <3> QED BY <3>1, <1>4, Zenon
  <2>4. R!InTriangle(x, y, 2 * u, 2 * v + 1, 2 * w, k) <=>
          x <= 2 * p - k /\ y <= 2 * q /\ x + y >= 2 * p + 2 * q - 2 * k
    <3>1. R!InTriangle(x, y, 2 * u, 2 * v + 1, 2 * w, k) <=>
            x <= k * (2 * c - 1) /\ y <= k * (2 * d) /\ x + y >= k * (2 * c + 2 * d - 2)
      BY <1>3, <1>5, Zenon DEF R!InTriangle, R!Upright
    <3> QED BY <3>1, <1>4, Zenon
  <2>5. R!InTriangle(x, y, 2 * w - 1 - 2 * v, 2 * w - 1 - 2 * u, 2 * w, k) <=>
          x >= 2 * p - k /\ y >= 2 * q - k /\ x + y <= 2 * p + 2 * q - k
    <3>1. R!InTriangle(x, y, 2 * w - 1 - 2 * v, 2 * w - 1 - 2 * u, 2 * w, k) <=>
            /\ x >= k * (2 * c - 1) /\ y >= k * (2 * d - 1)
            /\ x + y <= k * ((2 * c - 1) + (2 * d - 1) + 1)
      BY <1>3, <1>5, Zenon DEF R!InTriangle, R!Upright
    <3> QED BY <3>1, <1>3, <1>4, Zenon
  <2> QED BY <2>1, <2>2, <2>3, <2>4, <2>5
<1>7. a + s \in Int /\ b + s \in Int
  OBVIOUS
<1>8. /\ Corners3(a, b, s, u, v, w, 2 * k) <=>
           /\ a <= 2 * p /\ a + s <= 2 * p /\ b <= 2 * q /\ b + s <= 2 * q
           /\ a + b >= 2 * p + 2 * q - 2 * k /\ a + b + s >= 2 * p + 2 * q - 2 * k
      /\ Quarter1(a, b, s, u, v, w, k) <=>
           /\ a <= 2 * p /\ a + s <= 2 * p /\ b <= 2 * q /\ b + s <= 2 * q
           /\ a + b >= 2 * p + 2 * q - k /\ a + b + s >= 2 * p + 2 * q - k
      /\ Quarter2(a, b, s, u, v, w, k) <=>
           /\ a <= 2 * p /\ a + s <= 2 * p /\ b <= 2 * q - k /\ b + s <= 2 * q - k
           /\ a + b >= 2 * p + 2 * q - 2 * k /\ a + b + s >= 2 * p + 2 * q - 2 * k
      /\ Quarter3(a, b, s, u, v, w, k) <=>
           /\ a <= 2 * p - k /\ a + s <= 2 * p - k /\ b <= 2 * q /\ b + s <= 2 * q
           /\ a + b >= 2 * p + 2 * q - 2 * k /\ a + b + s >= 2 * p + 2 * q - 2 * k
      /\ Quarter4(a, b, s, u, v, w, k) <=>
           /\ a >= 2 * p - k /\ a + s >= 2 * p - k /\ b >= 2 * q - k /\ b + s >= 2 * q - k
           /\ a + b <= 2 * p + 2 * q - k /\ a + b + s <= 2 * p + 2 * q - k
  BY <1>6, <1>7 DEF Corners3, Quarter1, Quarter2, Quarter3, Quarter4
<1> QED
  BY <1>8

(* The cell (x, y) is in the part of texel (u, v). *)
CellIn(x, y, side, u, v, w, k) ==
  \A p \in R!CornersOf(x, y, side) : R!InTriangle(p[1], p[2], u, v, w, k)

(* At full resolution a texel's part is its own cell. *)
LEMMA OwnCell ==
  ASSUME NEW w \in Nat, NEW u \in 0..(w - 1), NEW v \in 0..(w - 1),
         NEW x \in 0..(w - 1), NEW y \in 0..(w - 1)
  PROVE  CellIn(x, y, w, u, v, w, 1) <=> x = u /\ y = v
<1>1. x + y < w =>
        (Corners3(x, y, 1, u, v, w, 1) <=> x = u /\ y = v)
  BY DEF Corners3, R!InTriangle, R!Upright
<1>2. ~(x + y < w) =>
        (Corners3(w - y, w - x, -1, u, v, w, 1) <=> x = u /\ y = v)
  BY DEF Corners3, R!InTriangle, R!Upright
<1>3. CellIn(x, y, w, u, v, w, 1) <=>
        IF x + y < w THEN Corners3(x, y, 1, u, v, w, 1)
        ELSE Corners3(w - y, w - x, -1, u, v, w, 1)
  <2>1. x \in Int /\ y \in Int /\ w \in Int
    OBVIOUS
  <2> QED BY <2>1, CornersAre, Zenon DEF CellIn
<1> QED
  BY <1>1, <1>2, <1>3, Zenon

-----------------------------------------------------------------------------
(* A reduced texel t is the mean of some cells of a face, and stands for   *)
(* those and no others: n of them, each used once, rounded down at most    *)
(* steps times.                                                            *)
Means(t, values, cells, n, rounded, quarters) ==
  /\ t.cells = cells /\ t.uses = n /\ t.value \in Nat
  /\ IsFiniteSet(cells) /\ Cardinality(cells) = n /\ n \in Nat
  /\ LET loss == 4 * R!SumOver(values, cells) - 4 * n * t.value
     IN  0 <= loss /\ loss <= rounded * n * quarters

LEMMA UnionOfTwo ==
  ASSUME NEW c, NEW d, IsFiniteSet(c), IsFiniteSet(d), c \cap d = {}
  PROVE  IsFiniteSet(c \cup d) /\ Cardinality(c \cup d) = Cardinality(c) + Cardinality(d)
<1>1. Cardinality(c) \in Nat /\ Cardinality(d) \in Nat
  BY FS_CardinalityType
<1>2. Cardinality(c \cap d) = 0
  BY FS_EmptySet
<1>3. /\ IsFiniteSet(c \cup d)
      /\ Cardinality(c \cup d) = Cardinality(c) + Cardinality(d) - Cardinality(c \cap d)
  BY FS_Union, Zenon
<1> QED
  BY <1>1, <1>2, <1>3

(* The arithmetic of rounding. *)
LEMMA HalvingLoses ==
  ASSUME NEW n \in Nat, NEW m \in Nat, NEW a \in Nat, NEW b \in Nat,
         NEW sa \in Nat, NEW sb \in Nat,
         0 <= 4 * sa - 4 * n * a, 4 * sa - 4 * n * a <= m * n * 2,
         0 <= 4 * sb - 4 * n * b, 4 * sb - 4 * n * b <= m * n * 2
  PROVE  LET v == (a + b) \div 2
             loss == 4 * (sa + sb) - 4 * (2 * n) * v
         IN  v \in Nat /\ 0 <= loss /\ loss <= (m + 1) * (2 * n) * 2
<1> DEFINE v == (a + b) \div 2
           e == a + b - 2 * v
<1>1. v \in Nat /\ e \in 0..1 /\ a + b = 2 * v + e
  OBVIOUS
<1> HIDE DEF v, e
<1>2. n * a + n * b = 2 * (n * v) + n * e
  <2>1. n * (a + b) = n * (2 * v + e)
    BY <1>1
  <2>2. n * (a + b) = n * a + n * b /\ n * (2 * v + e) = 2 * (n * v) + n * e
    BY <1>1
  <2> QED BY <2>1, <2>2
<1>3. 0 <= n * e /\ n * e <= n
  BY <1>1
<1> DEFINE na == n * a
           nb == n * b
           nv == n * v
           ne == n * e
           mn == m * n
<1>4. na \in Nat /\ nb \in Nat /\ nv \in Nat /\ ne \in Nat /\ mn \in Nat
  BY <1>1
<1>5. /\ 4 * n * a = 4 * na /\ 4 * n * b = 4 * nb /\ 4 * (2 * n) * v = 8 * nv
      /\ m * n * 2 = 2 * mn /\ (m + 1) * (2 * n) * 2 = 4 * mn + 4 * n
  BY <1>1
<1>6. /\ na + nb = 2 * nv + ne /\ 0 <= ne /\ ne <= n
  BY <1>2, <1>3
<1> HIDE DEF na, nb, nv, ne, mn
<1>7. 0 <= 4 * (sa + sb) - 8 * nv /\ 4 * (sa + sb) - 8 * nv <= 4 * mn + 4 * n
  BY <1>4, <1>5, <1>6
<1> QED
  BY <1>1, <1>5, <1>7 DEF v

LEMMA QuarteringLoses ==
  ASSUME NEW n \in Nat, NEW m \in Nat,
         NEW a \in Nat, NEW b \in Nat, NEW c \in Nat, NEW d \in Nat,
         NEW sa \in Nat, NEW sb \in Nat, NEW sc \in Nat, NEW sd \in Nat,
         0 <= 4 * sa - 4 * n * a, 4 * sa - 4 * n * a <= m * n * 3,
         0 <= 4 * sb - 4 * n * b, 4 * sb - 4 * n * b <= m * n * 3,
         0 <= 4 * sc - 4 * n * c, 4 * sc - 4 * n * c <= m * n * 3,
         0 <= 4 * sd - 4 * n * d, 4 * sd - 4 * n * d <= m * n * 3
  PROVE  LET v == (a + b + c + d) \div 4
             loss == 4 * (sa + sb + sc + sd) - 4 * (4 * n) * v
         IN  v \in Nat /\ 0 <= loss /\ loss <= (m + 1) * (4 * n) * 3
<1> DEFINE v == (a + b + c + d) \div 4
           e == a + b + c + d - 4 * v
<1>1. v \in Nat /\ e \in 0..3 /\ a + b + c + d = 4 * v + e
  OBVIOUS
<1> HIDE DEF v, e
<1>2. n * a + n * b + n * c + n * d = 4 * (n * v) + n * e
  <2>1. n * (a + b + c + d) = n * (4 * v + e)
    BY <1>1
  <2>2. /\ n * (a + b + c + d) = n * a + n * b + n * c + n * d
        /\ n * (4 * v + e) = 4 * (n * v) + n * e
    BY <1>1
  <2> QED BY <2>1, <2>2
<1>3. 0 <= n * e /\ n * e <= 3 * n
  BY <1>1
<1> DEFINE na == n * a
           nb == n * b
           nc == n * c
           nd == n * d
           nv == n * v
           ne == n * e
           mn == m * n
<1>4. /\ na \in Nat /\ nb \in Nat /\ nc \in Nat /\ nd \in Nat
      /\ nv \in Nat /\ ne \in Nat /\ mn \in Nat
  BY <1>1
<1>5. /\ 4 * n * a = 4 * na /\ 4 * n * b = 4 * nb /\ 4 * n * c = 4 * nc /\ 4 * n * d = 4 * nd
      /\ 4 * (4 * n) * v = 16 * nv
      /\ m * n * 3 = 3 * mn /\ (m + 1) * (4 * n) * 3 = 12 * mn + 12 * n
  BY <1>1
<1>6. na + nb + nc + nd = 4 * nv + ne /\ 0 <= ne /\ ne <= 3 * n
  BY <1>2, <1>3
<1> HIDE DEF na, nb, nc, nd, nv, ne, mn
<1>7. /\ 0 <= 4 * (sa + sb + sc + sd) - 16 * nv
      /\ 4 * (sa + sb + sc + sd) - 16 * nv <= 12 * mn + 12 * n
  BY <1>4, <1>5, <1>6
<1> QED
  BY <1>1, <1>5, <1>7 DEF v

(* Halving two means of as many cells each, none in both, is a mean again. *)
LEMMA HalvedMeans ==
  ASSUME NEW values \in Seq(Nat), NEW a, NEW b, NEW c, NEW d, NEW n, NEW m \in Nat,
         Means(a, values, c, n, m, 2), Means(b, values, d, n, m, 2), c \cap d = {}
  PROVE  Means(R!Halved(a, b), values, c \cup d, 2 * n, m + 1, 2)
<1> DEFINE h == R!Halved(a, b)
           sc == R!SumOver(values, c)
           sd == R!SumOver(values, d)
<1>1. /\ h.value = (a.value + b.value) \div 2
      /\ h.cells = c \cup d /\ h.uses = n + n
  BY DEF R!Halved, Means
<1>2. IsFiniteSet(c \cup d) /\ Cardinality(c \cup d) = n + n
  <2>1. IsFiniteSet(c) /\ IsFiniteSet(d) /\ Cardinality(c) = n /\ Cardinality(d) = n
    BY DEF Means
  <2>2. IsFiniteSet(c \cup d) /\ Cardinality(c \cup d) = Cardinality(c) + Cardinality(d)
    BY <2>1, UnionOfTwo, Zenon
  <2> QED BY <2>1, <2>2
<1>3. /\ n \in Nat /\ a.value \in Nat /\ b.value \in Nat
      /\ 0 <= 4 * sc - 4 * n * a.value /\ 4 * sc - 4 * n * a.value <= m * n * 2
      /\ 0 <= 4 * sd - 4 * n * b.value /\ 4 * sd - 4 * n * b.value <= m * n * 2
  BY DEF Means
<1>4. sc \in Nat /\ sd \in Nat /\ R!SumOver(values, c \cup d) = sc + sd
  BY SumOfUnion
<1> HIDE DEF h, sc, sd
<1>5. /\ h.value \in Nat
      /\ 0 <= 4 * (sc + sd) - 4 * (2 * n) * h.value
      /\ 4 * (sc + sd) - 4 * (2 * n) * h.value <= (m + 1) * (2 * n) * 2
  <2> DEFINE v == (a.value + b.value) \div 2
  <2>1. /\ v \in Nat
        /\ 0 <= 4 * (sc + sd) - 4 * (2 * n) * v
        /\ 4 * (sc + sd) - 4 * (2 * n) * v <= (m + 1) * (2 * n) * 2
    BY <1>3, <1>4, HalvingLoses, Zenon
  <2> QED BY <1>1, <2>1, Zenon
<1>6. n + n = 2 * n /\ 2 * n \in Nat
  BY <1>3
<1>7. Means(h, values, c \cup d, 2 * n, m + 1, 2)
  BY <1>1, <1>2, <1>4, <1>5, <1>6, Zenon DEF Means
<1> QED
  BY <1>7 DEF h

LEMMA QuarteredMeans ==
  ASSUME NEW values \in Seq(Nat), NEW t1, NEW t2, NEW t3, NEW t4,
         NEW c1, NEW c2, NEW c3, NEW c4, NEW n, NEW m \in Nat,
         Means(t1, values, c1, n, m, 3), Means(t2, values, c2, n, m, 3),
         Means(t3, values, c3, n, m, 3), Means(t4, values, c4, n, m, 3),
         c1 \cap c2 = {}, (c1 \cup c2) \cap c3 = {}, (c1 \cup c2 \cup c3) \cap c4 = {}
  PROVE  Means(R!Quartered(t1, t2, t3, t4), values, c1 \cup c2 \cup c3 \cup c4, 4 * n, m + 1, 3)
<1> DEFINE h == R!Quartered(t1, t2, t3, t4)
           all == c1 \cup c2 \cup c3 \cup c4
           s1 == R!SumOver(values, c1)
           s2 == R!SumOver(values, c2)
           s3 == R!SumOver(values, c3)
           s4 == R!SumOver(values, c4)
<1>1. /\ h.value = (t1.value + t2.value + t3.value + t4.value) \div 4
      /\ h.cells = all /\ h.uses = n + n + n + n
  BY DEF R!Quartered, Means
<1>2. IsFiniteSet(all) /\ Cardinality(all) = n + n + n + n
  <2>1. /\ IsFiniteSet(c1) /\ IsFiniteSet(c2) /\ IsFiniteSet(c3) /\ IsFiniteSet(c4)
        /\ Cardinality(c1) = n /\ Cardinality(c2) = n
        /\ Cardinality(c3) = n /\ Cardinality(c4) = n
    BY DEF Means
  <2> DEFINE c12 == c1 \cup c2
             c123 == c12 \cup c3
  <2>2. IsFiniteSet(c12) /\ Cardinality(c12) = Cardinality(c1) + Cardinality(c2)
    BY <2>1, UnionOfTwo, Zenon
  <2> HIDE DEF c12
  <2>3. IsFiniteSet(c123) /\ Cardinality(c123) = Cardinality(c12) + Cardinality(c3)
    <3>1. c12 \cap c3 = {}
      BY DEF c12
    <3> QED BY <2>1, <2>2, <3>1, UnionOfTwo, Zenon
  <2> HIDE DEF c123
  <2>4. IsFiniteSet(c123 \cup c4) /\ Cardinality(c123 \cup c4) = Cardinality(c123) + Cardinality(c4)
    <3>1. c123 \cap c4 = {}
      BY DEF c123, c12
    <3> QED BY <2>1, <2>3, <3>1, UnionOfTwo, Zenon
  <2>5. all = c123 \cup c4
    BY DEF c123, c12
  <2> HIDE DEF all
  <2> QED BY <2>1, <2>2, <2>3, <2>4, <2>5
<1>3. /\ n \in Nat /\ t1.value \in Nat /\ t2.value \in Nat /\ t3.value \in Nat /\ t4.value \in Nat
      /\ 0 <= 4 * s1 - 4 * n * t1.value /\ 4 * s1 - 4 * n * t1.value <= m * n * 3
      /\ 0 <= 4 * s2 - 4 * n * t2.value /\ 4 * s2 - 4 * n * t2.value <= m * n * 3
      /\ 0 <= 4 * s3 - 4 * n * t3.value /\ 4 * s3 - 4 * n * t3.value <= m * n * 3
      /\ 0 <= 4 * s4 - 4 * n * t4.value /\ 4 * s4 - 4 * n * t4.value <= m * n * 3
  BY DEF Means
<1>4. /\ s1 \in Nat /\ s2 \in Nat /\ s3 \in Nat /\ s4 \in Nat
      /\ R!SumOver(values, all) = s1 + s2 + s3 + s4
  <2> DEFINE c12 == c1 \cup c2
             c123 == c12 \cup c3
  <2>1. s1 \in Nat /\ s2 \in Nat /\ R!SumOver(values, c12) = s1 + s2
    BY SumOfUnion
  <2> HIDE DEF c12
  <2>2. s3 \in Nat /\ R!SumOver(values, c123) = R!SumOver(values, c12) + s3
    <3>1. c12 \cap c3 = {}
      BY DEF c12
    <3> QED BY <3>1, SumOfUnion
  <2> HIDE DEF c123
  <2>3. s4 \in Nat /\ R!SumOver(values, c123 \cup c4) = R!SumOver(values, c123) + s4
    <3>1. c123 \cap c4 = {}
      BY DEF c123, c12
    <3> QED BY <3>1, SumOfUnion
  <2>4. all = c123 \cup c4
    BY DEF c123, c12
  <2> HIDE DEF all, s1, s2, s3, s4
  <2> QED BY <2>1, <2>2, <2>3, <2>4
<1> HIDE DEF h, all, s1, s2, s3, s4
<1>5. /\ h.value \in Nat
      /\ 0 <= 4 * (s1 + s2 + s3 + s4) - 4 * (4 * n) * h.value
      /\ 4 * (s1 + s2 + s3 + s4) - 4 * (4 * n) * h.value <= (m + 1) * (4 * n) * 3
  <2> DEFINE v == (t1.value + t2.value + t3.value + t4.value) \div 4
  <2>1. /\ v \in Nat
        /\ 0 <= 4 * (s1 + s2 + s3 + s4) - 4 * (4 * n) * v
        /\ 4 * (s1 + s2 + s3 + s4) - 4 * (4 * n) * v <= (m + 1) * (4 * n) * 3
    BY <1>3, <1>4, QuarteringLoses, ZenonT(60)
  <2> QED BY <1>1, <2>1, Zenon
<1>6. n + n + n + n = 4 * n /\ 4 * n \in Nat
  BY <1>3
<1>7. Means(h, values, all, 4 * n, m + 1, 3)
  BY <1>1, <1>2, <1>4, <1>5, <1>6, Zenon DEF Means
<1> QED
  BY <1>7 DEF h, all

-----------------------------------------------------------------------------
(* Places of a buffer by row, and texels by column and row. *)
LEMMA PlaceOfTexel ==
  ASSUME NEW W \in Nat, NEW H \in Nat, NEW u \in 0..(W - 1), NEW v \in 0..(H - 1)
  PROVE  LET j == v * W + u + 1
         IN  j \in 1..(W * H) /\ (j - 1) % W = u /\ (j - 1) \div W = v
<1> DEFINE p == v * W + u
<1>1. p \in 0..(H * W - 1) /\ H * W = W * H
  BY Pack
<1>2. p % W = u /\ p \div W = v
  <2>1. v \in Nat
    OBVIOUS
  <2> QED BY <2>1, DivMod, Zenon
<1>3. W * H \in Nat
  OBVIOUS
<1> HIDE DEF p
<1>4. p + 1 \in 1..(W * H) /\ (p + 1) - 1 = p
  BY <1>1, <1>3
<1> QED
  BY <1>2, <1>4 DEF p

LEMMA TexelOfPlace ==
  ASSUME NEW W \in Nat, NEW H \in Nat, NEW j \in 1..(W * H)
  PROVE  LET u == (j - 1) % W  v == (j - 1) \div W
         IN  u \in 0..(W - 1) /\ v \in 0..(H - 1) /\ v * W + u + 1 = j
<1> DEFINE u == (j - 1) % W
           v == (j - 1) \div W
<1>1. W # 0
  <2>1. W = 0 => W * H = 0
    OBVIOUS
  <2> QED BY <2>1
<1>2. u \in 0..(W - 1) /\ v \in Nat /\ j - 1 = v * W + u /\ j - 1 < W * H
  <2>1. W * H \in Nat
    OBVIOUS
  <2> QED BY <1>1, <2>1
<1> HIDE DEF u, v
<1>3. v < H
  <2>1. v >= H => v * W >= H * W
    BY <1>2, Monotone
  <2>2. H * W = W * H /\ v * W \in Nat /\ W * H \in Nat
    BY <1>2
  <2> QED BY <1>2, <2>1, <2>2
<1>4. v * W \in Nat
  BY <1>2
<1> QED
  BY <1>2, <1>3, <1>4 DEF u, v

(* Half a number's quotient is its quotient by twice as much. *)
LEMMA HalvesOf ==
  ASSUME NEW x \in Nat, NEW k \in Nat \ {0}, NEW u \in Nat
  PROVE  x \div (2 * k) = u <=> x \div k = 2 * u \/ x \div k = 2 * u + 1
<1> DEFINE q == x \div k
           e == x % k
           h == q \div 2
           b == q % 2
<1>1. q \in Nat /\ e \in 0..(k - 1) /\ x = q * k + e
  OBVIOUS
<1> HIDE DEF q, e
<1>2. h \in Nat /\ b \in 0..1 /\ q = 2 * h + b
  BY <1>1
<1> HIDE DEF h, b
<1>3. x = h * (2 * k) + (b * k + e) /\ b * k + e \in 0..(2 * k - 1)
  <2>1. CASE b = 0
    <3>1. q * k = h * (2 * k)
      BY <1>2, <2>1
    <3>2. b * k = 0
      BY <2>1
    <3> QED BY <1>1, <3>1, <3>2
  <2>2. CASE b = 1
    <3>1. q * k = h * (2 * k) + k
      <4>1. q * k = (2 * h + 1) * k /\ (2 * h + 1) * k = h * (2 * k) + k
        BY <1>2, <2>2
      <4> QED BY <4>1
    <3>2. b * k = k
      BY <2>2
    <3>3. h * (2 * k) \in Nat
      BY <1>2
    <3> QED BY <1>1, <3>1, <3>2, <3>3
  <2> QED BY <1>2, <2>1, <2>2
<1>4. x \div (2 * k) = h
  <2> DEFINE r == b * k + e
  <2>1. 2 * k \in Nat /\ r \in 0..(2 * k - 1)
    BY <1>3
  <2> HIDE DEF r
  <2>2. (h * (2 * k) + r) \div (2 * k) = h
    BY <1>2, <2>1, DivMod, Zenon
  <2> QED BY <1>3, <2>2 DEF r
<1>5. h = u <=> q = 2 * u \/ q = 2 * u + 1
  BY <1>2
<1> QED
  BY <1>4, <1>5 DEF q

-----------------------------------------------------------------------------
(* The cells of face f that texel (u, v) of its reduction to r stands for, *)
(* and how many they are.                                                  *)
InPart(f, r, u, v, j) ==
  LET x == R!Col(f.res, j)
      y == R!Row(f.res, j)
      ku == R!Side(f.res.u - r.u)
      kv == R!Side(f.res.v - r.v)
  IN  IF f.mesh = "quad" THEN x \div ku = u /\ y \div kv = v
      ELSE CellIn(x, y, R!Width(f.res), u, v, R!Width(r), ku)

Under(f, r, u, v) == {j \in DOMAIN f.values : InPart(f, r, u, v, j)}

Cells(f, r) == R!Side(f.res.u - r.u) * R!Side(f.res.v - r.v)

Quarters(f) == IF f.mesh = "quad" THEN 2 ELSE 3

FaceOK(f) ==
  /\ f.mesh \in {"quad", "triangle"}
  /\ f.res \in [u : Nat, v : Nat]
  /\ f.values \in Seq(Nat) /\ Len(f.values) = R!Width(f.res) * R!Height(f.res)
  /\ f.mesh = "triangle" => f.res.u = f.res.v

Reached(f, r) ==
  /\ r \in [u : 0..f.res.u, v : 0..f.res.v]
  /\ f.mesh = "triangle" => r.u = r.v

Us2(r) == 0..(R!Width(r) - 1)
Vs2(r) == 0..(R!Height(r) - 1)

(* The texels t of a reduction to r are means of their own parts. *)
AllMeans(f, r, t, rounded) ==
  /\ t = [j \in R!Places(r) |-> t[j]]
  /\ \A u \in Us2(r), v \in Vs2(r) :
       Means(t[v * R!Width(r) + u + 1], f.values, Under(f, r, u, v), Cells(f, r),
             rounded, Quarters(f))

ReduceInv ==
  /\ FaceOK(face) /\ Reached(face, res) /\ steps \in Nat
  /\ AllMeans(face, res, texels, steps)

LEMMA SidesAre ==
  ASSUME NEW r, r.u \in Nat, r.v \in Nat
  PROVE  R!Width(r) \in Nat \ {0} /\ R!Height(r) \in Nat \ {0}
BY SideIs DEF R!Width, R!Height

(* A buffer's place for a texel, and a place's texel. *)
LEMMA PlaceAt ==
  ASSUME NEW r, r.u \in Nat, r.v \in Nat, NEW u \in Us2(r), NEW v \in Vs2(r)
  PROVE  LET j == v * R!Width(r) + u + 1
         IN  j \in R!Places(r) /\ R!Col(r, j) = u /\ R!Row(r, j) = v
<1> DEFINE W == R!Width(r)
           H == R!Height(r)
<1>1. W \in Nat /\ H \in Nat
  BY SidesAre
<1>2. u \in 0..(W - 1) /\ v \in 0..(H - 1)
  BY DEF Us2, Vs2
<1> HIDE DEF W, H
<1>3. /\ v * W + u + 1 \in 1..(W * H)
      /\ ((v * W + u + 1) - 1) % W = u /\ ((v * W + u + 1) - 1) \div W = v
  BY <1>1, <1>2, PlaceOfTexel
<1> QED
  BY <1>3 DEF W, H, R!Places, R!Col, R!Row

LEMMA TexelAtPlace ==
  ASSUME NEW r, r.u \in Nat, r.v \in Nat, NEW j \in R!Places(r)
  PROVE  /\ R!Col(r, j) \in Us2(r) /\ R!Row(r, j) \in Vs2(r)
         /\ R!Row(r, j) * R!Width(r) + R!Col(r, j) + 1 = j
<1> DEFINE W == R!Width(r)
           H == R!Height(r)
<1>1. W \in Nat /\ H \in Nat /\ j \in 1..(W * H)
  BY SidesAre DEF R!Places
<1> HIDE DEF W, H
<1>2. LET u == (j - 1) % W  v == (j - 1) \div W
      IN  u \in 0..(W - 1) /\ v \in 0..(H - 1) /\ v * W + u + 1 = j
  BY <1>1, TexelOfPlace, Zenon
<1> QED
  BY <1>2 DEF W, H, R!Col, R!Row, Us2, Vs2

(* The column and the row of a cell of a face. *)
LEMMA CellAt ==
  ASSUME NEW f, FaceOK(f), NEW j \in DOMAIN f.values
  PROVE  /\ j \in R!Places(f.res)
         /\ R!Col(f.res, j) \in 0..(R!Width(f.res) - 1) /\ R!Row(f.res, j) \in 0..(R!Height(f.res) - 1)
         /\ R!Col(f.res, j) \in Nat /\ R!Row(f.res, j) \in Nat
<1>1. j \in R!Places(f.res)
  BY LenProperties DEF FaceOK, R!Places
<1>2. R!Col(f.res, j) \in Us2(f.res) /\ R!Row(f.res, j) \in Vs2(f.res)
  BY <1>1, TexelAtPlace DEF FaceOK
<1> QED
  BY <1>1, <1>2 DEF Us2, Vs2

-----------------------------------------------------------------------------
(* Before any reduction a texel stands for its own cell. *)
LEMMA OwnCells ==
  ASSUME NEW f, FaceOK(f), NEW u \in Us2(f.res), NEW v \in Vs2(f.res)
  PROVE  Under(f, f.res, u, v) = {v * R!Width(f.res) + u + 1}
<1> DEFINE W == R!Width(f.res)
           place == v * W + u + 1
<1>0. /\ f.res.u \in Nat /\ f.res.v \in Nat /\ f.mesh \in {"quad", "triangle"}
      /\ f.mesh = "triangle" => f.res.u = f.res.v
  BY DEF FaceOK
<1>1. /\ place \in R!Places(f.res) /\ R!Col(f.res, place) = u /\ R!Row(f.res, place) = v
      /\ DOMAIN f.values = R!Places(f.res)
  BY <1>0, PlaceAt, LenProperties DEF FaceOK, R!Places
<1>2. W \in Nat \ {0} /\ u \in 0..(W - 1) /\ v \in 0..(R!Height(f.res) - 1) /\ u \in Nat /\ v \in Nat
  BY <1>0, SidesAre DEF Us2, Vs2
<1>3. R!Side(f.res.u - f.res.u) = 1 /\ R!Side(f.res.v - f.res.v) = 1
  BY <1>0, SideIs
<1>4. ASSUME NEW j \in DOMAIN f.values
      PROVE  InPart(f, f.res, u, v, j) <=> j = place
  <2> DEFINE x == R!Col(f.res, j)
             y == R!Row(f.res, j)
  <2>1. /\ x \in 0..(W - 1) /\ y \in 0..(R!Height(f.res) - 1) /\ x \in Nat /\ y \in Nat
        /\ j \in R!Places(f.res)
    BY CellAt
  <2>2. y * W + x + 1 = j
    BY <1>0, <2>1, TexelAtPlace
  <2> HIDE DEF x, y, W
  <2>3. j = place <=> x = u /\ y = v
    <3>1. j = place => x = u /\ y = v
      BY <1>1 DEF x, y
    <3>2. x = u /\ y = v => j = place
      BY <2>2
    <3> QED BY <3>1, <3>2
  <2>4. CASE f.mesh = "quad"
    <3>1. InPart(f, f.res, u, v, j) <=> x \div 1 = u /\ y \div 1 = v
      BY <1>3, <2>4 DEF InPart, x, y
    <3>2. x \div 1 = x /\ y \div 1 = y
      BY <2>1
    <3> QED BY <2>3, <3>1, <3>2
  <2>5. CASE f.mesh = "triangle"
    <3>1. R!Height(f.res) = W
      BY <1>0, <2>5 DEF R!Height, R!Width, W
    <3>2. InPart(f, f.res, u, v, j) <=> CellIn(x, y, W, u, v, W, 1)
      BY <1>3, <2>5 DEF InPart, x, y, W
    <3>3. /\ W \in Nat /\ u \in 0..(W - 1) /\ v \in 0..(W - 1)
          /\ x \in 0..(W - 1) /\ y \in 0..(W - 1)
      BY <1>2, <2>1, <3>1
    <3>4. CellIn(x, y, W, u, v, W, 1) <=> x = u /\ y = v
      BY <3>3, OwnCell
    <3> QED BY <2>3, <3>2, <3>4
  <2> QED BY <1>0, <2>4, <2>5
<1> QED
  BY <1>1, <1>4 DEF Under

(* The sum over one cell is its value. *)
LEMMA SumOfOne ==
  ASSUME NEW values \in Seq(Nat), NEW c \in 1..Len(values)
  PROVE  R!SumOver(values, {c}) = values[c] /\ values[c] \in Nat
<1>0. Len(values) \in Nat /\ \A j \in 1..Len(values) : values[j] \in Nat
  BY LenProperties, ElementOfSeq
<1>1. PICK s : Sums(s, values, {c}) /\ R!SumOver(values, {c}) = s[Len(values)]
  BY SumRun
<1> DEFINE A == {n \in Nat : n <= Len(values) => s[n] = IF n < c THEN 0 ELSE values[c]}
<1>2. 0 \in A
  BY <1>0, <1>1 DEF Sums
<1>3. ASSUME NEW n \in Nat, n \in A PROVE n + 1 \in A
  <2> SUFFICES ASSUME n + 1 <= Len(values)
               PROVE  s[n + 1] = IF n + 1 < c THEN 0 ELSE values[c]
    OBVIOUS
  <2> DEFINE m == n + 1
  <2>1. m \in 0..Len(values) /\ m # 0 /\ m - 1 = n /\ values[c] \in Nat
    BY <1>0
  <2>2. s[n] = IF n < c THEN 0 ELSE values[c]
    BY <1>0, <1>3
  <2> HIDE DEF m
  <2>3. s[m] = s[n] + (IF m = c THEN values[m] ELSE 0)
    BY <1>1, <2>1 DEF Sums
  <2>4. s[m] = IF m < c THEN 0 ELSE values[c]
    <3>1. CASE m = c
      <4>1. n < c /\ ~(m < c)
        BY <2>1, <3>1
      <4> QED BY <2>1, <2>2, <2>3, <3>1, <4>1
    <3>2. CASE m # c
      <4>1. n < c <=> m < c
        BY <2>1, <3>2
      <4> QED BY <2>1, <2>2, <2>3, <3>2, <4>1
    <3> QED BY <3>1, <3>2
  <2> QED BY <2>4 DEF m
<1>4. Nat \subseteq A
  <2> HIDE DEF A
  <2> QED BY <1>2, <1>3, NatSetInduction
<1> QED
  BY <1>0, <1>1, <1>4

LEMMA CellsAre ==
  ASSUME NEW f, FaceOK(f), NEW r, Reached(f, r)
  PROVE  Cells(f, r) \in Nat /\ R!Side(f.res.u - r.u) \in Nat /\ R!Side(f.res.v - r.v) \in Nat
<1>1. f.res.u - r.u \in Nat /\ f.res.v - r.v \in Nat
  BY DEF FaceOK, Reached
<1>2. R!Side(f.res.u - r.u) \in Nat /\ R!Side(f.res.v - r.v) \in Nat
  BY <1>1, SideIs
<1> QED
  BY <1>2 DEF Cells

LEMMA GivenMeans ==
  ASSUME NEW f, FaceOK(f)
  PROVE  /\ Reached(f, f.res)
         /\ AllMeans(f, f.res,
                     [j \in DOMAIN f.values |-> [value |-> f.values[j], cells |-> {j}, uses |-> 1]],
                     0)
<1> DEFINE t == [j \in DOMAIN f.values |-> [value |-> f.values[j], cells |-> {j}, uses |-> 1]]
<1>1. Reached(f, f.res)
  BY DEF FaceOK, Reached
<1>2. DOMAIN f.values = R!Places(f.res) /\ DOMAIN f.values = 1..Len(f.values)
  BY LenProperties DEF FaceOK, R!Places
<1>3. Cells(f, f.res) = 1
  <2>1. f.res.u - f.res.u = 0 /\ f.res.v - f.res.v = 0
    BY DEF FaceOK
  <2> QED BY <2>1, SideIs DEF Cells
<1>4. ASSUME NEW u \in Us2(f.res), NEW v \in Vs2(f.res)
      PROVE  Means(t[v * R!Width(f.res) + u + 1], f.values, Under(f, f.res, u, v), Cells(f, f.res),
                   0, Quarters(f))
  <2> DEFINE j == v * R!Width(f.res) + u + 1
             q == Quarters(f)
             sum == R!SumOver(f.values, {j})
  <2>1. Under(f, f.res, u, v) = {j}
    BY OwnCells
  <2>2. j \in DOMAIN f.values
    BY <1>2, PlaceAt DEF FaceOK
  <2>3. q \in Nat
    BY DEF Quarters
  <2> HIDE DEF j, q
  <2>4. t[j].value = f.values[j] /\ t[j].cells = {j} /\ t[j].uses = 1
    BY <2>2
  <2>5. sum = f.values[j] /\ f.values[j] \in Nat
    BY <1>2, <2>2, SumOfOne DEF FaceOK
  <2>6. IsFiniteSet({j}) /\ Cardinality({j}) = 1
    BY FS_Singleton, Zenon
  <2> HIDE DEF sum
  <2>7. /\ 0 <= 4 * sum - 4 * 1 * t[j].value /\ 4 * sum - 4 * 1 * t[j].value <= 0 * 1 * q
        /\ t[j].value \in Nat /\ 1 \in Nat
    BY <2>3, <2>4, <2>5
  <2>8. Means(t[j], f.values, {j}, 1, 0, q)
    BY <2>4, <2>6, <2>7, Zenon DEF Means, sum
  <2> QED BY <1>3, <2>1, <2>8 DEF j, q
<1>5. t = [j \in R!Places(f.res) |-> t[j]]
  BY <1>2
<1> HIDE DEF t
<1>6. AllMeans(f, f.res, t, 0)
  BY <1>4, <1>5, Zenon DEF AllMeans
<1> QED
  BY <1>1, <1>6 DEF t

-----------------------------------------------------------------------------
(* A texel's part is that of the two, or four, it is reduced from.         *)
LEMMA OneLess ==
  ASSUME NEW a \in Nat, NEW b \in 0..a, b > 0
  PROVE  /\ b - 1 \in 0..a
         /\ R!Side(b) = 2 * R!Side(b - 1)
         /\ R!Side(a - (b - 1)) = 2 * R!Side(a - b)
         /\ R!Side(b - 1) \in Nat \ {0} /\ R!Side(a - b) \in Nat \ {0}
<1>1. b - 1 \in Nat /\ (b - 1) + 1 = b /\ a - b \in Nat /\ (a - b) + 1 = a - (b - 1)
  OBVIOUS
<1>2. R!Side(b) = 2 * R!Side(b - 1)
  BY <1>1, SideIs
<1>3. R!Side(a - (b - 1)) = 2 * R!Side(a - b)
  BY <1>1, SideIs
<1> QED
  BY <1>1, <1>2, <1>3, SideIs

SplitInTwo(f, whole, one, other) ==
  /\ \A j \in DOMAIN f.values : j \in whole <=> j \in one \/ j \in other
  /\ whole \subseteq DOMAIN f.values
  /\ one \subseteq DOMAIN f.values
  /\ other \subseteq DOMAIN f.values
  /\ \A j \in DOMAIN f.values : ~(j \in one /\ j \in other)

LEMMA SplitIs ==
  ASSUME NEW f, NEW whole, NEW one, NEW other, SplitInTwo(f, whole, one, other)
  PROVE  whole = one \cup other /\ one \cap other = {}
BY DEF SplitInTwo

LEMMA SplitInU ==
  ASSUME NEW f, FaceOK(f), NEW r, Reached(f, r), f.mesh = "quad", r.u > 0,
         NEW dst, dst = [r EXCEPT !.u = @ - 1],
         NEW u \in Us2(dst), NEW v \in Vs2(dst)
  PROVE  /\ 2 * u \in Us2(r) /\ 2 * u + 1 \in Us2(r) /\ v \in Vs2(r)
         /\ SplitInTwo(f, Under(f, dst, u, v), Under(f, r, 2 * u, v), Under(f, r, 2 * u + 1, v))
<1> DEFINE k == R!Side(f.res.u - r.u)
<1>1. /\ dst.u = r.u - 1 /\ dst.v = r.v /\ f.res.u \in Nat /\ r.u \in 0..f.res.u
  BY DEF FaceOK, Reached
<1>2. /\ R!Side(r.u) = 2 * R!Side(dst.u) /\ R!Side(f.res.u - dst.u) = 2 * k
      /\ R!Side(dst.u) \in Nat \ {0} /\ k \in Nat \ {0}
  BY <1>1, OneLess
<1>3. u \in 0..(R!Side(dst.u) - 1) /\ u \in Nat
  BY <1>2 DEF Us2, R!Width
<1>4. 2 * u \in Us2(r) /\ 2 * u + 1 \in Us2(r) /\ v \in Vs2(r)
  BY <1>1, <1>2, <1>3 DEF Us2, Vs2, R!Width, R!Height
<1>5. ASSUME NEW j \in DOMAIN f.values
      PROVE  /\ InPart(f, dst, u, v, j) <=>
                   InPart(f, r, 2 * u, v, j) \/ InPart(f, r, 2 * u + 1, v, j)
             /\ ~(InPart(f, r, 2 * u, v, j) /\ InPart(f, r, 2 * u + 1, v, j))
  <2> DEFINE x == R!Col(f.res, j)
             y == R!Row(f.res, j)
             kv == R!Side(f.res.v - r.v)
  <2>1. x \in Nat
    BY CellAt
  <2>2. /\ InPart(f, dst, u, v, j) <=> x \div (2 * k) = u /\ y \div kv = v
        /\ InPart(f, r, 2 * u, v, j) <=> x \div k = 2 * u /\ y \div kv = v
        /\ InPart(f, r, 2 * u + 1, v, j) <=> x \div k = 2 * u + 1 /\ y \div kv = v
    BY <1>1, <1>2 DEF InPart
  <2> HIDE DEF x, y, k, kv
  <2>3. x \div (2 * k) = u <=> x \div k = 2 * u \/ x \div k = 2 * u + 1
    BY <1>2, <1>3, <2>1, HalvesOf
  <2>4. ~(x \div k = 2 * u /\ x \div k = 2 * u + 1)
    <3>1. 2 * u # 2 * u + 1
      BY <1>3
    <3> QED BY <3>1
  <2> QED BY <2>2, <2>3, <2>4
<1> QED
  BY <1>4, <1>5 DEF Under, SplitInTwo

LEMMA SplitInV ==
  ASSUME NEW f, FaceOK(f), NEW r, Reached(f, r), f.mesh = "quad", r.v > 0,
         NEW dst, dst = [r EXCEPT !.v = @ - 1],
         NEW u \in Us2(dst), NEW v \in Vs2(dst)
  PROVE  /\ u \in Us2(r) /\ 2 * v \in Vs2(r) /\ 2 * v + 1 \in Vs2(r)
         /\ SplitInTwo(f, Under(f, dst, u, v), Under(f, r, u, 2 * v), Under(f, r, u, 2 * v + 1))
<1> DEFINE k == R!Side(f.res.v - r.v)
<1>1. /\ dst.v = r.v - 1 /\ dst.u = r.u /\ f.res.v \in Nat /\ r.v \in 0..f.res.v
  BY DEF FaceOK, Reached
<1>2. /\ R!Side(r.v) = 2 * R!Side(dst.v) /\ R!Side(f.res.v - dst.v) = 2 * k
      /\ R!Side(dst.v) \in Nat \ {0} /\ k \in Nat \ {0}
  BY <1>1, OneLess
<1>3. v \in 0..(R!Side(dst.v) - 1) /\ v \in Nat
  BY <1>2 DEF Vs2, R!Height
<1>4. 2 * v \in Vs2(r) /\ 2 * v + 1 \in Vs2(r) /\ u \in Us2(r)
  BY <1>1, <1>2, <1>3 DEF Us2, Vs2, R!Width, R!Height
<1>5. ASSUME NEW j \in DOMAIN f.values
      PROVE  /\ InPart(f, dst, u, v, j) <=>
                   InPart(f, r, u, 2 * v, j) \/ InPart(f, r, u, 2 * v + 1, j)
             /\ ~(InPart(f, r, u, 2 * v, j) /\ InPart(f, r, u, 2 * v + 1, j))
  <2> DEFINE x == R!Col(f.res, j)
             y == R!Row(f.res, j)
             ku == R!Side(f.res.u - r.u)
  <2>1. y \in Nat
    BY CellAt
  <2>2. /\ InPart(f, dst, u, v, j) <=> x \div ku = u /\ y \div (2 * k) = v
        /\ InPart(f, r, u, 2 * v, j) <=> x \div ku = u /\ y \div k = 2 * v
        /\ InPart(f, r, u, 2 * v + 1, j) <=> x \div ku = u /\ y \div k = 2 * v + 1
    BY <1>1, <1>2 DEF InPart
  <2> HIDE DEF x, y, k, ku
  <2>3. y \div (2 * k) = v <=> y \div k = 2 * v \/ y \div k = 2 * v + 1
    BY <1>2, <1>3, <2>1, HalvesOf
  <2>4. ~(y \div k = 2 * v /\ y \div k = 2 * v + 1)
    <3>1. 2 * v # 2 * v + 1
      BY <1>3
    <3> QED BY <3>1
  <2> QED BY <2>2, <2>3, <2>4
<1> QED
  BY <1>4, <1>5 DEF Under, SplitInTwo

(* The column and the row of the mirrored texel. *)
MirrorU(r, v) == R!Width(r) - 1 - 2 * v
MirrorV(r, u) == R!Width(r) - 1 - 2 * u

SplitInFour(f, whole, c1, c2, c3, c4) ==
  /\ \A j \in DOMAIN f.values : j \in whole <=> j \in c1 \/ j \in c2 \/ j \in c3 \/ j \in c4
  /\ whole \subseteq DOMAIN f.values
  /\ c1 \subseteq DOMAIN f.values /\ c2 \subseteq DOMAIN f.values
  /\ c3 \subseteq DOMAIN f.values /\ c4 \subseteq DOMAIN f.values
  /\ \A j \in DOMAIN f.values :
       /\ ~(j \in c1 /\ j \in c2) /\ ~(j \in c1 /\ j \in c3) /\ ~(j \in c1 /\ j \in c4)
       /\ ~(j \in c2 /\ j \in c3) /\ ~(j \in c2 /\ j \in c4) /\ ~(j \in c3 /\ j \in c4)

LEMMA FourAre ==
  ASSUME NEW f, NEW whole, NEW c1, NEW c2, NEW c3, NEW c4,
         SplitInFour(f, whole, c1, c2, c3, c4)
  PROVE  /\ whole = c1 \cup c2 \cup c3 \cup c4
         /\ c1 \cap c2 = {} /\ (c1 \cup c2) \cap c3 = {} /\ (c1 \cup c2 \cup c3) \cap c4 = {}
<1>1. whole = c1 \cup c2 \cup c3 \cup c4
  BY DEF SplitInFour
<1>2. c1 \cap c2 = {}
  BY DEF SplitInFour
<1>3. (c1 \cup c2) \cap c3 = {}
  BY DEF SplitInFour
<1>4. (c1 \cup c2 \cup c3) \cap c4 = {}
  BY DEF SplitInFour
<1> QED
  BY <1>1, <1>2, <1>3, <1>4, Zenon

LEMMA CellInQuarters ==
  ASSUME NEW x \in Int, NEW y \in Int, NEW side \in Int, NEW w \in Nat,
         NEW u \in 0..(w - 1), NEW v \in 0..(w - 1), NEW k \in Nat \ {0}
  PROVE  LET q1 == CellIn(x, y, side, 2 * u, 2 * v, 2 * w, k)
             q2 == CellIn(x, y, side, 2 * u + 1, 2 * v, 2 * w, k)
             q3 == CellIn(x, y, side, 2 * u, 2 * v + 1, 2 * w, k)
             q4 == CellIn(x, y, side, 2 * w - 1 - 2 * v, 2 * w - 1 - 2 * u, 2 * w, k)
         IN  /\ CellIn(x, y, side, u, v, w, 2 * k) <=> q1 \/ q2 \/ q3 \/ q4
             /\ ~(q1 /\ q2) /\ ~(q1 /\ q3) /\ ~(q1 /\ q4)
             /\ ~(q2 /\ q3) /\ ~(q2 /\ q4) /\ ~(q3 /\ q4)
<1> DEFINE a == IF x + y < side THEN x ELSE side - y
           b == IF x + y < side THEN y ELSE side - x
           s == IF x + y < side THEN 1 ELSE -1
<1>1. a \in Int /\ b \in Int /\ s \in {1, -1}
  OBVIOUS
<1>2. ASSUME NEW cu, NEW cv, NEW cw, NEW ck
      PROVE  CellIn(x, y, side, cu, cv, cw, ck) <=> Corners3(a, b, s, cu, cv, cw, ck)
  <2>1. CellIn(x, y, side, cu, cv, cw, ck) <=>
          IF x + y < side THEN Corners3(x, y, 1, cu, cv, cw, ck)
          ELSE Corners3(side - y, side - x, -1, cu, cv, cw, ck)
    BY CornersAre, Zenon DEF CellIn
  <2> QED BY <2>1
<1> HIDE DEF a, b, s
<1>3. LET q1 == Quarter1(a, b, s, u, v, w, k)
          q2 == Quarter2(a, b, s, u, v, w, k)
          q3 == Quarter3(a, b, s, u, v, w, k)
          q4 == Quarter4(a, b, s, u, v, w, k)
      IN  /\ Corners3(a, b, s, u, v, w, 2 * k) <=> q1 \/ q2 \/ q3 \/ q4
          /\ ~(q1 /\ q2) /\ ~(q1 /\ q3) /\ ~(q1 /\ q4)
          /\ ~(q2 /\ q3) /\ ~(q2 /\ q4) /\ ~(q3 /\ q4)
  <2>1. CASE u + v < w
    BY <1>1, <2>1, QuartersOfUpright, Zenon
  <2>2. CASE ~(u + v < w)
    BY <1>1, <2>2, QuartersOfInverted, Zenon
  <2> QED BY <2>1, <2>2
<1> QED
  BY <1>2, <1>3, Zenon DEF Quarter1, Quarter2, Quarter3, Quarter4

LEMMA SplitInTri ==
  ASSUME NEW f, FaceOK(f), NEW r, Reached(f, r), f.mesh = "triangle", r.u > 0,
         NEW dst, dst = [u |-> r.u - 1, v |-> r.v - 1],
         NEW u \in Us2(dst), NEW v \in Vs2(dst)
  PROVE  /\ 2 * u \in Us2(r) /\ 2 * u + 1 \in Us2(r) /\ 2 * v \in Vs2(r) /\ 2 * v + 1 \in Vs2(r)
         /\ MirrorU(r, v) \in Us2(r) /\ MirrorV(r, u) \in Vs2(r)
         /\ SplitInFour(f, Under(f, dst, u, v),
                        Under(f, r, 2 * u, 2 * v), Under(f, r, 2 * u + 1, 2 * v),
                        Under(f, r, 2 * u, 2 * v + 1), Under(f, r, MirrorU(r, v), MirrorV(r, u)))
<1> DEFINE k == R!Side(f.res.u - r.u)
           w == R!Side(dst.u)
<1>1. /\ dst.u = r.u - 1 /\ dst.v = dst.u /\ r.v = r.u
      /\ f.res.u \in Nat /\ r.u \in 0..f.res.u
  BY DEF FaceOK, Reached
<1>2. /\ R!Side(r.u) = 2 * w /\ R!Side(f.res.u - dst.u) = 2 * k
      /\ w \in Nat /\ k \in Nat \ {0}
  BY <1>1, OneLess
<1>3. /\ u \in 0..(w - 1) /\ v \in 0..(w - 1)
      /\ R!Width(r) = 2 * w /\ R!Height(r) = 2 * w /\ R!Width(dst) = w
  BY <1>1, <1>2 DEF Us2, Vs2, R!Width, R!Height
<1> HIDE DEF w
<1>4. /\ 2 * u \in Us2(r) /\ 2 * u + 1 \in Us2(r) /\ 2 * v \in Vs2(r) /\ 2 * v + 1 \in Vs2(r)
      /\ MirrorU(r, v) \in Us2(r) /\ MirrorV(r, u) \in Vs2(r)
  BY <1>2, <1>3 DEF Us2, Vs2, MirrorU, MirrorV
<1>5. ASSUME NEW j \in DOMAIN f.values
      PROVE  LET q1 == InPart(f, r, 2 * u, 2 * v, j)
                 q2 == InPart(f, r, 2 * u + 1, 2 * v, j)
                 q3 == InPart(f, r, 2 * u, 2 * v + 1, j)
                 q4 == InPart(f, r, MirrorU(r, v), MirrorV(r, u), j)
             IN  /\ InPart(f, dst, u, v, j) <=> q1 \/ q2 \/ q3 \/ q4
                 /\ ~(q1 /\ q2) /\ ~(q1 /\ q3) /\ ~(q1 /\ q4)
                 /\ ~(q2 /\ q3) /\ ~(q2 /\ q4) /\ ~(q3 /\ q4)
  <2> DEFINE x == R!Col(f.res, j)
             y == R!Row(f.res, j)
             side == R!Width(f.res)
  <2>1. x \in Int /\ y \in Int /\ side \in Int
    <3>1. x \in Nat /\ y \in Nat
      BY CellAt
    <3>2. side \in Nat
      BY SidesAre DEF FaceOK
    <3> QED BY <3>1, <3>2
  <2>2. /\ InPart(f, dst, u, v, j) <=> CellIn(x, y, side, u, v, w, 2 * k)
        /\ \A cu, cv : InPart(f, r, cu, cv, j) <=> CellIn(x, y, side, cu, cv, 2 * w, k)
    BY <1>2, <1>3 DEF InPart
  <2>3. MirrorU(r, v) = 2 * w - 1 - 2 * v /\ MirrorV(r, u) = 2 * w - 1 - 2 * u
    BY <1>3 DEF MirrorU, MirrorV
  <2> HIDE DEF x, y, side, k
  <2>4. LET q1 == CellIn(x, y, side, 2 * u, 2 * v, 2 * w, k)
            q2 == CellIn(x, y, side, 2 * u + 1, 2 * v, 2 * w, k)
            q3 == CellIn(x, y, side, 2 * u, 2 * v + 1, 2 * w, k)
            q4 == CellIn(x, y, side, 2 * w - 1 - 2 * v, 2 * w - 1 - 2 * u, 2 * w, k)
        IN  /\ CellIn(x, y, side, u, v, w, 2 * k) <=> q1 \/ q2 \/ q3 \/ q4
            /\ ~(q1 /\ q2) /\ ~(q1 /\ q3) /\ ~(q1 /\ q4)
            /\ ~(q2 /\ q3) /\ ~(q2 /\ q4) /\ ~(q3 /\ q4)
    <3>1. w \in Nat /\ k \in Nat \ {0} /\ u \in 0..(w - 1) /\ v \in 0..(w - 1)
      BY <1>2, <1>3
    <3> QED BY <2>1, <3>1, CellInQuarters
  <2> QED BY <2>2, <2>3, <2>4, Zenon
<1> QED
  BY <1>4, <1>5, Zenon DEF Under, SplitInFour

-----------------------------------------------------------------------------
(* Every reduction keeps the texels the means of their parts. *)
LEMMA ReduceUMeans ==
  ASSUME ReduceInv, R!ReduceU
  PROVE  ReduceInv'
<1> DEFINE dst == [res EXCEPT !.u = @ - 1]
           t == [j \in R!Places(dst) |->
                   R!Halved(R!At(2 * R!Col(dst, j), R!Row(dst, j)),
                            R!At(2 * R!Col(dst, j) + 1, R!Row(dst, j)))]
<1>1. /\ face.mesh = "quad" /\ res.u > 0
      /\ texels' = t /\ res' = dst /\ steps' = steps + 1 /\ face' = face
  BY DEF R!ReduceU, R!ReduceStep
<1>2. /\ FaceOK(face) /\ Reached(face, res) /\ steps \in Nat
      /\ AllMeans(face, res, texels, steps)
      /\ face.values \in Seq(Nat)
  BY DEF ReduceInv, FaceOK
<1>3. /\ Reached(face, dst) /\ dst.u \in Nat /\ dst.v \in Nat
      /\ res.u \in 0..face.res.u /\ face.res.u \in Nat /\ dst.u = res.u - 1 /\ dst.v = res.v
  BY <1>1, <1>2 DEF FaceOK, Reached
<1>4. Cells(face, dst) = 2 * Cells(face, res)
  <2> DEFINE a == R!Side(face.res.u - res.u)
             b == R!Side(face.res.v - res.v)
  <2>1. a \in Nat /\ b \in Nat
    BY <1>2, CellsAre
  <2>2. R!Side(face.res.u - dst.u) = 2 * a
    BY <1>1, <1>3, OneLess
  <2>3. Cells(face, dst) = (2 * a) * b /\ Cells(face, res) = a * b
    BY <1>3, <2>2 DEF Cells
  <2> HIDE DEF a, b
  <2> QED BY <2>1, <2>3
<1>5. Quarters(face) = 2
  BY <1>1 DEF Quarters
<1>6. ASSUME NEW u \in Us2(dst), NEW v \in Vs2(dst)
      PROVE  Means(t[v * R!Width(dst) + u + 1], face.values, Under(face, dst, u, v),
                   Cells(face, dst), steps + 1, Quarters(face))
  <2> DEFINE j == v * R!Width(dst) + u + 1
             one == R!At(2 * u, v)
             other == R!At(2 * u + 1, v)
             c == Under(face, res, 2 * u, v)
             d == Under(face, res, 2 * u + 1, v)
  <2>1. j \in R!Places(dst) /\ R!Col(dst, j) = u /\ R!Row(dst, j) = v
    BY <1>3, PlaceAt
  <2>2. t[j] = R!Halved(one, other)
    BY <2>1
  <2>3. /\ 2 * u \in Us2(res) /\ 2 * u + 1 \in Us2(res) /\ v \in Vs2(res)
        /\ SplitInTwo(face, Under(face, dst, u, v), c, d)
    BY <1>1, <1>2, SplitInU
  <2>4. Under(face, dst, u, v) = c \cup d /\ c \cap d = {}
    <3> HIDE DEF c, d
    <3> QED BY <2>3, SplitIs
  <2>5. /\ Means(one, face.values, c, Cells(face, res), steps, 2)
        /\ Means(other, face.values, d, Cells(face, res), steps, 2)
    BY <1>2, <1>5, <2>3 DEF AllMeans, R!At
  <2> HIDE DEF one, other, c, d, j, t
  <2>6. Means(R!Halved(one, other), face.values, c \cup d, 2 * Cells(face, res), steps + 1, 2)
    BY <1>2, <2>4, <2>5, HalvedMeans, Zenon
  <2>7. Means(t[j], face.values, Under(face, dst, u, v), Cells(face, dst), steps + 1, Quarters(face))
    BY <1>4, <1>5, <2>2, <2>4, <2>6, Zenon
  <2> QED BY <2>7 DEF j
<1>7. t = [j \in R!Places(dst) |-> t[j]]
  OBVIOUS
<1> HIDE DEF t, dst
<1>8. AllMeans(face, dst, t, steps + 1)
  BY <1>6, <1>7, Zenon DEF AllMeans
<1>9. steps + 1 \in Nat
  BY <1>2
<1>10. FaceOK(face') /\ Reached(face', res') /\ AllMeans(face', res', texels', steps') /\ steps' \in Nat
  BY <1>1, <1>2, <1>3, <1>8, <1>9, Zenon
<1> QED
  BY <1>10 DEF ReduceInv, FaceOK, Reached, AllMeans, Us2, Vs2, Means, Under, InPart, Cells, Quarters,
             CellIn

LEMMA ReduceVMeans ==
  ASSUME ReduceInv, R!ReduceV
  PROVE  ReduceInv'
<1> DEFINE dst == [res EXCEPT !.v = @ - 1]
           t == [j \in R!Places(dst) |->
                   R!Halved(R!At(R!Col(dst, j), 2 * R!Row(dst, j)),
                            R!At(R!Col(dst, j), 2 * R!Row(dst, j) + 1))]
<1>1. /\ face.mesh = "quad" /\ res.v > 0
      /\ texels' = t /\ res' = dst /\ steps' = steps + 1 /\ face' = face
  BY DEF R!ReduceV, R!ReduceStep
<1>2. /\ FaceOK(face) /\ Reached(face, res) /\ steps \in Nat
      /\ AllMeans(face, res, texels, steps)
      /\ face.values \in Seq(Nat)
  BY DEF ReduceInv, FaceOK
<1>3. /\ Reached(face, dst) /\ dst.u \in Nat /\ dst.v \in Nat
      /\ res.v \in 0..face.res.v /\ face.res.v \in Nat /\ dst.v = res.v - 1 /\ dst.u = res.u
  BY <1>1, <1>2 DEF FaceOK, Reached
<1>4. Cells(face, dst) = 2 * Cells(face, res)
  <2> DEFINE a == R!Side(face.res.u - res.u)
             b == R!Side(face.res.v - res.v)
  <2>1. a \in Nat /\ b \in Nat
    BY <1>2, CellsAre
  <2>2. R!Side(face.res.v - dst.v) = 2 * b
    BY <1>1, <1>3, OneLess
  <2>3. Cells(face, dst) = a * (2 * b) /\ Cells(face, res) = a * b
    BY <1>3, <2>2 DEF Cells
  <2> HIDE DEF a, b
  <2> QED BY <2>1, <2>3
<1>5. Quarters(face) = 2
  BY <1>1 DEF Quarters
<1>6. ASSUME NEW u \in Us2(dst), NEW v \in Vs2(dst)
      PROVE  Means(t[v * R!Width(dst) + u + 1], face.values, Under(face, dst, u, v),
                   Cells(face, dst), steps + 1, Quarters(face))
  <2> DEFINE j == v * R!Width(dst) + u + 1
             one == R!At(u, 2 * v)
             other == R!At(u, 2 * v + 1)
             c == Under(face, res, u, 2 * v)
             d == Under(face, res, u, 2 * v + 1)
  <2>1. j \in R!Places(dst) /\ R!Col(dst, j) = u /\ R!Row(dst, j) = v
    BY <1>3, PlaceAt
  <2>2. t[j] = R!Halved(one, other)
    BY <2>1
  <2>3. /\ u \in Us2(res) /\ 2 * v \in Vs2(res) /\ 2 * v + 1 \in Vs2(res)
        /\ SplitInTwo(face, Under(face, dst, u, v), c, d)
    BY <1>1, <1>2, SplitInV
  <2>4. Under(face, dst, u, v) = c \cup d /\ c \cap d = {}
    <3> HIDE DEF c, d
    <3> QED BY <2>3, SplitIs
  <2>5. /\ Means(one, face.values, c, Cells(face, res), steps, 2)
        /\ Means(other, face.values, d, Cells(face, res), steps, 2)
    BY <1>2, <1>5, <2>3 DEF AllMeans, R!At
  <2> HIDE DEF one, other, c, d, j, t
  <2>6. Means(R!Halved(one, other), face.values, c \cup d, 2 * Cells(face, res), steps + 1, 2)
    BY <1>2, <2>4, <2>5, HalvedMeans, Zenon
  <2>7. Means(t[j], face.values, Under(face, dst, u, v), Cells(face, dst), steps + 1, Quarters(face))
    BY <1>4, <1>5, <2>2, <2>4, <2>6, Zenon
  <2> QED BY <2>7 DEF j
<1>7. t = [j \in R!Places(dst) |-> t[j]]
  OBVIOUS
<1> HIDE DEF t, dst
<1>8. AllMeans(face, dst, t, steps + 1)
  BY <1>6, <1>7, Zenon DEF AllMeans
<1>9. steps + 1 \in Nat
  BY <1>2
<1>10. FaceOK(face') /\ Reached(face', res') /\ AllMeans(face', res', texels', steps') /\ steps' \in Nat
  BY <1>1, <1>2, <1>3, <1>8, <1>9, Zenon
<1> QED
  BY <1>10 DEF ReduceInv, FaceOK, Reached, AllMeans, Us2, Vs2, Means, Under, InPart, Cells, Quarters,
             CellIn

LEMMA ReduceTriMeans ==
  ASSUME ReduceInv, R!ReduceTri
  PROVE  ReduceInv'
<1> DEFINE dst == [u |-> res.u - 1, v |-> res.v - 1]
           t == [j \in R!Places(dst) |->
                   R!Quartered(R!At(2 * R!Col(dst, j), 2 * R!Row(dst, j)),
                               R!At(2 * R!Col(dst, j) + 1, 2 * R!Row(dst, j)),
                               R!At(2 * R!Col(dst, j), 2 * R!Row(dst, j) + 1),
                               R!Mirror(R!Col(dst, j), R!Row(dst, j)))]
<1>1. /\ face.mesh = "triangle" /\ res.u > 0
      /\ texels' = t /\ res' = dst /\ steps' = steps + 1 /\ face' = face
  BY DEF R!ReduceTri, R!ReduceStep
<1>2. /\ FaceOK(face) /\ Reached(face, res) /\ steps \in Nat
      /\ AllMeans(face, res, texels, steps)
      /\ face.values \in Seq(Nat)
  BY DEF ReduceInv, FaceOK
<1>3. /\ Reached(face, dst) /\ dst.u \in Nat /\ dst.v \in Nat
      /\ res.u \in 0..face.res.u /\ face.res.u \in Nat /\ dst.u = res.u - 1
      /\ res.v = res.u /\ dst.v = dst.u /\ face.res.v = face.res.u
  BY <1>1, <1>2 DEF FaceOK, Reached
<1>4. Cells(face, dst) = 4 * Cells(face, res)
  <2> DEFINE a == R!Side(face.res.u - res.u)
  <2>1. a \in Nat
    BY <1>2, CellsAre
  <2>2. R!Side(face.res.u - dst.u) = 2 * a
    BY <1>1, <1>3, OneLess
  <2>3. Cells(face, dst) = (2 * a) * (2 * a) /\ Cells(face, res) = a * a
    BY <1>3, <2>2 DEF Cells
  <2> HIDE DEF a
  <2> QED BY <2>1, <2>3
<1>5. Quarters(face) = 3
  BY <1>1 DEF Quarters
<1>6. ASSUME NEW u \in Us2(dst), NEW v \in Vs2(dst)
      PROVE  Means(t[v * R!Width(dst) + u + 1], face.values, Under(face, dst, u, v),
                   Cells(face, dst), steps + 1, Quarters(face))
  <2> DEFINE j == v * R!Width(dst) + u + 1
             t1 == R!At(2 * u, 2 * v)
             t2 == R!At(2 * u + 1, 2 * v)
             t3 == R!At(2 * u, 2 * v + 1)
             t4 == R!Mirror(u, v)
             c1 == Under(face, res, 2 * u, 2 * v)
             c2 == Under(face, res, 2 * u + 1, 2 * v)
             c3 == Under(face, res, 2 * u, 2 * v + 1)
             c4 == Under(face, res, MirrorU(res, v), MirrorV(res, u))
  <2>1. j \in R!Places(dst) /\ R!Col(dst, j) = u /\ R!Row(dst, j) = v
    BY <1>3, PlaceAt
  <2>2. t[j] = R!Quartered(t1, t2, t3, t4)
    BY <2>1
  <2>3. /\ 2 * u \in Us2(res) /\ 2 * u + 1 \in Us2(res)
        /\ 2 * v \in Vs2(res) /\ 2 * v + 1 \in Vs2(res)
        /\ MirrorU(res, v) \in Us2(res) /\ MirrorV(res, u) \in Vs2(res)
        /\ SplitInFour(face, Under(face, dst, u, v), c1, c2, c3, c4)
    BY <1>1, <1>2, SplitInTri
  <2>4. /\ Under(face, dst, u, v) = c1 \cup c2 \cup c3 \cup c4
        /\ c1 \cap c2 = {} /\ (c1 \cup c2) \cap c3 = {} /\ (c1 \cup c2 \cup c3) \cap c4 = {}
    <3> HIDE DEF c1, c2, c3, c4
    <3> QED BY <2>3, FourAre
  <2>5. /\ Means(t1, face.values, c1, Cells(face, res), steps, 3)
        /\ Means(t2, face.values, c2, Cells(face, res), steps, 3)
        /\ Means(t3, face.values, c3, Cells(face, res), steps, 3)
    BY <1>2, <1>5, <2>3 DEF AllMeans, R!At
  <2>6. Means(t4, face.values, c4, Cells(face, res), steps, 3)
    <3>1. t4 = R!At(MirrorU(res, v), MirrorV(res, u))
      BY DEF R!Mirror, MirrorU, MirrorV
    <3> QED BY <1>2, <1>5, <2>3, <3>1 DEF AllMeans, R!At
  <2> HIDE DEF t1, t2, t3, t4, c1, c2, c3, c4, j, t
  <2>7. Means(R!Quartered(t1, t2, t3, t4), face.values, c1 \cup c2 \cup c3 \cup c4,
              4 * Cells(face, res), steps + 1, 3)
    BY <1>2, <2>4, <2>5, <2>6, QuarteredMeans, Zenon
  <2>8. Means(t[j], face.values, Under(face, dst, u, v), Cells(face, dst), steps + 1, Quarters(face))
    BY <1>4, <1>5, <2>2, <2>4, <2>7, Zenon
  <2> QED BY <2>8 DEF j
<1>7. t = [j \in R!Places(dst) |-> t[j]]
  OBVIOUS
<1> HIDE DEF t, dst
<1>8. AllMeans(face, dst, t, steps + 1)
  BY <1>6, <1>7, Zenon DEF AllMeans
<1>9. steps + 1 \in Nat
  BY <1>2
<1>10. FaceOK(face') /\ Reached(face', res') /\ AllMeans(face', res', texels', steps') /\ steps' \in Nat
  BY <1>1, <1>2, <1>3, <1>8, <1>9, Zenon
<1> QED
  BY <1>10 DEF ReduceInv, FaceOK, Reached, AllMeans, Us2, Vs2, Means, Under, InPart, Cells, Quarters,
             CellIn

LEMMA GivenIsOK ==
  ASSUME NEW f, FaceOK(f), R!Given(f)
  PROVE  ReduceInv'
<1> DEFINE t == [j \in DOMAIN f.values |-> [value |-> f.values[j], cells |-> {j}, uses |-> 1]]
<1>1. face' = f /\ res' = f.res /\ texels' = t /\ steps' = 0
  BY DEF R!Given
<1>2. Reached(f, f.res) /\ AllMeans(f, f.res, t, 0)
  BY GivenMeans
<1> HIDE DEF t
<1>3. FaceOK(face') /\ Reached(face', res') /\ AllMeans(face', res', texels', steps') /\ steps' \in Nat
  BY <1>1, <1>2
<1> QED
  BY <1>3 DEF ReduceInv, FaceOK, Reached, AllMeans, Us2, Vs2, Means, Under, InPart, Cells, Quarters,
             CellIn

LEMMA NextReduceInv ==
  ASSUME ReduceInv, R!Next \/ UNCHANGED reduction
  PROVE  ReduceInv'
<1>1. CASE UNCHANGED reduction
  <2>1. FaceOK(face') /\ Reached(face', res') /\ AllMeans(face', res', texels', steps') /\ steps' \in Nat
    <3>1. face' = face /\ res' = res /\ texels' = texels /\ steps' = steps
      BY <1>1 DEF reduction
    <3> QED BY <3>1, Zenon DEF ReduceInv
  <2> QED
    BY <2>1 DEF ReduceInv, FaceOK, Reached, AllMeans, Us2, Vs2, Means, Under, InPart, Cells, Quarters,
               CellIn
<1> QED
  BY <1>1, ReduceUMeans, ReduceVMeans, ReduceTriMeans DEF R!Next

LEMMA InitReduceInv == FaceInit => ReduceInv
<1> SUFFICES ASSUME FaceInit PROVE ReduceInv
  OBVIOUS
<1> DEFINE f == R!OneTexel
           t == [j \in DOMAIN f.values |-> [value |-> f.values[j], cells |-> {j}, uses |-> 1]]
<1>1. face = f /\ res = f.res /\ steps = 0 /\ texels = <<[value |-> 0, cells |-> {1}, uses |-> 1]>>
  BY DEF FaceInit, R!Init
<1>2. texels = t
  <2>1. f.values = <<0>> /\ DOMAIN <<0>> = {1} /\ DOMAIN texels = {1}
    BY <1>1 DEF R!OneTexel
  <2> QED BY <1>1, <2>1
<1>3. FaceOK(f)
  BY SideIs DEF R!OneTexel, FaceOK, R!Width, R!Height
<1>4. Reached(f, f.res) /\ AllMeans(f, f.res, t, 0)
  BY <1>3, GivenMeans
<1> QED
  BY <1>1, <1>2, <1>3, <1>4 DEF ReduceInv

-----------------------------------------------------------------------------
(* A block of one channel is decoded to its author's elements. *)
OneChannel ==
  image.nchan = 1 /\ pc \in {"premultiply", "done"} => data = plain

FaceInv == PlaceInv /\ OneChannel /\ ReduceInv

LEMMA OneChannelStays ==
  ASSUME PlaceInv, OneChannel, [Next]_vars
  PROVE  OneChannel'
<1> SUFFICES ASSUME image'.nchan = 1, pc' \in {"premultiply", "done"}
             PROVE  data' = plain'
  BY DEF OneChannel
<1>1. UNCHANGED request
  BY DEF Next, vars, Inflate, UndoDifference, EndDifference, Interleave, MultAlpha
<1>2. image' = image /\ plain' = plain /\ image.nchan = 1
  BY <1>1, RequestStays
<1>3. /\ image.uw \in Nat /\ image.vw \in Nat /\ Len(plain) = image.uw * image.vw * image.nchan
      /\ plain = [j \in 1..Len(plain) |-> plain[j]] /\ DOMAIN plain = 1..Len(plain)
      /\ image.alphachan \in Int
  BY LenProperties DEF PlaceInv, ImageOK, DecodeInv
<1>4. CASE Inflate
  BY <1>2, <1>4, ConstantInPlace DEF Inflate, PlaceInv, DecodeInv
<1>5. CASE Interleave
  <2>1. data' = [j \in DOMAIN plain |-> plain[Planar(TexelAt(j).u, TexelAt(j).v, Channel(j))]]
    BY <1>5 DEF Interleave, PlaceInv, DecodeInv
  <2>2. ASSUME NEW j \in DOMAIN plain
        PROVE  Planar(TexelAt(j).u, TexelAt(j).v, Channel(j)) = j
    <3> DEFINE W == image.uw
               H == image.vw
    <3>1. W * H * 1 = W * H /\ W \in Nat /\ H \in Nat
      BY <1>3
    <3>2. j \in 1..(W * H) /\ j \in Nat /\ j - 1 \in Nat
      BY <1>2, <1>3, <3>1
    <3> HIDE DEF W, H
    <3>3. ((j - 1) \div W) * W + ((j - 1) % W) + 1 = j
      BY <3>1, <3>2, TexelOfPlace
    <3>4. /\ (j - 1) % W \in Int /\ (j - 1) \div W \in Int
      <4>1. /\ (j - 1) % W \in 0..(W - 1) /\ (j - 1) \div W \in 0..(H - 1)
        BY <3>1, <3>2, TexelOfPlace
      <4> QED BY <3>1, <4>1
    <3>5. Channel(j) = 0 /\ TexelAt(j) = [u |-> (j - 1) % W, v |-> (j - 1) \div W]
      <4>1. (j - 1) % 1 = 0 /\ (j - 1) \div 1 = j - 1
        BY <3>2
      <4> QED BY <1>2, <4>1 DEF Channel, TexelAt, W
    <3>6. Planar(TexelAt(j).u, TexelAt(j).v, Channel(j)) =
            0 * W * H + ((j - 1) \div W) * W + ((j - 1) % W) + 1
      BY <3>5 DEF Planar, W, H
    <3>7. 0 * W * H = 0 /\ ((j - 1) \div W) * W \in Int
      BY <3>1, <3>4
    <3> QED BY <3>3, <3>4, <3>6, <3>7
  <2> QED BY <1>2, <1>3, <2>1, <2>2
<1>6. CASE MultAlpha
  <2>1. data = plain
    BY <1>2, <1>6 DEF MultAlpha, OneChannel
  <2>2. ASSUME NEW j \in DOMAIN plain
        PROVE  ~(Multiplies /\ Channel(j) \in Multiplied)
    <3>1. Multiplies => image.alphachan = 0
      BY <1>2, <1>3 DEF Multiplies, HasAlpha
    <3>2. image.alphachan = 0 => Multiplied = {}
      BY <1>2 DEF Multiplied
    <3> QED BY <3>1, <3>2
  <2>3. data' = [j \in DOMAIN plain |-> plain[j]]
    BY <1>6, <2>1, <2>2 DEF MultAlpha
  <2> QED BY <1>2, <1>3, <2>3
<1>7. CASE UndoDifference \/ EndDifference
  BY <1>7 DEF UndoDifference, EndDifference
<1>8. CASE UNCHANGED vars
  BY <1>2, <1>8 DEF vars, OneChannel
<1> QED
  BY <1>4, <1>5, <1>6, <1>7, <1>8 DEF Next

LEMMA StartReductionIsOK ==
  ASSUME FaceInv, StartReduction
  PROVE  FaceInv'
<1>1. /\ pc = "done" /\ image.nchan = 1 /\ pc' = "reduce" /\ UNCHANGED <<request, data, i, prev>>
  BY DEF StartReduction
<1>2. PICK r \in Res, mesh \in {"quad", "triangle"} :
        /\ mesh = "triangle" => r.u = r.v
        /\ R!Given([mesh |-> mesh, res |-> r, values |-> data])
  BY DEF StartReduction
<1> DEFINE f == [mesh |-> mesh, res |-> r, values |-> data]
<1>3. data = plain
  BY <1>1 DEF FaceInv, OneChannel
<1>4. /\ plain \in Seq(Nat) /\ Len(plain) = image.uw * image.vw
  <2>1. /\ plain \in Seq(0..(Width(image.dt) - 1)) /\ Len(plain) = image.uw * image.vw * image.nchan
        /\ image.uw \in Nat /\ image.vw \in Nat
    BY DEF FaceInv, PlaceInv, DecodeInv, ImageOK
  <2>2. image.uw * image.vw * 1 = image.uw * image.vw
    BY <2>1
  <2>3. \A n \in 0..(Width(image.dt) - 1) : n \in Nat
    OBVIOUS
  <2> HIDE DEF plain
  <2>4. plain \in Seq(Nat)
    <3>1. Len(plain) \in Nat /\ plain \in [1..Len(plain) -> 0..(Width(image.dt) - 1)]
      BY <2>1, LenProperties
    <3>2. plain \in [1..Len(plain) -> Nat]
      BY <2>3, <3>1
    <3> QED BY <3>1, <3>2
  <2> QED BY <1>1, <2>1, <2>2, <2>4
<1>5. FaceOK(f)
  <2>1. /\ r.u \in Nat /\ r.v \in Nat /\ r \in [u : Nat, v : Nat]
        /\ R!Side(r.u) = image.uw /\ R!Side(r.v) = image.vw
    BY DEF Res
  <2> QED BY <1>2, <1>3, <1>4, <2>1 DEF FaceOK, R!Width, R!Height
<1>6. ReduceInv'
  <2> HIDE DEF f
  <2>1. R!Given(f)
    BY <1>2 DEF f
  <2> QED BY <1>5, <2>1, GivenIsOK
<1>7. DecodeInv' /\ ImageOK'
  BY <1>1, RequestStays, ImageStays DEF FaceInv, PlaceInv, DecodeInv
<1> QED
  BY <1>1, <1>6, <1>7 DEF FaceInv, PlaceInv, PixelsAreTheAuthors, OneChannel

LEMMA InitFaceInv == FaceInit => FaceInv
BY InitPlaceInv, InitReduceInv DEF FaceInit, Init, FaceInv, OneChannel

LEMMA NextFaceInv == FaceInv /\ [FaceNext]_<<vars, reduction>> => FaceInv'
<1> SUFFICES ASSUME FaceInv, [FaceNext]_<<vars, reduction>> PROVE FaceInv'
  OBVIOUS
<1>1. CASE StartReduction
  BY <1>1, StartReductionIsOK
<1>2. CASE ~StartReduction
  <2>1. [Next]_vars /\ (R!Next \/ UNCHANGED reduction)
    BY <1>2 DEF FaceNext, Decode, Reduce
  <2> QED BY <2>1, NextPlaceInv, OneChannelStays, NextReduceInv DEF FaceInv
<1> QED
  BY <1>1, <1>2

-----------------------------------------------------------------------------
(* The set of cells a texel covers, as ReduceKernels has it. *)
LEMMA CoversIs ==
  ASSUME NEW u, NEW v
  PROVE  R!CellsUnder(u, v) = Under(face, res, u, v)
BY Zenon DEF R!CellsUnder, Under, InPart, CellIn

(* The module that is instantiated has FiniteSets of its own. *)
LEMMA SameCardinality ==
  ASSUME NEW S
  PROVE  R!Cardinality(S) = Cardinality(S)
BY DEF R!Cardinality, Cardinality

LEMMA MeansCover ==
  ASSUME ReduceInv
  PROVE  /\ R!TexelCoversItsPlace
         /\ R!LossIsBounded
<1>1. /\ FaceOK(face) /\ Reached(face, res) /\ steps \in Nat
      /\ AllMeans(face, res, texels, steps) /\ res.u \in Nat /\ res.v \in Nat
  BY DEF ReduceInv, FaceOK, Reached
<1>2. DOMAIN texels = R!Places(res) /\ Len(texels) = R!Width(res) * R!Height(res)
  <2>1. DOMAIN texels = R!Places(res)
    BY <1>1 DEF AllMeans
  <2>2. R!Width(res) * R!Height(res) \in Nat
    BY <1>1, SidesAre
  <2> QED BY <1>1, <2>1, <2>2 DEF R!Places, AllMeans
<1>3. ASSUME NEW j \in DOMAIN texels
      PROVE  Means(texels[j], face.values, Under(face, res, R!Col(res, j), R!Row(res, j)),
                   Cells(face, res), steps, Quarters(face))
  <2>1. /\ R!Col(res, j) \in Us2(res) /\ R!Row(res, j) \in Vs2(res)
        /\ R!Row(res, j) * R!Width(res) + R!Col(res, j) + 1 = j
    BY <1>1, <1>2, TexelAtPlace
  <2>2. Means(texels[R!Row(res, j) * R!Width(res) + R!Col(res, j) + 1], face.values,
              Under(face, res, R!Col(res, j), R!Row(res, j)), Cells(face, res), steps, Quarters(face))
    BY <1>1, <2>1, Zenon DEF AllMeans
  <2> QED BY <2>1, <2>2, Zenon
<1>4. R!TexelCoversItsPlace
  <2>1. ASSUME NEW j \in DOMAIN texels
        PROVE  /\ texels[j].cells = R!CellsUnder(R!Col(res, j), R!Row(res, j))
               /\ texels[j].uses = Cardinality(texels[j].cells)
    BY <1>3, CoversIs, Zenon DEF Means
  <2> QED BY <1>2, <2>1, SameCardinality DEF R!TexelCoversItsPlace
<1>5. R!LossIsBounded
  <2>1. ASSUME NEW j \in DOMAIN texels
        PROVE  LET n == Cardinality(texels[j].cells)
                   sum == R!SumOver(face.values, texels[j].cells)
                   loss == 4 * sum - 4 * n * texels[j].value
               IN  0 <= loss /\ loss <= steps * n * (IF face.mesh = "quad" THEN 2 ELSE 3)
    <3> DEFINE c == Under(face, res, R!Col(res, j), R!Row(res, j))
    <3>1. Means(texels[j], face.values, c, Cells(face, res), steps, Quarters(face))
      BY <1>3
    <3> HIDE DEF c
    <3>2. texels[j].cells = c /\ Cardinality(c) = Cells(face, res)
      BY <3>1 DEF Means
    <3> QED BY <3>1, <3>2, Zenon DEF Means, Quarters
  <2> QED BY <2>1, SameCardinality DEF R!LossIsBounded
<1> QED
  BY <1>4, <1>5

(* A reduced texel is made of the cells in its own part of the face, each  *)
(* used once, whatever the size of the face and however often it is        *)
(* reduced: in a triangle the four that are averaged are the quarters of   *)
(* the texel's triangle, the mirrored one included (utils.rs:394-480,      *)
(* decode.rs:219-246).                                                     *)
THEOREM ReductionsCoverTheirPlace == FaceSpec => []TexelCoversItsPlace
<1>1. FaceInv => TexelCoversItsPlace
  BY MeansCover DEF FaceInv, TexelCoversItsPlace
<1> QED
  BY <1>1, InitFaceInv, NextFaceInv, PTL DEF FaceSpec

(* Rounding never adds and costs at most a half per halving and three      *)
(* quarters per quartering, over any chain of reductions (halve_sum,       *)
(* quarter_sum, utils.rs:35-40, 51-56).                                    *)
THEOREM ReductionsLoseLittle == FaceSpec => []LossIsBounded
<1>1. FaceInv => LossIsBounded
  BY MeansCover DEF FaceInv, LossIsBounded
<1> QED
  BY <1>1, InitFaceInv, NextFaceInv, PTL DEF FaceSpec

(* What is decoded before it is reduced is decoded right, too: nothing of  *)
(* a reduction touches the block (decode_difference, utils.rs:131-152;     *)
(* interleave, 102-129; multalpha_t, 234-251).                             *)
THEOREM ReducedFacesAreDecoded == FaceSpec => [](DifferencesUndone /\ PixelsAreTheAuthors)
<1>1. FaceInv => DifferencesUndone /\ PixelsAreTheAuthors
  BY DEF FaceInv, PlaceInv, DecodeInv, DifferencesUndone, plain
<1> QED
  BY <1>1, InitFaceInv, NextFaceInv, PTL DEF FaceSpec

-----------------------------------------------------------------------------
(* Powers of two, and floats that are rounded to 24 bits. *)
LEMMA TwoToIs ==
  /\ TwoTo[0] = 1
  /\ \A k \in 0..29 : TwoTo[k + 1] = 2 * TwoTo[k]
<1>1. PICK f : Doubles(f, 30)
  BY DoublesExist
<1>2. TwoTo = [k \in 0..30 |-> IF k = 0 THEN 1 ELSE 2 * TwoTo[k - 1]]
  <2>1. \E h : h = [k \in 0..30 |-> IF k = 0 THEN 1 ELSE 2 * h[k - 1]]
    BY <1>1 DEF Doubles
  <2> QED BY <2>1 DEF TwoTo
<1>3. ASSUME NEW k \in 0..29 PROVE TwoTo[k + 1] = 2 * TwoTo[k]
  <2>1. k + 1 \in 0..30 /\ k + 1 # 0 /\ (k + 1) - 1 = k
    OBVIOUS
  <2> QED BY <1>2, <2>1
<1>4. TwoTo[0] = 1
  BY <1>2
<1> QED
  BY <1>3, <1>4

LEMMA TwoToValues ==
  /\ TwoTo[0] = 1 /\ TwoTo[1] = 2 /\ TwoTo[2] = 4 /\ TwoTo[3] = 8 /\ TwoTo[4] = 16
  /\ TwoTo[5] = 32 /\ TwoTo[6] = 64 /\ TwoTo[7] = 128 /\ TwoTo[8] = 256
  /\ TwoTo[9] = 512 /\ TwoTo[10] = 1024 /\ TwoTo[11] = 2048 /\ TwoTo[12] = 4096
  /\ TwoTo[13] = 8192 /\ TwoTo[14] = 16384 /\ TwoTo[15] = 32768 /\ TwoTo[16] = 65536
  /\ TwoTo[17] = 131072 /\ TwoTo[18] = 262144 /\ TwoTo[19] = 524288
  /\ TwoTo[20] = 1048576 /\ TwoTo[21] = 2097152 /\ TwoTo[22] = 4194304
  /\ TwoTo[23] = 8388608 /\ TwoTo[24] = 16777216 /\ TwoTo[25] = 33554432
<1>1. \A k \in 0..29 : TwoTo[k + 1] = 2 * TwoTo[k]
  BY TwoToIs
<1>2. /\ TwoTo[0] = 1 /\ TwoTo[1] = 2 /\ TwoTo[2] = 4 /\ TwoTo[3] = 8 /\ TwoTo[4] = 16
  BY TwoToIs, <1>1
<1>3. /\ TwoTo[5] = 32 /\ TwoTo[6] = 64 /\ TwoTo[7] = 128 /\ TwoTo[8] = 256
  BY <1>1, <1>2
<1>4. /\ TwoTo[9] = 512 /\ TwoTo[10] = 1024 /\ TwoTo[11] = 2048 /\ TwoTo[12] = 4096
  BY <1>1, <1>3
<1>5. /\ TwoTo[13] = 8192 /\ TwoTo[14] = 16384 /\ TwoTo[15] = 32768 /\ TwoTo[16] = 65536
  BY <1>1, <1>4
<1>6. /\ TwoTo[17] = 131072 /\ TwoTo[18] = 262144 /\ TwoTo[19] = 524288
      /\ TwoTo[20] = 1048576 /\ TwoTo[21] = 2097152
  BY <1>1, <1>5
<1>7. /\ TwoTo[22] = 4194304 /\ TwoTo[23] = 8388608 /\ TwoTo[24] = 16777216
      /\ TwoTo[25] = 33554432
  BY <1>1, <1>6
<1> QED
  BY <1>2, <1>3, <1>4, <1>5, <1>6, <1>7

(* q units of p are n, rounded to the nearest. *)
Nearest(q, n, p) == 2 * (q * p) <= 2 * n + p /\ 2 * n <= 2 * (q * p) + p

LEMMA DivMod4096 ==
  ASSUME NEW n \in Nat
  PROVE  n \div 4096 \in Nat /\ n % 4096 \in 0..4095 /\ n = (n \div 4096) * 4096 + (n % 4096)
OBVIOUS

LEMMA TwoToSplits ==
  ASSUME NEW k \in 0..12
  PROVE  /\ TwoTo[k] \in Nat \ {0} /\ TwoTo[12 - k] \in Nat \ {0}
         /\ TwoTo[k] * TwoTo[12 - k] = 4096
<1>1. \/ k = 0 \/ k = 1 \/ k = 2 \/ k = 3 \/ k = 4 \/ k = 5 \/ k = 6
      \/ k = 7 \/ k = 8 \/ k = 9 \/ k = 10 \/ k = 11 \/ k = 12
  OBVIOUS
<1> QED
  BY <1>1, TwoToValues

LEMMA DivModNat ==
  ASSUME NEW a \in Nat, NEW b \in Nat \ {0}
  PROVE  a \div b \in Nat /\ a % b \in 0..(b - 1) /\ a = b * (a \div b) + (a % b)
OBVIOUS

(* Rounding up or down by the rest, ties to even. *)
ByRest(q, rest, p, k) == IF k > 0 /\ (2 * rest > p \/ (2 * rest = p /\ q % 2 = 1)) THEN q + 1 ELSE q

(* n is q units of p and a rest; a unit is 1 if no bits go. *)
CutAt(n, q, rest, p, k) ==
  /\ n \in Nat /\ p \in Nat \ {0} /\ q \in Nat /\ rest \in 0..(p - 1) /\ k \in Nat
  /\ n = q * p + rest
  /\ k = 0 => p = 1

LEMMA RoundingIsNearest ==
  ASSUME NEW n, NEW q, NEW rest, NEW p, NEW k, CutAt(n, q, rest, p, k)
  PROVE  ByRest(q, rest, p, k) \in Nat /\ Nearest(ByRest(q, rest, p, k), n, p)
<1> USE DEF CutAt
<1>1. (q + 1) * p = q * p + p /\ q * p \in Nat
  OBVIOUS
<1>2. CASE k = 0
  BY <1>1, <1>2 DEF Nearest, ByRest
<1>3. CASE k > 0 /\ (2 * rest > p \/ (2 * rest = p /\ q % 2 = 1))
  <2>1. ByRest(q, rest, p, k) = q + 1 /\ 2 * rest >= p
    BY <1>3 DEF ByRest
  <2> QED BY <1>1, <2>1 DEF Nearest
<1>4. CASE k > 0 /\ ~(2 * rest > p \/ (2 * rest = p /\ q % 2 = 1))
  <2>1. ByRest(q, rest, p, k) = q /\ 2 * rest <= p
    BY <1>4 DEF ByRest
  <2> QED BY <1>1, <2>1 DEF Nearest
<1> QED
  BY <1>2, <1>3, <1>4

(* Taking the last k bits off a number held in two limbs.                  *)
InLimbs(n, top, low, k) ==
  top \in Nat /\ low \in 0..4095 /\ k \in 0..18 /\ n = top * 4096 + low

LEMMA RoundedIs ==
  ASSUME NEW top, NEW low, NEW k, NEW n, InLimbs(n, top, low, k)
  PROVE  Rounded(top, low, k) \in Nat /\ Nearest(Rounded(top, low, k), n, TwoTo[k])
<1> USE DEF InLimbs
<1>1. CASE k <= 12
  <2> DEFINE p == TwoTo[k]
             s == TwoTo[12 - k]
             q == top * (4096 \div p) + low \div p
             rest == low % p
  <2>1. p \in Nat \ {0} /\ s \in Nat \ {0} /\ p * s = 4096 /\ (k = 0 => p = 1)
    BY <1>1, TwoToSplits, TwoToValues
  <2>2. Rounded(top, low, k) = ByRest(q, rest, p, k)
    BY <1>1 DEF Rounded, Limb, ByRest
  <2> HIDE DEF p, s
  <2>3. low \div p \in Nat /\ rest \in 0..(p - 1) /\ low = p * (low \div p) + rest
    <3>1. low \in Nat /\ p \in Nat \ {0}
      BY <2>1
    <3> QED BY <3>1
  <2>4. 4096 \div p = s
    BY <2>1
  <2>5. q \in Nat /\ n = q * p + rest
    <3> DEFINE l == low \div p
    <3>1. l \in Nat /\ low = p * l + rest /\ rest \in Nat
      BY <2>1, <2>3
    <3>2. q = top * s + l
      BY <2>4
    <3> HIDE DEF l, q, rest
    <3>3. (top * s + l) * p = top * (p * s) + p * l /\ top * s \in Nat
      BY <2>1, <3>1
    <3>4. top * (p * s) = top * 4096
      BY <2>1
    <3> QED BY <2>1, <3>1, <3>2, <3>3, <3>4
  <2> HIDE DEF q, rest
  <2>6. n \in Nat
    OBVIOUS
  <2>7. Rounded(top, low, k) \in Nat /\ Nearest(Rounded(top, low, k), n, p)
    <3>1. k \in Nat
      OBVIOUS
    <3>2. CutAt(n, q, rest, p, k)
      BY <2>1, <2>3, <2>5, <2>6, <3>1 DEF CutAt
    <3> QED BY <2>2, <3>2, RoundingIsNearest
  <2> QED BY <2>7 DEF p
<1>2. CASE k > 12
  <2> DEFINE p == TwoTo[k]
             c == TwoTo[k - 12]
             q == top \div c
             rest == (top % c) * 4096 + low
  <2>1. p \in Nat \ {0} /\ c \in Nat \ {0} /\ p = c * 4096
    <3>1. k = 13 \/ k = 14 \/ k = 15 \/ k = 16 \/ k = 17 \/ k = 18
      BY <1>2
    <3> QED BY <3>1, TwoToValues
  <2>2. Rounded(top, low, k) = ByRest(q, rest, p, k)
    BY <1>2 DEF Rounded, Limb, ByRest
  <2> HIDE DEF p, c
  <2>3. q \in Nat /\ top % c \in 0..(c - 1) /\ top = c * q + (top % c)
    <3>1. c \in Nat \ {0}
      BY <2>1
    <3> QED BY <3>1
  <2>4. rest \in 0..(p - 1)
    BY <2>1, <2>3
  <2>5. n = q * p + rest
    <3> DEFINE e == top % c
    <3>1. q \in Nat /\ e \in Nat /\ top = c * q + e /\ rest = e * 4096 + low
      BY <2>1, <2>3
    <3> HIDE DEF e, q, rest
    <3>2. q * (c * 4096) = (c * q) * 4096 /\ c * q \in Nat
      BY <2>1, <3>1
    <3> QED BY <2>1, <3>1, <3>2
  <2> HIDE DEF q, rest
  <2>6. n \in Nat
    OBVIOUS
  <2>7. Rounded(top, low, k) \in Nat /\ Nearest(Rounded(top, low, k), n, p)
    <3>1. k \in Nat /\ (k = 0 => p = 1)
      BY <1>2
    <3>2. CutAt(n, q, rest, p, k)
      BY <2>1, <2>3, <2>4, <2>5, <2>6, <3>1 DEF CutAt
    <3> QED BY <2>2, <3>2, RoundingIsNearest
  <2> QED BY <2>7 DEF p
<1> QED
  BY <1>1, <1>2

(* What is rounded to units stays on its side of a whole number of units.  *)
LEMMA NearestAtMost ==
  ASSUME NEW q \in Nat, NEW n \in Nat, NEW p \in Nat \ {0}, NEW m \in Nat,
         Nearest(q, n, p), n <= m * p
  PROVE  q <= m
<1> SUFFICES ASSUME q >= m + 1 PROVE FALSE
  OBVIOUS
<1>1. q * p >= (m + 1) * p
  BY Monotone
<1>2. (m + 1) * p = m * p + p /\ m * p \in Nat /\ q * p \in Nat
  OBVIOUS
<1> QED
  BY <1>1, <1>2 DEF Nearest

LEMMA NearestAtLeast ==
  ASSUME NEW q \in Nat, NEW n \in Nat, NEW p \in Nat \ {0}, NEW m \in Nat,
         Nearest(q, n, p), 2 * n > 2 * (m * p) - p
  PROVE  q >= m
<1> SUFFICES ASSUME q + 1 <= m PROVE FALSE
  OBVIOUS
<1>1. (q + 1) * p <= m * p
  BY Monotone
<1>2. (q + 1) * p = q * p + p /\ m * p \in Nat /\ q * p \in Nat
  OBVIOUS
<1> QED
  BY <1>1, <1>2 DEF Nearest

LEMMA ExcessIs ==
  ASSUME NEW top \in Nat, top < 536870912
  PROVE  /\ Excess(top) \in 0..18
         /\ top < 4096 * TwoTo[Excess(top)]
         /\ Excess(top) > 0 => top >= 4096 * TwoTo[Excess(top) - 1]
<1> DEFINE Is(k) == top < 4096 * TwoTo[k] /\ (k > 0 => top >= 4096 * TwoTo[k - 1])
<1>1. \E k \in 0..18 : Is(k)
  <2>1. CASE top < 65536
    <3>1. Is(0) \/ Is(1) \/ Is(2) \/ Is(3) \/ Is(4)
      BY <2>1, TwoToValues
    <3> QED BY <3>1
  <2>2. CASE top >= 65536 /\ top < 2097152
    <3>1. Is(5) \/ Is(6) \/ Is(7) \/ Is(8) \/ Is(9)
      BY <2>2, TwoToValues
    <3> QED BY <3>1
  <2>3. CASE top >= 2097152 /\ top < 67108864
    <3>1. Is(10) \/ Is(11) \/ Is(12) \/ Is(13) \/ Is(14)
      BY <2>3, TwoToValues
    <3> QED BY <3>1
  <2>4. CASE top >= 67108864
    <3>1. Is(15) \/ Is(16) \/ Is(17)
      BY <2>4, TwoToValues
    <3> QED BY <3>1
  <2> QED BY <2>1, <2>2, <2>3, <2>4
<1> QED
  BY <1>1 DEF Excess, Limb

(* A product with 24 bits: n rounded to p = 2^k, no more than it takes.    *)
Kept(q, n, p, k) ==
  /\ q \in Nat /\ q <= 16777216 /\ Nearest(q, n, p)
  /\ n < 16777216 * p
  /\ k > 0 => n >= 8388608 * p

LEMMA TimesIntIs ==
  ASSUME NEW x, x.m \in Nat, x.m <= 16777216, x.e \in Int, NEW n \in Nat, n <= 65535
  PROVE  \E k \in 0..18 :
           TimesInt(x, n).e = x.e + k /\ Kept(TimesInt(x, n).m, x.m * n, TwoTo[k], k)
<1> DEFINE m == x.m
           hi == m \div 4096
           lo == m % 4096
           part == lo * n
           top == hi * n + part \div 4096
           low == part % 4096
           k == Excess(top)
           p == TwoTo[k]
           q == Rounded(top, low, k)
<1>1. m \in Nat /\ hi \in Nat /\ hi <= 4096 /\ lo \in 0..4095 /\ m = hi * 4096 + lo /\ n \in Nat
  <2>1. m \in Nat
    OBVIOUS
  <2>2. m <= 16777216
    OBVIOUS
  <2> HIDE DEF m
  <2>3. hi \in Nat /\ lo \in 0..4095 /\ m = hi * 4096 + lo
    BY <2>1, DivMod4096, SMT
  <2> HIDE DEF hi, lo
  <2> QED BY <2>1, <2>2, <2>3, SMT
<1>2. TimesInt(x, n) = [m |-> q, e |-> x.e + k]
  BY DEF TimesInt, Limb
<1> HIDE DEF m, hi, lo
<1>3. part \in Nat /\ part <= 4095 * n /\ hi * n \in Nat /\ hi * n <= 4096 * n
  BY <1>1, Monotone
<1> DEFINE d == part \div 4096
<1>4. d \in Nat /\ low \in 0..4095 /\ part = d * 4096 + low
  <2>1. part \in Nat
    BY <1>3
  <2> HIDE DEF part
  <2> QED BY <2>1, DivMod4096
<1>5. m * n = (hi * n) * 4096 + part
  BY <1>1
<1>6. top = hi * n + d
  OBVIOUS
<1> HIDE DEF part, d, low, top
<1> DEFINE h == hi * n
<1>7. top \in Nat /\ top < 536870912 /\ m * n = top * 4096 + low
  <2> HIDE DEF h
  <2> QED BY <1>3, <1>4, <1>5, <1>6 DEF h
<1>8. /\ k \in 0..18 /\ top < 4096 * p
      /\ k > 0 => top >= 4096 * TwoTo[k - 1]
  BY <1>7, ExcessIs
<1> HIDE DEF k
<1>9. p \in Nat \ {0} /\ (k > 0 => p = 2 * TwoTo[k - 1] /\ TwoTo[k - 1] \in Nat)
  <2>1. k \in 0..12 => p \in Nat \ {0}
    BY TwoToSplits
  <2>2. k \in 13..18 => p \in Nat \ {0}
    <3> SUFFICES ASSUME k \in 13..18 PROVE p \in Nat \ {0}
      OBVIOUS
    <3>1. k = 13 \/ k = 14 \/ k = 15 \/ k = 16 \/ k = 17 \/ k = 18
      OBVIOUS
    <3> QED BY <3>1, TwoToValues
  <2>3. k > 0 => p = 2 * TwoTo[k - 1]
    <3>1. k > 0 => k - 1 \in 0..29 /\ (k - 1) + 1 = k
      BY <1>8
    <3> QED BY <3>1, TwoToIs
  <2>4. k > 0 => TwoTo[k - 1] \in Nat
    <3>1. k - 1 \in 0..12 => TwoTo[k - 1] \in Nat
      BY TwoToSplits
    <3>2. k - 1 \in 13..17 => TwoTo[k - 1] \in Nat
      <4> SUFFICES ASSUME k - 1 \in 13..17 PROVE TwoTo[k - 1] \in Nat
        OBVIOUS
      <4>1. k - 1 = 13 \/ k - 1 = 14 \/ k - 1 = 15 \/ k - 1 = 16 \/ k - 1 = 17
        OBVIOUS
      <4> QED BY <4>1, TwoToValues
    <3> QED BY <1>8, <3>1, <3>2
  <2> QED BY <1>8, <2>1, <2>2, <2>3, <2>4
<1> DEFINE N == m * n
<1>10. N \in Nat /\ N = top * 4096 + low
  BY <1>1, <1>7
<1> HIDE DEF N
<1>11. q \in Nat /\ Nearest(q, N, p)
  <2>1. top \in Nat /\ low \in 0..4095 /\ k \in 0..18
    BY <1>4, <1>7, <1>8
  <2>2. InLimbs(N, top, low, k)
    BY <1>10, <2>1 DEF InLimbs
  <2> QED BY <2>2, RoundedIs
<1> HIDE DEF p, q
<1>12. N < 16777216 * p /\ (k > 0 => N >= 8388608 * p)
  BY <1>4, <1>7, <1>8, <1>9, <1>10, SMT
<1> HIDE DEF N
<1>13. q <= 16777216
  <2>1. N <= 16777216 * p
    BY <1>9, <1>10, <1>12
  <2> QED BY <1>9, <1>10, <1>11, <2>1, NearestAtMost, SMT
<1>14. Kept(q, N, p, k)
  BY <1>11, <1>12, <1>13 DEF Kept
<1> QED
  BY <1>2, <1>8, <1>14 DEF N, p, m

(* Sides multiply as their logarithms add. *)
LEMMA SideSum ==
  ASSUME NEW a \in Nat, NEW b \in Nat
  PROVE  R!Side(a + b) = R!Side(a) * R!Side(b)
<1> DEFINE S == {n \in Nat : R!Side(a + n) = R!Side(a) * R!Side(n)}
<1>1. 0 \in S
  BY SideIs
<1>2. ASSUME NEW n \in Nat, n \in S PROVE n + 1 \in S
  <2>1. a + n \in Nat /\ a + (n + 1) = (a + n) + 1
    OBVIOUS
  <2>2. R!Side(a + (n + 1)) = 2 * R!Side(a + n) /\ R!Side(n + 1) = 2 * R!Side(n)
    BY <2>1, SideIs
  <2>3. R!Side(a) \in Nat /\ R!Side(n) \in Nat
    BY SideIs
  <2>4. R!Side(a + n) = R!Side(a) * R!Side(n)
    BY <1>2
  <2>5. 2 * (R!Side(a) * R!Side(n)) = R!Side(a) * (2 * R!Side(n))
    BY <2>3
  <2> QED BY <2>2, <2>4, <2>5
<1>3. Nat \subseteq S
  <2> HIDE DEF S
  <2> QED BY <1>1, <1>2, NatSetInduction
<1> QED
  BY <1>3

LEMMA TwoToIsSide ==
  \A k \in 0..30 : TwoTo[k] = R!Side(k)
<1> DEFINE S == {n \in Nat : n <= 30 => TwoTo[n] = R!Side(n)}
<1>1. 0 \in S
  BY SideIs, TwoToIs
<1>2. ASSUME NEW n \in Nat, n \in S PROVE n + 1 \in S
  <2> SUFFICES ASSUME n + 1 <= 30 PROVE TwoTo[n + 1] = R!Side(n + 1)
    OBVIOUS
  <2>1. n \in 0..29
    OBVIOUS
  <2>2. TwoTo[n + 1] = 2 * TwoTo[n]
    BY <2>1, TwoToIs
  <2>3. R!Side(n + 1) = 2 * R!Side(n)
    BY SideIs
  <2> QED BY <1>2, <2>1, <2>2, <2>3
<1>3. Nat \subseteq S
  <2> HIDE DEF S
  <2> QED BY <1>1, <1>2, NatSetInduction
<1> QED
  BY <1>3

LEMMA LongSides ==
  R!Side(25) = 33554432 /\ R!Side(31) = 2147483648 /\ R!Side(39) = 549755813888
<1>1. R!Side(25) = 33554432 /\ R!Side(8) = 256 /\ R!Side(6) = 64
  <2>1. 25 \in 0..30 /\ 8 \in 0..30 /\ 6 \in 0..30
    OBVIOUS
  <2> QED BY <2>1, TwoToIsSide, TwoToValues
<1>2. R!Side(25 + 6) = R!Side(25) * R!Side(6)
  BY SideSum
<1>3. R!Side(31) = 2147483648
  BY <1>1, <1>2
<1>4. R!Side(31 + 8) = R!Side(31) * R!Side(8)
  BY SideSum
<1> QED
  BY <1>1, <1>3, <1>4

LEMMA TruncatedIs ==
  ASSUME NEW x, x.m \in Nat, x.m <= 16777216, NEW n \in Nat, x.e = -n
  PROVE  Truncated(x) = x.m \div R!Side(n)
<1>1. -x.e = n
  OBVIOUS
<1>2. CASE n <= 24
  <2>1. n \in 0..30
    BY <1>2
  <2> QED BY <1>1, <1>2, <2>1, TwoToIsSide DEF Truncated
<1>3. CASE n > 24
  <2>1. n - 25 \in Nat /\ n = 25 + (n - 25)
    BY <1>3
  <2>2. R!Side(n) = 33554432 * R!Side(n - 25) /\ R!Side(n - 25) \in Nat \ {0}
    <3> DEFINE d == n - 25
    <3>1. d \in Nat /\ n = 25 + d
      BY <2>1
    <3> HIDE DEF d
    <3>2. R!Side(25 + d) = R!Side(25) * R!Side(d)
      BY <3>1, SideSum
    <3>3. R!Side(d) \in Nat \ {0}
      BY <3>1, SideIs
    <3> QED BY <3>1, <3>2, <3>3, LongSides DEF d
  <2>3. R!Side(n) > 16777216 /\ R!Side(n) \in Nat
    BY <2>2
  <2>4. x.m \div R!Side(n) = 0
    BY <2>3
  <2> QED BY <1>1, <1>3, <2>4 DEF Truncated
<1> QED
  BY <1>2, <1>3

LEMMA Cancel ==
  ASSUME NEW x \in Nat, NEW y \in Nat, NEW a \in Nat \ {0}, x * a <= y * a
  PROVE  x <= y
<1> SUFFICES ASSUME x >= y + 1 PROVE FALSE
  OBVIOUS
<1>1. (y + 1) * a <= x * a
  BY Monotone
<1>2. (y + 1) * a = y * a + a /\ y * a \in Nat
  OBVIOUS
<1> QED
  BY <1>1, <1>2

(* The two roundings of a colour: alpha over one, in units of 1/t, to      *)
(* units of a, and the colour's product with it to units of b.             *)
Twice(m, t, alpha, colour, q1, a, q2, b, c) ==
  /\ m \in Nat /\ t \in Nat /\ alpha \in Nat /\ colour \in Nat /\ q1 \in Nat /\ q2 \in Nat
  /\ a \in Nat \ {0} /\ b \in Nat \ {0} /\ c \in Nat \ {0}
  /\ t = (a * b) * c
  /\ Nearest(q1, m * alpha, a)
  /\ Nearest(q2, q1 * colour, b)
  /\ q1 * a <= t

(* A scale of up to 1.0 does not make the colour brighter. *)
LEMMA NotAboveColour ==
  ASSUME NEW m, NEW t, NEW alpha, NEW colour, NEW q1, NEW a, NEW q2, NEW b, NEW c,
         Twice(m, t, alpha, colour, q1, a, q2, b, c)
  PROVE  q2 <= c * colour
<1> USE DEF Twice
<1>1. b * c \in Nat /\ c * colour \in Nat /\ q1 * colour \in Nat
  OBVIOUS
<1>2. q1 * a <= (b * c) * a
  <2>1. (a * b) * c = (b * c) * a
    OBVIOUS
  <2> QED BY <2>1
<1>3. q1 <= b * c
  BY <1>1, <1>2, Cancel
<1>4. q1 * colour <= (c * colour) * b
  <2>1. q1 * colour <= (b * c) * colour
    BY <1>1, <1>3, Monotone
  <2>2. (b * c) * colour = (c * colour) * b
    OBVIOUS
  <2> QED BY <2>1, <2>2
<1> QED
  BY <1>1, <1>4, NearestAtMost

(* A scale of 1.0 leaves it as it is. *)
LEMMA OpaqueIsExact ==
  ASSUME NEW m, NEW t, NEW alpha, NEW colour, NEW q1, NEW a, NEW q2, NEW b, NEW c,
         Twice(m, t, alpha, colour, q1, a, q2, b, c), q1 * a = t
  PROVE  q2 = c * colour
<1>0. q2 <= c * colour
  BY NotAboveColour
<1> USE DEF Twice
<1>1. b * c \in Nat /\ c * colour \in Nat /\ q1 * colour \in Nat
  OBVIOUS
<1>2. (b * c) * a <= q1 * a
  <2>1. (a * b) * c = (b * c) * a
    OBVIOUS
  <2> QED BY <2>1
<1>3. b * c <= q1
  BY <1>1, <1>2, Cancel
<1>4. (c * colour) * b <= q1 * colour
  <2>1. (b * c) * colour <= q1 * colour
    BY <1>1, <1>3, Monotone
  <2>2. (b * c) * colour = (c * colour) * b
    OBVIOUS
  <2> QED BY <2>1, <2>2
<1>5. 2 * (q1 * colour) > 2 * ((c * colour) * b) - b
  <2>1. (c * colour) * b \in Nat
    BY <1>1
  <2> QED BY <1>1, <1>4, <2>1
<1>6. q2 >= c * colour
  BY <1>1, <1>5, NearestAtLeast
<1> QED
  BY <1>0, <1>1, <1>6

(* What both roundings add up to, in units of 1/t. *)
LEMMA BothRoundings ==
  ASSUME NEW m, NEW t, NEW alpha, NEW colour, NEW q1, NEW a, NEW q2, NEW b, NEW c,
         Twice(m, t, alpha, colour, q1, a, q2, b, c)
  PROVE  LET x == (q2 * b) * a
             u == (q1 * a) * colour
             v == (m * alpha) * colour
         IN  /\ x \in Nat /\ u \in Nat /\ v \in Nat /\ a * b \in Nat /\ a * colour \in Nat
             /\ 2 * x <= 2 * u + a * b /\ 2 * u <= 2 * x + a * b
             /\ 2 * u <= 2 * v + a * colour /\ 2 * v <= 2 * u + a * colour
<1> USE DEF Twice
<1> DEFINE y == q2 * b
           n == q1 * colour
           z == q1 * a
           w == m * alpha
<1>1. y \in Nat /\ n \in Nat /\ z \in Nat /\ w \in Nat /\ a \in Nat /\ b \in Nat /\ colour \in Nat
  OBVIOUS
<1>2. 2 * y <= 2 * n + b /\ 2 * n <= 2 * y + b /\ 2 * z <= 2 * w + a /\ 2 * w <= 2 * z + a
  BY DEF Nearest
<1>3. n * a = z * colour
  OBVIOUS
<1> HIDE DEF y, n, z, w, Twice
<1>4. (2 * y) * a <= (2 * n + b) * a /\ (2 * n) * a <= (2 * y + b) * a
  BY <1>1, <1>2, Monotone
<1>5. (2 * z) * colour <= (2 * w + a) * colour /\ (2 * w) * colour <= (2 * z + a) * colour
  BY <1>1, <1>2, Monotone
<1>6. /\ (2 * y) * a = 2 * (y * a) /\ (2 * n + b) * a = 2 * (n * a) + a * b
      /\ (2 * n) * a = 2 * (n * a) /\ (2 * y + b) * a = 2 * (y * a) + a * b
  BY <1>1
<1>7. /\ (2 * z) * colour = 2 * (z * colour) /\ (2 * w + a) * colour = 2 * (w * colour) + a * colour
      /\ (2 * w) * colour = 2 * (w * colour) /\ (2 * z + a) * colour = 2 * (z * colour) + a * colour
  BY <1>1
<1>8. y * a \in Nat /\ z * colour \in Nat /\ w * colour \in Nat /\ a * b \in Nat /\ a * colour \in Nat
  BY <1>1
<1>9. /\ 2 * (y * a) <= 2 * (z * colour) + a * b /\ 2 * (z * colour) <= 2 * (y * a) + a * b
  BY <1>3, <1>4, <1>6
<1>10. /\ 2 * (z * colour) <= 2 * (w * colour) + a * colour
       /\ 2 * (w * colour) <= 2 * (z * colour) + a * colour
  BY <1>5, <1>7
<1> QED
  BY <1>8, <1>9, <1>10 DEF y, z, w

(* As many units of the result as c * s are s in units of 1/t.             *)
LEMMA WholeUnits ==
  ASSUME NEW m, NEW t, NEW alpha, NEW colour, NEW q1, NEW a, NEW q2, NEW b, NEW c,
         Twice(m, t, alpha, colour, q1, a, q2, b, c), NEW s \in Nat
  PROVE  /\ c * s \in Nat /\ t * s \in Nat
         /\ ((c * s) * b) * a = t * s
         /\ q2 >= c * s => (q2 * b) * a >= t * s
         /\ q2 + 1 <= c * s => (q2 * b) * a + a * b <= t * s
<1> USE DEF Twice
<1> DEFINE k == c * s
<1>1. k \in Nat /\ t * s \in Nat
  OBVIOUS
<1>2. (k * b) * a = t * s
  <2>1. ((c * s) * b) * a = ((a * b) * c) * s
    OBVIOUS
  <2> QED BY <2>1
<1>3. a \in Nat /\ b \in Nat /\ q2 \in Nat
  OBVIOUS
<1> HIDE DEF k, Twice
<1>4. ASSUME q2 >= k PROVE (q2 * b) * a >= t * s
  <2>1. k * b <= q2 * b
    BY <1>1, <1>3, <1>4, Monotone
  <2>2. k * b \in Nat /\ q2 * b \in Nat
    BY <1>1, <1>3
  <2>3. (k * b) * a <= (q2 * b) * a
    BY <1>3, <2>1, <2>2, Monotone
  <2> QED BY <1>2, <2>3
<1>5. ASSUME q2 + 1 <= k PROVE (q2 * b) * a + a * b <= t * s
  <2>1. (q2 + 1) * b <= k * b
    BY <1>1, <1>3, <1>5, Monotone
  <2>2. (q2 + 1) * b \in Nat /\ k * b \in Nat
    BY <1>1, <1>3
  <2>3. ((q2 + 1) * b) * a <= (k * b) * a
    BY <1>3, <2>1, <2>2, Monotone
  <2>4. ((q2 + 1) * b) * a = (q2 * b) * a + a * b
    BY <1>3
  <2> QED BY <1>2, <2>3, <2>4
<1> QED
  BY <1>1, <1>2, <1>4, <1>5 DEF k

(* The roundings are too small for a whole alpha more. *)
LEMMA NotAboveAlpha ==
  ASSUME NEW m, NEW t, NEW alpha, NEW colour, NEW q1, NEW a, NEW q2, NEW b, NEW c,
         Twice(m, t, alpha, colour, q1, a, q2, b, c),
         NEW one \in Nat, NEW d \in Nat, alpha <= one, colour <= one,
         2 * (m * one) <= 2 * t + d, d * one + a * one + a * b < 2 * t
  PROVE  q2 < c * (alpha + 1)
<1> DEFINE x == (q2 * b) * a
           u == (q1 * a) * colour
           v == (m * alpha) * colour
           w == (m * one) * alpha
<1>1. /\ x \in Nat /\ u \in Nat /\ v \in Nat /\ a * b \in Nat /\ a * colour \in Nat
      /\ 2 * x <= 2 * u + a * b /\ 2 * u <= 2 * v + a * colour
  BY BothRoundings
<1>2. m \in Nat /\ t \in Nat /\ alpha \in Nat /\ colour \in Nat /\ a \in Nat /\ q2 \in Nat /\ c \in Nat
  BY DEF Twice
<1> SUFFICES ASSUME q2 >= c * (alpha + 1) PROVE FALSE
  BY <1>2
<1>3. x >= t * (alpha + 1)
  <2>1. alpha + 1 \in Nat
    BY <1>2
  <2> QED BY <2>1, WholeUnits
<1>4. v <= w
  <2>1. colour * (m * alpha) <= one * (m * alpha)
    <3>1. m * alpha \in Nat
      BY <1>2
    <3> QED BY <1>2, <3>1, Monotone
  <2>2. colour * (m * alpha) = v /\ one * (m * alpha) = w
    BY <1>2
  <2> QED BY <2>1, <2>2
<1>5. a * colour <= a * one
  <2>1. colour * a <= one * a
    BY <1>2, Monotone
  <2> QED BY <1>2, <2>1
<1>6. 2 * w <= 2 * (t * alpha) + d * one
  <2>1. (2 * (m * one)) * alpha <= (2 * t + d) * alpha
    <3>1. 2 * (m * one) \in Nat /\ 2 * t + d \in Nat
      BY <1>2
    <3> QED BY <1>2, <3>1, Monotone
  <2>2. alpha * d <= one * d
    BY <1>2, Monotone
  <2>3. /\ (2 * (m * one)) * alpha = 2 * w
        /\ (2 * t + d) * alpha = 2 * (t * alpha) + alpha * d
        /\ one * d = d * one
    BY <1>2
  <2>4. t * alpha \in Nat /\ alpha * d \in Nat /\ d * one \in Nat /\ w \in Nat
    BY <1>2
  <2> HIDE DEF w
  <2> QED BY <2>1, <2>2, <2>3, <2>4
<1>7. t * (alpha + 1) = t * alpha + t /\ t * alpha \in Nat /\ d * one \in Nat /\ a * one \in Nat
  BY <1>2
<1>8. w \in Nat
  BY <1>2
<1> HIDE DEF x, u, v, w
<1> QED
  BY <1>1, <1>2, <1>3, <1>4, <1>5, <1>6, <1>7, <1>8

(* In 8 bits what the roundings lose or add is less than what divides the  *)
(* result from the next whole number, and the reciprocal is rounded up.    *)
InEightBits(alpha, colour, q1, a, b, s, r) ==
  /\ alpha <= 255 /\ colour <= 255 /\ a <= 256 /\ b <= 256
  /\ a = 1 \/ 8421505 * alpha >= 8388608 * a
  /\ q1 * colour < 16777216 * b
  /\ s \in Nat /\ r \in Nat /\ r < 255 /\ colour * alpha = 255 * s + r

LEMMA EightBitsAreExact ==
  ASSUME NEW alpha, NEW colour, NEW q1, NEW a, NEW q2, NEW b, NEW c, NEW s, NEW r,
         Twice(8421505, 2147483648, alpha, colour, q1, a, q2, b, c),
         InEightBits(alpha, colour, q1, a, b, s, r)
  PROVE  c * s <= q2 /\ q2 < c * (s + 1)
<1> USE DEF InEightBits
<1> DEFINE x == (q2 * b) * a
           u == (q1 * a) * colour
           v == (8421505 * alpha) * colour
           ab == a * b
           ac == a * colour
<1>1. /\ x \in Nat /\ u \in Nat /\ v \in Nat /\ ab \in Nat /\ ac \in Nat
      /\ 2 * x <= 2 * u + ab /\ 2 * u <= 2 * x + ab
      /\ 2 * u <= 2 * v + ac /\ 2 * v <= 2 * u + ac
  BY BothRoundings
<1>2. /\ alpha \in Nat /\ colour \in Nat /\ q1 \in Nat /\ q2 \in Nat
      /\ a \in Nat \ {0} /\ b \in Nat \ {0} /\ c \in Nat \ {0}
      /\ Nearest(q1, 8421505 * alpha, a) /\ Nearest(q2, q1 * colour, b)
  BY DEF Twice
<1>3. v = 8421505 * (255 * s + r)
  <2>1. v = 8421505 * (colour * alpha)
    BY <1>2
  <2> QED BY <2>1
<1>4. ab \in Nat /\ ab <= 65536 /\ ac <= 65280 /\ ab > 0
  <2>1. a * b <= 256 * b /\ a * colour <= 256 * colour
    BY <1>2, Monotone
  <2>2. a * b # 0
    BY <1>2
  <2> QED BY <1>1, <1>2, <2>1, <2>2
<1>5. s <= 255
  <2>1. colour * alpha <= 255 * alpha
    BY <1>2, Monotone
  <2>2. 255 * s + r <= 65025
    BY <1>2, <2>1
  <2> QED BY <2>2
<1>6. q2 < c * (s + 1)
  <2> SUFFICES ASSUME q2 >= c * (s + 1) PROVE FALSE
    BY <1>2
  <2>1. s + 1 \in Nat
    OBVIOUS
  <2>2. x >= 2147483648 * (s + 1)
    BY <2>1, WholeUnits
  <2> HIDE DEF x, u, v, ab, ac
  <2> QED BY <1>1, <1>3, <1>4, <1>5, <2>2
<1>7. c * s <= q2
  <2>1. CASE r >= 1
    <3> SUFFICES ASSUME q2 + 1 <= c * s PROVE FALSE
      BY <1>2
    <3>1. x + ab <= 2147483648 * s
      BY WholeUnits
    <3> HIDE DEF x, u, v, ab, ac
    <3> QED BY <1>1, <1>3, <1>4, <2>1, <3>1
  <2>2. CASE r = 0
    <3>1. 2 * u > 2 * (2147483648 * s) - ab
      <4>1. CASE a = 1
        <5>1. q1 = 8421505 * alpha
          <6>1. q1 * 1 = q1
            BY <1>2
          <6> QED BY <1>2, <4>1, <6>1 DEF Nearest
        <5>2. u = v
          <6>1. q1 * a = q1
            BY <1>2, <4>1
          <6> QED BY <5>1, <6>1
        <5> HIDE DEF x, u, v, ab, ac
        <5> QED BY <1>1, <1>3, <1>4, <2>2, <5>2
      <4>2. CASE 8421505 * alpha >= 8388608 * a
        <5>1. (8388608 * a) * colour <= (8421505 * alpha) * colour
          BY <1>2, <4>2, Monotone
        <5>2. 8388608 * ac <= v
          <6>1. (8388608 * a) * colour = 8388608 * ac
            BY <1>2
          <6> QED BY <5>1, <6>1
        <5>3. (q1 * colour) * a <= (16777216 * b) * a
          <6>1. q1 * colour \in Nat /\ 16777216 * b \in Nat
            BY <1>2
          <6> QED BY <1>2, <6>1, Monotone
        <5>4. u <= 16777216 * ab
          <6>1. (q1 * colour) * a = u /\ (16777216 * b) * a = 16777216 * ab
            BY <1>2
          <6> QED BY <5>3, <6>1
        <5> HIDE DEF x, u, v, ab, ac
        <5>5. ac <= 256 * s
          BY <1>1, <1>3, <1>5, <2>2, <5>2
        <5>6. u >= 2147483647 * s
          BY <1>1, <1>3, <2>2, <5>5
        <5>7. s = 0 \/ ab > 2 * s
          <6> SUFFICES ASSUME ab <= 2 * s PROVE s = 0
            BY <1>1
          <6> QED BY <1>1, <5>4, <5>6
        <5> QED BY <1>1, <1>3, <1>4, <2>2, <5>5, <5>7
      <4> QED BY <4>1, <4>2
    <3>2. 2 * (q1 * colour) > 2 * ((c * s) * b) - b
      <4> DEFINE n == q1 * colour
                 k == (c * s) * b
      <4>1. n \in Nat /\ k \in Nat
        BY <1>2
      <4> SUFFICES ASSUME 2 * n + b <= 2 * k PROVE FALSE
        BY <1>2, <4>1
      <4>2. k * a = 2147483648 * s
        BY WholeUnits
      <4>3. n * a = u
        BY <1>2
      <4> HIDE DEF n, k
      <4>4. (2 * n + b) * a <= (2 * k) * a
        BY <1>2, <4>1, Monotone
      <4>5. (2 * n + b) * a = 2 * (n * a) + ab /\ (2 * k) * a = 2 * (k * a)
        BY <1>2, <4>1
      <4> HIDE DEF x, u, v, ab, ac
      <4> QED BY <1>1, <3>1, <4>2, <4>3, <4>4, <4>5
    <3>3. c * s \in Nat /\ q1 * colour \in Nat
      BY <1>2
    <3> QED BY <1>2, <3>2, <3>3, NearestAtLeast
  <2> QED BY <2>1, <2>2
<1> QED
  BY <1>6, <1>7

LEMMA UnitsAre ==
  ASSUME NEW k \in 0..18
  PROVE  /\ TwoTo[k] \in Nat \ {0} /\ (k = 0 => TwoTo[k] = 1)
         /\ TwoTo[k] < 512 => k <= 8 /\ TwoTo[k] <= 256
         /\ TwoTo[k] < 256 => TwoTo[k] <= 128
         /\ TwoTo[k] > 128 => TwoTo[k] >= 256
         /\ TwoTo[k] < 65536 => k <= 15 /\ TwoTo[k] <= 32768
         /\ TwoTo[k] > 16384 => TwoTo[k] >= 32768
         /\ TwoTo[k] < 131072 => k <= 16 /\ TwoTo[k] <= 65536
<1>1. \/ k = 0 \/ k = 1 \/ k = 2 \/ k = 3 \/ k = 4 \/ k = 5 \/ k = 6
      \/ k = 7 \/ k = 8 \/ k = 9 \/ k = 10 \/ k = 11 \/ k = 12
      \/ k = 13 \/ k = 14 \/ k = 15 \/ k = 16 \/ k = 17 \/ k = 18
  OBVIOUS
<1>2. CASE k <= 6
  BY <1>1, <1>2, TwoToValues
<1>3. CASE k > 6 /\ k <= 12
  BY <1>1, <1>3, TwoToValues
<1>4. CASE k > 12
  BY <1>1, <1>4, TwoToValues
<1> QED
  BY <1>2, <1>3, <1>4

(* The float product of two integers with x, step by step, and its integer *)
(* part.                                                                   *)
Products(x, e, alpha, colour, k1, k2, q1, q2) ==
  /\ k1 \in 0..18 /\ k2 \in 0..18 /\ q1 \in Nat /\ q2 \in Nat
  /\ Kept(q1, x.m * alpha, TwoTo[k1], k1)
  /\ Kept(q2, q1 * colour, TwoTo[k2], k2)
  /\ k1 + k2 <= e =>
       Truncated(TimesInt(TimesInt(x, alpha), colour)) = q2 \div R!Side(e - k1 - k2)

LEMMA ProductsAre ==
  ASSUME NEW x, x.m \in Nat, x.m <= 16777216, NEW e \in Nat, x.e = -e,
         NEW alpha \in Nat, alpha <= 65535, NEW colour \in Nat, colour <= 65535
  PROVE  \E k1, k2, q1, q2 : Products(x, e, alpha, colour, k1, k2, q1, q2)
<1> DEFINE y == TimesInt(x, alpha)
           z == TimesInt(y, colour)
<1>1. PICK k1 \in 0..18 : y.e = x.e + k1 /\ Kept(y.m, x.m * alpha, TwoTo[k1], k1)
  <2>1. x.e \in Int
    OBVIOUS
  <2> QED BY <2>1, TimesIntIs
<1>2. y.m \in Nat /\ y.m <= 16777216 /\ y.e \in Int
  BY <1>1 DEF Kept
<1> HIDE DEF y
<1>3. PICK k2 \in 0..18 : z.e = y.e + k2 /\ Kept(z.m, y.m * colour, TwoTo[k2], k2)
  BY <1>2, TimesIntIs
<1>4. z.m \in Nat /\ z.m <= 16777216
  BY <1>3 DEF Kept
<1> HIDE DEF z
<1>5. ASSUME k1 + k2 <= e PROVE Truncated(z) = z.m \div R!Side(e - k1 - k2)
  <2>1. e - k1 - k2 \in Nat /\ z.e = -(e - k1 - k2)
    BY <1>1, <1>3, <1>5
  <2> QED BY <1>4, <2>1, TruncatedIs
<1>6. Products(x, e, alpha, colour, k1, k2, y.m, z.m)
  BY <1>1, <1>2, <1>3, <1>4, <1>5 DEF Products, z, y
<1> QED
  BY <1>6

(* The units the roundings take and what is left make up 1/t.              *)
LEMMA UnitsMakeOne ==
  ASSUME NEW k1 \in 0..18, NEW k2 \in 0..18, NEW e \in Nat, k1 + k2 <= e
  PROVE  /\ R!Side(e) = (TwoTo[k1] * TwoTo[k2]) * R!Side(e - k1 - k2)
         /\ R!Side(e - k1 - k2) \in Nat \ {0}
<1> DEFINE d == e - k1 - k2
<1>1. d \in Nat /\ k1 \in Nat /\ k2 \in Nat /\ e = (k1 + k2) + d /\ k1 + k2 \in Nat
  OBVIOUS
<1> HIDE DEF d
<1>2. R!Side(e) = R!Side(k1 + k2) * R!Side(d) /\ R!Side(k1 + k2) = R!Side(k1) * R!Side(k2)
  BY <1>1, SideSum
<1>3. R!Side(k1) = TwoTo[k1] /\ R!Side(k2) = TwoTo[k2]
  <2>1. k1 \in 0..30 /\ k2 \in 0..30
    OBVIOUS
  <2> QED BY <2>1, TwoToIsSide
<1>4. R!Side(d) \in Nat \ {0}
  BY <1>1, SideIs
<1> QED
  BY <1>2, <1>3, <1>4 DEF d

LEMMA UnitsOf31 ==
  \A k1, k2 \in 0..18 : k1 + k2 <= 31 =>
    /\ R!Side(31) = (TwoTo[k1] * TwoTo[k2]) * R!Side(31 - k1 - k2)
    /\ R!Side(31 - k1 - k2) \in Nat \ {0}
BY UnitsMakeOne

LEMMA UnitsOf39 ==
  \A k1, k2 \in 0..18 : k1 + k2 <= 39 =>
    /\ R!Side(39) = (TwoTo[k1] * TwoTo[k2]) * R!Side(39 - k1 - k2)
    /\ R!Side(39 - k1 - k2) \in Nat \ {0}
BY UnitsMakeOne

LEMMA QuotientIs ==
  ASSUME NEW q \in Nat, NEW c \in Nat \ {0}, NEW s \in Nat
  PROVE  /\ q \div c \in Nat
         /\ q < c * (s + 1) => q \div c <= s
         /\ c * s <= q => q \div c >= s
<1> DEFINE d == q \div c
           r == q % c
<1>1. d \in Nat /\ r \in 0..(c - 1) /\ q = c * d + r
  BY DivModNat
<1> HIDE DEF d, r
<1>2. ASSUME q < c * (s + 1) PROVE d <= s
  <2> SUFFICES ASSUME s + 1 <= d PROVE FALSE
    BY <1>1
  <2>1. (s + 1) * c <= d * c
    BY <1>1, Monotone
  <2>2. (s + 1) * c = c * (s + 1) /\ d * c = c * d /\ c * d \in Nat /\ c * (s + 1) \in Nat
    BY <1>1
  <2> QED BY <1>1, <1>2, <2>1, <2>2
<1>3. ASSUME c * s <= q PROVE d >= s
  <2> SUFFICES ASSUME d + 1 <= s PROVE FALSE
    BY <1>1
  <2>1. (d + 1) * c <= s * c
    BY <1>1, Monotone
  <2>2. (d + 1) * c = c * d + c /\ s * c = c * s /\ c * d \in Nat /\ c * s \in Nat
    BY <1>1
  <2> QED BY <1>1, <1>3, <2>1, <2>2
<1> QED
  BY <1>1, <1>2, <1>3 DEF d

(* An 8-bit colour is multiplied exactly and rounded down. *)
LEMMA EightBits ==
  ASSUME NEW alpha \in Nat, alpha <= 255, NEW colour \in Nat, colour <= 255
  PROVE  Premultiplied("uint8", colour, alpha) = (colour * alpha) \div 255
<1> DEFINE x == OneValueInv("uint8")
<1>1. x.m = 8421505 /\ x.e = -31
  BY DEF OneValueInv
<1>2. Premultiplied("uint8", colour, alpha) = Truncated(TimesInt(TimesInt(x, alpha), colour))
  BY DEF Premultiplied
<1> HIDE DEF x
<1>3. PICK k1, k2, q1, q2 : Products(x, 31, alpha, colour, k1, k2, q1, q2)
  <2>1. x.m \in Nat /\ x.m <= 16777216 /\ alpha <= 65535 /\ colour <= 65535 /\ 31 \in Nat
    BY <1>1
  <2> QED BY <1>1, <2>1, ProductsAre, SMT
<1> DEFINE a == TwoTo[k1]
           b == TwoTo[k2]
           c == R!Side(31 - k1 - k2)
<1>4. /\ k1 \in 0..18 /\ k2 \in 0..18 /\ q1 \in Nat /\ q2 \in Nat
      /\ Kept(q1, 8421505 * alpha, a, k1) /\ Kept(q2, q1 * colour, b, k2)
  BY <1>1, <1>3 DEF Products
<1>5. /\ q1 <= 16777216 /\ Nearest(q1, 8421505 * alpha, a)
      /\ k1 > 0 => 8421505 * alpha >= 8388608 * a
      /\ q2 <= 16777216 /\ Nearest(q2, q1 * colour, b)
      /\ k2 > 0 => q1 * colour >= 8388608 * b
      /\ q1 * colour < 16777216 * b
  BY <1>4 DEF Kept
<1>6. a \in Nat \ {0} /\ (k1 = 0 => a = 1) /\ b \in Nat \ {0} /\ (k2 = 0 => b = 1)
  BY <1>4, UnitsAre
<1>7. k1 <= 8 /\ a <= 256
  <2>1. a < 512
    BY <1>4, <1>5, <1>6, SMT
  <2> QED BY <1>4, <2>1, UnitsAre
<1>8. k2 <= 8 /\ b <= 256
  <2>1. q1 * colour <= 16777216 * 255
    <3>1. q1 * colour <= 16777216 * colour
      BY <1>4, <1>5, Monotone, SMT
    <3> QED BY <1>4, <3>1, SMT
  <2>2. b < 512
    <3> DEFINE n == q1 * colour
    <3>1. n \in Nat /\ n <= 16777216 * 255 /\ (k2 > 0 => n >= 8388608 * b)
      BY <1>4, <1>5, <2>1
    <3> HIDE DEF n
    <3> QED BY <1>4, <1>6, <3>1, SMT
  <2> QED BY <1>4, <2>2, UnitsAre
<1>9. c \in Nat \ {0} /\ 2147483648 = (a * b) * c
  <2>1. k1 + k2 <= 31
    BY <1>4, <1>7, <1>8
  <2>2. /\ R!Side(31) = (TwoTo[k1] * TwoTo[k2]) * R!Side(31 - k1 - k2)
        /\ R!Side(31 - k1 - k2) \in Nat \ {0}
    BY <1>4, <2>1, UnitsOf31, SMT
  <2> QED BY <2>2, LongSides
<1>10. Premultiplied("uint8", colour, alpha) = q2 \div c
  <2>1. k1 + k2 <= 31
    BY <1>4, <1>7, <1>8
  <2> QED BY <1>2, <1>3, <2>1 DEF Products
<1> HIDE DEF a, b, c
<1>11. q1 * a <= 2147483648
  <2>1. CASE a < 256
    <3>1. a <= 128
      BY <1>4, <2>1, UnitsAre DEF a
    <3>2. q1 * a <= 16777216 * a
      BY <1>4, <1>5, <1>6, Monotone, SMT
    <3> DEFINE n == q1 * a
    <3>3. n \in Nat /\ n <= 16777216 * a
      BY <1>4, <1>6, <3>2, SMT
    <3> HIDE DEF n
    <3>4. n <= 2147483648
      BY <1>6, <3>1, <3>3, SMT
    <3> QED BY <3>4 DEF n
  <2>2. CASE a = 256
    BY <1>4, <1>5, <2>2, SMT DEF Nearest
  <2> QED BY <1>6, <1>7, <2>1, <2>2
<1>12. Twice(8421505, 2147483648, alpha, colour, q1, a, q2, b, c)
  BY <1>4, <1>5, <1>6, <1>9, <1>11, SMT DEF Twice
<1> DEFINE s == (colour * alpha) \div 255
           r == (colour * alpha) % 255
<1>13. s \in Nat /\ r \in 0..254 /\ colour * alpha = 255 * s + r
  <2>1. colour * alpha \in Nat
    OBVIOUS
  <2> QED BY <2>1, SMT
<1> HIDE DEF s, r
<1>14. c * s <= q2 /\ q2 < c * (s + 1)
  <2>1. a = 1 \/ 8421505 * alpha >= 8388608 * a
    BY <1>4, <1>5, <1>6
  <2>2. r \in Nat /\ r < 255
    BY <1>13
  <2>3. InEightBits(alpha, colour, q1, a, b, s, r)
    BY <1>5, <1>7, <1>8, <1>13, <2>1, <2>2, SMT DEF InEightBits
  <2> QED BY <1>12, <2>3, EightBitsAreExact, SMT
<1>15. q2 \div c \in Nat /\ q2 \div c <= s /\ q2 \div c >= s
  <2>1. q2 \in Nat /\ c \in Nat \ {0} /\ s \in Nat
    BY <1>4, <1>9, <1>13
  <2>2. /\ q2 \div c \in Nat
        /\ q2 < c * (s + 1) => q2 \div c <= s
        /\ c * s <= q2 => q2 \div c >= s
    BY <2>1, QuotientIs, SMT
  <2> QED BY <1>14, <2>2
<1>16. q2 \div c = s
  BY <1>13, <1>15
<1> QED
  BY <1>10, <1>16 DEF s

(* A 16-bit colour becomes no brighter than it was or than its alpha, and  *)
(* stays as it is if the pixel is opaque.                                  *)
LEMMA SixteenBits ==
  ASSUME NEW alpha \in Nat, alpha <= 65535, NEW colour \in Nat, colour <= 65535
  PROVE  LET p == Premultiplied("uint16", colour, alpha)
         IN  p \in Nat /\ p <= colour /\ p <= alpha /\ (alpha = 65535 => p = colour)
<1> DEFINE x == OneValueInv("uint16")
<1>1. x.m = 8388736 /\ x.e = -39
  BY DEF OneValueInv
<1>2. Premultiplied("uint16", colour, alpha) = Truncated(TimesInt(TimesInt(x, alpha), colour))
  BY DEF Premultiplied
<1> HIDE DEF x
<1>3. PICK k1, k2, q1, q2 : Products(x, 39, alpha, colour, k1, k2, q1, q2)
  <2>1. x.m \in Nat /\ x.m <= 16777216 /\ 39 \in Nat
    BY <1>1
  <2> QED BY <1>1, <2>1, ProductsAre, SMT
<1> DEFINE a == TwoTo[k1]
           b == TwoTo[k2]
           c == R!Side(39 - k1 - k2)
<1>4. /\ k1 \in 0..18 /\ k2 \in 0..18 /\ q1 \in Nat /\ q2 \in Nat
      /\ Kept(q1, 8388736 * alpha, a, k1) /\ Kept(q2, q1 * colour, b, k2)
  BY <1>1, <1>3 DEF Products
<1>5. /\ q1 <= 16777216 /\ Nearest(q1, 8388736 * alpha, a)
      /\ k1 > 0 => 8388736 * alpha >= 8388608 * a
      /\ 8388736 * alpha < 16777216 * a
      /\ q2 <= 16777216 /\ Nearest(q2, q1 * colour, b)
      /\ k2 > 0 => q1 * colour >= 8388608 * b
      /\ q1 * colour < 16777216 * b
  BY <1>4 DEF Kept
<1>6. a \in Nat \ {0} /\ (k1 = 0 => a = 1) /\ b \in Nat \ {0} /\ (k2 = 0 => b = 1)
  BY <1>4, UnitsAre
<1>7. k1 <= 15 /\ a <= 32768
  <2>1. a < 65536
    BY <1>4, <1>5, <1>6, SMT
  <2> QED BY <1>4, <2>1, UnitsAre
<1>8. k2 <= 16 /\ b <= 65536
  <2>1. q1 * colour <= 16777216 * 65535
    <3>1. q1 * colour <= 16777216 * colour
      BY <1>4, <1>5, Monotone, SMT
    <3> QED BY <1>4, <3>1, SMT
  <2>2. b < 131072
    <3> DEFINE n == q1 * colour
    <3>1. n \in Nat /\ n <= 16777216 * 65535 /\ (k2 > 0 => n >= 8388608 * b)
      BY <1>4, <1>5, <2>1
    <3> HIDE DEF n
    <3> QED BY <1>4, <1>6, <3>1, SMT
  <2> QED BY <1>4, <2>2, UnitsAre
<1>9. c \in Nat \ {0} /\ 549755813888 = (a * b) * c
  <2>1. k1 + k2 <= 39
    BY <1>4, <1>7, <1>8
  <2>2. /\ R!Side(39) = (TwoTo[k1] * TwoTo[k2]) * R!Side(39 - k1 - k2)
        /\ R!Side(39 - k1 - k2) \in Nat \ {0}
    BY <1>4, <2>1, UnitsOf39, SMT
  <2> QED BY <2>2, LongSides
<1>10. Premultiplied("uint16", colour, alpha) = q2 \div c
  <2>1. k1 + k2 <= 39
    BY <1>4, <1>7, <1>8
  <2> QED BY <1>2, <1>3, <2>1 DEF Products
<1>11. a > 16384 => a = 32768
  BY <1>4, <1>7, UnitsAre
<1> HIDE DEF a, b, c
<1>12. q1 * a <= 549755813888
  <2>1. q1 * a <= 16777216 * a
    BY <1>4, <1>5, <1>6, Monotone, SMT
  <2> DEFINE n == q1 * a
  <2>2. n \in Nat /\ n <= 16777216 * a
    BY <1>4, <1>6, <2>1, SMT
  <2> HIDE DEF n
  <2>3. n <= 549755813888
    BY <1>6, <1>7, <2>2, SMT
  <2> QED BY <2>3 DEF n
<1>13. Twice(8388736, 549755813888, alpha, colour, q1, a, q2, b, c)
  BY <1>4, <1>5, <1>6, <1>9, <1>12, SMT DEF Twice
<1>14. q2 <= c * colour
  BY <1>13, NotAboveColour
<1>15. q2 < c * (alpha + 1)
  <2>1. a * 65535 + a * b < 2 * 549755813888
    <3>1. a * b <= 32768 * b
      BY <1>6, <1>7, Monotone, SMT
    <3> DEFINE n == a * b
    <3>2. n \in Nat /\ n <= 32768 * b
      BY <1>6, <3>1, SMT
    <3> HIDE DEF n
    <3>3. a * 65535 + n < 2 * 549755813888
      BY <1>6, <1>7, <1>8, <3>2, SMT
    <3> QED BY <3>3 DEF n
  <2>2. 2 * (8388736 * 65535) <= 2 * 549755813888 + 0 /\ 0 * 65535 + a * 65535 + a * b < 2 * 549755813888
    BY <1>6, <2>1, SMT
  <2>3. 65535 \in Nat /\ 0 \in Nat
    OBVIOUS
  <2> QED BY <1>13, <2>2, <2>3, NotAboveAlpha, SMT
<1>16. ASSUME alpha = 65535 PROVE q2 = c * colour
  <2>1. a = 32768
    BY <1>5, <1>6, <1>11, <1>16, SMT
  <2>2. q1 * a = 549755813888
    BY <1>4, <1>5, <1>16, <2>1, SMT DEF Nearest
  <2> QED BY <1>13, <2>2, OpaqueIsExact, SMT
<1>17. c * colour < c * (colour + 1) /\ c \in Nat \ {0} /\ q2 \in Nat /\ c * colour \in Nat
  <2>1. c * (colour + 1) = c * colour + c /\ c * colour \in Nat
    BY <1>9
  <2> QED BY <1>4, <1>9, <2>1
<1>18. /\ q2 \div c \in Nat
       /\ q2 < c * (colour + 1) => q2 \div c <= colour
       /\ c * colour <= q2 => q2 \div c >= colour
  BY <1>17, QuotientIs, SMT
<1>19. q2 < c * (alpha + 1) => q2 \div c <= alpha
  BY <1>17, QuotientIs, SMT
<1>20. q2 \div c <= colour
  <2>1. c * (colour + 1) \in Nat
    BY <1>9
  <2> QED BY <1>14, <1>17, <1>18, <2>1, SMT
<1>21. alpha = 65535 => q2 \div c = colour
  <2> SUFFICES ASSUME alpha = 65535 PROVE q2 \div c = colour
    OBVIOUS
  <2>1. c * colour <= q2
    BY <1>16, <1>17
  <2> QED BY <1>18, <1>20, <2>1
<1> QED
  BY <1>10, <1>15, <1>18, <1>19, <1>20, <1>21

-----------------------------------------------------------------------------
(* Halves through floats and back. *)
Float(s, e, m) == [sign |-> s, exp |-> e, mant |-> m]

IsShift(n, w) == n \in 1..10 /\ w \in Nat /\ w >= 1024 /\ w <= 2047

LEMMA ShiftsAre ==
  ASSUME NEW m \in 1..1023, NEW w, w = m * TwoTo[Shifts(m)]
  PROVE  IsShift(Shifts(m), w)
<1> DEFINE Is(n) == m * TwoTo[n] >= 1024 /\ m * TwoTo[n] <= 2047
<1>1. \E n \in 1..10 : Is(n)
  <2>1. CASE m >= 32
    <3>1. Is(1) \/ Is(2) \/ Is(3) \/ Is(4) \/ Is(5)
      BY <2>1, TwoToValues
    <3> QED BY <3>1
  <2>2. CASE m < 32
    <3>1. Is(6) \/ Is(7) \/ Is(8) \/ Is(9) \/ Is(10)
      BY <2>2, TwoToValues
    <3> QED BY <3>1
  <2> QED BY <2>1, <2>2
<1>2. PICK n \in 1..10 : Is(n)
  BY <1>1
<1>3. m * TwoTo[n] \in 1024..2047
  <2> DEFINE v == m * TwoTo[n]
  <2>1. v \in Nat
    <3>1. n \in 0..12
      OBVIOUS
    <3>2. TwoTo[n] \in Nat
      BY <3>1, TwoToSplits
    <3> QED BY <3>2
  <2>2. v >= 1024 /\ v <= 2047
    BY <1>2
  <2> HIDE DEF v
  <2>3. v \in 1024..2047
    BY <2>1, <2>2
  <2> QED BY <2>3 DEF v
<1> DEFINE Band(k) == m * TwoTo[k] \in 1024..2047
           K == 1..10
<1>4. n \in K /\ Band(n)
  BY <1>3
<1>5. Shifts(m) = CHOOSE k \in K : Band(k)
  BY DEF Shifts
<1> HIDE DEF Band, K
<1>6. Shifts(m) \in K /\ Band(Shifts(m))
  BY <1>4, <1>5, Zenon
<1>7. Shifts(m) \in 1..10 /\ w \in 1024..2047
  BY <1>6 DEF Band, K
<1> QED
  BY ONLY <1>7, SMT DEF IsShift

(* The three fields of a half. *)
LEMMA FieldsAre ==
  ASSUME NEW h \in Nat, h < 65536
  PROVE  LET s == h \div 32768
             e == (h \div 1024) % 32
             m == h % 1024
         IN  /\ s \in 0..1 /\ e \in 0..31 /\ m \in 0..1023
             /\ h = s * 32768 + e * 1024 + m
             /\ h % 32768 = e * 1024 + m
<1> DEFINE s == h \div 32768
           d == h \div 1024
           e == d % 32
           t == d \div 32
           m == h % 1024
<1>1. d \in Nat /\ m \in 0..1023 /\ h = d * 1024 + m
  BY SMT
<1>2. e \in 0..31 /\ t \in Nat /\ d = t * 32 + e
  BY <1>1, SMT
<1> HIDE DEF d, e, m, t
<1>3. h = t * 32768 + (e * 1024 + m) /\ e * 1024 + m \in Nat /\ e * 1024 + m < 32768
  BY <1>1, <1>2, SMT
<1>4. s = t /\ h % 32768 = e * 1024 + m
  BY <1>2, <1>3, SMT
<1>5. t <= 1
  BY <1>2, <1>3, SMT
<1> QED
  BY <1>1, <1>2, <1>3, <1>4, <1>5 DEF d, e, m

(* What a half is as a float. *)
Shifted(m) == (m * TwoTo[Shifts(m)]) % 1024

IsHalf(h, s, e, m) ==
  /\ s \in 0..1 /\ e \in 0..30 /\ m \in 0..1023
  /\ h = s * 32768 + e * 1024 + m /\ h % 32768 = e * 1024 + m
  /\ e = 0 /\ m = 0 => HalfToFloat(h) = Float(s, 0, 0)
  /\ e = 0 /\ m # 0 => HalfToFloat(h) = Float(s, 113 - Shifts(m), Shifted(m) * 8192)
  /\ e # 0 => HalfToFloat(h) = Float(s, e + 112, m * 8192)

LEMMA HalfIs ==
  ASSUME NEW h \in Nat, h < 65536, h % 32768 < Infinity,
         NEW s, s = h \div 32768, NEW e, e = (h \div 1024) % 32, NEW m, m = h % 1024
  PROVE  IsHalf(h, s, e, m)
<1>1. /\ s \in 0..1 /\ e \in 0..31 /\ m \in 0..1023
      /\ h = s * 32768 + e * 1024 + m /\ h % 32768 = e * 1024 + m
  BY FieldsAre
<1>2. e \in 0..30
  BY <1>1, SMT DEF Infinity
<1>3. HalfToFloat(h) =
        CASE e = 0 /\ m = 0 -> Float(s, 0, 0)
          [] e = 0 /\ m # 0 -> Float(s, 113 - Shifts(m), Shifted(m) * 8192)
          [] e = 31 -> Float(s, 255, m * 8192)
          [] OTHER -> Float(s, e + 112, m * 8192)
  BY DEF HalfToFloat, Float, Shifted
<1>4. e = 0 /\ m = 0 => HalfToFloat(h) = Float(s, 0, 0)
  BY <1>3
<1>5. e = 0 /\ m # 0 => HalfToFloat(h) = Float(s, 113 - Shifts(m), Shifted(m) * 8192)
  BY <1>3
<1>6. e # 0 => HalfToFloat(h) = Float(s, e + 112, m * 8192)
  <2>1. e # 31
    BY <1>2
  <2> QED BY <1>3, <2>1
<1> QED
  BY <1>1, <1>2, <1>4, <1>5, <1>6 DEF IsHalf

(* A float of 25 bits keeps the even ones. *)
Evened(sum) == IF sum < 16777216 THEN sum ELSE 2 * (sum \div 2 + (IF sum % 4 = 3 THEN 1 ELSE 0))

LEMMA EvenedIs ==
  ASSUME NEW sum \in Nat
  PROVE  /\ Evened(sum) \in Nat /\ Evened(sum) <= sum + 1
         /\ Evened(sum) >= sum - 1
         /\ sum % 4 = 0 => Evened(sum) = sum
         /\ Evened(sum) <= Evened(sum + 1)
<1> DEFINE q == sum \div 4
           r == sum % 4
<1>1. q \in Nat /\ r \in 0..3 /\ sum = q * 4 + r
  BY SMT
<1> HIDE DEF q, r
<1>2. /\ r = 0 => Evened(sum) = sum /\ (sum + 1 >= 16777216 => Evened(sum + 1) = sum)
                  /\ (sum + 1 < 16777216 => Evened(sum + 1) = sum + 1)
  <2> SUFFICES ASSUME r = 0
               PROVE  Evened(sum) = sum /\ (sum + 1 >= 16777216 => Evened(sum + 1) = sum)
                      /\ (sum + 1 < 16777216 => Evened(sum + 1) = sum + 1)
    BY SMT
  <2>1. /\ sum \div 2 = 2 * q /\ sum % 4 = 0 /\ (sum + 1) \div 2 = 2 * q /\ (sum + 1) % 4 = 1
    BY <1>1, SMT
  <2> QED BY <1>1, <2>1, SMT DEF Evened
<1>3. /\ r = 1 => (sum >= 16777216 => Evened(sum) = sum - 1) /\ (sum < 16777216 => Evened(sum) = sum)
                  /\ Evened(sum + 1) = sum + 1
  <2> SUFFICES ASSUME r = 1
               PROVE  (sum >= 16777216 => Evened(sum) = sum - 1) /\ (sum < 16777216 => Evened(sum) = sum)
                      /\ Evened(sum + 1) = sum + 1
    BY SMT
  <2>1. /\ sum \div 2 = 2 * q /\ sum % 4 = 1 /\ (sum + 1) \div 2 = 2 * q + 1 /\ (sum + 1) % 4 = 2
    BY <1>1, SMT
  <2> QED BY <1>1, <2>1, SMT DEF Evened
<1>4. /\ r = 2 => Evened(sum) = sum /\ (sum + 1 >= 16777216 => Evened(sum + 1) = sum + 2)
                  /\ (sum + 1 < 16777216 => Evened(sum + 1) = sum + 1)
  <2> SUFFICES ASSUME r = 2
               PROVE  Evened(sum) = sum /\ (sum + 1 >= 16777216 => Evened(sum + 1) = sum + 2)
                      /\ (sum + 1 < 16777216 => Evened(sum + 1) = sum + 1)
    BY SMT
  <2>1. /\ sum \div 2 = 2 * q + 1 /\ sum % 4 = 2 /\ (sum + 1) \div 2 = 2 * q + 1 /\ (sum + 1) % 4 = 3
    BY <1>1, SMT
  <2> QED BY <1>1, <2>1, SMT DEF Evened
<1>5. /\ r = 3 => (sum >= 16777216 => Evened(sum) = sum + 1) /\ (sum < 16777216 => Evened(sum) = sum)
                  /\ Evened(sum + 1) = sum + 1
  <2> SUFFICES ASSUME r = 3
               PROVE  (sum >= 16777216 => Evened(sum) = sum + 1) /\ (sum < 16777216 => Evened(sum) = sum)
                      /\ Evened(sum + 1) = sum + 1
    BY SMT
  <2>1. /\ sum \div 2 = 2 * q + 1 /\ sum % 4 = 3 /\ (sum + 1) \div 2 = 2 * q + 2 /\ (sum + 1) % 4 = 0
    BY <1>1, SMT
  <2> QED BY <1>1, <2>1, SMT DEF Evened
<1>6. r = 0 \/ r = 1 \/ r = 2 \/ r = 3
  BY <1>1, SMT
<1>7. sum % 4 = r
  BY <1>1, SMT
<1> QED
  BY <1>2, <1>3, <1>4, <1>5, <1>6, <1>7, SMT

LEMMA EvenedGrows ==
  ASSUME NEW x \in Nat, NEW y \in Nat, x <= y
  PROVE  Evened(x) <= Evened(y)
<1> DEFINE S == {n \in Nat : Evened(x) <= Evened(x + n)}
<1>1. 0 \in S
  <2>1. x + 0 = x /\ Evened(x) \in Nat
    BY EvenedIs, SMT
  <2> QED BY <2>1, SMT
<1>2. ASSUME NEW n \in Nat, n \in S PROVE n + 1 \in S
  <2>1. x + n \in Nat /\ x + (n + 1) = (x + n) + 1
    BY SMT
  <2>2. Evened(x + n) <= Evened((x + n) + 1)
    BY <2>1, EvenedIs, SMT
  <2>3. Evened(x) \in Nat /\ Evened(x + n) \in Nat /\ Evened((x + n) + 1) \in Nat
    BY <2>1, EvenedIs, SMT
  <2> QED BY <1>2, <2>1, <2>2, <2>3, SMT
<1>3. Nat \subseteq S
  <2> HIDE DEF S
  <2> QED BY <1>1, <1>2, NatSetInduction
<1>4. y - x \in S
  BY <1>3, SMT
<1>5. x + (y - x) = y
  BY SMT
<1> QED
  BY <1>4, <1>5, SMT

LEMMA RoundedSumIs ==
  ASSUME NEW n, NEW k
  PROVE  RoundedSum(n, k) = Evened(n + TwoTo[k - 1])
BY TwoToValues, SMT DEF RoundedSum, Evened

(* The code of a float's magnitude: its least value by exponent. *)
LeastCode(e) ==
  IF e <= 101 THEN 0 ELSE IF e <= 103 THEN 1 ELSE IF e = 104 THEN 2 ELSE IF e = 105 THEN 4
  ELSE IF e = 106 THEN 8 ELSE IF e = 107 THEN 16 ELSE IF e = 108 THEN 32 ELSE IF e = 109 THEN 64
  ELSE IF e = 110 THEN 128 ELSE IF e = 111 THEN 256 ELSE IF e = 112 THEN 512
  ELSE (e - 112) * 1024

LEMMA LeastCodeGrows ==
  ASSUME NEW d \in Int, NEW e \in Int, d <= e
  PROVE  LeastCode(d) \in Nat /\ LeastCode(d) <= LeastCode(e)
BY SMT DEF LeastCode

Mantissa(m) == m \in Nat /\ m < 8388608

LEMMA PowersOfTwo ==
  ASSUME NEW k \in 14..25
  PROVE  /\ TwoTo[k] \in Nat \ {0} /\ TwoTo[k - 1] \in Nat /\ TwoTo[k] = 2 * TwoTo[k - 1]
         /\ TwoTo[k] >= 16384
         /\ TwoTo[k - 1] % 4 = 0
<1>1. \/ k = 14 \/ k = 15 \/ k = 16 \/ k = 17 \/ k = 18 \/ k = 19 \/ k = 20
      \/ k = 21 \/ k = 22 \/ k = 23 \/ k = 24 \/ k = 25
  BY SMT
<1> QED
  BY <1>1, TwoToValues, SMT

(* A power of two times the least code is the first float of an exponent. *)
LEMMA LeastCodeIs ==
  ASSUME NEW k \in 14..25
  PROVE  /\ k <= 23 => TwoTo[k] * LeastCode(126 - k) = 8388608
         /\ k <= 24 => TwoTo[k] * LeastCode(127 - k) = 16777216
         /\ k = 24 => TwoTo[k] = 16777216 /\ LeastCode(126 - k) = 1
         /\ k = 25 => TwoTo[k] = 33554432 /\ LeastCode(126 - k) = 0 /\ LeastCode(127 - k) = 1
<1>1. \/ k = 14 \/ k = 15 \/ k = 16 \/ k = 17 \/ k = 18 \/ k = 19 \/ k = 20
      \/ k = 21 \/ k = 22 \/ k = 23 \/ k = 24 \/ k = 25
  BY SMT
<1>2. /\ TwoTo[14] = 16384 /\ TwoTo[15] = 32768 /\ TwoTo[16] = 65536
      /\ TwoTo[17] = 131072 /\ TwoTo[18] = 262144 /\ TwoTo[19] = 524288
      /\ TwoTo[20] = 1048576 /\ TwoTo[21] = 2097152 /\ TwoTo[22] = 4194304
      /\ TwoTo[23] = 8388608 /\ TwoTo[24] = 16777216 /\ TwoTo[25] = 33554432
  BY TwoToValues, SMT
<1>3. /\ LeastCode(112) = 512 /\ LeastCode(111) = 256 /\ LeastCode(110) = 128 /\ LeastCode(109) = 64
      /\ LeastCode(108) = 32 /\ LeastCode(107) = 16 /\ LeastCode(106) = 8 /\ LeastCode(105) = 4
      /\ LeastCode(104) = 2 /\ LeastCode(103) = 1 /\ LeastCode(102) = 1 /\ LeastCode(101) = 0
      /\ LeastCode(113) = 1024
  BY SMT DEF LeastCode
<1> QED
  BY <1>1, <1>2, <1>3, SMT

LEMMA SubnormalIs ==
  ASSUME NEW s, NEW e \in Int, NEW m, Mantissa(m)
  PROVE  /\ 126 - e > 25 => Subnormal(Float(s, e, m)) = 0
         /\ 126 - e \in 14..25 =>
              Subnormal(Float(s, e, m)) =
                Evened(8388608 + m + TwoTo[126 - e - 1]) \div TwoTo[126 - e]
<1>1. Float(s, e, m).exp = e /\ Float(s, e, m).mant = m
  BY DEF Float
<1>2. TwoTo[23] = 8388608
  BY TwoToValues
<1>3. RoundedSum(8388608 + m, 126 - e) = Evened(8388608 + m + TwoTo[126 - e - 1])
  BY RoundedSumIs
<1>4. Subnormal(Float(s, e, m)) =
        LET k == 126 - e IN IF k > 25 THEN 0 ELSE RoundedSum(TwoTo[23] + m, k) \div TwoTo[k]
  BY <1>1 DEF Subnormal
<1> QED
  BY <1>2, <1>3, <1>4, SMT

(* A subnormal half is between the least of its exponent and of the next. *)
LEMMA SubnormalBetween ==
  ASSUME NEW s, NEW e \in Int, e <= 112, NEW m, Mantissa(m)
  PROVE  /\ Subnormal(Float(s, e, m)) \in Nat
         /\ LeastCode(e) <= Subnormal(Float(s, e, m))
         /\ Subnormal(Float(s, e, m)) <= LeastCode(e + 1)
<1>1. CASE 126 - e > 25
  <2>1. Subnormal(Float(s, e, m)) = 0
    BY <1>1, SubnormalIs
  <2> QED BY <1>1, <2>1, SMT DEF LeastCode
<1>2. CASE 126 - e \in 14..25
  <2> DEFINE k == 126 - e
             P == TwoTo[k]
             Q == TwoTo[k - 1]
             sum == 8388608 + m + Q
             E == Evened(sum)
  <2>0. k \in 14..25 /\ e = 126 - k /\ e + 1 = 127 - k
    BY <1>2, SMT
  <2>1. P \in Nat \ {0} /\ Q \in Nat /\ P = 2 * Q /\ P >= 16384
    BY <2>0, PowersOfTwo
  <2>2. /\ k <= 23 => P * LeastCode(e) = 8388608
        /\ k <= 24 => P * LeastCode(e + 1) = 16777216
        /\ k = 24 => P = 16777216 /\ LeastCode(e) = 1
        /\ k = 25 => P = 33554432 /\ LeastCode(e) = 0 /\ LeastCode(e + 1) = 1
    BY <2>0, LeastCodeIs
  <2>3. LeastCode(e) \in Nat /\ LeastCode(e + 1) \in Nat
    BY LeastCodeGrows, SMT
  <2>4. Subnormal(Float(s, e, m)) = E \div P
    BY <1>2, SubnormalIs, SMT
  <2>5. k \in Int /\ k <= 25 /\ k >= 14
    BY <2>0, SMT
  <2>6. m \in Nat /\ m < 8388608
    BY DEF Mantissa
  <2>7. sum \in Nat
    BY <2>1, <2>6, SMT DEF sum
  <2>8. E \in Nat /\ E <= sum + 1 /\ E >= sum - 1
    BY <2>7, EvenedIs
  <2>9. sum >= 16777216 => E >= 16777216
    <3> SUFFICES ASSUME sum >= 16777216 PROVE E >= 16777216
      OBVIOUS
    <3>1. Evened(16777216) = 16777216
      <4>1. 16777216 % 4 = 0
        BY SMT
      <4> QED BY <4>1, EvenedIs, SMT
    <3>2. Evened(16777216) <= E
      BY <2>7, EvenedGrows, SMT
    <3> QED BY <2>8, <3>1, <3>2, SMT
  <2>10. sum = 8388608 + m + Q
    OBVIOUS
  <2> HIDE DEF E, sum, P, Q, k
  <2>11. P * (LeastCode(e + 1) + 1) = P * LeastCode(e + 1) + P /\ P * 1 = P /\ P * 0 = 0 /\ P * (1 + 1) = 2 * P
    BY <2>1, <2>3, SMT
  <2>12. E < P * (LeastCode(e + 1) + 1)
    <3>1. CASE k <= 24
      <4>1. P * (LeastCode(e + 1) + 1) = 16777216 + P
        BY <2>2, <2>11, <3>1
      <4> QED BY <2>1, <2>6, <2>8, <2>10, <4>1, SMT
    <3>2. CASE k = 25
      <4>1. P * (LeastCode(e + 1) + 1) = 2 * P /\ P = 33554432
        BY <2>2, <2>11, <3>2
      <4> QED BY <2>1, <2>6, <2>8, <2>10, <4>1, SMT
    <3> QED BY <2>5, <3>1, <3>2, SMT
  <2>13. P * LeastCode(e) <= E
    <3>1. CASE k <= 23
      <4>1. P * LeastCode(e) = 8388608
        BY <2>2, <3>1
      <4> QED BY <2>1, <2>6, <2>8, <2>10, <4>1, SMT
    <3>2. CASE k = 24
      <4>1. P * LeastCode(e) = P /\ P = 16777216
        BY <2>2, <2>11, <3>2
      <4> QED BY <2>1, <2>6, <2>9, <2>10, <4>1, SMT
    <3>3. CASE k = 25
      <4>1. P * LeastCode(e) = 0
        BY <2>2, <2>11, <3>3
      <4> QED BY <2>8, <4>1, SMT
    <3> QED BY <2>5, <3>1, <3>2, <3>3, SMT
  <2>14. E \div P \in Nat /\ E \div P <= LeastCode(e + 1) /\ E \div P >= LeastCode(e)
    BY <2>1, <2>3, <2>8, <2>12, <2>13, QuotientIs
  <2> QED BY <2>3, <2>4, <2>14, SMT
<1> QED
  BY <1>1, <1>2, SMT

LEMMA QuotientGrows ==
  ASSUME NEW x \in Nat, NEW y \in Nat, x <= y, NEW c \in Nat \ {0}
  PROVE  x \div c <= y \div c
<1> DEFINE d == x \div c
           r == x % c
<1>1. d \in Nat /\ r \in 0..(c - 1) /\ x = c * d + r
  BY DivModNat
<1> HIDE DEF d, r
<1>2. c * d <= y /\ c * d \in Nat
  BY <1>1
<1>3. y \div c >= d
  BY <1>1, <1>2, QuotientIs
<1>4. y \div c \in Nat
  BY QuotientIs
<1> QED
  BY <1>1, <1>3, <1>4 DEF d

LEMMA SubnormalGrows ==
  ASSUME NEW s, NEW e \in Int, e <= 112, NEW m, Mantissa(m), NEW n, Mantissa(n), m <= n
  PROVE  Subnormal(Float(s, e, m)) <= Subnormal(Float(s, e, n))
<1>1. CASE 126 - e > 25
  <2>1. Subnormal(Float(s, e, m)) = 0 /\ Subnormal(Float(s, e, n)) = 0
    BY <1>1, SubnormalIs
  <2> QED BY <2>1, SMT
<1>2. CASE 126 - e \in 14..25
  <2> DEFINE P == TwoTo[126 - e]
             Q == TwoTo[126 - e - 1]
             x == 8388608 + m + Q
             y == 8388608 + n + Q
  <2>1. P \in Nat \ {0} /\ Q \in Nat
    BY <1>2, PowersOfTwo
  <2>2. m \in Nat /\ n \in Nat
    BY DEF Mantissa
  <2>3. Subnormal(Float(s, e, m)) = Evened(x) \div P /\ Subnormal(Float(s, e, n)) = Evened(y) \div P
    BY <1>2, SubnormalIs
  <2>4. x \in Nat /\ y \in Nat /\ x <= y
    BY <2>1, <2>2, SMT
  <2> HIDE DEF x, y, P, Q
  <2>5. Evened(x) <= Evened(y) /\ Evened(x) \in Nat /\ Evened(y) \in Nat
    BY <2>4, EvenedGrows, EvenedIs
  <2> QED BY <2>1, <2>3, <2>5, QuotientGrows
<1> QED
  BY <1>1, <1>2, SMT

(* Floats of magnitude below 2^16, and their codes. *)
Code(e, m) == IF e <= 112 THEN Subnormal(Float(0, e, m)) ELSE (e - 112) * 1024 + (m + 4096) \div 8192

LEMMA CodeIs ==
  ASSUME NEW s \in 0..1, NEW e \in 1..142, NEW m, Mantissa(m)
  PROVE  FloatToHalf(Float(s, e, m)) = s * 32768 + Code(e, m)
<1> DEFINE f == Float(s, e, m)
<1>1. f.sign = s /\ f.exp = e /\ f.mant = m
  BY DEF Float
<1>2. Subnormal(f) = Subnormal(Float(0, e, m))
  BY DEF Subnormal, Float
<1>3. FloatToHalf(f) =
        CASE e = 0 /\ m = 0 -> 0
          [] e \in 113..142 -> s * 32768 + (e - 112) * 1024 + RoundedMantissa(f)
          [] OTHER -> s * 32768 + FloatToHalfExcept(f)
  BY <1>1 DEF FloatToHalf
<1>4. RoundedMantissa(f) = (m + 4096) \div 8192
  BY <1>1 DEF RoundedMantissa
<1>5. e <= 112 => FloatToHalfExcept(f) = Subnormal(f)
  BY <1>1 DEF FloatToHalfExcept
<1> HIDE DEF f
<1>6. CASE e <= 112
  <2>1. e # 0 /\ e \notin 113..142
    BY <1>6, SMT
  <2>2. FloatToHalf(f) = s * 32768 + FloatToHalfExcept(f)
    BY <1>3, <2>1, SMT
  <2> QED BY <1>2, <1>5, <1>6, <2>2 DEF f, Code
<1>7. CASE e > 112
  <2>1. e # 0 /\ e \in 113..142
    BY <1>7, SMT
  <2>2. FloatToHalf(f) = s * 32768 + (e - 112) * 1024 + RoundedMantissa(f)
    BY <1>3, <2>1, SMT
  <2>3. (m + 4096) \div 8192 \in Int
    BY SMT DEF Mantissa
  <2>4. Code(e, m) = (e - 112) * 1024 + (m + 4096) \div 8192
    BY <1>7, SMT DEF Code
  <2> QED BY <1>4, <2>2, <2>3, <2>4, SMT DEF f
<1> QED
  BY <1>6, <1>7, SMT

LEMMA CodeBetween ==
  ASSUME NEW e \in 1..142, NEW m, Mantissa(m)
  PROVE  Code(e, m) \in Nat /\ LeastCode(e) <= Code(e, m) /\ Code(e, m) <= LeastCode(e + 1)
<1>1. CASE e <= 112
  BY <1>1, SubnormalBetween, SMT DEF Code
<1>2. CASE e > 112
  <2>1. (m + 4096) \div 8192 \in 0..1024
    BY SMT DEF Mantissa
  <2> DEFINE r == (m + 4096) \div 8192
  <2>2. Code(e, m) = (e - 112) * 1024 + r /\ LeastCode(e) = (e - 112) * 1024
        /\ LeastCode(e + 1) = (e + 1 - 112) * 1024
    BY <1>2, SMT DEF Code, LeastCode
  <2> HIDE DEF r
  <2>3. r \in 0..1024
    BY <2>1 DEF r
  <2> QED BY <1>2, <2>2, <2>3, SMT
<1> QED
  BY <1>1, <1>2, SMT

(* A greater magnitude never has a smaller code. *)
LEMMA CodeGrows ==
  ASSUME NEW d \in 1..142, NEW e \in 1..142, NEW m, Mantissa(m), NEW n, Mantissa(n),
         d < e \/ (d = e /\ m <= n)
  PROVE  Code(d, m) <= Code(e, n)
<1>1. CASE d < e
  <2>1. LeastCode(d + 1) <= LeastCode(e) /\ LeastCode(e) \in Nat /\ LeastCode(d + 1) \in Nat
    BY <1>1, LeastCodeGrows, SMT
  <2>2. Code(d, m) \in Nat /\ Code(d, m) <= LeastCode(d + 1) /\ Code(e, n) \in Nat /\ LeastCode(e) <= Code(e, n)
    BY CodeBetween
  <2> QED BY <2>1, <2>2, SMT
<1>2. CASE d = e /\ m <= n
  <2>1. CASE e <= 112
    BY <1>2, <2>1, SubnormalGrows DEF Code
  <2>2. CASE e > 112
    <3>1. (m + 4096) \div 8192 <= (n + 4096) \div 8192
          /\ (m + 4096) \div 8192 \in Int /\ (n + 4096) \div 8192 \in Int
      BY <1>2, SMT DEF Mantissa
    <3> QED BY <1>2, <2>2, <3>1, SMT DEF Code
  <2> QED BY <2>1, <2>2, SMT
<1> QED
  BY <1>1, <1>2

HasFields(h, s, x, xm) ==
  s \in 0..1 /\ x \in 103..142 /\ xm \in 0..1023 /\ HalfToFloat(h) = Float(s, x, xm * 8192)

(* A half that is not zero as a float, with ten bits of mantissa. *)
IsFloat(h, s, x, xm) ==
  /\ HasFields(h, s, x, xm)
  /\ FloatToHalf(Float(s, x, xm * 8192)) = h
  /\ h <= 15360 => s = 0 /\ x <= 127 /\ (x = 127 => xm = 0)

IsSubnormal(m, n, xm) == 113 - n \in 103..112 /\ xm \in 0..1023 /\ Code(113 - n, xm * 8192) = m

IsRest(r, m, n) == r = (m * TwoTo[n]) % 1024

LEMMA TenBits ==
  ASSUME NEW w \in Nat, w >= 1024, w <= 2047
  PROVE  w % 1024 \in 0..1023 /\ w = 1024 + (w % 1024)
BY SMT

LEMMA SubnormalAsFloat ==
  ASSUME NEW m \in 1..1023, NEW n, n = Shifts(m), NEW xm, IsRest(xm, m, n)
  PROVE  IsSubnormal(m, n, xm)
<1> DEFINE w == m * TwoTo[n]
           P == TwoTo[13 + n]
           Q == TwoTo[12 + n]
<1>1. n \in 1..10 /\ w \in 1024..2047
  <2>0. w = m * TwoTo[Shifts(m)]
    OBVIOUS
  <2> HIDE DEF w
  <2>1. IsShift(n, w)
    BY <2>0, ShiftsAre
  <2> QED BY <2>1, SMT DEF IsShift
<1>2. xm \in 0..1023 /\ w = 1024 + xm
  <2>1. xm = w % 1024
    BY DEF IsRest
  <2> HIDE DEF w
  <2>2. w \in Nat /\ w >= 1024 /\ w <= 2047
    BY <1>1, SMT
  <2> QED BY <2>1, <2>2, TenBits
<1>3. P = 8192 * TwoTo[n] /\ TwoTo[n] \in Nat /\ P = 2 * Q /\ Q \in Nat /\ Q % 4 = 0 /\ Q > 0
  <2>1. \/ n = 1 \/ n = 2 \/ n = 3 \/ n = 4 \/ n = 5 \/ n = 6 \/ n = 7 \/ n = 8 \/ n = 9 \/ n = 10
    BY <1>1, SMT
  <2> QED BY <2>1, TwoToValues, SMT
<1>4. 126 - (113 - n) = 13 + n /\ 126 - (113 - n) - 1 = 12 + n /\ 13 + n \in 14..25
      /\ 113 - n \in 103..112 /\ 113 - n <= 112 /\ 113 - n \in Int
  BY <1>1, SMT
<1>5. Mantissa(xm * 8192)
  <2>1. xm \in 0..1023
    BY <1>2, Zenon
  <2> HIDE DEF w, P, Q
  <2> QED BY <2>1, SMT DEF Mantissa
<1> DEFINE sum == 8388608 + xm * 8192 + Q
<1>6. Code(113 - n, xm * 8192) = Evened(sum) \div P
  BY <1>4, <1>5, SubnormalIs DEF Code
<1>7. 8388608 + xm * 8192 = P * m
  <2>1. 8192 * w = P * m
    BY <1>3
  <2> HIDE DEF w, P
  <2> QED BY <1>1, <1>2, <2>1, SMT
<1>8. sum = P * m + Q
  BY <1>7
<1> HIDE DEF sum, P, Q, w
<1>9. sum \in Nat /\ sum % 4 = 0
  <2> DEFINE c == Q \div 4
  <2>1. c \in Nat /\ Q = 4 * c
    BY <1>3, SMT
  <2> HIDE DEF c
  <2>2. sum = 4 * (2 * c * m + c) /\ 2 * c * m + c \in Nat
    BY <1>3, <1>8, <2>1, SMT
  <2> DEFINE t == 2 * c * m + c
  <2> HIDE DEF t
  <2>3. sum = 4 * t /\ t \in Nat
    BY <2>2 DEF t
  <2> QED BY <2>3, SMT
<1>10. Evened(sum) = sum
  BY <1>9, EvenedIs
<1>11. sum \div P = m
  <2>1. P \in Nat \ {0} /\ P * (m + 1) = P * m + P /\ P * m \in Nat
    BY <1>3, SMT
  <2>2. sum < P * (m + 1) /\ P * m <= sum
    BY <1>3, <1>8, <2>1, SMT
  <2>3. sum \div P <= m /\ sum \div P >= m /\ sum \div P \in Nat
    BY <1>9, <2>1, <2>2, QuotientIs, SMT
  <2> QED BY <2>3, SMT
<1> QED
  BY <1>2, <1>4, <1>6, <1>10, <1>11 DEF IsSubnormal

(* Every half that is not zero, subnormal or not, goes to a float and back.*)
LEMMA ThereAndBack ==
  ASSUME NEW h \in Nat, h < 65536, h % 32768 < Infinity, h % 32768 # 0
  PROVE  \E s, x, xm : IsFloat(h, s, x, xm)
<1> DEFINE s == h \div 32768
           e == (h \div 1024) % 32
           m == h % 1024
<1>8. s = h \div 32768 /\ e = (h \div 1024) % 32 /\ m = h % 1024
  OBVIOUS
<1> HIDE DEF s, e, m
<1>9. IsHalf(h, s, e, m)
  BY <1>8, HalfIs
<1> DEFINE n == Shifts(m)
           w == Shifted(m)
<1>1. /\ s \in 0..1 /\ e \in 0..30 /\ m \in 0..1023
      /\ h = s * 32768 + e * 1024 + m /\ h % 32768 = e * 1024 + m
      /\ e = 0 /\ m # 0 => HalfToFloat(h) = Float(s, 113 - n, w * 8192)
      /\ e # 0 => HalfToFloat(h) = Float(s, e + 112, m * 8192)
  BY <1>9 DEF IsHalf
<1>2. m \in 1..1023 => 113 - n \in 103..112 /\ w \in 0..1023 /\ Code(113 - n, w * 8192) = m
  <2> SUFFICES ASSUME m \in 1..1023
               PROVE  113 - n \in 103..112 /\ w \in 0..1023 /\ Code(113 - n, w * 8192) = m
    OBVIOUS
  <2>1. n = Shifts(m) /\ IsRest(w, m, n)
    BY DEF IsRest, Shifted
  <2> HIDE DEF n, w
  <2>2. IsSubnormal(m, n, w)
    BY <2>1, SubnormalAsFloat
  <2> QED BY <2>2 DEF IsSubnormal
<1> HIDE DEF n, w
<1>3. CASE e = 0
  <2>1. m \in 1..1023 /\ h = s * 32768 + m
    BY <1>1, <1>3, SMT
  <2>2. Mantissa(w * 8192) /\ 113 - n \in 1..142 /\ 113 - n \in 103..142 /\ 113 - n <= 112
    <3>1. 113 - n \in 103..112 /\ w \in 0..1023
      BY <1>2, <2>1
    <3> QED BY ONLY <3>1, SMT DEF Mantissa
  <2>3. FloatToHalf(Float(s, 113 - n, w * 8192)) = h
    BY <1>1, <1>2, <2>1, <2>2, CodeIs
  <2>4. h <= 15360 => s = 0
    BY <1>1, <2>1, SMT
  <2>5. HalfToFloat(h) = Float(s, 113 - n, w * 8192)
    BY <1>1, <1>3, <2>1, SMT
  <2>6. 113 - n <= 127 /\ 113 - n # 127
    BY <2>2, SMT
  <2>7. IsFloat(h, s, 113 - n, w)
    BY <1>1, <1>2, <2>1, <2>2, <2>3, <2>4, <2>5, <2>6 DEF IsFloat, HasFields
  <2> QED BY <2>7
<1>4. CASE e # 0
  <2>1. Mantissa(m * 8192) /\ e + 112 \in 1..142 /\ e + 112 \in 103..142 /\ e + 112 > 112
    BY <1>1, <1>4, SMT DEF Mantissa
  <2>2. (m * 8192 + 4096) \div 8192 = m
    BY <1>1, SMT
  <2>3. Code(e + 112, m * 8192) = e * 1024 + m
    BY <1>1, <2>1, <2>2, SMT DEF Code
  <2>4. FloatToHalf(Float(s, e + 112, m * 8192)) = h
    <3>1. FloatToHalf(Float(s, e + 112, m * 8192)) = s * 32768 + Code(e + 112, m * 8192)
      BY <1>1, <2>1, CodeIs
    <3> QED BY <1>1, <2>3, <3>1, SMT
  <2>5. h <= 15360 => s = 0 /\ e + 112 <= 127 /\ (e + 112 = 127 => m = 0)
    BY <1>1, SMT
  <2>6. IsFloat(h, s, e + 112, m)
    BY <1>1, <1>4, <2>1, <2>4, <2>5 DEF IsFloat, HasFields
  <2> QED BY <2>6
<1> QED
  BY <1>3, <1>4

LEMMA ZeroHalf ==
  ASSUME NEW h \in Nat, h < 65536, h % 32768 = 0
  PROVE  HalfToFloat(h).exp = 0 /\ h \in {0, 32768}
<1>1. h % 32768 < Infinity
  BY SMT DEF Infinity
<1> DEFINE s == h \div 32768
           e == (h \div 1024) % 32
           m == h % 1024
<1>8. s = h \div 32768 /\ e = (h \div 1024) % 32 /\ m = h % 1024
  OBVIOUS
<1> HIDE DEF s, e, m
<1>9. IsHalf(h, s, e, m)
  BY <1>1, <1>8, HalfIs
<1>2. /\ s \in 0..1 /\ e \in 0..30 /\ m \in 0..1023
      /\ h = s * 32768 + e * 1024 + m /\ h % 32768 = e * 1024 + m
      /\ e = 0 /\ m = 0 => HalfToFloat(h) = Float(s, 0, 0)
  BY <1>9 DEF IsHalf
<1>3. e = 0 /\ m = 0
  BY <1>2, SMT
<1>4. h = s * 32768
  BY <1>2, <1>3, SMT
<1>5. HalfToFloat(h) = Float(s, 0, 0)
  BY <1>2, <1>3
<1> QED
  BY <1>2, <1>4, <1>5, SMT DEF Float

HasTenBits(m) == m \in 0..1023
Times(c, m, n) == c = m * n
Product(c, m, n) == c = (1024 + m) * (1024 + n)

Mantissas(xm, ym, q, p) ==
  /\ p \in Nat /\ q \in Nat /\ p = 1048576 + 1024 * xm + 1024 * ym + q
  /\ q <= 1023 * xm /\ q <= 1023 * ym
  /\ xm = 0 => q = 0
  /\ ym = 0 => q = 0

LEMMA TwoMantissas ==
  ASSUME NEW xm, HasTenBits(xm), NEW ym, HasTenBits(ym),
         NEW q, Times(q, xm, ym), NEW p, Product(p, xm, ym)
  PROVE  Mantissas(xm, ym, q, p)
<1>1. xm \in Nat /\ ym \in Nat /\ 1023 - xm \in Nat /\ 1023 - ym \in Nat
  BY DEF HasTenBits
<1> DEFINE d == 1023 - xm
           e == 1023 - ym
<1>2. xm = 1023 - d /\ ym = 1023 - e /\ d \in Nat /\ e \in Nat
  BY <1>1, SMT
<1> p = (1024 + xm) * (1024 + ym) /\ q = xm * ym
  BY DEF Times, Product
<1>3. (1024 + xm) * (1024 + ym) = 1048576 + 1024 * xm + 1024 * ym + xm * ym /\ xm * ym \in Nat
  BY <1>1
<1>4. xm * e \in Nat /\ d * ym \in Nat
  BY <1>1
<1>5. xm * e = 1023 * xm - xm * ym /\ d * ym = 1023 * ym - xm * ym
  BY <1>1
<1>6. (xm = 0 => xm * ym = 0) /\ (ym = 0 => xm * ym = 0)
  BY <1>1
<1> HIDE DEF d, e
<1> DEFINE f == xm * e
           g == d * ym
<1>7. q \in Nat /\ f \in Nat /\ g \in Nat /\ f = 1023 * xm - q /\ g = 1023 * ym - q
  BY <1>3, <1>4, <1>5
<1>8. p = 1048576 + 1024 * xm + 1024 * ym + q /\ (xm = 0 => q = 0) /\ (ym = 0 => q = 0)
  BY <1>3, <1>6
<1> HIDE DEF f, g
<1>9. q <= 1023 * xm /\ q <= 1023 * ym
  BY <1>1, <1>7
<1>10. p \in Nat
  BY <1>1, <1>7, <1>8
<1> QED
  BY <1>7, <1>8, <1>9, <1>10 DEF Mantissas

IsProduct(f, s, e, p) ==
  /\ p < 2097152 => f = Float(s, e - 127, 8 * p - 8388608)
  /\ p >= 2097152 => f = Float(s, e - 126, 4 * p - 8388608)

LEMMA ProductIs ==
  ASSUME NEW a, NEW b, NEW s, NEW x, NEW xm, HasFields(a, s, x, xm),
         NEW t, NEW y, NEW ym, HasFields(b, t, y, ym),
         NEW p, Product(p, xm, ym), NEW u, u = (s + t) % 2, NEW e, e = x + y
  PROVE  IsProduct(HalfProduct(a, b), u, e, p)
<1> /\ s \in 0..1 /\ x \in 103..142 /\ xm \in 0..1023
    /\ t \in 0..1 /\ y \in 103..142 /\ ym \in 0..1023
    /\ HalfToFloat(a) = Float(s, x, xm * 8192) /\ HalfToFloat(b) = Float(t, y, ym * 8192)
  BY DEF HasFields
<1> DEFINE X == HalfToFloat(a)
           Y == HalfToFloat(b)
<1>1. X.sign = s /\ X.exp = x /\ X.mant = xm * 8192 /\ Y.sign = t /\ Y.exp = y /\ Y.mant = ym * 8192
  BY DEF Float
<1>2. X.mant \div 8192 = xm /\ Y.mant \div 8192 = ym
  BY <1>1, SMT
<1>3. TwoTo[21] = 2097152 /\ TwoTo[23] = 8388608
  BY TwoToValues
<1>4. HalfProduct(a, b) =
        CASE x = 0 \/ y = 0 -> Float(0, 0, 0)
          [] x > 0 /\ y > 0 /\ p < 2097152 -> Float((s + t) % 2, x + y - 127, 8 * p - 8388608)
          [] OTHER -> Float((s + t) % 2, x + y - 126, 4 * p - 8388608)
  BY <1>1, <1>2, <1>3 DEF HalfProduct, Float, Product
<1>5. p \in Nat
  <2> DEFINE q == xm * ym
  <2>1. Times(q, xm, ym) /\ HasTenBits(xm) /\ HasTenBits(ym)
    BY DEF Times, HasTenBits
  <2> HIDE DEF q
  <2>2. Mantissas(xm, ym, q, p)
    BY <2>1, TwoMantissas
  <2> QED BY <2>2 DEF Mantissas
<1>6. x # 0 /\ y # 0 /\ x > 0 /\ y > 0
  BY SMT
<1>7. p < 2097152 => HalfProduct(a, b) = Float((s + t) % 2, x + y - 127, 8 * p - 8388608)
  BY <1>4, <1>5, <1>6, SMT
<1>8. p >= 2097152 => HalfProduct(a, b) = Float((s + t) % 2, x + y - 126, 4 * p - 8388608)
  <2>1. p >= 2097152 => ~(p < 2097152)
    BY <1>5, SMT
  <2> QED BY <1>4, <1>6, <2>1, SMT
<1> QED
  BY <1>7, <1>8 DEF IsProduct

LEMMA ProductWithZero ==
  ASSUME NEW a, NEW b, HalfToFloat(a).exp = 0 \/ HalfToFloat(b).exp = 0
  PROVE  FloatToHalf(HalfProduct(a, b)) = 0
<1>1. HalfProduct(a, b) = [sign |-> 0, exp |-> 0, mant |-> 0]
  BY SMT DEF HalfProduct
<1> QED
  BY <1>1, SMT DEF FloatToHalf

(* The product of two halves of up to 1.0 is a float not above either. *)
AtMostOne(x, xm) == x \in 103..127 /\ xm \in 0..1023 /\ (x = 127 => xm = 0)

IsBelow(x, xm, e, m) ==
  /\ e \in 1..142 /\ Mantissa(m)
  /\ e < x \/ (e = x /\ m <= xm * 8192)

NotAboveFirst(x, xm, e, p) ==
  /\ p \in Nat
  /\ p < 2097152 => IsBelow(x, xm, e - 127, 8 * p - 8388608)
  /\ p >= 2097152 => IsBelow(x, xm, e - 126, 4 * p - 8388608)

LEMMA ProductNotAbove ==
  ASSUME NEW x, NEW xm, NEW y, NEW ym, AtMostOne(x, xm), AtMostOne(y, ym), NEW p, Product(p, xm, ym), NEW e, e = x + y
  PROVE  NotAboveFirst(x, xm, e, p)
<1> /\ x \in 103..127 /\ xm \in 0..1023 /\ y \in 103..127 /\ ym \in 0..1023
    /\ x = 127 => xm = 0
    /\ y = 127 => ym = 0
  BY DEF AtMostOne
<1> DEFINE q == xm * ym
<1>1. Mantissas(xm, ym, q, p)
  <2>1. Times(q, xm, ym) /\ HasTenBits(xm) /\ HasTenBits(ym)
    BY DEF Times, HasTenBits
  <2> HIDE DEF q
  <2> QED BY <2>1, TwoMantissas
<1> HIDE DEF q
<1>2. xm \in Nat /\ xm <= 1023 /\ ym \in Nat /\ ym <= 1023 /\ x \in Nat /\ x >= 103 /\ x <= 127
      /\ y \in Nat /\ y >= 103 /\ y <= 127
  OBVIOUS
<1> SUFFICES ASSUME NEW p1, NEW xn \in Nat, NEW yn \in Nat, NEW q1,
                    Mantissas(xn, yn, q1, p1), xn <= 1023, yn <= 1023,
                    y = 127 => yn = 0, x = 127 => xn = 0
             PROVE  NotAboveFirst(x, xn, x + y, p1)
  BY <1>1, <1>2
<1>3. /\ p1 \in Nat /\ q1 \in Nat /\ p1 = 1048576 + 1024 * xn + 1024 * yn + q1
      /\ q1 <= 1023 * xn /\ q1 <= 1023 * yn
      /\ y = 127 => yn = 0 /\ q1 = 0
      /\ x = 127 => xn = 0 /\ q1 = 0
  BY DEF Mantissas
<1>5. x + y - 127 \in 1..142 /\ x + y - 126 \in 1..142
  BY <1>2, SMT
<1>6. ASSUME p1 < 2097152 PROVE IsBelow(x, xn, x + y - 127, 8 * p1 - 8388608)
  <2>1. Mantissa(8 * p1 - 8388608)
    BY <1>3, <1>6, SMT DEF Mantissa
  <2>2. x + y - 127 < x \/ (x + y - 127 = x /\ 8 * p1 - 8388608 <= xn * 8192)
    BY <1>2, <1>3, <1>6, SMT
  <2> QED BY <1>5, <2>1, <2>2 DEF IsBelow
<1>7. ASSUME p1 >= 2097152 PROVE IsBelow(x, xn, x + y - 126, 4 * p1 - 8388608)
  <2>1. Mantissa(4 * p1 - 8388608)
    BY <1>3, <1>7, SMT DEF Mantissa
  <2>2. y # 127 /\ x # 127
    BY <1>3, <1>7, SMT
  <2>3. x + y - 126 < x \/ (x + y - 126 = x /\ 4 * p1 - 8388608 <= xn * 8192)
    BY <1>2, <1>3, <2>2, SMT
  <2> QED BY <1>5, <2>1, <2>3 DEF IsBelow
<1> QED
  BY <1>3, <1>6, <1>7 DEF NotAboveFirst

LEMMA HalfNotAbove ==
  ASSUME NEW a \in Nat, a <= 15360, NEW b \in Nat, b <= 15360
  PROVE  FloatToHalf(HalfProduct(a, b)) \in Nat /\ FloatToHalf(HalfProduct(a, b)) <= a
<1>1. a < 65536 /\ b < 65536 /\ a % 32768 = a /\ b % 32768 = b /\ a < Infinity /\ b < Infinity
  BY SMT DEF Infinity
<1>2. CASE a = 0 \/ b = 0
  <2>1. HalfToFloat(a).exp = 0 \/ HalfToFloat(b).exp = 0
    BY <1>1, <1>2, ZeroHalf
  <2>2. FloatToHalf(HalfProduct(a, b)) = 0
    BY <2>1, ProductWithZero
  <2> QED BY <2>2, SMT
<1>3. CASE a # 0 /\ b # 0
  <2>1. PICK s, x, xm : IsFloat(a, s, x, xm)
    BY <1>1, <1>3, ThereAndBack
  <2>2. PICK t, y, ym : IsFloat(b, t, y, ym)
    BY <1>1, <1>3, ThereAndBack
  <2>3. /\ s = 0 /\ t = 0 /\ x \in 103..127 /\ y \in 103..127 /\ xm \in 0..1023 /\ ym \in 0..1023
        /\ x = 127 => xm = 0
        /\ y = 127 => ym = 0
    BY <2>1, <2>2, SMT DEF IsFloat, HasFields
  <2>4. HalfToFloat(a) = Float(0, x, xm * 8192) /\ HalfToFloat(b) = Float(0, y, ym * 8192)
        /\ FloatToHalf(Float(0, x, xm * 8192)) = a
    BY <2>1, <2>2, <2>3 DEF IsFloat, HasFields
  <2>5. 0 \in 0..1 /\ x \in 103..142 /\ y \in 103..142 /\ x \in 1..142 /\ (0 + 0) % 2 = 0
    BY <2>3, SMT
  <2> DEFINE p == (1024 + xm) * (1024 + ym)
             e1 == x + y
  <2>14. Product(p, xm, ym) /\ e1 = x + y /\ 0 = (0 + 0) % 2
    BY <2>5 DEF Times, Product
  <2>15. HasFields(a, 0, x, xm) /\ HasFields(b, 0, y, ym)
    BY <2>1, <2>2, <2>3 DEF IsFloat
  <2> HIDE DEF p, e1
  <2>6. IsProduct(HalfProduct(a, b), 0, e1, p)
    BY <2>14, <2>15, ProductIs
  <2>7. NotAboveFirst(x, xm, e1, p)
    <3>1. AtMostOne(x, xm) /\ AtMostOne(y, ym)
      BY <2>3 DEF AtMostOne
    <3> QED BY <2>14, <3>1, ProductNotAbove
  <2>8. Mantissa(xm * 8192)
    BY <2>3, SMT DEF Mantissa
  <2>9. a = Code(x, xm * 8192)
    <3>1. FloatToHalf(Float(0, x, xm * 8192)) = 0 * 32768 + Code(x, xm * 8192)
      BY <2>5, <2>8, CodeIs
    <3>2. Code(x, xm * 8192) \in Nat
      BY <2>5, <2>8, CodeBetween
    <3> QED BY <2>4, <3>1, <3>2, SMT
  <2>10. ASSUME NEW e, NEW m, HalfProduct(a, b) = Float(0, e, m), IsBelow(x, xm, e, m)
         PROVE  FloatToHalf(HalfProduct(a, b)) \in Nat /\ FloatToHalf(HalfProduct(a, b)) <= a
    <3>0. e \in 1..142 /\ Mantissa(m) /\ (e < x \/ (e = x /\ m <= xm * 8192))
      BY <2>10 DEF IsBelow
    <3>1. FloatToHalf(Float(0, e, m)) = 0 * 32768 + Code(e, m)
      BY <2>5, <3>0, CodeIs
    <3>2. Code(e, m) \in Nat /\ Code(e, m) <= Code(x, xm * 8192)
      BY <2>5, <2>8, <3>0, CodeBetween, CodeGrows
    <3>3. FloatToHalf(Float(0, e, m)) = Code(e, m)
      BY <3>1, <3>2, SMT
    <3> QED BY <2>9, <2>10, <3>2, <3>3
  <2>11. CASE p < 2097152
    BY <2>6, <2>7, <2>10, <2>11 DEF IsProduct, NotAboveFirst
  <2>12. CASE p >= 2097152
    BY <2>6, <2>7, <2>10, <2>12 DEF IsProduct, NotAboveFirst
  <2>13. p \in Nat
    BY <2>7 DEF NotAboveFirst
  <2> QED BY <2>11, <2>12, <2>13, SMT
<1> QED
  BY <1>2, <1>3

LEMMA HalfProductCommutes ==
  ASSUME NEW a \in Nat, a <= 15360, NEW b \in Nat, b <= 15360
  PROVE  FloatToHalf(HalfProduct(a, b)) = FloatToHalf(HalfProduct(b, a))
<1>1. a < 65536 /\ b < 65536 /\ a % 32768 = a /\ b % 32768 = b /\ a < Infinity /\ b < Infinity
  BY SMT DEF Infinity
<1>2. CASE a = 0 \/ b = 0
  <2>1. HalfToFloat(a).exp = 0 \/ HalfToFloat(b).exp = 0
    BY <1>1, <1>2, ZeroHalf
  <2> QED BY <2>1, ProductWithZero
<1>3. CASE a # 0 /\ b # 0
  <2>1. PICK s, x, xm : IsFloat(a, s, x, xm)
    BY <1>1, <1>3, ThereAndBack
  <2>2. PICK t, y, ym : IsFloat(b, t, y, ym)
    BY <1>1, <1>3, ThereAndBack
  <2>3. HasFields(a, s, x, xm) /\ HasFields(b, t, y, ym)
    BY <2>1, <2>2 DEF IsFloat
  <2>4. s \in Int /\ t \in Int /\ x \in Int /\ y \in Int /\ xm \in Nat /\ ym \in Nat
    BY <2>3, SMT DEF HasFields
  <2> DEFINE p == (1024 + xm) * (1024 + ym)
             u == (s + t) % 2
             e == x + y
  <2>5. /\ Product(p, xm, ym) /\ Product(p, ym, xm) /\ p \in Nat
        /\ u = (s + t) % 2 /\ u = (t + s) % 2 /\ e = x + y /\ e = y + x
    BY <2>4 DEF Times, Product
  <2> HIDE DEF p, u, e
  <2>6. IsProduct(HalfProduct(a, b), u, e, p) /\ IsProduct(HalfProduct(b, a), u, e, p)
    BY <2>3, <2>5, ProductIs
  <2>7. p < 2097152 \/ p >= 2097152
    BY <2>5, SMT
  <2>8. HalfProduct(a, b) = HalfProduct(b, a)
    BY <2>6, <2>7 DEF IsProduct
  <2> QED BY <2>8
<1> QED
  BY <1>2, <1>3

(* Multiplied by 1.0, a finite half stays as it is; both zeroes are +0.0.  *)
LEMMA OpaqueHalf ==
  ASSUME NEW a \in Nat, a < 65536, a % 32768 < Infinity
  PROVE  FloatToHalf(HalfProduct(a, 15360)) = IF a = 32768 THEN 0 ELSE a
<1>1. 15360 < 65536 /\ 15360 % 32768 = 15360 /\ 15360 < Infinity
  BY SMT DEF Infinity
<1>2. CASE a % 32768 = 0
  <2>1. HalfToFloat(a).exp = 0 /\ a \in {0, 32768}
    BY <1>2, ZeroHalf
  <2>2. FloatToHalf(HalfProduct(a, 15360)) = 0
    BY <2>1, ProductWithZero
  <2> QED BY <2>1, <2>2, SMT
<1>3. CASE a % 32768 # 0
  <2>1. PICK s, x, xm : IsFloat(a, s, x, xm)
    BY <1>3, ThereAndBack
  <2>2. HalfToFloat(15360) = Float(0, 127, 0 * 8192)
    <3>1. 15360 \div 32768 = 0 /\ (15360 \div 1024) % 32 = 15 /\ 15360 % 1024 = 0
      BY SMT
    <3>2. HalfToFloat(15360) = Float(0, 15 + 112, 0 * 8192)
      <4>1. IsHalf(15360, 0, 15, 0)
        BY <1>1, <3>1, HalfIs
      <4> QED BY <4>1, SMT DEF IsHalf
    <3>3. 15 + 112 = 127
      BY SMT
    <3> QED BY <3>2, <3>3
  <2>3. /\ s \in 0..1 /\ x \in 103..142 /\ xm \in 0..1023
        /\ HalfToFloat(a) = Float(s, x, xm * 8192) /\ FloatToHalf(Float(s, x, xm * 8192)) = a
    BY <2>1 DEF IsFloat, HasFields
  <2>4. HasFields(a, s, x, xm) /\ HasFields(15360, 0, 127, 0)
    BY <2>1, <2>2, SMT DEF IsFloat, HasFields
  <2> DEFINE p == 1024 * (1024 + xm)
             e == x + 127
  <2>5. /\ Product(p, xm, 0) /\ s = (s + 0) % 2 /\ e = x + 127 /\ e - 127 = x
        /\ p < 2097152 /\ 8 * p - 8388608 = xm * 8192
    BY <2>3, SMT DEF Times, Product
  <2> HIDE DEF p, e
  <2>6. IsProduct(HalfProduct(a, 15360), s, e, p)
    BY <2>4, <2>5, ProductIs
  <2>7. HalfProduct(a, 15360) = Float(s, x, xm * 8192)
    BY <2>5, <2>6 DEF IsProduct
  <2>8. a # 32768
    BY <1>3, SMT
  <2> QED BY <2>3, <2>7, <2>8
<1> QED
  BY <1>2, <1>3

-----------------------------------------------------------------------------
(* Colours multiplied by their alpha. *)
IsShaded(dt, colour, alpha, p) ==
  /\ alpha <= OneValue(dt) /\ colour <= OneValue(dt) => p <= colour /\ p <= alpha
  /\ alpha = OneValue(dt) => p = IF dt = "half" /\ colour = 32768 THEN 0 ELSE colour
  /\ dt = "uint8" => p = (colour * alpha) \div OneValue(dt)

LEMMA ByteIsShaded ==
  ASSUME NEW alpha \in Nat, alpha <= 255, NEW colour \in Nat, colour <= 255
  PROVE  IsShaded("uint8", colour, alpha, Premultiplied("uint8", colour, alpha))
<1> DEFINE q == colour * alpha
           p == Premultiplied("uint8", colour, alpha)
<1>1. p = q \div 255
  BY EightBits
<1>2. q \in Nat /\ q <= 255 * colour /\ q <= 255 * alpha /\ (alpha = 255 => q = 255 * colour)
  <2>1. q \in Nat
    OBVIOUS
  <2>2. alpha * colour <= 255 * colour /\ colour * alpha <= 255 * alpha
    BY Monotone
  <2>3. alpha * colour = q /\ (alpha = 255 => q = 255 * colour)
    OBVIOUS
  <2> QED BY <2>1, <2>2, <2>3
<1> HIDE DEF q
<1>3. q \div 255 <= colour /\ q \div 255 <= alpha /\ (alpha = 255 => q \div 255 = colour)
  BY <1>2, SMT
<1>4. OneValue("uint8") = 255
  BY DEF OneValue
<1> QED
  BY <1>1, <1>3, <1>4 DEF IsShaded, q

LEMMA WordIsShaded ==
  ASSUME NEW alpha \in Nat, alpha <= 65535, NEW colour \in Nat, colour <= 65535
  PROVE  IsShaded("uint16", colour, alpha, Premultiplied("uint16", colour, alpha))
<1> DEFINE p == Premultiplied("uint16", colour, alpha)
<1>1. p \in Nat /\ p <= colour /\ p <= alpha /\ (alpha = 65535 => p = colour)
  BY SixteenBits
<1>2. OneValue("uint16") = 65535
  BY DEF OneValue
<1> HIDE DEF p
<1>3. IsShaded("uint16", colour, alpha, p)
  BY <1>1, <1>2, SMT DEF IsShaded
<1> QED
  BY <1>3 DEF p

LEMMA HalfNotAboveEither ==
  ASSUME NEW a \in Nat, a <= 15360, NEW b \in Nat, b <= 15360
  PROVE  FloatToHalf(HalfProduct(a, b)) <= a /\ FloatToHalf(HalfProduct(a, b)) <= b
<1>1. FloatToHalf(HalfProduct(a, b)) <= a
  BY HalfNotAbove
<1>2. FloatToHalf(HalfProduct(b, a)) <= b
  BY HalfNotAbove
<1>3. FloatToHalf(HalfProduct(a, b)) = FloatToHalf(HalfProduct(b, a))
  BY HalfProductCommutes
<1> QED
  BY <1>1, <1>2, <1>3

LEMMA HalfIsShaded ==
  ASSUME NEW alpha \in Nat, alpha <= 65535, NEW colour \in Nat, colour <= 65535,
         colour % 32768 < Infinity
  PROVE  IsShaded("half", colour, alpha, Premultiplied("half", colour, alpha))
<1> DEFINE p == Premultiplied("half", colour, alpha)
<1>1. p = FloatToHalf(HalfProduct(colour, alpha))
  BY DEF Premultiplied
<1>2. OneValue("half") = 15360
  BY DEF OneValue
<1>3. ASSUME alpha <= 15360, colour <= 15360
      PROVE  p <= colour /\ p <= alpha
  <2>1. FloatToHalf(HalfProduct(colour, alpha)) <= colour /\ FloatToHalf(HalfProduct(colour, alpha)) <= alpha
    BY <1>3, HalfNotAboveEither
  <2> QED BY <1>1, <2>1
<1>4. ASSUME alpha = 15360
      PROVE  p = IF colour = 32768 THEN 0 ELSE colour
  <2>1. colour < 65536
    BY SMT
  <2> QED BY <1>1, <1>4, <2>1, OpaqueHalf
<1> HIDE DEF p
<1>5. IsShaded("half", colour, alpha, p)
  BY <1>2, <1>3, <1>4 DEF IsShaded
<1> QED
  BY <1>5 DEF p

(* Halves that are multiplied are finite. *)
IsFinite(value) == value % 32768 < Infinity

FiniteHalves ==
  image.dt = "half" /\ premultiply => \A j \in DOMAIN plain : IsFinite(plain[j])

LEMMA InitFiniteHalves == FaceInit => FiniteHalves
<1> SUFFICES ASSUME FaceInit PROVE FiniteHalves
  OBVIOUS
<1>1. PICK r \in Request : image = r.image /\ premultiply = r.premultiply
  BY DEF FaceInit, Init
<1>2. r.image.dt = "half" /\ r.premultiply =>
        \A j \in DOMAIN r.image.plain : IsFinite(r.image.plain[j])
  BY RequestAssumption DEF IsFinite
<1> QED
  BY <1>1, <1>2, Zenon DEF FiniteHalves, plain

LEMMA NextFiniteHalves == FiniteHalves /\ [FaceNext]_<<vars, reduction>> => FiniteHalves'
<1> SUFFICES ASSUME FiniteHalves, [FaceNext]_<<vars, reduction>> PROVE FiniteHalves'
  OBVIOUS
<1> SUFFICES image' = image /\ premultiply' = premultiply
  BY Zenon DEF FiniteHalves, plain
<1>1. CASE Next
  BY <1>1 DEF Next, Inflate, UndoDifference, EndDifference, Interleave, MultAlpha, request
<1>2. CASE StartReduction
  BY <1>2 DEF StartReduction, request
<1>3. CASE UNCHANGED vars
  BY <1>3 DEF vars, request
<1> QED
  BY <1>1, <1>2, <1>3 DEF FaceNext, Decode, Reduce

LEMMA AuthorIs ==
  ASSUME PlaceInv, NEW u \in Us, NEW v \in Vs, NEW c \in Channels
  PROVE  Planar(u, v, c) \in DOMAIN plain /\ Author(u, v, c) \in 0..(Width(image.dt) - 1)
<1>1. /\ image.uw \in Nat /\ image.vw \in Nat /\ image.nchan \in Nat
      /\ u \in 0..(image.uw - 1) /\ v \in 0..(image.vw - 1) /\ c \in 0..(image.nchan - 1)
      /\ Len(plain) = image.uw * image.vw * image.nchan /\ DOMAIN plain = 1..Len(plain)
      /\ plain \in Seq(0..(Width(image.dt) - 1))
  BY LenProperties DEF PlaceInv, DecodeInv, ImageOK, Us, Vs, Channels
<1>2. c * image.uw * image.vw + v * image.uw + u + 1 \in 1..(image.uw * image.vw * image.nchan)
  BY <1>1, PlacesAreInside, Zenon
<1>3. Planar(u, v, c) \in DOMAIN plain
  BY <1>1, <1>2, Zenon DEF Planar
<1>4. \A j \in 1..Len(plain) : plain[j] \in 0..(Width(image.dt) - 1)
  BY <1>1, ElementOfSeq
<1> QED
  BY <1>1, <1>3, <1>4 DEF Author, plain

LEMMA MultipliedAreShaded ==
  ASSUME PlaceInv, FiniteHalves, pc = "done", Multiplies,
         NEW u \in Us, NEW v \in Vs, NEW c \in Multiplied
  PROVE  IsShaded(image.dt, Author(u, v, c), Author(u, v, image.alphachan), Result(u, v, c))
<1>1. image.alphachan \in Channels /\ c \in Channels
  BY DEF Multiplies, HasAlpha, Multiplied, Channels, PlaceInv, ImageOK
<1> DEFINE colour == Author(u, v, c)
           alpha == Author(u, v, image.alphachan)
           dt == image.dt
<1>2. Result(u, v, c) = Premultiplied(dt, colour, alpha)
  BY <1>1 DEF PlaceInv, PixelsAreTheAuthors, Us, Vs, Channels
<1>3. colour \in 0..(Width(dt) - 1) /\ alpha \in 0..(Width(dt) - 1) /\ Planar(u, v, c) \in DOMAIN plain
  BY <1>1, AuthorIs
<1>4. dt = "half" => colour % 32768 < Infinity
  BY <1>3 DEF FiniteHalves, IsFinite, Multiplies, Author, plain
<1>5. dt \in {"uint8", "uint16", "half"}
  BY DEF PlaceInv, DecodeInv
<1> HIDE DEF colour, alpha, dt
<1>6. /\ dt = "uint8" => colour \in Nat /\ colour <= 255 /\ alpha \in Nat /\ alpha <= 255
      /\ dt # "uint8" => colour \in Nat /\ colour <= 65535 /\ alpha \in Nat /\ alpha <= 65535
  <2>1. Width("uint8") = 256 /\ Width("uint16") = 65536 /\ Width("half") = 65536
    BY DEF Width
  <2> QED BY <1>3, <1>5, <2>1, SMT
<1>7. IsShaded(dt, colour, alpha, Premultiplied(dt, colour, alpha))
  <2>1. CASE dt = "uint8"
    BY <1>6, <2>1, ByteIsShaded
  <2>2. CASE dt = "uint16"
    BY <1>6, <2>2, WordIsShaded
  <2>3. CASE dt = "half"
    BY <1>4, <1>6, <2>3, HalfIsShaded
  <2> QED BY <1>5, <2>1, <2>2, <2>3
<1> QED
  BY <1>2, <1>7 DEF colour, alpha, dt

LEMMA NeverBrighter ==
  ASSUME PlaceInv, FiniteHalves
  PROVE  NeverBrighterThanAlpha
<1> SUFFICES ASSUME pc = "done", Multiplies, NEW u \in Us, NEW v \in Vs, NEW c \in Multiplied
             PROVE  LET alpha == Author(u, v, image.alphachan)
                        colour == Author(u, v, c)
                    IN  /\ alpha <= OneValue(image.dt) /\ colour <= OneValue(image.dt) =>
                             Result(u, v, c) <= colour /\ Result(u, v, c) <= alpha
                        /\ alpha = OneValue(image.dt) => Result(u, v, c) = Number(colour)
                        /\ image.dt = "uint8" => Result(u, v, c) = Floored(colour, alpha)
  BY DEF NeverBrighterThanAlpha, Us, Vs
<1>1. IsShaded(image.dt, Author(u, v, c), Author(u, v, image.alphachan), Result(u, v, c))
  BY MultipliedAreShaded
<1> QED
  BY <1>1 DEF IsShaded, Number, Floored

(* No premultiplied colour is brighter than it was or than its alpha, an   *)
(* opaque pixel is left exactly as it was, and an 8-bit colour is the      *)
(* exact product rounded down: for every colour and alpha of a type,       *)
(* although the arithmetic is in floats that are rounded twice, and a half *)
(* once more on its way back (multalpha, utils.rs:181-251; one_value_inv,  *)
(* types.rs:82-89; half_to_float and float_to_half, 419-484).              *)
THEOREM ColoursAreNeverBrighter == FaceSpec => []NeverBrighterThanAlpha
<1>1. FaceInv /\ FiniteHalves => NeverBrighterThanAlpha
  BY NeverBrighter DEF FaceInv
<1> QED
  BY <1>1, InitFaceInv, NextFaceInv, InitFiniteHalves, NextFiniteHalves, PTL DEF FaceSpec
=============================================================================
