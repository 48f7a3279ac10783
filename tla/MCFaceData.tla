------------------------------ MODULE MCFaceData ------------------------------
(* Small images of every shape and place of the alpha channel, with values *)
(* at the ends of the range, stored and read in every way; read            *)
(* premultiplied, every pair of an 8-bit colour and alpha, every 16-bit    *)
(* alpha with three colours, every finite half that is opaque, and halves  *)
(* of both kinds with alphas of both; and faces that are reduced, small    *)
(* ones with every combination of the ends of a byte.                      *)
EXTENDS FaceData, TLC

Img(dt, uw, vw, nchan, alphachan, plain) ==
  [dt |-> dt, uw |-> uw, vw |-> vw, nchan |-> nchan, alphachan |-> alphachan, plain |-> plain]

(* The ends of a type; for halves also the border of the subnormal ones. *)
Ends(dt) ==
  CASE dt = "uint8"  -> {0, 3, 255}
    [] dt = "uint16" -> {0, 300, 65535}
    [] dt = "half"   -> {1, 1023, 15360}

Small(dt, uw, vw, alphachan) ==
  {Img(dt, uw, vw, 2, alphachan, p) : p \in [1..(uw * vw * 2) -> Ends(dt)]}

Wide == {Img("uint8", 2, 3, 3, a, [j \in 1..18 |-> (37 * j * k) % 256]) : a \in 0..2, k \in 1..3}

Images ==
  Wide \cup UNION {Small(dt, 1, 1, a) \cup Small(dt, 2, 1, a) \cup Small(dt, 1, 2, a) :
                     dt \in {"uint8", "uint16", "half"}, a \in -1..2}

(* 256 pixels: all colours of one alpha, or one colour at 256 alphas. *)
Sweep(dt, alphachan, value(_), other) ==
  Img(dt, 256, 1, 2, alphachan, [j \in 1..512 |-> IF j <= 256 THEN value(j - 1) ELSE other])

Sweeps ==
  {Sweep("uint8", 1, LAMBDA n : n, alpha) : alpha \in 0..255}
  \cup {Sweep("uint16", 0, LAMBDA n : 256 * hi + n, colour) :
          hi \in 0..255, colour \in {257, 32768, 65535}}
  \cup {Sweep("half", 1, LAMBDA n : 256 * hi + n, 15360) : hi \in {h \in 0..255 : h % 128 < 124}}
  \cup {Sweep("half", 1, LAMBDA n : 256 * hi + n, alpha) :
          hi \in {0, 3, 4, 20, 55, 59}, alpha \in {1, 1023, 1024, 8191, 13653, 15359}}

(* One channel, by row; 16 texels to a side at most. *)
Patterned(u, v) ==
  {Img("uint8", 2 ^ u, 2 ^ v, 1, -1, [j \in 1..(2 ^ u * 2 ^ v) |-> (j * k) % 256]) : k \in {31, 97, 255}}

Every(uw, vw) ==
  {Img("uint8", uw, vw, 1, -1, s) : s \in [1..(uw * vw) -> {0, 1, 254, 255}]}

Faces ==
  UNION {Patterned(u, v) : u \in 0..3, v \in 0..3} \cup Patterned(4, 4)
    \cup Every(2, 2) \cup Every(4, 1) \cup Every(1, 4)

Read(im, enc, level, pre) ==
  [image |-> im, encoding |-> enc, levelid |-> level, premultiply |-> pre]

MCRequest ==
  {Read(im, "zipped", 0, TRUE) : im \in Sweeps \cup Faces}
  \cup {r \in {Read(im, enc, level, pre) : im \in Images, level \in 0..1, pre \in BOOLEAN,
                                           enc \in {"constant", "zipped", "diffzipped"}} :
          r.encoding = "constant" => r.image.uw * r.image.vw = 1}
=============================================================================
