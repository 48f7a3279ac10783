----------------------------- MODULE MCFileReading ---------------------------
(* Files with each kind of extended header, with and without meta data and *)
(* edits, cut at every byte; every table of three small faces; and meta    *)
(* data of up to two entries, of keys with and without a letter outside    *)
(* ASCII and values from no byte to a size of two digits.                  *)
EXTENDS FileReading

Face(u, v, c) == [u |-> u, v |-> v, constant |-> c]
OneFace == <<Face(1, 2, FALSE)>>

(* lmdheader and lmddata need an extended header that declares them, as an *)
(* extent of edits does.                                                   *)
Written(ext, metadata, lmd, edits, levelinfo, faces) ==
  [valid |-> TRUE, ext |-> ext, faceinfo |-> 7, constdata |-> 5, nlevels |-> 2, levelinfo |-> levelinfo,
   levels |-> <<11, 13>>, metadata |-> metadata,
   lmdheader |-> IF ext >= 24 THEN lmd ELSE 0, lmddata |-> IF ext >= 24 THEN 2 * lmd ELSE 0,
   editsize |-> edits.size, editpos |-> IF edits.declared /\ ext >= 40 THEN 1000 ELSE 0,
   trailing |-> edits.trailing, firstsize |-> edits.first, faces |-> faces]

Edits ==
  {[declared |-> TRUE, size |-> 0, trailing |-> 0, first |-> 0],
   [declared |-> TRUE, size |-> 16, trailing |-> 16, first |-> 11],
   [declared |-> FALSE, size |-> 0, trailing |-> 0, first |-> 0],
   [declared |-> FALSE, size |-> 0, trailing |-> 3, first |-> 0],
   [declared |-> FALSE, size |-> 0, trailing |-> 16, first |-> 0],
   [declared |-> FALSE, size |-> 0, trailing |-> 16, first |-> 11]}

MCFiles ==
  {Written(ext, metadata, lmd, edits, levelinfo, OneFace) :
     ext \in {0, 8, 24, 40, 48}, metadata \in {0, 6}, lmd \in {0, 4},
     edits \in Edits, levelinfo \in {16, 32}}
  \cup {[Written(40, 0, 0, edits, 32, OneFace) EXCEPT !.valid = FALSE] : edits \in Edits}

MCTables ==
  {Written(0, 0, 0, [declared |-> FALSE, size |-> 0, trailing |-> 0, first |-> 0], 32, faces) :
     faces \in [1..3 -> {Face(u, v, c) : u \in {0, 1, 3}, v \in {1, 2}, c \in BOOLEAN}]}

MCOpened ==
  {Written(40, 6, 4, [declared |-> FALSE, size |-> 0, trailing |-> 0, first |-> 0], 32, OneFace)}

MCSmall == [key : {<<>>, <<2>>, <<1, 7>>}, type : {3}, data : {<<>>, <<5>>, <<4, 0, 6>>}]
MCBig ==
  [key : {<<1>>, <<1, 7>>}, type : {5}, data : {<<5>>, <<4, 0, 6, 2, 2, 2, 2, 2, 2>>}, zip : {1, 3, 9}]
=============================================================================
