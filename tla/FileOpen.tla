------------------------------- MODULE FileOpen -------------------------------
(***************************************************************************)
(* Opening a file: FileInfo::read of src/src/file_info.rs, with ExtHeader  *)
(* and LevelInfo of format.rs and gen_rfaceids of utils.rs.  A file is its *)
(* header fields, the lengths of its sections and how much of it is there; *)
(* a read takes a range of bytes, and finds a section if the range is that *)
(* section's.  What the headers say of the lengths is true, but the        *)
(* extended header may end before the field that would say it.             *)
(***************************************************************************)
EXTENDS Integers, Sequences, FiniteSetsExt, Functions

CONSTANTS
  Files,   \* [valid, ext, faceinfo, constdata, nlevels, levelinfo, levels, metadata,
           \*  lmdheader, lmddata, editsize, editpos, trailing, firstsize,
           \*  faces]: lengths in bytes; trailing of them behind the large
           \*  meta data, the first record there being of size firstsize;
           \*  valid if magic, version, mesh and data types are known ones
  Tables   \* files that are met whole, for their faces

VARIABLES
  pc,         \* the step; "done" and "err" are the outcomes
  file,
  length,     \* how much of it there is
  extHeader,  \* the fields of ext_header that are used here
  pos,        \* what each position is computed to be
  hasEdits, faceInfo, rfaceids, constData, levelPos

vars == <<pc, file, length, extHeader, pos, hasEdits, faceInfo, rfaceids, constData, levelPos>>

HeaderSize == 64
ExtHeaderSize == 40
LevelInfoSize == 16
Barrier == 8

Lesser(a, b) == IF a <= b THEN a ELSE b
SumOf(s) == FoldFunction(+, 0, s)

(* A file whose extended header is too short for a field has nothing the   *)
(* field would be about.                                                   *)
WellFormed(f) ==
  /\ {f.ext, f.faceinfo, f.constdata, f.levelinfo, f.metadata, f.lmdheader, f.lmddata,
      f.editpos, f.trailing, f.firstsize, SumOf(f.levels)} \subseteq Nat
  /\ f.levels \in Seq(Nat)
  /\ f.faces \in Seq([u : Int, v : Int, constant : BOOLEAN])
  /\ f.ext < 12 => f.lmdheader = 0
  /\ f.ext < 24 => f.lmddata = 0
  /\ f.ext < 40 => f.editpos = 0

ASSUME FilesAssumption == \A f \in Files \cup Tables : WellFormed(f)

-----------------------------------------------------------------------------
(* What a writer writes: one section after the other. *)

SectionNames == <<"header", "ext", "faceinfo", "constdata", "levelinfo", "leveldata",
                  "metadata", "barrier", "lmdheader", "lmddata">>

Length(name) ==
  CASE name = "header" -> HeaderSize
    [] name = "leveldata" -> SumOf(file.levels)
    [] name = "barrier" -> Barrier
    [] OTHER -> file[name]

StartOf[n \in 1..11] == IF n = 1 THEN 0 ELSE StartOf[n - 1] + Length(SectionNames[n - 1])
Start(name) == StartOf[CHOOSE n \in DOMAIN SectionNames : SectionNames[n] = name]
EndOfFile == StartOf[11] + file.trailing

(* Editing appends records; a first record without a size ends them. *)
IsEdited ==
  IF file.editpos > 0 THEN file.editsize > 0
  ELSE file.trailing >= 5 /\ file.firstsize > 0

(* Reading n bytes at p, from the stream as it is. *)
Readable(p, n) == p + n <= length
Finds(name, p, n) == Readable(p, n) /\ p = Start(name) /\ n = Length(name)

-----------------------------------------------------------------------------
Goto(step) == pc' = step

Fail ==
  /\ Goto("err")
  /\ UNCHANGED <<extHeader, pos, hasEdits, faceInfo, rfaceids, constData, levelPos>>

(* The fixed header, and what it must say. *)
ReadHeader ==
  /\ pc = "header"
  /\ IF Readable(0, HeaderSize) /\ file.valid
     THEN /\ Goto("ext")
          /\ UNCHANGED <<extHeader, pos, hasEdits, faceInfo, rfaceids, constData, levelPos>>
     ELSE Fail
  /\ UNCHANGED <<file, length>>

(* A field of the extended header that ends at byte n, or zero if the      *)
(* header does not reach so far.                                           *)
Field(n, value) == IF n <= file.ext THEN value ELSE 0

(* Slip: positions are counted from the end of the header that is known.   *)
AfterExtHeaderKnown == HeaderSize + Lesser(file.ext, ExtHeaderSize)

AfterExtHeader == HeaderSize + file.ext

(* The extended header, as much as there is of it, and the positions.      *)
ReadExtHeader ==
  /\ pc = "ext"
  /\ IF Readable(HeaderSize, Lesser(file.ext, ExtHeaderSize))
     THEN LET e == [lmdheader |-> Field(12, file.lmdheader), lmddata |-> Field(24, file.lmddata),
                    editsize |-> Field(32, file.editsize), editpos |-> Field(40, file.editpos)]
              faceinfo == AfterExtHeader
              constdata == faceinfo + file.faceinfo
              levelinfo == constdata + file.constdata
              leveldata == levelinfo + file.levelinfo
              metadata == leveldata + SumOf(file.levels)
              lmdheader == metadata + file.metadata + Barrier
          IN  /\ extHeader' = e
              /\ pos' = [faceinfo |-> faceinfo, constdata |-> constdata, levelinfo |-> levelinfo,
                         leveldata |-> leveldata, metadata |-> metadata, lmdheader |-> lmdheader,
                         end |-> lmdheader + e.lmdheader + e.lmddata]
              /\ Goto("edits")
              /\ UNCHANGED <<hasEdits, faceInfo, rfaceids, constData, levelPos>>
     ELSE Fail
  /\ UNCHANGED <<file, length>>

(* The size a record at pos.end would have: elsewhere than at the end of   *)
(* what was written, whatever the bytes there make of it.                  *)
RecordSize == IF pos.end = EndOfFile - file.trailing THEN file.firstsize ELSE 1

(* Slip: whatever trails is an edit. *)
DetectAnyTrailing ==
  /\ pc = "edits"
  /\ hasEdits' = IF extHeader.editpos > 0 THEN extHeader.editsize > 0
                 ELSE length >= pos.end + 5
  /\ Goto("faceinfo")
  /\ UNCHANGED <<file, length, extHeader, pos, faceInfo, rfaceids, constData, levelPos>>

(* A declared extent, or a record where an older file's edits would be. *)
DetectEdits ==
  /\ pc = "edits"
  /\ hasEdits' = IF extHeader.editpos > 0 THEN extHeader.editsize > 0
                 ELSE length >= pos.end + 5 /\ RecordSize # 0
  /\ Goto("faceinfo")
  /\ UNCHANGED <<file, length, extHeader, pos, faceInfo, rfaceids, constData, levelPos>>

(* Slip: faces are ranked by their larger side. *)
KeyLarger(f) == IF f.constant THEN 1 ELSE -Lesser(-f.u, -f.v)

(* gen_rfaceids: the rank of each face when they are sorted, stably, by    *)
(* their smaller side, largest first.                                      *)
Key(f) == IF f.constant THEN 1 ELSE Lesser(f.u, f.v)

GenRfaceids(faces) ==
  LET Sorted == {order \in [1..Len(faces) -> DOMAIN faces] :
                   /\ IsInjective(order)
                   /\ \A i, j \in DOMAIN faces : i < j =>
                        \/ Key(faces[order[i]]) > Key(faces[order[j]])
                        \/ Key(faces[order[i]]) = Key(faces[order[j]]) /\ order[i] < order[j]}
      faceids == CHOOSE order \in Sorted : TRUE
  IN  [f \in DOMAIN faces |-> (CHOOSE i \in DOMAIN faceids : faceids[i] = f) - 1]

ReadFaceInfo ==
  /\ pc = "faceinfo"
  /\ IF Finds("faceinfo", pos.faceinfo, file.faceinfo)
     THEN /\ faceInfo' = file.faces
          /\ rfaceids' = GenRfaceids(file.faces)
          /\ Goto("constdata")
          /\ UNCHANGED <<extHeader, pos, hasEdits, constData, levelPos>>
     ELSE Fail
  /\ UNCHANGED <<file, length>>

ReadConstData ==
  /\ pc = "constdata"
  /\ IF Finds("constdata", pos.constdata, file.constdata)
     THEN /\ constData' = TRUE
          /\ Goto("levelinfo")
          /\ UNCHANGED <<extHeader, pos, hasEdits, faceInfo, rfaceids, levelPos>>
     ELSE Fail
  /\ UNCHANGED <<file, length>>

(* The level table, and where each level starts. *)
ReadLevelInfo ==
  /\ pc = "levelinfo"
  /\ IF /\ file.levelinfo = LevelInfoSize * file.nlevels
        /\ Finds("levelinfo", pos.levelinfo, file.levelinfo)
     THEN /\ levelPos' = [l \in DOMAIN file.levels |->
                            pos.leveldata + SumOf([k \in 1..(l - 1) |-> file.levels[k]])]
          /\ Goto("done")
          /\ UNCHANGED <<extHeader, pos, hasEdits, faceInfo, rfaceids, constData>>
     ELSE Fail
  /\ UNCHANGED <<file, length>>

Unread ==
  /\ pc = "header"
  /\ extHeader = << >> /\ pos = << >>
  /\ hasEdits = FALSE /\ faceInfo = << >> /\ rfaceids = << >>
  /\ constData = FALSE /\ levelPos = << >>

Init ==
  /\ \/ file \in Files /\ length \in 0..EndOfFile
     \/ file \in Tables /\ length = EndOfFile
  /\ Unread

Next ==
  \/ ReadHeader \/ ReadExtHeader \/ DetectEdits
  \/ ReadFaceInfo \/ ReadConstData \/ ReadLevelInfo

-----------------------------------------------------------------------------
(* A file that is opened is the one that was written: its meta data and    *)
(* levels are looked for where they are, however long its extended header  *)
(* is, and an error means that the tables are incomplete or do not agree:  *)
(* neither a lost end nor the look for edits keeps a file from being read  *)
(* (file_info.rs:86-211).                                                  *)
OpensWhatIsThere ==
  /\ pc = "done" =>
       /\ file.valid
       /\ pos.metadata = Start("metadata") /\ pos.lmdheader = Start("lmdheader")
       /\ \A l \in DOMAIN file.levels :
            levelPos[l] = Start("leveldata") + SumOf(SubSeq(file.levels, 1, l - 1))
       /\ faceInfo = file.faces /\ constData
  /\ pc = "err" =>
       \/ ~file.valid \/ length < Start("leveldata")
       \/ file.levelinfo # LevelInfoSize * file.nlevels

(* Edits are noticed in files that declare them and in older ones that do  *)
(* not, and neither a declared empty extent, nor padding, nor a stub is    *)
(* taken for one (file_info.rs:127-150, tests/synthetic.rs:255-286).       *)
EditsAreNoticed ==
  pc = "done" /\ length = EndOfFile => (hasEdits <=> IsEdited)

(* The faces that have at least a given size are, in reduction order, the  *)
(* first ones, so a level that holds so many of them holds exactly those;  *)
(* no two faces share a place (utils.rs:154-179, file_info.rs:355-369).    *)
ReducedFacesFirst ==
  pc = "constdata" =>
    LET Size(f) == IF faceInfo[f].constant THEN 1 ELSE Lesser(faceInfo[f].u, faceInfo[f].v)
    IN  \A k \in {Size(f) : f \in DOMAIN faceInfo} :
          LET atLeast == {f \in DOMAIN faceInfo : Size(f) >= k}
          IN  {rfaceids[f] : f \in atLeast} = 0..(Cardinality(atLeast) - 1)
=============================================================================
