------------------------------ MODULE Resolution ------------------------------
(***************************************************************************)
(* How a request for a face at a resolution finds its pixels: the routing  *)
(* of src/src/file_info.rs (resolve, is_res_stored, reduction_source and   *)
(* the level helpers), followed along the chain of reductions that the two *)
(* readers recurse through.  Resolutions are pairs of signed base-2        *)
(* logarithms, eight bits wide.                                            *)
(***************************************************************************)
EXTENDS Integers

CONSTANTS
  FaceLog2,      \* the logarithms a face's own resolution may have
  RequestLog2,   \* those a caller may ask for
  MaxLevels      \* bound on the levels a file stores

ASSUME FaceLog2Assumption == FaceLog2 \subseteq 0..127
ASSUME RequestLog2Assumption == RequestLog2 \subseteq -128..127
ASSUME MaxLevelsAssumption == MaxLevels \in Nat

VARIABLES
  mesh,       \* "triangle" or "quad"
  constant,   \* the face is flagged constant
  edited,     \* the face is flagged as carrying edits
  full,       \* the face's resolution
  nlevels,    \* levels the file stores
  inLevel,    \* those whose face table is long enough to hold this face
  asked,      \* the resolution asked for
  res         \* the resolution the chain of reductions has come to

file == <<mesh, constant, edited, full, nlevels, inLevel>>
vars == <<file, asked, res>>

Res(u, v) == [u |-> u, v |-> v]
IsOne(r) == r.u = 0 /\ r.v = 0
Least(a, b) == IF a <= b THEN a ELSE b

(* Subtraction of i8, which wraps in a release build. *)
Sub8(a, b) == ((a - b + 128) % 256) - 128

RedU(r) == Sub8(full.u, r.u)
RedV(r) == Sub8(full.v, r.v)

-----------------------------------------------------------------------------
(* resolve, one operator per route, in the order the code tries them. *)

ConstantRoute(r) == constant \/ IsOne(r)
FullRoute(r) == ~ConstantRoute(r) /\ RedU(r) = 0 /\ RedV(r) = 0
StoredReduction(r) ==
  /\ RedU(r) = RedV(r) /\ RedU(r) > 0 /\ ~edited
  /\ RedU(r) < nlevels

LevelRoute(r) ==
  /\ ~ConstantRoute(r) /\ ~FullRoute(r)
  /\ StoredReduction(r) /\ RedU(r) \in inLevel

(* Slip: negative sizes are let through. *)
UnsupportedButNegative(r) ==
  \/ RedU(r) < 0 \/ RedV(r) < 0
  \/ mesh = "triangle" /\ RedU(r) # RedV(r)

Unsupported(r) ==
  \/ r.u < 0 \/ r.v < 0
  \/ RedU(r) < 0 \/ RedV(r) < 0
  \/ mesh = "triangle" /\ RedU(r) # RedV(r)

Resolve(r) ==
  CASE ConstantRoute(r) -> "constant"
    [] FullRoute(r) -> IF 0 \in inLevel THEN "stored" ELSE "corrupt"
    [] LevelRoute(r) -> "stored"
    [] OTHER -> IF Unsupported(r) THEN "unsupported" ELSE "reduced"

(* Slip: level 0 is taken to hold every face. *)
IsResStoredInLevel0(r) ==
  \/ constant \/ IsOne(r)
  \/ RedU(r) = 0 /\ RedV(r) = 0
  \/ StoredReduction(r) /\ RedU(r) \in inLevel

(* is_res_stored, which repeats the tests in its own words. *)
IsResStored(r) ==
  \/ constant \/ IsOne(r)
  \/ RedU(r) = 0 /\ RedV(r) = 0 /\ 0 \in inLevel
  \/ ~(RedU(r) = 0 /\ RedV(r) = 0) /\ StoredReduction(r) /\ RedU(r) \in inLevel

(* reduction_source: a triangle halves both axes, a quad one, alternating  *)
(* when the two are level.                                                 *)
(* Slip: u is blended out before v. *)
BlendUFirst(r) == RedU(r) > 0

(* Slip: the axis nearer to the face is blended. *)
BlendUSwapped(r) == IF RedU(r) = RedV(r) THEN r.u % 2 # 0 ELSE RedU(r) < RedV(r)

BlendU(r) == IF RedU(r) = RedV(r) THEN r.u % 2 # 0 ELSE RedU(r) > RedV(r)

(* Slip: always u, clamped to the face. *)
ReductionSourceClamped(r) ==
  IF mesh = "triangle" THEN Res(r.u + 1, r.v + 1)
  ELSE Res(Least(r.u + 1, full.u), r.v)

ReductionSource(r) ==
  IF mesh = "triangle" THEN Res(r.u + 1, r.v + 1)
  ELSE IF BlendU(r) THEN Res(r.u + 1, r.v) ELSE Res(r.u, r.v + 1)

(* Slip: levels down to one texel on both axes, as a derived chain has. *)
FaceNumLevelsDeep == (IF full.u >= full.v THEN full.u ELSE full.v) + 1

(* face_num_levels and face_level_res. *)
FaceNumLevels == Least(full.u, full.v) + 1
FaceLevelRes(l) == Res(full.u - l, full.v - l)

(* num_stored_levels: the leading levels that are all stored. *)
NumStoredLevels ==
  CHOOSE n \in 0..FaceNumLevels :
    /\ \A l \in 0..(n - 1) : IsResStored(FaceLevelRes(l))
    /\ n < FaceNumLevels => ~IsResStored(FaceLevelRes(n))

-----------------------------------------------------------------------------
Init ==
  /\ mesh \in {"triangle", "quad"}
  /\ constant \in BOOLEAN
  /\ edited \in BOOLEAN
  /\ full \in {Res(u, v) : u \in FaceLog2, v \in FaceLog2}
  /\ nlevels \in 0..MaxLevels
  /\ inLevel \in SUBSET (0..(nlevels - 1))
  /\ asked \in {Res(u, v) : u \in RequestLog2, v \in RequestLog2}
  /\ res = asked

(* data_at_res recursing: reduced() and packed_face_data read the source   *)
(* of a reduction before reducing it.                                      *)
Recurse ==
  /\ Resolve(res) = "reduced"
  /\ res' = ReductionSource(res)
  /\ UNCHANGED <<file, asked>>

Next == Recurse

Spec == Init /\ [][Next]_vars /\ WF_vars(Next)

-----------------------------------------------------------------------------
TypeOK ==
  /\ res.u \in -128..127 /\ res.v \in -128..127
  /\ Resolve(res) \in {"constant", "stored", "corrupt", "unsupported", "reduced"}

(* Once resolve has promised a reduction, every resolution the recursion   *)
(* passes through can be had too: the chain never runs into a resolution   *)
(* that is negative, larger than the face or lopsided on a triangle, and   *)
(* only a face missing from level 0 can end it in an error                 *)
(* (reduction_source, file_info.rs:388-410).                               *)
ChainStaysSupported ==
  /\ res # asked => Resolve(res) \in {"constant", "stored", "reduced", "corrupt"}
  /\ Resolve(res) = "corrupt" => 0 \notin inLevel

(* The recursion of reduced() comes to an end (cache.rs:1277-1289).        *)
ChainEnds == <>(Resolve(res) # "reduced")

(* Why it ends: every reduction leaves fewer halvings between the          *)
(* resolution in hand and the face's own, and oversteps it on neither axis *)
(* (reduction_source, file_info.rs:388-410).                               *)
Nearer ==
  /\ RedU(res)' \in 0..RedU(res)
  /\ RedV(res)' \in 0..RedV(res)
  /\ RedU(res)' + RedV(res)' < RedU(res) + RedV(res)
ChainDescends == [][Nearer]_vars

(* It ends at the face's own resolution or at a stored level, never at the *)
(* constant-data block: a computed resolution is made from texels.         *)
ChainEndsInTexels ==
  res # asked /\ Resolve(res) # "reduced" =>
    res = full \/ (RedU(res) = RedV(res) /\ RedU(res) \in inLevel)

(* Quads are reduced evenly: along the chain the two axes are never more   *)
(* than one halving apart unless the request itself was, and then the gap  *)
(* only closes (the alternation in file_info.rs:398-404).                  *)
Gap(r) == IF RedU(r) >= RedV(r) THEN RedU(r) - RedV(r) ELSE RedV(r) - RedU(r)
ChainIsEven ==
  res # asked => Gap(res) <= IF Gap(asked) = 0 THEN 1 ELSE Gap(asked)

(* Together: a chain of reductions passes through real resolutions only,   *)
(* evenly, from texels that are there.                                     *)
ChainIsSound == TypeOK /\ ChainStaysSupported /\ ChainEndsInTexels /\ ChainIsEven

(* The query that promises no computation and the routing that computes    *)
(* are two functions; they agree on every face and request                 *)
(* (is_res_stored, file_info.rs:291-306, and resolve, 336-386).            *)
StoredQueryAgrees == IsResStored(res) <=> Resolve(res) \in {"constant", "stored"}

(* Every mipmap level a face is said to have can be read                   *)
(* (face_num_levels and face_level_res, file_info.rs:271-286), and the     *)
(* leading ones counted as stored without computing.                       *)
LevelsReadable ==
  0 \in inLevel =>
    \A l \in 0..(FaceNumLevels - 1) :
      /\ Resolve(FaceLevelRes(l)) \in {"constant", "stored", "reduced"}
      /\ l < NumStoredLevels => Resolve(FaceLevelRes(l)) # "reduced"

(* No resolution below a texel or above the face is served, provided the   *)
(* file keeps a face only in levels it is large enough for: the stored     *)
(* route is tried before negative resolutions are refused                  *)
(* (file_info.rs:362-375).                                                 *)
LevelsFit == \A l \in inLevel : l <= Least(full.u, full.v)
OnlyRealResolutions ==
  LevelsFit /\ ~constant /\ Resolve(asked) \in {"stored", "reduced"} =>
    asked.u \in 0..full.u /\ asked.v \in 0..full.v
=============================================================================
