------------------------------- MODULE FaceData -------------------------------
(***************************************************************************)
(* From a block to the resolution asked for: a stored block is decoded     *)
(* (BlockDecode), and a resolution that is not stored is reduced from it   *)
(* step by step (ReduceKernels), as PtexReader::get_data_at_res and        *)
(* SharedReader::reduced of src/src do.  Which steps lead to a resolution  *)
(* is module Resolution's matter; here every order is taken.  One channel  *)
(* stands for all, which the kernels treat alike.                          *)
(***************************************************************************)
EXTENDS BlockDecode

VARIABLES
  face, res, texels, steps   \* the face that is reduced, as ReduceKernels has it

reduction == <<face, res, texels, steps>>

R == INSTANCE ReduceKernels WITH data <- texels

FaceInit == Init /\ R!Init

Decode == Next /\ UNCHANGED reduction

(* The logarithms of a block's size, for those that are powers of two. *)
Res == {r \in [u : 0..8, v : 0..8] : R!Side(r.u) = image.uw /\ R!Side(r.v) = image.vw}

(* The decoded pixels are what is reduced, in a quad mesh or, if they are  *)
(* a square, in a triangle mesh.                                           *)
StartReduction ==
  /\ pc = "done" /\ image.nchan = 1
  /\ \E r \in Res, mesh \in {"quad", "triangle"} :
       /\ mesh = "triangle" => r.u = r.v
       /\ R!Given([mesh |-> mesh, res |-> r, values |-> data])
  /\ pc' = "reduce"
  /\ UNCHANGED <<request, data, i, prev>>

Reduce == pc = "reduce" /\ R!Next /\ UNCHANGED vars

FaceNext == Decode \/ StartReduction \/ Reduce

FaceSpec == FaceInit /\ [][FaceNext]_<<vars, reduction>>

-----------------------------------------------------------------------------
(* Each reduced texel is made of its own part of the face (ReduceKernels;  *)
(* utils.rs:394-480).                                                      *)
TexelCoversItsPlace == R!TexelCoversItsPlace

(* What the reductions lose by rounding is bounded (ReduceKernels;         *)
(* utils.rs:35-57).                                                        *)
LossIsBounded == R!LossIsBounded
=============================================================================
