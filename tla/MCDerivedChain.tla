--------------------------- MODULE MCDerivedChain ---------------------------
(* Two threads, each with a chain of its own to install; the chains start  *)
(* at different resolutions of a face of 4 by 2 texels.                    *)
EXTENDS DerivedChain, TLC

CONSTANTS t1, t2, h1, h2

MCBaseRes ==
  h1 :> [f \in {"face"} |-> [u |-> 2, v |-> 1]] @@
  h2 :> [f \in {"face"} |-> [u |-> 1, v |-> 1]]

MCByteSize == [r \in Res |-> 2 ^ (r.u + r.v)]
=============================================================================
