---------------------------- MODULE MCResolution ----------------------------
(* Resolution on faces of up to 8 by 8 texels, files of up to 3 levels and *)
(* requests from a negative to a larger size, the extreme of i8 included.  *)
EXTENDS Resolution

MCFaceLog2 == 0..3
MCRequestLog2 == {-128, -1, 0, 1, 2, 3, 4, 127}
=============================================================================
