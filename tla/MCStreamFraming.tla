--------------------------- MODULE MCStreamFraming ---------------------------
(***************************************************************************)
(* Sizes in scale: a header of two bytes, packets that are all header, a   *)
(* little more and the longest the buffer allows, and a buffer that holds  *)
(* one read and all but one byte of the longest packet, and no more.       *)
(***************************************************************************)
EXTENDS StreamFraming
MCSizes == {2, 3, 5}
==============================================================================
