--------------------------- MODULE MCMessageCodec ---------------------------
(* An instance of MessageCodec for TLC: parts without bytes, parts that end   *)
(* on and off an aligned offset, one that is too long for the scratch buffer; *)
(* lengths that are negative, that fit in some messages only, that never fit. *)
EXTENDS MessageCodec

MCForeignLengths == {-1, 0, 1, 3, 4, 1000}
MCForeignExtra == {-13, -1, 0, 3, 4, 5, 9}
=============================================================================
