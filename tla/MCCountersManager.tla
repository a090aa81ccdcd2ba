------------------------- MODULE MCCountersManager --------------------------
(***************************************************************************)
(* The lengths of key and label that the allocations of the run are called *)
(* with: a label after a key, without one, and as long as the key before.  *)
(***************************************************************************)
EXTENDS CountersManager

MCKeyLength == << 1, 0, 2, 1 >>
MCLabelLength == << 1, 2, 0, 0 >>
=============================================================================
