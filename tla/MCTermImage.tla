---------------------------- MODULE MCTermImage -----------------------------
(* An instance of TermImage for TLC: two frames that fit in one packet, one   *)
(* that does not fit with them, and padding at the end of the term.           *)
EXTENDS TermImage

MCFrames == <<[offset |-> 0, length |-> 1, type |-> "DATA"],
              [offset |-> 1, length |-> 2, type |-> "DATA"],
              [offset |-> 3, length |-> 1, type |-> "DATA"],
              [offset |-> 4, length |-> 2, type |-> "PAD"]>>
=============================================================================
