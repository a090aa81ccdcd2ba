---------------------------- MODULE MCBroadcast -----------------------------
(* Instances of Broadcast for TLC. *)
EXTENDS Broadcast

\* A message without a body, one that needs half of a ring of 16 words and one
\* that needs more.  The words of the bodies look like the length of a record.
MCMessages == {[type |-> 1, words |-> 0, fill |-> 0],
               [type |-> 2, words |-> 5, fill |-> 3],
               [type |-> 3, words |-> 7, fill |-> 2]}
=============================================================================
