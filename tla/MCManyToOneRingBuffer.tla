----------------------- MODULE MCManyToOneRingBuffer ------------------------
(* Instances of ManyToOneRingBuffer for TLC. *)
EXTENDS ManyToOneRingBuffer

CONSTANTS p1, p2

\* In a ring of 16 words only records without a body are accepted; each
\* producer has a type of its own, so that no two can be confused.
TypeOf == [p \in Producers |-> IF p = p1 THEN 1 ELSE 2]
MCHeaderOnly == [p \in Producers |-> {[type |-> TypeOf[p], words |-> 0, fill |-> 0]}]

\* In a ring of 32 words the longest body has two words; p1 writes such bodies, the
\* others bodies of one word.  The words of these bodies look like the length of a
\* record.
MCUneven == [p \in Producers |-> {[type |-> TypeOf[p], words |-> IF p = p1 THEN 2 ELSE 1, fill |-> 3]}]

\* Bodies of different lengths.
MCMixed == [p \in Producers |-> [type : {TypeOf[p]}, words : {0, 2}, fill : {3}]]

\* TLC takes no step from a misread: what it explores of Spec is UntilMisread.
NoMisread == ~ Misreads
=============================================================================
