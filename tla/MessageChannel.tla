--------------------------- MODULE MessageChannel ---------------------------
(***************************************************************************)
(* What the queues of caeron/concurrent promise their users: an ordered    *)
(* channel with one reader.                                                *)
(*                                                                         *)
(* A writer first fixes the place of its message in the order (Reserve)    *)
(* and later makes it readable (Complete).  Reservations of several        *)
(* writers may complete in any order, but the reader takes the messages    *)
(* strictly in reservation order, each exactly once and unchanged, and     *)
(* never one that is not complete.                                         *)
(*                                                                         *)
(* ManyToOneRingBuffer, ManyToOneConcurrentLinkedQueue,                    *)
(* OneToOneConcurrentArrayQueue and, with one receiver, Broadcast are      *)
(* shown to implement this specification.                                  *)
(***************************************************************************)
EXTENDS Naturals, Sequences

CONSTANT Msgs      \* the messages, as the reader sees them

VARIABLES
  sent,            \* every message, in reservation order
  complete,        \* the positions of sent that may be read
  received         \* what the reader has taken, in the order it took it

channel == << sent, complete, received >>

Init ==
  /\ sent = << >>
  /\ complete = {}
  /\ received = << >>

Reserve(m) ==
  /\ sent' = Append(sent, m)
  /\ UNCHANGED << complete, received >>

Complete(i) ==
  /\ i \in 1..Len(sent) \ complete
  /\ complete' = complete \cup {i}
  /\ UNCHANGED << sent, received >>

Receive ==
  LET next == Len(received) + 1
  IN  /\ next \in complete
      /\ received' = Append(received, sent[next])
      /\ UNCHANGED << sent, complete >>

Next ==
  \/ \E m \in Msgs : Reserve(m)
  \/ \E i \in 1..Len(sent) : Complete(i)
  \/ Receive

Spec == Init /\ [][Next]_channel
=============================================================================
