-------------------- MODULE OneToOneConcurrentArrayQueue --------------------
(***************************************************************************)
(* caeron/concurrent/one_to_one_concurrent_array_queue.h: a bounded queue  *)
(* between one producer thread and one consumer thread.                    *)
(*                                                                         *)
(* The slots are raw storage: enqueue constructs an object in a slot and   *)
(* try_dequeue destroys it, so each must find the slot as it expects it.   *)
(* The indices are i32 and are never reset; what they hold after 2^31      *)
(* operations (undefined in C++) is what the machine's addition gives.     *)
(* IndexModulus is 2^32 scaled down.                                       *)
(***************************************************************************)
EXTENDS Integers, Sequences

CONSTANTS
  Values,          \* what is queued
  Raw,             \* the content of a slot that holds no object
  Capacity,        \* capacity_, a power of two
  IndexModulus,    \* the number of values of an index
  MaxEnqueues      \* bound: objects that are enqueued

\* A capacity_ is a positive i32 and a power of two: at most a quarter of the values.
ASSUME CapacityAssumption ==
  /\ Capacity \in Nat \ {0}
  /\ IndexModulus \in Nat
  /\ \E k \in 2 .. IndexModulus : IndexModulus = 2 * k * Capacity
ASSUME RawAssumption == Raw \notin Values
ASSUME MaxEnqueues \in Nat

VARIABLES
  head, tail,      \* head_ and tail_
  slots,           \* storage_
  enqueuing,       \* the step of the producer inside enqueue()
  dequeuing,       \* the step of the consumer inside try_dequeue()
  alive,           \* the queue has not been destroyed
  sent,            \* history: the objects constructed in slots, in order
  complete,        \* history: how many of them were published by a tail
  received         \* history: the objects moved out, in order

vars == << head, tail, slots, enqueuing, dequeuing, alive, sent, complete, received >>

Slots == 0 .. Capacity - 1
Slot(index) == index % Capacity                     \* index & mask_

\* The machine's i32 arithmetic.
Half == IndexModulus \div 2
I32(x) == ((x + Half) % IndexModulus) - Half
Indices == -Half .. Half - 1

Init ==
  /\ head = 0
  /\ tail = 0
  /\ slots = [i \in Slots |-> Raw]
  /\ enqueuing = "idle"
  /\ dequeuing = "idle"
  /\ alive = TRUE
  /\ sent = << >>
  /\ complete = 0
  /\ received = << >>

-----------------------------------------------------------------------------
(* enqueue()                                                               *)

\* Mutant: the queue takes one object too many.
EnqueueOneTooMany ==
  /\ alive
  /\ enqueuing = "idle"
  /\ Len(sent) < MaxEnqueues
  /\ I32(tail - head) <= Capacity
  /\ enqueuing' = "construct"
  /\ UNCHANGED << head, tail, slots, dequeuing, alive, sent, complete, received >>

\* The producer finds a free slot.  Otherwise enqueue() returns false and has
\* changed nothing.
Enqueue ==
  /\ alive
  /\ enqueuing = "idle"
  /\ Len(sent) < MaxEnqueues
  /\ I32(tail - head) < Capacity
  /\ enqueuing' = "construct"
  /\ UNCHANGED << head, tail, slots, dequeuing, alive, sent, complete, received >>

Construct(v) ==
  /\ enqueuing = "construct"
  /\ slots' = [slots EXCEPT ![Slot(tail)] = v]
  /\ sent' = Append(sent, v)
  /\ enqueuing' = "publish"
  /\ UNCHANGED << head, tail, dequeuing, alive, complete, received >>

PublishTail ==
  /\ enqueuing = "publish"
  /\ tail' = I32(tail + 1)
  /\ complete' = complete + 1
  /\ enqueuing' = "idle"
  /\ UNCHANGED << head, slots, dequeuing, alive, sent, received >>

-----------------------------------------------------------------------------
(* try_dequeue()                                                           *)

\* Mutant: the last object is left in the queue.
TryDequeueLeavesOne ==
  /\ alive
  /\ dequeuing = "idle"
  /\ I32(tail - head) > 1
  /\ dequeuing' = "take"
  /\ UNCHANGED << head, tail, slots, enqueuing, alive, sent, complete, received >>

\* The consumer finds an object; with head = tail try_dequeue() returns false.
TryDequeue ==
  /\ alive
  /\ dequeuing = "idle"
  /\ head # tail
  /\ dequeuing' = "take"
  /\ UNCHANGED << head, tail, slots, enqueuing, alive, sent, complete, received >>

\* The object is moved out and destroyed.
Take ==
  /\ dequeuing = "take"
  /\ received' = Append(received, slots[Slot(head)])
  /\ slots' = [slots EXCEPT ![Slot(head)] = Raw]
  /\ dequeuing' = "publish"
  /\ UNCHANGED << head, tail, enqueuing, alive, sent, complete >>

\* Mutant: the head is not moved.
KeepHead ==
  /\ dequeuing = "publish"
  /\ dequeuing' = "idle"
  /\ UNCHANGED << head, tail, slots, enqueuing, alive, sent, complete, received >>

PublishHead ==
  /\ dequeuing = "publish"
  /\ head' = I32(head + 1)
  /\ dequeuing' = "idle"
  /\ UNCHANGED << tail, slots, enqueuing, alive, sent, complete, received >>

-----------------------------------------------------------------------------
\* Mutant: the destructor misses the last object.
DestroyAllButLast ==
  /\ alive /\ enqueuing = "idle" /\ dequeuing = "idle"
  /\ slots' = [s \in Slots |->
       IF \E i \in head .. tail - 2 : Slot(i) = s THEN Raw ELSE slots[s]]
  /\ alive' = FALSE
  /\ UNCHANGED << head, tail, enqueuing, dequeuing, sent, complete, received >>

\* The destructor, called when no thread uses the queue any more: it destroys
\* the objects at head .. tail - 1, with the indices compared as they are.
Destroy ==
  /\ alive /\ enqueuing = "idle" /\ dequeuing = "idle"
  /\ slots' = [s \in Slots |->
       IF \E i \in head .. tail - 1 : Slot(i) = s THEN Raw ELSE slots[s]]
  /\ alive' = FALSE
  /\ UNCHANGED << head, tail, enqueuing, dequeuing, sent, complete, received >>

EnqueueStep == (\E v \in Values : Construct(v)) \/ PublishTail
DequeueStep == TryDequeue \/ Take \/ PublishHead

Next == Enqueue \/ EnqueueStep \/ DequeueStep \/ Destroy

Spec == Init /\ [][Next]_vars

\* A producer inside enqueue() goes on, and the consumer polls.
FairSpec == Spec /\ WF_vars(EnqueueStep) /\ WF_vars(DequeueStep)

-----------------------------------------------------------------------------
(* Properties.                                                             *)

TypeOK ==
  /\ head \in Indices
  /\ tail \in Indices
  /\ slots \in [Slots -> Values \cup {Raw}]
  /\ enqueuing \in {"idle", "construct", "publish"}
  /\ dequeuing \in {"idle", "take", "publish"}
  /\ alive \in BOOLEAN
  /\ sent \in Seq(Values)
  /\ complete \in Nat
  /\ received \in Seq(Values)

\* An object is constructed only in raw storage and moved only out of a slot
\* that holds one, also when the two threads are at the same slot of different
\* laps and when the indices have overflowed.
SlotsAsExpected ==
  /\ TypeOK
  /\ enqueuing = "construct" => slots[Slot(tail)] = Raw
  /\ dequeuing = "take" => slots[Slot(head)] \in Values

\* Every object that was constructed in the queue has been moved out by
\* try_dequeue or destroyed by the destructor.  The only queue that is destroyed with objects left in it is one whose tail
\* has become negative while its head has not.
LeaksOnlyWrapped == ~ alive => (head > tail \/ \A s \in Slots : slots[s] = Raw)

\* Every published object reaches the consumer, unless the queue is destroyed.
EveryObjectReceived ==
  \A n \in 1 .. MaxEnqueues : complete >= n ~> (Len(received) >= n \/ ~ alive)

\* The queue implements the channel: constructing the object reserves its
\* place, the store of the tail completes it, moving it out receives it.
Channel == INSTANCE MessageChannel WITH
  Msgs <- Values,
  complete <- 1 .. complete

ImplementsChannel == Channel!Spec
=============================================================================
