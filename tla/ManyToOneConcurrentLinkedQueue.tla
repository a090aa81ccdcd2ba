------------------- MODULE ManyToOneConcurrentLinkedQueue -------------------
(***************************************************************************)
(* caeron/concurrent/many_to_one_concurrent_linked_queue.h: an unbounded   *)
(* queue of heap nodes behind a sentinel, from many producer threads to    *)
(* one consumer thread.                                                    *)
(*                                                                         *)
(* A node is an address: delete returns it to the heap, and new may hand   *)
(* the same address out again.  Linking a node is a step of its own after  *)
(* the exchange of tail_, so the chain from head_ may be broken while a    *)
(* producer is between the two.                                            *)
(***************************************************************************)
EXTENDS Naturals, Sequences, FiniteSets

CONSTANTS
  Producers,       \* the threads that enqueue
  Nodes,           \* the addresses the heap has for nodes
  Null,            \* nullptr
  Values,          \* what is queued
  Default,         \* T{}, the value of a sentinel
  MaxEnqueues      \* bound: calls of enqueue()

ASSUME NodesAssumption == Null \notin Nodes /\ Nodes # {}
ASSUME HeapAssumption == IsFiniteSet(Nodes)
ASSUME ValuesAssumption == Default \notin Values
ASSUME MaxEnqueues \in Nat

VARIABLES
  head, tail,      \* head_ and tail_
  next,            \* the field next of every node
  value,           \* the field value of every node
  allocated,       \* the nodes that are not in the heap
  producer,        \* each producer in enqueue(): its step, node and prev_tail
  alive,           \* the queue has not been destroyed
  sent,            \* history: the values enqueued, in the order of the exchanges
  place,           \* history: the position in sent of the node of an address
  linked,          \* history: the positions of sent whose node was linked
  received         \* history: what try_dequeue() returned

history == << sent, place, linked, received >>
vars == << head, tail, next, value, allocated, producer, alive, history >>

Idle == [step |-> "idle", node |-> Null, prev |-> Null]

Init ==
  \E sentinel \in Nodes :
    /\ head = sentinel
    /\ tail = sentinel
    /\ next = [n \in Nodes |-> Null]
    /\ value = [n \in Nodes |-> Default]
    /\ allocated = {sentinel}
    /\ producer = [p \in Producers |-> Idle]
    /\ alive = TRUE
    /\ sent = << >>
    /\ place = [n \in Nodes |-> 0]
    /\ linked = {}
    /\ received = << >>

-----------------------------------------------------------------------------
(* enqueue()                                                               *)

\* Mutant: the field next of a new node keeps what the address held before.
NewNodeStaleNext(p, v) ==
  \E n \in Nodes \ allocated :
    /\ alive
    /\ producer[p].step = "idle"
    /\ Len(sent) + Cardinality({q \in Producers : producer[q].step = "exchange"}) < MaxEnqueues
    /\ allocated' = allocated \cup {n}
    /\ value' = [value EXCEPT ![n] = v]
    /\ producer' = [producer EXCEPT ![p] = [step |-> "exchange", node |-> n, prev |-> Null]]
    /\ UNCHANGED << head, tail, next, alive, history >>

NewNode(p, v) ==
  \E n \in Nodes \ allocated :
    /\ alive
    /\ producer[p].step = "idle"
    /\ Len(sent) + Cardinality({q \in Producers : producer[q].step = "exchange"}) < MaxEnqueues
    /\ allocated' = allocated \cup {n}
    /\ value' = [value EXCEPT ![n] = v]
    /\ next' = [next EXCEPT ![n] = Null]
    /\ producer' = [producer EXCEPT ![p] = [step |-> "exchange", node |-> n, prev |-> Null]]
    /\ UNCHANGED << head, tail, alive, history >>

ExchangeTail(p) ==
  LET n == producer[p].node
  IN  /\ producer[p].step = "exchange"
      /\ producer' = [producer EXCEPT ![p].step = "link", ![p].prev = tail]
      /\ tail' = n
      /\ sent' = Append(sent, value[n])
      /\ place' = [place EXCEPT ![n] = Len(sent) + 1]
      /\ UNCHANGED << head, next, value, allocated, alive, linked, received >>

\* Mutant: the link is not stored.
LinkForgotten(p) ==
  LET w == producer[p]
  IN  /\ w.step = "link"
      /\ linked' = linked \cup {place[w.node]}
      /\ producer' = [producer EXCEPT ![p] = Idle]
      /\ UNCHANGED << head, tail, next, value, allocated, alive, sent, place, received >>

LinkPrevious(p) ==
  LET w == producer[p]
  IN  /\ w.step = "link"
      /\ next' = [next EXCEPT ![w.prev] = w.node]
      /\ linked' = linked \cup {place[w.node]}
      /\ producer' = [producer EXCEPT ![p] = Idle]
      /\ UNCHANGED << head, tail, value, allocated, alive, sent, place, received >>

-----------------------------------------------------------------------------
(* try_dequeue(); only the consumer stores head_ and deletes nodes, so all *)
(* that follows the load of head->next is one step.                        *)

\* Mutant: the node the value was moved from is deleted, not the old sentinel.
DequeueDeletesNext ==
  LET first == next[head]
  IN  /\ alive
      /\ first # Null
      /\ received' = Append(received, value[first])
      /\ value' = [value EXCEPT ![first] = Default]
      /\ head' = first
      /\ allocated' = allocated \ {first}
      /\ UNCHANGED << tail, next, producer, alive, sent, place, linked >>

\* Mutant: the old sentinel is not deleted.
DequeueKeepsSentinel ==
  LET first == next[head]
  IN  /\ alive
      /\ first # Null
      /\ received' = Append(received, value[first])
      /\ value' = [value EXCEPT ![first] = Default]
      /\ head' = first
      /\ UNCHANGED << tail, next, allocated, producer, alive, sent, place, linked >>

\* With head->next null try_dequeue() returns false.
TryDequeue ==
  LET first == next[head]
  IN  /\ alive
      /\ first # Null
      /\ received' = Append(received, value[first])
      /\ value' = [value EXCEPT ![first] = Default]
      /\ head' = first
      /\ allocated' = allocated \ {head}
      /\ UNCHANGED << tail, next, producer, alive, sent, place, linked >>

-----------------------------------------------------------------------------
\* The nodes the destructor meets: the chain from head_ up to the first null.
Chain ==
  LET ReachedIn[k \in 0 .. Cardinality(Nodes)] ==
        IF k = 0 THEN {head}
        ELSE ReachedIn[k - 1] \cup ({next[n] : n \in ReachedIn[k - 1]} \ {Null})
  IN  ReachedIn[Cardinality(Nodes)]

\* The destructor; no thread uses the queue any more.
Destroy ==
  /\ alive
  /\ \A p \in Producers : producer[p] = Idle
  /\ allocated' = allocated \ Chain
  /\ alive' = FALSE
  /\ UNCHANGED << head, tail, next, value, producer, history >>

EnqueueStep(p) == ExchangeTail(p) \/ LinkPrevious(p)

Next ==
  \/ \E p \in Producers, v \in Values : NewNode(p, v)
  \/ \E p \in Producers : EnqueueStep(p)
  \/ TryDequeue
  \/ Destroy

Spec == Init /\ [][Next]_vars

\* A producer inside enqueue() goes on, and the consumer polls.
FairSpec == Spec /\ (\A p \in Producers : WF_vars(EnqueueStep(p))) /\ WF_vars(TryDequeue)

-----------------------------------------------------------------------------
(* Properties.                                                             *)

TypeOK ==
  /\ head \in Nodes
  /\ tail \in Nodes
  /\ next \in [Nodes -> Nodes \cup {Null}]
  /\ value \in [Nodes -> Values \cup {Default}]
  /\ allocated \subseteq Nodes
  /\ producer \in [Producers -> [step : {"idle", "exchange", "link"},
                                 node : Nodes \cup {Null}, prev : Nodes \cup {Null}]]
  /\ alive \in BOOLEAN
  /\ sent \in Seq(Values)
  /\ place \in [Nodes -> Nat]
  /\ linked \subseteq Nat
  /\ received \in Seq(Values)

\* No thread touches a node that was deleted: not the consumer through head_,
\* not the next producer through tail_, not a producer that links a node to the
\* previous tail long after its exchange.
NoUseAfterFree ==
  alive =>
    /\ {head, tail} \subseteq allocated
    /\ next[head] # Null => next[head] \in allocated
    /\ \A p \in Producers :
         /\ producer[p].step \in {"exchange", "link"} => producer[p].node \in allocated
         /\ producer[p].step = "link" => producer[p].prev \in allocated

\* The link a producer is about to store is still missing, and it is the only
\* producer that will store it: no value is cut out of the chain.
LinkMissing ==
  \A p \in Producers : producer[p].step = "link" =>
    /\ next[producer[p].prev] = Null
    /\ \A q \in Producers \ {p} : producer[q].step = "link" => producer[q].prev # producer[p].prev

\* What every thread relies on, whatever the others do: the chain from head_ has
\* no deleted node in it, and only the links that a producer still owes are missing.
ChainSound == TypeOK /\ NoUseAfterFree /\ LinkMissing

\* The destructor finds every node that is left.
NothingLeaks == ~ alive => allocated = {}

\* Every enqueued value is dequeued, unless the queue is destroyed.
EveryValueReceived ==
  \A n \in 1 .. MaxEnqueues : Len(sent) >= n ~> (Len(received) >= n \/ ~ alive)

\* The queue implements the channel: the exchange of tail_ reserves the place
\* of a value, the link completes it.
Channel == INSTANCE MessageChannel WITH
  Msgs <- Values,
  complete <- linked

ImplementsChannel == Channel!Spec
=============================================================================
