-------------------- MODULE QueueAndCodec_proofs ---------------------
(***************************************************************************)
(* Two proofs that do not use each other: of the linked queue, and of the  *)
(* messages of the command channel and of the media endpoints.             *)
(*                                                                         *)
(* The linked queue, for any number of producers, and any heap that hands  *)
(* out the addresses of deleted nodes again: it implements the channel,    *)
(* nobody touches a deleted node, and the destructor leaves none.          *)
(*                                                                         *)
(* The messages, for a scratch buffer of any size that has room for an     *)
(* error frame, parts of any lengths, and foreign messages with any        *)
(* numbers in them: a handler gets the arguments of the method, no adapter *)
(* reads behind a message, and nothing stale is sent.                      *)
(***************************************************************************)
EXTENDS ManyToOneConcurrentLinkedQueue, MessageCodec, FiniteSetTheorems,
        SequenceTheorems, WellFoundedInduction, TLAPS

(***************************************************************************)
(* The linked queue.                                                       *)
(***************************************************************************)

\* The node was put in the queue by an exchange of tail_ and is not deleted.
InChain(n) ==
  /\ n \in allocated
  /\ \A p \in Producers : producer[p].step = "exchange" => producer[p].node # n

\* What a producer holds: a node of its own before the exchange, and after it two
\* neighbours whose link is missing.
ProducersSound ==
  \A p \in Producers :
    /\ producer[p].step = "exchange" =>
         /\ producer[p].node \in allocated
         /\ next[producer[p].node] = Null
         /\ value[producer[p].node] \in Values
    /\ producer[p].step = "link" =>
         /\ InChain(producer[p].node) /\ InChain(producer[p].prev)
         /\ next[producer[p].prev] = Null
         /\ place[producer[p].node] = place[producer[p].prev] + 1
    /\ \A q \in Producers \ {p} :
         producer[p].step = producer[q].step /\ producer[p].step # "idle" =>
           producer[p].node # producer[q].node

\* The nodes of the chain have a place each, from that of the last value received to
\* that of the last value sent, and the links that are there lead to the next place.
ChainInv ==
  /\ InChain(head) /\ place[head] = Len(received)
  /\ InChain(tail) /\ place[tail] = Len(sent)
  /\ linked \subseteq 1 .. Len(sent)
  /\ \A n \in Nodes : InChain(n) =>
       /\ place[n] \in Len(received) .. Len(sent)
       /\ n # head => value[n] = sent[place[n]]
       /\ place[n] + 1 \in linked <=> next[n] # Null
       /\ next[n] # Null => InChain(next[n]) /\ place[next[n]] = place[n] + 1
       /\ \A m \in Nodes : InChain(m) /\ place[m] = place[n] => m = n

Destroyed == \A p \in Producers : producer[p].step = "idle"

IInv == TypeOK /\ IF alive THEN ProducersSound /\ ChainInv ELSE Destroyed

-----------------------------------------------------------------------------
(* The steps of a producer.                                                 *)

\* A producer inside enqueue() is in a queue that is not destroyed.
LEMMA InsideAlive ==
  ASSUME IInv, NEW p \in Producers, producer[p].step # "idle"
  PROVE  alive /\ ProducersSound /\ ChainInv
BY DEF IInv, Destroyed

\* A new node is in nobody's hands but the producer's.
LEMMA NewNodeKeeps ==
  ASSUME IInv, NEW p \in Producers, NEW v \in Values, NewNode(p, v)
  PROVE  IInv'
<1>1. PICK n \in Nodes \ allocated :
        /\ alive /\ producer[p].step = "idle"
        /\ allocated' = allocated \cup {n}
        /\ value' = [value EXCEPT ![n] = v]
        /\ next' = [next EXCEPT ![n] = Null]
        /\ producer' = [producer EXCEPT ![p] = [step |-> "exchange", node |-> n, prev |-> Null]]
        /\ UNCHANGED << head, tail, alive, history >>
  BY DEF NewNode
<1>2. TypeOK /\ ProducersSound /\ ChainInv
  BY <1>1 DEF IInv
<1>3. /\ producer'[p].step = "exchange" /\ producer'[p].node = n
      /\ \A q \in Producers \ {p} : producer'[q] = producer[q]
      /\ next'[n] = Null /\ value'[n] = v
      /\ \A m \in Nodes \ {n} : next'[m] = next[m] /\ value'[m] = value[m]
  BY <1>1, <1>2 DEF TypeOK
<1>4. UNCHANGED << head, tail, alive, sent, place, linked, received >>
  BY <1>1 DEF history
<1>5. TypeOK'
  <2>1. [step |-> "exchange", node |-> n, prev |-> Null]
          \in [step : {"idle", "exchange", "link"}, node : Nodes \cup {Null}, prev : Nodes \cup {Null}]
    OBVIOUS
  <2> QED BY <1>1, <1>2, <1>4, <2>1 DEF TypeOK
<1>6. \A m : InChain(m)' <=> InChain(m)
  <2>1. \A m : InChain(m) => m # n
    BY DEF InChain
  <2>2. \A m : InChain(m) => InChain(m)'
    BY <1>1, <1>3, <2>1 DEF InChain
  <2>3. \A m : InChain(m)' => InChain(m)
    BY <1>1, <1>3 DEF InChain
  <2> QED BY <2>2, <2>3
<1>7. ProducersSound'
  <2>1. \A q \in Producers \ {p} :
          producer[q].step = "exchange" => producer[q].node # n
    BY <1>2 DEF ProducersSound
  <2>2. ASSUME NEW q \in Producers \ {p}
        PROVE  /\ producer[q].step = "exchange" =>
                    /\ producer[q].node \in allocated'
                    /\ next'[producer[q].node] = Null
                    /\ value'[producer[q].node] \in Values
               /\ producer[q].step = "link" =>
                    /\ InChain(producer[q].node) /\ InChain(producer[q].prev)
                    /\ next'[producer[q].prev] = Null
                    /\ place[producer[q].node] = place[producer[q].prev] + 1
    BY <1>1, <1>2, <1>3 DEF ProducersSound, TypeOK, InChain
  <2> QED BY <1>1, <1>2, <1>3, <1>4, <1>6, <2>1, <2>2 DEF ProducersSound
<1>8. ChainInv'
  <2>1. \A m \in Nodes : InChain(m) => m # n
    BY DEF InChain
  <2> QED BY <1>2, <1>3, <1>4, <1>6, <2>1 DEF ChainInv
<1> QED BY <1>1, <1>4, <1>5, <1>7, <1>8 DEF IInv

\* The exchange puts the producer's node at the end of the chain.
LEMMA ExchangeTailKeeps ==
  ASSUME IInv, NEW p \in Producers, ExchangeTail(p)
  PROVE  IInv'
<1>1. /\ alive /\ TypeOK /\ ProducersSound /\ ChainInv
      /\ producer[p].step = "exchange"
  BY InsideAlive DEF ExchangeTail, IInv
<1>2. PICK n \in Nodes : n = producer[p].node
  BY <1>1 DEF ProducersSound, TypeOK
<1>3. PICK last \in Nat : last = Len(sent)
  BY <1>1 DEF TypeOK
<1>4. PICK v \in Values : v = value[n]
  BY <1>1, <1>2 DEF ProducersSound
<1>5. /\ producer' = [producer EXCEPT ![p].step = "link", ![p].prev = tail]
      /\ tail' = n
      /\ sent' = Append(sent, v)
      /\ place' = [place EXCEPT ![n] = last + 1]
      /\ UNCHANGED << head, next, value, allocated, alive, linked, received >>
  BY <1>2, <1>3, <1>4 DEF ExchangeTail
<1>6. /\ producer'[p].step = "link" /\ producer'[p].node = n /\ producer'[p].prev = tail
      /\ \A q \in Producers \ {p} : producer'[q] = producer[q]
      /\ place'[n] = last + 1
      /\ \A m \in Nodes \ {n} : place'[m] = place[m]
      /\ sent' \in Seq(Values) /\ Len(sent') = last + 1 /\ sent'[last + 1] = v
      /\ \A i \in 1 .. last : sent'[i] = sent[i]
  <2>1. sent \in Seq(Values) /\ sent' = Append(sent, v)
    BY <1>1, <1>5 DEF TypeOK
  <2>2. /\ sent' \in Seq(Values) /\ Len(sent') = last + 1 /\ sent'[last + 1] = v
        /\ \A i \in 1 .. last : sent'[i] = sent[i]
    BY <1>3, <2>1
  <2>3. /\ producer'[p].step = "link" /\ producer'[p].node = n /\ producer'[p].prev = tail
        /\ \A q \in Producers \ {p} : producer'[q] = producer[q]
    BY <1>1, <1>2, <1>5 DEF TypeOK
  <2>4. place'[n] = last + 1 /\ \A m \in Nodes \ {n} : place'[m] = place[m]
    BY <1>1, <1>5 DEF TypeOK
  <2> QED BY <2>2, <2>3, <2>4
<1>7. TypeOK'
  <2>1. producer' \in [Producers -> [step : {"idle", "exchange", "link"},
                                     node : Nodes \cup {Null}, prev : Nodes \cup {Null}]]
    <3> DEFINE States == [step : {"idle", "exchange", "link"},
                          node : Nodes \cup {Null}, prev : Nodes \cup {Null}]
               state == [producer[p] EXCEPT !.step = "link", !.prev = tail]
    <3>1. producer \in [Producers -> States] /\ tail \in Nodes \cup {Null}
      BY <1>1 DEF TypeOK
    <3>2. state \in States
      BY <3>1
    <3>3. producer' = [producer EXCEPT ![p] = state]
      BY <1>5, <3>1
    <3> HIDE DEF States, state
    <3>4. producer' \in [Producers -> States]
      BY <3>1, <3>2, <3>3
    <3> QED BY <3>4 DEF States
  <2>2. place' \in [Nodes -> Nat]
    BY <1>1, <1>5 DEF TypeOK
  <2> QED BY <1>1, <1>5, <1>6, <2>1, <2>2 DEF TypeOK
<1>8. /\ n \in allocated /\ next[n] = Null /\ ~ InChain(n)
      /\ \A q \in Producers \ {p} : producer[q].step = "exchange" => producer[q].node # n
  BY <1>1, <1>2 DEF ProducersSound, InChain
<1>9. \A m : InChain(m)' <=> InChain(m) \/ m = n
  <2>1. ASSUME NEW m, InChain(m)'
        PROVE  InChain(m) \/ m = n
    <3>1. CASE m # n
      BY <1>2, <1>5, <1>6, <2>1, <3>1 DEF InChain
    <3> QED BY <3>1
  <2>2. ASSUME NEW m, InChain(m)
        PROVE  InChain(m)'
    BY <1>5, <1>6, <2>2 DEF InChain
  <2>3. InChain(n)'
    <3>1. ASSUME NEW q \in Producers, producer'[q].step = "exchange"
          PROVE  producer'[q].node # n
      <4>1. q \in Producers \ {p}
        BY <1>6, <3>1
      <4> QED BY <1>6, <1>8, <3>1, <4>1
    <3> QED BY <1>5, <1>8, <3>1 DEF InChain
  <2> QED BY <2>1, <2>2, <2>3
<1>10. next[tail] = Null /\ InChain(tail) /\ tail \in Nodes /\ place[tail] = last /\ tail # n
  <2>1. last + 1 \notin linked
    BY <1>1, <1>3 DEF ChainInv
  <2> QED BY <1>1, <1>3, <1>8, <2>1 DEF ChainInv, TypeOK
<1>11. ProducersSound'
  <2>1. ASSUME NEW q \in Producers \ {p}, producer[q].step = "link"
        PROVE  /\ producer[q].node # n
               /\ InChain(producer[q].node)' /\ InChain(producer[q].prev)'
               /\ next[producer[q].prev] = Null
               /\ place'[producer[q].node] = place'[producer[q].prev] + 1
    <3>1. /\ InChain(producer[q].node) /\ InChain(producer[q].prev)
          /\ next[producer[q].prev] = Null
          /\ place[producer[q].node] = place[producer[q].prev] + 1
      BY <1>1, <2>1 DEF ProducersSound
    <3>2. /\ producer[q].node \in Nodes \ {n} /\ producer[q].prev \in Nodes \ {n}
      BY <1>1, <1>8, <3>1 DEF InChain, TypeOK
    <3>3. producer'[q] = producer[q]
      BY <1>6
    <3>4. InChain(producer[q].node)' /\ InChain(producer[q].prev)'
      BY <1>9, <3>1, <3>3
    <3> QED BY <1>6, <3>1, <3>2, <3>4
  <2>2. /\ InChain(producer[p].node)' /\ InChain(producer[p].prev)'
        /\ next'[tail] = Null /\ place'[n] = place'[tail] + 1
    BY <1>5, <1>6, <1>9, <1>10
  <2>3. ASSUME NEW q \in Producers \ {p}, producer[q].step = "exchange"
        PROVE  /\ producer[q].node \in allocated' /\ next'[producer[q].node] = Null
               /\ value'[producer[q].node] \in Values
    BY <1>1, <1>5, <2>3 DEF ProducersSound
  <2>4. ASSUME NEW q \in Producers, NEW r \in Producers \ {q},
               producer'[q].step = producer'[r].step, producer'[q].step # "idle"
        PROVE  producer'[q].node # producer'[r].node
    <3>1. CASE q = p
      BY <1>6, <2>1, <2>4, <3>1
    <3>2. CASE r = p
      BY <1>6, <2>1, <2>4, <3>2
    <3>3. CASE q # p /\ r # p
      BY <1>1, <1>6, <2>4, <3>3 DEF ProducersSound
    <3> QED BY <3>1, <3>2, <3>3
  <2>5. ASSUME NEW q \in Producers
        PROVE  /\ producer'[q].step = "exchange" =>
                    /\ producer'[q].node \in allocated'
                    /\ next'[producer'[q].node] = Null
                    /\ value'[producer'[q].node] \in Values
               /\ producer'[q].step = "link" =>
                    /\ InChain(producer[q].node)' /\ InChain(producer[q].prev)'
                    /\ next'[producer'[q].prev] = Null
                    /\ place'[producer'[q].node] = place'[producer'[q].prev] + 1
    <3>1. CASE q = p
      BY <1>6, <2>2, <3>1
    <3>2. CASE q # p
      <4>1. producer'[q] = producer[q]
        BY <1>6, <3>2
      <4>2. CASE producer[q].step = "exchange"
        BY <2>3, <3>2, <4>1, <4>2
      <4>3. CASE producer[q].step = "link"
        BY <1>5, <2>1, <3>2, <4>1, <4>3
      <4>4. CASE producer[q].step \notin {"exchange", "link"}
        BY <4>1, <4>4
      <4> QED BY <4>2, <4>3, <4>4
    <3> QED BY <3>1, <3>2
  <2> QED BY <2>4, <2>5 DEF ProducersSound
<1>12. ChainInv'
  <2>1. /\ head' = head /\ InChain(head)' /\ head # n /\ head \in Nodes
        /\ place'[head] = Len(received')
    BY <1>1, <1>5, <1>6, <1>8, <1>9 DEF ChainInv, TypeOK
  <2>2. InChain(tail)' /\ place'[tail'] = Len(sent')
    BY <1>5, <1>6, <1>9
  <2>3. linked' \subseteq 1 .. Len(sent') /\ last + 2 \notin linked'
    BY <1>1, <1>3, <1>5, <1>6 DEF ChainInv
  <2>4. ASSUME NEW m \in Nodes, InChain(m)
        PROVE  /\ m # n /\ place'[m] = place[m]
               /\ place[m] \in Len(received) .. last
               /\ m # head => value[m] = sent'[place[m]]
               /\ place[m] + 1 \in linked <=> next[m] # Null
               /\ next[m] # Null => /\ InChain(next[m]) /\ next[m] # n
                                    /\ place'[next[m]] = place[m] + 1
    <3>1. m # n /\ place'[m] = place[m]
      BY <1>6, <1>8, <2>4
    <3>2. /\ place[m] \in Len(received) .. last
          /\ m # head => value[m] = sent[place[m]]
          /\ place[m] + 1 \in linked <=> next[m] # Null
          /\ next[m] # Null => InChain(next[m]) /\ place[next[m]] = place[m] + 1
      BY <1>1, <1>3, <2>4 DEF ChainInv
    <3>3. m # head => place[m] \in 1 .. last
      BY <1>1, <1>3, <2>4 DEF ChainInv, TypeOK
    <3>4. next[m] # Null => next[m] \in Nodes \ {n}
      BY <1>1, <1>8, <3>2 DEF TypeOK
    <3> QED BY <1>6, <3>1, <3>2, <3>3, <3>4
  <2>5. /\ place'[n] = last + 1 /\ value[n] = sent'[place'[n]] /\ next[n] = Null
        /\ place'[n] + 1 \notin linked'
        /\ last + 1 \in Len(received) .. last + 1
    BY <1>1, <1>3, <1>4, <1>6, <1>8, <2>3 DEF ChainInv, TypeOK
  <2>6. ASSUME NEW m \in Nodes, InChain(m)'
        PROVE  /\ place'[m] \in Len(received') .. Len(sent')
               /\ m # head' => value'[m] = sent'[place'[m]]
               /\ place'[m] + 1 \in linked' <=> next'[m] # Null
               /\ next'[m] # Null => InChain(next[m])' /\ place'[next'[m]] = place'[m] + 1
    <3>1. CASE m = n
      BY <1>5, <1>6, <2>5, <3>1
    <3>2. CASE m # n
      <4>1. InChain(m)
        BY <1>9, <2>6, <3>2
      <4>2. place[m] \in Len(received) .. last + 1
        BY <1>1, <1>3, <2>4, <4>1 DEF TypeOK
      <4>3. next[m] # Null => InChain(next[m])'
        BY <1>5, <1>9, <2>4, <4>1
      <4>4. /\ linked' = linked /\ next' = next /\ value' = value /\ head' = head
            /\ received' = received /\ Len(sent') = last + 1
        BY <1>5, <1>6
      <4> QED BY <2>4, <4>1, <4>2, <4>3, <4>4
    <3> QED BY <3>1, <3>2
  <2>7. ASSUME NEW m \in Nodes, InChain(m)', NEW k \in Nodes, InChain(k)', place'[k] = place'[m]
        PROVE  k = m
    <3>1. CASE m # n /\ k # n
      BY <1>1, <1>6, <1>9, <2>7, <3>1 DEF ChainInv
    <3>2. \A j \in Nodes : InChain(j) => place'[j] # last + 1
      BY <1>1, <1>3, <2>4 DEF TypeOK
    <3> QED BY <1>6, <1>9, <2>7, <3>1, <3>2
  <2> QED BY <2>1, <2>2, <2>3, <2>6, <2>7 DEF ChainInv
<1> QED BY <1>1, <1>5, <1>7, <1>11, <1>12 DEF IInv

\* The producer stores the missing link of its node.
LEMMA LinkPreviousKeeps ==
  ASSUME IInv, NEW p \in Producers, LinkPrevious(p)
  PROVE  IInv'
<1>1. alive /\ TypeOK /\ ProducersSound /\ ChainInv /\ producer[p].step = "link"
  BY InsideAlive DEF LinkPrevious, IInv
<1>2. PICK n \in Nodes, prev \in Nodes : n = producer[p].node /\ prev = producer[p].prev
  BY <1>1 DEF ProducersSound, InChain, TypeOK
<1>3. /\ InChain(n) /\ InChain(prev) /\ next[prev] = Null /\ place[n] = place[prev] + 1
  BY <1>1, <1>2 DEF ProducersSound
<1>4. PICK k \in Nat : k = place[n]
  BY <1>1 DEF TypeOK
<1>5. /\ next' = [next EXCEPT ![prev] = n]
      /\ linked' = linked \cup {k}
      /\ producer' = [producer EXCEPT ![p] = Idle]
      /\ UNCHANGED << head, tail, value, allocated, alive, sent, place, received >>
  BY <1>2, <1>4 DEF LinkPrevious
<1>6. /\ next'[prev] = n /\ \A m \in Nodes \ {prev} : next'[m] = next[m]
      /\ producer'[p].step = "idle" /\ \A q \in Producers \ {p} : producer'[q] = producer[q]
  BY <1>1, <1>5 DEF TypeOK, Idle
<1>7. k \in 1 .. Len(sent) /\ Len(sent) \in Nat /\ n # Null
  <2>1. Len(sent) \in Nat /\ Len(received) \in Nat /\ place[prev] \in Nat
    BY <1>1 DEF TypeOK
  <2>2. place[n] \in Len(received) .. Len(sent)
    BY <1>1, <1>3 DEF ChainInv
  <2>3. n # Null
    BY NodesAssumption
  <2> QED BY <1>3, <1>4, <2>1, <2>2, <2>3
<1>8. TypeOK'
  <2>1. Idle \in [step : {"idle", "exchange", "link"}, node : Nodes \cup {Null}, prev : Nodes \cup {Null}]
    BY DEF Idle
  <2> QED BY <1>1, <1>4, <1>5, <2>1 DEF TypeOK
<1>9. \A m : InChain(m)' <=> InChain(m)
  <2>1. ASSUME NEW m, InChain(m)
        PROVE  InChain(m)'
    <3>1. ASSUME NEW q \in Producers, producer'[q].step = "exchange"
          PROVE  producer'[q].node # m
      BY <1>6, <2>1, <3>1 DEF InChain
    <3> QED BY <1>5, <2>1, <3>1 DEF InChain
  <2>2. ASSUME NEW m, InChain(m)'
        PROVE  InChain(m)
    <3>1. ASSUME NEW q \in Producers, producer[q].step = "exchange"
          PROVE  producer[q].node # m
      <4>1. q \in Producers \ {p}
        BY <1>1, <3>1
      <4> QED BY <1>6, <2>2, <3>1, <4>1 DEF InChain
    <3> QED BY <1>5, <2>2, <3>1 DEF InChain
  <2> QED BY <2>1, <2>2
<1>10. ProducersSound'
  <2>1. ASSUME NEW q \in Producers \ {p}, producer[q].step = "link"
        PROVE  /\ InChain(producer[q].node) /\ InChain(producer[q].prev)
               /\ producer[q].prev \in Nodes \ {prev} /\ next[producer[q].prev] = Null
               /\ place[producer[q].node] = place[producer[q].prev] + 1
    <3>1. /\ InChain(producer[q].node) /\ InChain(producer[q].prev)
          /\ next[producer[q].prev] = Null
          /\ place[producer[q].node] = place[producer[q].prev] + 1
          /\ producer[q].node # n
      BY <1>1, <1>2, <2>1 DEF ProducersSound
    <3>2. producer[q].node \in Nodes /\ producer[q].prev \in Nodes
      BY <1>1, <3>1 DEF InChain, TypeOK
    <3>3. producer[q].prev # prev
      BY <1>1, <1>3, <3>1, <3>2 DEF ChainInv
    <3> QED BY <3>1, <3>2, <3>3
  <2>2. ASSUME NEW q \in Producers \ {p}, producer[q].step = "exchange"
        PROVE  /\ producer[q].node \in allocated
               /\ producer[q].node \in Nodes \ {prev}
               /\ next[producer[q].node] = Null
               /\ value[producer[q].node] \in Values
    BY <1>1, <1>3, <2>2 DEF ProducersSound, InChain, TypeOK
  <2>3. ASSUME NEW q \in Producers
        PROVE  /\ producer'[q].step = "exchange" =>
                    /\ producer'[q].node \in allocated'
                    /\ next'[producer'[q].node] = Null
                    /\ value'[producer'[q].node] \in Values
               /\ producer'[q].step = "link" =>
                    /\ InChain(producer[q].node)' /\ InChain(producer[q].prev)'
                    /\ next'[producer'[q].prev] = Null
                    /\ place'[producer'[q].node] = place'[producer'[q].prev] + 1
    <3>1. CASE q = p
      BY <1>6, <3>1
    <3>2. CASE q # p
      <4>1. producer'[q] = producer[q]
        BY <1>6, <3>2
      <4>2. CASE producer[q].step = "exchange"
        BY <1>5, <1>6, <2>2, <3>2, <4>1, <4>2
      <4>3. CASE producer[q].step = "link"
        <5>1. InChain(producer[q].node)' /\ InChain(producer[q].prev)'
          BY <1>9, <2>1, <3>2, <4>1, <4>3
        <5> QED BY <1>5, <1>6, <2>1, <3>2, <4>1, <4>3, <5>1
      <4>4. CASE producer[q].step \notin {"exchange", "link"}
        BY <4>1, <4>4
      <4> QED BY <4>2, <4>3, <4>4
    <3> QED BY <3>1, <3>2
  <2>4. ASSUME NEW q \in Producers, NEW r \in Producers \ {q},
               producer'[q].step = producer'[r].step, producer'[q].step # "idle"
        PROVE  producer'[q].node # producer'[r].node
    <3>1. q # p /\ r # p
      BY <1>6, <2>4
    <3> QED BY <1>1, <1>6, <2>4, <3>1 DEF ProducersSound
  <2> QED BY <2>3, <2>4 DEF ProducersSound
<1>11. ChainInv'
  <2>1. /\ InChain(head)' /\ place'[head'] = Len(received')
        /\ InChain(tail)' /\ place'[tail'] = Len(sent')
        /\ linked' \subseteq 1 .. Len(sent')
    BY <1>1, <1>5, <1>7, <1>9 DEF ChainInv
  <2>2. ASSUME NEW m \in Nodes, InChain(m)
        PROVE  /\ place'[m] \in Len(received') .. Len(sent')
               /\ m # head' => value'[m] = sent'[place'[m]]
               /\ place'[m] + 1 \in linked' <=> next'[m] # Null
               /\ next'[m] # Null => InChain(next[m])' /\ place'[next'[m]] = place'[m] + 1
    <3>1. /\ place[m] \in Len(received) .. Len(sent)
          /\ m # head => value[m] = sent[place[m]]
          /\ place[m] + 1 \in linked <=> next[m] # Null
          /\ next[m] # Null => InChain(next[m]) /\ place[next[m]] = place[m] + 1
      BY <1>1, <2>2 DEF ChainInv
    <3>2. CASE m = prev
      <4>1. InChain(next[m])'
        BY <1>3, <1>6, <1>9, <3>2
      <4> QED BY <1>3, <1>4, <1>5, <1>6, <1>7, <3>1, <3>2, <4>1
    <3>3. CASE m # prev
      <4>1. place[m] # place[prev]
        BY <1>1, <1>3, <2>2, <3>3 DEF ChainInv
      <4>2. place[m] \in Nat /\ place[prev] \in Nat
        BY <1>1 DEF TypeOK
      <4>3. place[m] + 1 # k
        BY <1>3, <1>4, <4>1, <4>2
      <4>4. next'[m] = next[m]
        BY <1>6, <3>3
      <4>5. next[m] # Null => InChain(next[m])'
        BY <1>9, <3>1, <4>4
      <4> QED BY <1>5, <3>1, <4>3, <4>4, <4>5
    <3> QED BY <3>2, <3>3
  <2>3. ASSUME NEW m \in Nodes, InChain(m), NEW j \in Nodes, InChain(j), place[j] = place[m]
        PROVE  j = m
    BY <1>1, <2>3 DEF ChainInv
  <2> QED BY <1>5, <1>9, <2>1, <2>2, <2>3 DEF ChainInv
<1> QED BY <1>1, <1>5, <1>8, <1>10, <1>11 DEF IInv

-----------------------------------------------------------------------------
(* The consumer, the destructor and the theorems.                           *)

\* The consumer deletes the old sentinel, which nobody refers to any more.
LEMMA TryDequeueKeeps ==
  ASSUME IInv, TryDequeue
  PROVE  IInv'
<1>1. alive /\ TypeOK /\ ProducersSound /\ ChainInv
  BY DEF TryDequeue, IInv
<1>2. PICK first \in Nodes, old \in Nodes : first = next[head] /\ old = head
  BY <1>1 DEF TryDequeue, TypeOK
<1>3. PICK got \in Nat, last \in Nat : got = Len(received) /\ last = Len(sent)
  BY <1>1 DEF TypeOK
<1>4. /\ InChain(old) /\ InChain(first) /\ next[old] = first /\ first # Null
      /\ place[old] = got /\ place[first] = got + 1
      /\ got + 1 \in got .. last
  BY <1>1, <1>2, <1>3 DEF TryDequeue, ChainInv
<1>5. /\ received' = Append(received, value[first])
      /\ value' = [value EXCEPT ![first] = Default]
      /\ head' = first
      /\ allocated' = allocated \ {old}
      /\ UNCHANGED << tail, next, producer, alive, sent, place, linked >>
  BY <1>2 DEF TryDequeue
<1>6. first # old /\ value[first] = sent[got + 1] /\ sent[got + 1] \in Values
  <2>1. first # old
    BY <1>3, <1>4
  <2>2. value[first] = sent[got + 1]
    BY <1>1, <1>2, <1>4, <2>1 DEF ChainInv
  <2>3. sent[got + 1] \in Values
    BY <1>1, <1>3, <1>4 DEF TypeOK
  <2> QED BY <2>1, <2>2, <2>3
<1>7. /\ received' \in Seq(Values) /\ Len(received') = got + 1
      /\ \A m \in Nodes \ {first} : value'[m] = value[m]
  <2>1. received \in Seq(Values) /\ received' = Append(received, sent[got + 1])
    BY <1>1, <1>5, <1>6 DEF TypeOK
  <2>2. received' \in Seq(Values) /\ Len(received') = got + 1
    BY <1>3, <1>6, <2>1
  <2>3. \A m \in Nodes \ {first} : value'[m] = value[m]
    BY <1>1, <1>5 DEF TypeOK
  <2> QED BY <2>2, <2>3
<1>8. TypeOK'
  <2>1. value' \in [Nodes -> Values \cup {Default}]
    BY <1>1, <1>5 DEF TypeOK
  <2> QED BY <1>1, <1>5, <1>7, <2>1 DEF TypeOK
<1>9. \A m : InChain(m)' <=> InChain(m) /\ m # old
  <2>1. ASSUME NEW m, InChain(m), m # old
        PROVE  InChain(m)'
    BY <1>5, <2>1 DEF InChain
  <2>2. ASSUME NEW m, InChain(m)'
        PROVE  InChain(m) /\ m # old
    BY <1>5, <2>2 DEF InChain
  <2> QED BY <2>1, <2>2
<1>10. ProducersSound'
  <2>1. ASSUME NEW q \in Producers, producer[q].step = "exchange"
        PROVE  /\ producer[q].node \in allocated'
               /\ next[producer[q].node] = Null
               /\ value'[producer[q].node] \in Values
    <3>1. /\ producer[q].node \in allocated /\ next[producer[q].node] = Null
          /\ value[producer[q].node] \in Values
      BY <1>1, <2>1 DEF ProducersSound
    <3>2. producer[q].node # old /\ producer[q].node # first
      BY <1>4, <2>1 DEF InChain
    <3>3. producer[q].node \in Nodes
      BY <1>1, <3>1 DEF TypeOK
    <3> QED BY <1>5, <1>7, <3>1, <3>2, <3>3
  <2>2. ASSUME NEW q \in Producers, producer[q].step = "link"
        PROVE  /\ InChain(producer[q].node)' /\ InChain(producer[q].prev)'
               /\ next[producer[q].prev] = Null
               /\ place[producer[q].node] = place[producer[q].prev] + 1
    <3>1. /\ InChain(producer[q].node) /\ InChain(producer[q].prev)
          /\ next[producer[q].prev] = Null
          /\ place[producer[q].node] = place[producer[q].prev] + 1
      BY <1>1, <2>2 DEF ProducersSound
    <3>2. producer[q].prev # old
      BY <1>4, <3>1
    <3>3. producer[q].node \in Nodes /\ producer[q].prev \in Nodes
      BY <1>1, <3>1 DEF InChain, TypeOK
    <3>4. place[producer[q].prev] \in got .. last
      BY <1>1, <1>3, <3>1, <3>3 DEF ChainInv
    <3>5. producer[q].node # old
      BY <1>3, <1>4, <3>1, <3>4
    <3>6. /\ InChain(producer[q].node)' <=> InChain(producer[q].node)
          /\ InChain(producer[q].prev)' <=> InChain(producer[q].prev)
      BY <1>5, <3>2, <3>5 DEF InChain
    <3> QED BY <3>1, <3>6
  <2>3. ASSUME NEW q \in Producers, NEW r \in Producers \ {q},
               producer[q].step = producer[r].step, producer[q].step # "idle"
        PROVE  producer[q].node # producer[r].node
    BY <1>1, <2>3 DEF ProducersSound
  <2> QED BY <1>5, <2>1, <2>2, <2>3 DEF ProducersSound
<1>11. ChainInv'
  <2>1. InChain(head)' /\ place'[head'] = Len(received')
    <3>1. InChain(first)'
      BY <1>4, <1>6, <1>9
    <3> QED BY <1>4, <1>5, <1>7, <3>1 DEF InChain
  <2>2. InChain(tail)' /\ place'[tail'] = Len(sent') /\ linked' \subseteq 1 .. Len(sent')
    <3>1. InChain(tail) /\ place[tail] = last
      BY <1>1, <1>3 DEF ChainInv
    <3>2. tail # old
      BY <1>3, <1>4, <3>1
    <3> QED BY <1>1, <1>3, <1>5, <3>1, <3>2 DEF InChain, ChainInv
  <2>3. ASSUME NEW m \in Nodes, InChain(m), m # old
        PROVE  /\ place'[m] \in Len(received') .. Len(sent')
               /\ m # head' => value'[m] = sent'[place'[m]]
               /\ place'[m] + 1 \in linked' <=> next'[m] # Null
               /\ next'[m] # Null => InChain(next[m])' /\ place'[next'[m]] = place'[m] + 1
    <3>1. /\ place[m] \in got .. last
          /\ value[m] = sent[place[m]]
          /\ place[m] + 1 \in linked <=> next[m] # Null
          /\ next[m] # Null => InChain(next[m]) /\ place[next[m]] = place[m] + 1
          /\ place[m] # got
      BY <1>1, <1>2, <1>3, <1>4, <2>3 DEF ChainInv
    <3>2. place[m] \in got + 1 .. last
      BY <1>3, <3>1
    <3>3. next[m] # Null => next[m] # old
      BY <1>3, <1>4, <3>1, <3>2
    <3>4. next[m] # Null => InChain(next[m])'
      BY <1>5, <3>1, <3>3 DEF InChain
    <3> QED BY <1>3, <1>5, <1>7, <3>1, <3>2, <3>4
  <2>4. ASSUME NEW m \in Nodes, InChain(m), NEW j \in Nodes, InChain(j), place[j] = place[m]
        PROVE  j = m
    BY <1>1, <2>4 DEF ChainInv
  <2> QED BY <1>5, <1>9, <2>1, <2>2, <2>3, <2>4 DEF ChainInv
<1> QED BY <1>1, <1>5, <1>8, <1>10, <1>11 DEF IInv

\* The destructor runs when no producer is inside enqueue().
LEMMA DestroyKeeps ==
  ASSUME IInv, Destroy
  PROVE  IInv'
<1>1. /\ TypeOK /\ alive' = FALSE /\ allocated' \subseteq allocated
      /\ \A p \in Producers : producer[p].step = "idle"
      /\ UNCHANGED << head, tail, next, value, producer, sent, place, linked, received >>
  BY DEF Destroy, IInv, Idle, history
<1>2. TypeOK'
  BY <1>1 DEF TypeOK
<1> QED BY <1>1, <1>2 DEF IInv, Destroyed

\* A queue is constructed with a sentinel and nothing in it.
LEMMA InitOK == Init => IInv
<1> SUFFICES ASSUME Init PROVE IInv
  OBVIOUS
<1>1. PICK sentinel \in Nodes :
        /\ head = sentinel /\ tail = sentinel
        /\ next = [n \in Nodes |-> Null] /\ value = [n \in Nodes |-> Default]
        /\ allocated = {sentinel}
        /\ producer = [p \in Producers |-> Idle]
        /\ alive = TRUE /\ sent = << >> /\ place = [n \in Nodes |-> 0]
        /\ linked = {} /\ received = << >>
  BY DEF Init
<1>2. \A p \in Producers : producer[p].step = "idle"
  BY <1>1 DEF Idle
<1>3. TypeOK
  <2>1. Idle \in [step : {"idle", "exchange", "link"}, node : Nodes \cup {Null}, prev : Nodes \cup {Null}]
    BY DEF Idle
  <2> QED BY <1>1, <2>1 DEF TypeOK
<1>4. \A m \in Nodes : InChain(m) <=> m = sentinel
  BY <1>1, <1>2 DEF InChain
<1>5. Len(sent) = 0 /\ Len(received) = 0 /\ \A m \in Nodes : place[m] = 0 /\ next[m] = Null
  BY <1>1
<1>6. ChainInv
  BY <1>1, <1>4, <1>5 DEF ChainInv
<1>7. ProducersSound
  BY <1>2 DEF ProducersSound
<1> QED BY <1>1, <1>3, <1>6, <1>7 DEF IInv

\* Every step of the queue keeps the invariant.
LEMMA NextOK == IInv /\ [Next]_vars => IInv'
<1> SUFFICES ASSUME IInv, [Next]_vars PROVE IInv'
  OBVIOUS
<1>1. CASE \E p \in Producers, v \in Values : NewNode(p, v)
  BY <1>1, NewNodeKeeps
<1>2. CASE \E p \in Producers : EnqueueStep(p)
  BY <1>2, ExchangeTailKeeps, LinkPreviousKeeps DEF EnqueueStep
<1>3. CASE TryDequeue
  BY <1>3, TryDequeueKeeps
<1>4. CASE Destroy
  BY <1>4, DestroyKeeps
<1>5. CASE UNCHANGED vars
  BY <1>5 DEF IInv, TypeOK, ProducersSound, ChainInv, InChain, Destroyed, vars, history
<1> QED BY <1>1, <1>2, <1>3, <1>4, <1>5 DEF Next

\* The chain from head_ is what the counts of enqueued and dequeued values say, for
\* any number of producers and addresses.
THEOREM InvCorrect == Spec => []IInv
BY InitOK, NextOK, PTL DEF Spec

\* No thread touches a deleted node, and each missing link has one producer that
\* will store it.
THEOREM ChainAlwaysSound == Spec => []ChainSound
<1>1. IInv => ChainSound
  <2> SUFFICES ASSUME IInv PROVE ChainSound
    OBVIOUS
  <2>1. TypeOK
    BY DEF IInv
  <2>2. ASSUME NEW p \in Producers, producer[p].step = "link"
        PROVE  /\ alive /\ producer[p].node \in allocated /\ producer[p].prev \in allocated
               /\ next[producer[p].prev] = Null
               /\ \A q \in Producers \ {p} :
                    producer[q].step = "link" => producer[q].prev # producer[p].prev
    <3>1. alive /\ ProducersSound /\ ChainInv
      BY <2>2, InsideAlive
    <3>2. ASSUME NEW q \in Producers \ {p}, producer[q].step = "link",
                 producer[q].prev = producer[p].prev
          PROVE  FALSE
      <4>1. /\ InChain(producer[q].node) /\ InChain(producer[p].node)
            /\ place[producer[q].node] = place[producer[p].node]
            /\ producer[q].node # producer[p].node
        BY <2>2, <3>1, <3>2 DEF ProducersSound
      <4>2. producer[q].node \in Nodes /\ producer[p].node \in Nodes
        BY <2>1, <4>1 DEF InChain, TypeOK
      <4> QED BY <3>1, <4>1, <4>2 DEF ChainInv
    <3> QED BY <2>2, <3>1, <3>2 DEF ProducersSound, InChain
  <2>3. alive => /\ {head, tail} \subseteq allocated
                 /\ next[head] # Null => next[head] \in allocated
    BY <2>1 DEF IInv, ChainInv, InChain, TypeOK
  <2>4. \A p \in Producers : producer[p].step = "exchange" => producer[p].node \in allocated
    BY InsideAlive DEF ProducersSound
  <2> QED BY <2>1, <2>2, <2>3, <2>4 DEF ChainSound, NoUseAfterFree, LinkMissing
<1> QED BY <1>1, InvCorrect, PTL

\* Every step of the queue is one of the channel or none: the exchange of tail_
\* reserves the place of a value, the link completes it, and try_dequeue() takes the
\* values once, in order and unchanged.
THEOREM QueueIsChannel == Spec => ImplementsChannel
<1>1. Init => Channel!Init
  BY DEF Init, Channel!Init
<1>2. IInv /\ [Next]_vars => [Channel!Next]_(Channel!channel)
  <2>1. SUFFICES ASSUME IInv, [Next]_vars PROVE [Channel!Next]_(Channel!channel)
    OBVIOUS
  <2>2. ASSUME NEW p \in Producers, ExchangeTail(p)
        PROVE  Channel!Next
    <3>1. value[producer[p].node] \in Values
      BY <2>1, <2>2, InsideAlive DEF ExchangeTail, ProducersSound
    <3>2. Channel!Reserve(value[producer[p].node])
      BY <2>2 DEF ExchangeTail, Channel!Reserve
    <3> QED BY <3>1, <3>2 DEF Channel!Next
  <2>3. ASSUME NEW p \in Producers, LinkPrevious(p)
        PROVE  Channel!Next
    <3>1. PICK n, prev : n = producer[p].node /\ prev = producer[p].prev
      OBVIOUS
    <3>2. /\ TypeOK /\ ChainInv /\ InChain(n) /\ InChain(prev)
          /\ next[prev] = Null /\ place[n] = place[prev] + 1
      BY <2>1, <2>3, <3>1, InsideAlive DEF LinkPrevious, ProducersSound, IInv
    <3>3. n \in Nodes /\ prev \in Nodes /\ Len(sent) \in Nat /\ Len(received) \in Nat
      BY <3>2 DEF InChain, TypeOK
    <3>4. /\ place[n] \in Len(received) .. Len(sent)
          /\ place[prev] \in Len(received) .. Len(sent)
          /\ place[n] \notin linked
      BY <3>2, <3>3 DEF ChainInv
    <3>5. place[n] \in 1 .. Len(sent) \ linked
      BY <3>2, <3>3, <3>4
    <3>6. Channel!Complete(place[n])
      BY <2>3, <3>1, <3>5 DEF LinkPrevious, Channel!Complete
    <3> QED BY <3>5, <3>6 DEF Channel!Next
  <2>4. CASE TryDequeue
    <3>1. PICK first \in Nodes, got \in Nat, last \in Nat :
            first = next[head] /\ got = Len(received) /\ last = Len(sent)
      BY <2>1, <2>4 DEF TryDequeue, IInv, TypeOK
    <3>2. ChainInv /\ head \in Nodes /\ next[head] # Null
      BY <2>1, <2>4 DEF TryDequeue, IInv, TypeOK
    <3>3. /\ InChain(first) /\ place[first] = got + 1 /\ place[head] = got
          /\ got + 1 \in linked
      BY <3>1, <3>2 DEF ChainInv
    <3>4. first # head
      BY <3>1, <3>3
    <3>5. value[first] = sent[got + 1]
      BY <3>1, <3>2, <3>3, <3>4 DEF ChainInv
    <3>6. Channel!Receive
      BY <2>4, <3>1, <3>3, <3>5 DEF TryDequeue, Channel!Receive
    <3> QED BY <3>6 DEF Channel!Next
  <2>5. ASSUME NEW p \in Producers, NEW v \in Values, NewNode(p, v)
        PROVE  UNCHANGED Channel!channel
    BY <2>5 DEF NewNode, history, Channel!channel
  <2>6. CASE Destroy \/ UNCHANGED vars
    BY <2>6 DEF Destroy, vars, history, Channel!channel
  <2> QED BY <2>1, <2>2, <2>3, <2>4, <2>5, <2>6 DEF Next, EnqueueStep
<1> QED BY <1>1, <1>2, InvCorrect, PTL DEF Spec, ImplementsChannel, Channel!Spec

-----------------------------------------------------------------------------
(* The destructor.                                                          *)

\* A link that is missing is owed by a producer that has made its exchange.
LinksOwed ==
  \A i \in 1 .. Len(sent) :
    i \in linked \/ \E p \in Producers : producer[p].step = "link" /\ place[producer[p].node] = i

\* The exchange owes a link, and storing the link settles it.
LEMMA LinksOwedKeeps ==
  ASSUME IInv, LinksOwed, [Next]_vars
  PROVE  LinksOwed'
<1>1. ASSUME NEW p \in Producers, NEW v \in Values, NewNode(p, v)
      PROVE  LinksOwed'
  <2>1. /\ sent' = sent /\ place' = place /\ linked' = linked
        /\ producer[p].step = "idle"
        /\ \A q \in Producers \ {p} : producer'[q] = producer[q]
    BY <1>1 DEF NewNode, history, IInv, TypeOK
  <2> QED BY <2>1 DEF LinksOwed
<1>2. ASSUME NEW p \in Producers, ExchangeTail(p)
      PROVE  LinksOwed'
  <2>1. /\ alive /\ TypeOK /\ ProducersSound /\ producer[p].step = "exchange"
    BY <1>2, InsideAlive DEF ExchangeTail, IInv
  <2>2. PICK n \in Nodes, last \in Nat : n = producer[p].node /\ last = Len(sent)
    BY <2>1 DEF ProducersSound, TypeOK
  <2>3. PICK v \in Values : v = value[n]
    BY <2>1, <2>2 DEF ProducersSound
  <2>4. /\ producer'[p].step = "link" /\ producer'[p].node = n
        /\ \A q \in Producers \ {p} : producer'[q] = producer[q]
        /\ place'[n] = last + 1 /\ \A m \in Nodes \ {n} : place'[m] = place[m]
        /\ linked' = linked /\ Len(sent') = last + 1
    BY <1>2, <2>1, <2>2, <2>3 DEF ExchangeTail, TypeOK
  <2>5. SUFFICES ASSUME NEW i \in 1 .. last + 1, i \notin linked
                 PROVE  \E q \in Producers : producer'[q].step = "link"
                                             /\ place'[producer'[q].node] = i
    BY <2>4 DEF LinksOwed
  <2>6. CASE i = last + 1
    BY <2>4, <2>6
  <2>7. CASE i # last + 1
    <3>1. i \in 1 .. Len(sent)
      BY <2>2, <2>7
    <3>2. PICK q \in Producers : producer[q].step = "link" /\ place[producer[q].node] = i
      BY <2>5, <3>1 DEF LinksOwed
    <3>3. q # p /\ InChain(producer[q].node)
      BY <2>1, <3>2 DEF ProducersSound
    <3>4. producer[q].node \in Nodes /\ producer[q].node # n
      BY <2>1, <2>2, <3>3 DEF InChain, TypeOK
    <3> QED BY <2>4, <3>2, <3>3, <3>4
  <2> QED BY <2>6, <2>7
<1>3. ASSUME NEW p \in Producers, LinkPrevious(p)
      PROVE  LinksOwed'
  <2>1. /\ sent' = sent /\ place' = place
        /\ linked' = linked \cup {place[producer[p].node]}
        /\ \A q \in Producers \ {p} : producer'[q] = producer[q]
    BY <1>3 DEF LinkPrevious, IInv, TypeOK
  <2>2. SUFFICES ASSUME NEW i \in 1 .. Len(sent), i \notin linked, i # place[producer[p].node]
                 PROVE  \E q \in Producers : producer'[q].step = "link"
                                             /\ place[producer'[q].node] = i
    BY <2>1 DEF LinksOwed
  <2>3. PICK q \in Producers : producer[q].step = "link" /\ place[producer[q].node] = i
    BY <2>2 DEF LinksOwed
  <2> QED BY <2>1, <2>2, <2>3
<1>4. CASE TryDequeue \/ Destroy \/ UNCHANGED vars
  <2>1. sent' = sent /\ place' = place /\ linked' = linked /\ producer' = producer
    BY <1>4 DEF TryDequeue, Destroy, vars, history
  <2> QED BY <2>1 DEF LinksOwed
<1> QED BY <1>1, <1>2, <1>3, <1>4 DEF Next, EnqueueStep

\* With every producer outside enqueue(), every place from that of head_ to that of
\* tail_ has its node.
LEMMA EveryPlaceTaken ==
  ASSUME IInv, LinksOwed, alive, \A p \in Producers : producer[p].step = "idle",
         NEW got \in Nat, got = Len(received), NEW last \in Nat, last = Len(sent)
  PROVE  /\ got <= last
         /\ \A n \in Nodes : InChain(n) <=> n \in allocated
         /\ \A n \in Nodes : InChain(n) /\ place[n] < last =>
              /\ next[n] # Null /\ next[n] \in Nodes
              /\ InChain(next[n]) /\ place[next[n]] = place[n] + 1
<1>1. TypeOK /\ ChainInv
  BY DEF IInv
<1>2. \A n \in Nodes : InChain(n) <=> n \in allocated
  BY DEF InChain
<1>3. \A i \in 1 .. last : i \in linked
  BY DEF LinksOwed
<1>4. head \in Nodes /\ place[head] \in got .. last
  BY <1>1 DEF ChainInv, TypeOK
<1>5. ASSUME NEW n \in Nodes, InChain(n), place[n] < last
      PROVE  /\ next[n] # Null /\ next[n] \in Nodes
             /\ InChain(next[n]) /\ place[next[n]] = place[n] + 1
  <2>1. place[n] \in got .. last
    BY <1>1, <1>5 DEF ChainInv
  <2>2. place[n] + 1 \in linked
    BY <1>3, <1>5, <2>1
  <2>3. next[n] # Null /\ InChain(next[n]) /\ place[next[n]] = place[n] + 1
    BY <1>1, <1>5, <2>2 DEF ChainInv
  <2> QED BY <1>1, <2>3 DEF TypeOK
<1> QED BY <1>2, <1>4, <1>5

\* The recursion of Chain.
Reach(reached, n) ==
  reached = [k \in 0 .. n |->
    IF k = 0 THEN {head}
    ELSE reached[k - 1] \cup ({next[m] : m \in reached[k - 1]} \ {Null})]

\* It is defined for every number of steps.
LEMMA ReachExists ==
  ASSUME NEW N \in Nat
  PROVE  \E reached : Reach(reached, N)
<1> DEFINE Bad == {n \in Nat : ~ \E reached : Reach(reached, n)}
<1>1. SUFFICES ASSUME Bad # {} PROVE FALSE
  OBVIOUS
<1>2. Bad \in SUBSET Nat
  OBVIOUS
<1>3. PICK n \in Bad : \A k \in Bad : ~ (<<k, n>> \in OpToRel(<, Nat))
  BY <1>1, <1>2, NatLessThanWellFounded, WFMin
<1>4. n \in Nat /\ ~ \E reached : Reach(reached, n)
  OBVIOUS
<1>5. CASE n = 0
  <2>1. Reach([i \in 0 .. 0 |-> {head}], 0)
    BY DEF Reach
  <2> QED BY <1>4, <1>5, <2>1
<1>6. CASE n # 0
  <2>1. n - 1 \in Nat
    BY <1>4, <1>6
  <2>2. <<n - 1, n>> \in OpToRel(<, Nat)
    BY <1>4, <2>1 DEF OpToRel
  <2>3. PICK old : Reach(old, n - 1)
    BY <1>3, <2>1, <2>2
  <2> DEFINE after == old[n - 1] \cup ({next[m] : m \in old[n - 1]} \ {Null})
             new == [i \in 0 .. n |-> IF i = n THEN after ELSE old[i]]
  <2>4. \A i \in 0 .. n - 1 : new[i] = old[i]
    BY <1>4
  <2>5. new[n] = after /\ new[n - 1] = old[n - 1]
    BY <1>4, <2>1, <2>4
  <2>6. \A i \in 0 .. n - 1 :
          old[i] = IF i = 0 THEN {head}
                   ELSE old[i - 1] \cup ({next[m] : m \in old[i - 1]} \ {Null})
    BY <2>3 DEF Reach
  <2>7. \A i \in 0 .. n : (i = n \/ i \in 0 .. n - 1) /\ (i # 0 => i - 1 \in 0 .. n - 1)
    BY <1>4, <1>6
  <2> HIDE DEF new
  <2>8. \A i \in 0 .. n :
          new[i] = IF i = 0 THEN {head}
                   ELSE new[i - 1] \cup ({next[m] : m \in new[i - 1]} \ {Null})
    <3> SUFFICES ASSUME NEW i \in 0 .. n
                 PROVE  new[i] = IF i = 0 THEN {head}
                                 ELSE new[i - 1] \cup ({next[m] : m \in new[i - 1]} \ {Null})
      OBVIOUS
    <3>1. CASE i = n
      BY <1>6, <2>5, <3>1
    <3>2. CASE i # n
      <4>1. new[i] = old[i] /\ (i # 0 => new[i - 1] = old[i - 1])
        BY <2>4, <2>7, <3>2
      <4> QED BY <2>6, <2>7, <3>2, <4>1
    <3> QED BY <3>1, <3>2
  <2>9. Reach(new, n)
    <3>1. new = [i \in 0 .. n |-> new[i]]
      BY DEF new
    <3> QED BY <2>8, <3>1 DEF Reach
  <2> QED BY <1>4, <2>9
<1> QED BY <1>5, <1>6

\* There are as many nodes as places: the chain ends before the recursion does.
LEMMA PlacesFit ==
  ASSUME IInv, LinksOwed, alive, \A p \in Producers : producer[p].step = "idle",
         NEW got \in Nat, got = Len(received), NEW last \in Nat, last = Len(sent)
  PROVE  /\ \A k \in 0 .. last - got : \E n \in Nodes : InChain(n) /\ place[n] = got + k
         /\ last - got + 1 <= Cardinality(Nodes)
<1>1. got <= last /\ head \in Nodes /\ InChain(head) /\ place[head] = got
  BY EveryPlaceTaken DEF IInv, TypeOK, ChainInv
<1> DEFINE At(n, k) == InChain(n) /\ place[n] = got + k
           Bad == {k \in 0 .. last - got : ~ \E n \in Nodes : At(n, k)}
<1>2. Bad = {}
  <2>1. SUFFICES ASSUME Bad # {} PROVE FALSE
    OBVIOUS
  <2>2. Bad \in SUBSET Nat
    OBVIOUS
  <2>3. PICK k \in Bad : \A j \in Bad : ~ (<<j, k>> \in OpToRel(<, Nat))
    BY <2>1, <2>2, NatLessThanWellFounded, WFMin
  <2>4. k \in 0 .. last - got /\ ~ \E n \in Nodes : At(n, k)
    OBVIOUS
  <2>5. CASE k = 0
    BY <1>1, <2>4, <2>5
  <2>6. CASE k # 0
    <3>1. k - 1 \in Nat /\ k - 1 \in 0 .. last - got
      BY <2>4, <2>6
    <3>2. <<k - 1, k>> \in OpToRel(<, Nat)
      BY <2>4, <3>1 DEF OpToRel
    <3>3. PICK n \in Nodes : At(n, k - 1)
      BY <2>3, <3>1, <3>2
    <3>4. place[n] < last /\ place[n] + 1 = got + k
      BY <2>4, <2>6, <3>3
    <3>5. next[n] \in Nodes /\ At(next[n], k)
      BY <3>3, <3>4, EveryPlaceTaken
    <3> QED BY <2>4, <3>5
  <2> QED BY <2>5, <2>6
<1>3. \A k \in 0 .. last - got : \E n \in Nodes : At(n, k)
  BY <1>2
<1> DEFINE f == [k \in 0 .. last - got |-> CHOOSE n \in Nodes : At(n, k)]
<1>4. \A k \in 0 .. last - got : f[k] \in Nodes /\ At(f[k], k)
  BY <1>3
<1>5. f \in Injection(0 .. last - got, Nodes)
  <2>1. f \in [0 .. last - got -> Nodes]
    BY <1>4
  <2>2. ASSUME NEW i \in 0 .. last - got, NEW j \in 0 .. last - got, f[i] = f[j]
        PROVE  i = j
    <3>1. place[f[i]] = got + i /\ place[f[j]] = got + j
      BY <1>4
    <3> HIDE DEF f
    <3> QED BY <2>2, <3>1
  <2> HIDE DEF f
  <2> QED BY <2>1, <2>2 DEF Injection, IsInjective
<1>6. Cardinality(0 .. last - got) <= Cardinality(Nodes)
  <2> HIDE DEF f
  <2> QED BY <1>5, HeapAssumption, FS_Injection
<1>7. Cardinality(0 .. last - got) = last - got + 1
  BY <1>1, FS_Interval
<1> QED BY <1>3, <1>6, <1>7

\* The destructor comes to every node that is not in the heap.
LEMMA ChainIsAll ==
  ASSUME IInv, LinksOwed, alive, \A p \in Producers : producer[p].step = "idle"
  PROVE  allocated \subseteq Chain
<1> DEFINE N == Cardinality(Nodes)
           reached == CHOOSE reached : Reach(reached, N)
<1>1. N \in Nat
  BY HeapAssumption, FS_CardinalityType
<1>2. Reach(reached, N)
  BY <1>1, ReachExists
<1>3. Chain = reached[N]
  BY DEF Chain, Reach
<1> HIDE DEF reached, N
<1>4. PICK got \in Nat, last \in Nat : got = Len(received) /\ last = Len(sent)
  BY DEF IInv, TypeOK
<1>5. TypeOK /\ ChainInv /\ last - got + 1 <= N /\ got <= last
  BY <1>4, PlacesFit, EveryPlaceTaken DEF IInv, N
<1>6. \A n \in Nodes : InChain(n) => place[n] \in got .. last
  BY <1>4, <1>5 DEF ChainInv
<1>7. \A m, n \in Nodes : InChain(m) /\ InChain(n) /\ place[m] = place[n] => m = n
  BY <1>5 DEF ChainInv
<1>8. /\ reached[0] = {head}
      /\ \A k \in 1 .. N :
           reached[k] = reached[k - 1] \cup ({next[m] : m \in reached[k - 1]} \ {Null})
  BY <1>1, <1>2 DEF Reach
<1> DEFINE Found(k) == \A n \in Nodes : InChain(n) /\ place[n] <= got + k => n \in reached[k]
           Bad == {k \in 0 .. N : ~ Found(k)}
<1>9. Bad = {}
  <2>1. SUFFICES ASSUME Bad # {} PROVE FALSE
    OBVIOUS
  <2>2. Bad \in SUBSET Nat
    BY <1>1
  <2>3. PICK k \in Bad : \A j \in Bad : ~ (<<j, k>> \in OpToRel(<, Nat))
    BY <2>1, <2>2, NatLessThanWellFounded, WFMin
  <2>4. k \in 0 .. N /\ k \in Nat /\ ~ Found(k)
    BY <1>1
  <2>5. PICK n \in Nodes : InChain(n) /\ place[n] <= got + k /\ n \notin reached[k]
    BY <2>4
  <2>6. CASE k = 0
    <3>1. place[n] = got
      BY <1>6, <2>5, <2>6
    <3>2. n = head
      BY <1>4, <1>5, <1>7, <2>5, <3>1 DEF ChainInv, TypeOK
    <3> QED BY <1>8, <2>5, <2>6, <3>2
  <2>7. CASE k # 0
    <3>1. k - 1 \in Nat /\ k - 1 \in 0 .. N /\ k \in 1 .. N
      BY <1>1, <2>4, <2>7
    <3>2. <<k - 1, k>> \in OpToRel(<, Nat)
      BY <2>4, <3>1 DEF OpToRel
    <3>3. Found(k - 1)
      BY <2>3, <3>1, <3>2
    <3>4. reached[k] = reached[k - 1] \cup ({next[m] : m \in reached[k - 1]} \ {Null})
      BY <1>8, <3>1
    <3>5. CASE place[n] <= got + (k - 1)
      BY <2>5, <3>3, <3>4, <3>5
    <3>6. CASE ~ (place[n] <= got + (k - 1))
      <4>1. place[n] = got + k /\ k \in 0 .. last - got
        BY <1>6, <2>4, <2>5, <3>6
      <4>2. k - 1 \in 0 .. last - got
        BY <3>1, <4>1
      <4>3. PICK m \in Nodes : InChain(m) /\ place[m] = got + (k - 1)
        BY <1>4, <4>2, PlacesFit
      <4>4. m \in reached[k - 1]
        BY <3>1, <3>3, <4>3
      <4>5. place[m] < last /\ place[m] + 1 = place[n]
        BY <4>1, <4>3
      <4>6. next[m] # Null /\ next[m] \in Nodes /\ InChain(next[m]) /\ place[next[m]] = place[n]
        BY <1>4, <4>3, <4>5, EveryPlaceTaken
      <4>7. n = next[m]
        BY <1>7, <2>5, <4>6
      <4> QED BY <2>5, <3>4, <4>4, <4>6, <4>7
    <3> QED BY <3>5, <3>6
  <2> QED BY <2>6, <2>7
<1>10. Found(N)
  BY <1>1, <1>9
<1>11. ASSUME NEW n \in allocated PROVE n \in reached[N]
  <2>1. n \in Nodes /\ InChain(n)
    BY <1>4, <1>5, EveryPlaceTaken DEF TypeOK
  <2>2. place[n] <= got + N
    BY <1>1, <1>5, <1>6, <2>1
  <2> QED BY <1>10, <2>1, <2>2
<1> QED BY <1>3, <1>11

\* Whenever the queue is destroyed, with any number of values in it, every node is
\* back in the heap.
THEOREM DestructorFreesAll == Spec => []NothingLeaks
<1> DEFINE Inv == LinksOwed /\ NothingLeaks
<1>1. Init => Inv
  BY DEF Init, LinksOwed, NothingLeaks
<1>2. IInv /\ Inv /\ [Next]_vars => Inv'
  <2> SUFFICES ASSUME IInv, Inv, [Next]_vars PROVE NothingLeaks'
    BY LinksOwedKeeps
  <2>1. ASSUME NEW p \in Producers, NEW v \in Values, NewNode(p, v)
        PROVE  NothingLeaks'
    BY <2>1 DEF NewNode, NothingLeaks
  <2>2. ASSUME NEW p \in Producers, EnqueueStep(p)
        PROVE  NothingLeaks'
    <3>1. producer[p].step # "idle" /\ alive' = alive
      BY <2>2 DEF EnqueueStep, ExchangeTail, LinkPrevious
    <3> QED BY <3>1, InsideAlive DEF NothingLeaks
  <2>3. CASE TryDequeue
    BY <2>3 DEF TryDequeue, NothingLeaks
  <2>4. CASE Destroy
    <3>1. alive /\ allocated' = allocated \ Chain
          /\ \A p \in Producers : producer[p].step = "idle"
      BY <2>4 DEF Destroy, Idle
    <3>2. allocated \subseteq Chain
      BY <3>1, ChainIsAll
    <3> QED BY <3>1, <3>2 DEF NothingLeaks
  <2>5. CASE UNCHANGED vars
    BY <2>5 DEF vars, NothingLeaks
  <2> QED BY <2>1, <2>2, <2>3, <2>4, <2>5 DEF Next
<1> QED BY <1>1, <1>2, InvCorrect, PTL DEF Spec

(***************************************************************************)
(* The messages.                                                           *)
(***************************************************************************)

\* Fields with these names lie one after the other in the first n bytes.
Tiled(fields, names, n) ==
  /\ n \in Nat
  /\ names = {f.name : f \in fields}
  /\ \A f \in fields : f.offset \in Nat /\ f.size \in Nat \ {0} /\ f.offset + f.size <= n
  /\ \A f, g \in fields : f # g =>
       /\ f.name # g.name
       /\ f.offset + f.size <= g.offset \/ g.offset + g.size <= f.offset
  /\ \A i \in 0 .. n - 1 : \E f \in fields : f.offset <= i /\ i < f.offset + f.size

\* The fields fill the bytes up to the first length field, the least length is behind
\* the length fields, and there are names for all that a message holds.
Sound(layout) ==
  /\ Tiled(layout.fields, Names(layout), layout.from)
  /\ layout.minimum \in Nat
  /\ layout.alignment \in {1, SIZE_OF_INT}
  /\ \/ layout.parts = <<>> /\ layout.minimum = layout.from
     \/ /\ \E a : layout.parts = <<a>> /\ a \notin Names(layout)
        /\ layout.minimum = layout.from + SIZE_OF_INT
     \/ /\ \E a, b : /\ layout.parts = <<a, b>> /\ a # b
                     /\ a \notin Names(layout) /\ b \notin Names(layout)
        /\ layout.minimum \in layout.from + SIZE_OF_INT .. layout.from + 2 * SIZE_OF_INT

LayoutIs(layout, names, parts) ==
  Sound(layout) /\ Names(layout) = names /\ layout.parts = parts

-----------------------------------------------------------------------------
(* Layouts, field by field.                                                 *)

\* No fields fill no bytes.
LEMMA NoFields == Tiled({}, {}, 0)
BY DEF Tiled

\* A field with a name of its own that begins behind the others.
LEMMA NextField ==
  ASSUME NEW fields, NEW names, NEW n, Tiled(fields, names, n),
         NEW f, NEW name, f.name = name, name \notin names,
         NEW size \in Nat \ {0}, f.offset = n, f.size = size,
         NEW more, more = fields \cup {f}
  PROVE  Tiled(more, names \cup {name}, n + size)
<1>1. n \in Nat /\ names = {g.name : g \in fields}
  BY DEF Tiled
<1>2. names \cup {name} = {g.name : g \in more}
  BY <1>1
<1>3. \A g \in more : g.offset \in Nat /\ g.size \in Nat \ {0} /\ g.offset + g.size <= n + size
  BY DEF Tiled
<1>4. \A g, h \in more : g # h =>
        /\ g.name # h.name
        /\ g.offset + g.size <= h.offset \/ h.offset + h.size <= g.offset
  <2>1. \A g \in fields : g.name # f.name /\ g.offset + g.size <= f.offset
    BY <1>1 DEF Tiled
  <2> QED BY <2>1 DEF Tiled
<1>5. \A i \in 0 .. n + size - 1 : \E g \in more : g.offset <= i /\ i < g.offset + g.size
  <2>1. TAKE i \in 0 .. n + size - 1
  <2>2. CASE i < n
    BY <2>2, <1>1 DEF Tiled
  <2>3. CASE i >= n
    <3>1. f \in more /\ f.offset <= i /\ i < f.offset + f.size
      BY <2>3, <1>1
    <3> QED BY <3>1
  <2> QED BY <2>2, <2>3, <1>1
<1> QED BY <1>1, <1>2, <1>3, <1>4, <1>5 DEF Tiled

\* One byte more.
LEMMA NextU8 ==
  ASSUME NEW fields, NEW names, NEW n, Tiled(fields, names, n), NEW name, name \notin names,
         NEW more, more = fields \cup {U8(name, n)}
  PROVE  Tiled(more, names \cup {name}, n + 1)
<1> DEFINE f == U8(name, n)
<1>1. f.name = name /\ f.offset = n /\ f.size = 1
  BY DEF U8
<1>2. more = fields \cup {f}
  OBVIOUS
<1> HIDE DEF f
<1> QED BY <1>1, <1>2, NextField


\* Two bytes more.
LEMMA NextI16 ==
  ASSUME NEW fields, NEW names, NEW n, Tiled(fields, names, n), NEW name, name \notin names,
         NEW more, more = fields \cup {I16(name, n)}
  PROVE  Tiled(more, names \cup {name}, n + 2)
<1> DEFINE f == I16(name, n)
<1>1. f.name = name /\ f.offset = n /\ f.size = 2
  BY DEF I16
<1>2. more = fields \cup {f}
  OBVIOUS
<1> HIDE DEF f
<1> QED BY <1>1, <1>2, NextField


\* Four bytes more.
LEMMA NextI32 ==
  ASSUME NEW fields, NEW names, NEW n, Tiled(fields, names, n), NEW name, name \notin names,
         NEW more, more = fields \cup {I32(name, n)}
  PROVE  Tiled(more, names \cup {name}, n + 4)
<1> DEFINE f == I32(name, n)
<1>1. f.name = name /\ f.offset = n /\ f.size = 4
  BY DEF I32
<1>2. more = fields \cup {f}
  OBVIOUS
<1> HIDE DEF f
<1> QED BY <1>1, <1>2, NextField


\* Eight bytes more.
LEMMA NextI64 ==
  ASSUME NEW fields, NEW names, NEW n, Tiled(fields, names, n), NEW name, name \notin names,
         NEW more, more = fields \cup {I64(name, n)}
  PROVE  Tiled(more, names \cup {name}, n + 8)
<1> DEFINE f == I64(name, n)
<1>1. f.name = name /\ f.offset = n /\ f.size = 8
  BY DEF I64
<1>2. more = fields \cup {f}
  OBVIOUS
<1> HIDE DEF f
<1> QED BY <1>1, <1>2, NextField


\* Sixteen bytes more.
LEMMA NextBytes ==
  ASSUME NEW fields, NEW names, NEW n, Tiled(fields, names, n), NEW name, name \notin names,
         NEW more, more = fields \cup {[name |-> name, offset |-> n, size |-> 16]}
  PROVE  Tiled(more, names \cup {name}, n + 16)
<1> DEFINE f == [name |-> name, offset |-> n, size |-> 16]
<1>1. f.name = name /\ f.offset = n /\ f.size = 16
  OBVIOUS
<1>2. more = fields \cup {f}
  OBVIOUS
<1> HIDE DEF f
<1> QED BY <1>1, <1>2, NextField

\* A layout without parts.
LEMMA FixedSound ==
  ASSUME NEW fields, NEW names, NEW n, Tiled(fields, names, n)
  PROVE  LayoutIs(Fixed(fields, n), names, <<>>)
<1> DEFINE L == Fixed(fields, n)
<1>1. /\ L.fields = fields /\ L.minimum = n /\ L.parts = <<>> /\ L.from = n /\ L.alignment = 1
      /\ Names(L) = {f.name : f \in fields}
  BY DEF Fixed, Names
<1> HIDE DEF L
<1>2. names = {f.name : f \in fields} /\ n \in Nat
  BY DEF Tiled
<1> QED BY <1>1, <1>2 DEF L, LayoutIs, Sound

\* A layout with one part.
LEMMA OnePart ==
  ASSUME NEW fields, NEW names, NEW n, Tiled(fields, names, n),
         NEW part, part \notin names, NEW parts, parts = <<part>>
  PROVE  LayoutIs(Variable(fields, parts, n), names, parts)
<1> DEFINE L == Variable(fields, parts, n)
<1>1. /\ L.fields = fields /\ L.minimum = n + SIZE_OF_INT /\ L.parts = parts /\ L.from = n
      /\ L.alignment = 1 /\ Names(L) = {f.name : f \in fields}
  BY DEF Variable, Names
<1> HIDE DEF L
<1>2. names = {f.name : f \in fields} /\ n \in Nat
  BY DEF Tiled
<1>3. Names(L) = names
  BY <1>1, <1>2
<1>4. /\ L.minimum \in Nat
      /\ L.minimum \in n + SIZE_OF_INT .. n + 2 * SIZE_OF_INT
  BY <1>1, <1>2 DEF SIZE_OF_INT
<1>5. Sound(L)
  BY <1>1, <1>3, <1>4 DEF Sound
<1> QED BY <1>1, <1>3, <1>5 DEF L, LayoutIs

\* A layout with two parts.
LEMMA TwoParts ==
  ASSUME NEW fields, NEW names, NEW n, Tiled(fields, names, n),
         NEW part, NEW other, part # other, part \notin names, other \notin names,
         NEW parts, parts = <<part, other>>
  PROVE  LayoutIs(Variable(fields, parts, n), names, parts)
<1> DEFINE L == Variable(fields, parts, n)
<1>1. /\ L.fields = fields /\ L.minimum = n + SIZE_OF_INT /\ L.parts = parts /\ L.from = n
      /\ L.alignment = 1 /\ Names(L) = {f.name : f \in fields}
  BY DEF Variable, Names
<1> HIDE DEF L
<1>2. names = {f.name : f \in fields} /\ n \in Nat
  BY DEF Tiled
<1>3. Names(L) = names
  BY <1>1, <1>2
<1>4. /\ L.minimum \in Nat
      /\ L.minimum \in n + SIZE_OF_INT .. n + 2 * SIZE_OF_INT
  BY <1>1, <1>2 DEF SIZE_OF_INT
<1>5. Sound(L)
  BY <1>1, <1>3, <1>4 DEF Sound
<1> QED BY <1>1, <1>3, <1>5 DEF L, LayoutIs

\* What all commands begin with.
LEMMA TiledCorrelated == Tiled(Correlated, {"client_id", "correlation_id"}, 16)
<1>1. Tiled({I64("client_id", 0)}, {"client_id"}, 8)
  BY NoFields, NextI64
<1>2. Tiled({I64("client_id", 0), I64("correlation_id", 8)}, {"client_id",
            "correlation_id"}, 16)
  BY <1>1, NextI64
<1> QED BY <1>2 DEF Correlated, CorrelatedMessageFlyweight, Fixed

\* What all frames begin with.
LEMMA TiledHeader == Tiled(HeaderFlyweight, {"frame_length", "version", "flags", "type"}, 8)
<1>1. Tiled({I32("frame_length", 0)}, {"frame_length"}, 4)
  BY NoFields, NextI32
<1>2. Tiled({I32("frame_length", 0), U8("version", 4)}, {"frame_length", "version"}, 5)
  BY <1>1, NextU8
<1>3. Tiled({I32("frame_length", 0), U8("version", 4), U8("flags", 5)}, {"frame_length",
            "version", "flags"}, 6)
  BY <1>2, NextU8
<1>4. Tiled({I32("frame_length", 0), U8("version", 4), U8("flags", 5), I16("type", 6)},
            {"frame_length", "version", "flags", "type"}, 8)
  BY <1>3, NextI16
<1> QED BY <1>4 DEF HeaderFlyweight

\* What all control frames begin with.
LEMMA TiledControl == Tiled(ControlFields, {"frame_length", "version", "flags", "type",
            "session_id", "stream_id"}, 16)
<1>1. Tiled(HeaderFlyweight \cup {I32("session_id", 8)}, {"frame_length", "version",
            "flags", "type", "session_id"}, 12)
  BY TiledHeader, NextI32
<1>2. Tiled(HeaderFlyweight \cup {I32("session_id", 8), I32("stream_id", 12)},
            {"frame_length", "version", "flags", "type", "session_id", "stream_id"}, 16)
  BY <1>1, NextI32
<1> QED BY <1>2 DEF ControlFields

\* What status messages begin with.
LEMMA TiledStatusMessage == Tiled(StatusMessageFlyweight.fields, {"frame_length", "version",
            "flags", "type", "session_id", "stream_id", "consumption_term_id",
            "consumption_term_offset", "receiver_window", "receiver_id"}, 36)
<1>1. Tiled(ControlFields \cup {I32("consumption_term_id", 16)}, {"frame_length", "version",
            "flags", "type", "session_id", "stream_id", "consumption_term_id"}, 20)
  BY TiledControl, NextI32
<1>2. Tiled(ControlFields \cup {I32("consumption_term_id", 16),
            I32("consumption_term_offset", 20)}, {"frame_length", "version", "flags",
            "type", "session_id", "stream_id", "consumption_term_id",
            "consumption_term_offset"}, 24)
  BY <1>1, NextI32
<1>3. Tiled(ControlFields \cup {I32("consumption_term_id", 16),
            I32("consumption_term_offset", 20), I32("receiver_window", 24)},
            {"frame_length", "version", "flags", "type", "session_id", "stream_id",
            "consumption_term_id", "consumption_term_offset", "receiver_window"}, 28)
  BY <1>2, NextI32
<1>4. Tiled(ControlFields \cup {I32("consumption_term_id", 16),
            I32("consumption_term_offset", 20), I32("receiver_window", 24),
            I64("receiver_id", 28)}, {"frame_length", "version", "flags", "type",
            "session_id", "stream_id", "consumption_term_id", "consumption_term_offset",
            "receiver_window", "receiver_id"}, 36)
  BY <1>3, NextI64
<1> QED BY <1>4 DEF StatusMessageFlyweight, Fixed

\* CorrelatedMessageFlyweight
LEMMA CorrelatedLayout == LayoutIs(CorrelatedMessageFlyweight, {"client_id", "correlation_id"},
            <<>>)
<1>1. CorrelatedMessageFlyweight = Fixed(Correlated, 16)
  BY DEF Correlated, CorrelatedMessageFlyweight, Fixed
<1> QED BY <1>1, TiledCorrelated, FixedSound

\* RemoveMessageFlyweight
LEMMA RemoveLayout == LayoutIs(RemoveMessageFlyweight, {"client_id", "correlation_id",
            "registration_id"}, <<>>)
<1>1. Tiled(Correlated \cup {I64("registration_id", 16)}, {"client_id", "correlation_id",
            "registration_id"}, 24)
  BY TiledCorrelated, NextI64
<1> QED BY <1>1, FixedSound DEF RemoveMessageFlyweight

\* RemoveSubscriptionFlyweight
LEMMA RemoveSubscriptionLayout == LayoutIs(RemoveSubscriptionFlyweight, {"client_id",
            "correlation_id", "registration_id"}, <<>>)
<1>1. Tiled(Correlated \cup {I64("registration_id", 16)}, {"client_id", "correlation_id",
            "registration_id"}, 24)
  BY TiledCorrelated, NextI64
<1> QED BY <1>1, FixedSound DEF RemoveSubscriptionFlyweight

\* RemovePublicationFlyweight
LEMMA RemovePublicationLayout == LayoutIs(RemovePublicationFlyweight, {"client_id",
            "correlation_id", "registration_id"}, <<>>)
<1>1. Tiled(Correlated \cup {I64("registration_id", 16)}, {"client_id", "correlation_id",
            "registration_id"}, 24)
  BY TiledCorrelated, NextI64
<1> QED BY <1>1, FixedSound DEF RemovePublicationFlyweight, REMOVE_PUBLICATION_LEGACY_LENGTH

\* GetNextAvailableSessionIdMessageFlyweight
LEMMA GetNextAvailableSessionIdLayout == LayoutIs(GetNextAvailableSessionIdMessageFlyweight,
            {"client_id", "correlation_id", "stream_id"}, <<>>)
<1>1. Tiled(Correlated \cup {I32("stream_id", 16)}, {"client_id", "correlation_id",
            "stream_id"}, 20)
  BY TiledCorrelated, NextI32
<1> QED BY <1>1, FixedSound DEF GetNextAvailableSessionIdMessageFlyweight

\* DestinationByIdMessageFlyweight
LEMMA DestinationByIdLayout == LayoutIs(DestinationByIdMessageFlyweight, {"client_id",
            "correlation_id", "resource_registration_id", "destination_registration_id"}, <<>>)
<1>1. Tiled(Correlated \cup {I64("resource_registration_id", 16)}, {"client_id",
            "correlation_id", "resource_registration_id"}, 24)
  BY TiledCorrelated, NextI64
<1>2. Tiled(Correlated \cup {I64("resource_registration_id", 16),
            I64("destination_registration_id", 24)}, {"client_id", "correlation_id",
            "resource_registration_id", "destination_registration_id"}, 32)
  BY <1>1, NextI64
<1> QED BY <1>2, FixedSound DEF DestinationByIdMessageFlyweight

\* PublicationMessageFlyweight
LEMMA PublicationLayout == LayoutIs(PublicationMessageFlyweight, {"client_id", "correlation_id",
            "stream_id"}, <<"channel">>)
<1>1. Tiled(Correlated \cup {I32("stream_id", 16)}, {"client_id", "correlation_id",
            "stream_id"}, 20)
  BY TiledCorrelated, NextI32
<1> QED BY <1>1, OnePart DEF PublicationMessageFlyweight

\* SubscriptionMessageFlyweight
LEMMA SubscriptionLayout == LayoutIs(SubscriptionMessageFlyweight, {"client_id",
            "correlation_id", "registration_correlation_id", "stream_id"}, <<"channel">>)
<1>1. Tiled(Correlated \cup {I64("registration_correlation_id", 16)}, {"client_id",
            "correlation_id", "registration_correlation_id"}, 24)
  BY TiledCorrelated, NextI64
<1>2. Tiled(Correlated \cup {I64("registration_correlation_id", 16), I32("stream_id", 24)},
            {"client_id", "correlation_id", "registration_correlation_id", "stream_id"}, 28)
  BY <1>1, NextI32
<1> QED BY <1>2, OnePart DEF SubscriptionMessageFlyweight

\* DestinationMessageFlyweight
LEMMA DestinationLayout == LayoutIs(DestinationMessageFlyweight, {"client_id", "correlation_id",
            "registration_correlation_id"}, <<"channel">>)
<1>1. Tiled(Correlated \cup {I64("registration_correlation_id", 16)}, {"client_id",
            "correlation_id", "registration_correlation_id"}, 24)
  BY TiledCorrelated, NextI64
<1> QED BY <1>1, OnePart DEF DestinationMessageFlyweight

\* TerminateDriverFlyweight
LEMMA TerminateDriverLayout == LayoutIs(TerminateDriverFlyweight, {"client_id",
            "correlation_id"}, <<"token">>)
<1> QED BY TiledCorrelated, OnePart DEF TerminateDriverFlyweight

\* RejectImageFlyweight
LEMMA RejectImageLayout == LayoutIs(RejectImageFlyweight, {"client_id", "correlation_id",
            "image_correlation_id", "position"}, <<"reason">>)
<1>1. Tiled(Correlated \cup {I64("image_correlation_id", 16)}, {"client_id",
            "correlation_id", "image_correlation_id"}, 24)
  BY TiledCorrelated, NextI64
<1>2. Tiled(Correlated \cup {I64("image_correlation_id", 16), I64("position", 24)},
            {"client_id", "correlation_id", "image_correlation_id", "position"}, 32)
  BY <1>1, NextI64
<1> QED BY <1>2, OnePart DEF RejectImageFlyweight

\* CounterMessageFlyweight
LEMMA CounterLayout == LayoutIs(CounterMessageFlyweight, {"client_id", "correlation_id",
            "type_id"}, <<"key", "label">>)
<1>1. Tiled(Correlated \cup {I32("type_id", 16)}, {"client_id", "correlation_id",
            "type_id"}, 20)
  BY TiledCorrelated, NextI32
<1> QED BY <1>1, TwoParts DEF CounterMessageFlyweight

\* StaticCounterMessageFlyweight
LEMMA StaticCounterMessageLayout == LayoutIs(StaticCounterMessageFlyweight, {"client_id",
            "correlation_id", "registration_id", "type_id"}, <<"key", "label">>)
<1>1. Tiled(Correlated \cup {I64("registration_id", 16)}, {"client_id", "correlation_id",
            "registration_id"}, 24)
  BY TiledCorrelated, NextI64
<1>2. Tiled(Correlated \cup {I64("registration_id", 16), I32("type_id", 24)}, {"client_id",
            "correlation_id", "registration_id", "type_id"}, 28)
  BY <1>1, NextI32
<1> DEFINE V == Variable(Correlated \cup {I64("registration_id", 16), I32("type_id", 24)}, <<"key", "label">>, 28)
<1>3. LayoutIs(V, {"client_id", "correlation_id", "registration_id", "type_id"},
                   <<"key", "label">>)
  BY <1>2, TwoParts
<1>4. /\ StaticCounterMessageFlyweight.fields = V.fields
      /\ StaticCounterMessageFlyweight.parts = V.parts
      /\ StaticCounterMessageFlyweight.from = V.from
      /\ StaticCounterMessageFlyweight.minimum = 36
      /\ StaticCounterMessageFlyweight.alignment = SIZE_OF_INT
  BY DEF StaticCounterMessageFlyweight, Variable
<1>5. V.from = 28
  BY DEF Variable
<1> HIDE DEF V
<1>6. Names(StaticCounterMessageFlyweight) = Names(V)
  BY <1>4 DEF Names
<1>7. V.parts = <<"key", "label">> /\ V.parts # <<>>
  BY <1>3 DEF LayoutIs
<1> QED BY <1>3, <1>4, <1>5, <1>6, <1>7 DEF LayoutIs, Sound, SIZE_OF_INT

\* ErrorResponseFlyweight
LEMMA ErrorResponseLayout == LayoutIs(ErrorResponseFlyweight, {"correlation_id", "error_code"},
            <<"error_message">>)
<1>1. Tiled({I64("correlation_id", 0)}, {"correlation_id"}, 8)
  BY NoFields, NextI64
<1>2. Tiled({I64("correlation_id", 0), I32("error_code", 8)}, {"correlation_id",
            "error_code"}, 12)
  BY <1>1, NextI32
<1> QED BY <1>2, OnePart DEF ErrorResponseFlyweight

\* OperationSucceededFlyweight
LEMMA OperationSucceededLayout == LayoutIs(OperationSucceededFlyweight, {"correlation_id"},
            <<>>)
<1>1. Tiled({I64("correlation_id", 0)}, {"correlation_id"}, 8)
  BY NoFields, NextI64
<1> QED BY <1>1, FixedSound DEF OperationSucceededFlyweight

\* SubscriptionReadyFlyweight
LEMMA SubscriptionReadyLayout == LayoutIs(SubscriptionReadyFlyweight, {"correlation_id",
            "channel_status_counter_id"}, <<>>)
<1>1. Tiled({I64("correlation_id", 0)}, {"correlation_id"}, 8)
  BY NoFields, NextI64
<1>2. Tiled({I64("correlation_id", 0), I32("channel_status_counter_id", 8)},
            {"correlation_id", "channel_status_counter_id"}, 12)
  BY <1>1, NextI32
<1> QED BY <1>2, FixedSound DEF SubscriptionReadyFlyweight

\* CounterUpdateFlyweight
LEMMA CounterUpdateLayout == LayoutIs(CounterUpdateFlyweight, {"correlation_id", "counter_id"},
            <<>>)
<1>1. Tiled({I64("correlation_id", 0)}, {"correlation_id"}, 8)
  BY NoFields, NextI64
<1>2. Tiled({I64("correlation_id", 0), I32("counter_id", 8)}, {"correlation_id",
            "counter_id"}, 12)
  BY <1>1, NextI32
<1> QED BY <1>2, FixedSound DEF CounterUpdateFlyweight

\* StaticCounterFlyweight
LEMMA StaticCounterLayout == LayoutIs(StaticCounterFlyweight, {"correlation_id", "counter_id"},
            <<>>)
<1>1. Tiled({I64("correlation_id", 0)}, {"correlation_id"}, 8)
  BY NoFields, NextI64
<1>2. Tiled({I64("correlation_id", 0), I32("counter_id", 8)}, {"correlation_id",
            "counter_id"}, 12)
  BY <1>1, NextI32
<1> QED BY <1>2, FixedSound DEF StaticCounterFlyweight

\* NextAvailableSessionIdFlyweight
LEMMA NextAvailableSessionIdLayout == LayoutIs(NextAvailableSessionIdFlyweight,
            {"correlation_id", "session_id"}, <<>>)
<1>1. Tiled({I64("correlation_id", 0)}, {"correlation_id"}, 8)
  BY NoFields, NextI64
<1>2. Tiled({I64("correlation_id", 0), I32("session_id", 8)}, {"correlation_id",
            "session_id"}, 12)
  BY <1>1, NextI32
<1> QED BY <1>2, FixedSound DEF NextAvailableSessionIdFlyweight

\* ClientTimeoutFlyweight
LEMMA ClientTimeoutLayout == LayoutIs(ClientTimeoutFlyweight, {"client_id"}, <<>>)
<1>1. Tiled({I64("client_id", 0)}, {"client_id"}, 8)
  BY NoFields, NextI64
<1> QED BY <1>1, FixedSound DEF ClientTimeoutFlyweight

\* ImageMessageFlyweight
LEMMA ImageLayout == LayoutIs(ImageMessageFlyweight, {"correlation_id",
            "subscription_registration_id", "stream_id"}, <<>>)
<1>1. Tiled({I64("correlation_id", 0)}, {"correlation_id"}, 8)
  BY NoFields, NextI64
<1>2. Tiled({I64("correlation_id", 0), I64("subscription_registration_id", 8)},
            {"correlation_id", "subscription_registration_id"}, 16)
  BY <1>1, NextI64
<1>3. Tiled({I64("correlation_id", 0), I64("subscription_registration_id", 8),
            I32("stream_id", 16)}, {"correlation_id", "subscription_registration_id",
            "stream_id"}, 20)
  BY <1>2, NextI32
<1> QED BY <1>3, FixedSound DEF ImageMessageFlyweight

\* PublicationBuffersReadyFlyweight
LEMMA PublicationBuffersReadyLayout == LayoutIs(PublicationBuffersReadyFlyweight,
            {"correlation_id", "registration_id", "session_id", "stream_id",
            "position_counter_id", "channel_status_counter_id"}, <<"log_file_name">>)
<1>1. Tiled({I64("correlation_id", 0)}, {"correlation_id"}, 8)
  BY NoFields, NextI64
<1>2. Tiled({I64("correlation_id", 0), I64("registration_id", 8)}, {"correlation_id",
            "registration_id"}, 16)
  BY <1>1, NextI64
<1>3. Tiled({I64("correlation_id", 0), I64("registration_id", 8), I32("session_id", 16)},
            {"correlation_id", "registration_id", "session_id"}, 20)
  BY <1>2, NextI32
<1>4. Tiled({I64("correlation_id", 0), I64("registration_id", 8), I32("session_id", 16),
            I32("stream_id", 20)}, {"correlation_id", "registration_id", "session_id",
            "stream_id"}, 24)
  BY <1>3, NextI32
<1>5. Tiled({I64("correlation_id", 0), I64("registration_id", 8), I32("session_id", 16),
            I32("stream_id", 20), I32("position_counter_id", 24)}, {"correlation_id",
            "registration_id", "session_id", "stream_id", "position_counter_id"}, 28)
  BY <1>4, NextI32
<1>6. Tiled({I64("correlation_id", 0), I64("registration_id", 8), I32("session_id", 16),
            I32("stream_id", 20), I32("position_counter_id", 24),
            I32("channel_status_counter_id", 28)}, {"correlation_id", "registration_id",
            "session_id", "stream_id", "position_counter_id", "channel_status_counter_id"},
            32)
  BY <1>5, NextI32
<1> QED BY <1>6, OnePart DEF PublicationBuffersReadyFlyweight

\* ImageBuffersReadyFlyweight
LEMMA ImageBuffersReadyLayout == LayoutIs(ImageBuffersReadyFlyweight, {"correlation_id",
            "session_id", "stream_id", "subscription_registration_id", "position_counter_id"},
            <<"log_file_name", "source_identity">>)
<1>1. Tiled({I64("correlation_id", 0)}, {"correlation_id"}, 8)
  BY NoFields, NextI64
<1>2. Tiled({I64("correlation_id", 0), I32("session_id", 8)}, {"correlation_id",
            "session_id"}, 12)
  BY <1>1, NextI32
<1>3. Tiled({I64("correlation_id", 0), I32("session_id", 8), I32("stream_id", 12)},
            {"correlation_id", "session_id", "stream_id"}, 16)
  BY <1>2, NextI32
<1>4. Tiled({I64("correlation_id", 0), I32("session_id", 8), I32("stream_id", 12),
            I64("subscription_registration_id", 16)}, {"correlation_id", "session_id",
            "stream_id", "subscription_registration_id"}, 24)
  BY <1>3, NextI64
<1>5. Tiled({I64("correlation_id", 0), I32("session_id", 8), I32("stream_id", 12),
            I64("subscription_registration_id", 16), I32("position_counter_id", 24)},
            {"correlation_id", "session_id", "stream_id", "subscription_registration_id",
            "position_counter_id"}, 28)
  BY <1>4, NextI32
<1> QED BY <1>5, TwoParts DEF ImageBuffersReadyFlyweight

\* PublicationErrorFrameFlyweight
LEMMA PublicationErrorLayout == LayoutIs(PublicationErrorFrameFlyweight, {"registration_id",
            "destination_registration_id", "session_id", "stream_id", "receiver_id",
            "group_tag", "address_type", "udp_port", "address", "error_code"},
            <<"error_message">>)
<1>1. Tiled({I64("registration_id", 0)}, {"registration_id"}, 8)
  BY NoFields, NextI64
<1>2. Tiled({I64("registration_id", 0), I64("destination_registration_id", 8)},
            {"registration_id", "destination_registration_id"}, 16)
  BY <1>1, NextI64
<1>3. Tiled({I64("registration_id", 0), I64("destination_registration_id", 8),
            I32("session_id", 16)}, {"registration_id", "destination_registration_id",
            "session_id"}, 20)
  BY <1>2, NextI32
<1>4. Tiled({I64("registration_id", 0), I64("destination_registration_id", 8),
            I32("session_id", 16), I32("stream_id", 20)}, {"registration_id",
            "destination_registration_id", "session_id", "stream_id"}, 24)
  BY <1>3, NextI32
<1>5. Tiled({I64("registration_id", 0), I64("destination_registration_id", 8),
            I32("session_id", 16), I32("stream_id", 20), I64("receiver_id", 24)},
            {"registration_id", "destination_registration_id", "session_id", "stream_id",
            "receiver_id"}, 32)
  BY <1>4, NextI64
<1>6. Tiled({I64("registration_id", 0), I64("destination_registration_id", 8),
            I32("session_id", 16), I32("stream_id", 20), I64("receiver_id", 24),
            I64("group_tag", 32)}, {"registration_id", "destination_registration_id",
            "session_id", "stream_id", "receiver_id", "group_tag"}, 40)
  BY <1>5, NextI64, SMTT(30)
<1>7. Tiled({I64("registration_id", 0), I64("destination_registration_id", 8),
            I32("session_id", 16), I32("stream_id", 20), I64("receiver_id", 24),
            I64("group_tag", 32), I16("address_type", 40)}, {"registration_id",
            "destination_registration_id", "session_id", "stream_id", "receiver_id",
            "group_tag", "address_type"}, 42)
  BY <1>6, NextI16
<1>8. Tiled({I64("registration_id", 0), I64("destination_registration_id", 8),
            I32("session_id", 16), I32("stream_id", 20), I64("receiver_id", 24),
            I64("group_tag", 32), I16("address_type", 40), I16("udp_port", 42)},
            {"registration_id", "destination_registration_id", "session_id", "stream_id",
            "receiver_id", "group_tag", "address_type", "udp_port"}, 44)
  BY <1>7, NextI16
<1>9. Tiled({I64("registration_id", 0), I64("destination_registration_id", 8),
            I32("session_id", 16), I32("stream_id", 20), I64("receiver_id", 24),
            I64("group_tag", 32), I16("address_type", 40), I16("udp_port", 42), [name |->
            "address", offset |-> 44, size |-> 16]}, {"registration_id",
            "destination_registration_id", "session_id", "stream_id", "receiver_id",
            "group_tag", "address_type", "udp_port", "address"}, 60)
  BY <1>8, NextBytes
<1>10. Tiled({I64("registration_id", 0), I64("destination_registration_id", 8),
            I32("session_id", 16), I32("stream_id", 20), I64("receiver_id", 24),
            I64("group_tag", 32), I16("address_type", 40), I16("udp_port", 42), [name |->
            "address", offset |-> 44, size |-> 16], I32("error_code", 60)},
            {"registration_id", "destination_registration_id", "session_id", "stream_id",
            "receiver_id", "group_tag", "address_type", "udp_port", "address",
            "error_code"}, 64)
  BY <1>9, NextI32
<1> QED BY <1>10, OnePart DEF PublicationErrorFrameFlyweight

\* DataHeaderFlyweight
LEMMA DataHeaderLayout == LayoutIs(DataHeaderFlyweight, {"frame_length", "version", "flags",
            "type", "term_offset", "session_id", "stream_id", "term_id", "reserved_value"},
            <<>>)
<1>1. Tiled(HeaderFlyweight \cup {I32("term_offset", 8)}, {"frame_length", "version",
            "flags", "type", "term_offset"}, 12)
  BY TiledHeader, NextI32
<1>2. Tiled(HeaderFlyweight \cup {I32("term_offset", 8), I32("session_id", 12)},
            {"frame_length", "version", "flags", "type", "term_offset", "session_id"}, 16)
  BY <1>1, NextI32
<1>3. Tiled(HeaderFlyweight \cup {I32("term_offset", 8), I32("session_id", 12),
            I32("stream_id", 16)}, {"frame_length", "version", "flags", "type",
            "term_offset", "session_id", "stream_id"}, 20)
  BY <1>2, NextI32
<1>4. Tiled(HeaderFlyweight \cup {I32("term_offset", 8), I32("session_id", 12),
            I32("stream_id", 16), I32("term_id", 20)}, {"frame_length", "version", "flags",
            "type", "term_offset", "session_id", "stream_id", "term_id"}, 24)
  BY <1>3, NextI32
<1>5. Tiled(HeaderFlyweight \cup {I32("term_offset", 8), I32("session_id", 12),
            I32("stream_id", 16), I32("term_id", 20), I64("reserved_value", 24)},
            {"frame_length", "version", "flags", "type", "term_offset", "session_id",
            "stream_id", "term_id", "reserved_value"}, 32)
  BY <1>4, NextI64
<1> QED BY <1>5, FixedSound DEF DataHeaderFlyweight

\* SetupFlyweight
LEMMA SetupLayout == LayoutIs(SetupFlyweight, {"frame_length", "version", "flags", "type",
            "term_offset", "session_id", "stream_id", "initial_term_id", "active_term_id",
            "term_length", "mtu_length", "ttl"}, <<>>)
<1>1. Tiled(HeaderFlyweight \cup {I32("term_offset", 8)}, {"frame_length", "version",
            "flags", "type", "term_offset"}, 12)
  BY TiledHeader, NextI32
<1>2. Tiled(HeaderFlyweight \cup {I32("term_offset", 8), I32("session_id", 12)},
            {"frame_length", "version", "flags", "type", "term_offset", "session_id"}, 16)
  BY <1>1, NextI32
<1>3. Tiled(HeaderFlyweight \cup {I32("term_offset", 8), I32("session_id", 12),
            I32("stream_id", 16)}, {"frame_length", "version", "flags", "type",
            "term_offset", "session_id", "stream_id"}, 20)
  BY <1>2, NextI32
<1>4. Tiled(HeaderFlyweight \cup {I32("term_offset", 8), I32("session_id", 12),
            I32("stream_id", 16), I32("initial_term_id", 20)}, {"frame_length", "version",
            "flags", "type", "term_offset", "session_id", "stream_id", "initial_term_id"},
            24)
  BY <1>3, NextI32
<1>5. Tiled(HeaderFlyweight \cup {I32("term_offset", 8), I32("session_id", 12),
            I32("stream_id", 16), I32("initial_term_id", 20), I32("active_term_id", 24)},
            {"frame_length", "version", "flags", "type", "term_offset", "session_id",
            "stream_id", "initial_term_id", "active_term_id"}, 28)
  BY <1>4, NextI32
<1>6. Tiled(HeaderFlyweight \cup {I32("term_offset", 8), I32("session_id", 12),
            I32("stream_id", 16), I32("initial_term_id", 20), I32("active_term_id", 24),
            I32("term_length", 28)}, {"frame_length", "version", "flags", "type",
            "term_offset", "session_id", "stream_id", "initial_term_id", "active_term_id",
            "term_length"}, 32)
  BY <1>5, NextI32
<1>7. Tiled(HeaderFlyweight \cup {I32("term_offset", 8), I32("session_id", 12),
            I32("stream_id", 16), I32("initial_term_id", 20), I32("active_term_id", 24),
            I32("term_length", 28), I32("mtu_length", 32)}, {"frame_length", "version",
            "flags", "type", "term_offset", "session_id", "stream_id", "initial_term_id",
            "active_term_id", "term_length", "mtu_length"}, 36)
  BY <1>6, NextI32
<1>8. Tiled(HeaderFlyweight \cup {I32("term_offset", 8), I32("session_id", 12),
            I32("stream_id", 16), I32("initial_term_id", 20), I32("active_term_id", 24),
            I32("term_length", 28), I32("mtu_length", 32), I32("ttl", 36)}, {"frame_length",
            "version", "flags", "type", "term_offset", "session_id", "stream_id",
            "initial_term_id", "active_term_id", "term_length", "mtu_length", "ttl"}, 40)
  BY <1>7, NextI32
<1> QED BY <1>8, FixedSound DEF SetupFlyweight

\* StatusMessageFlyweight
LEMMA StatusLayout == LayoutIs(StatusMessageFlyweight, {"frame_length", "version", "flags",
            "type", "session_id", "stream_id", "consumption_term_id", "consumption_term_offset",
            "receiver_window", "receiver_id"}, <<>>)
<1>1. Tiled(ControlFields \cup {I32("consumption_term_id", 16)}, {"frame_length", "version",
            "flags", "type", "session_id", "stream_id", "consumption_term_id"}, 20)
  BY TiledControl, NextI32
<1>2. Tiled(ControlFields \cup {I32("consumption_term_id", 16),
            I32("consumption_term_offset", 20)}, {"frame_length", "version", "flags",
            "type", "session_id", "stream_id", "consumption_term_id",
            "consumption_term_offset"}, 24)
  BY <1>1, NextI32
<1>3. Tiled(ControlFields \cup {I32("consumption_term_id", 16),
            I32("consumption_term_offset", 20), I32("receiver_window", 24)},
            {"frame_length", "version", "flags", "type", "session_id", "stream_id",
            "consumption_term_id", "consumption_term_offset", "receiver_window"}, 28)
  BY <1>2, NextI32
<1>4. Tiled(ControlFields \cup {I32("consumption_term_id", 16),
            I32("consumption_term_offset", 20), I32("receiver_window", 24),
            I64("receiver_id", 28)}, {"frame_length", "version", "flags", "type",
            "session_id", "stream_id", "consumption_term_id", "consumption_term_offset",
            "receiver_window", "receiver_id"}, 36)
  BY <1>3, NextI64
<1> QED BY <1>4, FixedSound DEF StatusMessageFlyweight

\* GroupedStatusMessage
LEMMA GroupedStatusMessageLayout == LayoutIs(GroupedStatusMessage, {"frame_length", "version",
            "flags", "type", "session_id", "stream_id", "consumption_term_id",
            "consumption_term_offset", "receiver_window", "receiver_id", "group_tag"}, <<>>)
<1>1. Tiled(StatusMessageFlyweight.fields \cup {I64("group_tag", 36)}, {"frame_length",
            "version", "flags", "type", "session_id", "stream_id", "consumption_term_id",
            "consumption_term_offset", "receiver_window", "receiver_id", "group_tag"}, 44)
  BY TiledStatusMessage, NextI64
<1> QED BY <1>1, FixedSound DEF GroupedStatusMessage

\* NakFlyweight
LEMMA NakLayout == LayoutIs(NakFlyweight, {"frame_length", "version", "flags", "type",
            "session_id", "stream_id", "term_id", "term_offset", "length"}, <<>>)
<1>1. Tiled(ControlFields \cup {I32("term_id", 16)}, {"frame_length", "version", "flags",
            "type", "session_id", "stream_id", "term_id"}, 20)
  BY TiledControl, NextI32
<1>2. Tiled(ControlFields \cup {I32("term_id", 16), I32("term_offset", 20)},
            {"frame_length", "version", "flags", "type", "session_id", "stream_id",
            "term_id", "term_offset"}, 24)
  BY <1>1, NextI32
<1>3. Tiled(ControlFields \cup {I32("term_id", 16), I32("term_offset", 20), I32("length",
            24)}, {"frame_length", "version", "flags", "type", "session_id", "stream_id",
            "term_id", "term_offset", "length"}, 28)
  BY <1>2, NextI32
<1> QED BY <1>3, FixedSound DEF NakFlyweight

\* RttMeasurementFlyweight
LEMMA RttMeasurementLayout == LayoutIs(RttMeasurementFlyweight, {"frame_length", "version",
            "flags", "type", "session_id", "stream_id", "echo_timestamp", "reception_delta",
            "receiver_id"}, <<>>)
<1>1. Tiled(ControlFields \cup {I64("echo_timestamp", 16)}, {"frame_length", "version",
            "flags", "type", "session_id", "stream_id", "echo_timestamp"}, 24)
  BY TiledControl, NextI64
<1>2. Tiled(ControlFields \cup {I64("echo_timestamp", 16), I64("reception_delta", 24)},
            {"frame_length", "version", "flags", "type", "session_id", "stream_id",
            "echo_timestamp", "reception_delta"}, 32)
  BY <1>1, NextI64
<1>3. Tiled(ControlFields \cup {I64("echo_timestamp", 16), I64("reception_delta", 24),
            I64("receiver_id", 32)}, {"frame_length", "version", "flags", "type",
            "session_id", "stream_id", "echo_timestamp", "reception_delta", "receiver_id"},
            40)
  BY <1>2, NextI64
<1> QED BY <1>3, FixedSound DEF RttMeasurementFlyweight

\* ErrorFlyweight
LEMMA ErrorLayout == LayoutIs(ErrorFlyweight, {"frame_length", "version", "flags", "type",
            "session_id", "stream_id", "receiver_id", "group_tag", "error_code"},
            <<"error_message">>)
<1>1. Tiled(ControlFields \cup {I64("receiver_id", 16)}, {"frame_length", "version",
            "flags", "type", "session_id", "stream_id", "receiver_id"}, 24)
  BY TiledControl, NextI64
<1>2. Tiled(ControlFields \cup {I64("receiver_id", 16), I64("group_tag", 24)},
            {"frame_length", "version", "flags", "type", "session_id", "stream_id",
            "receiver_id", "group_tag"}, 32)
  BY <1>1, NextI64
<1>3. Tiled(ControlFields \cup {I64("receiver_id", 16), I64("group_tag", 24),
            I32("error_code", 32)}, {"frame_length", "version", "flags", "type",
            "session_id", "stream_id", "receiver_id", "group_tag", "error_code"}, 36)
  BY <1>2, NextI32
<1> QED BY <1>3, OnePart DEF ErrorFlyweight

\* ResponseSetupFlyweight
LEMMA ResponseSetupLayout == LayoutIs(ResponseSetupFlyweight, {"frame_length", "version",
            "flags", "type", "session_id", "stream_id", "response_session_id"}, <<>>)
<1>1. Tiled(ControlFields \cup {I32("response_session_id", 16)}, {"frame_length", "version",
            "flags", "type", "session_id", "stream_id", "response_session_id"}, 20)
  BY TiledControl, NextI32
<1> QED BY <1>1, FixedSound DEF ResponseSetupFlyweight

-----------------------------------------------------------------------------
(* Bytes.                                                                   *)

\* A byte is a part of its value, and stale only if that is.
LEMMA ByteOf ==
  ASSUME NEW v, NEW k
  PROVE  /\ Byte(v, k).value = v
         /\ v.arg # "old" => Byte(v, k) # Old
BY DEF Byte, Old, Value

\* The fields of a value.
LEMMA ValueOf ==
  ASSUME NEW a, NEW n
  PROVE  Value(a, n).arg = a /\ Value(a, n).num = n
BY DEF Value

\* What Put() changes.
LEMMA PutBytes ==
  ASSUME NEW buffer, NEW offset \in Nat, NEW size \in Nat, NEW content
  PROVE  /\ DOMAIN Put(buffer, offset, size, content) = DOMAIN buffer
         /\ \A i \in DOMAIN buffer :
              Put(buffer, offset, size, content)[i] =
                IF i \in offset .. offset + size - 1 THEN Byte(content, i - offset) ELSE buffer[i]
BY DEF Put

\* The bytes of a value, as many as were stored.
StoredAt(buffer, offset, size, content) ==
  \A k \in 0 .. size - 1 :
    offset + k \in DOMAIN buffer /\ buffer[offset + k] = Byte(content, k)

\* What was stored as a whole is read.
LEMMA GetStored ==
  ASSUME NEW buffer, NEW offset \in Nat, NEW size \in Nat \ {0}, NEW content,
         StoredAt(buffer, offset, size, content)
  PROVE  Get(buffer, offset, size) = content
<1>0. \A k \in 0 .. size - 1 :
        offset + k \in DOMAIN buffer /\ buffer[offset + k] = Byte(content, k)
  BY DEF StoredAt
<1>1. buffer[offset] = Byte(content, 0)
  <2>1. 0 \in 0 .. size - 1 /\ offset + 0 = offset
    OBVIOUS
  <2> QED BY <1>0, <2>1
<1>2. buffer[offset].value = content
  BY <1>1, ByteOf
<1>3. Inside(buffer, offset, size)
  <2>1. SUFFICES ASSUME NEW i \in offset .. offset + size - 1 PROVE i \in DOMAIN buffer
    BY DEF Inside
  <2>2. i - offset \in 0 .. size - 1 /\ offset + (i - offset) = i
    OBVIOUS
  <2> QED BY <1>0, <2>2
<1> QED BY <1>0, <1>2, <1>3 DEF Get

\* Nothing is read where nothing is.
LEMMA GetNothing ==
  ASSUME NEW buffer, NEW offset
  PROVE  Get(buffer, offset, 0) = Value("empty", 0)
BY DEF Get

\* A number that is read is a number of a byte, or that of garbage.
LEMMA GetNumber ==
  ASSUME NEW buffer, NEW offset \in Nat, NEW size \in Nat,
         \A i \in DOMAIN buffer : buffer[i].value.num \in Int
  PROVE  Get(buffer, offset, size).num \in Int
<1>1. CASE size = 0
  BY <1>1 DEF Get, Value
<1>2. CASE size # 0 /\ Inside(buffer, offset, size)
  <2>1. offset \in offset .. offset + size - 1
    BY <1>2
  <2>2. offset \in DOMAIN buffer
    BY <1>2, <2>1 DEF Inside
  <2> QED BY <1>2, <2>2 DEF Get, Value
<1>3. CASE size # 0 /\ ~Inside(buffer, offset, size)
  BY <1>3 DEF Get, Value
<1> QED BY <1>1, <1>2, <1>3

\* Rounding up.
LEMMA AlignUp ==
  ASSUME NEW n \in Nat, NEW alignment \in {1, SIZE_OF_INT}
  PROVE  Align(n, alignment) \in Nat /\ Align(n, alignment) >= n
<1>1. CASE alignment = 1
  BY <1>1 DEF Align
<1>2. CASE alignment = 4
  BY <1>2 DEF Align
<1> QED BY <1>1, <1>2 DEF SIZE_OF_INT

\* How many parts there are.
LEMMA PartsOf ==
  ASSUME NEW layout, Sound(layout)
  PROVE  /\ layout.from \in Nat /\ layout.minimum \in Nat /\ layout.minimum >= layout.from
         /\ Len(layout.parts) \in 0 .. 2 /\ DOMAIN layout.parts = 1 .. Len(layout.parts)
         /\ layout.parts = <<>> <=> Len(layout.parts) = 0
         /\ Len(layout.parts) = 0 => layout.minimum = layout.from
         /\ Len(layout.parts) = 1 => layout.minimum = layout.from + 4
         /\ Len(layout.parts) = 2 => layout.minimum \in layout.from + 4 .. layout.from + 8
         /\ Len(layout.parts) = 2 => layout.parts[1] # layout.parts[2]
         /\ layout.alignment \in {1, SIZE_OF_INT}
         /\ \A i \in DOMAIN layout.parts : layout.parts[i] \notin Names(layout)
<1>0. layout.from \in Nat /\ layout.minimum \in Nat
  BY DEF Sound, Tiled
<1>1. CASE layout.parts = <<>> /\ layout.minimum = layout.from
  <2>1. Len(layout.parts) = 0 /\ DOMAIN layout.parts = {}
    BY <1>1
  <2> QED BY <1>0, <1>1, <2>1 DEF Sound
<1>2. CASE /\ \E a : layout.parts = <<a>> /\ a \notin Names(layout)
           /\ layout.minimum = layout.from + SIZE_OF_INT
  <2>1. PICK a : layout.parts = <<a>> /\ a \notin Names(layout)
    BY <1>2
  <2>2. Len(layout.parts) = 1 /\ DOMAIN layout.parts = {1} /\ layout.parts[1] = a
    BY <2>1
  <2>3. layout.parts # <<>>
    BY <2>2
  <2>4. layout.minimum = layout.from + 4
    BY <1>0, <1>2 DEF SIZE_OF_INT
  <2>5. \A i \in DOMAIN layout.parts : layout.parts[i] \notin Names(layout)
    BY <2>1, <2>2
  <2> QED BY <1>0, <2>2, <2>3, <2>4, <2>5 DEF Sound
<1>3. CASE /\ \E a, b : /\ layout.parts = <<a, b>> /\ a # b
                        /\ a \notin Names(layout) /\ b \notin Names(layout)
           /\ layout.minimum \in layout.from + SIZE_OF_INT .. layout.from + 2 * SIZE_OF_INT
  <2>1. PICK a, b : /\ layout.parts = <<a, b>> /\ a # b
                    /\ a \notin Names(layout) /\ b \notin Names(layout)
    BY <1>3
  <2>2. /\ Len(layout.parts) = 2 /\ DOMAIN layout.parts = {1, 2}
        /\ layout.parts[1] = a /\ layout.parts[2] = b
    BY <2>1
  <2>3. layout.parts # <<>>
    BY <2>2
  <2>4. layout.minimum \in layout.from + 4 .. layout.from + 8
    BY <1>0, <1>3 DEF SIZE_OF_INT
  <2>5. \A i \in DOMAIN layout.parts : layout.parts[i] \notin Names(layout)
    BY <2>1, <2>2
  <2> QED BY <1>0, <2>1, <2>2, <2>3, <2>4, <2>5 DEF Sound
<1> QED BY <1>1, <1>2, <1>3 DEF Sound

\* Lengths are a sequence.
LEMMA LengthsOf ==
  ASSUME NEW layout, Sound(layout), NEW lengths \in [DOMAIN layout.parts -> Nat]
  PROVE  /\ lengths \in Seq(Nat) /\ Len(lengths) = Len(layout.parts)
         /\ DOMAIN lengths = 1 .. Len(layout.parts)
         /\ \A i \in DOMAIN lengths : lengths[i] \in Nat
<1>1. Len(layout.parts) \in Nat /\ DOMAIN layout.parts = 1 .. Len(layout.parts)
  BY PartsOf
<1>2. lengths \in [1 .. Len(layout.parts) -> Nat]
  BY <1>1
<1>3. lengths \in Seq(Nat)
  BY <1>1, <1>2
<1>4. DOMAIN lengths = 1 .. Len(lengths) /\ Len(lengths) \in Nat
  BY <1>3
<1> QED BY <1>1, <1>2, <1>3, <1>4

\* Where the parts begin: one behind the other, behind the fields.
LEMMA PartsApart ==
  ASSUME NEW layout, Sound(layout), NEW lengths \in [DOMAIN layout.parts -> Nat]
  PROVE  /\ \A i \in DOMAIN lengths :
              /\ LengthOffset(layout, lengths, i) \in Nat
              /\ LengthOffset(layout, lengths, i) >= layout.from
              /\ LengthOffset(layout, lengths, i) + 4 + lengths[i]
                   <= ComputeLength(layout, lengths)
         /\ 1 \in DOMAIN lengths => LengthOffset(layout, lengths, 1) = layout.from
         /\ 2 \in DOMAIN lengths =>
              /\ LengthOffset(layout, lengths, 2)
                   = layout.from + 4 + Align(lengths[1], layout.alignment)
              /\ Align(lengths[1], layout.alignment) \in Nat
              /\ Align(lengths[1], layout.alignment) >= lengths[1]
         /\ ComputeLength(layout, lengths) \in Nat
         /\ ComputeLength(layout, lengths) >= layout.minimum
         /\ ComputeLength(layout, lengths) =
              IF Len(lengths) = 0 THEN layout.from
              ELSE LengthOffset(layout, lengths, Len(lengths)) + 4 + lengths[Len(lengths)]
<1>1. /\ layout.from \in Nat /\ layout.minimum \in Nat
      /\ Len(layout.parts) \in 0 .. 2
      /\ layout.parts = <<>> <=> Len(layout.parts) = 0
      /\ layout.alignment \in {1, SIZE_OF_INT}
  BY PartsOf
<1>2. /\ Len(lengths) = Len(layout.parts) /\ DOMAIN lengths = 1 .. Len(layout.parts)
      /\ \A i \in DOMAIN lengths : lengths[i] \in Nat
  BY LengthsOf
<1>3. CASE Len(layout.parts) = 0
  <2>1. layout.minimum = layout.from
    BY <1>1, <1>3 DEF Sound
  <2>2. DOMAIN lengths = {}
    BY <1>2, <1>3
  <2> QED BY <1>1, <1>2, <1>3, <2>1, <2>2 DEF ComputeLength
<1>4. CASE Len(layout.parts) = 1
  <2>1. layout.minimum = layout.from + 4
    BY <1>1, <1>4, PartsOf
  <2>2. DOMAIN lengths = {1} /\ lengths[1] \in Nat
    BY <1>2, <1>4
  <2> QED BY <1>1, <1>2, <1>4, <2>1, <2>2 DEF ComputeLength, LengthOffset, SIZE_OF_INT
<1>5. CASE Len(layout.parts) = 2
  <2>1. layout.minimum <= layout.from + 8
    BY <1>1, <1>5, PartsOf
  <2>2. DOMAIN lengths = {1, 2} /\ lengths[1] \in Nat /\ lengths[2] \in Nat
    BY <1>2, <1>5
  <2>3. /\ Align(lengths[1], layout.alignment) \in Nat
        /\ Align(lengths[1], layout.alignment) >= lengths[1]
    BY <1>1, <2>2, AlignUp
  <2>4. /\ LengthOffset(layout, lengths, 1) = layout.from
        /\ LengthOffset(layout, lengths, 2)
             = layout.from + 4 + Align(lengths[1], layout.alignment)
    BY DEF LengthOffset, SIZE_OF_INT
  <2>5. ComputeLength(layout, lengths) = LengthOffset(layout, lengths, 2) + 4 + lengths[2]
    BY <1>1, <1>5 DEF ComputeLength, SIZE_OF_INT
  <2>6. \A i \in DOMAIN lengths : i = 1 \/ i = 2
    BY <2>2
  <2> DEFINE aligned == Align(lengths[1], layout.alignment)
             second == LengthOffset(layout, lengths, 2)
             total == ComputeLength(layout, lengths)
  <2>7. /\ aligned \in Nat /\ aligned >= lengths[1]
        /\ second = layout.from + 4 + aligned
        /\ total = second + 4 + lengths[2]
    BY <2>3, <2>4, <2>5
  <2> HIDE DEF aligned, second, total
  <2>8. /\ second \in Nat /\ second >= layout.from /\ second + 4 + lengths[2] <= total
        /\ layout.from + 4 + lengths[1] <= total
        /\ total \in Nat /\ total >= layout.minimum
    <3> DEFINE start == layout.from
               least == layout.minimum
               one == lengths[1]
               two == lengths[2]
    <3>1. /\ start \in Nat /\ least \in Nat /\ least <= start + 8
          /\ one \in Nat /\ two \in Nat
          /\ aligned \in Nat /\ aligned >= one
          /\ second = start + 4 + aligned
          /\ total = second + 4 + two
      BY <1>1, <2>1, <2>2, <2>7
    <3> HIDE DEF start, least, one, two
    <3>2. /\ second \in Nat /\ second >= start /\ second + 4 + two <= total
          /\ start + 4 + one <= total /\ total \in Nat /\ total >= least
      BY <3>1
    <3> QED BY <3>2 DEF start, least, one, two
  <2>9. \A i \in DOMAIN lengths :
          /\ LengthOffset(layout, lengths, i) \in Nat
          /\ LengthOffset(layout, lengths, i) >= layout.from
          /\ LengthOffset(layout, lengths, i) + 4 + lengths[i] <= total
    BY <1>1, <2>4, <2>6, <2>8, SMTT(30) DEF second
  <2>10. Len(lengths) = 2
    BY <1>2, <1>5
  <2> QED BY <2>2, <2>4, <2>7, <2>8, <2>9, <2>10 DEF aligned, second, total
<1> QED BY <1>1, <1>3, <1>4, <1>5

-----------------------------------------------------------------------------
(* Writing a message.                                                       *)

\* What a method has to be like for its messages to arrive: all it stores has a name
\* of its own, and a frame begins with its length and the version.
Stores(method) ==
  /\ Sound(method.layout)
  /\ \A f \in Names(method.layout) : method.stored[f] \notin {"old", "revoke"}
  /\ \A i \in DOMAIN method.layout.parts :
       /\ method.layout.parts[i] \notin {"old", "revoke", "zero"}
       /\ \A f \in Names(method.layout) : method.stored[f] # method.layout.parts[i]
  /\ IF Frames
     THEN /\ I32("frame_length", 0) \in method.layout.fields
          /\ U8("version", 4) \in method.layout.fields
          /\ method.stored["version"] = "zero"
          /\ \A f \in Names(method.layout) :
               method.stored[f] = "frame_length" <=> f = "frame_length"
          /\ ~RemovesPublication(method.type)
          /\ method.layout.minimum >= HEADER_LENGTH
          /\ method.layout.parts # <<>> => method.layout.minimum = 40
     ELSE /\ \A f \in Names(method.layout) : method.stored[f] # "frame_length"
          /\ RemovesPublication(method.type) =>
               method.layout.from = REMOVE_PUBLICATION_LEGACY_LENGTH /\ method.layout.parts = <<>>

\* What is stored in the field of this name.
FieldValue(method, lengths, name) ==
  Value(method.stored[name],
        IF method.stored[name] = "frame_length" THEN ComputeLength(method.layout, lengths)
        ELSE 0)

\* Each field and each part is where its layout has it, and so is the flag.
Written(bytes, method, lengths, revoke) ==
  /\ DOMAIN bytes = 0 .. MessageLength(method, lengths) - 1
  /\ \A f \in method.layout.fields : \A k \in 0 .. f.size - 1 :
       bytes[f.offset + k] = Byte(FieldValue(method, lengths, f.name), k)
  /\ \A i \in DOMAIN lengths :
       LET at == LengthOffset(method.layout, lengths, i)
       IN  /\ \A k \in 0 .. SIZE_OF_INT - 1 :
                bytes[at + k] = Byte(Value("length", lengths[i]), k)
           /\ \A k \in 0 .. lengths[i] - 1 :
                bytes[at + SIZE_OF_INT + k] = Byte(Value(method.layout.parts[i], lengths[i]), k)
  /\ RemovesPublication(method.type) =>
       \E flags \in Nat, arg \in {"flags", "old"} : \A k \in 0 .. 7 :
         bytes[REMOVE_PUBLICATION_LEGACY_LENGTH + k]
           = Byte(Value(arg, SetRevoke(flags, revoke)), k)

\* No byte of an earlier message, and numbers in all of them.
FreshByte(byte) == byte.value.num \in Int /\ ~Stale(byte)
Fresh(bytes) == \A i \in DOMAIN bytes : FreshByte(bytes[i])

\* Numbers in all bytes, and none of an earlier message but in the flags.
Clean(type, bytes) ==
  \A i \in DOMAIN bytes :
    /\ bytes[i].value.num \in Int
    /\ Stale(bytes[i]) => RemovesPublication(type) /\ i \in FlagBytes

\* Bytes of values that are not old ones are fresh.
LEMMA FreshValue ==
  ASSUME NEW a, a # "old", NEW n \in Int, NEW k
  PROVE  FreshByte(Byte(Value(a, n), k))
BY ByteOf, ValueOf DEF FreshByte, Stale

\* Zeroes are bytes of zero, and fresh.
LEMMA ZeroFacts ==
  /\ \A k : Byte(Zero.value, k) = Zero
  /\ Zero.value = Value("zero", 0)
  /\ FreshByte(Zero)
<1>1. Zero.value = Value("zero", 0)
  BY ByteOf DEF Zero
<1>2. \A k : Byte(Zero.value, k) = Zero
  BY <1>1, ValueOf DEF Zero, Byte
<1> QED BY <1>1, <1>2, FreshValue DEF Zero

\* The fields are stored, and nothing else is changed.
LEMMA FieldsStored ==
  ASSUME NEW method, Sound(method.layout), NEW buffer
  PROVE  LET stored == StoreFields(buffer, method)
         IN  /\ DOMAIN stored = DOMAIN buffer
             /\ \A i \in DOMAIN buffer : i \in Nat /\ i >= method.layout.from => stored[i] = buffer[i]
             /\ \A f \in method.layout.fields :
                  \A i \in DOMAIN buffer \cap (f.offset .. f.offset + f.size - 1) :
                    stored[i] = Byte(Value(method.stored[f.name], 0), i - f.offset)
<1> DEFINE stored == StoreFields(buffer, method)
           at(i) == {f \in method.layout.fields : i \in f.offset .. f.offset + f.size - 1}
<1>1. DOMAIN stored = DOMAIN buffer
  BY DEF StoreFields
<1>2. \A i \in DOMAIN buffer :
        stored[i] = IF at(i) = {} THEN buffer[i]
                    ELSE LET f == CHOOSE f \in at(i) : TRUE
                         IN  Byte(Value(method.stored[f.name], 0), i - f.offset)
  BY DEF StoreFields
<1>3. Tiled(method.layout.fields, Names(method.layout), method.layout.from)
  BY DEF Sound
<1>4. ASSUME NEW i \in DOMAIN buffer, i \in Nat, i >= method.layout.from
      PROVE  stored[i] = buffer[i]
  <2>1. at(i) = {}
    BY <1>3, <1>4 DEF Tiled
  <2> QED BY <1>2, <2>1
<1>5. ASSUME NEW f \in method.layout.fields,
             NEW i \in DOMAIN buffer \cap (f.offset .. f.offset + f.size - 1)
      PROVE  stored[i] = Byte(Value(method.stored[f.name], 0), i - f.offset)
  <2>1. f \in at(i)
    OBVIOUS
  <2>2. \A g \in at(i) : g = f
    <3>1. TAKE g \in at(i)
    <3>2. /\ g \in method.layout.fields
          /\ i \in g.offset .. g.offset + g.size - 1
          /\ i \in f.offset .. f.offset + f.size - 1
      OBVIOUS
    <3>3. /\ f.offset \in Nat /\ f.size \in Nat /\ g.offset \in Nat /\ g.size \in Nat
          /\ g # f => g.offset + g.size <= f.offset \/ f.offset + f.size <= g.offset
      BY <1>3, <3>2 DEF Tiled
    <3> HIDE DEF at
    <3> QED BY <3>2, <3>3
  <2>3. (CHOOSE g \in at(i) : TRUE) \in at(i)
    BY <2>1
  <2>4. (CHOOSE g \in at(i) : TRUE) = f
    BY <2>2, <2>3
  <2> QED BY <1>2, <2>1, <2>4
<1> QED BY <1>1, <1>4, <1>5

\* The zeroes behind a part, up to the next.
Padding(layout, lengths, i) ==
  IF i = Len(lengths) THEN 0 ELSE Align(lengths[i], layout.alignment) - lengths[i]

\* A part: its length, its bytes and the zeroes behind them, and no other change.
PartAdded(new, buffer, layout, lengths, i) ==
  LET at == LengthOffset(layout, lengths, i)
      l == lengths[i]
      padding == Padding(layout, lengths, i)
  IN  /\ DOMAIN new = DOMAIN buffer
      /\ \A j \in DOMAIN buffer :
           new[j] = IF j \in at + 4 + l .. at + 4 + l + padding - 1 THEN Zero
                    ELSE IF j \in at + 4 .. at + 4 + l - 1
                    THEN Byte(Value(layout.parts[i], l), j - (at + 4))
                    ELSE IF j \in at .. at + 4 - 1 THEN Byte(Value("length", l), j - at)
                    ELSE buffer[j]

\* This is what is done to store one.
LEMMA PartStored ==
  ASSUME NEW layout, NEW lengths, NEW i, NEW buffer, DOMAIN buffer \subseteq Nat,
         LengthOffset(layout, lengths, i) \in Nat, lengths[i] \in Nat,
         Padding(layout, lengths, i) \in Nat
  PROVE  PartAdded(SetPart(buffer, layout, lengths, i), buffer, layout, lengths, i)
<1> DEFINE at == LengthOffset(layout, lengths, i)
           l == lengths[i]
           padding == Padding(layout, lengths, i)
           first == Put(buffer, at, 4, Value("length", l))
           second == Put(first, at + 4, l, Value(layout.parts[i], l))
           third == Put(second, at + 4 + l, padding, Zero.value)
<1>1. SetPart(buffer, layout, lengths, i) = third
  BY DEF SetPart, SIZE_OF_INT, Padding
<1> HIDE DEF at, l, padding
<1>2. at \in Nat /\ l \in Nat /\ padding \in Nat /\ at + 4 \in Nat /\ at + 4 + l \in Nat
  BY DEF at, l, padding
<1>3. /\ DOMAIN first = DOMAIN buffer
      /\ \A j \in DOMAIN buffer :
           first[j] = IF j \in at .. at + 4 - 1 THEN Byte(Value("length", l), j - at) ELSE buffer[j]
  BY <1>2, PutBytes
<1> HIDE DEF first
<1>4. /\ DOMAIN second = DOMAIN first
      /\ \A j \in DOMAIN first :
           second[j] = IF j \in at + 4 .. at + 4 + l - 1
                       THEN Byte(Value(layout.parts[i], l), j - (at + 4)) ELSE first[j]
  BY <1>2, PutBytes
<1> HIDE DEF second
<1>5. /\ DOMAIN third = DOMAIN second
      /\ \A j \in DOMAIN second :
           third[j] = IF j \in at + 4 + l .. at + 4 + l + padding - 1
                      THEN Byte(Zero.value, j - (at + 4 + l)) ELSE second[j]
  BY <1>2, PutBytes
<1> HIDE DEF third
<1>6. \A j \in DOMAIN buffer :
        third[j] = IF j \in at + 4 + l .. at + 4 + l + padding - 1 THEN Zero
                   ELSE IF j \in at + 4 .. at + 4 + l - 1
                   THEN Byte(Value(layout.parts[i], l), j - (at + 4))
                   ELSE IF j \in at .. at + 4 - 1 THEN Byte(Value("length", l), j - at)
                   ELSE buffer[j]
  BY <1>3, <1>4, <1>5, ZeroFacts
<1> QED BY <1>1, <1>3, <1>4, <1>5, <1>6 DEF at, l, padding, PartAdded

\* The parts of a message that fits are stored one behind the other, with nothing
\* between them that was there before.
LEMMA PartsStored ==
  ASSUME NEW layout, Sound(layout), NEW lengths \in [DOMAIN layout.parts -> Nat],
         \A i \in DOMAIN layout.parts : layout.parts[i] # "old",
         NEW size \in Nat, ComputeLength(layout, lengths) <= size,
         NEW buffer, DOMAIN buffer = 0 .. size - 1
  PROVE  LET stored == SetParts(buffer, layout, lengths)
         IN  /\ DOMAIN stored = DOMAIN buffer
             /\ \A j \in DOMAIN buffer : j < layout.from => stored[j] = buffer[j]
             /\ \A i \in DOMAIN lengths :
                  LET at == LengthOffset(layout, lengths, i)
                  IN  /\ \A k \in 0 .. 3 : stored[at + k] = Byte(Value("length", lengths[i]), k)
                      /\ \A k \in 0 .. lengths[i] - 1 :
                           stored[at + 4 + k] = Byte(Value(layout.parts[i], lengths[i]), k)
             /\ \A j \in layout.from .. ComputeLength(layout, lengths) - 1 : FreshByte(stored[j])
<1> DEFINE start == layout.from
           total == ComputeLength(layout, lengths)
           stored == SetParts(buffer, layout, lengths)
<1>1. /\ start \in Nat /\ Len(layout.parts) \in 0 .. 2
      /\ Len(lengths) = Len(layout.parts) /\ DOMAIN lengths = 1 .. Len(layout.parts)
      /\ \A i \in DOMAIN lengths : lengths[i] \in Nat
  BY PartsOf, LengthsOf
<1>a. /\ total \in Nat
      /\ total = IF Len(lengths) = 0 THEN start
                 ELSE LengthOffset(layout, lengths, Len(lengths)) + 4 + lengths[Len(lengths)]
  BY PartsApart
<1>b. \A j \in start .. total - 1 : j \in DOMAIN buffer
  <2> HIDE DEF start
  <2>1. total <= size
    OBVIOUS
  <2> HIDE DEF total
  <2> QED BY <1>1, <1>a, <2>1
<1>2. DOMAIN buffer \subseteq Nat
  OBVIOUS
<1>3. CASE Len(lengths) = 0
  <2>1. stored = buffer
    BY <1>3 DEF SetParts
  <2>2. DOMAIN lengths = {} /\ total = start
    BY <1>1, <1>3, <1>a
  <2>3. start .. total - 1 = {}
    BY <1>1, <2>2
  <2> QED BY <2>1, <2>2, <2>3
<1>4. CASE Len(lengths) = 1
  <2> DEFINE l == lengths[1]
             part == layout.parts[1]
  <2>1. stored = SetPart(buffer, layout, lengths, 1)
    BY <1>4 DEF SetParts
  <2>2. /\ DOMAIN lengths = {1} /\ l \in Nat /\ part # "old"
        /\ LengthOffset(layout, lengths, 1) = start
    BY <1>1, <1>4, PartsApart
  <2>3. total = start + 4 + l
    BY <1>4, <1>a, <2>2
  <2>4. /\ DOMAIN stored = DOMAIN buffer
        /\ \A j \in DOMAIN buffer :
             stored[j] =
               IF j \in start + 4 + l .. start + 4 + l + 0 - 1 THEN Zero
               ELSE IF j \in start + 4 .. start + 4 + l - 1
               THEN Byte(Value(part, l), j - (start + 4))
               ELSE IF j \in start .. start + 4 - 1 THEN Byte(Value("length", l), j - start)
               ELSE buffer[j]
    <3>1. Padding(layout, lengths, 1) = 0
      BY <1>4 DEF Padding
    <3>2. LengthOffset(layout, lengths, 1) \in Nat
      BY <1>1, <2>2
    <3> HIDE DEF start, total
    <3>3. PartAdded(SetPart(buffer, layout, lengths, 1), buffer, layout, lengths, 1)
      BY <1>2, <2>2, <3>1, <3>2, PartStored
    <3> QED BY <2>1, <2>2, <3>1, <3>3 DEF PartAdded
  <2> HIDE DEF stored, l, part, start, total
  <2>5. \A j \in start .. total - 1 : j \in DOMAIN buffer
    BY <1>b DEF start, total
  <2>6. \A j \in DOMAIN buffer : j < start => stored[j] = buffer[j]
    BY <1>1, <2>2, <2>4
  <2>7. ASSUME NEW k \in 0 .. 3 PROVE stored[start + k] = Byte(Value("length", l), k)
    <3> DEFINE j == start + k
    <3>1. /\ j \in DOMAIN buffer /\ j - start = k
          /\ j \in start .. start + 4 - 1 /\ j \in Nat /\ j < start + 4
      BY <1>1, <2>2, <2>3, <2>5
    <3> HIDE DEF j
    <3>2. /\ j \notin start + 4 + l .. start + 4 + l + 0 - 1
          /\ j \notin start + 4 .. start + 4 + l - 1
      BY <1>1, <2>2, <3>1
    <3>3. stored[j] = Byte(Value("length", l), k)
      BY <2>4, <3>1, <3>2
    <3> QED BY <3>3 DEF j
  <2>8. ASSUME NEW k \in 0 .. l - 1 PROVE stored[start + 4 + k] = Byte(Value(part, l), k)
    <3> DEFINE j == start + 4 + k
    <3>0. /\ j \in start .. total - 1 /\ j - (start + 4) = k
          /\ j \in start + 4 .. start + 4 + l - 1 /\ j \in Nat /\ j < start + 4 + l
      BY <1>1, <2>2, <2>3
    <3> HIDE DEF j
    <3>1. j \in DOMAIN buffer
      BY <2>5, <3>0
    <3>2. j \notin start + 4 + l .. start + 4 + l + 0 - 1
      BY <1>1, <2>2, <3>0
    <3>3. stored[j] = Byte(Value(part, l), k)
      BY <2>4, <3>0, <3>1, <3>2
    <3> QED BY <3>3 DEF j
  <2>9. ASSUME NEW j \in start .. total - 1 PROVE FreshByte(stored[j])
    <3>1. CASE j < start + 4
      <4>1. stored[j] = Byte(Value("length", l), j - start)
        BY <1>1, <2>2, <2>4, <2>5, <3>1
      <4> QED BY <2>2, <4>1, FreshValue
    <3>2. CASE j >= start + 4
      <4>1. /\ j \in DOMAIN buffer /\ j \in start + 4 .. start + 4 + l - 1
            /\ ~ (j \in start + 4 + l .. start + 4 + l + 0 - 1)
        <5>1. j \in DOMAIN buffer /\ j \in Int
          BY <2>2, <2>5
        <5> QED BY <1>1, <2>2, <2>3, <3>2, <5>1
      <4>2. stored[j] = Byte(Value(part, l), j - (start + 4))
        BY <2>4, <4>1
      <4> QED BY <2>2, <4>2, FreshValue
    <3> QED BY <1>1, <2>2, <2>3, <3>1, <3>2
  <2> QED BY <2>2, <2>4, <2>6, <2>7, <2>8, <2>9 DEF stored, l, part, start, total
<1>5. CASE Len(lengths) = 2
  <2> DEFINE l == lengths[1]
             m == lengths[2]
             part == layout.parts[1]
             other == layout.parts[2]
             padding == Align(l, layout.alignment) - l
             end == start + 4 + l + padding
             middle == SetPart(buffer, layout, lengths, 1)
  <2>1. stored = SetPart(middle, layout, lengths, 2)
    BY <1>5 DEF SetParts
  <2>2. /\ DOMAIN lengths = {1, 2} /\ l \in Nat /\ m \in Nat /\ part # "old" /\ other # "old"
    BY <1>1, <1>5
  <2>3. /\ LengthOffset(layout, lengths, 1) = start
        /\ LengthOffset(layout, lengths, 2) = start + 4 + Align(l, layout.alignment)
        /\ Align(l, layout.alignment) \in Nat /\ Align(l, layout.alignment) >= l
    BY <2>2, PartsApart
  <2>4. padding \in Nat /\ end \in Nat /\ end = LengthOffset(layout, lengths, 2)
    <3> DEFINE aligned == Align(l, layout.alignment)
    <3>1. /\ aligned \in Nat /\ aligned >= l /\ l \in Nat /\ start \in Nat
          /\ LengthOffset(layout, lengths, 2) = start + 4 + aligned
          /\ padding = aligned - l /\ end = start + 4 + l + padding
      BY <1>1, <2>2, <2>3
    <3> HIDE DEF aligned, l, start, padding, end
    <3> QED BY <3>1
  <2>5. total = end + 4 + m
    BY <1>5, <1>a, <2>2, <2>4
  <2> HIDE DEF padding, end
  <2>6. /\ DOMAIN middle = DOMAIN buffer
        /\ \A j \in DOMAIN buffer :
             middle[j] =
               IF j \in start + 4 + l .. start + 4 + l + padding - 1 THEN Zero
               ELSE IF j \in start + 4 .. start + 4 + l - 1
               THEN Byte(Value(part, l), j - (start + 4))
               ELSE IF j \in start .. start + 4 - 1 THEN Byte(Value("length", l), j - start)
               ELSE buffer[j]
    <3>1. Padding(layout, lengths, 1) = padding
      BY <1>5 DEF padding, Padding
    <3>2. LengthOffset(layout, lengths, 1) \in Nat
      BY <1>1, <2>3
    <3> HIDE DEF start, total
    <3>3. lengths[1] \in Nat /\ Padding(layout, lengths, 1) \in Nat
      BY <2>2, <2>4, <3>1
    <3>4. PartAdded(SetPart(buffer, layout, lengths, 1), buffer, layout, lengths, 1)
      BY <1>2, <3>2, <3>3, PartStored
    <3> QED BY <2>3, <3>1, <3>4 DEF PartAdded
  <2> HIDE DEF middle
  <2>7. /\ DOMAIN stored = DOMAIN middle
        /\ \A j \in DOMAIN middle :
             stored[j] =
               IF j \in end + 4 + m .. end + 4 + m + 0 - 1 THEN Zero
               ELSE IF j \in end + 4 .. end + 4 + m - 1
               THEN Byte(Value(other, m), j - (end + 4))
               ELSE IF j \in end .. end + 4 - 1 THEN Byte(Value("length", m), j - end)
               ELSE middle[j]
    <3>1. Padding(layout, lengths, 2) = 0
      BY <1>5 DEF Padding
    <3>2. DOMAIN middle \subseteq Nat /\ LengthOffset(layout, lengths, 2) \in Nat
      BY <1>2, <2>4, <2>6
    <3> HIDE DEF start, total
    <3>3. lengths[2] \in Nat /\ Padding(layout, lengths, 2) \in Nat
      BY <2>2, <3>1
    <3>4. PartAdded(SetPart(middle, layout, lengths, 2), middle, layout, lengths, 2)
      BY <3>2, <3>3, PartStored
    <3> QED BY <2>1, <2>4, <3>1, <3>4 DEF PartAdded
  <2>8. end = start + 4 + l + padding
    BY DEF end
  <2> HIDE DEF stored, l, m, part, other, start, total
  <2>9. \A j \in start .. total - 1 : j \in DOMAIN buffer
    BY <1>b DEF start, total
  <2>a. /\ start \in Nat /\ l \in Nat /\ m \in Nat /\ padding \in Nat /\ end \in Nat
        /\ end = start + 4 + l + padding /\ total = end + 4 + m
    BY <1>1, <2>2, <2>4, <2>5, <2>8
  <2>10. \A j \in DOMAIN buffer : j < end => stored[j] = middle[j]
    BY <2>2, <2>4, <2>6, <2>7
  <2>11. \A j \in DOMAIN buffer : j < start => stored[j] = buffer[j]
    BY <1>1, <2>2, <2>4, <2>6, <2>8, <2>10
  <2>12. ASSUME NEW k \in 0 .. 3 PROVE stored[start + k] = Byte(Value("length", l), k)
    <3> DEFINE j == start + k
    <3>1. /\ j \in DOMAIN buffer /\ j - start = k /\ j < end
          /\ j \in start .. start + 4 - 1 /\ j \in Nat /\ j < start + 4
      BY <2>9, <2>a
    <3> HIDE DEF j
    <3>2. stored[j] = middle[j]
      BY <2>10, <3>1
    <3>3. /\ j \notin start + 4 + l .. start + 4 + l + padding - 1
          /\ j \notin start + 4 .. start + 4 + l - 1
      BY <2>a, <3>1
    <3>4. stored[j] = Byte(Value("length", l), k)
      BY <2>6, <3>1, <3>2, <3>3
    <3> QED BY <3>4 DEF j
  <2>13. ASSUME NEW k \in 0 .. l - 1 PROVE stored[start + 4 + k] = Byte(Value(part, l), k)
    <3> DEFINE j == start + 4 + k
    <3>1. /\ j \in DOMAIN buffer /\ j - (start + 4) = k /\ j < end
          /\ j \in start + 4 .. start + 4 + l - 1 /\ j \in Nat /\ j < start + 4 + l
      BY <2>9, <2>a
    <3> HIDE DEF j
    <3>2. stored[j] = middle[j]
      BY <2>10, <3>1
    <3>3. j \notin start + 4 + l .. start + 4 + l + padding - 1
      BY <2>a, <3>1
    <3>4. stored[j] = Byte(Value(part, l), k)
      BY <2>6, <3>1, <3>2, <3>3
    <3> QED BY <3>4 DEF j
  <2>14. ASSUME NEW k \in 0 .. 3 PROVE stored[end + k] = Byte(Value("length", m), k)
    <3>1. /\ end + k \in DOMAIN buffer /\ (end + k) - end = k
          /\ end + k \in end .. end + 4 - 1 /\ end + k < end + 4
      BY <2>9, <2>a
    <3> QED BY <2>6, <2>7, <2>a, <3>1
  <2>15. ASSUME NEW k \in 0 .. m - 1 PROVE stored[end + 4 + k] = Byte(Value(other, m), k)
    <3>1. /\ end + 4 + k \in DOMAIN buffer /\ (end + 4 + k) - (end + 4) = k
          /\ end + 4 + k \in end + 4 .. end + 4 + m - 1
      BY <2>9, <2>a
    <3> QED BY <2>6, <2>7, <2>a, <3>1
  <2>16. ASSUME NEW j \in start .. total - 1 PROVE FreshByte(stored[j])
    <3>0. j \in DOMAIN buffer /\ j \in DOMAIN middle
      BY <2>6, <2>9
    <3>1. CASE j < start + 4
      <4>1. stored[j] = Byte(Value("length", l), j - start)
        BY <2>6, <2>10, <2>a, <3>0, <3>1
      <4> QED BY <2>2, <4>1, FreshValue
    <3>2. CASE j \in start + 4 .. start + 4 + l - 1
      <4>1. stored[j] = Byte(Value(part, l), j - (start + 4))
        BY <2>6, <2>10, <2>a, <3>0, <3>2
      <4> QED BY <2>2, <4>1, FreshValue
    <3>3. CASE j \in start + 4 + l .. end - 1
      <4>1. stored[j] = Zero
        BY <2>6, <2>10, <2>a, <3>0, <3>3
      <4> QED BY <4>1, ZeroFacts
    <3>4. CASE j \in end .. end + 3
      <4>1. stored[j] = Byte(Value("length", m), j - end)
        BY <2>7, <2>a, <3>0, <3>4
      <4> QED BY <2>2, <4>1, FreshValue
    <3>5. CASE j >= end + 4
      <4>1. stored[j] = Byte(Value(other, m), j - (end + 4))
        BY <2>7, <2>a, <3>0, <3>5
      <4> QED BY <2>2, <4>1, FreshValue
    <3> QED BY <2>a, <3>1, <3>2, <3>3, <3>4, <3>5
  <2>17. ASSUME NEW i \in DOMAIN lengths
         PROVE  LET at == LengthOffset(layout, lengths, i)
                IN  /\ \A k \in 0 .. 3 : stored[at + k] = Byte(Value("length", lengths[i]), k)
                    /\ \A k \in 0 .. lengths[i] - 1 :
                         stored[at + 4 + k] = Byte(Value(layout.parts[i], lengths[i]), k)
    <3>1. CASE i = 1
      BY <2>3, <2>12, <2>13, <3>1 DEF l, part, start
    <3>2. CASE i = 2
      BY <2>4, <2>14, <2>15, <3>2 DEF m, other
    <3> QED BY <2>2, <3>1, <3>2
  <2> QED BY <2>6, <2>7, <2>11, <2>16, <2>17 DEF stored, start, total
<1> QED BY <1>1, <1>3, <1>4, <1>5

\* The first n bytes of a buffer.
FirstOf(bytes, n, buffer) == bytes = [i \in 0 .. n - 1 |-> buffer[i]]

\* A message that fits is written as its method says, and nothing stale is left in it.
LEMMA EncodeWrites ==
  ASSUME NEW method, Stores(method), NEW lengths \in [DOMAIN method.layout.parts -> Nat],
         NEW buffer, DOMAIN buffer = 0 .. ScratchSize - 1,
         NEW flags \in Nat, NEW revoke \in BOOLEAN, NEW n, n = MessageLength(method, lengths),
         n <= ScratchSize,
         NEW bytes, FirstOf(bytes, n, Encode(buffer, method, lengths, flags, revoke))
  PROVE  /\ DOMAIN Encode(buffer, method, lengths, flags, revoke) = DOMAIN buffer
         /\ Written(bytes, method, lengths, revoke)
         /\ Clean(method.type, bytes)
         /\ n \in Nat
<1> DEFINE layout == method.layout
           start == layout.from
           total == ComputeLength(layout, lengths)
           fields == StoreFields(buffer, method)
           stored == SetParts(fields, layout, lengths)
           whole == Encode(buffer, method, lengths, flags, revoke)
<1>1. Sound(layout) /\ ScratchSize \in Nat
  BY SizesAssumption DEF Stores
<1>2. /\ start \in Nat /\ total \in Nat /\ start <= total
      /\ Len(lengths) = 0 => total = start
      /\ Len(lengths) = Len(layout.parts)
      /\ layout.parts = <<>> => Len(layout.parts) = 0
      /\ \A i \in DOMAIN lengths :
           /\ LengthOffset(layout, lengths, i) \in Nat /\ lengths[i] \in Nat
           /\ LengthOffset(layout, lengths, i) >= start
           /\ LengthOffset(layout, lengths, i) + 4 + lengths[i] <= total
  <2>1. layout.minimum \in Nat /\ start \in Nat /\ layout.minimum >= start
    BY <1>1, PartsOf
  <2>2. total \in Nat /\ total >= layout.minimum
    BY <1>1, PartsApart
  <2>3. start <= total
    <3> HIDE DEF start, total
    <3> QED BY <2>1, <2>2
  <2>4. Len(lengths) = 0 => total = start
    BY <1>1, PartsApart
  <2>5. /\ Len(lengths) = Len(layout.parts)
        /\ layout.parts = <<>> => Len(layout.parts) = 0
    BY <1>1, LengthsOf, PartsOf
  <2>6. \A i \in DOMAIN lengths :
           /\ LengthOffset(layout, lengths, i) \in Nat /\ lengths[i] \in Nat
           /\ LengthOffset(layout, lengths, i) >= start
           /\ LengthOffset(layout, lengths, i) + 4 + lengths[i] <= total
    BY <1>1, PartsApart
  <2> QED BY <2>1, <2>2, <2>3, <2>4, <2>5, <2>6
<1>3. /\ RemovesPublication(method.type) => total = 24 /\ start = 24 /\ n = 32 /\ DOMAIN lengths = {}
      /\ ~RemovesPublication(method.type) => n = total
  <2>1. CASE RemovesPublication(method.type)
    <3>1. start = 24 /\ layout.parts = <<>> /\ ~Frames
      BY <2>1 DEF Stores, REMOVE_PUBLICATION_LEGACY_LENGTH
    <3>2. total = 24
      BY <1>2, <3>1
    <3>3. DOMAIN lengths = {}
      BY <3>1
    <3> QED BY <2>1, <3>1, <3>2, <3>3 DEF MessageLength, REMOVE_PUBLICATION_LENGTH
  <2>2. CASE ~RemovesPublication(method.type)
    BY <2>2 DEF MessageLength
  <2> QED BY <2>1, <2>2
<1>4. n \in Nat /\ total <= n /\ total <= ScratchSize
  BY <1>1, <1>2, <1>3
<1>5. /\ DOMAIN fields = DOMAIN buffer
      /\ \A f \in layout.fields :
           \A i \in DOMAIN buffer \cap (f.offset .. f.offset + f.size - 1) :
             fields[i] = Byte(Value(method.stored[f.name], 0), i - f.offset)
  BY <1>1, FieldsStored
<1> HIDE DEF fields
<1>6. /\ DOMAIN stored = DOMAIN buffer
      /\ \A j \in DOMAIN buffer : j < start => stored[j] = fields[j]
      /\ \A i \in DOMAIN lengths :
           LET at == LengthOffset(layout, lengths, i)
           IN  /\ \A k \in 0 .. 3 : stored[at + k] = Byte(Value("length", lengths[i]), k)
               /\ \A k \in 0 .. lengths[i] - 1 :
                    stored[at + 4 + k] = Byte(Value(layout.parts[i], lengths[i]), k)
      /\ \A j \in start .. total - 1 : FreshByte(stored[j])
  <2>1. \A i \in DOMAIN layout.parts : layout.parts[i] # "old"
    BY DEF Stores
  <2>2. DOMAIN fields = 0 .. ScratchSize - 1
    BY <1>5
  <2> HIDE DEF layout
  <2> QED BY <1>1, <1>4, <2>1, <2>2, PartsStored DEF layout
<1> HIDE DEF stored
<1>7. /\ \A f \in layout.fields :
           f.offset \in Nat /\ f.size \in Nat \ {0} /\ f.offset + f.size <= start
      /\ \A f, g \in layout.fields : f # g =>
           /\ f.name # g.name
           /\ f.offset + f.size <= g.offset \/ g.offset + g.size <= f.offset
      /\ \A i \in 0 .. start - 1 : \E f \in layout.fields : f.offset <= i /\ i < f.offset + f.size
  BY <1>1 DEF Sound, Tiled
<1>8. \A f \in layout.fields : f.name \in Names(layout)
  BY DEF Names
<1>9. ASSUME NEW f \in layout.fields, NEW k \in 0 .. f.size - 1
      PROVE  /\ f.offset + k \in 0 .. n - 1 /\ f.offset + k \in DOMAIN buffer
             /\ f.offset + k < start
             /\ stored[f.offset + k] = Byte(Value(method.stored[f.name], 0), k)
  <2> DEFINE j == f.offset + k
  <2>1. /\ j \in Nat /\ j < start /\ j \in 0 .. n - 1 /\ j \in DOMAIN buffer
        /\ j \in f.offset .. f.offset + f.size - 1 /\ j - f.offset = k
    <3>1. /\ f.offset \in Nat /\ f.size \in Nat /\ f.offset + f.size <= start
          /\ start <= total /\ start \in Nat /\ total \in Nat
      BY <1>2, <1>7
    <3>2. j \in Nat /\ j < start /\ j \in f.offset .. f.offset + f.size - 1 /\ j - f.offset = k
      <4> DEFINE offset == f.offset
                 length == f.size
      <4>1. /\ offset \in Nat /\ length \in Nat /\ offset + length <= start /\ start \in Nat
            /\ k \in 0 .. length - 1 /\ j = offset + k
        BY <3>1
      <4> HIDE DEF start, offset, length, j
      <4>2. j \in Nat /\ j < start /\ j \in offset .. offset + length - 1 /\ j - offset = k
        BY <4>1
      <4> QED BY <4>2 DEF offset, length
    <3> HIDE DEF j, start, total
    <3> QED BY <1>1, <1>4, <3>1, <3>2
  <2> HIDE DEF j
  <2>2. stored[j] = fields[j]
    BY <1>6, <2>1
  <2>3. fields[j] = Byte(Value(method.stored[f.name], 0), j - f.offset)
    BY <1>5, <2>1
  <2> QED BY <2>1, <2>2, <2>3 DEF j
<1>10. ASSUME NEW j \in 0 .. start - 1 PROVE FreshByte(stored[j])
  <2>1. PICK f \in layout.fields : f.offset <= j /\ j < f.offset + f.size
    BY <1>7
  <2>2. /\ f.offset \in Nat /\ f.size \in Nat
        /\ j - f.offset \in 0 .. f.size - 1 /\ f.offset + (j - f.offset) = j
    BY <1>2, <1>7, <2>1
  <2>3. stored[j] = Byte(Value(method.stored[f.name], 0), j - f.offset)
    BY <1>9, <2>2
  <2>4. method.stored[f.name] # "old"
    BY <1>8 DEF Stores
  <2> QED BY <2>3, <2>4, FreshValue
<1>11. \A j \in 0 .. total - 1 : FreshByte(stored[j])
  <2>1. TAKE j \in 0 .. total - 1
  <2>2. j \in 0 .. start - 1 \/ j \in start .. total - 1
    BY <1>2
  <2> QED BY <1>6, <1>10, <2>2
<1>12. ASSUME NEW i \in DOMAIN lengths, NEW j, NEW k,
              \/ j = LengthOffset(layout, lengths, i) + k /\ k \in 0 .. 3
              \/ j = LengthOffset(layout, lengths, i) + 4 + k /\ k \in 0 .. lengths[i] - 1
       PROVE  j \in 0 .. n - 1 /\ j \in DOMAIN buffer /\ j >= start
  <2> DEFINE at == LengthOffset(layout, lengths, i)
  <2>1. at \in Nat /\ lengths[i] \in Nat /\ at >= start /\ at + 4 + lengths[i] <= total
    BY <1>2
  <2>2. \/ j = at + k /\ k \in 0 .. 3
        \/ j = at + 4 + k /\ k \in 0 .. lengths[i] - 1
    BY <1>12
  <2> HIDE DEF at, start, total
  <2>3. j \in Nat /\ j >= start /\ j < total
    <3>1. CASE j = at + k /\ k \in 0 .. 3
      BY <1>2, <2>1, <3>1
    <3>2. CASE j = at + 4 + k /\ k \in 0 .. lengths[i] - 1
      BY <1>2, <2>1, <3>2
    <3> QED BY <2>2, <3>1, <3>2
  <2> QED BY <1>1, <1>2, <1>4, <2>3
<1>13. DOMAIN bytes = 0 .. n - 1 /\ \A j \in 0 .. n - 1 : bytes[j] = whole[j]
  BY DEF FirstOf
<1>14. CASE RemovesPublication(method.type)
  <2> DEFINE arg == IF FlagsLeft(buffer) = {} THEN "flags" ELSE "old"
             content == Value(arg, SetRevoke(flags, revoke))
  <2>1. whole = Put(stored, 24, 8, content)
    BY <1>14 DEF Encode, REMOVE_PUBLICATION_LEGACY_LENGTH, stored, fields
  <2>9. arg \in {"flags", "old"}
    OBVIOUS
  <2> HIDE DEF arg
  <2>2. /\ DOMAIN whole = DOMAIN buffer
        /\ \A j \in DOMAIN buffer :
             whole[j] = IF j \in 24 .. 24 + 8 - 1 THEN Byte(content, j - 24) ELSE stored[j]
    <3> HIDE DEF whole, content
    <3> QED BY <1>6, <2>1 DEF Put
  <2> HIDE DEF whole
  <2>3. ~Frames /\ SetRevoke(flags, revoke) \in Nat
    BY <1>14 DEF Stores, SetRevoke
  <2>4. \A j \in 0 .. n - 1 : j \in DOMAIN buffer
    BY <1>1, <1>4
  <2>5. \A k \in 0 .. 7 : bytes[24 + k] = Byte(content, k)
    <3>1. TAKE k \in 0 .. 7
    <3>2. 24 + k \in 0 .. n - 1 /\ 24 + k \in 24 .. 24 + 8 - 1 /\ (24 + k) - 24 = k
      BY <1>3, <1>14
    <3> QED BY <1>13, <2>2, <2>4, <3>2
  <2>6. ASSUME NEW f \in layout.fields, NEW k \in 0 .. f.size - 1
        PROVE  bytes[f.offset + k] = Byte(FieldValue(method, lengths, f.name), k)
    <3>1. /\ f.offset + k \in 0 .. n - 1 /\ f.offset + k \in DOMAIN buffer
          /\ f.offset + k < 24
          /\ stored[f.offset + k] = Byte(Value(method.stored[f.name], 0), k)
      BY <1>3, <1>9, <1>14
    <3>2. bytes[f.offset + k] = stored[f.offset + k]
      BY <1>13, <2>2, <3>1
    <3>3. FieldValue(method, lengths, f.name) = Value(method.stored[f.name], 0)
      BY <1>8, <2>3 DEF Stores, FieldValue
    <3> QED BY <3>1, <3>2, <3>3
  <2>7. \A j \in 0 .. n - 1 :
          bytes[j].value.num \in Int /\ (Stale(bytes[j]) => j \in FlagBytes)
    <3>1. TAKE j \in 0 .. n - 1
    <3>2. CASE j < 24
      <4> HIDE DEF content
      <4>1. bytes[j] = stored[j] /\ j \in 0 .. total - 1
        BY <1>3, <1>13, <1>14, <2>2, <2>4, <3>2
      <4> QED BY <1>11, <4>1 DEF FreshByte
    <3>3. CASE j >= 24
      <4>1. j \in 24 .. 24 + 8 - 1
        BY <1>3, <1>14, <3>3
      <4>2. bytes[j] = Byte(content, j - 24)
        BY <1>13, <2>2, <2>4, <4>1
      <4>3. j \in FlagBytes
        BY <4>1 DEF FlagBytes, REMOVE_PUBLICATION_LEGACY_LENGTH, REMOVE_PUBLICATION_LENGTH
      <4>4. bytes[j].value.num = SetRevoke(flags, revoke)
        BY <4>2, ByteOf, ValueOf
      <4> QED BY <2>3, <4>3, <4>4
    <3> QED BY <3>2, <3>3
  <2>8. Written(bytes, method, lengths, revoke)
    <3>1. \E g \in Nat, a \in {"flags", "old"} : \A k \in 0 .. 7 :
            bytes[REMOVE_PUBLICATION_LEGACY_LENGTH + k] = Byte(Value(a, SetRevoke(g, revoke)), k)
      BY <2>5, <2>9 DEF REMOVE_PUBLICATION_LEGACY_LENGTH
    <3> HIDE DEF content
    <3> QED BY <1>3, <1>13, <1>14, <2>3, <2>6, <3>1 DEF Written
  <2>10. Clean(method.type, bytes)
    BY <1>13, <1>14, <2>7 DEF Clean
  <2> QED BY <1>4, <2>2, <2>8, <2>10 DEF whole
<1>15. ASSUME ~RemovesPublication(method.type),
              \A j \in 0 .. n - 1 : j >= start => bytes[j] = stored[j],
              DOMAIN whole = DOMAIN buffer, \A j \in 0 .. n - 1 : FreshByte(bytes[j]),
              \A f \in layout.fields : \A k \in 0 .. f.size - 1 :
                bytes[f.offset + k] = Byte(FieldValue(method, lengths, f.name), k)
       PROVE  /\ DOMAIN whole = DOMAIN buffer
              /\ Written(bytes, method, lengths, revoke)
              /\ Clean(method.type, bytes) /\ n \in Nat
  <2>1. ASSUME NEW i \in DOMAIN lengths
        PROVE  LET at == LengthOffset(layout, lengths, i)
               IN  /\ \A k \in 0 .. SIZE_OF_INT - 1 :
                        bytes[at + k] = Byte(Value("length", lengths[i]), k)
                   /\ \A k \in 0 .. lengths[i] - 1 :
                        bytes[at + SIZE_OF_INT + k] = Byte(Value(layout.parts[i], lengths[i]), k)
    <3> DEFINE at == LengthOffset(layout, lengths, i)
    <3>1. ASSUME NEW k \in 0 .. 3 PROVE bytes[at + k] = Byte(Value("length", lengths[i]), k)
      <4>1. at + k \in 0 .. n - 1 /\ at + k >= start
        BY <1>12
      <4>2. bytes[at + k] = stored[at + k]
        BY <1>15, <4>1
      <4> QED BY <1>6, <4>2
    <3>2. ASSUME NEW k \in 0 .. lengths[i] - 1
          PROVE  bytes[at + 4 + k] = Byte(Value(layout.parts[i], lengths[i]), k)
      <4>1. at + 4 + k \in 0 .. n - 1 /\ at + 4 + k >= start
        BY <1>12
      <4>2. bytes[at + 4 + k] = stored[at + 4 + k]
        BY <1>15, <4>1
      <4> QED BY <1>6, <4>2
    <3> QED BY <3>1, <3>2 DEF SIZE_OF_INT
  <2> HIDE DEF whole
  <2>2. Written(bytes, method, lengths, revoke)
    BY <1>13, <1>15, <2>1 DEF Written
  <2> QED BY <1>4, <1>13, <1>15, <2>2 DEF Clean, FreshByte
<1>16. CASE ~RemovesPublication(method.type) /\ ~Frames
  <2>1. whole = stored
    BY <1>16 DEF Encode, stored, fields
  <2>2. \A j \in 0 .. n - 1 : bytes[j] = stored[j]
    BY <1>13, <2>1
  <2>3. n = total
    BY <1>3, <1>16
  <2>4. ASSUME NEW f \in layout.fields, NEW k \in 0 .. f.size - 1
        PROVE  bytes[f.offset + k] = Byte(FieldValue(method, lengths, f.name), k)
    <3>1. FieldValue(method, lengths, f.name) = Value(method.stored[f.name], 0)
      BY <1>8, <1>16 DEF Stores, FieldValue
    <3> QED BY <1>9, <2>2, <3>1
  <2> HIDE DEF whole
  <2> QED BY <1>6, <1>11, <1>15, <1>16, <2>1, <2>2, <2>3, <2>4 DEF whole
<1>17. CASE ~RemovesPublication(method.type) /\ Frames
  <2> DEFINE content == Value("frame_length", total)
             word == I32("frame_length", 0)
             version == U8("version", 4)
  <2>1. whole = Put(stored, 0, 4, content)
    BY <1>17 DEF Encode, SIZE_OF_INT, stored, fields
  <2>2. /\ DOMAIN whole = DOMAIN buffer
        /\ \A j \in DOMAIN buffer :
             whole[j] = IF j \in 0 .. 0 + 4 - 1 THEN Byte(content, j - 0) ELSE stored[j]
    <3> HIDE DEF whole, content
    <3> QED BY <1>6, <2>1 DEF Put
  <2> HIDE DEF whole
  <2>3. n = total
    BY <1>3, <1>17
  <2>4. /\ word \in layout.fields /\ word.name = "frame_length" /\ word.offset = 0
        /\ word.size = 4
    BY <1>17 DEF Stores, I32
  <2>5. version \in layout.fields /\ version.offset = 4 /\ version.size = 1
    BY <1>17 DEF Stores, U8
  <2>6. start >= 5
    BY <1>2, <1>7, <2>5
  <2> HIDE DEF word, version
  <2>7. \A j \in 0 .. n - 1 : j \in DOMAIN buffer
    BY <1>1, <1>4
  <2>8. \A j \in 0 .. n - 1 : j >= 4 => bytes[j] = stored[j]
    BY <1>13, <2>2, <2>7
  <2>9. \A k \in 0 .. 3 : bytes[k] = Byte(content, k)
    <3>1. TAKE k \in 0 .. 3
    <3>2. k \in 0 .. n - 1
      BY <1>2, <2>3, <2>6
    <3> QED BY <1>13, <2>2, <2>7, <3>2
  <2>10. ASSUME NEW f \in layout.fields, NEW k \in 0 .. f.size - 1
         PROVE  bytes[f.offset + k] = Byte(FieldValue(method, lengths, f.name), k)
    <3>1. CASE f = word
      <4>1. method.stored[f.name] = "frame_length"
        BY <1>8, <1>17, <2>4, <3>1 DEF Stores
      <4>2. FieldValue(method, lengths, f.name) = content
        BY <4>1 DEF FieldValue
      <4>3. k \in 0 .. 3 /\ f.offset + k = k
        BY <2>4, <3>1
      <4> QED BY <2>9, <4>2, <4>3
    <3>2. CASE f # word
      <4>1. f.name # "frame_length" /\ f.offset >= 4
        BY <1>7, <2>4, <3>2
      <4>2. FieldValue(method, lengths, f.name) = Value(method.stored[f.name], 0)
        BY <1>8, <1>17, <4>1 DEF Stores, FieldValue
      <4>3. f.offset + k \in 0 .. n - 1 /\ f.offset + k >= 4
        <5>1. f.offset \in Nat /\ f.size \in Nat
          BY <1>7
        <5>2. f.offset + k >= 4
          BY <4>1, <5>1
        <5> QED BY <1>9, <5>2
      <4> QED BY <1>9, <2>8, <4>2, <4>3
    <3> QED BY <3>1, <3>2
  <2>11. \A j \in 0 .. n - 1 : FreshByte(bytes[j])
    <3>1. TAKE j \in 0 .. n - 1
    <3>2. CASE j < 4
      <4>1. bytes[j] = Byte(content, j)
        BY <2>9, <3>2
      <4> QED BY <1>2, <4>1, FreshValue
    <3>3. CASE j >= 4
      BY <1>11, <2>3, <2>8, <3>3
    <3> QED BY <3>2, <3>3
  <2>12. \A j \in 0 .. n - 1 : j >= start => bytes[j] = stored[j]
    BY <1>2, <2>6, <2>8
  <2> QED BY <1>15, <1>17, <2>2, <2>10, <2>11, <2>12 DEF whole
<1> QED BY <1>14, <1>15, <1>16, <1>17

-----------------------------------------------------------------------------
(* Reading a message.                                                       *)

\* What a handler should see of a parameter: without an address it is zero.
Wanted(method, p) ==
  IF p = "address" /\ "zero" \in {method.stored[f] : f \in Names(method.layout)} THEN "zero" ELSE p

\* The case reads each parameter from where the method stores it.
Delivers(method, case) ==
  /\ case.layout.fields \subseteq method.layout.fields
  /\ \/ case.layout = method.layout
     \/ /\ case.layout.parts = <<>>
        /\ case.layout.minimum \in Nat /\ case.layout.minimum <= method.layout.minimum
  /\ \A p \in DOMAIN case.read :
       \/ /\ case.read[p] \in Names(case.layout)
          /\ method.stored[case.read[p]] = Wanted(method, p)
       \/ /\ case.read[p] = p /\ p # "address"
          /\ \E i \in DOMAIN case.layout.parts : case.layout.parts[i] = p

\* The lengths of a written message that are read with a layout.
Known(layout, lengths) == IF layout.parts = <<>> THEN <<>> ELSE lengths

\* A message is as long as its parts make it, and at least as long as its layout wants.
LEMMA LengthEnough ==
  ASSUME NEW method, Stores(method), NEW lengths \in [DOMAIN method.layout.parts -> Nat]
  PROVE  /\ MessageLength(method, lengths) \in Nat
         /\ MessageLength(method, lengths) >= ComputeLength(method.layout, lengths)
         /\ MessageLength(method, lengths) >= method.layout.minimum
         /\ RemovesPublication(method.type) => MessageLength(method, lengths) = 32
         /\ ~RemovesPublication(method.type) =>
              MessageLength(method, lengths) = ComputeLength(method.layout, lengths)
<1>1. Sound(method.layout)
  BY DEF Stores
<1>2. /\ ComputeLength(method.layout, lengths) \in Nat
      /\ ComputeLength(method.layout, lengths) >= method.layout.minimum
      /\ Len(lengths) = 0 => ComputeLength(method.layout, lengths) = method.layout.from
      /\ method.layout.minimum \in Nat
      /\ Len(lengths) = Len(method.layout.parts)
      /\ method.layout.parts = <<>> => Len(method.layout.parts) = 0
  BY <1>1, PartsApart, PartsOf, LengthsOf
<1>3. CASE RemovesPublication(method.type)
  <2>1. method.layout.from = 24 /\ method.layout.parts = <<>>
    BY <1>3 DEF Stores, REMOVE_PUBLICATION_LEGACY_LENGTH
  <2>2. MessageLength(method, lengths) = 32
    BY <1>3 DEF MessageLength, REMOVE_PUBLICATION_LENGTH
  <2>3. ComputeLength(method.layout, lengths) = 24
    BY <1>2, <2>1
  <2> QED BY <1>2, <1>3, <2>2, <2>3
<1>4. CASE ~RemovesPublication(method.type)
  <2>1. MessageLength(method, lengths) = ComputeLength(method.layout, lengths)
    BY <1>4 DEF MessageLength
  <2> QED BY <1>2, <1>4, <2>1
<1> QED BY <1>3, <1>4

\* A field of a written message comes out as it was stored.
LEMMA FieldReadBack ==
  ASSUME NEW method, Stores(method), NEW lengths \in [DOMAIN method.layout.parts -> Nat],
         NEW revoke, NEW bytes, Written(bytes, method, lengths, revoke),
         NEW f \in method.layout.fields
  PROVE  Get(bytes, f.offset, f.size) = FieldValue(method, lengths, f.name)
<1>1. Sound(method.layout)
  BY DEF Stores
<1>2. /\ f.offset \in Nat /\ f.size \in Nat \ {0} /\ f.offset + f.size <= method.layout.from
      /\ method.layout.from \in Nat /\ method.layout.minimum \in Nat
      /\ method.layout.minimum >= method.layout.from
  BY <1>1, PartsOf DEF Sound, Tiled
<1>3. /\ MessageLength(method, lengths) \in Nat
      /\ MessageLength(method, lengths) >= method.layout.minimum
      /\ DOMAIN bytes = 0 .. MessageLength(method, lengths) - 1
  BY LengthEnough DEF Written
<1>4. \A k \in 0 .. f.size - 1 : f.offset + k \in DOMAIN bytes
  BY <1>2, <1>3
<1>5. \A k \in 0 .. f.size - 1 :
        bytes[f.offset + k] = Byte(FieldValue(method, lengths, f.name), k)
  BY DEF Written
<1>6. StoredAt(bytes, f.offset, f.size, FieldValue(method, lengths, f.name))
  BY <1>4, <1>5 DEF StoredAt
<1> QED BY <1>2, <1>6, GetStored

\* So do the length of a part, and the part.
LEMMA PartReadBack ==
  ASSUME NEW method, Stores(method), NEW lengths \in [DOMAIN method.layout.parts -> Nat],
         NEW revoke, NEW bytes, Written(bytes, method, lengths, revoke),
         NEW i \in DOMAIN lengths
  PROVE  LET at == LengthOffset(method.layout, lengths, i)
         IN  /\ NumberAt(bytes, at) = lengths[i]
             /\ Get(bytes, at + SIZE_OF_INT, lengths[i]) =
                  IF lengths[i] = 0 THEN Value("empty", 0)
                  ELSE Value(method.layout.parts[i], lengths[i])
<1> DEFINE at == LengthOffset(method.layout, lengths, i)
           l == lengths[i]
           n == MessageLength(method, lengths)
<1>1. Sound(method.layout)
  BY DEF Stores
<1>2. at \in Nat /\ l \in Nat /\ at + 4 + l <= ComputeLength(method.layout, lengths)
      /\ ComputeLength(method.layout, lengths) \in Nat
  BY <1>1, PartsApart
<1>3. n \in Nat /\ n >= ComputeLength(method.layout, lengths) /\ DOMAIN bytes = 0 .. n - 1
  BY LengthEnough DEF Written
<1>4. /\ \A k \in 0 .. 4 - 1 : bytes[at + k] = Byte(Value("length", l), k)
      /\ \A k \in 0 .. l - 1 : bytes[at + 4 + k] = Byte(Value(method.layout.parts[i], l), k)
  BY DEF Written, SIZE_OF_INT
<1> HIDE DEF at, l, n
<1>5. /\ \A k \in 0 .. 4 - 1 : at + k \in DOMAIN bytes
      /\ \A k \in 0 .. l - 1 : at + 4 + k \in DOMAIN bytes
      /\ at + 4 \in Nat
  BY <1>2, <1>3
<1>6. Get(bytes, at, 4) = Value("length", l)
  <2>1. StoredAt(bytes, at, 4, Value("length", l))
    BY <1>4, <1>5 DEF StoredAt
  <2> QED BY <1>2, <2>1, GetStored
<1>7. NumberAt(bytes, at) = l
  BY <1>6, ValueOf DEF NumberAt, SIZE_OF_INT
<1>8. Get(bytes, at + 4, l) = IF l = 0 THEN Value("empty", 0) ELSE Value(method.layout.parts[i], l)
  <2>1. CASE l = 0
    BY <2>1, GetNothing
  <2>2. CASE l # 0
    <3>1. StoredAt(bytes, at + 4, l, Value(method.layout.parts[i], l))
      BY <1>4, <1>5 DEF StoredAt
    <3> QED BY <1>2, <1>5, <2>2, <3>1, GetStored
  <2> QED BY <2>1, <2>2
<1> QED BY <1>7, <1>8 DEF at, l, SIZE_OF_INT

\* The lengths that are read are those that were written, and they fit.
LEMMA LengthsReadBack ==
  ASSUME NEW method, Stores(method), NEW lengths \in [DOMAIN method.layout.parts -> Nat],
         NEW revoke, NEW bytes, Written(bytes, method, lengths, revoke),
         NEW layout, \/ layout = method.layout
                     \/ /\ layout.parts = <<>>
                        /\ layout.minimum \in Nat /\ layout.minimum <= method.layout.minimum,
         NEW n, n = MessageLength(method, lengths)
  PROVE  /\ LengthsRead(layout, bytes, n) = Known(layout, lengths)
         /\ Accepted(layout, Known(layout, lengths), n)
<1>1. Sound(method.layout)
  BY DEF Stores
<1>2. /\ n \in Nat /\ n >= layout.minimum /\ layout.minimum \in Nat
      /\ n >= ComputeLength(method.layout, lengths)
  <2>1. /\ n \in Nat /\ n >= method.layout.minimum /\ method.layout.minimum \in Nat
        /\ n >= ComputeLength(method.layout, lengths)
    BY <1>1, LengthEnough, PartsOf
  <2> QED BY <2>1
<1>3. CASE layout.parts = <<>>
  <2>1. LengthsRead(layout, bytes, n) = <<>> /\ Known(layout, lengths) = <<>>
    BY <1>3 DEF LengthsRead, Known
  <2>2. Accepted(layout, <<>>, n)
    BY <1>2, <1>3 DEF Accepted
  <2> QED BY <2>1, <2>2
<1>4. CASE layout.parts # <<>>
  <2>1. layout = method.layout /\ Known(layout, lengths) = lengths
    BY <1>4 DEF Known
  <2>2. /\ Len(layout.parts) \in {1, 2} /\ Len(lengths) = Len(layout.parts)
        /\ lengths \in Seq(Nat) /\ DOMAIN lengths = 1 .. Len(lengths)
        /\ layout.from \in Nat
    BY <1>1, <1>4, <2>1, PartsOf, LengthsOf
  <2>3. ~(n < layout.minimum \/ layout.parts = <<>>)
    BY <1>2, <1>4
  <2>4. 1 \in DOMAIN lengths /\ lengths[1] \in Nat
    BY <2>2
  <2>5. LengthOffset(layout, lengths, 1) = layout.from
    BY DEF LengthOffset
  <2>6. NumberAt(bytes, layout.from) = lengths[1]
    BY <2>1, <2>4, <2>5, PartReadBack
  <2> DEFINE first == <<NumberAt(bytes, layout.from)>>
  <2>7. first[1] = lengths[1] /\ Len(first) = 1 /\ first = <<lengths[1]>>
    BY <2>6
  <2>8. LengthsRead(layout, bytes, n) =
          IF Len(layout.parts) = 1 \/ ~PartFits(layout, first, 1, n) THEN first
          ELSE Append(first, NumberAt(bytes, LengthOffset(layout, first, 2)))
    BY <2>3 DEF LengthsRead
  <2> HIDE DEF first
  <2>9. CASE Len(layout.parts) = 1
    <3>1. lengths = <<lengths[1]>>
      BY <2>2, <2>9
    <3>2. LengthsRead(layout, bytes, n) = lengths
      BY <2>7, <2>8, <2>9, <3>1
    <3>3. n >= layout.from + 4 + lengths[1]
      <4>1. LengthOffset(method.layout, lengths, 1) + 4 + lengths[1]
              <= ComputeLength(method.layout, lengths)
        BY <1>1, <2>4, PartsApart
      <4>2. ComputeLength(method.layout, lengths) \in Nat
        BY <1>1, PartsApart
      <4> QED BY <1>2, <2>1, <2>2, <2>4, <2>5, <4>1, <4>2
    <3>4. PartFits(layout, lengths, 1, n)
      BY <1>2, <2>2, <2>4, <2>5, <2>9, <3>3 DEF PartFits, SIZE_OF_INT
    <3>5. Accepted(layout, lengths, n)
      BY <1>2, <2>2, <2>9, <3>4 DEF Accepted
    <3> QED BY <2>1, <3>2, <3>5
  <2>10. CASE Len(layout.parts) = 2
    <3> DEFINE aligned == Align(lengths[1], layout.alignment)
               second == LengthOffset(layout, lengths, 2)
    <3>1. 2 \in DOMAIN lengths /\ lengths[2] \in Nat
      BY <2>2, <2>10
    <3>2. /\ second = layout.from + 4 + aligned /\ aligned \in Nat
          /\ second + 4 + lengths[2] <= ComputeLength(method.layout, lengths)
          /\ ComputeLength(method.layout, lengths) \in Nat
      BY <1>1, <2>1, <3>1, PartsApart
    <3> HIDE DEF aligned, second
    <3> DEFINE start == layout.from
               two == lengths[2]
               total == ComputeLength(method.layout, lengths)
    <3>a. /\ start \in Nat /\ two \in Nat /\ total \in Nat /\ n \in Nat /\ aligned \in Nat
          /\ second = start + 4 + aligned /\ second + 4 + two <= total /\ total <= n
      BY <1>2, <2>2, <3>1, <3>2
    <3> HIDE DEF start, two, total
    <3>b. /\ second \in Nat /\ n >= second + 4 + two /\ aligned + 4 <= n - start - 4
      BY <3>a
    <3>3. n >= second + 4 + lengths[2] /\ second \in Nat
      BY <3>b DEF two
    <3>4. PartFits(layout, lengths, 1, n)
      <4>1. aligned + 4 <= n - layout.from - 4
        BY <3>b DEF start
      <4> QED BY <2>4, <2>5, <2>10, <4>1 DEF PartFits, SIZE_OF_INT, aligned
    <3>5. PartFits(layout, lengths, 2, n)
      <4>1. lengths[2] <= n - second - 4
        BY <1>2, <3>1, <3>3
      <4> QED BY <2>10, <3>1, <4>1 DEF PartFits, SIZE_OF_INT, second
    <3>6. PartFits(layout, first, 1, n)
      BY <2>7, <3>4 DEF PartFits, LengthOffset
    <3>7. LengthOffset(layout, first, 2) = second
      BY <2>7 DEF LengthOffset, second
    <3>8. NumberAt(bytes, second) = lengths[2]
      BY <2>1, <3>1, PartReadBack DEF second
    <3>9. lengths = Append(first, lengths[2])
      BY <2>2, <2>7, <2>10, <3>1
    <3>10. LengthsRead(layout, bytes, n) = lengths
      BY <2>8, <2>10, <3>6, <3>7, <3>8, <3>9
    <3>11. Accepted(layout, lengths, n)
      BY <1>2, <2>2, <2>10, <3>4, <3>5 DEF Accepted
    <3> QED BY <2>1, <3>10, <3>11
  <2> QED BY <2>2, <2>9, <2>10
<1> QED BY <1>3, <1>4

\* The arguments by name: those of fields, the flag and the parts.
LEMMA ArgumentsAre ==
  ASSUME NEW method, Stores(method), NEW lengths \in [DOMAIN method.layout.parts -> Nat],
         NEW revoke
  PROVE  LET given == Arguments(method, lengths, revoke)
             names == {method.stored[f] : f \in Names(method.layout)}
         IN  /\ \A f \in Names(method.layout) :
                  given[method.stored[f]] = FieldValue(method, lengths, f)
             /\ given["revoke"] = Value("revoke", IF revoke THEN 1 ELSE 0)
             /\ \A i \in DOMAIN method.layout.parts :
                  given[method.layout.parts[i]] =
                    IF lengths[i] = 0 THEN Value("empty", 0)
                    ELSE Value(method.layout.parts[i], lengths[i])
             /\ "zero" \in DOMAIN given <=> "zero" \in names
<1> DEFINE names == {method.stored[f] : f \in Names(method.layout)}
           parts == method.layout.parts
           total == ComputeLength(method.layout, lengths)
           number(a) == CHOOSE i \in DOMAIN lengths : parts[i] = a
           first == [a \in names |-> Value(a, IF a = "frame_length" THEN total ELSE 0)]
           second == [revoke |-> Value("revoke", IF revoke THEN 1 ELSE 0)]
           third == [a \in {parts[i] : i \in DOMAIN lengths} |->
                       IF lengths[number(a)] = 0 THEN Value("empty", 0)
                       ELSE Value(a, lengths[number(a)])]
           given == Arguments(method, lengths, revoke)
<1>1. given = (first ++ second) ++ third
  BY DEF Arguments
<1>2. DOMAIN lengths = DOMAIN parts
  OBVIOUS
<1>3. DOMAIN first = names /\ DOMAIN second = {"revoke"} /\ DOMAIN third = {parts[i] : i \in DOMAIN parts}
  BY <1>2
<1>4. /\ "revoke" \notin names
      /\ \A i \in DOMAIN parts : parts[i] \notin names /\ parts[i] # "revoke" /\ parts[i] # "zero"
  BY DEF Stores
<1>5. second["revoke"] = Value("revoke", IF revoke THEN 1 ELSE 0)
  OBVIOUS
<1>6. ASSUME NEW i \in DOMAIN parts
      PROVE  third[parts[i]] = IF lengths[i] = 0 THEN Value("empty", 0) ELSE Value(parts[i], lengths[i])
  <2>1. \A j \in DOMAIN parts : parts[j] = parts[i] => j = i
    <3>1. Sound(method.layout)
      BY DEF Stores
    <3>2. /\ DOMAIN parts = 1 .. Len(parts) /\ Len(parts) \in 0 .. 2
          /\ Len(parts) = 2 => parts[1] # parts[2]
      BY <3>1, PartsOf
    <3> DEFINE count == Len(parts)
    <3>3. SUFFICES ASSUME NEW j \in DOMAIN parts, j # i PROVE parts[j] # parts[i]
      OBVIOUS
    <3>4. count \in 0 .. 2 /\ i \in 1 .. count /\ j \in 1 .. count
      BY <3>2
    <3> HIDE DEF count
    <3>5. count = 2 /\ i \in {1, 2} /\ j \in {1, 2}
      BY <3>3, <3>4
    <3> QED BY <3>2, <3>3, <3>5 DEF count
  <2>2. number(parts[i]) = i
    <3>1. i \in DOMAIN lengths
      BY <1>2
    <3>2. number(parts[i]) \in DOMAIN lengths /\ parts[number(parts[i])] = parts[i]
      BY <3>1
    <3> HIDE DEF number, parts
    <3> QED BY <1>2, <2>1, <3>2
  <2>3. third[parts[i]] = IF lengths[number(parts[i])] = 0 THEN Value("empty", 0)
                          ELSE Value(parts[i], lengths[number(parts[i])])
    <3> HIDE DEF number
    <3> QED BY <1>2
  <2> HIDE DEF number, third
  <2> QED BY <2>2, <2>3
<1>7. \A f \in Names(method.layout) : first[method.stored[f]] = FieldValue(method, lengths, f)
  BY DEF FieldValue
<1> HIDE DEF first, second, third, given
<1> DEFINE both == first ++ second
<1>8. /\ DOMAIN both = names \cup {"revoke"}
      /\ \A a \in names : both[a] = first[a]
      /\ both["revoke"] = second["revoke"]
  BY <1>3, <1>4 DEF ++
<1> HIDE DEF both
<1>9. /\ DOMAIN given = names \cup {"revoke"} \cup {parts[i] : i \in DOMAIN parts}
      /\ \A a \in names \cup {"revoke"} : given[a] = both[a]
      /\ \A i \in DOMAIN parts : given[parts[i]] = third[parts[i]]
  <2>1. given = both ++ third
    BY <1>1 DEF both
  <2>2. \A i \in DOMAIN parts : parts[i] \in DOMAIN third /\ parts[i] \notin DOMAIN both
    BY <1>3, <1>4, <1>8
  <2> HIDE DEF names, parts
  <2> QED BY <1>3, <1>8, <2>1, <2>2 DEF ++
<1>10. \A f \in Names(method.layout) : given[method.stored[f]] = FieldValue(method, lengths, f)
  BY <1>7, <1>8, <1>9
<1>11. given["revoke"] = Value("revoke", IF revoke THEN 1 ELSE 0)
  BY <1>5, <1>8, <1>9
<1>12. "zero" \in DOMAIN given <=> "zero" \in names
  BY <1>4, <1>9
<1>13. \A i \in DOMAIN parts :
         given[parts[i]] = IF lengths[i] = 0 THEN Value("empty", 0) ELSE Value(parts[i], lengths[i])
  BY <1>6, <1>9
<1> QED BY <1>10, <1>11, <1>12, <1>13 DEF given

\* Where a parameter is: in a field of the method, or in a part.
LEMMA ExtentOfField ==
  ASSUME NEW method, Stores(method), NEW case, Delivers(method, case), NEW lengths,
         NEW name \in Names(case.layout)
  PROVE  \E f \in case.layout.fields :
           /\ f \in method.layout.fields /\ f.name = name
           /\ Extent(case.layout, lengths, name) = <<f.offset, f.size>>
<1>1. PartNumber(case.layout, name) = {}
  <2>1. CASE case.layout = method.layout
    <3>1. \A i \in DOMAIN case.layout.parts : case.layout.parts[i] \notin Names(case.layout)
      BY <2>1, PartsOf DEF Stores
    <3> QED BY <3>1 DEF PartNumber
  <2>2. CASE case.layout.parts = <<>>
    BY <2>2 DEF PartNumber
  <2> QED BY <2>1, <2>2 DEF Delivers
<1> DEFINE f == FieldOf(case.layout, name)
<1>2. \E g \in case.layout.fields : g.name = name
  BY DEF Names
<1>3. f \in case.layout.fields /\ f.name = name
  BY <1>2 DEF FieldOf
<1>4. f \in method.layout.fields
  BY <1>3 DEF Delivers
<1>5. Extent(case.layout, lengths, name) = <<f.offset, f.size>>
  BY <1>1 DEF Extent
<1> QED BY <1>3, <1>4, <1>5

\* A handler gets the arguments of the method.
LEMMA HandlerSees ==
  ASSUME NEW method, Stores(method), NEW case, Delivers(method, case),
         NEW lengths \in [DOMAIN method.layout.parts -> Nat], NEW revoke \in BOOLEAN,
         NEW bytes, Written(bytes, method, lengths, revoke),
         NEW n, n = MessageLength(method, lengths),
         NEW got, got = HandlerArguments(method.type, case, Known(case.layout, lengths), bytes, n),
         NEW given, given = Arguments(method, lengths, revoke),
         NEW p \in DOMAIN got
  PROVE  got[p] = IF p = "address" /\ "zero" \in DOMAIN given THEN Zero.value ELSE given[p]
<1> DEFINE known == Known(case.layout, lengths)
           names == {method.stored[f] : f \in Names(method.layout)}
           parameters == [q \in DOMAIN case.read |->
                            LET e == Extent(case.layout, known, case.read[q])
                            IN  Get(bytes, e[1], e[2])]
           flag == IF RemovesPublication(method.type) THEN [revoke |-> Revoke(bytes, n)]
                   ELSE [a \in {} |-> None]
<1>1. got = parameters ++ flag
  BY DEF HandlerArguments
<1>2. /\ \A f \in Names(method.layout) :
           given[method.stored[f]] = FieldValue(method, lengths, f)
      /\ given["revoke"] = Value("revoke", IF revoke THEN 1 ELSE 0)
      /\ \A i \in DOMAIN method.layout.parts :
           given[method.layout.parts[i]] =
             IF lengths[i] = 0 THEN Value("empty", 0)
             ELSE Value(method.layout.parts[i], lengths[i])
      /\ "zero" \in DOMAIN given <=> "zero" \in names
  BY ArgumentsAre
<1>3. CASE p \in DOMAIN case.read
  <2> DEFINE name == case.read[p]
             e == Extent(case.layout, known, name)
  <2>1. got[p] = Get(bytes, e[1], e[2])
    <3>1. p \in DOMAIN parameters /\ parameters[p] = Get(bytes, e[1], e[2])
      BY <1>3
    <3> HIDE DEF parameters, flag, e
    <3> QED BY <1>1, <3>1 DEF ++
  <2>2. CASE name \in Names(case.layout) /\ method.stored[name] = Wanted(method, p)
    <3>1. PICK f \in case.layout.fields :
            /\ f \in method.layout.fields /\ f.name = name
            /\ Extent(case.layout, known, name) = <<f.offset, f.size>>
      BY <2>2, ExtentOfField
    <3>2. Get(bytes, f.offset, f.size) = FieldValue(method, lengths, f.name)
      BY <3>1, FieldReadBack
    <3>3. got[p] = FieldValue(method, lengths, name)
      BY <2>1, <3>1, <3>2
    <3>4. name \in Names(method.layout)
      BY <3>1 DEF Names
    <3>5. CASE p = "address" /\ "zero" \in names
      <4>1. method.stored[name] = "zero"
        BY <2>2, <3>5 DEF Wanted
      <4>2. FieldValue(method, lengths, name) = Value("zero", 0)
        BY <4>1 DEF FieldValue
      <4> QED BY <1>2, <3>3, <3>5, <4>2, ZeroFacts
    <3>6. CASE ~(p = "address" /\ "zero" \in names)
      <4>1. method.stored[name] = p
        BY <2>2, <3>6 DEF Wanted
      <4>2. given[p] = FieldValue(method, lengths, name)
        BY <1>2, <3>4, <4>1
      <4> QED BY <1>2, <3>3, <3>6, <4>2
    <3> QED BY <3>5, <3>6
  <2>3. CASE /\ name = p /\ p # "address"
             /\ \E i \in DOMAIN case.layout.parts : case.layout.parts[i] = p
    <3>1. case.layout = method.layout /\ case.layout.parts # <<>> /\ known = lengths
      BY <2>3 DEF Delivers, Known
    <3>2. PartNumber(method.layout, p) # {}
      BY <2>3, <3>1 DEF PartNumber
    <3> DEFINE i == CHOOSE i \in PartNumber(method.layout, p) : TRUE
    <3>3. i \in DOMAIN method.layout.parts /\ method.layout.parts[i] = p
      <4>1. i \in PartNumber(method.layout, p)
        BY <3>2
      <4> HIDE DEF i
      <4> QED BY <4>1 DEF PartNumber
    <3>4. e = <<LengthOffset(method.layout, lengths, i) + SIZE_OF_INT, lengths[i]>>
      BY <2>3, <3>1, <3>2 DEF Extent
    <3> HIDE DEF i, e
    <3>5. i \in DOMAIN lengths
      BY <3>3
    <3>6. Get(bytes, LengthOffset(method.layout, lengths, i) + SIZE_OF_INT, lengths[i]) =
            IF lengths[i] = 0 THEN Value("empty", 0)
            ELSE Value(method.layout.parts[i], lengths[i])
      BY <3>5, PartReadBack
    <3>7. got[p] = given[p]
      BY <1>2, <2>1, <3>3, <3>4, <3>6
    <3> QED BY <2>3, <3>7
  <2> QED BY <1>3, <2>2, <2>3 DEF Delivers
<1>4. CASE p \notin DOMAIN case.read
  <2>1. DOMAIN parameters = DOMAIN case.read
    OBVIOUS
  <2>2. p \in DOMAIN flag /\ got[p] = flag[p]
    <3> HIDE DEF parameters, flag
    <3> QED BY <1>1, <1>4, <2>1 DEF ++
  <2>3. RemovesPublication(method.type) /\ p = "revoke" /\ flag[p] = Revoke(bytes, n)
    BY <2>2
  <2>4. n = 32
    BY <2>3, LengthEnough
  <2>5. PICK flags \in Nat, arg \in {"flags", "old"} : \A k \in 0 .. 7 :
          bytes[24 + k] = Byte(Value(arg, SetRevoke(flags, revoke)), k)
    BY <2>3 DEF Written, REMOVE_PUBLICATION_LEGACY_LENGTH
  <2>6. Get(bytes, 24, 8) = Value(arg, SetRevoke(flags, revoke))
    <3>1. DOMAIN bytes = 0 .. 31
      BY <2>4 DEF Written
    <3>2. StoredAt(bytes, 24, 8, Value(arg, SetRevoke(flags, revoke)))
      BY <2>5, <3>1 DEF StoredAt
    <3> QED BY <3>2, GetStored
  <2>7. SetRevoke(flags, revoke) % 2 = IF revoke THEN 1 ELSE 0
    BY DEF SetRevoke
  <2>8. Revoke(bytes, n) = Value("revoke", IF revoke THEN 1 ELSE 0)
    BY <2>4, <2>6, <2>7, ValueOf
       DEF Revoke, REMOVE_PUBLICATION_LENGTH, REMOVE_PUBLICATION_LEGACY_LENGTH
  <2> QED BY <1>2, <2>2, <2>3, <2>8
<1> QED BY <1>3, <1>4


-----------------------------------------------------------------------------
(* What is looked at.                                                       *)

\* A case is right for messages of any content: its fields are within the least
\* length, and each parameter is a field or a part.
Readable(case) ==
  /\ case.layout.from \in Nat /\ case.layout.minimum \in Nat
  /\ case.layout.alignment \in {1, SIZE_OF_INT}
  /\ Len(case.layout.parts) \in 0 .. 2
  /\ DOMAIN case.layout.parts = 1 .. Len(case.layout.parts)
  /\ case.layout.parts # <<>> => case.layout.from + SIZE_OF_INT <= case.layout.minimum
  /\ \A f \in case.layout.fields :
       f.offset \in Nat /\ f.size \in Nat /\ f.offset + f.size <= case.layout.minimum
  /\ \A p \in DOMAIN case.read :
       \/ case.read[p] \in Names(case.layout)
       \/ \E i \in DOMAIN case.layout.parts : case.layout.parts[i] = case.read[p]
  /\ "old" \notin Names(case.layout)

\* A sound layout is right for that.
LEMMA SoundReadable ==
  ASSUME NEW case, Sound(case.layout), "old" \notin Names(case.layout),
         \A p \in DOMAIN case.read :
           \/ case.read[p] \in Names(case.layout)
           \/ \E i \in DOMAIN case.layout.parts : case.layout.parts[i] = case.read[p]
  PROVE  Readable(case)
<1> DEFINE layout == case.layout
<1>1. /\ layout.from \in Nat /\ layout.minimum \in Nat /\ layout.minimum >= layout.from
      /\ Len(layout.parts) \in 0 .. 2 /\ DOMAIN layout.parts = 1 .. Len(layout.parts)
      /\ layout.parts = <<>> <=> Len(layout.parts) = 0
      /\ Len(layout.parts) = 1 => layout.minimum = layout.from + 4
      /\ Len(layout.parts) = 2 => layout.minimum \in layout.from + 4 .. layout.from + 8
      /\ layout.alignment \in {1, SIZE_OF_INT}
  BY PartsOf
<1>2. layout.parts # <<>> => layout.from + SIZE_OF_INT <= layout.minimum
  BY <1>1 DEF SIZE_OF_INT
<1>3. \A f \in layout.fields :
        f.offset \in Nat /\ f.size \in Nat /\ f.offset + f.size <= layout.minimum
  <2>1. TAKE f \in layout.fields
  <2>2. f.offset \in Nat /\ f.size \in Nat /\ f.offset + f.size <= layout.from
    BY DEF Sound, Tiled
  <2> HIDE DEF layout
  <2> QED BY <1>1, <2>2
<1> QED BY <1>1, <1>2, <1>3 DEF Readable

\* The largest of some numbers that are not larger than n.
LEMMA LargestOf ==
  ASSUME NEW n \in Nat, NEW S, S \subseteq 0 .. n, S # {}
  PROVE  Max(S) \in S
<1> DEFINE D == {k \in Nat : n - k \in S}
<1>1. D \in SUBSET Nat /\ D # {}
  <2>1. PICK x \in S : TRUE
    OBVIOUS
  <2>2. n - x \in Nat /\ n - (n - x) = x
    BY <2>1
  <2> QED BY <2>1, <2>2
<1> HIDE DEF D
<1>2. PICK k \in D : \A j \in D : ~ (<< j, k >> \in OpToRel(<, Nat))
  BY <1>1, NatLessThanWellFounded, WFMin
<1>3. k \in Nat /\ n - k \in S
  BY <1>2 DEF D
<1>4. \A y \in S : n - k >= y
  <2>1. SUFFICES ASSUME NEW y \in S, n - k < y PROVE FALSE
    BY <1>3
  <2>2. n - y \in Nat /\ n - (n - y) = y /\ n - y < k
    BY <1>3, <2>1
  <2>3. n - y \in D
    BY <2>2 DEF D
  <2>4. << n - y, k >> \in OpToRel(<, Nat)
    BY <1>3, <2>2 DEF OpToRel
  <2> QED BY <1>2, <2>3, <2>4
<1>5. \E x \in S : \A y \in S : x >= y
  BY <1>3, <1>4
<1> QED BY <1>5 DEF Max

\* Two lengths, one after the other.
LEMMA TwoLengths ==
  ASSUME NEW a \in Int, NEW b \in Int, NEW lengths, lengths = Append(<<a>>, b)
  PROVE  Len(lengths) = 2 /\ DOMAIN lengths = {1, 2} /\ lengths[1] = a /\ lengths[2] = b
<1>1. <<a>> \in Seq(Int)
  OBVIOUS
<1>2. lengths = <<a>> \o <<b>>
  BY <1>1, AppendIsConcat
<1> QED BY <1>2

\* The length fields that are read are within the message.
LEMMA LengthsWithin ==
  ASSUME NEW case, Readable(case), NEW n \in Nat, NEW bytes,
         \A i \in DOMAIN bytes : bytes[i].value.num \in Int,
         NEW lengths, lengths = LengthsRead(case.layout, bytes, n)
  PROVE  /\ Len(lengths) \in 0 .. 2 /\ DOMAIN lengths = 1 .. Len(lengths)
         /\ \A i \in DOMAIN lengths : lengths[i] \in Int
         /\ \A i \in DOMAIN lengths :
              /\ LengthOffset(case.layout, lengths, i) \in Nat
              /\ LengthOffset(case.layout, lengths, i) + 4 <= n
<1> DEFINE layout == case.layout
           first == <<NumberAt(bytes, layout.from)>>
           aligned == Align(first[1], layout.alignment)
           second == LengthOffset(layout, first, 2)
           later == NumberAt(bytes, second)
<1>1. /\ layout.from \in Nat /\ layout.minimum \in Nat
      /\ layout.alignment \in {1, SIZE_OF_INT}
      /\ Len(layout.parts) \in 0 .. 2
      /\ layout.parts # <<>> => layout.from + 4 <= layout.minimum
  BY DEF Readable, SIZE_OF_INT
<1>2. CASE n < layout.minimum \/ layout.parts = <<>>
  <2>1. lengths = <<>>
    BY <1>2 DEF LengthsRead
  <2> QED BY <2>1
<1>3. CASE ~(n < layout.minimum \/ layout.parts = <<>>)
  <2>1. lengths = IF Len(layout.parts) = 1 \/ ~PartFits(layout, first, 1, n) THEN first
                  ELSE Append(first, later)
    BY <1>3 DEF LengthsRead
  <2>2. layout.from + 4 <= n
    <3> HIDE DEF layout
    <3> QED BY <1>1, <1>3
  <2>3. first[1] \in Int /\ Len(first) = 1 /\ DOMAIN first = {1}
    <3>1. NumberAt(bytes, layout.from) \in Int
      BY <1>1, GetNumber DEF NumberAt, SIZE_OF_INT
    <3> QED BY <3>1
  <2>4. \A any : LengthOffset(layout, any, 1) = layout.from
    BY DEF LengthOffset
  <2>5. CASE Len(layout.parts) = 1 \/ ~PartFits(layout, first, 1, n)
    <3>1. lengths = first
      BY <2>1, <2>5
    <3> HIDE DEF first, layout
    <3>2. LengthOffset(layout, lengths, 1) \in Nat /\ LengthOffset(layout, lengths, 1) + 4 <= n
      BY <1>1, <2>2, <2>4
    <3>3. Len(lengths) = 1 /\ DOMAIN lengths = {1} /\ lengths[1] \in Int
      BY <2>3, <3>1
    <3>4. \A i \in DOMAIN lengths :
            LengthOffset(layout, lengths, i) \in Nat /\ LengthOffset(layout, lengths, i) + 4 <= n
      BY <3>2, <3>3
    <3> QED BY <3>3, <3>4 DEF layout
  <2>6. CASE Len(layout.parts) # 1 /\ PartFits(layout, first, 1, n)
    <3>1. Len(layout.parts) = 2
      <4>1. Len(layout.parts) # 0
        BY <1>1, <1>3
      <4> QED BY <1>1, <2>6, <4>1
    <3>2. first[1] >= 0 /\ aligned + 4 <= n - layout.from - 4
      BY <2>4, <2>6, <3>1 DEF PartFits, SIZE_OF_INT
    <3>3. second = layout.from + 4 + aligned
      BY DEF LengthOffset, SIZE_OF_INT
    <3>4. aligned \in Nat
      <4>1. first[1] \in Nat
        <5> HIDE DEF first
        <5> QED BY <2>3, <3>2
      <4> HIDE DEF first, layout
      <4> QED BY <1>1, <4>1, AlignUp
    <3>5. second \in Nat /\ second + 4 <= n
      <4> DEFINE start == layout.from
      <4>1. start \in Nat /\ aligned \in Nat /\ second = start + 4 + aligned
            /\ aligned + 4 <= n - start - 4
        BY <1>1, <3>2, <3>3, <3>4
      <4> HIDE DEF start, aligned, second
      <4> QED BY <4>1
    <3>6. later \in Int
      <4> HIDE DEF second
      <4> QED BY <3>5, GetNumber DEF NumberAt, SIZE_OF_INT
    <3>7. lengths = Append(first, later)
      BY <2>1, <2>6
    <3>9. Len(lengths) = 2 /\ DOMAIN lengths = {1, 2} /\ lengths[1] = first[1] /\ lengths[2] = later
      <4> DEFINE number == NumberAt(bytes, layout.from)
      <4>1. first = <<number>> /\ first[1] = number
        OBVIOUS
      <4>2. number \in Int
        BY <2>3, <4>1
      <4> HIDE DEF number, first, later
      <4> QED BY <3>6, <3>7, <4>1, <4>2, TwoLengths
    <3>10. LengthOffset(layout, lengths, 2) = second
      BY <3>9 DEF LengthOffset
    <3> HIDE DEF first, later, second, layout
    <3>11. LengthOffset(layout, lengths, 1) \in Nat /\ LengthOffset(layout, lengths, 1) + 4 <= n
      BY <1>1, <2>2, <2>4
    <3> QED BY <2>3, <3>5, <3>6, <3>9, <3>10, <3>11 DEF layout
  <2> QED BY <2>5, <2>6
<1> QED BY <1>2, <1>3

\* Nothing is looked at behind the end of a message, whatever is in it.
LEMMA LooksInside ==
  ASSUME NEW case, Readable(case), NEW n \in Nat, NEW bytes,
         \A i \in DOMAIN bytes : bytes[i].value.num \in Int,
         NEW lengths, lengths = LengthsRead(case.layout, bytes, n),
         NEW accepted \in BOOLEAN, accepted => Accepted(case.layout, lengths, n), NEW type
  PROVE  ReadUpTo(type, case, lengths, n, accepted) <= n
<1> DEFINE layout == case.layout
           fields == {LengthOffset(layout, lengths, i) + SIZE_OF_INT : i \in DOMAIN lengths}
           end(p) == LET e == Extent(case.layout, lengths, case.read[p]) IN e[1] + e[2]
           read == IF accepted
                   THEN {end(p) : p \in DOMAIN case.read}
                   ELSE {}
           flags == IF RemovesPublication(type) /\ n >= REMOVE_PUBLICATION_LENGTH
                    THEN {REMOVE_PUBLICATION_LENGTH} ELSE {}
           header == IF Frames THEN HeaderRead(n) ELSE {}
           S == {0} \cup fields \cup read \cup flags \cup header
<1>1. /\ Len(lengths) \in 0 .. 2 /\ DOMAIN lengths = 1 .. Len(lengths)
      /\ \A i \in DOMAIN lengths : lengths[i] \in Int
      /\ \A i \in DOMAIN lengths :
           /\ LengthOffset(layout, lengths, i) \in Nat
           /\ LengthOffset(layout, lengths, i) + 4 <= n
  BY LengthsWithin
<1>2. fields \subseteq 0 .. n
  BY <1>1 DEF SIZE_OF_INT
<1>3. flags \subseteq 0 .. n
  BY DEF REMOVE_PUBLICATION_LENGTH
<1>4. header \subseteq 0 .. n
  BY DEF HeaderRead, HEADER_LENGTH
<1>5. ASSUME accepted PROVE read \subseteq 0 .. n
  <2>1. /\ n >= layout.minimum
        /\ Len(lengths) = Len(layout.parts)
        /\ \A i \in DOMAIN lengths : PartFits(layout, lengths, i, n)
    BY <1>5 DEF Accepted
  <2>2. ASSUME NEW p \in DOMAIN case.read
        PROVE  end(p) \in 0 .. n
    <3> DEFINE name == case.read[p]
               e == Extent(layout, lengths, name)
    <3>1. CASE PartNumber(layout, name) = {}
      <4>1. name \in Names(layout)
        BY <3>1 DEF Readable, PartNumber
      <4> DEFINE f == FieldOf(layout, name)
      <4>2. \E g \in layout.fields : g.name = name
        BY <4>1 DEF Names
      <4>3. f \in layout.fields
        BY <4>2 DEF FieldOf
      <4>4. e = <<f.offset, f.size>>
        BY <3>1 DEF Extent
      <4>5. /\ f.offset \in Nat /\ f.size \in Nat /\ f.offset + f.size <= layout.minimum
            /\ layout.minimum \in Nat
        BY <4>3 DEF Readable
      <4>6. e[1] = f.offset /\ e[2] = f.size
        <5> HIDE DEF f, e
        <5> QED BY <4>4
      <4> HIDE DEF f, e, layout
      <4>7. e[1] + e[2] \in 0 .. n
        BY <2>1, <4>5, <4>6
      <4> QED BY <4>7 DEF e, layout
    <3>2. CASE PartNumber(layout, name) # {}
      <4> DEFINE i == CHOOSE i \in PartNumber(layout, name) : TRUE
                 at == LengthOffset(layout, lengths, i)
                 l == lengths[i]
                 aligned == Align(l, layout.alignment)
      <4>1. i \in PartNumber(layout, name)
        BY <3>2
      <4>2. e = <<at + 4, l>>
        BY <3>2 DEF Extent, SIZE_OF_INT
      <4> HIDE DEF i
      <4>3. i \in DOMAIN lengths
        BY <1>1, <2>1, <4>1 DEF PartNumber, Readable
      <4>4. at \in Nat /\ at + 4 <= n /\ l \in Int
        BY <1>1, <4>3
      <4>5. /\ l >= 0
            /\ \/ aligned + 4 <= n - at - 4
               \/ l <= n - at - 4
        BY <2>1, <4>3 DEF PartFits, SIZE_OF_INT
      <4>6. aligned \in Nat /\ aligned >= l
        <5>1. l \in Nat /\ layout.alignment \in {1, SIZE_OF_INT}
          BY <4>4, <4>5 DEF Readable
        <5> HIDE DEF l, layout
        <5> QED BY <5>1, AlignUp
      <4>7. e[1] = at + 4 /\ e[2] = l
        <5> HIDE DEF e, at, l
        <5> QED BY <4>2
      <4> HIDE DEF e, at, l, aligned
      <4>8. e[1] + e[2] \in 0 .. n
        BY <4>4, <4>5, <4>6, <4>7
      <4> QED BY <4>8 DEF e
    <3> QED BY <3>1, <3>2
  <2> HIDE DEF end
  <2> QED BY <1>5, <2>2
<1>6. ASSUME ~accepted PROVE read \subseteq 0 .. n
  BY <1>6
<1>7. read \subseteq 0 .. n
  <2> HIDE DEF read
  <2> QED BY <1>5, <1>6
<1>8. ReadUpTo(type, case, lengths, n, accepted) = Max(S)
  BY DEF ReadUpTo
<1> HIDE DEF fields, read, flags, header
<1>9. S \subseteq 0 .. n /\ S # {}
  BY <1>2, <1>3, <1>4, <1>7
<1> HIDE DEF S
<1>10. Max(S) \in 0 .. n
  BY <1>9, LargestOf
<1> DEFINE upto == ReadUpTo(type, case, lengths, n, accepted)
<1>11. upto \in 0 .. n
  BY <1>8, <1>10
<1> HIDE DEF upto
<1>12. upto <= n
  BY <1>11
<1> QED BY <1>12 DEF upto

-----------------------------------------------------------------------------
(* Methods and the cases for their messages.                                *)

\* The argument that is stored in a field.
Source(stored, f) == IF f \in DOMAIN stored THEN stored[f] ELSE f

\* Each parameter is read from the field, or the part, that its argument is stored in.
Matches(names, parts, stored, read) ==
  /\ \A f \in names : Source(stored, f) \notin {"old", "revoke"} \cup parts
  /\ parts \cap {"old", "revoke", "zero"} = {} /\ "old" \notin names
  /\ \A p \in DOMAIN read :
       \/ /\ read[p] \in names
          /\ Source(stored, read[p]) =
               IF p = "address" /\ \E f \in names : Source(stored, f) = "zero" THEN "zero" ELSE p
       \/ read[p] = p /\ p # "address" /\ p \in parts

\* The layout, and the names of its parts.
HasParts(layout, names, parts, named) ==
  LayoutIs(layout, names, parts) /\ named = {parts[i] : i \in DOMAIN parts}

\* No argument has the name of a part, or one that is taken.
NamesApart(method) ==
  /\ Sound(method.layout)
  /\ \A f \in Names(method.layout) : method.stored[f] \notin {"old", "revoke"}
  /\ \A i \in DOMAIN method.layout.parts :
       /\ method.layout.parts[i] \notin {"old", "revoke", "zero"}
       /\ \A f \in Names(method.layout) : method.stored[f] # method.layout.parts[i]

\* What a method writes is what a case reads, and the case is right for other messages.
Fits(method, case) == Stores(method) /\ Delivers(method, case) /\ Readable(case)

\* The fields of a method.
LEMMA MethodIs ==
  ASSUME NEW type, NEW layout, NEW stored
  PROVE  LET method == Method(type, layout, stored)
         IN  /\ method.type = type /\ method.layout = layout
             /\ \A f \in Names(layout) : method.stored[f] = Source(stored, f)
BY DEF Method, Source

\* The fields of a case.
LEMMA CaseIs ==
  ASSUME NEW layout, NEW read, NEW correlated
  PROVE  Case(layout, read, correlated).layout = layout /\ Case(layout, read, correlated).read = read
BY DEF Case

\* A method and a case that use the same layout.
LEMMA SameLayoutFits ==
  ASSUME NEW type, NEW layout, NEW stored, NEW read, NEW correlated, NEW names, NEW parts,
         NEW named, HasParts(layout, names, parts, named),
         Matches(names, named, stored, read),
         NEW method, method = Method(type, layout, stored), NEW case, case = Case(layout, read, correlated)
  PROVE  Delivers(method, case) /\ Readable(case) /\ NamesApart(method)
<1>1. /\ method.layout = layout /\ method.type = type
      /\ \A f \in Names(layout) : method.stored[f] = Source(stored, f)
  BY MethodIs
<1>2. case.layout = layout /\ case.read = read
  BY CaseIs
<1>3. Sound(layout) /\ Names(layout) = names /\ layout.parts = parts
  BY DEF HasParts, LayoutIs
<1>4. \A i \in DOMAIN parts : parts[i] \in named
  BY DEF HasParts
<1>5. \A a \in named : \E i \in DOMAIN parts : parts[i] = a
  BY DEF HasParts
<1>6. /\ \A f \in names : Source(stored, f) \notin {"old", "revoke"} \cup named
      /\ named \cap {"old", "revoke", "zero"} = {} /\ "old" \notin names
  BY DEF Matches
<1>7. \A p \in DOMAIN read :
        \/ /\ read[p] \in names
           /\ Source(stored, read[p]) =
                IF p = "address" /\ \E f \in names : Source(stored, f) = "zero" THEN "zero" ELSE p
        \/ read[p] = p /\ p # "address" /\ p \in named
  BY DEF Matches
<1>8. \A p : Wanted(method, p) =
        IF p = "address" /\ \E f \in names : Source(stored, f) = "zero" THEN "zero" ELSE p
  BY <1>1, <1>3 DEF Wanted
<1>9. Delivers(method, case)
  BY <1>1, <1>2, <1>3, <1>5, <1>7, <1>8 DEF Delivers
<1>10. Readable(case)
  BY <1>2, <1>3, <1>5, <1>6, <1>7, SoundReadable
<1> QED BY <1>1, <1>3, <1>4, <1>6, <1>9, <1>10 DEF NamesApart

\* Commands and events.
LEMMA MessageFits ==
  ASSUME ~Frames,
         NEW type, NEW layout, NEW stored, NEW read, NEW correlated, NEW names, NEW parts,
         NEW named, HasParts(layout, names, parts, named),
         Matches(names, named, stored, read),
         \A f \in names : Source(stored, f) # "frame_length",
         type = "REMOVE_PUBLICATION" => layout.from = 24 /\ parts = <<>>
  PROVE  Fits(Method(type, layout, stored), Case(layout, read, correlated))
<1> DEFINE method == Method(type, layout, stored)
           case == Case(layout, read, correlated)
<1>1. /\ method.layout = layout /\ method.type = type
      /\ \A f \in Names(layout) : method.stored[f] = Source(stored, f)
  BY MethodIs
<1>2. Names(layout) = names /\ layout.parts = parts
  BY DEF HasParts, LayoutIs
<1>a. method = Method(type, layout, stored) /\ case = Case(layout, read, correlated)
  OBVIOUS
<1> HIDE DEF method, case
<1>3. Delivers(method, case) /\ Readable(case) /\ NamesApart(method)
  BY <1>a, SameLayoutFits
<1>4. Stores(method)
  BY <1>1, <1>2, <1>3 DEF Stores, NamesApart, RemovesPublication, REMOVE_PUBLICATION_LEGACY_LENGTH
<1> QED BY <1>3, <1>4 DEF Fits, method, case

\* The length of a frame is stored in its first word, and its version is 0.
FrameArguments(names, stored) ==
  /\ \A f \in names : Source(stored, f) = "frame_length" <=> f = "frame_length"
  /\ Source(stored, "version") = "zero"

\* A frame has a header, and that with an error has room for its message.
FrameLayout(layout) ==
  /\ HeaderFlyweight \subseteq layout.fields
  /\ layout.minimum >= 8
  /\ layout.parts # <<>> => layout.minimum = 40

\* Frames.
LEMMA FrameStores ==
  ASSUME Frames,
         NEW type, NEW layout, NEW stored, NEW names, NEW parts,
         NEW named, HasParts(layout, names, parts, named),
         NEW read, Matches(names, named, stored, read),
         FrameArguments(names, stored), FrameLayout(layout),
         type # "REMOVE_PUBLICATION", NEW correlated
  PROVE  /\ Stores(Method(type, layout, stored))
         /\ Fits(Method(type, layout, stored), Case(layout, read, correlated))
<1> DEFINE method == Method(type, layout, stored)
           case == Case(layout, read, correlated)
<1>1. /\ method.layout = layout /\ method.type = type
      /\ \A f \in Names(layout) : method.stored[f] = Source(stored, f)
  BY MethodIs
<1>2. Names(layout) = names /\ layout.parts = parts
  BY DEF HasParts, LayoutIs
<1>a. method = Method(type, layout, stored) /\ case = Case(layout, read, correlated)
  OBVIOUS
<1> HIDE DEF method, case
<1>3. Delivers(method, case) /\ Readable(case) /\ NamesApart(method)
  BY <1>a, SameLayoutFits
<1>4. I32("frame_length", 0) \in layout.fields /\ U8("version", 4) \in layout.fields
  BY DEF FrameLayout, HeaderFlyweight
<1>5. "version" \in Names(layout)
  <2>1. U8("version", 4).name = "version"
    BY DEF U8
  <2> QED BY <1>4, <2>1 DEF Names
<1>6. Stores(method)
  BY <1>1, <1>2, <1>3, <1>4, <1>5
     DEF Stores, NamesApart, RemovesPublication, HEADER_LENGTH, FrameArguments, FrameLayout
<1> QED BY <1>3, <1>6 DEF Fits, method, case

\* The names of no, one and two parts.
LEMMA NoNames ==
  ASSUME NEW layout, NEW names, LayoutIs(layout, names, <<>>)
  PROVE  HasParts(layout, names, <<>>, {})
BY DEF HasParts

\* One part.
LEMMA OneName ==
  ASSUME NEW layout, NEW names, NEW a, LayoutIs(layout, names, <<a>>)
  PROVE  HasParts(layout, names, <<a>>, {a})
BY DEF HasParts

\* Two parts.
LEMMA TwoNames ==
  ASSUME NEW layout, NEW names, NEW a, NEW b, LayoutIs(layout, names, <<a, b>>)
  PROVE  HasParts(layout, names, <<a, b>>, {a, b})
<1>1. {<<a, b>>[i] : i \in DOMAIN <<a, b>>} = {a, b}
  <2> DEFINE s == <<a, b>>
  <2>1. DOMAIN s = {1, 2} /\ s[1] = a /\ s[2] = b
    OBVIOUS
  <2> HIDE DEF s
  <2>2. {s[i] : i \in DOMAIN s} = {a, b}
    BY <2>1
  <2> QED BY <2>2 DEF s
<1> QED BY <1>1 DEF HasParts

\* What is written is what is read: ADD_PUBLICATION.
LEMMA AddPublicationFits ==
  ASSUME ~Frames
  PROVE  Fits(Method("ADD_PUBLICATION", PublicationMessageFlyweight, AsNamed),
              PublicationCases["ADD_PUBLICATION"])
<1> DEFINE names == {"client_id", "correlation_id", "stream_id"}
           read == Same({"channel", "stream_id", "correlation_id", "client_id"})
<1>1. PublicationCases["ADD_PUBLICATION"] = Case(PublicationMessageFlyweight, read, TRUE)
  BY DEF PublicationCases
<1>2. HasParts(PublicationMessageFlyweight, names, <<"channel">>, {"channel"})
  BY PublicationLayout, OneName
<1>3. Matches(names, {"channel"}, AsNamed, read)
  BY DEF Matches, Source, AsNamed, Same
<1>4. \A f \in names : Source(AsNamed, f) # "frame_length"
  BY DEF Source, AsNamed
<1> HIDE DEF read, names
<1> QED BY <1>1, <1>2, <1>3, <1>4, MessageFits

\* What is written is what is read: ADD_EXCLUSIVE_PUBLICATION.
LEMMA AddExclusivePublicationFits ==
  ASSUME ~Frames
  PROVE  Fits(Method("ADD_EXCLUSIVE_PUBLICATION", PublicationMessageFlyweight, AsNamed),
              PublicationCases["ADD_EXCLUSIVE_PUBLICATION"])
<1> DEFINE names == {"client_id", "correlation_id", "stream_id"}
           read == Same({"channel", "stream_id", "correlation_id", "client_id"})
<1>1. PublicationCases["ADD_EXCLUSIVE_PUBLICATION"] = Case(PublicationMessageFlyweight, read, TRUE)
  BY DEF PublicationCases
<1>2. HasParts(PublicationMessageFlyweight, names, <<"channel">>, {"channel"})
  BY PublicationLayout, OneName
<1>3. Matches(names, {"channel"}, AsNamed, read)
  BY DEF Matches, Source, AsNamed, Same
<1>4. \A f \in names : Source(AsNamed, f) # "frame_length"
  BY DEF Source, AsNamed
<1> HIDE DEF read, names
<1> QED BY <1>1, <1>2, <1>3, <1>4, MessageFits

\* What is written is what is read: REMOVE_PUBLICATION.
LEMMA RemovePublicationFits ==
  ASSUME ~Frames
  PROVE  Fits(Method("REMOVE_PUBLICATION", RemovePublicationFlyweight, AsNamed),
              PublicationCases["REMOVE_PUBLICATION"])
<1> DEFINE names == {"client_id", "correlation_id", "registration_id"}
           read == Same({"registration_id", "correlation_id"})
<1>1. PublicationCases["REMOVE_PUBLICATION"] = Case(RemovePublicationFlyweight, read, TRUE)
  BY DEF PublicationCases
<1>2. HasParts(RemovePublicationFlyweight, names, <<>>, {})
  BY RemovePublicationLayout, NoNames
<1>3. Matches(names, {}, AsNamed, read)
  BY DEF Matches, Source, AsNamed, Same
<1>4. \A f \in names : Source(AsNamed, f) # "frame_length"
  BY DEF Source, AsNamed
<1>5. RemovePublicationFlyweight.from = 24
  BY DEF RemovePublicationFlyweight, Fixed, REMOVE_PUBLICATION_LEGACY_LENGTH
<1> HIDE DEF read, names
<1> QED BY <1>1, <1>2, <1>3, <1>4, <1>5, MessageFits

\* What is written is what is read: ADD_SUBSCRIPTION.
LEMMA AddSubscriptionFits ==
  ASSUME ~Frames
  PROVE  Fits(Method("ADD_SUBSCRIPTION", SubscriptionMessageFlyweight, [registration_correlation_id |-> "null"]),
              SubscriptionCases["ADD_SUBSCRIPTION"])
<1> DEFINE names == {"client_id", "correlation_id", "registration_correlation_id", "stream_id"}
           read == Same({"channel", "stream_id", "correlation_id", "client_id"})
<1>1. SubscriptionCases["ADD_SUBSCRIPTION"] = Case(SubscriptionMessageFlyweight, read, TRUE)
  BY DEF SubscriptionCases
<1>2. HasParts(SubscriptionMessageFlyweight, names, <<"channel">>, {"channel"})
  BY SubscriptionLayout, OneName
<1>3. Matches(names, {"channel"}, [registration_correlation_id |-> "null"], read)
  BY DEF Matches, Source, Same
<1>4. \A f \in names : Source([registration_correlation_id |-> "null"], f) # "frame_length"
  BY DEF Source
<1> HIDE DEF read, names
<1> QED BY <1>1, <1>2, <1>3, <1>4, MessageFits

\* What is written is what is read: REMOVE_SUBSCRIPTION.
LEMMA RemoveSubscriptionFits ==
  ASSUME ~Frames
  PROVE  Fits(Method("REMOVE_SUBSCRIPTION", RemoveSubscriptionFlyweight, AsNamed),
              SubscriptionCases["REMOVE_SUBSCRIPTION"])
<1> DEFINE names == {"client_id", "correlation_id", "registration_id"}
           read == Same({"registration_id", "correlation_id"})
<1>1. SubscriptionCases["REMOVE_SUBSCRIPTION"] = Case(RemoveSubscriptionFlyweight, read, TRUE)
  BY DEF SubscriptionCases
<1>2. HasParts(RemoveSubscriptionFlyweight, names, <<>>, {})
  BY RemoveSubscriptionLayout, NoNames
<1>3. Matches(names, {}, AsNamed, read)
  BY DEF Matches, Source, AsNamed, Same
<1>4. \A f \in names : Source(AsNamed, f) # "frame_length"
  BY DEF Source, AsNamed
<1> HIDE DEF read, names
<1> QED BY <1>1, <1>2, <1>3, <1>4, MessageFits

\* What is written is what is read: destinations.
LEMMA DestinationsFit ==
  ASSUME ~Frames, NEW type \in {"ADD_DESTINATION", "REMOVE_DESTINATION", "ADD_RCV_DESTINATION",
         "REMOVE_RCV_DESTINATION"}
  PROVE  Fits(Method(type, DestinationMessageFlyweight, [registration_correlation_id |-> "registration_id"]),
              DestinationCases[type])
<1> DEFINE names == {"client_id", "correlation_id", "registration_correlation_id"}
           read == Same({"channel", "correlation_id"}) ++ [registration_id |->
                   "registration_correlation_id"]
<1>1. DestinationCases[type] = Case(DestinationMessageFlyweight, read, TRUE)
  BY DEF DestinationCases
<1>2. HasParts(DestinationMessageFlyweight, names, <<"channel">>, {"channel"})
  BY DestinationLayout, OneName
<1>3. Matches(names, {"channel"}, [registration_correlation_id |-> "registration_id"], read)
  BY DEF Matches, Source, Same, ++
<1>4. \A f \in names : Source([registration_correlation_id |-> "registration_id"], f) # "frame_length"
  BY DEF Source
<1> HIDE DEF read, names
<1> QED BY <1>1, <1>2, <1>3, <1>4, MessageFits

\* What is written is what is read: REMOVE_DESTINATION_BY_ID.
LEMMA RemoveDestinationByIdFits ==
  ASSUME ~Frames
  PROVE  Fits(Method("REMOVE_DESTINATION_BY_ID", DestinationByIdMessageFlyweight, AsNamed),
              ImageCases["REMOVE_DESTINATION_BY_ID"])
<1> DEFINE names == {"client_id", "correlation_id", "resource_registration_id",
                    "destination_registration_id"}
           read == Same({"resource_registration_id", "destination_registration_id",
                   "correlation_id"})
<1>1. ImageCases["REMOVE_DESTINATION_BY_ID"] = Case(DestinationByIdMessageFlyweight, read, TRUE)
  BY DEF ImageCases
<1>2. HasParts(DestinationByIdMessageFlyweight, names, <<>>, {})
  BY DestinationByIdLayout, NoNames
<1>3. Matches(names, {}, AsNamed, read)
  BY DEF Matches, Source, AsNamed, Same
<1>4. \A f \in names : Source(AsNamed, f) # "frame_length"
  BY DEF Source, AsNamed
<1> HIDE DEF read, names
<1> QED BY <1>1, <1>2, <1>3, <1>4, MessageFits

\* What is written is what is read: ADD_COUNTER.
LEMMA AddCounterFits ==
  ASSUME ~Frames
  PROVE  Fits(Method("ADD_COUNTER", CounterMessageFlyweight, AsNamed),
              CounterCases["ADD_COUNTER"])
<1> DEFINE names == {"client_id", "correlation_id", "type_id"}
           read == Same({"type_id", "key", "label", "correlation_id", "client_id"})
<1>1. CounterCases["ADD_COUNTER"] = Case(CounterMessageFlyweight, read, TRUE)
  BY DEF CounterCases
<1>2. HasParts(CounterMessageFlyweight, names, <<"key", "label">>, {"key", "label"})
  BY CounterLayout, TwoNames
<1>3. Matches(names, {"key", "label"}, AsNamed, read)
  BY DEF Matches, Source, AsNamed, Same
<1>4. \A f \in names : Source(AsNamed, f) # "frame_length"
  BY DEF Source, AsNamed
<1> HIDE DEF read, names
<1> QED BY <1>1, <1>2, <1>3, <1>4, MessageFits

\* What is written is what is read: REMOVE_COUNTER.
LEMMA RemoveCounterFits ==
  ASSUME ~Frames
  PROVE  Fits(Method("REMOVE_COUNTER", RemoveCounterFlyweight, AsNamed),
              CounterCases["REMOVE_COUNTER"])
<1> DEFINE names == {"client_id", "correlation_id", "registration_id"}
           read == Same({"registration_id", "correlation_id"})
<1>1. CounterCases["REMOVE_COUNTER"] = Case(RemoveCounterFlyweight, read, TRUE)
  BY DEF CounterCases
<1>2. HasParts(RemoveCounterFlyweight, names, <<>>, {})
  BY RemoveLayout, NoNames DEF RemoveCounterFlyweight
<1>3. Matches(names, {}, AsNamed, read)
  BY DEF Matches, Source, AsNamed, Same
<1>4. \A f \in names : Source(AsNamed, f) # "frame_length"
  BY DEF Source, AsNamed
<1> HIDE DEF read, names
<1> QED BY <1>1, <1>2, <1>3, <1>4, MessageFits

\* What is written is what is read: ADD_STATIC_COUNTER.
LEMMA AddStaticCounterFits ==
  ASSUME ~Frames
  PROVE  Fits(Method("ADD_STATIC_COUNTER", StaticCounterMessageFlyweight, AsNamed),
              CounterCases["ADD_STATIC_COUNTER"])
<1> DEFINE names == {"client_id", "correlation_id", "registration_id", "type_id"}
           read == Same({"type_id", "key", "label", "registration_id", "correlation_id",
                   "client_id"})
<1>1. CounterCases["ADD_STATIC_COUNTER"] = Case(StaticCounterMessageFlyweight, read, TRUE)
  BY DEF CounterCases
<1>2. HasParts(StaticCounterMessageFlyweight, names, <<"key", "label">>, {"key", "label"})
  BY StaticCounterMessageLayout, TwoNames
<1>3. Matches(names, {"key", "label"}, AsNamed, read)
  BY DEF Matches, Source, AsNamed, Same
<1>4. \A f \in names : Source(AsNamed, f) # "frame_length"
  BY DEF Source, AsNamed
<1> HIDE DEF read, names
<1> QED BY <1>1, <1>2, <1>3, <1>4, MessageFits

\* What is written is what is read: CLIENT_CLOSE.
LEMMA ClientCloseFits ==
  ASSUME ~Frames
  PROVE  Fits(Method("CLIENT_CLOSE", CorrelatedMessageFlyweight, Uncorrelated),
              ClientCases["CLIENT_CLOSE"])
<1> DEFINE names == {"client_id", "correlation_id"}
           read == Same({"client_id"})
<1>1. ClientCases["CLIENT_CLOSE"] = Case(CorrelatedMessageFlyweight, read, FALSE)
  BY DEF ClientCases
<1>2. HasParts(CorrelatedMessageFlyweight, names, <<>>, {})
  BY CorrelatedLayout, NoNames
<1>3. Matches(names, {}, Uncorrelated, read)
  BY DEF Matches, Source, Uncorrelated, Same
<1>4. \A f \in names : Source(Uncorrelated, f) # "frame_length"
  BY DEF Source, Uncorrelated
<1> HIDE DEF read, names
<1> QED BY <1>1, <1>2, <1>3, <1>4, MessageFits

\* What is written is what is read: TERMINATE_DRIVER.
LEMMA TerminateDriverFits ==
  ASSUME ~Frames
  PROVE  Fits(Method("TERMINATE_DRIVER", TerminateDriverFlyweight, Uncorrelated),
              CounterCases["TERMINATE_DRIVER"])
<1> DEFINE names == {"client_id", "correlation_id"}
           read == Same({"token"})
<1>1. CounterCases["TERMINATE_DRIVER"] = Case(TerminateDriverFlyweight, read, FALSE)
  BY DEF CounterCases
<1>2. HasParts(TerminateDriverFlyweight, names, <<"token">>, {"token"})
  BY TerminateDriverLayout, OneName
<1>3. Matches(names, {"token"}, Uncorrelated, read)
  BY DEF Matches, Source, Uncorrelated, Same
<1>4. \A f \in names : Source(Uncorrelated, f) # "frame_length"
  BY DEF Source, Uncorrelated
<1> HIDE DEF read, names
<1> QED BY <1>1, <1>2, <1>3, <1>4, MessageFits

\* What is written is what is read: REJECT_IMAGE.
LEMMA RejectImageFits ==
  ASSUME ~Frames
  PROVE  Fits(Method("REJECT_IMAGE", RejectImageFlyweight, AsNamed),
              ImageCases["REJECT_IMAGE"])
<1> DEFINE names == {"client_id", "correlation_id", "image_correlation_id", "position"}
           read == Same({"correlation_id", "image_correlation_id", "position", "reason"})
<1>1. ImageCases["REJECT_IMAGE"] = Case(RejectImageFlyweight, read, TRUE)
  BY DEF ImageCases
<1>2. HasParts(RejectImageFlyweight, names, <<"reason">>, {"reason"})
  BY RejectImageLayout, OneName
<1>3. Matches(names, {"reason"}, AsNamed, read)
  BY DEF Matches, Source, AsNamed, Same
<1>4. \A f \in names : Source(AsNamed, f) # "frame_length"
  BY DEF Source, AsNamed
<1> HIDE DEF read, names
<1> QED BY <1>1, <1>2, <1>3, <1>4, MessageFits

\* What is written is what is read: GET_NEXT_AVAILABLE_SESSION_ID.
LEMMA GetNextAvailableSessionIdFits ==
  ASSUME ~Frames
  PROVE  Fits(Method("GET_NEXT_AVAILABLE_SESSION_ID", GetNextAvailableSessionIdMessageFlyweight, AsNamed),
              ImageCases["GET_NEXT_AVAILABLE_SESSION_ID"])
<1> DEFINE names == {"client_id", "correlation_id", "stream_id"}
           read == Same({"correlation_id", "stream_id"})
<1>1. ImageCases["GET_NEXT_AVAILABLE_SESSION_ID"] = Case(GetNextAvailableSessionIdMessageFlyweight, read, TRUE)
  BY DEF ImageCases
<1>2. HasParts(GetNextAvailableSessionIdMessageFlyweight, names, <<>>, {})
  BY GetNextAvailableSessionIdLayout, NoNames
<1>3. Matches(names, {}, AsNamed, read)
  BY DEF Matches, Source, AsNamed, Same
<1>4. \A f \in names : Source(AsNamed, f) # "frame_length"
  BY DEF Source, AsNamed
<1> HIDE DEF read, names
<1> QED BY <1>1, <1>2, <1>3, <1>4, MessageFits

\* What is written is what is read: CLIENT_KEEPALIVE.
LEMMA ClientKeepaliveFits ==
  ASSUME ~Frames
  PROVE  Fits(Method("CLIENT_KEEPALIVE", CorrelatedMessageFlyweight, Uncorrelated),
              ClientCases["CLIENT_KEEPALIVE"])
<1> DEFINE names == {"client_id", "correlation_id"}
           read == Same({"client_id"})
<1>1. ClientCases["CLIENT_KEEPALIVE"] = Case(CorrelatedMessageFlyweight, read, FALSE)
  BY DEF ClientCases
<1>2. HasParts(CorrelatedMessageFlyweight, names, <<>>, {})
  BY CorrelatedLayout, NoNames
<1>3. Matches(names, {}, Uncorrelated, read)
  BY DEF Matches, Source, Uncorrelated, Same
<1>4. \A f \in names : Source(Uncorrelated, f) # "frame_length"
  BY DEF Source, Uncorrelated
<1> HIDE DEF read, names
<1> QED BY <1>1, <1>2, <1>3, <1>4, MessageFits

\* What is written is what is read: ON_ERROR.
LEMMA OnErrorFits ==
  ASSUME ~Frames
  PROVE  Fits(Method("ON_ERROR", ErrorResponseFlyweight, AsNamed),
              ReadyCases["ON_ERROR"])
<1> DEFINE names == {"correlation_id", "error_code"}
           read == Same({"correlation_id", "error_code", "error_message"})
<1>1. ReadyCases["ON_ERROR"] = Case(ErrorResponseFlyweight, read, FALSE)
  BY DEF ReadyCases, ++
<1>2. HasParts(ErrorResponseFlyweight, names, <<"error_message">>, {"error_message"})
  BY ErrorResponseLayout, OneName
<1>3. Matches(names, {"error_message"}, AsNamed, read)
  BY DEF Matches, Source, AsNamed, Same
<1>4. \A f \in names : Source(AsNamed, f) # "frame_length"
  BY DEF Source, AsNamed
<1> HIDE DEF read, names
<1> QED BY <1>1, <1>2, <1>3, <1>4, MessageFits

\* What is written is what is read: ON_PUBLICATION_READY and ON_EXCLUSIVE_PUBLICATION_READY.
LEMMA PublicationReadyFits ==
  ASSUME ~Frames, NEW type \in {"ON_PUBLICATION_READY", "ON_EXCLUSIVE_PUBLICATION_READY"}
  PROVE  Fits(Method(type, PublicationBuffersReadyFlyweight, AsNamed),
              ReadyCases[type])
<1> DEFINE names == {"correlation_id", "registration_id", "session_id", "stream_id",
                    "position_counter_id", "channel_status_counter_id"}
           read == Same({"correlation_id", "registration_id", "stream_id", "session_id",
                   "position_counter_id", "channel_status_counter_id", "log_file_name"})
<1>1. ReadyCases[type] = Case(PublicationBuffersReadyFlyweight, read, TRUE)
  BY DEF ReadyCases, ++
<1>2. HasParts(PublicationBuffersReadyFlyweight, names, <<"log_file_name">>, {"log_file_name"})
  BY PublicationBuffersReadyLayout, OneName
<1>3. Matches(names, {"log_file_name"}, AsNamed, read)
  BY DEF Matches, Source, AsNamed, Same
<1>4. \A f \in names : Source(AsNamed, f) # "frame_length"
  BY DEF Source, AsNamed
<1> HIDE DEF read, names
<1> QED BY <1>1, <1>2, <1>3, <1>4, MessageFits

\* What is written is what is read: ON_SUBSCRIPTION_READY.
LEMMA OnSubscriptionReadyFits ==
  ASSUME ~Frames
  PROVE  Fits(Method("ON_SUBSCRIPTION_READY", SubscriptionReadyFlyweight, AsNamed),
              AnswerCases["ON_SUBSCRIPTION_READY"])
<1> DEFINE names == {"correlation_id", "channel_status_counter_id"}
           read == Same({"correlation_id", "channel_status_counter_id"})
<1>1. AnswerCases["ON_SUBSCRIPTION_READY"] = Case(SubscriptionReadyFlyweight, read, TRUE)
  BY DEF AnswerCases
<1>2. HasParts(SubscriptionReadyFlyweight, names, <<>>, {})
  BY SubscriptionReadyLayout, NoNames
<1>3. Matches(names, {}, AsNamed, read)
  BY DEF Matches, Source, AsNamed, Same
<1>4. \A f \in names : Source(AsNamed, f) # "frame_length"
  BY DEF Source, AsNamed
<1> HIDE DEF read, names
<1> QED BY <1>1, <1>2, <1>3, <1>4, MessageFits

\* What is written is what is read: ON_OPERATION_SUCCESS.
LEMMA OnOperationSuccessFits ==
  ASSUME ~Frames
  PROVE  Fits(Method("ON_OPERATION_SUCCESS", OperationSucceededFlyweight, AsNamed),
              AnswerCases["ON_OPERATION_SUCCESS"])
<1> DEFINE names == {"correlation_id"}
           read == Same({"correlation_id"})
<1>1. AnswerCases["ON_OPERATION_SUCCESS"] = Case(OperationSucceededFlyweight, read, TRUE)
  BY DEF AnswerCases
<1>2. HasParts(OperationSucceededFlyweight, names, <<>>, {})
  BY OperationSucceededLayout, NoNames
<1>3. Matches(names, {}, AsNamed, read)
  BY DEF Matches, Source, AsNamed, Same
<1>4. \A f \in names : Source(AsNamed, f) # "frame_length"
  BY DEF Source, AsNamed
<1> HIDE DEF read, names
<1> QED BY <1>1, <1>2, <1>3, <1>4, MessageFits

\* What is written is what is read: ON_AVAILABLE_IMAGE.
LEMMA OnAvailableImageFits ==
  ASSUME ~Frames
  PROVE  Fits(Method("ON_AVAILABLE_IMAGE", ImageBuffersReadyFlyweight, AsNamed),
              ReadyCases["ON_AVAILABLE_IMAGE"])
<1> DEFINE names == {"correlation_id", "session_id", "stream_id", "subscription_registration_id",
                    "position_counter_id"}
           read == Same({"correlation_id", "subscription_registration_id", "session_id",
                   "position_counter_id", "log_file_name", "source_identity"})
<1>1. ReadyCases["ON_AVAILABLE_IMAGE"] = Case(ImageBuffersReadyFlyweight, read, FALSE)
  BY DEF ReadyCases, ++
<1>2. HasParts(ImageBuffersReadyFlyweight, names, <<"log_file_name", "source_identity">>,
      {"log_file_name", "source_identity"})
  BY ImageBuffersReadyLayout, TwoNames
<1>3. Matches(names, {"log_file_name", "source_identity"}, AsNamed, read)
  BY DEF Matches, Source, AsNamed, Same
<1>4. \A f \in names : Source(AsNamed, f) # "frame_length"
  BY DEF Source, AsNamed
<1> HIDE DEF read, names
<1> QED BY <1>1, <1>2, <1>3, <1>4, MessageFits

\* What is written is what is read: ON_UNAVAILABLE_IMAGE.
LEMMA OnUnavailableImageFits ==
  ASSUME ~Frames
  PROVE  Fits(Method("ON_UNAVAILABLE_IMAGE", ImageMessageFlyweight, [stream_id |-> "zero"]),
              AnswerCases["ON_UNAVAILABLE_IMAGE"])
<1> DEFINE names == {"correlation_id", "subscription_registration_id", "stream_id"}
           read == Same({"correlation_id", "subscription_registration_id"})
<1>1. AnswerCases["ON_UNAVAILABLE_IMAGE"] = Case(ImageMessageFlyweight, read, FALSE)
  BY DEF AnswerCases
<1>2. HasParts(ImageMessageFlyweight, names, <<>>, {})
  BY ImageLayout, NoNames
<1>3. Matches(names, {}, [stream_id |-> "zero"], read)
  BY DEF Matches, Source, Same
<1>4. \A f \in names : Source([stream_id |-> "zero"], f) # "frame_length"
  BY DEF Source
<1> HIDE DEF read, names
<1> QED BY <1>1, <1>2, <1>3, <1>4, MessageFits

\* What is written is what is read: ON_COUNTER_READY.
LEMMA OnCounterReadyFits ==
  ASSUME ~Frames
  PROVE  Fits(Method("ON_COUNTER_READY", CounterUpdateFlyweight, AsNamed),
              AnswerCases["ON_COUNTER_READY"])
<1> DEFINE names == {"correlation_id", "counter_id"}
           read == Same({"correlation_id", "counter_id"})
<1>1. AnswerCases["ON_COUNTER_READY"] = Case(CounterUpdateFlyweight, read, TRUE)
  BY DEF AnswerCases
<1>2. HasParts(CounterUpdateFlyweight, names, <<>>, {})
  BY CounterUpdateLayout, NoNames
<1>3. Matches(names, {}, AsNamed, read)
  BY DEF Matches, Source, AsNamed, Same
<1>4. \A f \in names : Source(AsNamed, f) # "frame_length"
  BY DEF Source, AsNamed
<1> HIDE DEF read, names
<1> QED BY <1>1, <1>2, <1>3, <1>4, MessageFits

\* What is written is what is read: ON_UNAVAILABLE_COUNTER.
LEMMA OnUnavailableCounterFits ==
  ASSUME ~Frames
  PROVE  Fits(Method("ON_UNAVAILABLE_COUNTER", CounterUpdateFlyweight, [correlation_id |-> "registration_id"]),
              AnswerCases["ON_UNAVAILABLE_COUNTER"])
<1> DEFINE names == {"correlation_id", "counter_id"}
           read == [registration_id |-> "correlation_id", counter_id |-> "counter_id"]
<1>1. AnswerCases["ON_UNAVAILABLE_COUNTER"] = Case(CounterUpdateFlyweight, read, FALSE)
  BY DEF AnswerCases
<1>2. HasParts(CounterUpdateFlyweight, names, <<>>, {})
  BY CounterUpdateLayout, NoNames
<1>3. Matches(names, {}, [correlation_id |-> "registration_id"], read)
  BY DEF Matches, Source
<1>4. \A f \in names : Source([correlation_id |-> "registration_id"], f) # "frame_length"
  BY DEF Source
<1> HIDE DEF read, names
<1> QED BY <1>1, <1>2, <1>3, <1>4, MessageFits

\* What is written is what is read: ON_CLIENT_TIMEOUT.
LEMMA OnClientTimeoutFits ==
  ASSUME ~Frames
  PROVE  Fits(Method("ON_CLIENT_TIMEOUT", ClientTimeoutFlyweight, AsNamed),
              AnswerCases["ON_CLIENT_TIMEOUT"])
<1> DEFINE names == {"client_id"}
           read == Same({"client_id"})
<1>1. AnswerCases["ON_CLIENT_TIMEOUT"] = Case(ClientTimeoutFlyweight, read, TRUE)
  BY DEF AnswerCases
<1>2. HasParts(ClientTimeoutFlyweight, names, <<>>, {})
  BY ClientTimeoutLayout, NoNames
<1>3. Matches(names, {}, AsNamed, read)
  BY DEF Matches, Source, AsNamed, Same
<1>4. \A f \in names : Source(AsNamed, f) # "frame_length"
  BY DEF Source, AsNamed
<1> HIDE DEF read, names
<1> QED BY <1>1, <1>2, <1>3, <1>4, MessageFits

\* What is written is what is read: ON_STATIC_COUNTER.
LEMMA OnStaticCounterFits ==
  ASSUME ~Frames
  PROVE  Fits(Method("ON_STATIC_COUNTER", StaticCounterFlyweight, AsNamed),
              LateCases["ON_STATIC_COUNTER"])
<1> DEFINE names == {"correlation_id", "counter_id"}
           read == Same({"correlation_id", "counter_id"})
<1>1. LateCases["ON_STATIC_COUNTER"] = Case(StaticCounterFlyweight, read, TRUE)
  BY DEF LateCases
<1>2. HasParts(StaticCounterFlyweight, names, <<>>, {})
  BY StaticCounterLayout, NoNames
<1>3. Matches(names, {}, AsNamed, read)
  BY DEF Matches, Source, AsNamed, Same
<1>4. \A f \in names : Source(AsNamed, f) # "frame_length"
  BY DEF Source, AsNamed
<1> HIDE DEF read, names
<1> QED BY <1>1, <1>2, <1>3, <1>4, MessageFits

\* What is written is what is read: ON_NEXT_AVAILABLE_SESSION_ID.
LEMMA OnNextAvailableSessionIdFits ==
  ASSUME ~Frames
  PROVE  Fits(Method("ON_NEXT_AVAILABLE_SESSION_ID", NextAvailableSessionIdFlyweight, AsNamed),
              LateCases["ON_NEXT_AVAILABLE_SESSION_ID"])
<1> DEFINE names == {"correlation_id", "session_id"}
           read == Same({"correlation_id", "session_id"})
<1>1. LateCases["ON_NEXT_AVAILABLE_SESSION_ID"] = Case(NextAvailableSessionIdFlyweight, read, TRUE)
  BY DEF LateCases
<1>2. HasParts(NextAvailableSessionIdFlyweight, names, <<>>, {})
  BY NextAvailableSessionIdLayout, NoNames
<1>3. Matches(names, {}, AsNamed, read)
  BY DEF Matches, Source, AsNamed, Same
<1>4. \A f \in names : Source(AsNamed, f) # "frame_length"
  BY DEF Source, AsNamed
<1> HIDE DEF read, names
<1> QED BY <1>1, <1>2, <1>3, <1>4, MessageFits

\* What is written is what is read: ON_PUBLICATION_ERROR.
LEMMA OnPublicationErrorFits ==
  ASSUME ~Frames, NEW a \in {"address", "zero"}
  PROVE  Fits(Method("ON_PUBLICATION_ERROR", PublicationErrorFrameFlyweight, [address |-> a]),
              LateCases["ON_PUBLICATION_ERROR"])
<1> DEFINE names == {"registration_id", "destination_registration_id", "session_id", "stream_id",
                    "receiver_id", "group_tag", "address_type", "udp_port", "address",
                    "error_code"}
           read == Same(names \cup {"error_message"})
<1>0. Names(PublicationErrorFrameFlyweight) = names
  BY PublicationErrorLayout DEF LayoutIs
<1>1. LateCases["ON_PUBLICATION_ERROR"] = Case(PublicationErrorFrameFlyweight, read, FALSE)
  BY <1>0 DEF LateCases
<1>2. HasParts(PublicationErrorFrameFlyweight, names, <<"error_message">>, {"error_message"})
  BY PublicationErrorLayout, OneName
<1>3. Matches(names, {"error_message"}, [address |-> a], read)
  BY DEF Matches, Source, Same
<1>4. \A f \in names : Source([address |-> a], f) # "frame_length"
  BY DEF Source
<1> HIDE DEF read, names
<1> QED BY <1>1, <1>2, <1>3, <1>4, MessageFits

\* What is written is what is read: DATA.
LEMMA DataFits ==
  ASSUME Frames
  PROVE  Fits(Method("DATA", DataHeaderFlyweight, [version |-> "zero"]),
              DataCases["DATA"])
<1> DEFINE names == {"frame_length", "version", "flags", "type", "term_offset", "session_id",
                    "stream_id", "term_id", "reserved_value"}
           read == Same({"frame_length", "flags", "term_offset", "session_id", "stream_id",
                   "term_id"})
<1>1. DataCases["DATA"] = Case(DataHeaderFlyweight, read, FALSE)
  BY DEF DataCases
<1>2. HasParts(DataHeaderFlyweight, names, <<>>, {})
  BY DataHeaderLayout, NoNames
<1>3. Matches(names, {}, [version |-> "zero"], read)
  BY DEF Matches, Source, Same
<1>4. FrameArguments(names, [version |-> "zero"])
  BY DEF FrameArguments, Source
<1>5. FrameLayout(DataHeaderFlyweight)
  BY DEF FrameLayout, DataHeaderFlyweight, Fixed, ControlFields
<1> HIDE DEF read, names
<1> QED BY <1>1, <1>2, <1>3, <1>4, <1>5, FrameStores

\* What is written is what is read: SETUP.
LEMMA SetupFits ==
  ASSUME Frames
  PROVE  Fits(Method("SETUP", SetupFlyweight, [version |-> "zero"]),
              DataCases["SETUP"])
<1> DEFINE names == {"frame_length", "version", "flags", "type", "term_offset", "session_id",
                    "stream_id", "initial_term_id", "active_term_id", "term_length", "mtu_length",
                    "ttl"}
           read == Same({"session_id", "stream_id", "initial_term_id", "active_term_id",
                   "term_length", "mtu_length", "ttl"})
<1>1. DataCases["SETUP"] = Case(SetupFlyweight, read, FALSE)
  BY DEF DataCases
<1>2. HasParts(SetupFlyweight, names, <<>>, {})
  BY SetupLayout, NoNames
<1>3. Matches(names, {}, [version |-> "zero"], read)
  BY DEF Matches, Source, Same
<1>4. FrameArguments(names, [version |-> "zero"])
  BY DEF FrameArguments, Source
<1>5. FrameLayout(SetupFlyweight)
  BY DEF FrameLayout, SetupFlyweight, Fixed, ControlFields
<1> HIDE DEF read, names
<1> QED BY <1>1, <1>2, <1>3, <1>4, <1>5, FrameStores

\* What is written is what is read: RTTM.
LEMMA RttmFits ==
  ASSUME Frames
  PROVE  Fits(Method("RTTM", RttMeasurementFlyweight, [version |-> "zero", flags |-> "is_reply"]),
              DataCases["RTTM"])
<1> DEFINE names == {"frame_length", "version", "flags", "type", "session_id", "stream_id",
                    "echo_timestamp", "reception_delta", "receiver_id"}
           read == Same({"session_id", "stream_id", "echo_timestamp", "reception_delta",
                   "receiver_id"}) ++ [is_reply |-> "flags"]
<1>1. DataCases["RTTM"] = Case(RttMeasurementFlyweight, read, FALSE)
  BY DEF DataCases
<1>2. HasParts(RttMeasurementFlyweight, names, <<>>, {})
  BY RttMeasurementLayout, NoNames
<1>3. Matches(names, {}, [version |-> "zero", flags |-> "is_reply"], read)
  BY DEF Matches, Source, Same, ++
<1>4. FrameArguments(names, [version |-> "zero", flags |-> "is_reply"])
  BY DEF FrameArguments, Source
<1>5. FrameLayout(RttMeasurementFlyweight)
  BY DEF FrameLayout, RttMeasurementFlyweight, Fixed, ControlFields
<1> HIDE DEF read, names
<1> QED BY <1>1, <1>2, <1>3, <1>4, <1>5, FrameStores


\* A layout with the ids, and of at least this length.
ControlLayout(layout, least) ==
  /\ ControlFields \subseteq layout.fields
  /\ least \in Nat /\ least >= 16 /\ least <= layout.minimum

\* The ids of a control frame are where each of them has them.
LEMMA ControlFits ==
  ASSUME Frames, NEW type, type # "REMOVE_PUBLICATION", NEW layout, NEW stored, NEW names,
         NEW parts, NEW named, HasParts(layout, names, parts, named),
         NEW read, read = Same({"session_id", "stream_id"}), Matches(names, named, stored, read),
         FrameArguments(names, stored), FrameLayout(layout),
         NEW least, ControlLayout(layout, least)
  PROVE  Fits(Method(type, layout, stored), Case(Fixed(ControlFields, least), read, TRUE))
<1> DEFINE method == Method(type, layout, stored)
           case == Case(Fixed(ControlFields, least), read, TRUE)
           ids == {"frame_length", "version", "flags", "type", "session_id", "stream_id"}
<1>1. /\ method.layout = layout
      /\ \A f \in Names(layout) : method.stored[f] = Source(stored, f)
  BY MethodIs
<1>2. case.layout = Fixed(ControlFields, least) /\ case.read = read
  BY DEF Case
<1> HIDE DEF method, case
<1>3. /\ case.layout.fields = ControlFields /\ case.layout.parts = <<>>
      /\ case.layout.minimum = least /\ case.layout.from = least /\ case.layout.alignment = 1
  BY <1>2 DEF Fixed
<1>4. Stores(method)
  BY FrameStores DEF method
<1>a. least \in Nat /\ least >= 16 /\ least <= layout.minimum /\ ControlFields \subseteq layout.fields
  BY DEF ControlLayout
<1>5. Tiled(ControlFields, ids, 16)
  BY TiledControl
<1>6. Names(case.layout) = ids
  BY <1>3, <1>5 DEF Names, Tiled
<1>7. DOMAIN read = {"session_id", "stream_id"} /\ \A p \in DOMAIN read : read[p] = p
  BY DEF Same
<1>8. ASSUME NEW p \in DOMAIN read
      PROVE  /\ read[p] \in Names(case.layout)
             /\ method.stored[read[p]] = Wanted(method, p)
  <2>1. p \in {"session_id", "stream_id"} /\ read[p] = p
    BY <1>7
  <2>2. p \in names
    <3>1. Names(case.layout) \subseteq Names(layout)
      BY <1>3, <1>a DEF Names
    <3>2. Names(layout) = names
      BY DEF HasParts, LayoutIs
    <3> QED BY <1>6, <2>1, <3>1, <3>2
  <2>3. Names(layout) = names
    BY DEF HasParts, LayoutIs
  <2>4. p \notin named
    <3>1. \A i \in DOMAIN layout.parts : layout.parts[i] \notin Names(layout)
      BY <1>1, <1>4, PartsOf DEF Stores
    <3>2. \A a \in named : \E i \in DOMAIN layout.parts : layout.parts[i] = a
      BY DEF HasParts, LayoutIs
    <3> QED BY <2>2, <2>3, <3>1, <3>2
  <2>5. Source(stored, p) = p
    BY <2>1, <2>4 DEF Matches
  <2>6. Wanted(method, p) = p
    BY <2>1 DEF Wanted
  <2> QED BY <1>1, <1>6, <2>1, <2>2, <2>3, <2>5, <2>6
<1>9. Delivers(method, case)
  BY <1>1, <1>2, <1>3, <1>8, <1>a DEF Delivers
<1>10. Readable(case)
  <2>1. \A f \in ControlFields : f.offset \in Nat /\ f.size \in Nat /\ f.offset + f.size <= 16
    BY <1>5 DEF Tiled
  <2>2. \A f \in ControlFields : f.offset \in Nat /\ f.size \in Nat /\ f.offset + f.size <= least
    BY <1>a, <2>1
  <2>3. Len(case.layout.parts) = 0 /\ DOMAIN case.layout.parts = 1 .. 0
    BY <1>3
  <2> QED BY <1>2, <1>3, <1>6, <1>8, <1>a, <2>2, <2>3 DEF Readable
<1> QED BY <1>4, <1>9, <1>10 DEF Fits, method, case

\* The ids of StatusMessageFlyweight are read from where they are written.
LEMMA StatusMessageFits ==
  ASSUME Frames
  PROVE  Fits(Method("SM", StatusMessageFlyweight,
                     [version |-> "zero"]), ControlCases["SM"])
<1> DEFINE names == {"frame_length", "version", "flags", "type", "session_id", "stream_id",
                    "consumption_term_id", "consumption_term_offset", "receiver_window",
                    "receiver_id"}
           read == Same({"session_id", "stream_id"})
           stored == [version |-> "zero"]
<1>1. ControlCases["SM"] = Case(Fixed(ControlFields, 36), read, TRUE)
  BY DEF ControlCases
<1>2. HasParts(StatusMessageFlyweight, names, <<>>, {})
  BY StatusLayout, NoNames
<1>3. Matches(names, {}, stored, read)
  BY DEF Matches, Source, Same
<1>4. FrameArguments(names, stored)
  BY DEF FrameArguments, Source
<1>5. /\ FrameLayout(StatusMessageFlyweight)
      /\ ControlLayout(StatusMessageFlyweight, 36)
  BY DEF FrameLayout, ControlLayout, StatusMessageFlyweight, Fixed, ControlFields
<1> HIDE DEF read, names, stored
<1>6. read = Same({"session_id", "stream_id"})
  BY DEF read
<1>7. Fits(Method("SM", StatusMessageFlyweight, stored), Case(Fixed(ControlFields, 36), read, TRUE))
  BY <1>2, <1>3, <1>4, <1>5, <1>6, ControlFits
<1> QED BY <1>1, <1>7 DEF stored

\* The ids of GroupedStatusMessage are read from where they are written.
LEMMA GroupedStatusMessageFits ==
  ASSUME Frames
  PROVE  Fits(Method("SM", GroupedStatusMessage,
                     [version |-> "zero"]), ControlCases["SM"])
<1> DEFINE names == {"frame_length", "version", "flags", "type", "session_id", "stream_id",
                    "consumption_term_id", "consumption_term_offset", "receiver_window",
                    "receiver_id", "group_tag"}
           read == Same({"session_id", "stream_id"})
           stored == [version |-> "zero"]
<1>1. ControlCases["SM"] = Case(Fixed(ControlFields, 36), read, TRUE)
  BY DEF ControlCases
<1>2. HasParts(GroupedStatusMessage, names, <<>>, {})
  BY GroupedStatusMessageLayout, NoNames
<1>3. Matches(names, {}, stored, read)
  BY DEF Matches, Source, Same
<1>4. FrameArguments(names, stored)
  BY DEF FrameArguments, Source
<1>5. /\ FrameLayout(GroupedStatusMessage)
      /\ ControlLayout(GroupedStatusMessage, 36)
  BY DEF FrameLayout, ControlLayout, GroupedStatusMessage, StatusMessageFlyweight, Fixed, ControlFields
<1> HIDE DEF read, names, stored
<1>6. read = Same({"session_id", "stream_id"})
  BY DEF read
<1>7. Fits(Method("SM", GroupedStatusMessage, stored), Case(Fixed(ControlFields, 36), read, TRUE))
  BY <1>2, <1>3, <1>4, <1>5, <1>6, ControlFits
<1> QED BY <1>1, <1>7 DEF stored

\* The ids of NakFlyweight are read from where they are written.
LEMMA NakFits ==
  ASSUME Frames
  PROVE  Fits(Method("NAK", NakFlyweight,
                     [version |-> "zero", flags |-> "zero"]), ControlCases["NAK"])
<1> DEFINE names == {"frame_length", "version", "flags", "type", "session_id", "stream_id",
                    "term_id", "term_offset", "length"}
           read == Same({"session_id", "stream_id"})
           stored == [version |-> "zero", flags |-> "zero"]
<1>1. ControlCases["NAK"] = Case(Fixed(ControlFields, 28), read, TRUE)
  BY DEF ControlCases
<1>2. HasParts(NakFlyweight, names, <<>>, {})
  BY NakLayout, NoNames
<1>3. Matches(names, {}, stored, read)
  BY DEF Matches, Source, Same
<1>4. FrameArguments(names, stored)
  BY DEF FrameArguments, Source
<1>5. /\ FrameLayout(NakFlyweight)
      /\ ControlLayout(NakFlyweight, 28)
  BY DEF FrameLayout, ControlLayout, NakFlyweight, Fixed, ControlFields
<1> HIDE DEF read, names, stored
<1>6. read = Same({"session_id", "stream_id"})
  BY DEF read
<1>7. Fits(Method("NAK", NakFlyweight, stored), Case(Fixed(ControlFields, 28), read, TRUE))
  BY <1>2, <1>3, <1>4, <1>5, <1>6, ControlFits
<1> QED BY <1>1, <1>7 DEF stored

\* The ids of RttMeasurementFlyweight are read from where they are written.
LEMMA RttMeasurementFits ==
  ASSUME Frames
  PROVE  Fits(Method("RTTM", RttMeasurementFlyweight,
                     [[version |-> "zero", flags |-> "zero"] EXCEPT !.flags = "is_reply"]), ControlCases["RTTM"])
<1> DEFINE names == {"frame_length", "version", "flags", "type", "session_id", "stream_id",
                    "echo_timestamp", "reception_delta", "receiver_id"}
           read == Same({"session_id", "stream_id"})
           stored == [[version |-> "zero", flags |-> "zero"] EXCEPT !.flags = "is_reply"]
<1>1. ControlCases["RTTM"] = Case(Fixed(ControlFields, 40), read, TRUE)
  BY DEF ControlCases
<1>2. HasParts(RttMeasurementFlyweight, names, <<>>, {})
  BY RttMeasurementLayout, NoNames
<1>3. Matches(names, {}, stored, read)
  BY DEF Matches, Source, Same
<1>4. FrameArguments(names, stored)
  BY DEF FrameArguments, Source
<1>5. /\ FrameLayout(RttMeasurementFlyweight)
      /\ ControlLayout(RttMeasurementFlyweight, 40)
  BY DEF FrameLayout, ControlLayout, RttMeasurementFlyweight, Fixed, ControlFields
<1> HIDE DEF read, names, stored
<1>6. read = Same({"session_id", "stream_id"})
  BY DEF read
<1>7. Fits(Method("RTTM", RttMeasurementFlyweight, stored), Case(Fixed(ControlFields, 40), read, TRUE))
  BY <1>2, <1>3, <1>4, <1>5, <1>6, ControlFits
<1> QED BY <1>1, <1>7 DEF stored

\* The ids of ErrorFlyweight are read from where they are written.
LEMMA ErrorFits ==
  ASSUME Frames
  PROVE  Fits(Method("ERR", ErrorFlyweight,
                     [group_tag |-> "zero"] ++ [version |-> "zero", flags |-> "zero"]), ControlCases["ERR"])
<1> DEFINE names == {"frame_length", "version", "flags", "type", "session_id", "stream_id",
                    "receiver_id", "group_tag", "error_code"}
           read == Same({"session_id", "stream_id"})
           stored == [group_tag |-> "zero"] ++ [version |-> "zero", flags |-> "zero"]
<1>1. ControlCases["ERR"] = Case(Fixed(ControlFields, 40), read, TRUE)
  BY DEF ControlCases
<1>2. HasParts(ErrorFlyweight, names, <<"error_message">>, {"error_message"})
  BY ErrorLayout, OneName
<1>3. Matches(names, {"error_message"}, stored, read)
  BY DEF Matches, Source, Same, ++
<1>4. FrameArguments(names, stored)
  BY DEF FrameArguments, Source, ++
<1>5. /\ FrameLayout(ErrorFlyweight)
      /\ ControlLayout(ErrorFlyweight, 40)
  BY DEF FrameLayout, ControlLayout, ErrorFlyweight, Variable, SIZE_OF_INT, ControlFields
<1> HIDE DEF read, names, stored
<1>6. read = Same({"session_id", "stream_id"})
  BY DEF read
<1>7. Fits(Method("ERR", ErrorFlyweight, stored), Case(Fixed(ControlFields, 40), read, TRUE))
  BY <1>2, <1>3, <1>4, <1>5, <1>6, ControlFits
<1> QED BY <1>1, <1>7 DEF stored

\* The ids of ResponseSetupFlyweight are read from where they are written.
LEMMA ResponseSetupFits ==
  ASSUME Frames
  PROVE  Fits(Method("RSP_SETUP", ResponseSetupFlyweight,
                     [version |-> "zero", flags |-> "zero"]), ControlCases["RSP_SETUP"])
<1> DEFINE names == {"frame_length", "version", "flags", "type", "session_id", "stream_id",
                    "response_session_id"}
           read == Same({"session_id", "stream_id"})
           stored == [version |-> "zero", flags |-> "zero"]
<1>1. ControlCases["RSP_SETUP"] = Case(Fixed(ControlFields, 20), read, TRUE)
  BY DEF ControlCases
<1>2. HasParts(ResponseSetupFlyweight, names, <<>>, {})
  BY ResponseSetupLayout, NoNames
<1>3. Matches(names, {}, stored, read)
  BY DEF Matches, Source, Same
<1>4. FrameArguments(names, stored)
  BY DEF FrameArguments, Source
<1>5. /\ FrameLayout(ResponseSetupFlyweight)
      /\ ControlLayout(ResponseSetupFlyweight, 20)
  BY DEF FrameLayout, ControlLayout, ResponseSetupFlyweight, Fixed, ControlFields
<1> HIDE DEF read, names, stored
<1>6. read = Same({"session_id", "stream_id"})
  BY DEF read
<1>7. Fits(Method("RSP_SETUP", ResponseSetupFlyweight, stored), Case(Fixed(ControlFields, 20), read, TRUE))
  BY <1>2, <1>3, <1>4, <1>5, <1>6, ControlFits
<1> QED BY <1>1, <1>7 DEF stored


-----------------------------------------------------------------------------
(* The methods and the cases of each side.                                  *)

\* What two tables have together.
LEMMA Merged ==
  ASSUME NEW f, NEW g
  PROVE  /\ DOMAIN (f ++ g) = DOMAIN f \cup DOMAIN g
         /\ \A x \in DOMAIN f : (f ++ g)[x] = f[x]
         /\ \A x \in DOMAIN g : x \notin DOMAIN f => (f ++ g)[x] = g[x]
BY DEF ++

\* Each method has a case, which reads what it writes, and each case is right for what
\* others write.
Conveys(methods, cases) ==
  /\ \A method \in methods : method.type \in DOMAIN cases /\ Fits(method, cases[method.type])
  /\ \A type \in DOMAIN cases : \E method \in methods : method.type = type

\* More methods, with more cases for types of their own.
LEMMA ConveysMore ==
  ASSUME NEW methods, NEW cases, Conveys(methods, cases),
         NEW others, NEW more, Conveys(others, more), DOMAIN cases \cap DOMAIN more = {}
  PROVE  Conveys(methods \cup others, cases ++ more)
<1> DEFINE all == cases ++ more
<1>1. /\ DOMAIN all = DOMAIN cases \cup DOMAIN more
      /\ \A x \in DOMAIN cases : all[x] = cases[x]
      /\ \A x \in DOMAIN more : x \notin DOMAIN cases => all[x] = more[x]
  BY Merged
<1> HIDE DEF all
<1>2. \A x \in DOMAIN more : x \notin DOMAIN cases
  OBVIOUS
<1>3. \A method \in methods : method.type \in DOMAIN all /\ Fits(method, all[method.type])
  BY <1>1 DEF Conveys
<1>4. \A method \in others : method.type \in DOMAIN all /\ Fits(method, all[method.type])
  BY <1>1, <1>2 DEF Conveys
<1>5. \A type \in DOMAIN all : \E method \in methods \cup others : method.type = type
  BY <1>1 DEF Conveys
<1> QED BY <1>3, <1>4, <1>5 DEF Conveys, all

\* The methods whose cases are in PublicationCases.
PublicationMethods ==
  {Method("ADD_PUBLICATION", PublicationMessageFlyweight, AsNamed),
   Method("ADD_EXCLUSIVE_PUBLICATION", PublicationMessageFlyweight, AsNamed),
   Method("REMOVE_PUBLICATION", RemovePublicationFlyweight, AsNamed)}

\* Each of them is conveyed.
LEMMA PublicationConveyed ==
  ASSUME ~Frames
  PROVE  /\ Conveys(PublicationMethods, PublicationCases)
         /\ DOMAIN PublicationCases = {"ADD_PUBLICATION", "ADD_EXCLUSIVE_PUBLICATION",
                "REMOVE_PUBLICATION"}
<1>1. DOMAIN PublicationCases = {"ADD_PUBLICATION", "ADD_EXCLUSIVE_PUBLICATION",
            "REMOVE_PUBLICATION"}
  BY DEF PublicationCases
<1>2. ASSUME NEW method \in PublicationMethods
      PROVE  method.type \in DOMAIN PublicationCases /\ Fits(method, PublicationCases[method.type])
  <2>1. CASE method = Method("ADD_PUBLICATION", PublicationMessageFlyweight, AsNamed)
    BY <1>1, <2>1, MethodIs, AddPublicationFits
  <2>2. CASE method = Method("ADD_EXCLUSIVE_PUBLICATION", PublicationMessageFlyweight, AsNamed)
    BY <1>1, <2>2, MethodIs, AddExclusivePublicationFits
  <2>3. CASE method = Method("REMOVE_PUBLICATION", RemovePublicationFlyweight, AsNamed)
    BY <1>1, <2>3, MethodIs, RemovePublicationFits
  <2> QED BY <2>1, <2>2, <2>3 DEF PublicationMethods
<1>3. ASSUME NEW type \in DOMAIN PublicationCases PROVE \E method \in PublicationMethods : method.type = type
  <2>1. CASE type = "ADD_PUBLICATION"
    <3>1. Method("ADD_PUBLICATION", PublicationMessageFlyweight, AsNamed)
            \in PublicationMethods
      BY <2>1 DEF PublicationMethods
    <3> QED BY <2>1, <3>1, MethodIs
  <2>2. CASE type = "ADD_EXCLUSIVE_PUBLICATION"
    <3>1. Method("ADD_EXCLUSIVE_PUBLICATION", PublicationMessageFlyweight, AsNamed)
            \in PublicationMethods
      BY <2>2 DEF PublicationMethods
    <3> QED BY <2>2, <3>1, MethodIs
  <2>3. CASE type = "REMOVE_PUBLICATION"
    <3>1. Method("REMOVE_PUBLICATION", RemovePublicationFlyweight, AsNamed)
            \in PublicationMethods
      BY <2>3 DEF PublicationMethods
    <3> QED BY <2>3, <3>1, MethodIs
  <2> QED BY <1>1, <2>1, <2>2, <2>3
<1> QED BY <1>1, <1>2, <1>3 DEF Conveys

\* The methods whose cases are in SubscriptionCases.
SubscriptionMethods ==
  {Method("ADD_SUBSCRIPTION", SubscriptionMessageFlyweight, [registration_correlation_id |-> "null"]),
   Method("REMOVE_SUBSCRIPTION", RemoveSubscriptionFlyweight, AsNamed)}

\* Each of them is conveyed.
LEMMA SubscriptionConveyed ==
  ASSUME ~Frames
  PROVE  /\ Conveys(SubscriptionMethods, SubscriptionCases)
         /\ DOMAIN SubscriptionCases = {"ADD_SUBSCRIPTION", "REMOVE_SUBSCRIPTION"}
<1>1. DOMAIN SubscriptionCases = {"ADD_SUBSCRIPTION", "REMOVE_SUBSCRIPTION"}
  BY DEF SubscriptionCases
<1>2. ASSUME NEW method \in SubscriptionMethods
      PROVE  method.type \in DOMAIN SubscriptionCases /\ Fits(method, SubscriptionCases[method.type])
  <2>1. CASE method = Method("ADD_SUBSCRIPTION", SubscriptionMessageFlyweight, [registration_correlation_id |-> "null"])
    BY <1>1, <2>1, MethodIs, AddSubscriptionFits
  <2>2. CASE method = Method("REMOVE_SUBSCRIPTION", RemoveSubscriptionFlyweight, AsNamed)
    BY <1>1, <2>2, MethodIs, RemoveSubscriptionFits
  <2> QED BY <2>1, <2>2 DEF SubscriptionMethods
<1>3. ASSUME NEW type \in DOMAIN SubscriptionCases PROVE \E method \in SubscriptionMethods : method.type = type
  <2>1. CASE type = "ADD_SUBSCRIPTION"
    <3>1. Method("ADD_SUBSCRIPTION", SubscriptionMessageFlyweight, [registration_correlation_id |-> "null"])
            \in SubscriptionMethods
      BY <2>1 DEF SubscriptionMethods
    <3> QED BY <2>1, <3>1, MethodIs
  <2>2. CASE type = "REMOVE_SUBSCRIPTION"
    <3>1. Method("REMOVE_SUBSCRIPTION", RemoveSubscriptionFlyweight, AsNamed)
            \in SubscriptionMethods
      BY <2>2 DEF SubscriptionMethods
    <3> QED BY <2>2, <3>1, MethodIs
  <2> QED BY <1>1, <2>1, <2>2
<1> QED BY <1>1, <1>2, <1>3 DEF Conveys

\* The methods whose cases are in DestinationCases.
DestinationMethods ==
  {Method(type, DestinationMessageFlyweight, [registration_correlation_id |-> "registration_id"]) :
           type \in {"ADD_DESTINATION", "REMOVE_DESTINATION", "ADD_RCV_DESTINATION",
                    "REMOVE_RCV_DESTINATION"}}

\* Each of them is conveyed.
LEMMA DestinationConveyed ==
  ASSUME ~Frames
  PROVE  /\ Conveys(DestinationMethods, DestinationCases)
         /\ DOMAIN DestinationCases = {"ADD_DESTINATION", "REMOVE_DESTINATION",
                "ADD_RCV_DESTINATION", "REMOVE_RCV_DESTINATION"}
<1>1. DOMAIN DestinationCases = {"ADD_DESTINATION", "REMOVE_DESTINATION", "ADD_RCV_DESTINATION",
            "REMOVE_RCV_DESTINATION"}
  BY DEF DestinationCases
<1>2. ASSUME NEW method \in DestinationMethods
      PROVE  method.type \in DOMAIN DestinationCases /\ Fits(method, DestinationCases[method.type])
  <2>1. ASSUME NEW type \in {"ADD_DESTINATION", "REMOVE_DESTINATION", "ADD_RCV_DESTINATION",
                           "REMOVE_RCV_DESTINATION"},
               method = Method(type, DestinationMessageFlyweight, [registration_correlation_id |-> "registration_id"])
        PROVE  method.type \in DOMAIN DestinationCases /\ Fits(method, DestinationCases[method.type])
    BY <1>1, <2>1, MethodIs, DestinationsFit
  <2> QED BY <2>1 DEF DestinationMethods
<1>3. ASSUME NEW type \in DOMAIN DestinationCases PROVE \E method \in DestinationMethods : method.type = type
  <2>1. CASE type \in {"ADD_DESTINATION", "REMOVE_DESTINATION", "ADD_RCV_DESTINATION",
                      "REMOVE_RCV_DESTINATION"}
    <3>1. Method(type, DestinationMessageFlyweight, [registration_correlation_id |-> "registration_id"])
            \in DestinationMethods
      BY <2>1 DEF DestinationMethods
    <3> QED BY <2>1, <3>1, MethodIs
  <2> QED BY <1>1, <2>1
<1> QED BY <1>1, <1>2, <1>3 DEF Conveys

\* The methods whose cases are in ClientCases.
ClientMethods ==
  {Method("CLIENT_CLOSE", CorrelatedMessageFlyweight, Uncorrelated),
   Method("CLIENT_KEEPALIVE", CorrelatedMessageFlyweight, Uncorrelated)}

\* Each of them is conveyed.
LEMMA ClientConveyed ==
  ASSUME ~Frames
  PROVE  /\ Conveys(ClientMethods, ClientCases)
         /\ DOMAIN ClientCases = {"CLIENT_CLOSE", "CLIENT_KEEPALIVE"}
<1>1. DOMAIN ClientCases = {"CLIENT_CLOSE", "CLIENT_KEEPALIVE"}
  BY DEF ClientCases
<1>2. ASSUME NEW method \in ClientMethods
      PROVE  method.type \in DOMAIN ClientCases /\ Fits(method, ClientCases[method.type])
  <2>1. CASE method = Method("CLIENT_CLOSE", CorrelatedMessageFlyweight, Uncorrelated)
    BY <1>1, <2>1, MethodIs, ClientCloseFits
  <2>2. CASE method = Method("CLIENT_KEEPALIVE", CorrelatedMessageFlyweight, Uncorrelated)
    BY <1>1, <2>2, MethodIs, ClientKeepaliveFits
  <2> QED BY <2>1, <2>2 DEF ClientMethods
<1>3. ASSUME NEW type \in DOMAIN ClientCases PROVE \E method \in ClientMethods : method.type = type
  <2>1. CASE type = "CLIENT_CLOSE"
    <3>1. Method("CLIENT_CLOSE", CorrelatedMessageFlyweight, Uncorrelated)
            \in ClientMethods
      BY <2>1 DEF ClientMethods
    <3> QED BY <2>1, <3>1, MethodIs
  <2>2. CASE type = "CLIENT_KEEPALIVE"
    <3>1. Method("CLIENT_KEEPALIVE", CorrelatedMessageFlyweight, Uncorrelated)
            \in ClientMethods
      BY <2>2 DEF ClientMethods
    <3> QED BY <2>2, <3>1, MethodIs
  <2> QED BY <1>1, <2>1, <2>2
<1> QED BY <1>1, <1>2, <1>3 DEF Conveys

\* The methods whose cases are in CounterCases.
CounterMethods ==
  {Method("ADD_COUNTER", CounterMessageFlyweight, AsNamed),
   Method("REMOVE_COUNTER", RemoveCounterFlyweight, AsNamed),
   Method("ADD_STATIC_COUNTER", StaticCounterMessageFlyweight, AsNamed),
   Method("TERMINATE_DRIVER", TerminateDriverFlyweight, Uncorrelated)}

\* Each of them is conveyed.
LEMMA CounterConveyed ==
  ASSUME ~Frames
  PROVE  /\ Conveys(CounterMethods, CounterCases)
         /\ DOMAIN CounterCases = {"ADD_COUNTER", "REMOVE_COUNTER", "ADD_STATIC_COUNTER",
                "TERMINATE_DRIVER"}
<1>1. DOMAIN CounterCases = {"ADD_COUNTER", "REMOVE_COUNTER", "ADD_STATIC_COUNTER",
            "TERMINATE_DRIVER"}
  BY DEF CounterCases
<1>2. ASSUME NEW method \in CounterMethods
      PROVE  method.type \in DOMAIN CounterCases /\ Fits(method, CounterCases[method.type])
  <2>1. CASE method = Method("ADD_COUNTER", CounterMessageFlyweight, AsNamed)
    BY <1>1, <2>1, MethodIs, AddCounterFits
  <2>2. CASE method = Method("REMOVE_COUNTER", RemoveCounterFlyweight, AsNamed)
    BY <1>1, <2>2, MethodIs, RemoveCounterFits
  <2>3. CASE method = Method("ADD_STATIC_COUNTER", StaticCounterMessageFlyweight, AsNamed)
    BY <1>1, <2>3, MethodIs, AddStaticCounterFits
  <2>4. CASE method = Method("TERMINATE_DRIVER", TerminateDriverFlyweight, Uncorrelated)
    BY <1>1, <2>4, MethodIs, TerminateDriverFits
  <2> QED BY <2>1, <2>2, <2>3, <2>4 DEF CounterMethods
<1>3. ASSUME NEW type \in DOMAIN CounterCases PROVE \E method \in CounterMethods : method.type = type
  <2>1. CASE type = "ADD_COUNTER"
    <3>1. Method("ADD_COUNTER", CounterMessageFlyweight, AsNamed)
            \in CounterMethods
      BY <2>1 DEF CounterMethods
    <3> QED BY <2>1, <3>1, MethodIs
  <2>2. CASE type = "REMOVE_COUNTER"
    <3>1. Method("REMOVE_COUNTER", RemoveCounterFlyweight, AsNamed)
            \in CounterMethods
      BY <2>2 DEF CounterMethods
    <3> QED BY <2>2, <3>1, MethodIs
  <2>3. CASE type = "ADD_STATIC_COUNTER"
    <3>1. Method("ADD_STATIC_COUNTER", StaticCounterMessageFlyweight, AsNamed)
            \in CounterMethods
      BY <2>3 DEF CounterMethods
    <3> QED BY <2>3, <3>1, MethodIs
  <2>4. CASE type = "TERMINATE_DRIVER"
    <3>1. Method("TERMINATE_DRIVER", TerminateDriverFlyweight, Uncorrelated)
            \in CounterMethods
      BY <2>4 DEF CounterMethods
    <3> QED BY <2>4, <3>1, MethodIs
  <2> QED BY <1>1, <2>1, <2>2, <2>3, <2>4
<1> QED BY <1>1, <1>2, <1>3 DEF Conveys

\* The methods whose cases are in ImageCases.
ImageMethods ==
  {Method("REMOVE_DESTINATION_BY_ID", DestinationByIdMessageFlyweight, AsNamed),
   Method("REJECT_IMAGE", RejectImageFlyweight, AsNamed),
   Method("GET_NEXT_AVAILABLE_SESSION_ID", GetNextAvailableSessionIdMessageFlyweight, AsNamed)}

\* Each of them is conveyed.
LEMMA ImageConveyed ==
  ASSUME ~Frames
  PROVE  /\ Conveys(ImageMethods, ImageCases)
         /\ DOMAIN ImageCases = {"REMOVE_DESTINATION_BY_ID", "REJECT_IMAGE",
                "GET_NEXT_AVAILABLE_SESSION_ID"}
<1>1. DOMAIN ImageCases = {"REMOVE_DESTINATION_BY_ID", "REJECT_IMAGE",
            "GET_NEXT_AVAILABLE_SESSION_ID"}
  BY DEF ImageCases
<1>2. ASSUME NEW method \in ImageMethods
      PROVE  method.type \in DOMAIN ImageCases /\ Fits(method, ImageCases[method.type])
  <2>1. CASE method = Method("REMOVE_DESTINATION_BY_ID", DestinationByIdMessageFlyweight, AsNamed)
    BY <1>1, <2>1, MethodIs, RemoveDestinationByIdFits
  <2>2. CASE method = Method("REJECT_IMAGE", RejectImageFlyweight, AsNamed)
    BY <1>1, <2>2, MethodIs, RejectImageFits
  <2>3. CASE method = Method("GET_NEXT_AVAILABLE_SESSION_ID", GetNextAvailableSessionIdMessageFlyweight, AsNamed)
    BY <1>1, <2>3, MethodIs, GetNextAvailableSessionIdFits
  <2> QED BY <2>1, <2>2, <2>3 DEF ImageMethods
<1>3. ASSUME NEW type \in DOMAIN ImageCases PROVE \E method \in ImageMethods : method.type = type
  <2>1. CASE type = "REMOVE_DESTINATION_BY_ID"
    <3>1. Method("REMOVE_DESTINATION_BY_ID", DestinationByIdMessageFlyweight, AsNamed)
            \in ImageMethods
      BY <2>1 DEF ImageMethods
    <3> QED BY <2>1, <3>1, MethodIs
  <2>2. CASE type = "REJECT_IMAGE"
    <3>1. Method("REJECT_IMAGE", RejectImageFlyweight, AsNamed)
            \in ImageMethods
      BY <2>2 DEF ImageMethods
    <3> QED BY <2>2, <3>1, MethodIs
  <2>3. CASE type = "GET_NEXT_AVAILABLE_SESSION_ID"
    <3>1. Method("GET_NEXT_AVAILABLE_SESSION_ID", GetNextAvailableSessionIdMessageFlyweight, AsNamed)
            \in ImageMethods
      BY <2>3 DEF ImageMethods
    <3> QED BY <2>3, <3>1, MethodIs
  <2> QED BY <1>1, <2>1, <2>2, <2>3
<1> QED BY <1>1, <1>2, <1>3 DEF Conveys

\* The methods whose cases are in ReadyCases.
ReadyMethods ==
  {Method("ON_ERROR", ErrorResponseFlyweight, AsNamed),
   Method("ON_AVAILABLE_IMAGE", ImageBuffersReadyFlyweight, AsNamed)}
  \cup {Method(type, PublicationBuffersReadyFlyweight, AsNamed) :
           type \in {"ON_PUBLICATION_READY", "ON_EXCLUSIVE_PUBLICATION_READY"}}

\* Each of them is conveyed.
LEMMA ReadyConveyed ==
  ASSUME ~Frames
  PROVE  /\ Conveys(ReadyMethods, ReadyCases)
         /\ DOMAIN ReadyCases = {"ON_ERROR", "ON_PUBLICATION_READY",
                "ON_EXCLUSIVE_PUBLICATION_READY", "ON_AVAILABLE_IMAGE"}
<1>1. DOMAIN ReadyCases = {"ON_ERROR", "ON_PUBLICATION_READY", "ON_EXCLUSIVE_PUBLICATION_READY",
            "ON_AVAILABLE_IMAGE"}
  BY DEF ReadyCases, ++
<1>2. ASSUME NEW method \in ReadyMethods
      PROVE  method.type \in DOMAIN ReadyCases /\ Fits(method, ReadyCases[method.type])
  <2>1. CASE method = Method("ON_ERROR", ErrorResponseFlyweight, AsNamed)
    BY <1>1, <2>1, MethodIs, OnErrorFits
  <2>2. ASSUME NEW type \in {"ON_PUBLICATION_READY", "ON_EXCLUSIVE_PUBLICATION_READY"},
               method = Method(type, PublicationBuffersReadyFlyweight, AsNamed)
        PROVE  method.type \in DOMAIN ReadyCases /\ Fits(method, ReadyCases[method.type])
    BY <1>1, <2>2, MethodIs, PublicationReadyFits
  <2>3. CASE method = Method("ON_AVAILABLE_IMAGE", ImageBuffersReadyFlyweight, AsNamed)
    BY <1>1, <2>3, MethodIs, OnAvailableImageFits
  <2> QED BY <2>1, <2>2, <2>3 DEF ReadyMethods
<1>3. ASSUME NEW type \in DOMAIN ReadyCases PROVE \E method \in ReadyMethods : method.type = type
  <2>1. CASE type = "ON_ERROR"
    <3>1. Method("ON_ERROR", ErrorResponseFlyweight, AsNamed)
            \in ReadyMethods
      BY <2>1 DEF ReadyMethods
    <3> QED BY <2>1, <3>1, MethodIs
  <2>2. CASE type \in {"ON_PUBLICATION_READY", "ON_EXCLUSIVE_PUBLICATION_READY"}
    <3>1. Method(type, PublicationBuffersReadyFlyweight, AsNamed)
            \in ReadyMethods
      BY <2>2 DEF ReadyMethods
    <3> QED BY <2>2, <3>1, MethodIs
  <2>3. CASE type = "ON_AVAILABLE_IMAGE"
    <3>1. Method("ON_AVAILABLE_IMAGE", ImageBuffersReadyFlyweight, AsNamed)
            \in ReadyMethods
      BY <2>3 DEF ReadyMethods
    <3> QED BY <2>3, <3>1, MethodIs
  <2> QED BY <1>1, <2>1, <2>2, <2>3
<1> QED BY <1>1, <1>2, <1>3 DEF Conveys

\* The methods whose cases are in AnswerCases.
AnswerMethods ==
  {Method("ON_SUBSCRIPTION_READY", SubscriptionReadyFlyweight, AsNamed),
   Method("ON_OPERATION_SUCCESS", OperationSucceededFlyweight, AsNamed),
   Method("ON_UNAVAILABLE_IMAGE", ImageMessageFlyweight, [stream_id |-> "zero"]),
   Method("ON_COUNTER_READY", CounterUpdateFlyweight, AsNamed),
   Method("ON_UNAVAILABLE_COUNTER", CounterUpdateFlyweight, [correlation_id |-> "registration_id"]),
   Method("ON_CLIENT_TIMEOUT", ClientTimeoutFlyweight, AsNamed)}

\* Each of them is conveyed.
LEMMA AnswerConveyed ==
  ASSUME ~Frames
  PROVE  /\ Conveys(AnswerMethods, AnswerCases)
         /\ DOMAIN AnswerCases = {"ON_SUBSCRIPTION_READY", "ON_OPERATION_SUCCESS",
                "ON_UNAVAILABLE_IMAGE", "ON_COUNTER_READY", "ON_UNAVAILABLE_COUNTER",
                "ON_CLIENT_TIMEOUT"}
<1>1. DOMAIN AnswerCases = {"ON_SUBSCRIPTION_READY", "ON_OPERATION_SUCCESS",
            "ON_UNAVAILABLE_IMAGE", "ON_COUNTER_READY", "ON_UNAVAILABLE_COUNTER",
            "ON_CLIENT_TIMEOUT"}
  BY DEF AnswerCases
<1>2. ASSUME NEW method \in AnswerMethods
      PROVE  method.type \in DOMAIN AnswerCases /\ Fits(method, AnswerCases[method.type])
  <2>1. CASE method = Method("ON_SUBSCRIPTION_READY", SubscriptionReadyFlyweight, AsNamed)
    BY <1>1, <2>1, MethodIs, OnSubscriptionReadyFits
  <2>2. CASE method = Method("ON_OPERATION_SUCCESS", OperationSucceededFlyweight, AsNamed)
    BY <1>1, <2>2, MethodIs, OnOperationSuccessFits
  <2>3. CASE method = Method("ON_UNAVAILABLE_IMAGE", ImageMessageFlyweight, [stream_id |-> "zero"])
    BY <1>1, <2>3, MethodIs, OnUnavailableImageFits
  <2>4. CASE method = Method("ON_COUNTER_READY", CounterUpdateFlyweight, AsNamed)
    BY <1>1, <2>4, MethodIs, OnCounterReadyFits
  <2>5. CASE method = Method("ON_UNAVAILABLE_COUNTER", CounterUpdateFlyweight, [correlation_id |-> "registration_id"])
    BY <1>1, <2>5, MethodIs, OnUnavailableCounterFits
  <2>6. CASE method = Method("ON_CLIENT_TIMEOUT", ClientTimeoutFlyweight, AsNamed)
    BY <1>1, <2>6, MethodIs, OnClientTimeoutFits
  <2> QED BY <2>1, <2>2, <2>3, <2>4, <2>5, <2>6 DEF AnswerMethods
<1>3. ASSUME NEW type \in DOMAIN AnswerCases PROVE \E method \in AnswerMethods : method.type = type
  <2>1. CASE type = "ON_SUBSCRIPTION_READY"
    <3>1. Method("ON_SUBSCRIPTION_READY", SubscriptionReadyFlyweight, AsNamed)
            \in AnswerMethods
      BY <2>1 DEF AnswerMethods
    <3> QED BY <2>1, <3>1, MethodIs
  <2>2. CASE type = "ON_OPERATION_SUCCESS"
    <3>1. Method("ON_OPERATION_SUCCESS", OperationSucceededFlyweight, AsNamed)
            \in AnswerMethods
      BY <2>2 DEF AnswerMethods
    <3> QED BY <2>2, <3>1, MethodIs
  <2>3. CASE type = "ON_UNAVAILABLE_IMAGE"
    <3>1. Method("ON_UNAVAILABLE_IMAGE", ImageMessageFlyweight, [stream_id |-> "zero"])
            \in AnswerMethods
      BY <2>3 DEF AnswerMethods
    <3> QED BY <2>3, <3>1, MethodIs
  <2>4. CASE type = "ON_COUNTER_READY"
    <3>1. Method("ON_COUNTER_READY", CounterUpdateFlyweight, AsNamed)
            \in AnswerMethods
      BY <2>4 DEF AnswerMethods
    <3> QED BY <2>4, <3>1, MethodIs
  <2>5. CASE type = "ON_UNAVAILABLE_COUNTER"
    <3>1. Method("ON_UNAVAILABLE_COUNTER", CounterUpdateFlyweight, [correlation_id |-> "registration_id"])
            \in AnswerMethods
      BY <2>5 DEF AnswerMethods
    <3> QED BY <2>5, <3>1, MethodIs
  <2>6. CASE type = "ON_CLIENT_TIMEOUT"
    <3>1. Method("ON_CLIENT_TIMEOUT", ClientTimeoutFlyweight, AsNamed)
            \in AnswerMethods
      BY <2>6 DEF AnswerMethods
    <3> QED BY <2>6, <3>1, MethodIs
  <2> QED BY <1>1, <2>1, <2>2, <2>3, <2>4, <2>5, <2>6
<1> QED BY <1>1, <1>2, <1>3 DEF Conveys

\* The methods whose cases are in LateCases.
LateMethods ==
  {Method("ON_STATIC_COUNTER", StaticCounterFlyweight, AsNamed),
   Method("ON_NEXT_AVAILABLE_SESSION_ID", NextAvailableSessionIdFlyweight, AsNamed)}
  \cup {Method("ON_PUBLICATION_ERROR", PublicationErrorFrameFlyweight, [address |-> a]) :
           a \in {"address", "zero"}}

\* Each of them is conveyed.
LEMMA LateConveyed ==
  ASSUME ~Frames
  PROVE  /\ Conveys(LateMethods, LateCases)
         /\ DOMAIN LateCases = {"ON_STATIC_COUNTER", "ON_NEXT_AVAILABLE_SESSION_ID",
                "ON_PUBLICATION_ERROR"}
<1>1. DOMAIN LateCases = {"ON_STATIC_COUNTER", "ON_NEXT_AVAILABLE_SESSION_ID",
            "ON_PUBLICATION_ERROR"}
  BY DEF LateCases
<1>2. ASSUME NEW method \in LateMethods
      PROVE  method.type \in DOMAIN LateCases /\ Fits(method, LateCases[method.type])
  <2>1. CASE method = Method("ON_STATIC_COUNTER", StaticCounterFlyweight, AsNamed)
    BY <1>1, <2>1, MethodIs, OnStaticCounterFits
  <2>2. CASE method = Method("ON_NEXT_AVAILABLE_SESSION_ID", NextAvailableSessionIdFlyweight, AsNamed)
    BY <1>1, <2>2, MethodIs, OnNextAvailableSessionIdFits
  <2>3. ASSUME NEW a \in {"address", "zero"},
               method = Method("ON_PUBLICATION_ERROR", PublicationErrorFrameFlyweight, [address |-> a])
        PROVE  method.type \in DOMAIN LateCases /\ Fits(method, LateCases[method.type])
    BY <1>1, <2>3, MethodIs, OnPublicationErrorFits
  <2> QED BY <2>1, <2>2, <2>3 DEF LateMethods
<1>3. ASSUME NEW type \in DOMAIN LateCases PROVE \E method \in LateMethods : method.type = type
  <2>1. CASE type = "ON_STATIC_COUNTER"
    <3>1. Method("ON_STATIC_COUNTER", StaticCounterFlyweight, AsNamed)
            \in LateMethods
      BY <2>1 DEF LateMethods
    <3> QED BY <2>1, <3>1, MethodIs
  <2>2. CASE type = "ON_NEXT_AVAILABLE_SESSION_ID"
    <3>1. Method("ON_NEXT_AVAILABLE_SESSION_ID", NextAvailableSessionIdFlyweight, AsNamed)
            \in LateMethods
      BY <2>2 DEF LateMethods
    <3> QED BY <2>2, <3>1, MethodIs
  <2>3. CASE type = "ON_PUBLICATION_ERROR"
    <3>1. Method("ON_PUBLICATION_ERROR", PublicationErrorFrameFlyweight, [address |-> "zero"])
            \in LateMethods
      BY <2>3 DEF LateMethods
    <3> QED BY <2>3, <3>1, MethodIs
  <2> QED BY <1>1, <2>1, <2>2, <2>3
<1> QED BY <1>1, <1>2, <1>3 DEF Conveys

\* The methods whose cases are in DataCases.
DataMethods ==
  {Method("DATA", DataHeaderFlyweight, [version |-> "zero"]),
   Method("SETUP", SetupFlyweight, [version |-> "zero"]),
   Method("RTTM", RttMeasurementFlyweight, [version |-> "zero", flags |-> "is_reply"])}

\* Each of them is conveyed.
LEMMA DataConveyed ==
  ASSUME Frames
  PROVE  /\ Conveys(DataMethods, DataCases)
         /\ DOMAIN DataCases = {"DATA", "SETUP", "RTTM"}
<1>1. DOMAIN DataCases = {"DATA", "SETUP", "RTTM"}
  BY DEF DataCases
<1>2. ASSUME NEW method \in DataMethods
      PROVE  method.type \in DOMAIN DataCases /\ Fits(method, DataCases[method.type])
  <2>1. CASE method = Method("DATA", DataHeaderFlyweight, [version |-> "zero"])
    BY <1>1, <2>1, MethodIs, DataFits
  <2>2. CASE method = Method("SETUP", SetupFlyweight, [version |-> "zero"])
    BY <1>1, <2>2, MethodIs, SetupFits
  <2>3. CASE method = Method("RTTM", RttMeasurementFlyweight, [version |-> "zero", flags |-> "is_reply"])
    BY <1>1, <2>3, MethodIs, RttmFits
  <2> QED BY <2>1, <2>2, <2>3 DEF DataMethods
<1>3. ASSUME NEW type \in DOMAIN DataCases PROVE \E method \in DataMethods : method.type = type
  <2>1. CASE type = "DATA"
    <3>1. Method("DATA", DataHeaderFlyweight, [version |-> "zero"])
            \in DataMethods
      BY <2>1 DEF DataMethods
    <3> QED BY <2>1, <3>1, MethodIs
  <2>2. CASE type = "SETUP"
    <3>1. Method("SETUP", SetupFlyweight, [version |-> "zero"])
            \in DataMethods
      BY <2>2 DEF DataMethods
    <3> QED BY <2>2, <3>1, MethodIs
  <2>3. CASE type = "RTTM"
    <3>1. Method("RTTM", RttMeasurementFlyweight, [version |-> "zero", flags |-> "is_reply"])
            \in DataMethods
      BY <2>3 DEF DataMethods
    <3> QED BY <2>3, <3>1, MethodIs
  <2> QED BY <1>1, <2>1, <2>2, <2>3
<1> QED BY <1>1, <1>2, <1>3 DEF Conveys


\* The commands.
LEMMA CommandsConveyed ==
  ASSUME ~Frames
  PROVE  Conveys(Commands, CommandCases)
<1> DEFINE two == PublicationCases ++ SubscriptionCases
           three == two ++ DestinationCases
           four == three ++ ClientCases
           five == four ++ CounterCases
           six == five ++ ImageCases
           twoMethods == PublicationMethods \cup SubscriptionMethods
           threeMethods == twoMethods \cup DestinationMethods
           fourMethods == threeMethods \cup ClientMethods
           fiveMethods == fourMethods \cup CounterMethods
           sixMethods == fiveMethods \cup ImageMethods
<1>1. Commands = sixMethods
  <2>1. PublicationCommands = PublicationMethods /\ SubscriptionCommands = SubscriptionMethods
    BY DEF PublicationCommands, PublicationMethods, SubscriptionCommands, SubscriptionMethods
  <2> DEFINE byId == Method("REMOVE_DESTINATION_BY_ID", DestinationByIdMessageFlyweight, AsNamed)
             close == Method("CLIENT_CLOSE", CorrelatedMessageFlyweight, Uncorrelated)
             keepalive == Method("CLIENT_KEEPALIVE", CorrelatedMessageFlyweight, Uncorrelated)
             end == Method("TERMINATE_DRIVER", TerminateDriverFlyweight, Uncorrelated)
             reject == Method("REJECT_IMAGE", RejectImageFlyweight, AsNamed)
             session == Method("GET_NEXT_AVAILABLE_SESSION_ID",
                               GetNextAvailableSessionIdMessageFlyweight, AsNamed)
             add == Method("ADD_COUNTER", CounterMessageFlyweight, AsNamed)
             remove == Method("REMOVE_COUNTER", RemoveCounterFlyweight, AsNamed)
             static == Method("ADD_STATIC_COUNTER", StaticCounterMessageFlyweight, AsNamed)
  <2>2. DestinationCommands = DestinationMethods \cup {byId}
    BY DEF DestinationCommands, DestinationMethods
  <2>3. /\ CounterCommands = {add, remove} /\ StaticCounterCommands = {static}
        /\ LifecycleCommands = {close, end, reject} /\ SessionCommands = {session, keepalive}
    BY DEF CounterCommands, StaticCounterCommands, LifecycleCommands, SessionCommands
  <2>4. /\ ClientMethods = {close, keepalive} /\ CounterMethods = {add, remove, static, end}
        /\ ImageMethods = {byId, reject, session}
    BY DEF ClientMethods, CounterMethods, ImageMethods
  <2> HIDE DEF byId, close, keepalive, end, reject, session, add, remove, static
  <2> QED BY <2>1, <2>2, <2>3, <2>4 DEF Commands
<1>2. CommandCases = six
  BY DEF CommandCases
<1>3. Conveys(twoMethods, two) /\ DOMAIN two = DOMAIN PublicationCases \cup DOMAIN SubscriptionCases
  BY PublicationConveyed, SubscriptionConveyed, ConveysMore, Merged
<1> HIDE DEF two, twoMethods
<1>4. Conveys(threeMethods, three) /\ DOMAIN three = DOMAIN two \cup DOMAIN DestinationCases
  <2>1. DOMAIN two \cap DOMAIN DestinationCases = {}
    BY <1>3, PublicationConveyed, SubscriptionConveyed, DestinationConveyed
  <2> QED BY <1>3, <2>1, DestinationConveyed, ConveysMore, Merged
<1> HIDE DEF three, threeMethods
<1>5. Conveys(fourMethods, four) /\ DOMAIN four = DOMAIN three \cup DOMAIN ClientCases
  <2>1. DOMAIN three \cap DOMAIN ClientCases = {}
    BY <1>3, <1>4, PublicationConveyed, SubscriptionConveyed, DestinationConveyed, ClientConveyed
  <2> QED BY <1>4, <2>1, ClientConveyed, ConveysMore, Merged
<1> HIDE DEF four, fourMethods
<1>6. Conveys(fiveMethods, five) /\ DOMAIN five = DOMAIN four \cup DOMAIN CounterCases
  <2>1. DOMAIN four \cap DOMAIN CounterCases = {}
    BY <1>3, <1>4, <1>5, PublicationConveyed, SubscriptionConveyed, DestinationConveyed,
       ClientConveyed, CounterConveyed
  <2> QED BY <1>5, <2>1, CounterConveyed, ConveysMore, Merged
<1> HIDE DEF five, fiveMethods
<1>7. Conveys(sixMethods, six)
  <2>1. DOMAIN five \cap DOMAIN ImageCases = {}
    BY <1>3, <1>4, <1>5, <1>6, PublicationConveyed, SubscriptionConveyed, DestinationConveyed,
       ClientConveyed, CounterConveyed, ImageConveyed
  <2> QED BY <1>6, <2>1, ImageConveyed, ConveysMore
<1> HIDE DEF six, sixMethods
<1> QED BY <1>1, <1>2, <1>7

\* The events.
LEMMA EventsConveyed ==
  ASSUME ~Frames
  PROVE  Conveys(Events, EventCases)
<1> DEFINE two == ReadyCases ++ AnswerCases
           three == two ++ LateCases
           twoMethods == ReadyMethods \cup AnswerMethods
           threeMethods == twoMethods \cup LateMethods
<1>1. Events = threeMethods
  <2> DEFINE error == Method("ON_ERROR", ErrorResponseFlyweight, AsNamed)
             ready(type) == Method(type, PublicationBuffersReadyFlyweight, AsNamed)
             subscribed == Method("ON_SUBSCRIPTION_READY", SubscriptionReadyFlyweight, AsNamed)
             success == Method("ON_OPERATION_SUCCESS", OperationSucceededFlyweight, AsNamed)
             image == Method("ON_AVAILABLE_IMAGE", ImageBuffersReadyFlyweight, AsNamed)
             gone == Method("ON_UNAVAILABLE_IMAGE", ImageMessageFlyweight, [stream_id |-> "zero"])
             counter == Method("ON_COUNTER_READY", CounterUpdateFlyweight, AsNamed)
             freed == Method("ON_UNAVAILABLE_COUNTER", CounterUpdateFlyweight,
                             [correlation_id |-> "registration_id"])
             timeout == Method("ON_CLIENT_TIMEOUT", ClientTimeoutFlyweight, AsNamed)
             static == Method("ON_STATIC_COUNTER", StaticCounterFlyweight, AsNamed)
             session == Method("ON_NEXT_AVAILABLE_SESSION_ID", NextAvailableSessionIdFlyweight,
                               AsNamed)
  <2>1. /\ ReadyEvents = {error, ready("ON_PUBLICATION_READY"),
                          ready("ON_EXCLUSIVE_PUBLICATION_READY"), subscribed, success}
        /\ ImageEvents = {image, gone}
        /\ CounterEvents = {counter, freed, timeout, static, session}
    BY DEF ReadyEvents, ImageEvents, CounterEvents
  <2>2. ReadyMethods = {error, image} \cup {ready("ON_PUBLICATION_READY"),
                                            ready("ON_EXCLUSIVE_PUBLICATION_READY")}
    BY DEF ReadyMethods
  <2>3. AnswerMethods = {subscribed, success, gone, counter, freed, timeout}
    BY DEF AnswerMethods
  <2>4. LateMethods = {static, session} \cup PublicationErrors
    BY DEF LateMethods, PublicationErrors
  <2> HIDE DEF error, ready, subscribed, success, image, gone, counter, freed, timeout, static,
               session
  <2> QED BY <2>1, <2>2, <2>3, <2>4 DEF Events
<1>2. EventCases = three
  BY DEF EventCases
<1>3. Conveys(twoMethods, two) /\ DOMAIN two = DOMAIN ReadyCases \cup DOMAIN AnswerCases
  BY ReadyConveyed, AnswerConveyed, ConveysMore, Merged
<1> HIDE DEF two, twoMethods
<1>4. Conveys(threeMethods, three)
  <2>1. DOMAIN two \cap DOMAIN LateCases = {}
    BY <1>3, ReadyConveyed, AnswerConveyed, LateConveyed
  <2> QED BY <1>3, <2>1, LateConveyed, ConveysMore
<1> HIDE DEF three, threeMethods
<1> QED BY <1>1, <1>2, <1>4

\* The control frames.
LEMMA ControlConveyed ==
  ASSUME Frames
  PROVE  Conveys(ControlFrames, ControlCases)
<1> DEFINE sm == Method("SM", StatusMessageFlyweight, [version |-> "zero"])
           grouped == Method("SM", GroupedStatusMessage, [version |-> "zero"])
           nak == Method("NAK", NakFlyweight, [version |-> "zero", flags |-> "zero"])
           rttm == Method("RTTM", RttMeasurementFlyweight,
                     [[version |-> "zero", flags |-> "zero"] EXCEPT !.flags = "is_reply"])
           err == Method("ERR", ErrorFlyweight,
                     [group_tag |-> "zero"] ++ [version |-> "zero", flags |-> "zero"])
           setup == Method("RSP_SETUP", ResponseSetupFlyweight,
                      [version |-> "zero", flags |-> "zero"])
<1>1. ControlFrames = {sm, grouped, nak, rttm, err, setup}
  BY DEF ControlFrames
<1>2. DOMAIN ControlCases = {"SM", "NAK", "RTTM", "ERR", "RSP_SETUP"}
  BY DEF ControlCases
<1>3. /\ sm.type = "SM" /\ grouped.type = "SM" /\ nak.type = "NAK" /\ rttm.type = "RTTM"
      /\ err.type = "ERR" /\ setup.type = "RSP_SETUP"
  BY DEF Method
<1>4. /\ Fits(sm, ControlCases["SM"]) /\ Fits(grouped, ControlCases["SM"])
      /\ Fits(nak, ControlCases["NAK"]) /\ Fits(rttm, ControlCases["RTTM"])
      /\ Fits(err, ControlCases["ERR"]) /\ Fits(setup, ControlCases["RSP_SETUP"])
  BY StatusMessageFits, GroupedStatusMessageFits, NakFits, RttMeasurementFits, ErrorFits,
     ResponseSetupFits
<1> HIDE DEF sm, grouped, nak, rttm, err, setup
<1> QED BY <1>1, <1>2, <1>3, <1>4 DEF Conveys

\* On each side there is a case for each method, and the other way round.
LEMMA MethodsConveyed ==
  ASSUME side \in Sides
  PROVE  Conveys(Methods, Cases)
<1>1. CASE side = "commands"
  <2>1. Methods = Commands /\ Cases = CommandCases /\ ~Frames
    BY <1>1 DEF Methods, Cases, Frames
  <2> QED BY <2>1, CommandsConveyed
<1>2. CASE side = "events"
  <2>1. Methods = Events /\ Cases = EventCases /\ ~Frames
    BY <1>2 DEF Methods, Cases, Frames
  <2> QED BY <2>1, EventsConveyed
<1>3. CASE side = "control"
  <2>1. Methods = ControlFrames /\ Cases = ControlCases /\ Frames
    BY <1>3 DEF Methods, Cases, Frames
  <2> QED BY <2>1, ControlConveyed
<1>4. CASE side = "data"
  <2>1. Methods = DataFrames /\ Cases = DataCases /\ Frames
    BY <1>4 DEF Methods, Cases, Frames
  <2>2. DataFrames = DataMethods
    BY DEF DataFrames, DataMethods
  <2> QED BY <2>1, <2>2, DataConveyed
<1> QED BY <1>1, <1>2, <1>3, <1>4 DEF Sides

-----------------------------------------------------------------------------
(* The messages of a proxy and those of others.                             *)

\* A message that a method wrote.
SentBy(methods, message) ==
  \E method \in methods : \E lengths \in [DOMAIN method.layout.parts -> Nat] :
    \E revoke \in BOOLEAN :
      /\ message.type = method.type
      /\ message.arguments = Arguments(method, lengths, revoke)
      /\ Written(message.bytes, method, lengths, revoke)

\* What may be in flight: nothing in it is stale but in the flags of a method, and what
\* has arguments is from a method.
InFlight(methods, message) ==
  /\ \E n \in Nat : DOMAIN message.bytes = 0 .. n - 1
  /\ Clean(message.type, message.bytes)
  /\ message.arguments # None => SentBy(methods, message)

\* A message that was cut off has lengths.
LEMMA TruncatedLengths ==
  ASSUME NEW method, Stores(method), NEW asked \in [DOMAIN method.layout.parts -> PartLengths]
  PROVE  Truncated(method, asked) \in [DOMAIN method.layout.parts -> Nat]
<1> DEFINE parts == method.layout.parts
<1>1. ScratchSize \in Nat /\ PartLengths \subseteq Nat /\ ScratchSize >= ErrorFlyweight.minimum
  BY SizesAssumption
<1>2. ErrorFlyweight.minimum = 40
  BY DEF ErrorFlyweight, Variable, SIZE_OF_INT
<1>3. ScratchSize >= 40
  BY <1>1, <1>2
<1>4. Frames /\ parts # <<>> => method.layout.minimum = 40
  BY DEF Stores
<1>5. ASSUME NEW i \in DOMAIN parts
      PROVE  (IF Frames THEN Min({asked[i], ScratchSize - method.layout.minimum})
              ELSE asked[i]) \in Nat
  <2>1. asked[i] \in Nat
    BY <1>1
  <2>2. CASE Frames
    <3>1. parts # <<>>
      BY <1>5
    <3>2. ScratchSize - method.layout.minimum \in Nat
      BY <1>1, <1>3, <1>4, <2>2, <3>1
    <3> DEFINE room == ScratchSize - method.layout.minimum
               length == asked[i]
    <3>3. room \in Nat /\ length \in Nat
      BY <2>1, <3>2
    <3> HIDE DEF room, length
    <3>4. \E x \in {length, room} : \A y \in {length, room} : x =< y
      <4>1. CASE length <= room
        BY <3>3, <4>1
      <4>2. CASE room <= length
        BY <3>3, <4>2
      <4> QED BY <3>3, <4>1, <4>2
    <3>5. Min({length, room}) \in {length, room}
      BY <3>4 DEF Min
    <3>6. Min({length, room}) \in Nat
      BY <3>3, <3>5
    <3> QED BY <2>2, <3>6 DEF length, room
  <2>3. CASE ~Frames
    BY <2>1, <2>3
  <2> QED BY <2>2, <2>3
<1>6. DOMAIN asked = DOMAIN parts
  OBVIOUS
<1> HIDE DEF parts
<1>7. Truncated(method, asked) =
        [i \in DOMAIN parts |-> IF Frames THEN Min({asked[i], ScratchSize - method.layout.minimum})
                                ELSE asked[i]]
  BY <1>6 DEF Truncated
<1> QED BY <1>5, <1>7 DEF parts

\* What a method sends, and what it leaves in the scratch buffer.
LEMMA SentMessage ==
  ASSUME NEW method \in Methods, Stores(method), DOMAIN scratch = 0 .. ScratchSize - 1,
         NEW revoke \in BOOLEAN, NEW flags \in StaleFlags(scratch),
         NEW asked \in [DOMAIN method.layout.parts -> PartLengths],
         NEW lengths, lengths = Truncated(method, asked),
         NEW n, n = MessageLength(method, lengths), n <= ScratchSize,
         NEW written, written = Encode(scratch, method, lengths, flags, revoke),
         NEW message, message = Message(method.type, [i \in 0 .. n - 1 |-> written[i]],
                                        Arguments(method, lengths, revoke))
  PROVE  InFlight(Methods, message) /\ DOMAIN Aged(written) = 0 .. ScratchSize - 1
<1>1. lengths \in [DOMAIN method.layout.parts -> Nat]
  BY TruncatedLengths
<1>2. flags \in Nat
  BY DEF StaleFlags
<1> DEFINE bytes == [i \in 0 .. n - 1 |-> written[i]]
<1>3. FirstOf(bytes, n, Encode(scratch, method, lengths, flags, revoke))
  BY DEF FirstOf
<1>4. /\ message.type = method.type /\ message.bytes = bytes
      /\ message.arguments = Arguments(method, lengths, revoke)
  BY DEF Message
<1>5. DOMAIN bytes = 0 .. n - 1
  OBVIOUS
<1> HIDE DEF bytes
<1>6. /\ DOMAIN Encode(scratch, method, lengths, flags, revoke) = DOMAIN scratch
      /\ Written(bytes, method, lengths, revoke) /\ Clean(method.type, bytes) /\ n \in Nat
  BY <1>1, <1>2, <1>3, EncodeWrites
<1>7. SentBy(Methods, message)
  BY <1>1, <1>4, <1>6 DEF SentBy
<1>8. DOMAIN Aged(written) = 0 .. ScratchSize - 1
  BY <1>6 DEF Aged
<1> QED BY <1>4, <1>5, <1>6, <1>7, <1>8 DEF InFlight

\* Storing a value keeps the bytes fresh.
LEMMA PutFresh ==
  ASSUME NEW buffer, Fresh(buffer), NEW a, a # "old", NEW number \in Int, NEW offset, NEW size
  PROVE  /\ Fresh(Put(buffer, offset, size, Value(a, number)))
         /\ DOMAIN Put(buffer, offset, size, Value(a, number)) = DOMAIN buffer
<1> DEFINE new == Put(buffer, offset, size, Value(a, number))
<1>1. /\ DOMAIN new = DOMAIN buffer
      /\ \A i \in DOMAIN buffer :
           \/ new[i] = Byte(Value(a, number), i - offset)
           \/ new[i] = buffer[i]
  BY DEF Put
<1>2. \A k : FreshByte(Byte(Value(a, number), k))
  BY FreshValue
<1> HIDE DEF new
<1>3. Fresh(new)
  BY <1>1, <1>2 DEF Fresh
<1> QED BY <1>1, <1>3 DEF new

\* The bytes of a message of others.
LEMMA ForeignFresh ==
  ASSUME NEW layout, "old" \notin Names(layout), NEW n \in Int,
         NEW lengths, lengths = <<>> \/ lengths \in [1 .. Len(lengths) -> Int],
         Len(lengths) \in Nat
  PROVE  /\ Fresh(ForeignBytes(layout, n, lengths))
         /\ DOMAIN ForeignBytes(layout, n, lengths) = 0 .. n - 1
<1> DEFINE blank == [i \in 0 .. n - 1 |-> Byte(Value("foreign", 0), i)]
           names == [f \in Names(layout) |-> f]
           method == [layout |-> layout, stored |-> names]
           fields == StoreFields(blank, method)
           first == IF lengths = <<>> THEN fields
                    ELSE Put(fields, layout.from, SIZE_OF_INT, Value("length", lengths[1]))
           second == IF Len(lengths) < 2 \/ lengths[1] < 0 THEN first
                     ELSE Put(first, LengthOffset(layout, lengths, 2), SIZE_OF_INT,
                              Value("length", lengths[2]))
<1>1. ForeignBytes(layout, n, lengths) = second
  BY DEF ForeignBytes
<1>2. DOMAIN blank = 0 .. n - 1 /\ Fresh(blank)
  BY FreshValue DEF Fresh
<1>3. /\ \A f \in layout.fields : f.name \in Names(layout)
      /\ \A f \in Names(layout) : names[f] = f /\ f # "old"
  BY DEF Names
<1> HIDE DEF blank, names
<1>4. DOMAIN fields = 0 .. n - 1 /\ Fresh(fields)
  <2> DEFINE at(i) == {f \in layout.fields : i \in f.offset .. f.offset + f.size - 1}
             f(i) == CHOOSE f \in at(i) : TRUE
  <2>1. /\ DOMAIN fields = DOMAIN blank
        /\ \A i \in DOMAIN blank :
             fields[i] = IF at(i) = {} THEN blank[i]
                         ELSE Byte(Value(names[f(i).name], 0), i - f(i).offset)
    BY DEF StoreFields
  <2>2. \A i : at(i) # {} => f(i) \in layout.fields
    <3>1. TAKE i
    <3>2. at(i) # {} => f(i) \in at(i)
      OBVIOUS
    <3>3. at(i) \subseteq layout.fields
      OBVIOUS
    <3> HIDE DEF at, f
    <3> QED BY <3>2, <3>3
  <2> HIDE DEF at, f, fields
  <2>3. ASSUME NEW i \in DOMAIN fields PROVE FreshByte(fields[i])
    <3>1. CASE at(i) = {}
      BY <1>2, <2>1, <3>1 DEF Fresh
    <3>2. CASE at(i) # {}
      <4>1. f(i).name \in Names(layout)
        BY <1>3, <2>2, <3>2
      <4>2. names[f(i).name] # "old"
        BY <1>3, <4>1
      <4>3. fields[i] = Byte(Value(names[f(i).name], 0), i - f(i).offset)
        BY <2>1, <3>2
      <4> QED BY <4>2, <4>3, FreshValue
    <3> QED BY <3>1, <3>2
  <2> QED BY <1>2, <2>1, <2>3 DEF Fresh
<1> HIDE DEF fields
<1>5. DOMAIN first = 0 .. n - 1 /\ Fresh(first)
  <2>1. CASE lengths = <<>>
    BY <1>4, <2>1
  <2>2. CASE lengths # <<>>
    <3>1. lengths[1] \in Int
      <4>1. lengths \in [1 .. Len(lengths) -> Int]
        BY <2>2
      <4>2. Len(lengths) # 0
        <5>1. SUFFICES ASSUME Len(lengths) = 0 PROVE FALSE
          OBVIOUS
        <5>2. lengths \in Seq(Int)
          BY <4>1
        <5> QED BY <2>2, <5>1, <5>2
      <4>3. 1 \in 1 .. Len(lengths)
        BY <4>2
      <4> QED BY <4>1, <4>3
    <3> QED BY <1>4, <2>2, <3>1, PutFresh
  <2> QED BY <2>1, <2>2
<1> HIDE DEF first
<1>6. DOMAIN second = 0 .. n - 1 /\ Fresh(second)
  <2>1. CASE Len(lengths) < 2 \/ lengths[1] < 0
    BY <1>5, <2>1
  <2>2. CASE ~(Len(lengths) < 2 \/ lengths[1] < 0)
    <3>1. lengths # <<>>
      BY <2>2
    <3>2. 2 \in 1 .. Len(lengths)
      BY <2>2
    <3>3. lengths[2] \in Int
      BY <3>1, <3>2
    <3> QED BY <1>5, <2>2, <3>3, PutFresh
  <2> QED BY <2>1, <2>2
<1> QED BY <1>1, <1>6

\* The bytes of a frame of others.
LEMMA ForeignFrameFresh ==
  ASSUME NEW layout, "old" \notin Names(layout), NEW n \in Int, NEW claimed \in Int,
         NEW version \in 0 .. 1
  PROVE  /\ Fresh(ForeignFrame(layout, n, claimed, version))
         /\ DOMAIN ForeignFrame(layout, n, claimed, version) = 0 .. n - 1
<1> DEFINE bytes == ForeignBytes(layout, n, <<>>)
           sized == Put(bytes, 0, SIZE_OF_INT, Value("frame_length", claimed))
           whole == ForeignFrame(layout, n, claimed, version)
<1>1. Fresh(bytes) /\ DOMAIN bytes = 0 .. n - 1
  <2>1. Len(<<>>) \in Nat
    OBVIOUS
  <2> QED BY <2>1, ForeignFresh
<1> HIDE DEF bytes
<1>2. Fresh(sized) /\ DOMAIN sized = 0 .. n - 1
  BY <1>1, PutFresh
<1>3. \/ whole = Put(sized, 4, 1, Value("zero", 0))
      \/ whole = Put(sized, 4, 1, Value("version", version))
  BY DEF ForeignFrame, bytes
<1> HIDE DEF sized, whole
<1>4. Fresh(whole) /\ DOMAIN whole = 0 .. n - 1
  BY <1>2, <1>3, PutFresh
<1> QED BY <1>4 DEF whole

\* A message of others may be in flight.
LEMMA ForeignInFlight ==
  ASSUME NEW methods, NEW type, NEW bytes, NEW n \in Int, Fresh(bytes), DOMAIN bytes = 0 .. n - 1
  PROVE  InFlight(methods, Message(type, bytes, None))
<1> DEFINE message == Message(type, bytes, None)
<1>1. message.bytes = bytes /\ message.arguments = None
  BY DEF Message
<1> HIDE DEF message
<1>3. Clean(message.type, bytes)
  BY <1>1 DEF Fresh, FreshByte, Clean
<1>2. \E m \in Nat : DOMAIN bytes = 0 .. m - 1
  <2>1. CASE n >= 0
    BY <2>1
  <2>2. CASE n < 0
    <3>1. 0 .. n - 1 = {} /\ 0 .. 0 - 1 = {}
      BY <2>2
    <3> QED BY <3>1
  <2> QED BY <2>1, <2>2
<1> QED BY <1>1, <1>2, <1>3 DEF InFlight, message

-----------------------------------------------------------------------------
(* Dispatching a message.                                                   *)

\* The frame of a method is valid.
LEMMA SentFrameValid ==
  ASSUME Frames, NEW method, Stores(method), NEW lengths \in [DOMAIN method.layout.parts -> Nat],
         NEW revoke, NEW bytes, Written(bytes, method, lengths, revoke),
         NEW n, n = MessageLength(method, lengths)
  PROVE  ValidFrame(bytes, n)
<1> DEFINE word == I32("frame_length", 0)
           version == U8("version", 4)
<1>1. /\ word \in method.layout.fields /\ word.name = "frame_length" /\ word.offset = 0
      /\ word.size = 4
  BY DEF Stores, I32
<1>2. /\ version \in method.layout.fields /\ version.name = "version" /\ version.offset = 4
      /\ version.size = 1
  BY DEF Stores, U8
<1> HIDE DEF word, version
<1>3. "frame_length" \in Names(method.layout)
  BY <1>1 DEF Names
<1>4. method.stored["frame_length"] = "frame_length" /\ method.stored["version"] = "zero"
  BY <1>3 DEF Stores
<1>5. FieldValue(method, lengths, "frame_length")
        = Value("frame_length", ComputeLength(method.layout, lengths))
  BY <1>4 DEF FieldValue
<1>6. FieldValue(method, lengths, "version") = Value("zero", 0)
  BY <1>4 DEF FieldValue
<1>7. Get(bytes, word.offset, word.size) = FieldValue(method, lengths, word.name)
  BY <1>1, FieldReadBack
<1>8. Get(bytes, version.offset, version.size) = FieldValue(method, lengths, version.name)
  BY <1>2, FieldReadBack
<1>9. /\ n \in Nat /\ n >= method.layout.minimum /\ n = ComputeLength(method.layout, lengths)
  BY LengthEnough DEF Stores
<1>10. method.layout.minimum >= 8 /\ method.layout.minimum \in Nat
  BY PartsOf DEF Stores, HEADER_LENGTH
<1>11. n >= 8
  BY <1>9, <1>10
<1>12. Get(bytes, 4, 1).num = 0
  BY <1>2, <1>6, <1>8, ValueOf
<1>13. NumberAt(bytes, 0) = n
  BY <1>1, <1>5, <1>7, <1>9, ValueOf DEF NumberAt, SIZE_OF_INT
<1>14. n \in HEADER_LENGTH .. n
  BY <1>9, <1>11 DEF HEADER_LENGTH
<1> QED BY <1>11, <1>12, <1>13, <1>14 DEF ValidFrame, HEADER_LENGTH, CURRENT_VERSION

\* What comes from a method is accepted, and the handler gets its arguments.
LEMMA SentArrives ==
  ASSUME Conveys(Methods, Cases), NEW message, InFlight(Methods, message),
         message.arguments # None,
         NEW n, n = Cardinality(DOMAIN message.bytes)
  PROVE  /\ message.type \in DOMAIN Cases
         /\ LET case    == Cases[message.type]
                lengths == LengthsRead(case.layout, message.bytes, n)
                got     == HandlerArguments(message.type, case, lengths, message.bytes, n)
            IN  /\ Frames => ValidFrame(message.bytes, n)
                /\ Accepted(case.layout, lengths, n)
                /\ \A p \in DOMAIN got :
                     got[p] = IF p = "address" /\ "zero" \in DOMAIN message.arguments
                              THEN Zero.value ELSE message.arguments[p]
<1>1. SentBy(Methods, message)
  BY DEF InFlight
<1>2. PICK method \in Methods :
        \E lengths \in [DOMAIN method.layout.parts -> Nat] : \E revoke \in BOOLEAN :
          /\ message.type = method.type
          /\ message.arguments = Arguments(method, lengths, revoke)
          /\ Written(message.bytes, method, lengths, revoke)
  BY <1>1 DEF SentBy
<1>3. PICK sizes \in [DOMAIN method.layout.parts -> Nat] : \E revoke \in BOOLEAN :
          /\ message.type = method.type
          /\ message.arguments = Arguments(method, sizes, revoke)
          /\ Written(message.bytes, method, sizes, revoke)
  BY <1>2
<1>4. PICK revoke \in BOOLEAN :
          /\ message.type = method.type
          /\ message.arguments = Arguments(method, sizes, revoke)
          /\ Written(message.bytes, method, sizes, revoke)
  BY <1>3
<1> DEFINE case == Cases[message.type]
           bytes == message.bytes
           lengths == LengthsRead(case.layout, bytes, n)
           got == HandlerArguments(message.type, case, lengths, bytes, n)
<1>5. /\ message.type \in DOMAIN Cases
      /\ Stores(method) /\ Delivers(method, case)
  BY <1>4 DEF Conveys, Fits
<1> HIDE DEF case, bytes
<1>6. Written(bytes, method, sizes, revoke)
  BY <1>4 DEF bytes
<1>7. n = MessageLength(method, sizes)
  <2> DEFINE m == MessageLength(method, sizes)
  <2>1. DOMAIN bytes = 0 .. m - 1
    BY <1>6 DEF Written
  <2>2. m \in Nat
    BY <1>5, LengthEnough
  <2> HIDE DEF m
  <2>3. Cardinality(0 .. m - 1) = m
    BY <2>2, FS_Interval
  <2> QED BY <2>1, <2>3 DEF m, bytes
<1>8. lengths = Known(case.layout, sizes) /\ Accepted(case.layout, Known(case.layout, sizes), n)
  BY <1>5, <1>6, <1>7, LengthsReadBack DEF Delivers
<1>9. got = HandlerArguments(method.type, case, Known(case.layout, sizes), bytes, n)
  BY <1>4, <1>8
<1> HIDE DEF got, lengths
<1>10. ASSUME NEW p \in DOMAIN got
       PROVE  got[p] = IF p = "address" /\ "zero" \in DOMAIN message.arguments
                       THEN Zero.value ELSE message.arguments[p]
  BY <1>4, <1>5, <1>6, <1>7, <1>9, HandlerSees
<1>11. Frames => ValidFrame(bytes, n)
  BY <1>5, <1>6, <1>7, SentFrameValid
<1> QED BY <1>5, <1>8, <1>10, <1>11 DEF case, bytes, got, lengths

-----------------------------------------------------------------------------
(* The invariant.                                                           *)

\* What is in flight has no stale byte and, unless it is of others, was written by a
\* method; and what was last read is as it should be.
CodecInv ==
  /\ side \in Sides
  /\ DOMAIN scratch = 0 .. ScratchSize - 1
  /\ wire # None => InFlight(Methods, wire)
  /\ ReadsInside
  /\ ArgumentsArrive

\* At the start the scratch buffer has its size, nothing is under way and no handler ran.
LEMMA CodecInvInit == CodecInit => CodecInv
<1> SUFFICES ASSUME CodecInit PROVE CodecInv
  OBVIOUS
<1>1. outcome.kind = "none"
  BY DEF CodecInit, None
<1>2. ReadsInside /\ ArgumentsArrive
  BY <1>1 DEF ReadsInside, ArgumentsArrive
<1>3. DOMAIN scratch = 0 .. ScratchSize - 1
  BY DEF CodecInit
<1> QED BY <1>2, <1>3 DEF CodecInit, CodecInv

\* Properties of the outcome, when that is not one of a dispatched message.
LEMMA NothingRead ==
  ASSUME outcome' = None \/ outcome' = [kind |-> "thrown"]
  PROVE  ReadsInside' /\ ArgumentsArrive'
<1>1. outcome'.kind \in {"none", "thrown"}
  BY DEF None
<1> QED BY <1>1 DEF ReadsInside, ArgumentsArrive

\* The methods and the cases depend on the side only.
LEMMA SameSide ==
  ASSUME side' = side
  PROVE  Methods' = Methods /\ Cases' = Cases /\ (Frames' <=> Frames)
BY DEF Methods, Cases, Frames

\* Send
LEMMA SendKeeps ==
  ASSUME CodecInv, Send
  PROVE  CodecInv'
<1>1. side' = side /\ Methods' = Methods
  BY SameSide DEF Send
<1>2. Conveys(Methods, Cases)
  BY MethodsConveyed DEF CodecInv
<1>3. wire = None /\ outcome = None
  BY DEF Send
<1>4. PICK method \in Methods : \E revoke \in BOOLEAN :
        \E asked \in [DOMAIN method.layout.parts -> PartLengths], flags \in StaleFlags(scratch) :
        LET lengths == Truncated(method, asked)
            n       == MessageLength(method, lengths)
            written == Encode(scratch, method, lengths, flags, revoke)
            message == Message(method.type, [i \in 0 .. n - 1 |-> written[i]],
                               Arguments(method, lengths, revoke))
        IN  IF n > ScratchSize
            THEN outcome' = [kind |-> "thrown"] /\ UNCHANGED <<scratch, wire>>
            ELSE /\ scratch' = Aged(written)
                 /\ \/ wire' = message /\ UNCHANGED outcome
                    \/ outcome' = [kind |-> "thrown"] /\ UNCHANGED wire
  BY DEF Send
<1>5. PICK revoke \in BOOLEAN :
        \E asked \in [DOMAIN method.layout.parts -> PartLengths] : \E flags \in StaleFlags(scratch) :
        LET lengths == Truncated(method, asked)
            n       == MessageLength(method, lengths)
            written == Encode(scratch, method, lengths, flags, revoke)
            message == Message(method.type, [i \in 0 .. n - 1 |-> written[i]],
                               Arguments(method, lengths, revoke))
        IN  IF n > ScratchSize
            THEN outcome' = [kind |-> "thrown"] /\ UNCHANGED <<scratch, wire>>
            ELSE /\ scratch' = Aged(written)
                 /\ \/ wire' = message /\ UNCHANGED outcome
                    \/ outcome' = [kind |-> "thrown"] /\ UNCHANGED wire
  BY <1>4
<1>6. PICK asked \in [DOMAIN method.layout.parts -> PartLengths] : \E flags \in StaleFlags(scratch) :
        LET lengths == Truncated(method, asked)
            n       == MessageLength(method, lengths)
            written == Encode(scratch, method, lengths, flags, revoke)
            message == Message(method.type, [i \in 0 .. n - 1 |-> written[i]],
                               Arguments(method, lengths, revoke))
        IN  IF n > ScratchSize
            THEN outcome' = [kind |-> "thrown"] /\ UNCHANGED <<scratch, wire>>
            ELSE /\ scratch' = Aged(written)
                 /\ \/ wire' = message /\ UNCHANGED outcome
                    \/ outcome' = [kind |-> "thrown"] /\ UNCHANGED wire
  BY <1>5
<1> DEFINE lengths == Truncated(method, asked)
           n       == MessageLength(method, lengths)
           written(flags) == Encode(scratch, method, lengths, flags, revoke)
           message(flags) == Message(method.type, [i \in 0 .. n - 1 |-> written(flags)[i]],
                                     Arguments(method, lengths, revoke))
<1>7. PICK flags \in StaleFlags(scratch) :
        IF n > ScratchSize
        THEN outcome' = [kind |-> "thrown"] /\ UNCHANGED <<scratch, wire>>
        ELSE /\ scratch' = Aged(written(flags))
             /\ \/ wire' = message(flags) /\ UNCHANGED outcome
                \/ outcome' = [kind |-> "thrown"] /\ UNCHANGED wire
  BY <1>6
<1>8. Stores(method)
  BY <1>2 DEF Conveys, Fits
<1>9. ReadsInside' /\ ArgumentsArrive'
  <2>1. outcome' = None \/ outcome' = [kind |-> "thrown"]
    BY <1>3, <1>7
  <2> QED BY <2>1, NothingRead
<1>10. CASE n > ScratchSize
  <2>1. scratch' = scratch /\ wire' = None
    BY <1>3, <1>7, <1>10
  <2> QED BY <1>1, <1>9, <2>1 DEF CodecInv
<1>11. CASE ~(n > ScratchSize)
  <2>1. n <= ScratchSize
    <3>1. n \in Nat
      <4>1. lengths \in [DOMAIN method.layout.parts -> Nat]
        BY <1>8, TruncatedLengths
      <4> HIDE DEF lengths
      <4> QED BY <1>8, <4>1, LengthEnough
    <3>2. ScratchSize \in Nat
      BY SizesAssumption
    <3> HIDE DEF n
    <3> QED BY <1>11, <3>1, <3>2
  <2>2. DOMAIN scratch = 0 .. ScratchSize - 1
    BY DEF CodecInv
  <2>3. /\ InFlight(Methods, message(flags))
        /\ DOMAIN Aged(written(flags)) = 0 .. ScratchSize - 1
    BY <1>8, <2>1, <2>2, SentMessage
  <2> HIDE DEF message, written, n
  <2>4. scratch' = Aged(written(flags)) /\ (wire' = message(flags) \/ wire' = None)
    BY <1>3, <1>7, <1>11
  <2> QED BY <1>1, <1>9, <2>3, <2>4 DEF CodecInv
<1> QED BY <1>10, <1>11

\* Foreign
LEMMA ForeignKeeps ==
  ASSUME CodecInv, Foreign
  PROVE  CodecInv'
<1>1. side' = side /\ Methods' = Methods /\ scratch' = scratch /\ outcome' = outcome
  BY SameSide DEF Foreign
<1>2. Conveys(Methods, Cases)
  BY MethodsConveyed DEF CodecInv
<1>3. outcome = None
  BY DEF Foreign
<1>4. ReadsInside' /\ ArgumentsArrive'
  BY <1>1, <1>3, NothingRead
<1>5. ForeignLengths \subseteq Int /\ ForeignExtra \subseteq Int
  BY SizesAssumption
<1>6. InFlight(Methods, wire')
  <2>1. CASE wire' = Message("UNKNOWN", <<>>, None)
    <3>1. Fresh(<<>>) /\ DOMAIN <<>> = 0 .. 0 - 1
      BY DEF Fresh
    <3> QED BY <2>1, <3>1, ForeignInFlight
  <2>2. ASSUME NEW type \in DOMAIN Cases, NEW extra \in ForeignExtra,
               NEW layout, layout = Cases[type].layout, NEW n, n = layout.minimum + extra,
               \/ /\ Frames
                  /\ \E claimed \in ForeignLengths \cup {n - 1, n, n + 1} : \E version \in 0 .. 1 :
                       wire' = Message(type, ForeignFrame(layout, n, claimed, version), None)
               \/ /\ ~Frames
                  /\ \E lengths \in [DOMAIN layout.parts -> ForeignLengths] :
                       wire' = Message(type, ForeignBytes(layout, n, lengths), None)
        PROVE  InFlight(Methods, wire')
    <3>1. Readable(Cases[type])
      BY <1>2 DEF Conveys, Fits
    <3>2. /\ layout.minimum \in Nat /\ "old" \notin Names(layout)
          /\ DOMAIN layout.parts = 1 .. Len(layout.parts) /\ Len(layout.parts) \in Nat
      BY <2>2, <3>1 DEF Readable
    <3>3. n \in Int
      BY <1>5, <2>2, <3>2
    <3>4. CASE Frames
      <4>1. PICK claimed \in ForeignLengths \cup {n - 1, n, n + 1} : \E version \in 0 .. 1 :
              wire' = Message(type, ForeignFrame(layout, n, claimed, version), None)
        BY <2>2, <3>4
      <4>2. PICK version \in 0 .. 1 :
              wire' = Message(type, ForeignFrame(layout, n, claimed, version), None)
        BY <4>1
      <4>3. claimed \in Int
        BY <1>5, <3>3
      <4>4. /\ Fresh(ForeignFrame(layout, n, claimed, version))
            /\ DOMAIN ForeignFrame(layout, n, claimed, version) = 0 .. n - 1
        BY <3>2, <3>3, <4>3, ForeignFrameFresh
      <4> QED BY <3>3, <4>2, <4>4, ForeignInFlight
    <3>5. CASE ~Frames
      <4>1. PICK lengths \in [DOMAIN layout.parts -> ForeignLengths] :
              wire' = Message(type, ForeignBytes(layout, n, lengths), None)
        BY <2>2, <3>5
      <4>2. lengths \in [1 .. Len(layout.parts) -> Int]
        BY <1>5, <3>2
      <4>3. lengths \in Seq(Int) /\ Len(lengths) = Len(layout.parts)
        BY <3>2, <4>2
      <4>4. lengths \in [1 .. Len(lengths) -> Int] /\ Len(lengths) \in Nat
        BY <3>2, <4>2, <4>3
      <4>5. /\ Fresh(ForeignBytes(layout, n, lengths))
            /\ DOMAIN ForeignBytes(layout, n, lengths) = 0 .. n - 1
        BY <3>2, <3>3, <4>4, ForeignFresh
      <4> QED BY <3>3, <4>1, <4>5, ForeignInFlight
    <3> QED BY <3>4, <3>5
  <2>3. CASE \E type \in DOMAIN Cases, extra \in ForeignExtra :
               LET layout == Cases[type].layout
                   n == layout.minimum + extra
               IN  IF Frames
                   THEN \E claimed \in ForeignLengths \cup {n - 1, n, n + 1}, version \in 0 .. 1 :
                          wire' = Message(type, ForeignFrame(layout, n, claimed, version), None)
                   ELSE \E lengths \in [DOMAIN layout.parts -> ForeignLengths] :
                          wire' = Message(type, ForeignBytes(layout, n, lengths), None)
    <3>1. PICK type \in DOMAIN Cases, extra \in ForeignExtra :
            LET layout == Cases[type].layout
                n == layout.minimum + extra
            IN  IF Frames
                THEN \E claimed \in ForeignLengths \cup {n - 1, n, n + 1}, version \in 0 .. 1 :
                       wire' = Message(type, ForeignFrame(layout, n, claimed, version), None)
                ELSE \E lengths \in [DOMAIN layout.parts -> ForeignLengths] :
                       wire' = Message(type, ForeignBytes(layout, n, lengths), None)
      BY <2>3
    <3> DEFINE layout == Cases[type].layout
               n == layout.minimum + extra
    <3>2. \/ /\ Frames
             /\ \E claimed \in ForeignLengths \cup {n - 1, n, n + 1} : \E version \in 0 .. 1 :
                  wire' = Message(type, ForeignFrame(layout, n, claimed, version), None)
          \/ /\ ~Frames
             /\ \E lengths \in [DOMAIN layout.parts -> ForeignLengths] :
                  wire' = Message(type, ForeignBytes(layout, n, lengths), None)
      BY <3>1
    <3>3. layout = Cases[type].layout /\ n = layout.minimum + extra
      OBVIOUS
    <3> HIDE DEF layout, n
    <3> QED BY <2>2, <3>2, <3>3
  <2> QED BY <2>1, <2>3 DEF Foreign
<1> QED BY <1>1, <1>4, <1>6 DEF CodecInv

\* Dispatch
LEMMA DispatchKeeps ==
  ASSUME CodecInv, Dispatch
  PROVE  CodecInv'
<1> DEFINE case     == Cases[wire.type]
           n        == Cardinality(DOMAIN wire.bytes)
           lengths  == LengthsRead(case.layout, wire.bytes, n)
           accepted == /\ Frames => ValidFrame(wire.bytes, n)
                       /\ Accepted(case.layout, lengths, n)
           upto     == ReadUpTo(wire.type, case, lengths, n, accepted)
           read     == HandlerArguments(wire.type, case, lengths, wire.bytes, n)
           seen     == [upto |-> upto, length |-> n, sent |-> wire.arguments]
<1>1. side' = side /\ scratch' = scratch /\ wire' = None
  BY DEF Dispatch
<1>2. Conveys(Methods, Cases)
  BY MethodsConveyed DEF CodecInv
<1>3. InFlight(Methods, wire) /\ wire.type \in DOMAIN Cases
  BY DEF Dispatch, CodecInv
<1>4. \/ accepted /\ outcome' = [kind |-> "handled", seen |-> seen, read |-> read]
      \/ /\ ~accepted
         /\ outcome' = [kind |-> IF side = "commands" THEN "malformed" ELSE "dropped",
                        seen |-> seen]
      \/ /\ accepted
         /\ outcome' = [kind |-> IF side = "commands" THEN "generic" ELSE "filtered",
                        seen |-> seen]
  BY DEF Dispatch
<1>5. n \in Nat
  <2>1. PICK m \in Nat : DOMAIN wire.bytes = 0 .. m - 1
    BY <1>3 DEF InFlight
  <2>2. m \in Nat
    OBVIOUS
  <2>3. Cardinality(0 .. m - 1) = m
    BY <2>2, FS_Interval
  <2> QED BY <2>1, <2>2, <2>3
<1>6. upto <= n
  <2>1. Readable(case)
    BY <1>2, <1>3 DEF Conveys, Fits
  <2>2. \A i \in DOMAIN wire.bytes : wire.bytes[i].value.num \in Int
    BY <1>3 DEF InFlight, Clean
  <2>3. accepted => Accepted(case.layout, lengths, n)
    OBVIOUS
  <2>4. accepted \in BOOLEAN
    OBVIOUS
  <2>5. lengths = LengthsRead(case.layout, wire.bytes, n)
    OBVIOUS
  <2> HIDE DEF case, n, lengths, accepted
  <2> QED BY <1>5, <2>1, <2>2, <2>3, <2>4, <2>5, LooksInside
<1>7. wire.arguments # None =>
        /\ accepted
        /\ \A p \in DOMAIN read :
             read[p] = IF p = "address" /\ "zero" \in DOMAIN wire.arguments
                       THEN Zero.value ELSE wire.arguments[p]
  BY <1>2, <1>3, SentArrives
<1> HIDE DEF case, n, lengths, accepted, upto, read
<1>8. seen.upto = upto /\ seen.length = n /\ seen.sent = wire.arguments
  OBVIOUS
<1> HIDE DEF seen
<1>9. outcome'.seen = seen
  BY <1>4
<1>10. ReadsInside'
  BY <1>6, <1>8, <1>9 DEF ReadsInside
<1>11. ArgumentsArrive'
  <2>1. CASE accepted /\ outcome' = [kind |-> "handled", seen |-> seen, read |-> read]
    <3>1. outcome'.kind = "handled" /\ outcome'.seen = seen /\ outcome'.read = read
      BY <2>1
    <3> QED BY <1>7, <1>8, <3>1 DEF ArgumentsArrive
  <2>2. CASE /\ ~accepted
             /\ outcome' = [kind |-> IF side = "commands" THEN "malformed" ELSE "dropped",
                            seen |-> seen]
    <3>1. outcome'.seen.sent = None
      BY <1>7, <1>8, <1>9, <2>2
    <3> QED BY <3>1 DEF ArgumentsArrive
  <2>3. CASE /\ accepted
             /\ outcome' = [kind |-> IF side = "commands" THEN "generic" ELSE "filtered",
                            seen |-> seen]
    <3>1. outcome'.kind \in {"generic", "filtered"}
      BY <2>3
    <3> QED BY <3>1 DEF ArgumentsArrive
  <2> QED BY <1>4, <2>1, <2>2, <2>3
<1> QED BY <1>1, <1>10, <1>11 DEF CodecInv

\* DispatchUnknown
LEMMA DispatchUnknownKeeps ==
  ASSUME CodecInv, DispatchUnknown
  PROVE  CodecInv'
<1> DEFINE n == Cardinality(DOMAIN wire.bytes)
           seen == [upto |-> 0, length |-> n, sent |-> wire.arguments]
<1>1. side' = side /\ scratch' = scratch /\ wire' = None
  BY DEF DispatchUnknown
<1>2. InFlight(Methods, wire) /\ wire.type \notin DOMAIN Cases
  BY DEF DispatchUnknown, CodecInv
<1>3. outcome' = [kind |-> IF side = "commands" THEN "unknown" ELSE "ignored", seen |-> seen]
  BY DEF DispatchUnknown
<1>4. n \in Nat
  <2>1. PICK m \in Nat : DOMAIN wire.bytes = 0 .. m - 1
    BY <1>2 DEF InFlight
  <2>2. m \in Nat
    OBVIOUS
  <2>3. Cardinality(0 .. m - 1) = m
    BY <2>2, FS_Interval
  <2> QED BY <2>1, <2>2, <2>3
<1>5. wire.arguments = None
  <2>1. Conveys(Methods, Cases)
    BY MethodsConveyed DEF CodecInv
  <2> QED BY <1>2, <2>1, SentArrives
<1> HIDE DEF n
<1>6. outcome'.seen.upto = 0 /\ outcome'.seen.length = n /\ outcome'.seen.sent = None
  BY <1>3, <1>5
<1>7. ReadsInside'
  BY <1>4, <1>6 DEF ReadsInside
<1>8. ArgumentsArrive'
  BY <1>6 DEF ArgumentsArrive
<1> QED BY <1>1, <1>7, <1>8 DEF CodecInv

\* Return
LEMMA ReturnKeeps ==
  ASSUME CodecInv, Return
  PROVE  CodecInv'
<1>1. /\ side' = side /\ Methods' = Methods /\ scratch' = scratch /\ wire' = wire
      /\ outcome' = None
  BY SameSide DEF Return
<1>2. ReadsInside' /\ ArgumentsArrive'
  BY <1>1, NothingRead
<1> QED BY <1>1, <1>2 DEF CodecInv

\* Every step keeps the invariant.
LEMMA CodecInvNext == CodecInv /\ [CodecNext]_codec => CodecInv'
<1> SUFFICES ASSUME CodecInv, [CodecNext]_codec PROVE CodecInv'
  OBVIOUS
<1>1. CASE UNCHANGED codec
  <2>1. side' = side /\ Methods' = Methods /\ scratch' = scratch /\ wire' = wire
        /\ outcome' = outcome
    BY <1>1, SameSide DEF codec
  <2>2. ReadsInside' /\ ArgumentsArrive'
    BY <2>1 DEF CodecInv, ReadsInside, ArgumentsArrive
  <2> QED BY <2>1, <2>2 DEF CodecInv
<1> QED BY <1>1, SendKeeps, ForeignKeeps, DispatchKeeps, DispatchUnknownKeeps, ReturnKeeps DEF CodecNext

\* The invariant of the messages: what is on the wire is as a method of the sender wrote it,
\* or a message of another process with no arguments to compare, and what a handler saw is
\* what was sent.
THEOREM CodecInvariant == CodecSpec => []CodecInv
BY CodecInvInit, CodecInvNext, PTL DEF CodecSpec

\* Whatever lengths a message holds, ClientCommandAdapter, DriverEventsAdapter and the
\* endpoints never look at a byte behind its end: for messages and lengths of any size.
THEOREM CodecReadsInside == CodecSpec => []ReadsInside
<1>1. CodecInv => ReadsInside
  BY DEF CodecInv
<1> QED BY <1>1, CodecInvariant, PTL

\* Each handler gets exactly the arguments of the method of DriverProxy, ClientProxy or
\* the sender of the frame, for parts of any length that the scratch buffer has room for.
THEOREM CodecArgumentsArrive == CodecSpec => []ArgumentsArrive
<1>1. CodecInv => ArgumentsArrive
  BY DEF CodecInv
<1> QED BY <1>1, CodecInvariant, PTL

\* Nothing that an earlier message left in the scratch buffer is sent in a later one, but
\* for the flags of remove_publication, of which set_revoke() keeps 63 bits.
THEOREM CodecNothingStaleSent == CodecSpec => []NothingStaleSent
<1>1. CodecInv => NothingStaleSent
  BY DEF CodecInv, NothingStaleSent, InFlight, Clean
<1> QED BY <1>1, CodecInvariant, PTL
=============================================================================
