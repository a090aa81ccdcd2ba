-------------------- MODULE ManyToOneRingBuffer_proofs ----------------------
(***************************************************************************)
(* What holds of the many-to-one ring for every capacity, every set of     *)
(* producers and every mix of messages, and however many producers die or  *)
(* handlers throw: the types, that the claims never overrun the consumer,  *)
(* and that a drained ring refuses no message.                             *)
(*                                                                         *)
(* And what holds up to the first time the consumer takes for a length     *)
(* what is none: that the words in use are apart, that no length is left   *)
(* where one will be, that head stands at a record and counts what was     *)
(* delivered, and that the ring implements the channel.                    *)
(***************************************************************************)
EXTENDS ManyToOneRingBuffer, FiniteSetTheorems, TLAPS

\* What a producer knows inside write() when the positions are t and h: the
\* message is one the ring accepts, the tail it loaded is not ahead of t, and
\* the claim it is about to make ends within the ring as seen from h.
Knows(w, t, h) ==
  /\ w.pc \notin {"idle", "dead"} => RecordLength(w.msg) <= max_msg_length
  /\ w.pc \in {"head", "cas"} => w.tail <= t
  /\ w.pc = "cas" => w.tail <= w.next /\ w.next <= h + Capacity

WriterInv == \A p \in Producers : Knows(writer[p], tail, head)

\* The consumer's local position starts at head and only grows.
ReaderInv == reader.pc # "idle" => head <= reader.next

IInv == TypeOK /\ WriterInv /\ ReaderInv /\ NoOverrun

-----------------------------------------------------------------------------
(* The layout operators.                                                   *)

\* mask_ keeps an index inside the data region.
LEMMA IndexType ==
  ASSUME NEW position \in Int
  PROVE  /\ Index(position) \in Words
         /\ Index(position) \in 0 .. Capacity - 1
         /\ ToBufferEnd(position) \in 1 .. Capacity
  BY CapacityAssumption DEF Index, ToBufferEnd, Words

\* A claim is at least as long as its record, and shorter than two records
\* even when it includes padding.
LEMMA ClaimBounds ==
  ASSUME NEW m \in AnyMessage, NEW position \in Nat
  PROVE  /\ ClaimLength(m, position) \in Nat
         /\ RequiredCapacity(m) <= ClaimLength(m, position)
         /\ ClaimLength(m, position) < 2 * RequiredCapacity(m)
         /\ RequiredCapacity(m) = m.words + 3
         /\ RequiredCapacity(m) \in Nat
         /\ RequiredCapacity(m) >= 3
  BY IndexType DEF ClaimLength, RequiredCapacity, RecordLength, Wraps, AnyMessage,
                   MSG_HEADER_LENGTH, LENGTH_WORD

\* A ring that accepts a message at all has room for its claim when empty.
LEMMA AcceptedFits ==
  ASSUME NEW m \in AnyMessage, NEW position \in Nat, RecordLength(m) <= max_msg_length
  PROVE  ClaimLength(m, position) <= Capacity
  <1>1. RecordLength(m) = m.words + 2 /\ m.words \in Nat
    BY DEF RecordLength, AnyMessage, MSG_HEADER_LENGTH
  <1>2. 8 * (m.words + 2) <= Capacity
    BY <1>1, CapacityAssumption DEF max_msg_length
  <1>3. ClaimLength(m, position) \in Nat /\ ClaimLength(m, position) < 2 * (m.words + 3)
    BY ClaimBounds
  <1> QED
    BY <1>1, <1>2, <1>3, CapacityAssumption

\* Messages that are written are messages.
LEMMA MessagesType ==
  ASSUME NEW p \in Producers, NEW m \in MessagesOf[p]
  PROVE  m \in AnyMessage
  <1>1. MessagesOf[p] \subseteq [type : Int \ {PADDING_MSG_TYPE_ID}, words : Nat, fill : Int]
    BY MessageAssumption
  <1> QED
    BY <1>1 DEF AnyMessage

\* The store of an integer keeps the data region one of integers.
LEMMA StoreType ==
  ASSUME NEW words \in [Words -> Int], NEW i, NEW x \in Int
  PROVE  [words EXCEPT ![i] = x] \in [Words -> Int]
  OBVIOUS

-----------------------------------------------------------------------------
(* Type correctness.                                                       *)

\* The buffer as it is created, with no thread inside write() or read(), has
\* the types.
LEMMA TypeInit == Init => TypeOK
  BY CapacityAssumption
     DEF Init, TypeOK, Words, NotWriting, NotReading, NoMessage, AnyMessage, WritePcs,
         ReadPcs, WriterState, ReaderState

\* Every step keeps the types of the variables.
LEMMA TypeNext == TypeOK /\ [Next]_vars => TypeOK'
  <1> SUFFICES ASSUME TypeOK, [Next]_vars
               PROVE  TypeOK'
    OBVIOUS
  <1> USE DEF TypeOK, WritePcs, ReadPcs, WriterState, ReaderState, ring, history, faults
  <1>1. ASSUME NEW p \in Producers, NEW m \in MessagesOf[p], Write(p, m)
        PROVE  TypeOK'
    <2>1. m \in AnyMessage
      BY MessagesType
    <2>2. [writer[p] EXCEPT !.pc = "tail", !.msg = m] \in WriterState
      BY <2>1
    <2>3. writer' = [writer EXCEPT ![p] = [writer[p] EXCEPT !.pc = "tail", !.msg = m]]
      BY <1>1 DEF Write
    <2> QED
      BY <1>1, <2>2, <2>3 DEF Write
  <1>2. ASSUME NEW p \in Producers, LoadTail(p)
        PROVE  TypeOK'
    <2>1. [writer[p] EXCEPT !.pc = "head", !.tail = tail] \in WriterState
      OBVIOUS
    <2>2. writer' = [writer EXCEPT ![p] = [writer[p] EXCEPT !.pc = "head", !.tail = tail]]
      BY <1>2 DEF LoadTail
    <2> QED
      BY <1>2, <2>1, <2>2 DEF LoadTail
  <1>3. ASSUME NEW p \in Producers, LoadHead(p)
        PROVE  TypeOK'
    <2>1. ClaimLength(writer[p].msg, writer[p].tail) \in Nat
      BY ClaimBounds
    <2>2. NotWriting \in WriterState
      BY DEF NotWriting, NoMessage, AnyMessage
    <2> QED
      <3> DEFINE claim == ClaimLength(writer[p].msg, writer[p].tail)
      <3>1. CASE writer' = [writer EXCEPT ![p] = NotWriting]
        BY <1>3, <2>2, <3>1 DEF LoadHead
      <3>2. CASE writer' = [writer EXCEPT ![p].pc = "cas",
                                          ![p].next = writer[p].tail + claim]
        <4>1. writer[p].tail + claim \in Nat
          BY <2>1
        <4>2. writer' \in [Producers -> WriterState]
          <5> HIDE DEF claim
          <5>1. [writer[p] EXCEPT !.pc = "cas", !.next = writer[p].tail + claim] \in WriterState
            BY <4>1
          <5>2. writer' = [writer EXCEPT ![p] =
                             [writer[p] EXCEPT !.pc = "cas", !.next = writer[p].tail + claim]]
            BY <3>2
          <5> QED
            BY <5>1, <5>2
        <4> QED
          BY <1>3, <4>2 DEF LoadHead
      <3> QED
        BY <1>3, <3>1, <3>2 DEF LoadHead
  <1>4. ASSUME NEW p \in Producers, CompareAndSetTail(p)
        PROVE  TypeOK'
    <2>1. [start |-> writer[p].tail, end |-> writer[p].next, msg |-> writer[p].msg] \in Claim
      BY DEF Claim
    <2>2. claims' \in Seq(Claim)
      BY <1>4, <2>1 DEF CompareAndSetTail
    <2> DEFINE step == IF Wraps(writer[p].msg, writer[p].tail) THEN "pad" ELSE "body"
    <2>3. step \in WritePcs
      OBVIOUS
    <2>4. writer' = [writer EXCEPT ![p].pc = step]
      BY <1>4 DEF CompareAndSetTail
    <2>5. writer' \in [Producers -> WriterState]
      <3> HIDE DEF step
      <3> QED
        BY <2>3, <2>4
    <2> QED
      BY <1>4, <2>2, <2>5 DEF CompareAndSetTail
  <1>5. ASSUME NEW p \in Producers, LoseTail(p)
        PROVE  TypeOK'
    BY <1>5 DEF LoseTail
  <1>6. ASSUME NEW p \in Producers, PutPadding(p)
        PROVE  TypeOK'
    <2> writer[p].tail \in Int
      OBVIOUS
    <2>1. ToBufferEnd(writer[p].tail) \in 1 .. Capacity
      BY IndexType
    <2>2. - ToBufferEnd(writer[p].tail) \in Int
      BY <2>1, CapacityAssumption
    <2>3. data' \in [Words -> Int] /\ lengths' \subseteq Words
      BY <1>6, <2>2, IndexType DEF PutPadding
    <2> QED
      BY <1>6, <2>3 DEF PutPadding
  <1>7. ASSUME NEW p \in Producers, PutTypeAndBody(p)
        PROVE  TypeOK'
    <2>1. writer[p].msg.type \in Int /\ writer[p].msg.fill \in Int
      BY DEF AnyMessage
    <2>2. data' \in [Words -> Int]
      BY <1>7, <2>1 DEF PutTypeAndBody
    <2>3. lengths' \subseteq Words
      BY <1>7 DEF PutTypeAndBody
    <2> QED
      BY <1>7, <2>2, <2>3 DEF PutTypeAndBody
  <1>8. ASSUME NEW p \in Producers, PutLength(p)
        PROVE  TypeOK'
    <2>1. RecordLength(writer[p].msg) \in Int
      BY DEF RecordLength, AnyMessage, MSG_HEADER_LENGTH
    <2>2. NotWriting \in WriterState
      BY DEF NotWriting, NoMessage, AnyMessage
    <2>3. DOMAIN claims \subseteq Nat
      OBVIOUS
    <2>4. RecordIndex(p) \in Words
      <3>1. writer[p].tail \in Int
        OBVIOUS
      <3>2. ToBufferEnd(writer[p].tail) \in 1 .. Capacity
        BY <3>1, IndexType
      <3>3. RecordPosition(writer[p].msg, writer[p].tail) \in Int
        BY <3>1, <3>2, CapacityAssumption DEF RecordPosition
      <3> QED
        BY <3>3, IndexType DEF RecordIndex
    <2>5. /\ data' = [data EXCEPT ![RecordIndex(p)] = RecordLength(writer[p].msg)]
          /\ lengths' = lengths \cup {RecordIndex(p)}
          /\ published' = published \cup {i \in DOMAIN claims : claims[i].start = writer[p].tail}
          /\ writer' = [writer EXCEPT ![p] = NotWriting]
          /\ UNCHANGED << head, tail, reader, claims, delivered, faults >>
      BY <1>8 DEF PutLength
    <2> QED
      BY <2>1, <2>2, <2>3, <2>4, <2>5
  <1>9. ASSUME NEW p \in Producers, Crash(p)
        PROVE  TypeOK'
    <2>1. Dead \in WriterState
      BY DEF Dead, NoMessage, AnyMessage
    <2> QED
      BY <1>9, <2>1 DEF Crash
  <1>10. CASE Read
    BY <1>10 DEF Read
  <1>11. CASE EndOfRecords
    BY <1>11 DEF EndOfRecords
  <1>12. CASE LoadLength
    <2>1. max_msg_length \in Int
      BY CapacityAssumption DEF max_msg_length
    <2> QED
      <3>1. data[HeadIndex] \in Int
        BY IndexType DEF HeadIndex
      <3>2. CASE reader' = [reader EXCEPT !.pc = "publish"]
        BY <1>12, <3>2 DEF LoadLength
      <3>3. CASE reader' = [reader EXCEPT !.pc = "skip"]
        BY <1>12, <3>3 DEF LoadLength
      <3>4. CASE /\ data[HeadIndex] \in 1 .. max_msg_length
                 /\ reader' = [reader EXCEPT !.pc = "deliver", !.length = data[HeadIndex]]
        <4>1. data[HeadIndex] \in Nat
          BY <2>1, <3>4
        <4>2. reader' \in ReaderState
          BY <3>4, <4>1
        <4> QED
          BY <1>12, <4>2 DEF LoadLength
      <3>5. CASE reader' = NotReading
        BY <1>12, <3>5 DEF LoadLength, NotReading
      <3> QED
        BY <1>12, <3>2, <3>3, <3>4, <3>5 DEF LoadLength
  <1>13. CASE SkipPadding
    <2>1. HeadIndex \in 0 .. Capacity - 1
      BY IndexType DEF HeadIndex
    <2>2. (reader.next - HeadIndex) + Capacity \in Nat
      BY <2>1, CapacityAssumption
    <2>3. reader' \in ReaderState
      BY <1>13, <2>2 DEF SkipPadding
    <2>4. data' \in [Words -> Int]
      BY <1>13, StoreType DEF SkipPadding
    <2> QED
      BY <1>13, <2>3, <2>4 DEF SkipPadding
  <1>14. CASE Deliver
    <2>1. HeadIndex \in 0 .. Capacity - 1
      BY IndexType DEF HeadIndex
    <2>2. (HeadIndex + 1) % Capacity \in Words
      BY <2>1, CapacityAssumption DEF Words
    <2>3. RecordAtHead \in [type : Int, words : Int, content : SUBSET Int]
      BY <2>1, <2>2 DEF RecordAtHead, MSG_HEADER_LENGTH
    <2>4. delivered' \in Seq([type : Int, words : Int, content : SUBSET Int])
      BY <1>14, <2>3 DEF Deliver
    <2>5. reader' \in ReaderState
      BY <1>14 DEF Deliver
    <2> QED
      BY <1>14, <2>4, <2>5 DEF Deliver
  <1>15. CASE HandlerThrows
    BY <1>15 DEF HandlerThrows, NotReading
  <1>16. CASE ClearLength
    <2>1. reader.next + reader.length + LENGTH_WORD \in Nat
      BY DEF LENGTH_WORD
    <2>2. reader' \in ReaderState
      BY <1>16, <2>1 DEF ClearLength
    <2>3. data' \in [Words -> Int]
      BY <1>16, StoreType DEF ClearLength
    <2> QED
      BY <1>16, <2>2, <2>3 DEF ClearLength
  <1>17. CASE PublishHead
    BY <1>17 DEF PublishHead, NotReading
  <1>18. CASE UNCHANGED vars
    BY <1>18 DEF vars
  <1> QED
    BY <1>1, <1>2, <1>3, <1>4, <1>5, <1>6, <1>7, <1>8, <1>9, <1>10, <1>11, <1>12,
       <1>13, <1>14, <1>15, <1>16, <1>17, <1>18 DEF Next, WriteStep, ReadStep

\* The variables have their types in every reachable state.
THEOREM TypeCorrect == Spec => []TypeOK
  BY TypeInit, TypeNext, PTL DEF Spec

-----------------------------------------------------------------------------
(* The invariant.                                                          *)

\* The invariant holds of the buffer as it is created.
LEMMA InvInit == Init => IInv
  BY CapacityAssumption, TypeInit
     DEF Init, IInv, WriterInv, Knows, ReaderInv, NoOverrun, NotWriting, NotReading

\* What a producer knows stays true while the positions advance.
LEMMA KnowsLasts ==
  ASSUME NEW w \in WriterState, NEW t1 \in Nat, NEW t2 \in Nat,
         NEW h1 \in Nat, NEW h2 \in Nat, t1 <= t2, h1 <= h2, Knows(w, t1, h1)
  PROVE  Knows(w, t2, h2)
  BY CapacityAssumption DEF Knows, WriterState

\* A step of write() by p keeps what the other producers know.
LEMMA OthersKnow ==
  ASSUME TypeOK, TypeOK', WriterInv, tail <= tail', head <= head', NEW p \in Producers,
         \A q \in Producers \ {p} : writer'[q] = writer[q],
         Knows(writer'[p], tail', head')
  PROVE  WriterInv'
  <1> SUFFICES ASSUME NEW q \in Producers \ {p}
               PROVE  Knows(writer'[q], tail', head')
    BY DEF WriterInv
  <1>1. writer[q] \in WriterState /\ Knows(writer[q], tail, head)
    BY DEF TypeOK, WriterInv
  <1>2. tail \in Nat /\ tail' \in Nat /\ head \in Nat /\ head' \in Nat
    BY DEF TypeOK
  <1>3. Knows(writer[q], tail', head')
    BY <1>1, <1>2, KnowsLasts
  <1> QED
    BY <1>3

\* The words in use become fewer as the consumer advances.
LEMMA Frees ==
  ASSUME NEW t \in Nat, NEW h1 \in Nat, NEW h2 \in Nat, h1 <= h2, NEW c \in Nat, t - h1 <= c
  PROVE  t - h2 <= c
  OBVIOUS

\* A step of read() keeps what the producers know, and only frees words.
LEMMA AllKnow ==
  ASSUME TypeOK, TypeOK', WriterInv, NoOverrun,
         tail' = tail, head <= head', writer' = writer
  PROVE  WriterInv' /\ NoOverrun'
  <1>1. ASSUME NEW q \in Producers
        PROVE  Knows(writer'[q], tail', head')
    <2>1. writer[q] \in WriterState /\ Knows(writer[q], tail, head)
      BY DEF TypeOK, WriterInv
    <2> QED
      BY <2>1, KnowsLasts DEF TypeOK
  <1>2. /\ tail \in Nat /\ head \in Nat /\ head' \in Nat /\ tail' = tail
        /\ head <= head' /\ tail - head <= Capacity
    BY DEF TypeOK, NoOverrun
  <1>3. tail' - head' <= Capacity
    BY <1>2, CapacityAssumption, Frees
  <1> QED
    BY <1>1, <1>3 DEF WriterInv, NoOverrun

\* Every access of write() and read() to the positions keeps the invariant.
LEMMA InvNext == IInv /\ TypeOK' /\ [Next]_vars => IInv'
  <1> SUFFICES ASSUME IInv, TypeOK', [Next]_vars
               PROVE  WriterInv' /\ ReaderInv' /\ NoOverrun'
    BY DEF IInv
  <1>t. TypeOK /\ WriterInv /\ ReaderInv /\ NoOverrun
    BY DEF IInv
  <1>u. head \in Nat /\ tail \in Nat /\ reader.next \in Nat
    BY <1>t DEF TypeOK, ReaderState
  <1> USE CapacityAssumption DEF ring, history, faults
  <1>1. ASSUME NEW p \in Producers, NEW m \in MessagesOf[p], Write(p, m)
        PROVE  WriterInv' /\ ReaderInv' /\ NoOverrun'
    <2>1. writer'[p].pc = "tail" /\ writer'[p].msg = m
      BY <1>1, <1>t DEF Write, TypeOK, WriterState
    <2>2. Knows(writer'[p], tail', head')
      BY <1>1, <2>1 DEF Write, Knows
    <2>3. WriterInv'
      BY <1>1, <1>t, <1>u, <2>2, OthersKnow DEF Write, TypeOK
    <2> QED
      BY <1>1, <1>t, <2>3 DEF Write, ReaderInv, NoOverrun
  <1>2. ASSUME NEW p \in Producers, LoadTail(p)
        PROVE  WriterInv' /\ ReaderInv' /\ NoOverrun'
    <2>1. writer'[p].pc = "head" /\ writer'[p].msg = writer[p].msg /\ writer'[p].tail = tail
      BY <1>2, <1>t DEF LoadTail, TypeOK, WriterState
    <2>2. Knows(writer'[p], tail', head')
      BY <1>2, <1>t, <1>u, <2>1 DEF LoadTail, Knows, WriterInv
    <2>3. WriterInv'
      BY <1>2, <1>t, <1>u, <2>2, OthersKnow DEF LoadTail, TypeOK
    <2> QED
      BY <1>2, <1>t, <2>3 DEF LoadTail, ReaderInv, NoOverrun
  <1>3. ASSUME NEW p \in Producers, LoadHead(p)
        PROVE  WriterInv' /\ ReaderInv' /\ NoOverrun'
    <2> DEFINE claim == ClaimLength(writer[p].msg, writer[p].tail)
    <2>1. writer[p].tail \in Nat /\ writer[p].msg \in AnyMessage /\ claim \in Nat
      BY <1>t, ClaimBounds DEF TypeOK, WriterState
    <2>2. Knows(writer[p], tail, head)
      BY <1>t DEF WriterInv
    <2>3. CASE /\ claim <= Capacity - (writer[p].tail - head)
               /\ writer' = [writer EXCEPT ![p].pc = "cas",
                                           ![p].next = writer[p].tail + claim]
      <3> HIDE DEF claim
      <3>1. /\ writer'[p].pc = "cas" /\ writer'[p].msg = writer[p].msg
            /\ writer'[p].tail = writer[p].tail /\ writer'[p].next = writer[p].tail + claim
        BY <2>3, <1>t DEF TypeOK, WriterState
      <3> QED
        <4>1. Knows(writer'[p], tail', head')
          BY <1>3, <1>u, <2>1, <2>2, <2>3, <3>1 DEF LoadHead, Knows
        <4>2. WriterInv'
          BY <1>3, <1>t, <1>u, <2>3, <4>1, OthersKnow DEF LoadHead, TypeOK
        <4> QED
          BY <1>3, <1>t, <4>2 DEF LoadHead, ReaderInv, NoOverrun
    <2>4. CASE writer' = [writer EXCEPT ![p] = NotWriting]
      <3>1. writer'[p].pc = "idle"
        BY <2>4, <1>t DEF TypeOK, NotWriting
      <3>2. Knows(writer'[p], tail', head')
        BY <3>1 DEF Knows
      <3>3. \A q \in Producers \ {p} : writer'[q] = writer[q]
        BY <2>4, <1>t DEF TypeOK
      <3>4. WriterInv'
        BY <1>3, <1>t, <1>u, <3>2, <3>3, OthersKnow DEF LoadHead
      <3> QED
        BY <1>3, <1>t, <3>4 DEF LoadHead, ReaderInv, NoOverrun
    <2> QED
      BY <1>3, <2>3, <2>4 DEF LoadHead
  <1>4. ASSUME NEW p \in Producers, CompareAndSetTail(p)
        PROVE  WriterInv' /\ ReaderInv' /\ NoOverrun'
    <2>1. Knows(writer[p], tail, head) /\ writer[p].pc = "cas" /\ writer[p] \in WriterState
      BY <1>4, <1>t DEF WriterInv, CompareAndSetTail, TypeOK
    <2>2. tail' = writer[p].next /\ tail <= tail' /\ tail' <= head + Capacity
      BY <1>4, <2>1 DEF CompareAndSetTail, Knows
    <2>3. writer'[p].pc \in {"pad", "body"} /\ writer'[p].msg = writer[p].msg
      BY <1>4, <1>t DEF CompareAndSetTail, TypeOK, WriterState
    <2>4. Knows(writer'[p], tail', head')
      BY <2>1, <2>3 DEF Knows
    <2>5. WriterInv'
      <3>1. \A q \in Producers \ {p} : writer'[q] = writer[q]
        BY <1>4, <1>t DEF CompareAndSetTail, TypeOK
      <3>2. head <= head'
        BY <1>4, <1>u DEF CompareAndSetTail
      <3> QED
        BY <1>t, <2>2, <2>4, <3>1, <3>2, OthersKnow
    <2>6. NoOverrun'
      BY <1>4, <1>u, <2>1, <2>2 DEF CompareAndSetTail, NoOverrun, WriterState
    <2> QED
      BY <1>4, <1>t, <2>5, <2>6 DEF CompareAndSetTail, ReaderInv
  <1>5. ASSUME NEW p \in Producers,
               LoseTail(p) \/ PutPadding(p) \/ PutTypeAndBody(p) \/ PutLength(p) \/ Crash(p)
        PROVE  WriterInv' /\ ReaderInv' /\ NoOverrun'
    <2>1. /\ head' = head /\ tail' = tail /\ reader' = reader
          /\ \A q \in Producers \ {p} : writer'[q] = writer[q]
      BY <1>5, <1>t DEF LoseTail, PutPadding, PutTypeAndBody, PutLength, Crash, TypeOK
    <2>2. \/ writer'[p].pc \in {"idle", "dead"}
          \/ /\ writer'[p].pc \in {"tail", "body", "length"}
             /\ writer[p].pc \notin {"idle", "dead"}
             /\ writer'[p].msg = writer[p].msg
      <3>1. CASE PutLength(p) \/ Crash(p)
        BY <3>1, <1>t DEF PutLength, Crash, NotWriting, Dead, TypeOK
      <3>2. CASE LoseTail(p)
        BY <3>2, <1>t DEF LoseTail, TypeOK, WriterState
      <3>3. CASE PutPadding(p)
        BY <3>3, <1>t DEF PutPadding, TypeOK, WriterState
      <3>4. CASE PutTypeAndBody(p)
        BY <3>4, <1>t DEF PutTypeAndBody, TypeOK, WriterState
      <3> QED
        BY <1>5, <3>1, <3>2, <3>3, <3>4
    <2>3. Knows(writer'[p], tail', head')
      BY <1>t, <2>2 DEF WriterInv, Knows
    <2>4. WriterInv'
      BY <1>t, <1>u, <2>1, <2>3, OthersKnow
    <2> QED
      BY <1>t, <2>1, <2>4 DEF ReaderInv, NoOverrun
  <1>6. ASSUME writer' = writer, tail' = tail, head <= head', ReaderInv'
        PROVE  WriterInv' /\ ReaderInv' /\ NoOverrun'
    BY <1>6, <1>t, AllKnow
  <1>7. CASE Read
    <2>1. reader'.next = head
      BY <1>7, <1>t DEF Read, TypeOK, ReaderState
    <2> QED
      BY <1>6, <1>7, <1>u, <2>1 DEF Read, ReaderInv
  <1>8. CASE EndOfRecords \/ Deliver
    <2>1. reader'.next = reader.next /\ reader.pc # "idle"
      BY <1>8, <1>t DEF EndOfRecords, Deliver, TypeOK, ReaderState
    <2> QED
      BY <1>6, <1>8, <1>t, <1>u, <2>1 DEF EndOfRecords, Deliver, ReaderInv
  <1>9. CASE LoadLength
    <2>1. reader'.pc = "idle" \/ (reader'.next = reader.next /\ reader.pc # "idle")
      <3> HIDE DEF ring, history, faults
      <3>1. CASE reader' = NotReading
        BY <3>1 DEF NotReading
      <3>2. CASE \/ reader' = [reader EXCEPT !.pc = "publish"]
                 \/ reader' = [reader EXCEPT !.pc = "skip"]
        BY <1>9, <3>2, <1>t DEF LoadLength, TypeOK, ReaderState
      <3>3. CASE reader' = [reader EXCEPT !.pc = "deliver", !.length = data[HeadIndex]]
        BY <1>9, <3>3, <1>t DEF LoadLength, TypeOK, ReaderState
      <3> QED
        BY <1>9, <3>1, <3>2, <3>3 DEF LoadLength
    <2> QED
      BY <1>6, <1>9, <1>t, <1>u, <2>1 DEF LoadLength, ReaderInv
  <1>10. CASE SkipPadding
    <2>1. HeadIndex \in 0 .. Capacity - 1
      BY <1>u, IndexType DEF HeadIndex
    <2>2. reader'.next = (reader.next - HeadIndex) + Capacity
      BY <1>10, <1>t DEF SkipPadding, TypeOK, ReaderState
    <2>3. head <= reader'.next
      BY <1>10, <1>t, <1>u, <2>1, <2>2 DEF SkipPadding, ReaderInv
    <2> QED
      BY <1>6, <1>10, <1>u, <2>3 DEF SkipPadding, ReaderInv
  <1>11. CASE ClearLength
    <2>1. reader.length \in Nat
      BY <1>t DEF TypeOK, ReaderState
    <2>2. reader'.next = reader.next + reader.length + LENGTH_WORD
      BY <1>11, <1>t DEF ClearLength, TypeOK, ReaderState
    <2>3. head <= reader'.next
      BY <1>11, <1>t, <1>u, <2>1, <2>2 DEF ClearLength, ReaderInv, LENGTH_WORD
    <2> QED
      BY <1>6, <1>11, <1>u, <2>3 DEF ClearLength, ReaderInv
  <1>12. CASE HandlerThrows
    BY <1>6, <1>12, <1>u DEF HandlerThrows, ReaderInv, NotReading
  <1>13. CASE PublishHead
    <2>1. head <= head'
      BY <1>13, <1>t DEF PublishHead, ReaderInv
    <2> QED
      BY <1>6, <1>13, <2>1 DEF PublishHead, ReaderInv, NotReading
  <1>14. CASE UNCHANGED vars
    BY <1>6, <1>14, <1>t, <1>u DEF vars, ReaderInv
  <1> QED
    BY <1>1, <1>2, <1>3, <1>4, <1>5, <1>7, <1>8, <1>9, <1>10, <1>11, <1>12, <1>13, <1>14
       DEF Next, WriteStep, ReadStep

\* The invariant: a producer that has computed its next tail can rely on it, as
\* long as its compare-and-set succeeds, however far head has moved since.
THEOREM InvCorrect == Spec => []IInv
  <1>1. IInv /\ [Next]_vars => IInv'
    BY InvNext, TypeNext DEF IInv
  <1> QED
    BY <1>1, InvInit, PTL DEF Spec

\* The ring never holds more unread words than it has.
THEOREM NeverOverrun == Spec => []NoOverrun
  <1>1. IInv => NoOverrun
    BY DEF IInv
  <1> QED
    BY <1>1, InvCorrect, PTL

\* A message that write() accepts at all is refused only while the ring holds
\* something unread, however old the tail was that the refusal is based on.
THEOREM DrainedRingAccepts == Spec => RefusedOnlyWhenOccupied
  <1>1. ASSUME IInv, Next, NEW p \in Producers,
               writer[p].pc = "head", writer'[p].pc = "idle"
        PROVE  head < tail
    <2>t. /\ TypeOK /\ Knows(writer[p], tail, head) /\ writer[p] \in WriterState
          /\ head \in Nat /\ tail \in Nat
      BY <1>1 DEF IInv, WriterInv, TypeOK
    <2>1. LoadHead(p)
      <3>1. writer' # writer
        BY <1>1
      <3>2. ASSUME NEW q \in Producers, NEW m \in MessagesOf[q], Write(q, m)
            PROVE  FALSE
        BY <1>1, <2>t, <3>2 DEF Write, TypeOK, WriterState
      <3>3. ASSUME NEW q \in Producers,
                   LoadTail(q) \/ CompareAndSetTail(q) \/ LoseTail(q) \/ PutPadding(q)
                     \/ PutTypeAndBody(q)
            PROVE  FALSE
        BY <1>1, <2>t, <3>3 DEF LoadTail, CompareAndSetTail, LoseTail, PutPadding,
                               PutTypeAndBody, TypeOK, WriterState
      <3>4. ASSUME NEW q \in Producers, PutLength(q) \/ Crash(q)
            PROVE  FALSE
        <4>1. CASE PutLength(q)
          BY <1>1, <2>t, <4>1 DEF PutLength, TypeOK, WriterState
        <4>2. CASE Crash(q)
          <5>1. writer'[p] = Dead \/ writer'[p] = writer[p]
            BY <2>t, <4>2 DEF Crash, TypeOK
          <5> QED
            BY <1>1, <5>1 DEF Dead
        <4> QED
          BY <3>4, <4>1, <4>2
      <3>5. ASSUME NEW q \in Producers, LoadHead(q)
            PROVE  q = p
        BY <1>1, <2>t, <3>5 DEF LoadHead, TypeOK, WriterState
      <3>6. ~ ReadStep /\ ~ HandlerThrows
        BY <3>1 DEF ReadStep, Read, EndOfRecords, LoadLength, SkipPadding, Deliver,
                    ClearLength, PublishHead, HandlerThrows
      <3> QED
        BY <1>1, <3>2, <3>3, <3>4, <3>5, <3>6 DEF Next, WriteStep
    <2> DEFINE claim == ClaimLength(writer[p].msg, writer[p].tail)
    <2>2. claim > Capacity - (writer[p].tail - head)
      <3>1. ~ (writer' = [writer EXCEPT ![p].pc = "cas", ![p].next = writer[p].tail + claim])
        <4> HIDE DEF claim
        <4> QED
          BY <1>1, <2>t DEF TypeOK, WriterState
      <3> QED
        BY <2>1, <3>1 DEF LoadHead
    <2>3. claim <= Capacity /\ claim \in Nat
      BY <1>1, <2>t, AcceptedFits, ClaimBounds DEF Knows, WriterState
    <2>4. writer[p].tail <= tail /\ writer[p].tail \in Nat
      BY <1>1, <2>t DEF Knows, WriterState
    <2> HIDE DEF claim
    <2> QED
      BY <2>t, <2>2, <2>3, <2>4, CapacityAssumption
  <1>2. IInv /\ [Next]_vars =>
          [\A p \in Producers : writer[p].pc = "head" /\ writer'[p].pc = "idle" => head < tail]_vars
    BY <1>1
  <1> QED
    BY <1>2, InvCorrect, PTL DEF RefusedOnlyWhenOccupied, Spec

-----------------------------------------------------------------------------
(* Up to the first misread.                                                 *)

\* Claim i: where it starts, its record, the length of the record, and whether
\* padding goes before it.
Start(i) == claims[i].start
Rec(i) == RecordPosition(claims[i].msg, claims[i].start)
Length(i) == RecordLength(claims[i].msg)
Pad(i) == Wraps(claims[i].msg, claims[i].start)

\* The claims lie one behind the other up to the tail.
ClaimsInv ==
  /\ \A i \in 1 .. Len(claims) :
       /\ claims[i].msg \in Messages
       /\ RecordLength(claims[i].msg) <= max_msg_length
       /\ claims[i].end = Start(i) + ClaimLength(claims[i].msg, Start(i))
       /\ claims[i].end <= tail
  /\ \A i, j \in 1 .. Len(claims) : i < j => claims[i].end <= Start(j)
  /\ \A i \in 1 .. Len(claims) : i + 1 <= Len(claims) => claims[i].end = Start(i + 1)
  /\ IF Len(claims) = 0 THEN tail = 0 ELSE tail = claims[Len(claims)].end
  /\ published \subseteq 1 .. Len(claims)

\* The claims whose length words the consumer has cleared.
Done == IF reader.pc = "clear" THEN Len(delivered) - 1 ELSE Len(delivered)

\* All that is before c has been consumed.  head is not behind it, and when it is
\* before it, as a handler threw, then it stands at a word that was cleared.
ConsumedInv(c) ==
  /\ head <= c /\ c <= tail
  /\ head < c => data[Index(head)] = 0
  /\ Done \in 0 .. Len(claims)
  /\ \A i \in 1 .. Done : claims[i].end <= c
  /\ IF Done = Len(claims) THEN c = tail ELSE c \in {Start(Done + 1), Rec(Done + 1)}
  /\ \A i \in 1 .. Len(delivered) : i \in published /\ delivered[i] = View(claims[i].msg)
  /\ head < tail => \E i \in 1 .. Len(claims) : head \in {Start(i), Rec(i)}

\* The consumer works at c; unless a handler has thrown and it is stuck at a head
\* whose length word it has cleared before.
ReadingInv(c) ==
  /\ reader.pc # "idle" =>
       /\ reader.tail <= tail
       /\ \/ reader.next = c
          \/ reader.next = head /\ head < c /\ reader.pc \in {"loop", "publish"}
  /\ throws = 0 => c = IF reader.pc = "idle" THEN head ELSE reader.next
  /\ reader.pc = "skip" =>
       Done < Len(claims) /\ c = Start(Done + 1) /\ Pad(Done + 1) /\ Index(c) \in lengths
  /\ reader.pc \in {"deliver", "clear"} =>
       Done + 1 \in published /\ c = Rec(Done + 1) /\ reader.length = Length(Done + 1)

\* The type and the body of this message are in the record at this position.
Written(m, position) ==
  /\ data[Index(position + 1)] = m.type
  /\ \A k \in 2 .. RecordLength(m) - 1 : data[Index(position + k)] = m.fill

\* What a producer has claimed is not published.
WriterOK(w, c) ==
  /\ w.pc \notin {"idle", "dead"} => w.msg \in Messages
  /\ w.pc = "cas" => w.next = w.tail + ClaimLength(w.msg, w.tail)
  /\ w.pc \in {"pad", "body", "length"} =>
       \E i \in 1 .. Len(claims) :
         i \notin published /\ claims[i] = [start |-> w.tail, end |-> w.next, msg |-> w.msg]
  /\ w.pc = "pad" => Wraps(w.msg, w.tail) /\ c <= w.tail /\ Index(w.tail) \notin lengths
  /\ w.pc = "length" => Written(w.msg, RecordPosition(w.msg, w.tail))

OwnersInv(c) ==
  /\ \A p \in Producers : WriterOK(writer[p], c)
  /\ \A p, q \in Owners : p # q => writer[p].tail # writer[q].tail

\* A length at this index is the one of a published record or of padding that is
\* not consumed.
LengthOK(x, c) ==
  \E i \in 1 .. Len(claims) :
    \/ i \in published /\ c <= Rec(i) /\ Index(Rec(i)) = x
    \/ Pad(i) /\ c <= Start(i) /\ Index(Start(i)) = x

\* The record of a claim, once published, and the padding before it are as written
\* until they are consumed.
RecordOK(i, c) ==
  c <= Rec(i) => data[Index(Rec(i))] = Length(i) /\ Written(claims[i].msg, Rec(i))
PaddingOK(i, c) ==
  Pad(i) /\ c <= Start(i) /\ Index(Start(i)) \in lengths =>
    data[Index(Start(i))] = - ToBufferEnd(Start(i))

DataInv(c) ==
  /\ \A x \in lengths : LengthOK(x, c)
  /\ \A i \in published : RecordOK(i, c)
  /\ \A i \in 1 .. Len(claims) : PaddingOK(i, c)

WordsInv(c) == ClaimsInv /\ ConsumedInv(c) /\ ReadingInv(c) /\ OwnersInv(c) /\ DataInv(c)
ClearedInv == \E c \in Nat : WordsInv(c)

-----------------------------------------------------------------------------
(* Positions and indices.                                                   *)

\* A multiple is not less than what is multiplied.
LEMMA MultipleApart ==
  ASSUME NEW m \in Nat \ {0}, NEW d \in Int, d > 0
  PROVE  d * m >= m
<1> DEFINE e == d - 1
<1>1. e \in Nat /\ d = e + 1
  OBVIOUS
<1> HIDE DEF e
<1>2. e * m >= 0
  BY <1>1
<1>3. (e + 1) * m = e * m + m
  BY <1>1
<1> QED BY <1>1, <1>2, <1>3

\* Quotient and remainder.
LEMMA DivisionParts ==
  ASSUME NEW m \in Nat \ {0}, NEW x \in Int
  PROVE  /\ x \div m \in Int /\ x % m \in 0 .. m - 1
         /\ x = (x \div m) * m + (x % m)
<1>1. x \div m \in Int /\ x % m \in 0 .. m - 1
  OBVIOUS
<1>2. x = m * (x \div m) + (x % m)
  OBVIOUS
<1> QED BY <1>1, <1>2

\* The remainder is the only number below the divisor that leaves a multiple.
LEMMA Remainder ==
  ASSUME NEW m \in Nat \ {0}, NEW a \in Int, NEW r \in 0 .. m - 1
  PROVE  (a * m + r) % m = r
<1> DEFINE x == a * m + r
           q == x \div m
           s == x % m
<1>1. x \in Int
  OBVIOUS
<1>2. q \in Int /\ s \in 0 .. m - 1 /\ x = q * m + s
  BY <1>1, DivisionParts
<1> DEFINE A == a * m
           Q == q * m
<1>3. A + r = Q + s /\ A \in Int /\ Q \in Int
  BY <1>2
<1>4. a > q => A - Q >= m
  <2>1. SUFFICES ASSUME a > q PROVE A - Q >= m
    OBVIOUS
  <2>2. (a - q) * m >= m
    BY <1>2, <2>1, MultipleApart
  <2> QED BY <1>2, <2>2
<1>5. a < q => Q - A >= m
  <2>1. SUFFICES ASSUME a < q PROVE Q - A >= m
    OBVIOUS
  <2>2. (q - a) * m >= m
    BY <1>2, <2>1, MultipleApart
  <2> QED BY <1>2, <2>2
<1>6. s = r
  <2> HIDE DEF x, q, s, A, Q
  <2>1. a = q
    BY <1>2, <1>3, <1>4, <1>5
  <2>2. A = Q
    BY <2>1 DEF A, Q
  <2> QED BY <1>2, <1>3, <2>2
<1> QED BY <1>6

\* Two positions of the ring less than its length apart have different indices.
LEMMA IndexApart ==
  ASSUME NEW x \in Nat, NEW y \in Nat, x <= y, y < x + Capacity, Index(x) = Index(y)
  PROVE  x = y
<1> DEFINE a == x \div Capacity
           b == y \div Capacity
           r == x % Capacity
           A == a * Capacity
           B == b * Capacity
<1>1. /\ a \in Int /\ b \in Int /\ r \in 0 .. Capacity - 1
      /\ x = A + r /\ y = B + r
  BY DivisionParts, CapacityAssumption DEF Index
<1> HIDE DEF a, b, r
<1>2. A \in Int /\ B \in Int
  BY <1>1, CapacityAssumption
<1>3. (b - a) * Capacity = B - A
  BY <1>1, CapacityAssumption
<1>4. b > a => B - A >= Capacity
  BY <1>1, <1>3, MultipleApart, CapacityAssumption
<1>5. a > b => A - B >= Capacity
  <2>1. (a - b) * Capacity = A - B
    BY <1>1, CapacityAssumption
  <2> QED BY <1>1, <2>1, MultipleApart, CapacityAssumption
<1>6. a = b
  <2> HIDE DEF A, B
  <2> QED BY <1>1, <1>2, <1>4, <1>5, CapacityAssumption
<1>7. A = B
  BY <1>6
<1> HIDE DEF A, B
<1> QED BY <1>1, <1>2, <1>7

\* The index counts with the position up to the end of the buffer, and begins at 0
\* again there.
LEMMA IndexAhead ==
  ASSUME NEW x \in Nat, NEW j \in Nat, Index(x) + j <= Capacity
  PROVE  Index(x + j) = IF Index(x) + j = Capacity THEN 0 ELSE Index(x) + j
<1> DEFINE a == x \div Capacity
           r == x % Capacity
           A == a * Capacity
<1>1. a \in Int /\ r \in 0 .. Capacity - 1 /\ x = A + r /\ r = Index(x)
  BY DivisionParts, CapacityAssumption DEF Index
<1> HIDE DEF a, r
<1>2. A \in Int
  BY <1>1, CapacityAssumption
<1>3. (a + 1) * Capacity = A + Capacity
  BY <1>1, CapacityAssumption
<1> HIDE DEF A
<1>4. CASE r + j < Capacity
  <2>1. r + j \in 0 .. Capacity - 1
    BY <1>1, <1>4, CapacityAssumption
  <2>2. (a * Capacity + (r + j)) % Capacity = r + j
    BY <1>1, <2>1, Remainder, CapacityAssumption
  <2>3. (A + (r + j)) % Capacity = r + j
    BY <2>2 DEF A
  <2>4. A + (r + j) = x + j
    BY <1>1, <1>2
  <2> QED BY <1>1, <1>4, <2>3, <2>4 DEF Index
<1>5. CASE r + j = Capacity
  <2>1. a + 1 \in Int /\ 0 \in 0 .. Capacity - 1
    BY <1>1, CapacityAssumption
  <2>2. ((a + 1) * Capacity + 0) % Capacity = 0
    BY <2>1, Remainder, CapacityAssumption
  <2>3. (a + 1) * Capacity + 0 = x + j
    <3> DEFINE B == (a + 1) * Capacity
    <3>1. B = A + Capacity
      BY <1>3
    <3> HIDE DEF B
    <3>2. B + 0 = x + j
      BY <1>1, <1>2, <1>5, <3>1, CapacityAssumption
    <3> QED BY <3>2 DEF B
  <2> QED BY <1>1, <1>5, <2>2, <2>3 DEF Index
<1>6. r + j < Capacity \/ r + j = Capacity
  BY <1>1, CapacityAssumption
<1> QED BY <1>4, <1>5, <1>6

\* As many positions as there are words have an index each.
LEMMA LiveApart ==
  ASSUME NEW c \in Nat, NEW x \in Nat, NEW y \in Nat, c <= x, c <= y,
         x < c + Capacity, y < c + Capacity, Index(x) = Index(y)
  PROVE  x = y
<1>1. CASE x <= y
  <2>1. y < x + Capacity
    BY <1>1, CapacityAssumption
  <2> QED BY <1>1, <2>1, IndexApart
<1>2. CASE y <= x
  <2>1. x < y + Capacity
    BY <1>2, CapacityAssumption
  <2> QED BY <1>2, <2>1, IndexApart
<1> QED BY <1>1, <1>2

\* A tail that does not overrun the head is within a ring's length of what is ahead of it.
LEMMA Within ==
  ASSUME NEW t \in Nat, NEW h \in Nat, NEW k \in Nat, t - h <= Capacity, h <= k
  PROVE  t <= k + Capacity
<1>1. Capacity \in Int
  BY CapacityAssumption
<1> QED BY <1>1

\* What is claimed from c on fits in the ring.
LEMMA TailAhead ==
  ASSUME TypeOK, NoOverrun, NEW c \in Nat, head <= c
  PROVE  \A x \in Nat : x < tail => x < c + Capacity
<1>1. head \in Nat /\ tail \in Nat /\ tail - head <= Capacity
  BY DEF TypeOK, NoOverrun
<1>2. tail <= c + Capacity
  BY <1>1, Within
<1> QED BY <1>1, <1>2, CapacityAssumption

\* Positions of what is claimed from c on have an index each.
LEMMA ClaimedApart ==
  ASSUME TypeOK, NoOverrun, NEW c \in Nat, head <= c,
         NEW x \in Nat, c <= x, x < tail, NEW y \in Nat, c <= y, y < tail, Index(x) = Index(y)
  PROVE  x = y
<1>1. x < c + Capacity /\ y < c + Capacity
  BY TailAhead
<1> QED BY <1>1, LiveApart

\* Where a claim puts its words.
LEMMA Layout ==
  ASSUME NEW m \in Messages, RecordLength(m) <= max_msg_length, NEW s \in Nat
  PROVE  /\ m \in AnyMessage /\ m.words \in Nat /\ RecordLength(m) = m.words + 2
         /\ RecordPosition(m, s) \in Nat /\ s <= RecordPosition(m, s)
         /\ s + ClaimLength(m, s) = RecordPosition(m, s) + RecordLength(m) + 1
         /\ Index(RecordPosition(m, s)) + RecordLength(m) + 1 <= Capacity
         /\ Wraps(m, s) => /\ RecordPosition(m, s) = s + ToBufferEnd(s)
                           /\ s < RecordPosition(m, s)
         /\ ~ Wraps(m, s) => RecordPosition(m, s) = s
<1>1. m \in AnyMessage /\ Capacity \in Nat \ {0}
  BY MessagesType, CapacityAssumption DEF Messages
<1>2. m.words \in Nat /\ RecordLength(m) = m.words + 2 /\ RequiredCapacity(m) = m.words + 3
  BY <1>1 DEF AnyMessage, RequiredCapacity, RecordLength, MSG_HEADER_LENGTH, LENGTH_WORD
<1>3. m.words + 3 <= Capacity
  <2>1. \A x \in Nat : x <= Capacity \div 8 => 8 * x <= Capacity
    BY <1>1
  <2>2. 8 * (m.words + 2) <= Capacity
    BY <1>2, <2>1 DEF max_msg_length
  <2> QED BY <1>1, <1>2, <2>2
<1>4. PICK b : b = ToBufferEnd(s)
  OBVIOUS
<1>5. b \in 1 .. Capacity /\ Index(s) + b = Capacity /\ Index(s) \in Nat
  <2>1. Index(s) \in 0 .. Capacity - 1 /\ b = Capacity - Index(s)
    BY <1>4, IndexType DEF ToBufferEnd
  <2> QED BY <1>1, <2>1
<1>6. CASE Wraps(m, s)
  <2>1. RecordPosition(m, s) = s + b /\ ClaimLength(m, s) = (m.words + 3) + b
    BY <1>2, <1>4, <1>6 DEF RecordPosition, ClaimLength
  <2>2. Index(s + b) = 0
    BY <1>1, <1>5, IndexAhead
  <2> QED BY <1>1, <1>2, <1>3, <1>4, <1>5, <1>6, <2>1, <2>2
<1>7. CASE ~ Wraps(m, s)
  <2>1. RecordPosition(m, s) = s /\ ClaimLength(m, s) = m.words + 3
    <3>1. RecordPosition(m, s) = s + 0 /\ ClaimLength(m, s) = (m.words + 3) + 0
      BY <1>2, <1>7 DEF RecordPosition, ClaimLength
    <3> QED BY <1>2, <3>1
  <2>2. m.words + 3 <= b
    BY <1>1, <1>2, <1>4, <1>5, <1>7 DEF Wraps
  <2> QED BY <1>1, <1>2, <1>5, <1>7, <2>1, <2>2
<1> QED BY <1>6, <1>7

\* What is known of every claim.
LEMMA ClaimFacts ==
  ASSUME TypeOK, ClaimsInv, NEW i \in 1 .. Len(claims)
  PROVE  /\ claims[i].msg \in Messages /\ claims[i].msg \in AnyMessage
         /\ claims[i].msg.words \in Nat /\ Length(i) = claims[i].msg.words + 2
         /\ Length(i) \in Nat /\ Length(i) >= 2 /\ Length(i) <= max_msg_length
         /\ Start(i) \in Nat /\ Rec(i) \in Nat /\ Start(i) <= Rec(i)
         /\ claims[i].end \in Nat /\ claims[i].end = Rec(i) + Length(i) + 1
         /\ claims[i].end <= tail /\ Rec(i) < claims[i].end /\ Start(i) < claims[i].end
         /\ Index(Rec(i)) + Length(i) + 1 <= Capacity
         /\ Pad(i) => Rec(i) = Start(i) + ToBufferEnd(Start(i)) /\ Start(i) < Rec(i)
         /\ ~ Pad(i) => Rec(i) = Start(i)
<1>1. claims[i] \in Claim
  BY DEF TypeOK
<1>2. Start(i) \in Nat /\ claims[i].end \in Nat
  BY <1>1 DEF Claim, Start
<1>3. /\ claims[i].msg \in Messages /\ RecordLength(claims[i].msg) <= max_msg_length
      /\ claims[i].end = Start(i) + ClaimLength(claims[i].msg, Start(i))
      /\ claims[i].end <= tail
  BY DEF ClaimsInv
<1>4. PICK m \in Messages : m = claims[i].msg
  BY <1>3
<1>5. PICK s \in Nat : s = Start(i)
  BY <1>2
<1>6. /\ Rec(i) = RecordPosition(m, s) /\ Length(i) = RecordLength(m) /\ (Pad(i) <=> Wraps(m, s))
      /\ claims[i].end = s + ClaimLength(m, s) /\ RecordLength(m) <= max_msg_length
  BY <1>3, <1>4, <1>5 DEF Rec, Length, Pad, Start
<1>7. /\ m \in AnyMessage /\ m.words \in Nat /\ Length(i) = m.words + 2
      /\ Rec(i) \in Nat /\ s <= Rec(i)
      /\ claims[i].end = Rec(i) + Length(i) + 1
      /\ Index(Rec(i)) + Length(i) + 1 <= Capacity
      /\ Pad(i) => Rec(i) = s + ToBufferEnd(s) /\ s < Rec(i)
      /\ ~ Pad(i) => Rec(i) = s
  BY <1>6, Layout
<1>8. Length(i) \in Nat /\ Length(i) >= 2 /\ Rec(i) < claims[i].end /\ s < claims[i].end
  BY <1>7
<1> QED BY <1>2, <1>3, <1>4, <1>5, <1>6, <1>7, <1>8

\* A position lies in one claim only.
LEMMA OneClaim ==
  ASSUME TypeOK, ClaimsInv,
         NEW i \in 1 .. Len(claims), NEW j \in 1 .. Len(claims),
         NEW x \in Nat, Start(i) <= x, x < claims[i].end, Start(j) <= x, x < claims[j].end
  PROVE  i = j
<1>1. ~ (i < j) /\ ~ (j < i)
  <2>1. i < j => claims[i].end <= Start(j)
    BY DEF ClaimsInv
  <2>2. j < i => claims[j].end <= Start(i)
    BY DEF ClaimsInv
  <2>3. /\ Start(i) \in Nat /\ claims[i].end \in Nat
        /\ Start(j) \in Nat /\ claims[j].end \in Nat
    BY ClaimFacts
  <2> QED BY <2>1, <2>2, <2>3
<1>2. i \in Int /\ j \in Int
  BY DEF TypeOK
<1> QED BY <1>1, <1>2

\* So words of different claims that are not consumed have different indices, and so
\* have the beginning of the padding and the record of a claim.
LEMMA WordsApart ==
  ASSUME TypeOK, NoOverrun, ClaimsInv, NEW c \in Nat, head <= c,
         NEW i \in 1 .. Len(claims), NEW j \in 1 .. Len(claims),
         NEW x \in Nat, c <= x, Start(i) <= x, x < claims[i].end,
         NEW y \in Nat, c <= y, Start(j) <= y, y < claims[j].end, Index(x) = Index(y)
  PROVE  i = j /\ x = y
<1>1. /\ claims[i].end \in Nat /\ claims[i].end <= tail
      /\ claims[j].end \in Nat /\ claims[j].end <= tail /\ tail \in Nat
  BY ClaimFacts DEF TypeOK
<1>2. x < tail /\ y < tail
  BY <1>1
<1>3. x = y
  BY <1>2, ClaimedApart
<1> QED BY <1>3, OneClaim

\* The words of a record have consecutive indices.
LEMMA RecordIndices ==
  ASSUME TypeOK, ClaimsInv, NEW i \in 1 .. Len(claims), NEW k \in Nat, k <= Length(i)
  PROVE  /\ Index(Rec(i) + k) = Index(Rec(i)) + k
         /\ Index(Rec(i)) + k \in Words
         /\ Index(Rec(i)) \in Nat
         /\ Rec(i) + k \in Nat /\ Start(i) <= Rec(i) + k /\ Rec(i) + k < claims[i].end
<1>1. /\ Length(i) \in Nat /\ Start(i) \in Nat /\ Rec(i) \in Nat /\ Start(i) <= Rec(i)
      /\ claims[i].end = Rec(i) + Length(i) + 1 /\ Index(Rec(i)) + Length(i) + 1 <= Capacity
  BY ClaimFacts
<1>2. PICK r : r = Index(Rec(i))
  OBVIOUS
<1>3. r \in Nat /\ Capacity \in Nat
  BY <1>1, <1>2, IndexType, CapacityAssumption
<1>4. r + k <= Capacity /\ r + k # Capacity /\ r + k \in Words
  BY SMTT(20), <1>1, <1>2, <1>3 DEF Words
<1>5. Index(Rec(i) + k) = Index(Rec(i)) + k
  BY <1>1, <1>2, <1>4, IndexAhead
<1> QED BY SMTT(20), <1>1, <1>2, <1>3, <1>4, <1>5

-----------------------------------------------------------------------------
(* The consumer's claim, and the producers'.                                *)

\* Where the claims lie when the consumer is at c.
LEMMA Position ==
  ASSUME TypeOK, ClaimsInv, NEW c \in Nat, ConsumedInv(c), NEW i \in 1 .. Len(claims)
  PROVE  /\ Done \in Nat /\ Done <= Len(claims)
         /\ i <= Done => claims[i].end <= c /\ Start(i) < c /\ Rec(i) < c
         /\ i = Done + 1 => c = Start(i) \/ c = Rec(i)
         /\ i > Done + 1 => /\ Done + 1 \in 1 .. Len(claims) /\ claims[Done + 1].end <= Start(i)
                            /\ c <= Start(i)
         /\ i > Done => c <= Rec(i)
<1>1. Done \in Nat /\ Done <= Len(claims) /\ Len(claims) \in Nat
  BY DEF ConsumedInv, TypeOK
<1>2. \A k \in 1 .. Len(claims) :
        /\ Rec(k) \in Nat /\ Start(k) \in Nat /\ Start(k) <= Rec(k) /\ claims[k].end \in Nat
        /\ Rec(k) < claims[k].end /\ Start(k) < claims[k].end
  BY ClaimFacts
<1>3. ASSUME i <= Done PROVE claims[i].end <= c /\ Start(i) < c /\ Rec(i) < c
  <2>1. i \in 1 .. Done
    BY <1>1, <1>3
  <2>2. claims[i].end <= c
    BY <2>1 DEF ConsumedInv
  <2> QED BY <1>2, <2>2
<1>4. Done < Len(claims) => c = Start(Done + 1) \/ c = Rec(Done + 1)
  BY <1>1 DEF ConsumedInv
<1>5. ASSUME i > Done + 1
      PROVE  /\ Done + 1 \in 1 .. Len(claims) /\ claims[Done + 1].end <= Start(i)
             /\ c <= Start(i)
  <2>1. Done + 1 \in 1 .. Len(claims) /\ Done < Len(claims)
    BY <1>1, <1>5
  <2>2. claims[Done + 1].end <= Start(i)
    BY <1>5, <2>1 DEF ClaimsInv
  <2> QED BY <1>2, <1>4, <2>1, <2>2
<1>6. ASSUME i > Done PROVE c <= Rec(i)
  <2>1. i = Done + 1 \/ i > Done + 1
    BY <1>1, <1>6
  <2> QED BY <1>1, <1>2, <1>4, <1>5, <2>1
<1>7. i = Done + 1 => c = Start(i) \/ c = Rec(i)
  BY <1>1, <1>4
<1> QED BY <1>1, <1>3, <1>5, <1>6, <1>7

\* The claim of a producer that has not published it; the consumer is not past it.
LEMMA OwnerFacts ==
  ASSUME TypeOK, NEW c \in Nat, ClaimsInv, ConsumedInv(c),
         NEW w, WriterOK(w, c), w.pc \in {"pad", "body", "length"}
  PROVE  \E i \in 1 .. Len(claims) :
           /\ i \notin published /\ Done < i /\ c <= Rec(i)
           /\ Start(i) = w.tail /\ Rec(i) = RecordPosition(w.msg, w.tail)
           /\ Length(i) = RecordLength(w.msg) /\ (Pad(i) <=> Wraps(w.msg, w.tail))
           /\ claims[i].msg = w.msg /\ claims[i].end = w.next /\ w.msg \in Messages
<1>1. PICK i \in 1 .. Len(claims) :
        i \notin published /\ claims[i] = [start |-> w.tail, end |-> w.next, msg |-> w.msg]
  BY DEF WriterOK
<1>2. /\ Start(i) = w.tail /\ Rec(i) = RecordPosition(w.msg, w.tail)
      /\ Length(i) = RecordLength(w.msg) /\ (Pad(i) <=> Wraps(w.msg, w.tail))
      /\ claims[i].msg = w.msg /\ claims[i].end = w.next
  BY <1>1 DEF Start, Rec, Length, Pad
<1>3. Done < i
  <2>1. Done \in Nat /\ Len(delivered) \in Nat /\ Done <= Len(delivered)
    BY DEF Done, ConsumedInv, TypeOK
  <2>2. SUFFICES ASSUME i <= Done PROVE FALSE
    BY <2>1
  <2>3. i \in 1 .. Len(delivered)
    BY <2>1, <2>2
  <2>4. i \in published
    BY <2>3 DEF ConsumedInv
  <2> QED BY <1>1, <2>4
<1>4. c <= Rec(i) /\ claims[i].msg \in Messages
  BY <1>3, Position, ClaimFacts
<1> QED BY <1>1, <1>2, <1>3, <1>4

\* A claim that is not published is behind the consumer, and no length is where its
\* own will be.
LEMMA Unpublished ==
  ASSUME TypeOK, NoOverrun, NEW c \in Nat, ClaimsInv, ConsumedInv(c), DataInv(c),
         NEW i \in 1 .. Len(claims), i \notin published
  PROVE  Done < i /\ c <= Rec(i) /\ Index(Rec(i)) \notin lengths
<1>1. Done < i
  <2>1. Done \in Nat /\ Len(delivered) \in Nat /\ Done <= Len(delivered)
    BY DEF Done, ConsumedInv, TypeOK
  <2>2. SUFFICES ASSUME i <= Done PROVE FALSE
    BY <2>1
  <2>3. i \in 1 .. Len(delivered)
    BY <2>1, <2>2
  <2> QED BY <2>3 DEF ConsumedInv
<1>2. c <= Rec(i) /\ head <= c
  BY <1>1, Position DEF ConsumedInv
<1>3. SUFFICES ASSUME Index(Rec(i)) \in lengths PROVE FALSE
  BY <1>1, <1>2
<1>4. PICK j \in 1 .. Len(claims) :
        \/ j \in published /\ c <= Rec(j) /\ Index(Rec(j)) = Index(Rec(i))
        \/ Pad(j) /\ c <= Start(j) /\ Index(Start(j)) = Index(Rec(i))
  BY <1>3 DEF DataInv, LengthOK
<1>5. /\ Rec(i) \in Nat /\ Start(i) \in Nat /\ Start(i) <= Rec(i) /\ Rec(i) < claims[i].end
      /\ Rec(j) \in Nat /\ Start(j) \in Nat /\ Start(j) <= Rec(j) /\ Rec(j) < claims[j].end
      /\ Start(j) < claims[j].end
      /\ Pad(j) => Start(j) < Rec(j)
  BY ClaimFacts
<1>6. CASE j \in published /\ c <= Rec(j) /\ Index(Rec(j)) = Index(Rec(i))
  <2>1. j = i
    BY <1>2, <1>5, <1>6, WordsApart
  <2> QED BY <1>6, <2>1
<1>7. CASE Pad(j) /\ c <= Start(j) /\ Index(Start(j)) = Index(Rec(i))
  <2>1. j = i /\ Start(j) = Rec(i)
    BY <1>2, <1>5, <1>7, WordsApart
  <2> QED BY <1>5, <1>7, <2>1
<1> QED BY <1>4, <1>6, <1>7

-----------------------------------------------------------------------------
(* The steps of write().                                                    *)

\* Steps that touch only what is private to a producer.
LEMMA PrivateStep ==
  ASSUME TypeOK, TypeOK', NEW c \in Nat, WordsInv(c), NEW p \in Producers,
         \A q \in Producers \ {p} : writer'[q] = writer[q],
         UNCHANGED << head, tail, data, lengths, reader, claims, published, delivered, throws >>,
         writer'[p].pc \notin {"pad", "body", "length"}, WriterOK(writer'[p], c)
  PROVE  WordsInv(c)'
<1>1. ClaimsInv'
  BY DEF WordsInv, ClaimsInv, Start
<1>2. Done' = Done
  BY DEF Done
<1>3. ConsumedInv(c)'
  BY <1>2 DEF WordsInv, ConsumedInv, Start, Rec
<1>4. ReadingInv(c)'
  BY <1>2 DEF WordsInv, ReadingInv, Start, Rec, Length, Pad
<1>5. DataInv(c)'
  BY DEF WordsInv, DataInv, LengthOK, RecordOK, PaddingOK, Written, Start, Rec, Length, Pad
<1>6. ASSUME NEW w, WriterOK(w, c) PROVE WriterOK(w, c)'
  BY <1>6 DEF WriterOK, Written
<1>7. \A q \in Producers : WriterOK(writer'[q], c)
  BY DEF WordsInv, OwnersInv
<1>8. \A q \in Producers : WriterOK(writer[q], c)'
  <2> SUFFICES ASSUME NEW q \in Producers, NEW w, w = writer'[q] PROVE WriterOK(w, c)'
    OBVIOUS
  <2> QED BY <1>6, <1>7
<1>9. \A q \in Owners' : q # p /\ q \in Owners /\ writer'[q] = writer[q]
  BY DEF Owners
<1>10. \A q, r \in Owners' : q # r => writer'[q].tail # writer'[r].tail
  BY <1>9 DEF WordsInv, OwnersInv
<1>11. OwnersInv(c)'
  BY <1>8, <1>10 DEF OwnersInv
<1> QED BY <1>1, <1>3, <1>4, <1>5, <1>11 DEF WordsInv

\* The steps of write() before its compare-and-set succeeds, and a producer that dies.
LEMMA WordsPrivate ==
  ASSUME TypeOK, TypeOK', NEW c \in Nat, WordsInv(c), NEW p \in Producers,
         (\E m \in MessagesOf[p] : Write(p, m)) \/ LoadTail(p) \/ LoadHead(p) \/ LoseTail(p)
           \/ Crash(p)
  PROVE  WordsInv(c)'
<1> USE DEF ring, history, faults
<1>1. WriterOK(writer[p], c) /\ writer[p] \in WriterState /\ writer \in [Producers -> WriterState]
  BY DEF WordsInv, OwnersInv, TypeOK
<1>2. ASSUME NEW m \in MessagesOf[p], Write(p, m) PROVE WordsInv(c)'
  <2>1. writer'[p].pc = "tail" /\ writer'[p].msg = m
    BY <1>1, <1>2 DEF Write, WriterState
  <2>2. m \in Messages
    BY DEF Messages
  <2>3. WriterOK(writer'[p], c)
    BY <2>1, <2>2 DEF WriterOK
  <2> QED BY <1>1, <1>2, <2>1, <2>3, PrivateStep DEF Write
<1>3. CASE LoadTail(p)
  <2>1. writer'[p].pc = "head" /\ writer'[p].msg = writer[p].msg
    BY <1>1, <1>3 DEF LoadTail, WriterState
  <2>2. WriterOK(writer'[p], c)
    BY <1>1, <1>3, <2>1 DEF LoadTail, WriterOK
  <2> QED BY <1>1, <1>3, <2>1, <2>2, PrivateStep DEF LoadTail
<1>4. CASE LoadHead(p)
  <2>1. writer[p].msg \in Messages /\ writer[p].tail \in Nat
    BY <1>1, <1>4 DEF LoadHead, WriterOK, WriterState
  <2> DEFINE next == writer[p].tail + ClaimLength(writer[p].msg, writer[p].tail)
  <2>2. CASE writer' = [writer EXCEPT ![p].pc = "cas", ![p].next = next]
    <3>1. /\ writer'[p].pc = "cas" /\ writer'[p].msg = writer[p].msg
          /\ writer'[p].tail = writer[p].tail /\ writer'[p].next = next
      <4> HIDE DEF next
      <4> QED BY <1>1, <2>2 DEF WriterState
    <3>2. WriterOK(writer'[p], c)
      BY <2>1, <3>1 DEF WriterOK
    <3> QED BY <1>1, <1>4, <2>2, <3>1, <3>2, PrivateStep DEF LoadHead
  <2>3. CASE writer' = [writer EXCEPT ![p] = NotWriting]
    <3>1. writer'[p].pc = "idle"
      BY <1>1, <2>3 DEF NotWriting
    <3>2. WriterOK(writer'[p], c)
      BY <3>1 DEF WriterOK
    <3> QED BY <1>1, <1>4, <2>3, <3>1, <3>2, PrivateStep DEF LoadHead
  <2> QED BY <1>4, <2>2, <2>3 DEF LoadHead
<1>5. CASE LoseTail(p)
  <2>1. writer'[p].pc = "tail" /\ writer'[p].msg = writer[p].msg
    BY <1>1, <1>5 DEF LoseTail, WriterState
  <2>2. WriterOK(writer'[p], c)
    BY <1>1, <1>5, <2>1 DEF LoseTail, WriterOK
  <2> QED BY <1>1, <1>5, <2>1, <2>2, PrivateStep DEF LoseTail
<1>6. CASE Crash(p)
  <2>1. writer'[p].pc = "dead"
    BY <1>1, <1>6 DEF Crash, Dead
  <2>2. WriterOK(writer'[p], c)
    BY <2>1 DEF WriterOK
  <2> QED BY <1>1, <1>6, <2>1, <2>2, PrivateStep DEF Crash
<1> QED BY <1>2, <1>3, <1>4, <1>5, <1>6

\* The compare-and-set: where the new claim begins, no length is left.
LEMMA WordsClaim ==
  ASSUME IInv, IInv', NEW c \in Nat, WordsInv(c), NEW p \in Producers, CompareAndSetTail(p)
  PROVE  WordsInv(c)'
<1> DEFINE w == writer[p]
           next == tail + ClaimLength(w.msg, tail)
           claim == [start |-> tail, end |-> next, msg |-> w.msg]
<1>1. /\ TypeOK /\ NoOverrun /\ TypeOK' /\ NoOverrun'
      /\ ClaimsInv /\ ConsumedInv(c) /\ ReadingInv(c) /\ OwnersInv(c) /\ DataInv(c)
  BY DEF IInv, WordsInv
<1>2. w.pc = "cas" /\ w.tail = tail /\ w.next = next /\ w.msg \in Messages
      /\ RecordLength(w.msg) <= max_msg_length
  <2>1. Knows(w, tail, head) /\ WriterOK(w, c)
    BY <1>1 DEF IInv, WriterInv, OwnersInv
  <2> QED BY <2>1 DEF CompareAndSetTail, Knows, WriterOK
<1>n. PICK n : n = Len(claims) + 1
  OBVIOUS
<1>3. /\ head' = head /\ data' = data /\ lengths' = lengths /\ reader' = reader
      /\ published' = published /\ delivered' = delivered /\ throws' = throws /\ tail' = next
      /\ claims' = Append(claims, claim)
  BY <1>2 DEF CompareAndSetTail, faults
<1>4. /\ Len(claims) \in Nat /\ tail \in Nat /\ head \in Nat
      /\ n \in 1 .. n /\ Len(claims') = n /\ claims'[n] = claim
      /\ \A i \in 1 .. Len(claims) : claims'[i] = claims[i] /\ i \in 1 .. n
      /\ \A i \in 1 .. n : i \in 1 .. Len(claims) \/ i = n
  <2>1. claims \in Seq(Claim)
    BY <1>1 DEF TypeOK
  <2>2. tail \in Nat /\ head \in Nat
    BY <1>1 DEF TypeOK
  <2> HIDE DEF claim
  <2> QED BY <1>3, <1>n, <2>1, <2>2
<1>5. /\ claims'[n].start = tail /\ claims'[n].end = next /\ claims'[n].msg = w.msg
      /\ \A i \in 1 .. Len(claims) : /\ claims'[i].start = Start(i)
                                     /\ claims'[i].msg = claims[i].msg
                                     /\ Rec(i)' = Rec(i) /\ (Pad(i)' <=> Pad(i))
                                     /\ Length(i)' = Length(i) /\ Start(i)' = Start(i)
  BY <1>4 DEF Start, Rec, Length, Pad
<1>6. /\ RecordPosition(w.msg, tail) \in Nat /\ tail <= RecordPosition(w.msg, tail)
      /\ next = RecordPosition(w.msg, tail) + RecordLength(w.msg) + 1
      /\ RecordLength(w.msg) \in Nat
  <2>1. PICK m \in Messages : m = w.msg
    BY <1>2
  <2>2. RecordLength(m) <= max_msg_length
    BY <1>2, <2>1
  <2>3. /\ m.words \in Nat /\ RecordLength(m) = m.words + 2
        /\ RecordPosition(m, tail) \in Nat /\ tail <= RecordPosition(m, tail)
        /\ tail + ClaimLength(m, tail) = RecordPosition(m, tail) + RecordLength(m) + 1
    BY <1>4, <2>2, Layout
  <2>4. RecordLength(m) \in Nat
    BY <2>3
  <2> QED BY <2>1, <2>3, <2>4
<1>7. tail < next /\ next \in Nat
  <2> HIDE DEF next, w
  <2> QED BY <1>4, <1>6
<1>8. Start(n)' = tail /\ claims'[n].end = next
  BY <1>5 DEF Start
<1> HIDE DEF next
<1>9. head <= c /\ c <= tail
  BY <1>1 DEF ConsumedInv
<1>10. Index(tail) \notin lengths
  <2>1. SUFFICES ASSUME Index(tail) \in lengths PROVE FALSE
    OBVIOUS
  <2>2. PICK i \in 1 .. Len(claims) :
          \/ c <= Rec(i) /\ Index(Rec(i)) = Index(tail)
          \/ c <= Start(i) /\ Index(Start(i)) = Index(tail)
    BY <1>1, <2>1 DEF DataInv, LengthOK
  <2>3. /\ Rec(i) \in Nat /\ Rec(i) < tail /\ Start(i) \in Nat /\ Start(i) < tail
    <3>1. /\ Rec(i) \in Nat /\ Start(i) \in Nat /\ Rec(i) < claims[i].end
          /\ Start(i) < claims[i].end /\ claims[i].end \in Nat /\ claims[i].end <= tail
      BY <1>1, ClaimFacts
    <3> QED BY <1>4, <3>1
  <2>4. tail < c + Capacity
    <3>1. next <= c + Capacity
      <4>1. next - head <= Capacity
        BY <1>1, <1>3 DEF NoOverrun
      <4> QED BY <1>4, <1>7, <1>9, <4>1, Within
    <3> QED BY <1>4, <1>7, <3>1, CapacityAssumption
  <2>5. Rec(i) < c + Capacity /\ Start(i) < c + Capacity
    BY <1>4, <2>3, <2>4, CapacityAssumption
  <2>6. Rec(i) = tail \/ Start(i) = tail
    BY <1>4, <1>9, <2>2, <2>3, <2>4, <2>5, LiveApart
  <2> QED BY <1>4, <2>3, <2>6
<1>11. \A i \in 1 .. Len(claims) :
         Start(i) \in Nat /\ claims[i].end \in Nat /\ claims[i].end <= tail /\ Start(i) < tail
  <2> TAKE i \in 1 .. Len(claims)
  <2>1. /\ Start(i) \in Nat /\ claims[i].end \in Nat /\ claims[i].end <= tail
        /\ Start(i) < claims[i].end
    BY <1>1, ClaimFacts
  <2> QED BY <1>4, <2>1
<1>12. ClaimsInv'
  <2>1. \A i \in 1 .. n :
          /\ claims'[i].msg \in Messages
          /\ RecordLength(claims'[i].msg) <= max_msg_length
          /\ claims'[i].end = claims'[i].start + ClaimLength(claims'[i].msg, claims'[i].start)
          /\ claims'[i].end <= tail'
    <3>1. ASSUME NEW i \in 1 .. Len(claims)
          PROVE  /\ claims[i].msg \in Messages
                 /\ RecordLength(claims[i].msg) <= max_msg_length
                 /\ claims[i].end = Start(i) + ClaimLength(claims[i].msg, Start(i))
                 /\ claims[i].end <= tail'
      <4>1. claims[i].end <= tail /\ claims[i].end \in Nat
        BY <1>11
      <4>2. claims[i].end <= tail'
        BY <1>3, <1>4, <1>7, <4>1
      <4> QED BY <1>1, <4>2 DEF ClaimsInv
    <3>2. claims'[n].end = tail + ClaimLength(w.msg, tail) /\ claims'[n].end <= tail'
      <4>1. claims'[n].end = next /\ next <= tail'
        <5>1. tail' = next /\ next \in Nat
          BY <1>3, <1>7
        <5> QED BY <1>8, <5>1
      <4>2. claims'[n].end = tail + ClaimLength(w.msg, tail)
        BY <1>8 DEF next
      <4> QED BY <4>1, <4>2
    <3> QED BY <1>2, <1>4, <1>5, <3>1, <3>2
  <2>2. \A i, j \in 1 .. n : i < j => claims'[i].end <= claims'[j].start
    <3> SUFFICES ASSUME NEW i \in 1 .. n, NEW j \in 1 .. n, i < j
                 PROVE  claims'[i].end <= claims'[j].start
      OBVIOUS
    <3>1. i \in 1 .. Len(claims)
      BY <1>4, <1>n
    <3>2. CASE j = n
      BY <1>4, <1>5, <1>11, <3>1, <3>2
    <3>3. CASE j \in 1 .. Len(claims)
      BY <1>1, <1>4, <1>5, <3>1, <3>3 DEF ClaimsInv
    <3> QED BY <1>4, <3>2, <3>3
  <2>3. \A i \in 1 .. n : i + 1 <= n => claims'[i].end = claims'[i + 1].start
    <3> SUFFICES ASSUME NEW i \in 1 .. n, i + 1 <= n PROVE claims'[i].end = claims'[i + 1].start
      OBVIOUS
    <3>1. i \in 1 .. Len(claims) /\ (i + 1 \in 1 .. Len(claims) \/ (i + 1 = n /\ i = Len(claims)))
      BY <1>4, <1>n
    <3>2. CASE i + 1 \in 1 .. Len(claims)
      BY <1>1, <1>4, <1>5, <3>1, <3>2 DEF ClaimsInv
    <3>3. CASE i + 1 = n /\ i = Len(claims)
      BY <1>1, <1>4, <1>5, <3>1, <3>3 DEF ClaimsInv
    <3> QED BY <3>1, <3>2, <3>3
  <2>4. n # 0 /\ tail' = claims'[n].end
    BY <1>3, <1>4, <1>8, <1>n
  <2>5. published' \subseteq 1 .. n
    BY <1>1, <1>3, <1>4 DEF ClaimsInv
  <2> QED BY <1>4, <2>1, <2>2, <2>3, <2>4, <2>5 DEF ClaimsInv, Start
<1>13. Done' = Done
  BY <1>3 DEF Done
<1>14. ConsumedInv(c)'
  <2>1. Done \in 0 .. Len(claims)
    BY <1>1 DEF ConsumedInv
  <2>2. head' <= c /\ c <= tail' /\ Done' \in 0 .. n
    <3>1. c <= next
      BY <1>4, <1>7, <1>9
    <3>2. Done \in 0 .. n
      BY <1>4, <1>n, <2>1
    <3> QED BY <1>3, <1>9, <1>13, <3>1, <3>2
  <2>3. \A i \in 1 .. Done : claims'[i].end <= c
    <3> TAKE i \in 1 .. Done
    <3>1. i \in 1 .. Len(claims)
      BY <1>4, <2>1
    <3> QED BY <1>1, <1>4, <3>1 DEF ConsumedInv
  <2>4. IF Done = n THEN c = tail' ELSE c \in {Start(Done + 1)', Rec(Done + 1)'}
    <3>1. Done # n
      BY <1>4, <2>1, <1>n
    <3>2. CASE Done = Len(claims)
      <4>1. c = tail /\ Done + 1 = n
        BY <1>1, <1>n, <3>2 DEF ConsumedInv
      <4> QED BY <1>3, <1>8, <1>13, <3>1, <4>1
    <3>3. CASE Done # Len(claims)
      <4>1. Done + 1 \in 1 .. Len(claims)
        BY <1>4, <2>1, <3>3
      <4> QED BY <1>1, <1>5, <1>13, <3>1, <3>3, <4>1 DEF ConsumedInv
    <3> QED BY <3>2, <3>3
  <2>5. \A i \in 1 .. Len(delivered) : i \in published /\ delivered[i] = View(claims'[i].msg)
    <3> TAKE i \in 1 .. Len(delivered)
    <3>1. i \in published /\ delivered[i] = View(claims[i].msg)
      BY <1>1 DEF ConsumedInv
    <3>2. i \in 1 .. Len(claims)
      BY <1>1, <3>1 DEF ClaimsInv
    <3> QED BY <1>4, <3>1, <3>2
  <2>6. \E i \in 1 .. n : head \in {Start(i)', Rec(i)'}
    <3>1. CASE head < tail
      <4>1. PICK i \in 1 .. Len(claims) : head \in {Start(i), Rec(i)}
        BY <1>1, <3>1 DEF ConsumedInv
      <4> QED BY <1>4, <1>5, <4>1
    <3>2. CASE ~ (head < tail)
      <4>1. head = tail
        BY <1>1, <1>4, <1>9, <3>2
      <4> QED BY <1>4, <1>8, <4>1
    <3> QED BY <3>1, <3>2
  <2>7. head' < c => data'[Index(head')] = 0
    BY <1>1, <1>3 DEF ConsumedInv
  <2> QED BY <1>3, <1>4, <1>13, <2>2, <2>3, <2>4, <2>5, <2>6, <2>7 DEF ConsumedInv
<1>15. ReadingInv(c)'
  <2>1. Done \in 0 .. Len(claims)
    BY <1>1 DEF ConsumedInv
  <2>2. reader.pc # "idle" => reader.tail <= tail'
    <3>1. reader.tail \in Nat
      BY <1>1 DEF TypeOK, ReaderState
    <3> QED BY <1>1, <1>3, <1>4, <1>7, <3>1 DEF ReadingInv
  <2>3. ASSUME reader.pc \in {"skip", "deliver", "clear"}
        PROVE  Done < Len(claims) /\ Done + 1 \in 1 .. Len(claims)
    <3>1. reader.pc = "skip" => Done < Len(claims)
      BY <1>1 DEF ReadingInv
    <3>2. reader.pc \in {"deliver", "clear"} => Done + 1 \in 1 .. Len(claims)
      BY <1>1 DEF ReadingInv, ClaimsInv
    <3> QED BY <1>4, <2>1, <2>3, <3>1, <3>2
  <2>4. /\ reader.pc = "skip" =>
             Done < n /\ c = Start(Done + 1)' /\ Pad(Done + 1)' /\ Index(c) \in lengths
        /\ reader.pc \in {"deliver", "clear"} =>
             Done + 1 \in published /\ c = Rec(Done + 1)' /\ reader.length = Length(Done + 1)'
    <3>1. CASE reader.pc = "skip"
      <4>1. Done < n
        BY <1>4, <2>1, <2>3, <3>1, <1>n
      <4> QED BY <1>1, <1>5, <1>13, <2>3, <3>1, <4>1 DEF ReadingInv
    <3>2. CASE reader.pc \in {"deliver", "clear"}
      BY <1>1, <1>5, <1>13, <2>3, <3>2 DEF ReadingInv
    <3> QED BY <3>1, <3>2
  <2> QED BY <1>1, <1>3, <1>4, <1>13, <2>2, <2>4 DEF ReadingInv
<1>16. OwnersInv(c)'
  <2>1. \A q \in Producers \ {p} : writer'[q] = writer[q]
    BY <1>1 DEF CompareAndSetTail, TypeOK
  <2>2. /\ writer'[p].pc = (IF Wraps(w.msg, tail) THEN "pad" ELSE "body")
        /\ writer'[p].msg = w.msg /\ writer'[p].tail = tail /\ writer'[p].next = next
    BY <1>1, <1>2 DEF CompareAndSetTail, TypeOK, WriterState
  <2>3. ASSUME NEW v, v = writer'[p] PROVE WriterOK(v, c)'
    <3>1. n \notin published
      BY <1>1, <1>4, <1>n DEF ClaimsInv
    <3>2. claims'[n] = [start |-> v.tail, end |-> v.next, msg |-> v.msg]
      BY <1>4, <2>2, <2>3
    <3> QED BY <1>2, <1>3, <1>4, <1>9, <1>10, <2>2, <2>3, <3>1, <3>2 DEF WriterOK
  <2>4. ASSUME NEW v, WriterOK(v, c) PROVE WriterOK(v, c)'
    BY <1>3, <1>4, <2>4 DEF WriterOK, Written
  <2>5. \A q \in Producers : WriterOK(writer[q], c)'
    <3> SUFFICES ASSUME NEW q \in Producers, NEW v, v = writer'[q] PROVE WriterOK(v, c)'
      OBVIOUS
    <3>1. CASE q = p
      BY <2>3, <3>1
    <3>2. CASE q # p
      BY <1>1, <2>1, <2>4, <3>2 DEF OwnersInv
    <3> QED BY <3>1, <3>2
  <2>6. \A q \in Owners : writer[q].tail < tail /\ writer[q].tail \in Nat
    <3> TAKE q \in Owners
    <3>1. q \in Producers /\ WriterOK(writer[q], c) /\ writer[q].pc \in {"pad", "body", "length"}
      BY <1>1 DEF OwnersInv, Owners
    <3>2. PICK i \in 1 .. Len(claims) : Start(i) = writer[q].tail
      BY <1>1, <3>1, OwnerFacts
    <3> QED BY <1>11, <3>2
  <2>7. \A q \in Owners' :
          q = p \/ (q \in Owners /\ writer'[q] = writer[q] /\ q \in Producers \ {p})
    BY <2>1 DEF Owners
  <2>8. \A q, r \in Owners' : q # r => writer'[q].tail # writer'[r].tail
    <3> SUFFICES ASSUME NEW q \in Owners', NEW r \in Owners', q # r
                 PROVE  writer'[q].tail # writer'[r].tail
      OBVIOUS
    <3>1. CASE q = p
      BY <1>4, <2>2, <2>6, <2>7, <3>1
    <3>2. CASE r = p
      BY <1>4, <2>2, <2>6, <2>7, <3>2
    <3>3. CASE q # p /\ r # p
      BY <1>1, <2>7, <3>3 DEF OwnersInv
    <3> QED BY <3>1, <3>2, <3>3
  <2> QED BY <2>5, <2>8 DEF OwnersInv
<1>17. DataInv(c)'
  <2>1. \A x \in lengths : LengthOK(x, c)'
    <3>1. \A x \in lengths :
            \E i \in 1 .. n :
              \/ i \in published /\ c <= Rec(i)' /\ Index(Rec(i)') = x
              \/ Pad(i)' /\ c <= Start(i)' /\ Index(Start(i)') = x
      BY <1>1, <1>4, <1>5 DEF DataInv, LengthOK
    <3> QED BY <1>3, <1>4, <3>1 DEF LengthOK
  <2>2. ASSUME NEW i \in published PROVE RecordOK(i, c)'
    <3>1. i \in 1 .. Len(claims)
      BY <1>1 DEF ClaimsInv
    <3>2. RecordOK(i, c) /\ claims'[i] = claims[i] /\ Rec(i)' = Rec(i) /\ Length(i)' = Length(i)
      BY <1>1, <1>4, <1>5, <3>1 DEF DataInv
    <3> QED BY <1>3, <3>2 DEF RecordOK, Written
  <2>3. ASSUME NEW i \in 1 .. n PROVE PaddingOK(i, c)'
    <3>1. CASE i \in 1 .. Len(claims)
      <4>1. PaddingOK(i, c) /\ (Pad(i)' <=> Pad(i)) /\ Start(i)' = Start(i)
        BY <1>1, <1>5, <3>1 DEF DataInv
      <4> QED BY <1>3, <4>1 DEF PaddingOK
    <3>2. CASE i = n
      BY <1>3, <1>8, <1>10, <3>2 DEF PaddingOK
    <3> QED BY <1>4, <3>1, <3>2
  <2> QED BY <1>3, <1>4, <2>1, <2>2, <2>3 DEF DataInv
<1> QED BY <1>12, <1>14, <1>15, <1>16, <1>17 DEF WordsInv

\* The step stores words only at the positions from lo to hi.
StoresAt(lo, hi) ==
  \A x \in Words : (\A s \in lo .. hi : Index(s) # x) =>
    data'[x] = data[x] /\ (x \in lengths' <=> x \in lengths)

\* It leaves the word at a position as it is.
Keeps(y) == data'[Index(y)] = data[Index(y)] /\ (Index(y) \in lengths' <=> Index(y) \in lengths)

\* A store from c on leaves what is claimed elsewhere from c on as it is, and a head
\* that is before c.
LEMMA StoreKeeps ==
  ASSUME TypeOK, NoOverrun, NEW c \in Nat, head <= c,
         NEW lo \in Nat, NEW hi \in Nat, c <= lo, hi < tail, StoresAt(lo, hi)
  PROVE  /\ \A y \in Nat : c <= y /\ y < tail /\ y \notin lo .. hi => Keeps(y)
         /\ head < c => Keeps(head)
<1>1. ASSUME NEW y \in Nat, c <= y, y < tail, y \notin lo .. hi PROVE Keeps(y)
  <2>1. Index(y) \in Words
    BY IndexType
  <2>2. \A s \in lo .. hi : Index(s) # Index(y)
    <3> SUFFICES ASSUME NEW s \in lo .. hi, Index(s) = Index(y) PROVE FALSE
      OBVIOUS
    <3>1. s \in Nat /\ c <= s /\ s < tail
      BY DEF TypeOK
    <3> QED BY <1>1, <3>1, ClaimedApart
  <2> QED BY <2>1, <2>2 DEF StoresAt, Keeps
<1>2. ASSUME head < c PROVE Keeps(head)
  <2>1. head \in Nat /\ tail \in Nat /\ tail - head <= Capacity
    BY DEF TypeOK, NoOverrun
  <2>2. Index(head) \in Words
    BY <2>1, IndexType
  <2>3. \A s \in lo .. hi : Index(s) # Index(head)
    <3> SUFFICES ASSUME NEW s \in lo .. hi, Index(s) = Index(head) PROVE FALSE
      OBVIOUS
    <3>1. s \in Nat /\ head < s /\ s < head + Capacity
      BY <1>2, <2>1, CapacityAssumption
    <3>2. head = s
      BY <2>1, <3>1, IndexApart
    <3> QED BY <2>1, <3>1, <3>2
  <2> QED BY <2>2, <2>3 DEF StoresAt, Keeps
<1> QED BY <1>1, <1>2

\* In particular it leaves the words of the other claims as they are.
LEMMA ClaimKept ==
  ASSUME TypeOK, NoOverrun, ClaimsInv, NEW c \in Nat, head <= c, NEW i \in 1 .. Len(claims),
         NEW lo \in Nat, NEW hi \in Nat, c <= lo, Start(i) <= lo, hi < claims[i].end,
         StoresAt(lo, hi), NEW j \in 1 .. Len(claims), j # i
  PROVE  \A y \in Nat : c <= y /\ Start(j) <= y /\ y < claims[j].end => Keeps(y)
<1> SUFFICES ASSUME NEW y \in Nat, c <= y, Start(j) <= y, y < claims[j].end PROVE Keeps(y)
  OBVIOUS
<1>1. /\ claims[i].end \in Nat /\ claims[i].end <= tail /\ Start(i) \in Nat
      /\ claims[j].end \in Nat /\ claims[j].end <= tail /\ tail \in Nat
  BY ClaimFacts DEF TypeOK
<1>2. y \notin lo .. hi
  <2> SUFFICES ASSUME y \in lo .. hi PROVE FALSE
    OBVIOUS
  <2>1. Start(i) <= y /\ y < claims[i].end
    BY <1>1
  <2> QED BY <2>1, OneClaim
<1>3. hi < tail /\ y < tail
  BY <1>1
<1> QED BY <1>2, <1>3, StoreKeeps

\* What is written in a record whose words are left as they are.
LEMMA WrittenKept ==
  ASSUME NEW m, NEW position \in Nat, RecordLength(m) \in Nat, RecordLength(m) >= 2,
         \A k \in 1 .. RecordLength(m) - 1 : Keeps(position + k), Written(m, position)
  PROVE  Written(m, position)'
<1>1. 1 \in 1 .. RecordLength(m) - 1
  OBVIOUS
<1>2. \A k \in 2 .. RecordLength(m) - 1 : k \in 1 .. RecordLength(m) - 1
  OBVIOUS
<1> QED BY <1>1, <1>2 DEF Written, Keeps

\* The record of a claim that a step does not store to.
LEMMA RecordKept ==
  ASSUME TypeOK, ClaimsInv, NEW j \in 1 .. Len(claims), claims' = claims, NEW c \in Nat,
         NEW d \in Nat, d <= c, RecordOK(j, d),
         \A y \in Nat : c <= y /\ Rec(j) <= y /\ y < claims[j].end => Keeps(y)
  PROVE  RecordOK(j, c)'
<1>1. /\ Rec(j) \in Nat /\ Length(j) \in Nat /\ Length(j) >= 2
      /\ claims[j].end = Rec(j) + Length(j) + 1
  BY ClaimFacts
<1>2. SUFFICES ASSUME c <= Rec(j)
               PROVE  data'[Index(Rec(j))] = Length(j) /\ Written(claims[j].msg, Rec(j))'
  BY DEF RecordOK, Rec, Length
<1>3. data[Index(Rec(j))] = Length(j) /\ Written(claims[j].msg, Rec(j))
  <2>1. d <= Rec(j)
    BY <1>1, <1>2
  <2> QED BY <2>1 DEF RecordOK
<1>4. Keeps(Rec(j))
  BY <1>1, <1>2
<1>5. ASSUME NEW m, m = claims[j].msg, NEW position, position = Rec(j)
      PROVE  Written(m, position)'
  <2>1. RecordLength(m) = Length(j) /\ Written(m, position) /\ position \in Nat
    BY <1>1, <1>3, <1>5 DEF Length
  <2>2. \A k \in 1 .. RecordLength(m) - 1 : Keeps(position + k)
    <3> TAKE k \in 1 .. RecordLength(m) - 1
    <3>1. PICK y : y = position + k
      OBVIOUS
    <3>2. y \in Nat /\ c <= y /\ Rec(j) <= y /\ y < claims[j].end
      BY <1>1, <1>2, <1>5, <2>1, <3>1
    <3> QED BY <3>1, <3>2
  <2> QED BY <1>1, <2>1, <2>2, WrittenKept
<1>6. Written(claims[j].msg, Rec(j))'
  <2>1. PICK m : m = claims[j].msg
    OBVIOUS
  <2>2. PICK position : position = Rec(j)
    OBVIOUS
  <2>3. Written(m, position)'
    BY <1>5, <2>1, <2>2
  <2> QED BY <2>1, <2>2, <2>3 DEF Written, Rec
<1> QED BY <1>3, <1>4, <1>6 DEF Keeps

\* The padding of a claim, where the word that says so is not stored to.
LEMMA PaddingKept ==
  ASSUME TypeOK, ClaimsInv, NEW j \in 1 .. Len(claims), claims' = claims, NEW c \in Nat,
         NEW d \in Nat, d <= c, PaddingOK(j, d), Pad(j) /\ c <= Start(j) => Keeps(Start(j))
  PROVE  PaddingOK(j, c)'
<1>1. Start(j) \in Nat
  BY ClaimFacts
<1>2. SUFFICES ASSUME Pad(j), c <= Start(j), Index(Start(j)) \in lengths'
               PROVE  data'[Index(Start(j))] = - ToBufferEnd(Start(j))
  BY DEF PaddingOK, Pad, Start
<1>3. d <= Start(j)
  BY <1>1, <1>2
<1> QED BY <1>2, <1>3 DEF PaddingOK, Keeps

\* A store of a producer, to its own claim from c on.
StoresTo(i, c, lo, hi) ==
  /\ c <= lo /\ Start(i) <= lo /\ hi < claims[i].end
  /\ StoresAt(lo, hi)
  /\ UNCHANGED << head, tail, reader, claims, delivered, throws >>
  /\ published \subseteq published' /\ published' \subseteq published \cup {i}

\* It leaves what concerns the positions and the consumer alone.
LEMMA StoreStep ==
  ASSUME TypeOK, NoOverrun, NEW c \in Nat, WordsInv(c), NEW i \in 1 .. Len(claims),
         NEW lo \in Nat, NEW hi \in Nat, StoresTo(i, c, lo, hi),
         Index(c) \in lengths /\ reader.pc = "skip" => Index(c) \in lengths'
  PROVE  ClaimsInv' /\ ConsumedInv(c)' /\ ReadingInv(c)'
<1>1. Done' = Done
  BY DEF Done, StoresTo
<1>2. ClaimsInv'
  BY DEF WordsInv, ClaimsInv, Start, StoresTo
<1>3. ConsumedInv(c)'
  <2>1. head < c => data'[Index(head)] = 0
    <3> SUFFICES ASSUME head < c PROVE data'[Index(head)] = 0
      OBVIOUS
    <3>1. ClaimsInv /\ head <= c /\ data[Index(head)] = 0
      BY DEF WordsInv, ConsumedInv
    <3>2. hi < tail
      <4>1. claims[i].end \in Nat /\ claims[i].end <= tail /\ tail \in Nat
        BY <3>1, ClaimFacts DEF TypeOK
      <4> QED BY <4>1 DEF StoresTo
    <3>3. Keeps(head)
      BY <3>1, <3>2, StoreKeeps DEF StoresTo
    <3> QED BY <3>1, <3>3 DEF Keeps
  <2> QED BY <1>1, <2>1 DEF WordsInv, ConsumedInv, Start, Rec, StoresTo
<1>4. ReadingInv(c)'
  BY <1>1 DEF WordsInv, ReadingInv, Start, Rec, Length, Pad, StoresTo
<1> QED BY <1>2, <1>3, <1>4

\* It keeps what the other producers rely on, when it is one of p.
LEMMA OthersStep ==
  ASSUME TypeOK, NoOverrun, NEW c \in Nat, WordsInv(c), NEW i \in 1 .. Len(claims),
         NEW lo \in Nat, NEW hi \in Nat, StoresTo(i, c, lo, hi), NEW p \in Producers,
         \A q \in Producers \ {p} : writer'[q] = writer[q],
         p \in Owners, Start(i) = writer[p].tail,
         p \in Owners' => writer'[p].tail = writer[p].tail,
         \A v : v = writer'[p] => WriterOK(v, c)'
  PROVE  OwnersInv(c)'
<1>1. ClaimsInv /\ ConsumedInv(c) /\ OwnersInv(c) /\ head <= c
  BY DEF WordsInv, ConsumedInv
<1>2. ASSUME NEW q \in Producers, q # p, NEW v, v = writer[q] PROVE WriterOK(v, c)'
  <2>1. WriterOK(v, c)
    BY <1>1, <1>2 DEF OwnersInv
  <2>2. CASE v.pc \in {"pad", "body", "length"}
    <3>1. PICK j \in 1 .. Len(claims) :
            /\ j \notin published /\ claims[j] = [start |-> v.tail, end |-> v.next, msg |-> v.msg]
      BY <2>1, <2>2 DEF WriterOK
    <3>2. /\ Start(j) = v.tail /\ Rec(j) = RecordPosition(v.msg, v.tail)
          /\ Length(j) = RecordLength(v.msg)
      BY <3>1 DEF Start, Rec, Length
    <3>3. j # i
      <4>1. q \in Owners
        BY <1>2, <2>2 DEF Owners
      <4> QED BY <1>1, <1>2, <3>2, <4>1 DEF OwnersInv
    <3>4. claims' = claims /\ j \notin published'
      BY <3>1, <3>3 DEF StoresTo
    <3>5. \A y \in Nat : c <= y /\ Start(j) <= y /\ y < claims[j].end => Keeps(y)
      BY <1>1, <3>3, ClaimKept DEF StoresTo
    <3>6. /\ Start(j) \in Nat /\ Start(j) < claims[j].end /\ Length(j) \in Nat /\ Length(j) >= 2
          /\ Rec(j) \in Nat /\ Start(j) <= Rec(j) /\ claims[j].end = Rec(j) + Length(j) + 1
      BY <1>1, ClaimFacts
    <3>7. c <= Rec(j)
      <4>1. PICK k \in 1 .. Len(claims) : c <= Rec(k) /\ Rec(k) = RecordPosition(v.msg, v.tail)
        BY <1>1, <2>1, <2>2, OwnerFacts
      <4> QED BY <3>2, <4>1
    <3>8. v.pc = "pad" => Wraps(v.msg, v.tail) /\ c <= v.tail /\ Index(v.tail) \notin lengths'
      <4>1. v.pc = "pad" => c <= Start(j) /\ Wraps(v.msg, v.tail) /\ Index(v.tail) \notin lengths
        BY <2>1, <3>2 DEF WriterOK
      <4>2. c <= Start(j) => Keeps(Start(j))
        BY <3>5, <3>6
      <4> QED BY <3>2, <4>1, <4>2 DEF Keeps
    <3>9. v.pc = "length" => Written(v.msg, RecordPosition(v.msg, v.tail))'
      <4> SUFFICES ASSUME v.pc = "length"
                   PROVE  Written(v.msg, RecordPosition(v.msg, v.tail))'
        OBVIOUS
      <4>1. Written(v.msg, RecordPosition(v.msg, v.tail))
        BY <2>1 DEF WriterOK
      <4>2. \A k \in 1 .. RecordLength(v.msg) - 1 : Keeps(RecordPosition(v.msg, v.tail) + k)
        <5> TAKE k \in 1 .. RecordLength(v.msg) - 1
        <5>1. PICK y : y = Rec(j) + k
          OBVIOUS
        <5>2. y \in Nat /\ c <= y /\ Start(j) <= y /\ y < claims[j].end
          BY SMTT(20), <3>2, <3>6, <3>7, <5>1
        <5> QED BY <3>2, <3>5, <5>1, <5>2
      <4> QED BY <3>2, <3>6, <4>1, <4>2, WrittenKept
    <3>10. v.pc # "cas" /\ v.msg \in Messages
      BY <2>1, <2>2 DEF WriterOK
    <3> QED BY <2>2, <3>1, <3>4, <3>8, <3>9, <3>10 DEF WriterOK
  <2>3. CASE v.pc \notin {"pad", "body", "length"}
    BY <2>1, <2>3 DEF WriterOK
  <2> QED BY <2>2, <2>3
<1>3. \A q \in Producers : WriterOK(writer[q], c)'
  <2> SUFFICES ASSUME NEW q \in Producers, NEW v, v = writer'[q] PROVE WriterOK(v, c)'
    OBVIOUS
  <2>1. CASE q = p
    BY <2>1
  <2>2. CASE q # p
    BY <1>2, <2>2
  <2> QED BY <2>1, <2>2
<1>4. \A q \in Owners' : q \in Owners /\ writer'[q].tail = writer[q].tail
  BY DEF Owners
<1>5. \A q, r \in Owners' : q # r => writer'[q].tail # writer'[r].tail
  BY <1>1, <1>4 DEF OwnersInv
<1> QED BY <1>3, <1>5 DEF OwnersInv

\* It keeps what the ring holds, when that is kept for the claim it stores to.
LEMMA DataStep ==
  ASSUME TypeOK, NoOverrun, NEW c \in Nat, WordsInv(c), NEW i \in 1 .. Len(claims),
         NEW lo \in Nat, NEW hi \in Nat, StoresTo(i, c, lo, hi),
         \A x \in lengths' : x \in lengths \/ LengthOK(x, c)',
         i \in published' => RecordOK(i, c)', PaddingOK(i, c)'
  PROVE  DataInv(c)'
<1>1. ClaimsInv /\ DataInv(c) /\ head <= c /\ claims' = claims
  BY DEF WordsInv, ConsumedInv, StoresTo
<1>2. ASSUME NEW j \in 1 .. Len(claims), j # i
      PROVE  \A y \in Nat : c <= y /\ Start(j) <= y /\ y < claims[j].end => Keeps(y)
  BY <1>1, <1>2, ClaimKept DEF StoresTo
<1>3. \A x \in lengths' : LengthOK(x, c)'
  <2> SUFFICES ASSUME NEW x, LengthOK(x, c) PROVE LengthOK(x, c)'
    BY <1>1 DEF DataInv
  <2> QED BY DEF LengthOK, Rec, Start, Pad, StoresTo
<1>4. ASSUME NEW j \in published' PROVE RecordOK(j, c)'
  <2>1. CASE j = i
    BY <2>1
  <2>2. CASE j # i
    <3>1. j \in published /\ j \in 1 .. Len(claims)
      BY <1>1, <2>2 DEF StoresTo, ClaimsInv
    <3>2. RecordOK(j, c) /\ Start(j) \in Nat /\ Rec(j) \in Nat /\ Start(j) <= Rec(j)
      BY <1>1, <3>1, ClaimFacts DEF DataInv
    <3>3. \A y \in Nat : c <= y /\ Rec(j) <= y /\ y < claims[j].end => Keeps(y)
      BY <1>2, <2>2, <3>1, <3>2
    <3> QED BY <1>1, <3>1, <3>2, <3>3, RecordKept
  <2> QED BY <2>1, <2>2
<1>5. ASSUME NEW j \in 1 .. Len(claims) PROVE PaddingOK(j, c)'
  <2>1. CASE j = i
    BY <2>1
  <2>2. CASE j # i
    <3>1. PaddingOK(j, c) /\ Start(j) \in Nat /\ Start(j) < claims[j].end
      BY <1>1, ClaimFacts DEF DataInv
    <3>2. c <= Start(j) => Keeps(Start(j))
      BY <1>2, <2>2, <3>1
    <3> QED BY <1>1, <3>1, <3>2, PaddingKept
  <2> QED BY <2>1, <2>2
<1> QED BY <1>1, <1>3, <1>4, <1>5 DEF DataInv

\* Padding is stored at the start of the claim, where no length is left.
LEMMA WordsPadding ==
  ASSUME IInv, IInv', NEW c \in Nat, WordsInv(c), NEW p \in Producers, PutPadding(p)
  PROVE  WordsInv(c)'
<1>1. /\ TypeOK /\ NoOverrun /\ TypeOK' /\ ClaimsInv /\ ConsumedInv(c) /\ OwnersInv(c)
  BY DEF IInv, WordsInv
<1>2. PICK w : w = writer[p]
  OBVIOUS
<1>3. WriterOK(w, c) /\ w.pc = "pad"
  BY <1>1, <1>2 DEF OwnersInv, PutPadding
<1>4. PICK i \in 1 .. Len(claims) :
        /\ i \notin published /\ Done < i /\ c <= Rec(i)
        /\ Start(i) = w.tail /\ Rec(i) = RecordPosition(w.msg, w.tail)
        /\ Length(i) = RecordLength(w.msg) /\ (Pad(i) <=> Wraps(w.msg, w.tail))
        /\ claims[i].msg = w.msg /\ claims[i].end = w.next /\ w.msg \in Messages
  BY <1>1, <1>3, OwnerFacts
<1>5. c <= Start(i) /\ Pad(i)
  BY <1>3, <1>4 DEF WriterOK
<1>6. /\ Start(i) \in Nat /\ Start(i) < claims[i].end /\ Index(Start(i)) \in Words
  <2>1. Start(i) \in Nat /\ Start(i) < claims[i].end
    BY <1>1, ClaimFacts
  <2> QED BY <2>1, IndexType
<1>7. /\ data' = [data EXCEPT ![Index(Start(i))] = - ToBufferEnd(Start(i))]
      /\ lengths' = lengths \cup {Index(Start(i))}
      /\ UNCHANGED << head, tail, reader, claims, published, delivered, throws >>
  BY <1>2, <1>4 DEF PutPadding, history, faults
<1>8. PICK lo \in Nat : lo = Start(i)
  BY <1>6
<1>9. StoresTo(i, c, lo, lo)
  <2>1. StoresAt(lo, lo)
    <3> SUFFICES ASSUME NEW x \in Words, \A s \in lo .. lo : Index(s) # x
                 PROVE  data'[x] = data[x] /\ (x \in lengths' <=> x \in lengths)
      BY DEF StoresAt
    <3>1. x # Index(Start(i))
      BY <1>8
    <3> QED BY <1>1, <1>7, <3>1 DEF TypeOK
  <2> QED BY <1>5, <1>6, <1>7, <1>8, <2>1 DEF StoresTo
<1>10. ClaimsInv' /\ ConsumedInv(c)' /\ ReadingInv(c)'
  BY <1>1, <1>7, <1>9, StoreStep
<1>11. OwnersInv(c)'
  <2>1. \A q \in Producers \ {p} : writer'[q] = writer[q]
    BY <1>1 DEF PutPadding, TypeOK
  <2>2. writer'[p].pc = "body" /\ writer'[p].tail = w.tail /\ writer'[p].msg = w.msg
        /\ writer'[p].next = w.next
    BY <1>1, <1>2 DEF PutPadding, TypeOK, WriterState
  <2>3. ASSUME NEW v, v = writer'[p] PROVE WriterOK(v, c)'
    BY <1>3, <1>7, <2>2, <2>3 DEF WriterOK
  <2>4. p \in Owners
    BY <1>2, <1>3 DEF Owners
  <2> QED BY <1>1, <1>2, <1>4, <1>9, <2>1, <2>2, <2>3, <2>4, OthersStep
<1>12. DataInv(c)'
  <2>1. \A x \in lengths' : x \in lengths \/ LengthOK(x, c)'
    <3> SUFFICES ASSUME NEW x, x = Index(Start(i)) PROVE LengthOK(x, c)'
      BY <1>7
    <3> QED BY <1>5, <1>7 DEF LengthOK, Pad, Start
  <2>2. PaddingOK(i, c)'
    <3>1. data'[Index(Start(i))] = - ToBufferEnd(Start(i))
      BY <1>1, <1>6, <1>7 DEF TypeOK
    <3> QED BY <1>7, <3>1 DEF PaddingOK, Start
  <2> QED BY <1>1, <1>4, <1>7, <1>9, <2>1, <2>2, DataStep
<1> QED BY <1>10, <1>11, <1>12 DEF WordsInv

\* The type and the body are stored behind the word of the length.
LEMMA WordsBody ==
  ASSUME IInv, IInv', NEW c \in Nat, WordsInv(c), NEW p \in Producers, PutTypeAndBody(p)
  PROVE  WordsInv(c)'
<1>1. /\ TypeOK /\ NoOverrun /\ TypeOK' /\ ClaimsInv /\ ConsumedInv(c) /\ ReadingInv(c)
      /\ OwnersInv(c) /\ DataInv(c)
  BY DEF IInv, WordsInv
<1>2. PICK w : w = writer[p]
  OBVIOUS
<1>3. WriterOK(w, c) /\ w.pc = "body"
  BY <1>1, <1>2 DEF OwnersInv, PutTypeAndBody
<1>4. PICK i \in 1 .. Len(claims) :
        /\ i \notin published /\ Done < i /\ c <= Rec(i)
        /\ Start(i) = w.tail /\ Rec(i) = RecordPosition(w.msg, w.tail)
        /\ Length(i) = RecordLength(w.msg) /\ (Pad(i) <=> Wraps(w.msg, w.tail))
        /\ claims[i].msg = w.msg /\ claims[i].end = w.next /\ w.msg \in Messages
  BY <1>1, <1>3, OwnerFacts
<1>5. PICK r \in Nat : r = Rec(i)
  BY <1>1, ClaimFacts
<1>6. PICK l \in Nat : l = Length(i)
  BY <1>1, ClaimFacts
<1>7. PICK index : index = Index(r)
  OBVIOUS
<1>8. \A k \in 0 .. l : Index(r + k) = index + k /\ index + k \in Words
  <2> TAKE k \in 0 .. l
  <2>1. k \in Nat /\ k <= Length(i)
    BY <1>6
  <2> QED BY <1>1, <1>5, <1>7, <2>1, RecordIndices
<1>9. /\ index \in Nat /\ l >= 2 /\ Start(i) \in Nat /\ Start(i) <= r
      /\ claims[i].end = r + l + 1 /\ (Pad(i) => Start(i) < r)
  <2>1. index \in Nat
    BY <1>5, <1>7, IndexType
  <2>2. /\ Length(i) >= 2 /\ Start(i) \in Nat /\ Start(i) <= Rec(i)
        /\ claims[i].end = Rec(i) + Length(i) + 1 /\ (Pad(i) => Start(i) < Rec(i))
    BY <1>1, ClaimFacts
  <2> QED BY <1>5, <1>6, <2>1, <2>2
<1>10. /\ \A x \in Words : data'[x] = IF x = index + 1 THEN w.msg.type
                                      ELSE IF x \in index + 2 .. index + l - 1 THEN w.msg.fill
                                      ELSE data[x]
       /\ lengths' = lengths \ ({index + 1} \cup (index + 2 .. index + l - 1))
       /\ UNCHANGED << head, tail, reader, claims, published, delivered, throws >>
  <2>1. RecordIndex(p) = index /\ RecordLength(writer[p].msg) = l /\ writer[p].msg = w.msg
    BY <1>2, <1>4, <1>5, <1>6, <1>7 DEF RecordIndex
  <2> QED BY <2>1 DEF PutTypeAndBody, history, faults, MSG_HEADER_LENGTH
<1>11. PICK lo \in Nat : lo = r + 1
  OBVIOUS
<1>12. PICK hi \in Nat : hi = r + l - 1
  BY <1>9
<1>13. StoresTo(i, c, lo, hi)
  <2>1. StoresAt(lo, hi)
    <3> SUFFICES ASSUME NEW x \in Words, \A s \in lo .. hi : Index(s) # x
                 PROVE  data'[x] = data[x] /\ (x \in lengths' <=> x \in lengths)
      BY DEF StoresAt
    <3>1. \A k \in 1 .. l - 1 : x # index + k
      <4> TAKE k \in 1 .. l - 1
      <4>1. r + k \in lo .. hi /\ k \in 0 .. l
        BY <1>11, <1>12
      <4> QED BY <1>8, <4>1
    <3>2. x # index + 1
      <4>1. 1 \in 1 .. l - 1
        BY <1>9
      <4> QED BY <3>1, <4>1
    <3>3. x \notin index + 2 .. index + l - 1
      <4> SUFFICES ASSUME x \in index + 2 .. index + l - 1 PROVE FALSE
        OBVIOUS
      <4>1. x - index \in 1 .. l - 1 /\ x = index + (x - index)
        BY <1>9
      <4> QED BY <3>1, <4>1
    <3> QED BY <1>10, <3>2, <3>3
  <2>2. c <= lo /\ Start(i) <= lo /\ hi < claims[i].end
    BY SMTT(20), <1>4, <1>5, <1>9, <1>11, <1>12
  <2> QED BY <1>10, <2>1, <2>2 DEF StoresTo
<1>14. head <= c /\ hi < tail /\ c <= lo
  <2>1. claims[i].end \in Nat /\ claims[i].end <= tail /\ tail \in Nat
    BY <1>1, ClaimFacts DEF TypeOK
  <2> QED BY <1>1, <1>13, <2>1 DEF ConsumedInv, StoresTo
<1>15. \A y \in Nat : c <= y /\ y <= r => Keeps(y)
  <2> SUFFICES ASSUME NEW y \in Nat, c <= y, y <= r PROVE Keeps(y)
    OBVIOUS
  <2>1. y \notin lo .. hi
    BY <1>11
  <2>2. y < tail
    <3>1. tail \in Nat
      BY <1>1 DEF TypeOK
    <3> QED BY <1>9, <1>12, <1>14, <3>1
  <2> QED BY <1>1, <1>13, <1>14, <2>1, <2>2, StoreKeeps DEF StoresTo
<1>16. ClaimsInv' /\ ConsumedInv(c)' /\ ReadingInv(c)'
  <2>1. Keeps(c)
    BY <1>4, <1>5, <1>15
  <2> QED BY <1>1, <1>13, <2>1, StoreStep DEF Keeps
<1>17. OwnersInv(c)'
  <2>1. \A q \in Producers \ {p} : writer'[q] = writer[q]
    BY <1>1 DEF PutTypeAndBody, TypeOK
  <2>2. writer'[p].pc = "length" /\ writer'[p].tail = w.tail /\ writer'[p].msg = w.msg
        /\ writer'[p].next = w.next
    BY <1>1, <1>2 DEF PutTypeAndBody, TypeOK, WriterState
  <2>3. ASSUME NEW v, v = writer'[p] PROVE WriterOK(v, c)'
    <3>1. v.pc = "length" /\ v.msg = w.msg /\ r = RecordPosition(v.msg, v.tail)
          /\ v.tail = w.tail /\ v.next = w.next /\ RecordLength(v.msg) = l
      BY <1>4, <1>5, <1>6, <2>2, <2>3
    <3>2. data'[Index(r + 1)] = v.msg.type
      <4>1. 1 \in 0 .. l
        BY <1>9
      <4> QED BY <1>8, <1>10, <3>1, <4>1
    <3>3. ASSUME NEW k \in 2 .. l - 1 PROVE data'[Index(r + k)] = v.msg.fill
      <4>1. k \in 0 .. l /\ index + k # index + 1 /\ index + k \in index + 2 .. index + l - 1
        BY <1>9
      <4> QED BY <1>8, <1>10, <3>1, <4>1
    <3>4. Written(v.msg, RecordPosition(v.msg, v.tail))'
      BY <3>1, <3>2, <3>3 DEF Written
    <3> QED BY <1>3, <1>10, <3>1, <3>4 DEF WriterOK
  <2>4. p \in Owners
    BY <1>2, <1>3 DEF Owners
  <2> QED BY <1>1, <1>2, <1>4, <1>13, <2>1, <2>2, <2>3, <2>4, OthersStep
<1>18. DataInv(c)'
  <2>1. \A x \in lengths' : x \in lengths \/ LengthOK(x, c)'
    BY <1>10
  <2>2. PaddingOK(i, c)'
    <3>1. PaddingOK(i, c)
      BY <1>1 DEF DataInv
    <3>2. Pad(i) /\ c <= Start(i) => Keeps(Start(i))
      BY <1>9, <1>15
    <3> QED BY <1>1, <1>10, <3>1, <3>2, PaddingKept
  <2> QED BY <1>1, <1>4, <1>10, <1>13, <2>1, <2>2, DataStep
<1> QED BY <1>16, <1>17, <1>18 DEF WordsInv

\* Storing a length word publishes the one record that the producer has claimed.
LEMMA PublishesOne ==
  ASSUME TypeOK, NEW c \in Nat, WordsInv(c), NEW p \in Producers, PutLength(p)
  PROVE  \E i \in 1 .. Len(claims) :
           /\ i \notin published /\ Done < i /\ c <= Rec(i) /\ Start(i) = writer[p].tail
           /\ Written(claims[i].msg, Rec(i))
           /\ data' = [data EXCEPT ![Index(Rec(i))] = Length(i)]
           /\ lengths' = lengths \cup {Index(Rec(i))}
           /\ published' = published \cup {i}
<1>1. ClaimsInv /\ ConsumedInv(c) /\ OwnersInv(c)
  BY DEF WordsInv
<1>2. PICK w : w = writer[p]
  OBVIOUS
<1>3. WriterOK(w, c) /\ w.pc = "length"
  BY <1>1, <1>2 DEF OwnersInv, PutLength
<1>4. PICK i \in 1 .. Len(claims) :
        /\ i \notin published /\ Done < i /\ c <= Rec(i)
        /\ Start(i) = w.tail /\ Rec(i) = RecordPosition(w.msg, w.tail)
        /\ Length(i) = RecordLength(w.msg) /\ (Pad(i) <=> Wraps(w.msg, w.tail))
        /\ claims[i].msg = w.msg /\ claims[i].end = w.next /\ w.msg \in Messages
  BY <1>1, <1>3, OwnerFacts
<1>5. Written(claims[i].msg, Rec(i))
  BY <1>3, <1>4 DEF WriterOK
<1>6. /\ data' = [data EXCEPT ![Index(Rec(i))] = Length(i)]
      /\ lengths' = lengths \cup {Index(Rec(i))}
      /\ published' = published \cup {k \in DOMAIN claims : claims[k].start = w.tail}
  <2>1. RecordIndex(p) = Index(Rec(i)) /\ RecordLength(w.msg) = Length(i)
    BY <1>2, <1>4 DEF RecordIndex
  <2> QED BY <1>2, <2>1 DEF PutLength
<1>7. published' = published \cup {i}
  <2>1. \A k \in 1 .. Len(claims) : claims[k].start = w.tail => k = i
    <3> SUFFICES ASSUME NEW k \in 1 .. Len(claims), Start(k) = Start(i) PROVE k = i
      BY <1>4 DEF Start
    <3>1. /\ Start(k) \in Nat /\ Start(k) < claims[k].end
          /\ Start(i) \in Nat /\ Start(i) < claims[i].end
      BY <1>1, ClaimFacts
    <3> QED BY <1>1, <3>1, OneClaim
  <2>2. DOMAIN claims = 1 .. Len(claims)
    BY DEF TypeOK
  <2> QED BY <1>4, <1>6, <2>1, <2>2 DEF Start
<1> QED BY <1>2, <1>4, <1>5, <1>6, <1>7

\* The length word is stored where no other record or padding has its own.
LEMMA WordsLength ==
  ASSUME IInv, IInv', NEW c \in Nat, WordsInv(c), NEW p \in Producers, PutLength(p)
  PROVE  WordsInv(c)'
<1>1. /\ TypeOK /\ NoOverrun /\ TypeOK' /\ ClaimsInv /\ ConsumedInv(c) /\ OwnersInv(c)
      /\ DataInv(c)
  BY DEF IInv, WordsInv
<1>2. PICK i \in 1 .. Len(claims) :
        /\ i \notin published /\ Done < i /\ c <= Rec(i) /\ Start(i) = writer[p].tail
        /\ Written(claims[i].msg, Rec(i))
        /\ data' = [data EXCEPT ![Index(Rec(i))] = Length(i)]
        /\ lengths' = lengths \cup {Index(Rec(i))}
        /\ published' = published \cup {i}
  BY <1>1, PublishesOne
<1>3. /\ Rec(i) \in Nat /\ Start(i) \in Nat /\ Start(i) <= Rec(i) /\ Rec(i) < claims[i].end
      /\ Length(i) \in Nat /\ Length(i) >= 2 /\ claims[i].end = Rec(i) + Length(i) + 1
      /\ claims[i].end \in Nat /\ claims[i].end <= tail /\ (Pad(i) => Start(i) < Rec(i))
      /\ Index(Rec(i)) \in Words
  <2>1. /\ Rec(i) \in Nat /\ Start(i) \in Nat /\ Start(i) <= Rec(i) /\ Rec(i) < claims[i].end
        /\ Length(i) \in Nat /\ Length(i) >= 2 /\ claims[i].end = Rec(i) + Length(i) + 1
        /\ claims[i].end \in Nat /\ claims[i].end <= tail /\ (Pad(i) => Start(i) < Rec(i))
    BY <1>1, ClaimFacts
  <2> QED BY <2>1, IndexType
<1>4. UNCHANGED << head, tail, reader, claims, delivered, throws >>
  BY DEF PutLength, faults
<1>5. PICK lo \in Nat : lo = Rec(i)
  BY <1>3
<1>6. StoresTo(i, c, lo, lo)
  <2>1. StoresAt(lo, lo)
    <3> SUFFICES ASSUME NEW x \in Words, \A s \in lo .. lo : Index(s) # x
                 PROVE  data'[x] = data[x] /\ (x \in lengths' <=> x \in lengths)
      BY DEF StoresAt
    <3>1. x # Index(Rec(i))
      BY <1>5
    <3> QED BY <1>1, <1>2, <3>1 DEF TypeOK
  <2> QED BY <1>2, <1>3, <1>4, <1>5, <2>1 DEF StoresTo
<1>7. \A y \in Nat : c <= y /\ y < tail /\ y # Rec(i) => Keeps(y)
  <2>1. lo < tail /\ c <= lo /\ head <= c
    <3>1. tail \in Nat
      BY <1>1 DEF TypeOK
    <3> QED BY <1>1, <1>2, <1>3, <1>5, <3>1 DEF ConsumedInv
  <2> SUFFICES ASSUME NEW y \in Nat, c <= y, y < tail, y # Rec(i) PROVE Keeps(y)
    OBVIOUS
  <2>2. y \notin lo .. lo
    BY <1>5
  <2> QED BY <1>1, <1>6, <2>1, <2>2, StoreKeeps DEF StoresTo
<1>8. ClaimsInv' /\ ConsumedInv(c)' /\ ReadingInv(c)'
  BY <1>1, <1>2, <1>6, StoreStep
<1>9. OwnersInv(c)'
  <2>1. \A q \in Producers \ {p} : writer'[q] = writer[q]
    BY <1>1 DEF PutLength, TypeOK
  <2>2. writer'[p].pc = "idle"
    BY <1>1 DEF PutLength, TypeOK, NotWriting
  <2>3. ASSUME NEW v, v = writer'[p] PROVE WriterOK(v, c)'
    BY <2>2, <2>3 DEF WriterOK
  <2>4. p \notin Owners' /\ p \in Owners
    BY <2>2 DEF Owners, PutLength
  <2> QED BY <1>1, <1>2, <1>6, <2>1, <2>3, <2>4, OthersStep
<1>10. DataInv(c)'
  <2>1. \A x \in lengths' : x \in lengths \/ LengthOK(x, c)'
    <3> SUFFICES ASSUME NEW x, x = Index(Rec(i)) PROVE LengthOK(x, c)'
      BY <1>2
    <3> QED BY <1>2, <1>4 DEF LengthOK, Rec
  <2>2. RecordOK(i, c)'
    <3>1. data'[Index(Rec(i))] = Length(i)
      BY <1>1, <1>2, <1>3 DEF TypeOK
    <3>2. ASSUME NEW m, m = claims[i].msg, NEW position, position = Rec(i)
          PROVE  Written(m, position)'
      <4>1. RecordLength(m) = Length(i) /\ Written(m, position) /\ position \in Nat
        BY <1>2, <1>3, <3>2 DEF Length
      <4>2. \A k \in 1 .. RecordLength(m) - 1 : Keeps(position + k)
        <5> TAKE k \in 1 .. RecordLength(m) - 1
        <5>1. PICK y : y = position + k
          OBVIOUS
        <5>2. tail \in Nat
          BY <1>1 DEF TypeOK
        <5>3. y \in Nat /\ c <= y /\ y < tail /\ y # Rec(i)
          <6>1. /\ y = Rec(i) + k /\ k \in 1 .. Length(i) - 1
                /\ Rec(i) + Length(i) + 1 <= tail /\ c <= Rec(i)
            BY <1>2, <1>3, <3>2, <4>1, <5>1
          <6> QED BY <1>3, <5>2, <6>1
        <5> QED BY <1>7, <5>1, <5>3
      <4> QED BY <1>3, <4>1, <4>2, WrittenKept
    <3>3. Written(claims[i].msg, Rec(i))'
      <4>1. PICK m : m = claims[i].msg
        OBVIOUS
      <4>2. PICK position : position = Rec(i)
        OBVIOUS
      <4>3. Written(m, position)'
        BY <3>2, <4>1, <4>2
      <4> QED BY <1>4, <4>1, <4>2, <4>3 DEF Written, Rec
    <3> QED BY <1>4, <3>1, <3>3 DEF RecordOK, Rec, Length
  <2>3. PaddingOK(i, c)'
    <3>1. PaddingOK(i, c)
      BY <1>1 DEF DataInv
    <3>2. Pad(i) /\ c <= Start(i) => Keeps(Start(i))
      <4> SUFFICES ASSUME Pad(i), c <= Start(i) PROVE Keeps(Start(i))
        OBVIOUS
      <4>1. Start(i) # Rec(i) /\ Start(i) < tail
        <5>1. tail \in Nat
          BY <1>1 DEF TypeOK
        <5> QED BY <1>3, <5>1
      <4> QED BY <1>3, <1>7, <4>1
    <3> QED BY <1>1, <1>4, <3>1, <3>2, PaddingKept
  <2> QED BY <1>1, <1>6, <2>1, <2>2, <2>3, DataStep
<1> QED BY <1>8, <1>9, <1>10 DEF WordsInv

-----------------------------------------------------------------------------
(* The steps of read().                                                     *)

\* A step of read() leaves the producers' claims and what they rely on alone,
\* unless it stores words.
LEMMA ReadStoresNothing ==
  ASSUME NEW c \in Nat, WordsInv(c),
         UNCHANGED << tail, data, lengths, writer, claims, published >>
  PROVE  ClaimsInv' /\ OwnersInv(c)' /\ DataInv(c)'
<1>1. ClaimsInv'
  BY DEF WordsInv, ClaimsInv, Start
<1>2. DataInv(c)'
  BY DEF WordsInv, DataInv, LengthOK, RecordOK, PaddingOK, Written, Start, Rec, Length, Pad
<1>3. ASSUME NEW w, WriterOK(w, c) PROVE WriterOK(w, c)'
  BY <1>3 DEF WriterOK, Written
<1>4. \A q \in Producers : WriterOK(writer[q], c)'
  <2> SUFFICES ASSUME NEW q \in Producers, NEW w, w = writer'[q] PROVE WriterOK(w, c)'
    OBVIOUS
  <2> QED BY <1>3 DEF WordsInv, OwnersInv
<1>5. OwnersInv(c)'
  BY <1>4 DEF WordsInv, OwnersInv, Owners
<1> QED BY <1>1, <1>2, <1>5

\* The consumer begins at head, and ends where the loaded tail or a length of 0 is.
LEMMA WordsRead ==
  ASSUME IInv, IInv', NEW c \in Nat, WordsInv(c), Read \/ EndOfRecords
  PROVE  WordsInv(c)'
<1>1. /\ TypeOK /\ ConsumedInv(c) /\ ReadingInv(c) /\ head <= c
  BY DEF IInv, WordsInv, ConsumedInv
<1>2. /\ UNCHANGED << head, tail, data, lengths, writer, claims, published, delivered, throws >>
      /\ \/ reader.pc = "idle" /\ reader'.pc = "loop" /\ reader'.next = head /\ reader'.tail = tail
         \/ /\ reader.pc = "loop" /\ reader'.pc = "publish"
            /\ reader'.next = reader.next /\ reader'.tail = reader.tail
  BY <1>1 DEF Read, EndOfRecords, TypeOK, ReaderState, ring, history, faults
<1>3. Done' = Done
  BY <1>2 DEF Done
<1>4. ConsumedInv(c)'
  BY <1>1, <1>2, <1>3 DEF ConsumedInv, Start, Rec
<1>5. ReadingInv(c)'
  BY <1>1, <1>2 DEF ReadingInv, ConsumedInv, TypeOK
<1> QED BY <1>2, <1>4, <1>5, ReadStoresNothing DEF WordsInv

\* What the word at c can be while there is something claimed at c, unless it is none
\* of a length.
LEMMA LengthAt ==
  ASSUME TypeOK, NoOverrun, NEW c \in Nat, WordsInv(c), c < tail,
         data[Index(c)] # 0 => Index(c) \in lengths
  PROVE  /\ Done < Len(claims) /\ Done + 1 \in 1 .. Len(claims)
         /\ \/ data[Index(c)] = 0
            \/ /\ data[Index(c)] = Length(Done + 1) /\ Done + 1 \in published
               /\ c = Rec(Done + 1)
            \/ /\ data[Index(c)] < 0 /\ Pad(Done + 1) /\ c = Start(Done + 1)
               /\ Index(c) \in lengths
<1>1. /\ ClaimsInv /\ ConsumedInv(c) /\ DataInv(c) /\ head <= c
  BY DEF WordsInv, ConsumedInv
<1>2. Done < Len(claims) /\ Done + 1 \in 1 .. Len(claims) /\ c \in {Start(Done + 1), Rec(Done + 1)}
      /\ tail \in Nat
  BY <1>1 DEF ConsumedInv, TypeOK
<1>3. PICK d \in 1 .. Len(claims) : d = Done + 1
  BY <1>2
<1>4. SUFFICES ASSUME data[Index(c)] # 0, Index(c) \in lengths
               PROVE  \/ data[Index(c)] = Length(d) /\ d \in published /\ c = Rec(d)
                      \/ data[Index(c)] < 0 /\ Pad(d) /\ c = Start(d)
  BY <1>2, <1>3
<1>5. PICK i \in 1 .. Len(claims) :
        \/ i \in published /\ c <= Rec(i) /\ Index(Rec(i)) = Index(c)
        \/ Pad(i) /\ c <= Start(i) /\ Index(Start(i)) = Index(c)
  BY <1>1, <1>4 DEF DataInv, LengthOK
<1>6. /\ Start(i) \in Nat /\ Rec(i) \in Nat /\ Start(i) <= Rec(i)
      /\ Rec(i) < claims[i].end /\ Start(i) < claims[i].end
  BY <1>1, ClaimFacts
<1>7. Start(d) <= c /\ c < claims[d].end
  <2>1. /\ Start(d) \in Nat /\ Rec(d) \in Nat /\ Start(d) <= Rec(d)
        /\ Rec(d) < claims[d].end /\ Start(d) < claims[d].end
    BY <1>1, ClaimFacts
  <2> QED BY <1>2, <1>3, <2>1
<1>8. ASSUME NEW x \in Nat, c <= x, Start(i) <= x, x < claims[i].end, Index(x) = Index(c)
      PROVE  x = c /\ i = d
  BY <1>1, <1>7, <1>8, WordsApart
<1>9. CASE i \in published /\ c <= Rec(i) /\ Index(Rec(i)) = Index(c)
  <2>1. Rec(i) = c /\ i = d
    BY <1>6, <1>8, <1>9
  <2>2. data[Index(Rec(i))] = Length(i)
    BY <1>1, <1>9 DEF DataInv, RecordOK
  <2> QED BY <1>9, <2>1, <2>2
<1>10. CASE Pad(i) /\ c <= Start(i) /\ Index(Start(i)) = Index(c)
  <2>1. Start(i) = c /\ i = d
    BY <1>6, <1>8, <1>10
  <2>2. data[Index(c)] = - ToBufferEnd(c)
    <3>1. PaddingOK(i, c)
      BY <1>1 DEF DataInv
    <3> QED BY <1>4, <1>10, <2>1, <3>1 DEF PaddingOK
  <2>3. data[Index(c)] < 0
    <3>1. ToBufferEnd(c) \in 1 .. Capacity
      BY IndexType
    <3> QED BY <2>2, <3>1, CapacityAssumption
  <2> QED BY <1>10, <2>1, <2>3
<1> QED BY <1>5, <1>9, <1>10

\* The consumer takes a positive length for the record at c and a negative one for
\* padding; a length that is neither does not occur.
LEMMA WordsLoadLength ==
  ASSUME IInv, IInv', NEW c \in Nat, WordsInv(c), LoadLength, ~ Misreads
  PROVE  WordsInv(c)'
<1>1. /\ TypeOK /\ NoOverrun /\ ConsumedInv(c) /\ ReadingInv(c) /\ ClaimsInv /\ head <= c
  BY DEF IInv, WordsInv, ConsumedInv
<1>2. /\ UNCHANGED << head, tail, data, lengths, writer, claims, published, delivered, throws >>
      /\ reader.pc = "loop" /\ reader.next < reader.tail /\ reader.tail <= tail
      /\ reader.next \in Nat /\ reader.tail \in Nat /\ tail \in Nat /\ head \in Nat
  BY <1>1 DEF LoadLength, ReadingInv, TypeOK, ReaderState, ring, history, faults
<1>3. PICK length : length = data[HeadIndex]
  OBVIOUS
<1>4. max_msg_length \in Nat
  BY CapacityAssumption DEF max_msg_length
<1>t. length \in Int /\ reader \in ReaderState
  <2>1. HeadIndex \in Words
    BY <1>2, IndexType DEF HeadIndex
  <2> QED BY <1>1, <1>3, <2>1 DEF TypeOK
<1>5. \/ length = 0 /\ reader' = [reader EXCEPT !.pc = "publish"]
      \/ length < 0 /\ reader' = [reader EXCEPT !.pc = "skip"]
      \/ /\ length \in 1 .. max_msg_length
         /\ reader' = [reader EXCEPT !.pc = "deliver", !.length = length]
      \/ length > max_msg_length /\ reader' = NotReading
  BY <1>3 DEF LoadLength
<1>a. ASSUME length <= max_msg_length
      PROVE  /\ reader'.next = reader.next /\ reader'.tail = reader.tail
             /\ \/ length = 0 /\ reader'.pc = "publish"
                \/ length < 0 /\ reader'.pc = "skip"
                \/ /\ length \in 1 .. max_msg_length
                   /\ reader'.pc = "deliver" /\ reader'.length = length
  <2>1. ~ (length > max_msg_length)
    BY <1>4, <1>a, <1>t
  <2> QED BY <1>5, <1>t, <2>1 DEF ReaderState
<1>6. Done' = Done
  <2>1. reader.pc # "clear" /\ reader'.pc # "clear"
    <3>1. CASE length <= max_msg_length
      BY <1>2, <1>a, <3>1
    <3>2. CASE reader' = NotReading
      BY <1>2, <3>2 DEF NotReading
    <3> QED BY <1>2, <1>4, <1>5, <1>t, <3>1, <3>2
  <2> QED BY <1>2, <2>1 DEF Done
<1>7. ConsumedInv(c)'
  BY <1>1, <1>2, <1>6 DEF ConsumedInv, Start, Rec
<1>8. CASE reader.next = c
  <2>1. c < tail
    BY <1>2, <1>8
  <2>2. length = data[Index(c)] /\ (data[Index(c)] # 0 => Index(c) \in lengths)
    BY <1>2, <1>3, <1>8 DEF HeadIndex, Misreads
  <2>3. /\ Done < Len(claims) /\ Done + 1 \in 1 .. Len(claims)
        /\ \/ length = 0
           \/ length = Length(Done + 1) /\ Done + 1 \in published /\ c = Rec(Done + 1)
           \/ length < 0 /\ Pad(Done + 1) /\ c = Start(Done + 1) /\ Index(c) \in lengths
    BY <1>1, <2>1, <2>2, LengthAt
  <2>4. Length(Done + 1) <= max_msg_length /\ Length(Done + 1) \in Nat
    BY <1>1, <2>3, ClaimFacts
  <2>5. length <= max_msg_length
    BY <1>4, <1>t, <2>3, <2>4
  <2>6. /\ reader'.next = c /\ reader'.tail = reader.tail
        /\ reader'.pc \in {"publish", "skip", "deliver"}
        /\ reader'.pc = "skip" => length < 0
        /\ reader'.pc = "deliver" => length \in 1 .. max_msg_length /\ reader'.length = length
    BY <1>4, <1>8, <1>a, <2>5
  <2>7. throws = 0 => c = IF reader'.pc = "idle" THEN head ELSE reader'.next
    BY <2>6
  <2>8. reader'.pc = "skip" =>
          Done < Len(claims) /\ c = Start(Done + 1) /\ Pad(Done + 1) /\ Index(c) \in lengths
    BY <2>3, <2>4, <2>6
  <2>9. reader'.pc = "deliver" =>
          Done + 1 \in published /\ c = Rec(Done + 1) /\ reader'.length = Length(Done + 1)
    BY <2>3, <2>6
  <2>10. ReadingInv(c)'
    BY <1>2, <1>6, <2>6, <2>7, <2>8, <2>9 DEF ReadingInv, Start, Rec, Length, Pad
  <2> QED BY <1>2, <1>7, <2>10, ReadStoresNothing DEF WordsInv
<1>9. CASE reader.next # c
  <2>1. reader.next = head /\ head < c
    BY <1>1, <1>2, <1>9 DEF ReadingInv
  <2>2. length = 0
    BY <1>1, <1>3, <2>1 DEF HeadIndex, ConsumedInv
  <2>3. reader'.pc = "publish" /\ reader'.next = head /\ reader'.tail = reader.tail
    BY <1>4, <1>a, <2>1, <2>2
  <2>4. throws # 0
    BY <1>1, <1>2, <1>9 DEF ReadingInv
  <2>5. ReadingInv(c)'
    BY <1>2, <2>1, <2>3, <2>4 DEF ReadingInv
  <2> QED BY <1>2, <1>7, <2>5, ReadStoresNothing DEF WordsInv
<1> QED BY <1>8, <1>9

\* What the handler sees is the message of the claim the consumer has come to.
LEMMA SeesMessage ==
  ASSUME TypeOK, NoOverrun, NEW c \in Nat, WordsInv(c), reader.pc = "deliver"
  PROVE  /\ Done = Len(delivered) /\ Done + 1 \in published /\ Done + 1 \in 1 .. Len(claims)
         /\ RecordAtHead = View(claims[Done + 1].msg)
<1>1. /\ ClaimsInv /\ ConsumedInv(c) /\ ReadingInv(c) /\ DataInv(c)
  BY DEF WordsInv
<1>2. /\ Done = Len(delivered) /\ Done + 1 \in published /\ c = Rec(Done + 1)
      /\ reader.next = c /\ reader.length = Length(Done + 1)
  BY <1>1 DEF ReadingInv, Done
<1>3. PICK d \in 1 .. Len(claims) : d = Done + 1
  BY <1>1, <1>2 DEF ClaimsInv
<1>4. PICK m : m = claims[d].msg
  OBVIOUS
<1>5. PICK l \in Nat : l = Length(d)
  BY <1>1, ClaimFacts
<1>6. l >= 2 /\ m.words \in Nat /\ l = m.words + 2
  BY <1>1, <1>4, <1>5, ClaimFacts
<1>7. PICK index : index = Index(c)
  OBVIOUS
<1>8. \A k \in 0 .. l : Index(c + k) = index + k /\ index + k \in Words
  <2> TAKE k \in 0 .. l
  <2>1. k \in Nat /\ k <= Length(d)
    BY <1>5
  <2> QED BY <1>1, <1>2, <1>3, <1>7, <2>1, RecordIndices
<1>9. index \in Nat /\ HeadIndex = index
  BY <1>2, <1>7, IndexType DEF HeadIndex
<1>10. (index + 1) % Capacity = index + 1
  <2>1. 1 \in 0 .. l
    BY <1>6
  <2>2. index + 1 \in 0 .. Capacity - 1
    BY <1>8, <2>1 DEF Words
  <2>3. (0 * Capacity + (index + 1)) % Capacity = index + 1
    BY SMTT(20), <2>2, Remainder, CapacityAssumption
  <2>4. 0 * Capacity + (index + 1) = index + 1
    BY <1>9, CapacityAssumption
  <2> QED BY <2>3, <2>4
<1>11. /\ data[index + 1] = m.type
       /\ \A k \in 2 .. l - 1 : data[index + k] = m.fill
  <2>1. RecordOK(d, c) /\ c <= Rec(d) /\ Rec(d) = c
    BY <1>1, <1>2, <1>3 DEF DataInv
  <2>2. Written(m, c) /\ RecordLength(m) = l
    BY <1>4, <1>5, <2>1 DEF RecordOK, Length
  <2>3. 1 \in 0 .. l /\ \A k \in 2 .. l - 1 : k \in 0 .. l
    BY <1>6
  <2> QED BY <1>8, <2>2, <2>3 DEF Written
<1> DEFINE body == Words \cap (index + MSG_HEADER_LENGTH .. index + l - 1)
<1>12. {data[i] : i \in body} = IF m.words = 0 THEN {} ELSE {m.fill}
  <2>1. \A i \in body : data[i] = m.fill
    <3> TAKE i \in body
    <3>1. i - index \in 2 .. l - 1 /\ i = index + (i - index)
      BY SMTT(20), <1>6, <1>9 DEF MSG_HEADER_LENGTH, Words
    <3> QED BY <1>11, <3>1
  <2>2. CASE m.words = 0
    <3>1. body = {}
      BY <1>6, <1>9, <2>2 DEF MSG_HEADER_LENGTH
    <3> QED BY <2>2, <3>1
  <2>3. CASE m.words # 0
    <3>1. index + 2 \in body
      <4>1. 2 \in 0 .. l /\ 2 <= l - 1
        BY <1>6, <2>3
      <4>2. index + 2 \in Words /\ index + 2 \in index + MSG_HEADER_LENGTH .. index + l - 1
        BY <1>8, <1>9, <4>1 DEF MSG_HEADER_LENGTH
      <4> QED BY <4>2
    <3> HIDE DEF body
    <3> QED BY <2>1, <2>3, <3>1
  <2> QED BY <2>2, <2>3
<1>13. RecordAtHead = [type |-> m.type, words |-> m.words,
                       content |-> IF m.words = 0 THEN {} ELSE {m.fill}]
  <2>1. data[(HeadIndex + 1) % Capacity] = m.type
    BY <1>9, <1>10, <1>11
  <2>2. reader.length = l
    BY <1>2, <1>3, <1>5
  <2>3. reader.length - MSG_HEADER_LENGTH = m.words
    BY <1>6, <2>2 DEF MSG_HEADER_LENGTH
  <2>4. Words \cap (HeadIndex + MSG_HEADER_LENGTH .. HeadIndex + reader.length - 1) = body
    BY <1>9, <2>2
  <2> HIDE DEF body
  <2> QED BY <1>12, <2>1, <2>3, <2>4 DEF RecordAtHead
<1> QED BY <1>2, <1>3, <1>4, <1>13 DEF View

\* The handler is called with the next message that was claimed.
LEMMA WordsDeliver ==
  ASSUME IInv, IInv', NEW c \in Nat, WordsInv(c), Deliver
  PROVE  WordsInv(c)'
<1>1. /\ TypeOK /\ NoOverrun /\ ConsumedInv(c) /\ ReadingInv(c)
  BY DEF IInv, WordsInv
<1>2. /\ UNCHANGED << head, tail, data, lengths, writer, claims, published, throws >>
      /\ reader.pc = "deliver" /\ reader'.pc = "clear" /\ reader'.next = reader.next
      /\ reader'.tail = reader.tail /\ reader'.length = reader.length
      /\ delivered' = Append(delivered, RecordAtHead)
  BY <1>1 DEF Deliver, TypeOK, ReaderState, ring, faults
<1>3. /\ Done = Len(delivered) /\ Done + 1 \in published /\ Done + 1 \in 1 .. Len(claims)
      /\ RecordAtHead = View(claims[Done + 1].msg)
  BY <1>1, <1>2, SeesMessage
<1>4. PICK d : d = Done
  OBVIOUS
<1>5. PICK view : view = RecordAtHead
  OBVIOUS
<1>6. /\ d = Len(delivered) /\ d \in Nat /\ Len(delivered') = d + 1 /\ delivered'[d + 1] = view
      /\ \A i \in 1 .. d : delivered'[i] = delivered[i]
  <2>1. delivered \in Seq([type : Int, words : Int, content : SUBSET Int])
    BY <1>1 DEF TypeOK
  <2> QED BY <1>2, <1>3, <1>4, <1>5, <2>1
<1>7. Done' = Done
  BY <1>2, <1>4, <1>6 DEF Done
<1>8. \A i \in 1 .. d + 1 : i \in published /\ delivered'[i] = View(claims[i].msg)
  <2> TAKE i \in 1 .. d + 1
  <2>1. CASE i = d + 1
    BY <1>3, <1>4, <1>5, <1>6, <2>1
  <2>2. CASE i # d + 1
    <3>1. i \in 1 .. Len(delivered)
      BY <1>6, <2>2
    <3> QED BY <1>1, <1>6, <3>1 DEF ConsumedInv
  <2> QED BY <2>1, <2>2
<1>9. ConsumedInv(c)'
  BY <1>1, <1>2, <1>6, <1>7, <1>8 DEF ConsumedInv, Start, Rec
<1>10. ReadingInv(c)'
  BY <1>1, <1>2, <1>7 DEF ReadingInv, Start, Rec, Length, Pad
<1> QED BY <1>2, <1>9, <1>10, ReadStoresNothing DEF WordsInv

\* A handler that throws leaves head behind what has been consumed.
LEMMA WordsThrow ==
  ASSUME IInv, IInv', NEW c \in Nat, WordsInv(c), HandlerThrows
  PROVE  WordsInv(c)'
<1>1. /\ TypeOK /\ ConsumedInv(c)
  BY DEF IInv, WordsInv
<1>2. /\ UNCHANGED << head, tail, data, lengths, writer, claims, published, delivered >>
      /\ reader.pc = "deliver" /\ reader'.pc = "idle" /\ throws' # 0
  BY <1>1 DEF HandlerThrows, NotReading, TypeOK, ring, history
<1>3. Done' = Done
  BY <1>2 DEF Done
<1>4. ConsumedInv(c)'
  BY <1>1, <1>2, <1>3 DEF ConsumedInv, Start, Rec
<1>5. ReadingInv(c)'
  BY <1>2 DEF ReadingInv
<1> QED BY <1>2, <1>4, <1>5, ReadStoresNothing DEF WordsInv

\* head becomes c, or stays where a handler left it.
LEMMA WordsPublish ==
  ASSUME IInv, IInv', NEW c \in Nat, WordsInv(c), PublishHead
  PROVE  WordsInv(c)'
<1>1. /\ TypeOK /\ ConsumedInv(c) /\ ReadingInv(c)
  BY DEF IInv, WordsInv
<1>2. /\ UNCHANGED << tail, data, lengths, writer, claims, published, delivered, throws >>
      /\ reader.pc = "publish" /\ reader'.pc = "idle" /\ head' = reader.next
  BY <1>1 DEF PublishHead, NotReading, TypeOK, history, faults
<1>3. Done' = Done
  BY <1>2 DEF Done
<1>4. head' = c \/ head' = head
  BY <1>1, <1>2 DEF ReadingInv
<1>5. c < tail => \E i \in 1 .. Len(claims) : c \in {Start(i), Rec(i)}
  <2> SUFFICES ASSUME c < tail PROVE \E i \in 1 .. Len(claims) : c \in {Start(i), Rec(i)}
    OBVIOUS
  <2>1. tail \in Nat /\ Done \in 0 .. Len(claims) /\ Len(claims) \in Nat /\ Done # Len(claims)
    BY <1>1 DEF ConsumedInv, TypeOK
  <2>2. Done + 1 \in 1 .. Len(claims) /\ c \in {Start(Done + 1), Rec(Done + 1)}
    BY <1>1, <2>1 DEF ConsumedInv
  <2> QED BY <2>2
<1>6. ConsumedInv(c)'
  BY <1>1, <1>2, <1>3, <1>4, <1>5 DEF ConsumedInv, Start, Rec
<1>7. ReadingInv(c)'
  BY <1>1, <1>2 DEF ReadingInv
<1> QED BY <1>2, <1>6, <1>7, ReadStoresNothing DEF WordsInv

\* The consumer goes from c to d behind padding or behind a record.
Advances(i, c, d) ==
  /\ i = Done + 1
  /\ \/ c = Start(i) /\ c < d /\ d = Rec(i) /\ Index(c) \in lengths
     \/ c = Rec(i) /\ d = claims[i].end /\ i \in published

\* Clearing the length word at c, with the consumer at d behind it, leaves the
\* producers and the words that are still to be read as they are.
LEMMA ClearedWord ==
  ASSUME TypeOK, NoOverrun, NEW c \in Nat, WordsInv(c), NEW i \in 1 .. Len(claims),
         NEW d \in Nat, Advances(i, c, d),
         data' = [data EXCEPT ![Index(c)] = 0], lengths' = lengths \ {Index(c)},
         UNCHANGED << head, tail, writer, claims, published >>
  PROVE  /\ ClaimsInv' /\ OwnersInv(d)' /\ DataInv(d)'
         /\ head <= c /\ c < d /\ d <= tail /\ data'[Index(head)] = 0
<1>1. /\ ClaimsInv /\ ConsumedInv(c) /\ OwnersInv(c) /\ DataInv(c) /\ head <= c
      /\ tail \in Nat /\ head \in Nat
  BY DEF WordsInv, ConsumedInv, TypeOK
<1>2. /\ Start(i) \in Nat /\ Rec(i) \in Nat /\ Start(i) <= Rec(i) /\ Rec(i) < claims[i].end
      /\ Start(i) < claims[i].end /\ claims[i].end \in Nat /\ claims[i].end <= tail
  BY <1>1, ClaimFacts
<1>3. c < d /\ d <= claims[i].end /\ d <= tail /\ c < tail
  BY <1>1, <1>2 DEF Advances
<1>4. StoresAt(c, c)
  <2> SUFFICES ASSUME NEW x \in Words, \A s \in c .. c : Index(s) # x
               PROVE  data'[x] = data[x] /\ (x \in lengths' <=> x \in lengths)
    BY DEF StoresAt
  <2>1. x # Index(c)
    OBVIOUS
  <2> QED BY <2>1 DEF TypeOK
<1>5. /\ \A y \in Nat : c < y /\ y < tail => Keeps(y)
      /\ head < c => Keeps(head)
  <2>1. \A y \in Nat : c < y /\ y < tail => c <= y /\ y \notin c .. c
    OBVIOUS
  <2> QED BY <1>1, <1>3, <1>4, <2>1, StoreKeeps
<1>6. data'[Index(head)] = 0
  <2>1. CASE head = c
    <3>1. Index(c) \in Words
      BY IndexType
    <3> QED BY <2>1, <3>1 DEF TypeOK
  <2>2. CASE head < c
    BY <1>1, <1>5, <2>2 DEF Keeps, ConsumedInv
  <2> QED BY <1>1, <2>1, <2>2
<1>7. ASSUME NEW j \in 1 .. Len(claims), j # i, c <= Rec(j)
      PROVE  d <= Start(j) /\ Start(j) <= Rec(j)
  <2>1. Done \in Nat /\ i = Done + 1 /\ (j <= Done => Rec(j) < c)
    BY <1>1, Position DEF Advances
  <2>2. /\ Start(j) \in Nat /\ Rec(j) \in Nat /\ Start(j) <= Rec(j)
    BY <1>1, ClaimFacts
  <2>3. i < j
    BY <1>7, <2>1, <2>2
  <2>4. claims[i].end <= Start(j)
    BY <1>1, <2>3 DEF ClaimsInv
  <2> QED BY <1>2, <1>3, <2>2, <2>4
<1>8. ClaimsInv'
  BY <1>1 DEF ClaimsInv, Start
<1>9. OwnersInv(d)'
  <2>1. ASSUME NEW v, WriterOK(v, c) PROVE WriterOK(v, d)'
    <3>1. CASE v.pc \in {"pad", "body", "length"}
      <4>1. PICK j \in 1 .. Len(claims) :
              /\ j \notin published
              /\ claims[j] = [start |-> v.tail, end |-> v.next, msg |-> v.msg]
        BY <2>1, <3>1 DEF WriterOK
      <4>2. /\ Start(j) = v.tail /\ Rec(j) = RecordPosition(v.msg, v.tail)
            /\ Length(j) = RecordLength(v.msg)
        BY <4>1 DEF Start, Rec, Length
      <4>3. c <= Rec(j)
        BY <1>1, <4>1, Unpublished
      <4>4. /\ Start(j) \in Nat /\ Rec(j) \in Nat /\ Start(j) <= Rec(j)
            /\ Length(j) \in Nat /\ Length(j) >= 2 /\ claims[j].end = Rec(j) + Length(j) + 1
            /\ claims[j].end <= tail
        BY <1>1, ClaimFacts
      <4>5. v.pc = "pad" => Wraps(v.msg, v.tail) /\ d <= v.tail /\ Index(v.tail) \notin lengths'
        <5> SUFFICES ASSUME v.pc = "pad"
                     PROVE  /\ Wraps(v.msg, v.tail) /\ d <= v.tail
                            /\ Index(v.tail) \notin lengths'
          OBVIOUS
        <5>1. Wraps(v.msg, v.tail) /\ c <= Start(j) /\ Index(Start(j)) \notin lengths
          BY <2>1, <4>2 DEF WriterOK
        <5>2. j # i
          <6> SUFFICES ASSUME j = i PROVE FALSE
            OBVIOUS
          <6>1. c = Start(i) /\ Index(c) \in lengths
            BY <4>1 DEF Advances
          <6> QED BY <5>1, <6>1
        <5>3. d <= Start(j)
          BY <1>7, <4>3, <5>2
        <5> QED BY <4>2, <5>1, <5>3
      <4>6. v.pc = "length" => Written(v.msg, RecordPosition(v.msg, v.tail))'
        <5> SUFFICES ASSUME v.pc = "length"
                     PROVE  Written(v.msg, RecordPosition(v.msg, v.tail))'
          OBVIOUS
        <5>1. Written(v.msg, RecordPosition(v.msg, v.tail))
          BY <2>1 DEF WriterOK
        <5>2. \A k \in 1 .. RecordLength(v.msg) - 1 : Keeps(RecordPosition(v.msg, v.tail) + k)
          <6> TAKE k \in 1 .. RecordLength(v.msg) - 1
          <6>1. PICK y : y = Rec(j) + k
            OBVIOUS
          <6>2. k \in 1 .. Length(j) - 1
            BY <4>2
          <6>3. y \in Nat /\ c < y /\ y < tail
            BY SMTT(20), <1>1, <4>3, <4>4, <6>1, <6>2
          <6> QED BY <1>5, <4>2, <6>1, <6>3
        <5> QED BY <4>2, <4>4, <5>1, <5>2, WrittenKept
      <4>7. v.pc # "cas" /\ v.msg \in Messages
        BY <2>1, <3>1 DEF WriterOK
      <4> QED BY <3>1, <4>1, <4>5, <4>6, <4>7 DEF WriterOK
    <3>2. CASE v.pc \notin {"pad", "body", "length"}
      BY <2>1, <3>2 DEF WriterOK
    <3> QED BY <3>1, <3>2
  <2>2. \A q \in Producers : WriterOK(writer[q], d)'
    <3> SUFFICES ASSUME NEW q \in Producers, NEW v, v = writer'[q] PROVE WriterOK(v, d)'
      OBVIOUS
    <3> QED BY <1>1, <2>1 DEF OwnersInv
  <2> QED BY <1>1, <2>2 DEF OwnersInv, Owners
<1>10. DataInv(d)'
  <2>1. ASSUME NEW x \in lengths' PROVE LengthOK(x, d)'
    <3>1. x # Index(c)
      OBVIOUS
    <3>2. PICK j \in 1 .. Len(claims) :
            \/ j \in published /\ c <= Rec(j) /\ Index(Rec(j)) = x
            \/ Pad(j) /\ c <= Start(j) /\ Index(Start(j)) = x
      BY <1>1 DEF DataInv, LengthOK
    <3>3. Start(j) \in Nat /\ Rec(j) \in Nat /\ Start(j) <= Rec(j)
      BY <1>1, ClaimFacts
    <3>4. CASE j \in published /\ c <= Rec(j) /\ Index(Rec(j)) = x
      <4>1. d <= Rec(j)
        <5>1. CASE j = i
          <6>1. Rec(i) # c
            BY <3>1, <3>4, <5>1
          <6> QED BY <1>2, <5>1, <6>1 DEF Advances
        <5>2. CASE j # i
          <6>1. d <= Start(j)
            BY <1>7, <3>4, <5>2
          <6> QED BY <3>3, <6>1
        <5> QED BY <5>1, <5>2
      <4> QED BY <3>4, <4>1 DEF LengthOK, Rec
    <3>5. CASE Pad(j) /\ c <= Start(j) /\ Index(Start(j)) = x
      <4>1. c <= Rec(j)
        BY <3>3, <3>5
      <4>2. j # i
        <5> SUFFICES ASSUME j = i PROVE FALSE
          OBVIOUS
        <5>1. c = Start(i) \/ c = Rec(i)
          BY DEF Advances
        <5>2. c = Start(i)
          BY <1>2, <3>5, <5>1
        <5> QED BY <3>1, <3>5, <5>2
      <4>3. d <= Start(j)
        BY <1>7, <4>1, <4>2
      <4> QED BY <3>5, <4>3 DEF LengthOK, Start, Pad
    <3> QED BY <3>2, <3>4, <3>5
  <2>2. ASSUME NEW j \in published PROVE RecordOK(j, d)'
    <3>1. j \in 1 .. Len(claims) /\ RecordOK(j, c)
      BY <1>1 DEF ClaimsInv, DataInv
    <3>2. claims[j].end \in Nat /\ claims[j].end <= tail
      BY <1>1, <3>1, ClaimFacts
    <3>3. \A y \in Nat : d <= y /\ Rec(j) <= y /\ y < claims[j].end => Keeps(y)
      <4> SUFFICES ASSUME NEW y \in Nat, d <= y, y < claims[j].end PROVE Keeps(y)
        OBVIOUS
      <4>1. c < y /\ y < tail
        BY <1>1, <1>3, <3>2
      <4> QED BY <1>5, <4>1
    <3> QED BY SMTT(20), <1>1, <1>3, <3>1, <3>3, RecordKept
  <2>3. ASSUME NEW j \in 1 .. Len(claims) PROVE PaddingOK(j, d)'
    <3>1. PaddingOK(j, c)
      BY <1>1 DEF DataInv
    <3>2. d <= Start(j) => Keeps(Start(j))
      <4> SUFFICES ASSUME d <= Start(j) PROVE Keeps(Start(j))
        OBVIOUS
      <4>1. /\ Start(j) \in Nat /\ Start(j) < claims[j].end /\ claims[j].end \in Nat
            /\ claims[j].end <= tail
        BY <1>1, ClaimFacts
      <4>2. c < Start(j) /\ Start(j) < tail
        BY <1>1, <1>3, <4>1
      <4> QED BY <1>5, <4>1, <4>2
    <3> QED BY <1>1, <1>3, <3>1, <3>2, PaddingKept
  <2> QED BY <2>1, <2>2, <2>3 DEF DataInv
<1> QED BY <1>1, <1>3, <1>6, <1>8, <1>9, <1>10

\* Clearing padding takes the consumer to the record behind it.
LEMMA WordsSkip ==
  ASSUME IInv, IInv', NEW c \in Nat, WordsInv(c), SkipPadding
  PROVE  \E d \in Nat : WordsInv(d)'
<1>1. /\ TypeOK /\ NoOverrun /\ ConsumedInv(c) /\ ReadingInv(c) /\ ClaimsInv
  BY DEF IInv, WordsInv
<1>2. PICK i : i = Done + 1
  OBVIOUS
<1>3. /\ reader.pc = "skip" /\ reader.next = c /\ reader.tail <= tail
      /\ Done < Len(claims) /\ c = Start(i) /\ Pad(i) /\ Index(c) \in lengths
  BY <1>1, <1>2 DEF ReadingInv, SkipPadding
<1>4. i \in 1 .. Len(claims) /\ Done \in Nat
  BY <1>1, <1>2, <1>3 DEF ConsumedInv, TypeOK
<1>5. PICK d \in Nat : d = Rec(i) /\ d = c + ToBufferEnd(c) /\ c < d
  BY <1>1, <1>3, <1>4, ClaimFacts
<1>6. /\ UNCHANGED << head, tail, writer, claims, published, delivered, throws >>
      /\ data' = [data EXCEPT ![Index(c)] = 0] /\ lengths' = lengths \ {Index(c)}
      /\ reader'.pc = "loop" /\ reader'.tail = reader.tail /\ reader'.next = d
  <2>1. (c - Index(c)) + Capacity = d
    <3>1. Index(c) \in 0 .. Capacity - 1
      BY IndexType
    <3> QED BY <1>5, <3>1, CapacityAssumption DEF ToBufferEnd
  <2> QED BY <1>1, <1>3, <2>1 DEF SkipPadding, HeadIndex, TypeOK, ReaderState, history, faults
<1>7. /\ ClaimsInv' /\ OwnersInv(d)' /\ DataInv(d)'
      /\ head <= c /\ c < d /\ d <= tail /\ data'[Index(head)] = 0
  <2>1. Advances(i, c, d)
    BY <1>2, <1>3, <1>5 DEF Advances
  <2> QED BY <1>1, <1>4, <1>6, <2>1, ClearedWord
<1>8. Done' = Done
  BY <1>3, <1>6 DEF Done
<1>9. ConsumedInv(d)'
  <2>1. head <= d /\ Done \in 0 .. Len(claims)
    BY <1>1, <1>7 DEF ConsumedInv, TypeOK
  <2>2. \A j \in 1 .. Done : claims[j].end <= d
    <3> TAKE j \in 1 .. Done
    <3>1. j \in 1 .. Len(claims)
      BY <1>3, <1>4
    <3>2. claims[j].end \in Nat
      BY <1>1, <3>1, ClaimFacts
    <3>3. claims[j].end <= c
      BY <1>1 DEF ConsumedInv
    <3> QED BY <1>7, <3>2, <3>3
  <2>3. Done # Len(claims) /\ d = Rec(Done + 1)
    BY <1>2, <1>3, <1>4, <1>5
  <2> QED BY <1>1, <1>6, <1>7, <1>8, <2>1, <2>2, <2>3 DEF ConsumedInv, Start, Rec
<1>10. ReadingInv(d)'
  BY <1>3, <1>6 DEF ReadingInv
<1> QED BY <1>7, <1>9, <1>10 DEF WordsInv

\* Clearing a record's length word takes the consumer to the end of the claim.
LEMMA WordsClear ==
  ASSUME IInv, IInv', NEW c \in Nat, WordsInv(c), ClearLength
  PROVE  \E d \in Nat : WordsInv(d)'
<1>1. /\ TypeOK /\ NoOverrun /\ ConsumedInv(c) /\ ReadingInv(c) /\ ClaimsInv
  BY DEF IInv, WordsInv
<1>2. PICK i : i = Done + 1
  OBVIOUS
<1>3. /\ reader.pc = "clear" /\ reader.next = c /\ reader.tail <= tail
      /\ i \in published /\ c = Rec(i) /\ reader.length = Length(i)
  BY <1>1, <1>2 DEF ReadingInv, ClearLength
<1>4. /\ i \in 1 .. Len(claims) /\ Done = Len(delivered) - 1
      /\ Len(delivered) \in Nat /\ Len(claims) \in Nat /\ i = Len(delivered)
  BY <1>1, <1>2, <1>3 DEF ClaimsInv, Done, TypeOK
<1>5. PICK d \in Nat : d = claims[i].end /\ d = c + Length(i) + 1
  BY <1>1, <1>3, <1>4, ClaimFacts
<1>6. /\ UNCHANGED << head, tail, writer, claims, published, delivered, throws >>
      /\ data' = [data EXCEPT ![Index(c)] = 0] /\ lengths' = lengths \ {Index(c)}
      /\ reader'.pc = "loop" /\ reader'.tail = reader.tail /\ reader'.next = d
  BY <1>1, <1>3, <1>5
     DEF ClearLength, HeadIndex, LENGTH_WORD, TypeOK, ReaderState, history, faults
<1>7. /\ ClaimsInv' /\ OwnersInv(d)' /\ DataInv(d)'
      /\ head <= c /\ c < d /\ d <= tail /\ data'[Index(head)] = 0
  <2>1. Advances(i, c, d)
    BY <1>2, <1>3, <1>5 DEF Advances
  <2> QED BY <1>1, <1>4, <1>6, <2>1, ClearedWord
<1>8. Done' = i
  BY <1>4, <1>6 DEF Done
<1>9. ConsumedInv(d)'
  <2>1. head <= d /\ i \in 0 .. Len(claims)
    BY <1>1, <1>4, <1>7 DEF TypeOK
  <2>2. \A j \in 1 .. i : claims[j].end <= d
    <3> TAKE j \in 1 .. i
    <3>1. CASE j = i
      <4>1. claims[j].end = claims[i].end
        BY <3>1, Zenon
      <4>2. claims[j].end = d
        BY <1>5, <4>1
      <4> QED BY <4>2
    <3>2. CASE j # i
      <4>1. j \in 1 .. Len(claims) /\ j \in 1 .. Done
        BY <1>2, <1>4, <3>2
      <4>2. claims[j].end \in Nat
        BY <1>1, <4>1, ClaimFacts
      <4>3. claims[j].end <= c
        BY <1>1, <4>1 DEF ConsumedInv
      <4> QED BY <1>7, <4>2, <4>3
    <3> QED BY <3>1, <3>2
  <2>3. IF i = Len(claims) THEN d = tail ELSE d \in {Start(i + 1), Rec(i + 1)}
    <3>1. CASE i = Len(claims)
      <4>1. tail = claims[Len(claims)].end
        BY <1>1, <1>4 DEF ClaimsInv
      <4> QED BY <1>4, <1>5, <3>1, <4>1
    <3>2. CASE i # Len(claims)
      <4>1. i + 1 <= Len(claims)
        BY <1>4, <3>2
      <4>2. claims[i].end = Start(i + 1)
        BY <1>1, <1>4, <4>1 DEF ClaimsInv
      <4> QED BY <1>4, <1>5, <3>2, <4>2
    <3> QED BY <3>1, <3>2
  <2> QED BY <1>1, <1>6, <1>7, <1>8, <2>1, <2>2, <2>3 DEF ConsumedInv, Start, Rec
<1>10. ReadingInv(d)'
  BY <1>3, <1>6 DEF ReadingInv
<1> QED BY <1>7, <1>9, <1>10 DEF WordsInv

-----------------------------------------------------------------------------
(* The invariant up to the first misread.                                   *)

\* Nothing has been claimed of the buffer as it is created.
LEMMA WordsInit ==
  ASSUME Init
  PROVE  WordsInv(0)
<1>1. Len(claims) = 0 /\ Len(delivered) = 0 /\ reader.pc = "idle" /\ Done = 0
  BY DEF Init, NotReading, Done
<1>2. ClaimsInv
  BY <1>1 DEF Init, ClaimsInv
<1>3. ConsumedInv(0)
  BY <1>1 DEF Init, ConsumedInv
<1>4. ReadingInv(0)
  BY <1>1 DEF Init, ReadingInv
<1>5. OwnersInv(0)
  BY DEF Init, OwnersInv, WriterOK, NotWriting, Owners
<1>6. DataInv(0)
  BY <1>1 DEF Init, DataInv
<1> QED BY <1>2, <1>3, <1>4, <1>5, <1>6 DEF WordsInv

\* Every step but a misread keeps the invariant, for a position that only grows.
LEMMA WordsNext ==
  ASSUME IInv, IInv', ClearedInv, [Next /\ ~ Misreads]_vars
  PROVE  ClearedInv'
<1>1. PICK c \in Nat : WordsInv(c)
  BY DEF ClearedInv
<1>2. SUFFICES \E d \in Nat : WordsInv(d)'
  BY DEF ClearedInv
<1>3. TypeOK /\ TypeOK'
  BY DEF IInv
<1>4. ASSUME NEW p \in Producers, \E m \in MessagesOf[p] : Write(p, m) PROVE WordsInv(c)'
  BY <1>1, <1>3, <1>4, WordsPrivate
<1>5. ASSUME NEW p \in Producers, WriteStep(p) \/ Crash(p) PROVE WordsInv(c)'
  BY <1>1, <1>3, <1>5, WordsPrivate, WordsClaim, WordsPadding, WordsBody, WordsLength
     DEF WriteStep
<1>6. ASSUME ReadStep, ~ Misreads PROVE \E d \in Nat : WordsInv(d)'
  BY <1>1, <1>6, WordsRead, WordsLoadLength, WordsSkip, WordsDeliver, WordsClear, WordsPublish
     DEF ReadStep
<1>7. CASE HandlerThrows
  BY <1>1, <1>7, WordsThrow
<1>8. CASE UNCHANGED vars
  <2>1. UNCHANGED << head, tail, data, lengths, reader, claims, published, delivered, throws,
                     writer >>
    BY <1>8 DEF vars, ring, history, faults
  <2>2. Done' = Done
    BY <2>1 DEF Done
  <2>3. ConsumedInv(c)' /\ ReadingInv(c)'
    BY <1>1, <2>1, <2>2 DEF WordsInv, ConsumedInv, ReadingInv, Start, Rec, Length, Pad
  <2> QED BY <1>1, <2>1, <2>3, ReadStoresNothing DEF WordsInv
<1> QED BY <1>4, <1>5, <1>6, <1>7, <1>8 DEF Next

\* The ring up to its first misread is one of the behaviours of the ring.
LEMMA UntilIsSpec == UntilMisread => Spec
<1>1. [Next /\ ~ Misreads]_vars => [Next]_vars
  OBVIOUS
<1> QED BY <1>1, PTL DEF UntilMisread, Spec

\* Whatever lengths the messages have and whoever dies or throws: until the consumer
\* takes for a length what is none, the words that are lengths are those of records
\* and padding still to be read.
THEOREM ClearedInvCorrect == UntilMisread => []ClearedInv
<1>1. Init => ClearedInv
  BY WordsInit DEF ClearedInv
<1>2. IInv /\ IInv' /\ ClearedInv /\ [Next /\ ~ Misreads]_vars => ClearedInv'
  BY WordsNext
<1> QED BY <1>1, <1>2, UntilIsSpec, InvCorrect, PTL DEF UntilMisread

-----------------------------------------------------------------------------
(* What follows from it.                                                    *)

\* Where a producer puts lengths and where the consumer starts.
LEMMA WordsFacts ==
  ASSUME IInv, ClearedInv
  PROVE  NoLengthLeft /\ HeadOnRecord /\ DeliveredInOrder
<1>1. PICK c \in Nat : WordsInv(c)
  BY DEF ClearedInv
<1>2. TypeOK /\ NoOverrun /\ ClaimsInv /\ ConsumedInv(c) /\ OwnersInv(c) /\ DataInv(c)
  BY <1>1 DEF IInv, WordsInv
<1>3. DOMAIN claims = 1 .. Len(claims) /\ Len(claims) \in Nat
  BY <1>2 DEF TypeOK
<1>4. NoLengthLeft
  <2>1. ASSUME NEW p \in Producers, writer[p].pc = "pad"
        PROVE  Index(writer[p].tail) \notin lengths
    BY <1>2, <2>1 DEF OwnersInv, WriterOK
  <2>2. ASSUME NEW i \in DOMAIN claims \ published
        PROVE  Index(RecordPosition(claims[i].msg, claims[i].start)) \notin lengths
    <3>1. Index(Rec(i)) \notin lengths
      BY <1>2, <1>3, <2>2, Unpublished
    <3> QED BY <3>1 DEF Rec
  <2> QED BY <2>1, <2>2 DEF NoLengthLeft
<1>5. HeadOnRecord
  <2> SUFFICES ASSUME head < tail
               PROVE  \E i \in DOMAIN claims :
                        head \in {claims[i].start, RecordPosition(claims[i].msg, claims[i].start)}
    BY DEF HeadOnRecord
  <2>1. PICK i \in 1 .. Len(claims) : head \in {Start(i), Rec(i)}
    BY <1>2 DEF ConsumedInv
  <2> QED BY <1>3, <2>1 DEF Start, Rec
<1>6. DeliveredInOrder
  <2>1. Len(delivered) \in Nat /\ DOMAIN delivered = 1 .. Len(delivered)
    BY <1>2 DEF TypeOK
  <2>2. \A i \in 1 .. Len(delivered) :
          i \in published /\ i \in 1 .. Len(claims) /\ delivered[i] = View(claims[i].msg)
    BY <1>2 DEF ConsumedInv, ClaimsInv
  <2>3. Len(delivered) <= Len(claims)
    <3>1. CASE Len(delivered) = 0
      BY <1>3, <2>1, <3>1
    <3>2. CASE Len(delivered) # 0
      <4>1. Len(delivered) \in 1 .. Len(delivered)
        BY <2>1, <3>2
      <4>2. Len(delivered) \in 1 .. Len(claims)
        BY <2>2, <4>1
      <4> QED BY <1>3, <2>1, <4>2
    <3> QED BY <3>1, <3>2
  <2> QED BY <2>1, <2>2, <2>3 DEF DeliveredInOrder
<1> QED BY <1>4, <1>5, <1>6

\* No word is written that another producer writes or the consumer reads.
LEMMA WordsSeparate ==
  ASSUME IInv, ClearedInv
  PROVE  WritersApart
<1>1. PICK c \in Nat : WordsInv(c)
  BY DEF ClearedInv
<1>2. TypeOK /\ NoOverrun /\ ClaimsInv /\ ConsumedInv(c) /\ OwnersInv(c) /\ ReadingInv(c)
  BY <1>1 DEF IInv, WordsInv
<1>3. head <= c
  BY <1>2 DEF ConsumedInv
<1>4. ASSUME NEW p \in Owners, NEW word \in WordsOf(p)
      PROVE  \E i \in 1 .. Len(claims) :
               /\ i \notin published /\ Start(i) = writer[p].tail
               /\ \E x \in Nat : /\ c <= x /\ Start(i) <= x /\ x < claims[i].end
                                 /\ word = Index(x)
  <2>1. WriterOK(writer[p], c) /\ writer[p].pc \in {"pad", "body", "length"}
    BY <1>2 DEF OwnersInv, Owners
  <2>2. PICK i \in 1 .. Len(claims) :
          /\ i \notin published /\ c <= Rec(i)
          /\ Start(i) = writer[p].tail /\ claims[i].end = writer[p].next
          /\ Rec(i) = RecordPosition(writer[p].msg, writer[p].tail)
    BY <1>2, <2>1, OwnerFacts
  <2>3. PICK first : first = IF writer[p].pc = "pad" THEN Start(i) ELSE Rec(i)
    OBVIOUS
  <2>4. Start(i) \in Nat /\ Rec(i) \in Nat /\ Start(i) <= Rec(i) /\ claims[i].end \in Nat
    BY <1>2, ClaimFacts
  <2>5. writer[p].pc = "pad" => c <= Start(i)
    BY <2>1, <2>2 DEF WriterOK
  <2>6. first \in Nat /\ Start(i) <= first /\ c <= first
    BY <2>2, <2>3, <2>4, <2>5
  <2>7. WordsOf(p) = {Index(position) : position \in first .. claims[i].end - 1}
    BY <2>2, <2>3 DEF WordsOf
  <2>8. PICK x \in first .. claims[i].end - 1 : word = Index(x)
    BY <2>7
  <2>9. x \in Nat /\ c <= x /\ Start(i) <= x /\ x < claims[i].end
    BY <2>4, <2>6
  <2> QED BY <2>2, <2>8, <2>9
<1>5. ASSUME NEW p \in Owners, NEW q \in Owners, p # q
      PROVE  WordsOf(p) \cap WordsOf(q) = {}
  <2> SUFFICES ASSUME NEW word \in WordsOf(p), word \in WordsOf(q) PROVE FALSE
    OBVIOUS
  <2>1. PICK i \in 1 .. Len(claims) :
          /\ Start(i) = writer[p].tail
          /\ \E x \in Nat : c <= x /\ Start(i) <= x /\ x < claims[i].end /\ word = Index(x)
    BY <1>4
  <2>2. PICK x \in Nat : c <= x /\ Start(i) <= x /\ x < claims[i].end /\ word = Index(x)
    BY <2>1
  <2>3. PICK j \in 1 .. Len(claims) :
          /\ Start(j) = writer[q].tail
          /\ \E y \in Nat : c <= y /\ Start(j) <= y /\ y < claims[j].end /\ word = Index(y)
    BY <1>4
  <2>4. PICK y \in Nat : c <= y /\ Start(j) <= y /\ y < claims[j].end /\ word = Index(y)
    BY <2>3
  <2>5. i = j
    BY <1>2, <1>3, <2>2, <2>4, WordsApart
  <2>6. writer[p].tail # writer[q].tail
    BY <1>2, <1>5 DEF OwnersInv
  <2> QED BY <2>1, <2>3, <2>5, <2>6
<1>6. ASSUME reader.pc \in {"deliver", "clear"}, NEW p \in Owners
      PROVE  WordsOf(p) \cap {Index(reader.next + l) : l \in 0 .. reader.length - 1} = {}
  <2>1. PICK j : j = Done + 1
    OBVIOUS
  <2>2. j \in published /\ c = Rec(j) /\ reader.length = Length(j)
    BY <1>2, <1>6, <2>1 DEF ReadingInv
  <2>3. reader.next = c
    BY <1>2, <1>6 DEF ReadingInv
  <2>4. j \in 1 .. Len(claims)
    BY <1>2, <2>2 DEF ClaimsInv
  <2>5. /\ Rec(j) \in Nat /\ Start(j) \in Nat /\ Start(j) <= Rec(j) /\ Length(j) \in Nat
        /\ claims[j].end = Rec(j) + Length(j) + 1
    BY <1>2, <2>4, ClaimFacts
  <2> SUFFICES ASSUME NEW word \in WordsOf(p), NEW l \in 0 .. reader.length - 1,
                      word = Index(reader.next + l)
               PROVE  FALSE
    OBVIOUS
  <2>6. PICK i \in 1 .. Len(claims) :
          /\ i \notin published
          /\ \E x \in Nat : c <= x /\ Start(i) <= x /\ x < claims[i].end /\ word = Index(x)
    BY <1>4
  <2>7. PICK x \in Nat : c <= x /\ Start(i) <= x /\ x < claims[i].end /\ word = Index(x)
    BY <2>6
  <2>8. PICK y : y = reader.next + l
    OBVIOUS
  <2>9. y \in Nat /\ c <= y /\ Start(j) <= y /\ y < claims[j].end
    BY SMTT(20), <2>2, <2>3, <2>5, <2>8
  <2>10. i = j
    BY <1>2, <1>3, <2>4, <2>7, <2>8, <2>9, WordsApart
  <2> QED BY <2>2, <2>6, <2>10
<1> QED BY <1>5, <1>6 DEF WritersApart

\* The claims behind head and the messages delivered.
LEMMA WordsCount ==
  ASSUME IInv, ClearedInv
  PROVE  HeadCountsDelivered
<1>1. PICK c \in Nat : WordsInv(c)
  BY DEF ClearedInv
<1>2. TypeOK /\ ClaimsInv /\ ConsumedInv(c) /\ ReadingInv(c)
  BY <1>1 DEF IInv, WordsInv
<1> DEFINE released == {i \in DOMAIN claims : claims[i].end <= head}
<1> SUFFICES ASSUME reader.pc = "idle"
             PROVE  \/ Len(delivered) = Cardinality(released)
                    \/ /\ throws > 0 /\ Len(delivered) > Cardinality(released)
                       /\ data[Index(head)] = 0
  BY DEF HeadCountsDelivered
<1>3. PICK n : n = Len(delivered)
  OBVIOUS
<1>4. Done = n
  BY <1>3 DEF Done
<1>5. /\ n \in Nat /\ n <= Len(claims) /\ Len(claims) \in Nat /\ DOMAIN claims = 1 .. Len(claims)
      /\ head \in Nat /\ throws \in Nat /\ head <= c
      /\ head < c => data[Index(head)] = 0
  BY <1>2, <1>3, <1>4 DEF ConsumedInv, TypeOK
<1>6. ASSUME NEW i \in 1 .. Len(claims)
      PROVE  claims[i].end \in Nat /\ (claims[i].end <= c <=> i <= n)
  <2>1. i <= n => claims[i].end <= c
    BY <1>2, <1>4, Position
  <2>2. i > n => c <= Rec(i)
    BY <1>2, <1>4, Position
  <2>3. Rec(i) \in Nat /\ claims[i].end \in Nat /\ Rec(i) < claims[i].end
    BY <1>2, ClaimFacts
  <2> QED BY <1>5, <2>1, <2>2, <2>3
<1>7. CASE head = c
  <2>1. released = 1 .. n
    BY <1>5, <1>6, <1>7
  <2>2. Cardinality(1 .. n) = n
    BY <1>5, FS_Interval
  <2> QED BY <1>3, <2>1, <2>2
<1>8. CASE head < c
  <2>1. throws > 0 /\ data[Index(head)] = 0
    <3>1. throws # 0
      BY <1>2, <1>5, <1>8 DEF ReadingInv
    <3> QED BY <1>5, <1>8, <3>1
  <2>2. released \subseteq 1 .. n
    BY <1>5, <1>6
  <2>3. IsFiniteSet(1 .. n) /\ Cardinality(1 .. n) = n
    BY <1>5, FS_Interval
  <2>4. IsFiniteSet(released) /\ Cardinality(released) <= n
    BY ZenonT(30), <2>2, <2>3, FS_Subset
  <2>5. Cardinality(released) \in Nat
    BY <2>4, FS_CardinalityType
  <2> HIDE DEF released
  <2> QED BY <1>3, <1>5, <2>1, <2>4, <2>5
<1> QED BY <1>5, <1>7, <1>8

\* Up to the first misread no two threads use the same word at the same time: neither
\* two producers nor a producer and the handler.
THEOREM WritersSeparate == UntilMisread => []WritersApart
<1>1. IInv /\ ClearedInv => WritersApart
  BY WordsSeparate
<1> QED BY <1>1, UntilIsSpec, InvCorrect, ClearedInvCorrect, PTL

\* Up to the first misread the length of every consumed record is cleared before its
\* word is claimed again for one: what a misread finds there is the type or the body
\* of a record, never a length.
THEOREM LengthsCleared == UntilMisread => []NoLengthLeft
<1>1. IInv /\ ClearedInv => NoLengthLeft
  BY WordsFacts
<1> QED BY <1>1, UntilIsSpec, InvCorrect, ClearedInvCorrect, PTL

\* Up to the first misread read() starts where a length word is or will be.
THEOREM HeadAtRecord == UntilMisread => []HeadOnRecord
<1>1. IInv /\ ClearedInv => HeadOnRecord
  BY WordsFacts
<1> QED BY <1>1, UntilIsSpec, InvCorrect, ClearedInvCorrect, PTL

\* Up to the first misread the handler gets the messages in the order of the tail,
\* unchanged; after one it may not.
THEOREM OrderKept == UntilMisread => []DeliveredInOrder
<1>1. IInv /\ ClearedInv => DeliveredInOrder
  BY WordsFacts
<1> QED BY <1>1, UntilIsSpec, InvCorrect, ClearedInvCorrect, PTL

\* Up to the first misread the claims behind head are the messages delivered; or a
\* handler has thrown behind others of its batch, and head stays at a cleared length.
THEOREM HeadIsCount == UntilMisread => []HeadCountsDelivered
<1>1. IInv /\ ClearedInv => HeadCountsDelivered
  BY WordsCount
<1> QED BY <1>1, UntilIsSpec, InvCorrect, ClearedInvCorrect, PTL

-----------------------------------------------------------------------------
(* The channel.                                                             *)

\* The messages of a claim appended.
LEMMA ViewsAppend ==
  ASSUME NEW s \in Seq(Claim), NEW claim \in Claim
  PROVE  [i \in DOMAIN Append(s, claim) |-> View(Append(s, claim)[i].msg)]
           = Append([i \in DOMAIN s |-> View(s[i].msg)], View(claim.msg))
<1> DEFINE views == [i \in DOMAIN s |-> View(s[i].msg)]
           longer == Append(s, claim)
<1>1. /\ DOMAIN s = 1 .. Len(s) /\ Len(s) \in Nat /\ DOMAIN longer = 1 .. Len(s) + 1
      /\ longer[Len(s) + 1] = claim /\ \A i \in 1 .. Len(s) : longer[i] = s[i]
  OBVIOUS
<1> HIDE DEF longer
<1>2. views \in Seq({View(s[i].msg) : i \in 1 .. Len(s)}) /\ Len(views) = Len(s)
  BY <1>1
<1>3. Append(views, View(claim.msg))
        = [i \in 1 .. Len(s) + 1 |-> IF i = Len(s) + 1 THEN View(claim.msg) ELSE views[i]]
  BY <1>1, <1>2
<1>4. \A i \in 1 .. Len(s) + 1 :
        View(longer[i].msg) = IF i = Len(s) + 1 THEN View(claim.msg) ELSE views[i]
  BY <1>1
<1>5. [i \in DOMAIN longer |-> View(longer[i].msg)] = Append(views, View(claim.msg))
  <2> HIDE DEF views
  <2> QED BY <1>1, <1>3, <1>4
<1> QED BY <1>5 DEF longer

\* Up to the first misread every step of the ring is one of the channel or none: the
\* compare-and-set reserves, the length word completes, the handler receives.
THEOREM RingIsChannel == UntilMisread => ImplementsChannel
<1> DEFINE views == [i \in DOMAIN claims |-> View(claims[i].msg)]
<1>1. Init => Channel!Init
  BY DEF Init, Channel!Init
<1>2. IInv /\ ClearedInv /\ [Next /\ ~ Misreads]_vars => [Channel!Next]_(Channel!channel)
  <2>1. SUFFICES ASSUME IInv, ClearedInv, [Next]_vars PROVE [Channel!Next]_(Channel!channel)
    OBVIOUS
  <2>2. PICK c \in Nat : WordsInv(c)
    BY <2>1 DEF ClearedInv
  <2>3. /\ TypeOK /\ NoOverrun /\ ClaimsInv /\ ConsumedInv(c) /\ OwnersInv(c)
        /\ Len(views) = Len(claims)
    BY <2>1, <2>2 DEF IInv, WordsInv, TypeOK
  <2>4. ASSUME NEW p \in Producers, CompareAndSetTail(p)
        PROVE  Channel!Next
    <3>1. writer[p].msg \in Messages /\ writer[p] \in WriterState
      BY <2>3, <2>4 DEF OwnersInv, WriterOK, CompareAndSetTail, TypeOK
    <3>2. PICK claim :
            claim = [start |-> writer[p].tail, end |-> writer[p].next, msg |-> writer[p].msg]
      OBVIOUS
    <3>3. claim \in Claim /\ claim.msg = writer[p].msg
      BY <3>1, <3>2 DEF Claim, WriterState
    <3>4. claims' = Append(claims, claim) /\ published' = published /\ delivered' = delivered
      BY <2>4, <3>2 DEF CompareAndSetTail
    <3>5. views' = Append(views, View(claim.msg))
      BY <2>3, <3>3, <3>4, ViewsAppend DEF TypeOK
    <3>6. Channel!Reserve(View(claim.msg))
      BY <3>4, <3>5 DEF Channel!Reserve
    <3> QED BY <3>1, <3>3, <3>6 DEF Channel!Next
  <2>5. ASSUME NEW p \in Producers, PutLength(p)
        PROVE  Channel!Next
    <3>1. PICK i \in 1 .. Len(claims) : i \notin published /\ published' = published \cup {i}
      BY <2>2, <2>3, <2>5, PublishesOne
    <3>2. views' = views /\ delivered' = delivered
      BY <2>5 DEF PutLength
    <3>3. i \in 1 .. Len(views) \ published
      BY <2>3, <3>1
    <3>4. Channel!Complete(i)
      BY <3>1, <3>2, <3>3 DEF Channel!Complete
    <3> QED BY <3>3, <3>4 DEF Channel!Next
  <2>6. CASE Deliver
    <3>1. PICK n : n = Len(delivered) + 1
      OBVIOUS
    <3>2. n \in published /\ n \in 1 .. Len(claims) /\ RecordAtHead = View(claims[n].msg)
      BY <2>2, <2>3, <2>6, <3>1, SeesMessage DEF Deliver
    <3>3. RecordAtHead = views[n]
      BY <2>3, <3>2 DEF TypeOK
    <3>4. delivered' = Append(delivered, views[n]) /\ claims' = claims /\ published' = published
      BY <2>6, <3>3 DEF Deliver
    <3>5. Channel!Receive
      BY <3>1, <3>2, <3>4 DEF Channel!Receive
    <3> QED BY <3>5 DEF Channel!Next
  <2>7. ASSUME UNCHANGED history PROVE UNCHANGED Channel!channel
    BY <2>7 DEF history, Channel!channel
  <2>8. CASE UNCHANGED vars
    BY <2>7, <2>8 DEF vars
  <2>9. ASSUME NEW p \in Producers, Crash(p) \/ \E m \in MessagesOf[p] : Write(p, m)
        PROVE  UNCHANGED history
    BY <2>9 DEF Crash, Write
  <2>10. ASSUME NEW p \in Producers, LoadTail(p) \/ LoadHead(p) \/ LoseTail(p) \/ PutPadding(p)
                                      \/ PutTypeAndBody(p)
         PROVE  UNCHANGED history
    BY <2>10 DEF LoadTail, LoadHead, LoseTail, PutPadding, PutTypeAndBody
  <2>11. ASSUME Read \/ EndOfRecords \/ LoadLength \/ SkipPadding \/ ClearLength \/ PublishHead
                  \/ HandlerThrows
         PROVE  UNCHANGED history
    BY <2>11 DEF Read, EndOfRecords, LoadLength, SkipPadding, ClearLength, PublishHead,
                 HandlerThrows
  <2> QED BY <2>1, <2>4, <2>5, <2>6, <2>7, <2>8, <2>9, <2>10, <2>11 DEF Next, WriteStep, ReadStep
<1> QED BY <1>1, <1>2, UntilIsSpec, InvCorrect, ClearedInvCorrect, PTL
       DEF UntilMisread, ImplementsChannel, Channel!Spec
=============================================================================
