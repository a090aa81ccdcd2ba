------------------------ MODULE ManyToOneRingBuffer -------------------------
(***************************************************************************)
(* caeron/concurrent/many_to_one_ring_buffer.h: the ring in shared memory  *)
(* that carries commands from the client processes to the media driver.    *)
(*                                                                         *)
(* Positions and lengths are counted in 4-byte words, the unit every       *)
(* record is aligned to.  A record is a length word, a type word and the   *)
(* body; the claim for it has one more word ("the next record's length     *)
(* header").  The length word is written last and publishes the record; a  *)
(* negative length is padding up to the end of the buffer.                 *)
(*                                                                         *)
(* Each action is one access to a word that another process may read or    *)
(* write, together with the private computation that follows it.  The      *)
(* plain stores of a record's type and body are one action: no reader may  *)
(* look at them before the length word is there.                           *)
(***************************************************************************)
EXTENDS Integers, Sequences, FiniteSets

CONSTANTS
  Producers,       \* the client threads that write
  Capacity,        \* words in the data region, capacity_
  MessagesOf,      \* the messages each of them may write
  MaxMessages,     \* bound: records claimed in a behaviour
  MaxCrashes,      \* bound: producers that die inside write()
  MaxThrows        \* bound: times the handler throws

PADDING_MSG_TYPE_ID == -1
MSG_HEADER_LENGTH == 2
LENGTH_WORD == 1
max_msg_length == Capacity \div 8

ASSUME CapacityAssumption == Capacity \in Nat \ {0}
\* A message: its type, the words of its body and the value they have.
ASSUME MessageAssumption ==
  MessagesOf \in [Producers -> SUBSET [type : Int \ {PADDING_MSG_TYPE_ID}, words : Nat, fill : Int]]
ASSUME BoundsAssumption ==
  /\ MaxMessages \in Nat
  /\ MaxCrashes \in Nat
  /\ MaxThrows \in Nat

AnyMessage == [type : Int, words : Nat, fill : Int]
NoMessage == [type |-> 0, words |-> 0, fill |-> 0]
Messages == UNION {MessagesOf[p] : p \in Producers}

VARIABLES
  head,            \* consumer position, in the buffer's header
  tail,            \* producer position, in the buffer's header
  data,            \* the words of the data region
  writer,          \* each producer in write(): the step it is at, its message
                   \* and its local variables tail and next_tail
  reader,          \* the consumer in read(): its step and its local variables
                   \* next_head, current_tail and record_length
  claims,          \* history: what was claimed, in the order of the tail
  published,       \* history: the claims whose length word was written
  delivered,       \* history: what the handler was called with
  lengths,         \* history: the indices of the words that were stored as a
                   \* length, and not cleared or written over since
  crashes,         \* producers that died so far
  throws           \* calls of the handler that threw so far

ring == << head, tail, data, lengths >>
history == << claims, published, delivered >>
faults == << crashes, throws >>
vars == << ring, writer, reader, history, faults >>

-----------------------------------------------------------------------------
(* Layout.                                                                 *)

Words == 0 .. Capacity - 1
Index(position) == position % Capacity
ToBufferEnd(position) == Capacity - Index(position)

RecordLength(m) == MSG_HEADER_LENGTH + m.words
RequiredCapacity(m) == RecordLength(m) + LENGTH_WORD

\* The record does not fit before the end of the buffer.
Wraps(m, position) == ToBufferEnd(position) < RequiredCapacity(m)

\* The words a claim at this position takes: padding, if any, and record.
ClaimLength(m, position) ==
  RequiredCapacity(m) + (IF Wraps(m, position) THEN ToBufferEnd(position) ELSE 0)

\* The position of the record in a claim.
RecordPosition(m, position) ==
  position + (IF Wraps(m, position) THEN ToBufferEnd(position) ELSE 0)

-----------------------------------------------------------------------------
(* write()                                                                 *)

\* A producer outside write(), and one whose process has died.
NotWriting == [pc |-> "idle", msg |-> NoMessage, tail |-> 0, next |-> 0]
Dead == [pc |-> "dead", msg |-> NoMessage, tail |-> 0, next |-> 0]

\* write() is called with a message it accepts.  With a record longer than
\* max_msg_length it returns false, with the padding type or a negative
\* length it throws: it then touches nothing.
Write(p, m) ==
  /\ writer[p].pc = "idle"
  /\ RecordLength(m) <= max_msg_length
  /\ Len(claims) + Cardinality({q \in Producers : writer[q].pc \in {"tail", "head", "cas"}})
       < MaxMessages
  /\ writer' = [writer EXCEPT ![p].pc = "tail", ![p].msg = m]
  /\ UNCHANGED << ring, reader, history, faults >>

LoadTail(p) ==
  /\ writer[p].pc = "tail"
  /\ writer' = [writer EXCEPT ![p].pc = "head", ![p].tail = tail]
  /\ UNCHANGED << ring, reader, history, faults >>

\* Mutant: the space is not checked.
LoadHeadUnchecked(p) ==
  LET w == writer[p]
  IN  /\ w.pc = "head"
      /\ writer' = [writer EXCEPT ![p].pc = "cas", ![p].next = w.tail + ClaimLength(w.msg, w.tail)]
      /\ UNCHANGED << ring, reader, history, faults >>

\* Mutant: a record that would wrap is refused.
LoadHeadNoWrap(p) ==
  LET w == writer[p]
      claim == ClaimLength(w.msg, w.tail)
      fits == claim <= Capacity - (w.tail - head) /\ ~ Wraps(w.msg, w.tail)
  IN  /\ w.pc = "head"
      /\ \/ /\ fits
            /\ writer' = [writer EXCEPT ![p].pc = "cas", ![p].next = w.tail + claim]
         \/ /\ ~ fits
            /\ writer' = [writer EXCEPT ![p] = NotWriting]
      /\ UNCHANGED << ring, reader, history, faults >>

\* head is loaded after tail: when the tail is old the difference may even be
\* negative.
LoadHead(p) ==
  LET w == writer[p]
      claim == ClaimLength(w.msg, w.tail)
      available == Capacity - (w.tail - head)
  IN  /\ w.pc = "head"
      /\ \/ /\ claim <= available
            /\ writer' = [writer EXCEPT ![p].pc = "cas", ![p].next = w.tail + claim]
         \/ /\ claim > available               \* write() returns false
            /\ writer' = [writer EXCEPT ![p] = NotWriting]
      /\ UNCHANGED << ring, reader, history, faults >>

\* Mutant: the tail is stored without comparing it.
SetTail(p) ==
  LET w == writer[p]
  IN  /\ w.pc = "cas"
      /\ tail' = w.next
      /\ claims' = Append(claims, [start |-> w.tail, end |-> w.next, msg |-> w.msg])
      /\ writer' = [writer EXCEPT ![p].pc = IF Wraps(w.msg, w.tail) THEN "pad" ELSE "body"]
      /\ UNCHANGED << head, data, lengths, reader, published, delivered, faults >>

CompareAndSetTail(p) ==
  LET w == writer[p]
  IN  /\ w.pc = "cas"
      /\ tail = w.tail
      /\ tail' = w.next
      /\ claims' = Append(claims, [start |-> w.tail, end |-> w.next, msg |-> w.msg])
      /\ writer' = [writer EXCEPT ![p].pc = IF Wraps(w.msg, w.tail) THEN "pad" ELSE "body"]
      /\ UNCHANGED << head, data, lengths, reader, published, delivered, faults >>

LoseTail(p) ==
  /\ writer[p].pc = "cas"
  /\ tail # writer[p].tail
  /\ writer' = [writer EXCEPT ![p].pc = "tail"]
  /\ UNCHANGED << ring, reader, history, faults >>

PutPadding(p) ==
  LET position == writer[p].tail
  IN  /\ writer[p].pc = "pad"
      /\ data' = [data EXCEPT ![Index(position)] = - ToBufferEnd(position)]
      /\ lengths' = lengths \cup {Index(position)}
      /\ writer' = [writer EXCEPT ![p].pc = "body"]
      /\ UNCHANGED << head, tail, reader, history, faults >>

\* The index of the record p writes.
RecordIndex(p) == Index(RecordPosition(writer[p].msg, writer[p].tail))

PutTypeAndBody(p) ==
  LET index == RecordIndex(p)
      m == writer[p].msg
      body == index + MSG_HEADER_LENGTH .. index + RecordLength(m) - 1
  IN  /\ writer[p].pc = "body"
      /\ data' = [i \in Words |-> IF i = index + 1 THEN m.type
                                  ELSE IF i \in body THEN m.fill
                                  ELSE data[i]]
      /\ lengths' = lengths \ ({index + 1} \cup body)
      /\ writer' = [writer EXCEPT ![p].pc = "length"]
      /\ UNCHANGED << head, tail, reader, history, faults >>

\* Release store of the length word; write() returns true.
PutLength(p) ==
  LET w == writer[p]
  IN  /\ w.pc = "length"
      /\ data' = [data EXCEPT ![RecordIndex(p)] = RecordLength(w.msg)]
      /\ lengths' = lengths \cup {RecordIndex(p)}
      /\ published' = published \cup {i \in DOMAIN claims : claims[i].start = w.tail}
      /\ writer' = [writer EXCEPT ![p] = NotWriting]
      /\ UNCHANGED << head, tail, reader, claims, delivered, faults >>

\* A client process dies inside write().
Crash(p) ==
  /\ writer[p].pc \notin {"idle", "dead"}
  /\ crashes < MaxCrashes
  /\ crashes' = crashes + 1
  /\ writer' = [writer EXCEPT ![p] = Dead]
  /\ UNCHANGED << ring, reader, history, throws >>

-----------------------------------------------------------------------------
(* read()                                                                  *)

NotReading == [pc |-> "idle", next |-> 0, tail |-> 0, length |-> 0]

HeadIndex == Index(reader.next)

\* head is the consumer's own, so its load and that of tail are one step.
Read ==
  /\ reader.pc = "idle"
  /\ reader' = [reader EXCEPT !.pc = "loop", !.next = head, !.tail = tail]
  /\ UNCHANGED << ring, writer, history, faults >>

\* The loop's condition fails.
EndOfRecords ==
  /\ reader.pc = "loop"
  /\ reader.next >= reader.tail
  /\ reader' = [reader EXCEPT !.pc = "publish"]
  /\ UNCHANGED << ring, writer, history, faults >>

\* Mutant: a negative length is not told from a record.
LoadLengthNoPadding ==
  LET length == data[HeadIndex]
  IN  /\ reader.pc = "loop"
      /\ reader.next < reader.tail
      /\ reader' = IF length = 0 THEN [reader EXCEPT !.pc = "publish"]
                   ELSE [reader EXCEPT !.pc = "deliver", !.length = length]
      /\ UNCHANGED << ring, writer, history, faults >>

LoadLength ==
  LET length == data[HeadIndex]
  IN  /\ reader.pc = "loop"
      /\ reader.next < reader.tail
      /\ \/ /\ length = 0                      \* claimed, not yet written
            /\ reader' = [reader EXCEPT !.pc = "publish"]
         \/ /\ length < 0
            /\ reader' = [reader EXCEPT !.pc = "skip"]
         \/ /\ length \in 1..max_msg_length
            /\ reader' = [reader EXCEPT !.pc = "deliver", !.length = length]
         \/ /\ length > max_msg_length         \* throws "corrupt ring buffer record"
            /\ reader' = NotReading
      /\ UNCHANGED << ring, writer, history, faults >>

\* Mutant: the padding is cleared but the position stays.
SkipPaddingInPlace ==
  /\ reader.pc = "skip"
  /\ data' = [data EXCEPT ![HeadIndex] = 0]
  /\ lengths' = lengths \ {HeadIndex}
  /\ reader' = [reader EXCEPT !.pc = "loop"]
  /\ UNCHANGED << head, tail, writer, history, faults >>

SkipPadding ==
  /\ reader.pc = "skip"
  /\ data' = [data EXCEPT ![HeadIndex] = 0]
  /\ lengths' = lengths \ {HeadIndex}
  /\ reader' = [reader EXCEPT !.pc = "loop", !.next = (reader.next - HeadIndex) + Capacity]
  /\ UNCHANGED << head, tail, writer, history, faults >>

\* A message as the handler sees it: the type, the length of the body and the
\* words found in it.
View(m) == [type |-> m.type, words |-> m.words,
            content |-> IF m.words = 0 THEN {} ELSE {m.fill}]

\* % only keeps this defined for a record that is none, at the last word.
RecordAtHead ==
  [type |-> data[(HeadIndex + 1) % Capacity],
   words |-> reader.length - MSG_HEADER_LENGTH,
   content |-> {data[i] : i \in Words \cap
                  (HeadIndex + MSG_HEADER_LENGTH .. HeadIndex + reader.length - 1)}]

Deliver ==
  /\ reader.pc = "deliver"
  /\ delivered' = Append(delivered, RecordAtHead)
  /\ reader' = [reader EXCEPT !.pc = "clear"]
  /\ UNCHANGED << ring, writer, claims, published, faults >>

\* The handler throws: the exception leaves read() without storing head.
HandlerThrows ==
  /\ reader.pc = "deliver"
  /\ throws < MaxThrows
  /\ throws' = throws + 1
  /\ reader' = NotReading
  /\ UNCHANGED << ring, writer, history, crashes >>

\* Mutant: the length of a consumed record stays.
KeepLength ==
  /\ reader.pc = "clear"
  /\ reader' = [reader EXCEPT !.pc = "loop", !.length = 0,
                              !.next = reader.next + reader.length + LENGTH_WORD]
  /\ UNCHANGED << ring, writer, history, faults >>

\* Mutant: the position advances by the record without the word behind it.
ClearLengthShort ==
  /\ reader.pc = "clear"
  /\ data' = [data EXCEPT ![HeadIndex] = 0]
  /\ lengths' = lengths \ {HeadIndex}
  /\ reader' = [reader EXCEPT !.pc = "loop", !.length = 0,
                              !.next = reader.next + reader.length]
  /\ UNCHANGED << head, tail, writer, history, faults >>

\* Only the length word is cleared.
ClearLength ==
  /\ reader.pc = "clear"
  /\ data' = [data EXCEPT ![HeadIndex] = 0]
  /\ lengths' = lengths \ {HeadIndex}
  /\ reader' = [reader EXCEPT !.pc = "loop", !.length = 0,
                              !.next = reader.next + reader.length + LENGTH_WORD]
  /\ UNCHANGED << head, tail, writer, history, faults >>

\* Mutant: the tail that was loaded is stored as the head.
PublishTail ==
  /\ reader.pc = "publish"
  /\ head' = reader.tail
  /\ reader' = NotReading
  /\ UNCHANGED << tail, data, lengths, writer, history, faults >>

PublishHead ==
  /\ reader.pc = "publish"
  /\ head' = reader.next
  /\ reader' = NotReading
  /\ UNCHANGED << tail, data, lengths, writer, history, faults >>

-----------------------------------------------------------------------------
Init ==
  /\ head = 0
  /\ tail = 0
  /\ data = [i \in Words |-> 0]
  /\ lengths = {}
  /\ writer = [p \in Producers |-> NotWriting]
  /\ reader = NotReading
  /\ claims = << >>
  /\ published = {}
  /\ delivered = << >>
  /\ crashes = 0
  /\ throws = 0

\* The steps of write() once it is called; they never wait for anyone.
WriteStep(p) ==
  \/ LoadTail(p)
  \/ LoadHead(p)
  \/ CompareAndSetTail(p)
  \/ LoseTail(p)
  \/ PutPadding(p)
  \/ PutTypeAndBody(p)
  \/ PutLength(p)

ReadStep ==
  \/ Read
  \/ EndOfRecords
  \/ LoadLength
  \/ SkipPadding
  \/ Deliver
  \/ ClearLength
  \/ PublishHead

Next ==
  \/ \E p \in Producers : \E m \in MessagesOf[p] : Write(p, m)
  \/ \E p \in Producers : WriteStep(p) \/ Crash(p)
  \/ ReadStep
  \/ HandlerThrows

Spec == Init /\ [][Next]_vars

\* A thread inside write() keeps running, and the driver polls its ring for
\* ever.  No client has to write, and none has to die.
Fairness ==
  /\ \A p \in Producers : WF_vars(WriteStep(p))
  /\ WF_vars(ReadStep)

FairSpec == Spec /\ Fairness

\* The consumer is about to take for a length what is none: the type or a word of
\* the body of a record of an earlier lap, as only lengths are cleared.
Misreads ==
  /\ reader.pc = "loop"
  /\ reader.next < reader.tail
  /\ data[HeadIndex] # 0
  /\ HeadIndex \notin lengths

\* The ring up to the first time that happens.
UntilMisread == Init /\ [][Next /\ ~ Misreads]_vars

-----------------------------------------------------------------------------
(* Properties.                                                             *)

WritePcs == {"idle", "tail", "head", "cas", "pad", "body", "length", "dead"}
ReadPcs == {"idle", "loop", "skip", "deliver", "clear", "publish"}
WriterState == [pc : WritePcs, msg : AnyMessage, tail : Nat, next : Nat]
ReaderState == [pc : ReadPcs, next : Nat, tail : Nat, length : Nat]
Claim == [start : Nat, end : Nat, msg : AnyMessage]

\* The types of the variables: positions never become negative, the data
\* region holds integers only, each thread is at a step of its function.
TypeOK ==
  /\ head \in Nat
  /\ tail \in Nat
  /\ data \in [Words -> Int]
  /\ lengths \subseteq Words
  /\ writer \in [Producers -> WriterState]
  /\ reader \in ReaderState
  /\ claims \in Seq(Claim)
  /\ published \subseteq Nat
  /\ delivered \in Seq([type : Int, words : Int, content : SUBSET Int])
  /\ crashes \in Nat
  /\ throws \in Nat

\* The claims the consumer has not released never add up to more than the
\* ring, although every producer computes the free space from a tail and a
\* head that may both be old when it claims.
NoOverrun == tail - head <= Capacity

\* The producers that own a claim they have not published, and the words each of
\* them may still write: the padding only until its length is stored.
Owners == {p \in Producers : writer[p].pc \in {"pad", "body", "length"}}
WordsOf(p) ==
  LET w == writer[p]
      first == IF w.pc = "pad" THEN w.tail ELSE RecordPosition(w.msg, w.tail)
  IN  {Index(position) : position \in first .. w.next - 1}

\* Two producers never write the same word of the data region, and none
\* writes where the consumer is calling the handler or clearing a length.
WritersApart ==
  /\ \A p, q \in Owners : p # q => WordsOf(p) \cap WordsOf(q) = {}
  /\ reader.pc \in {"deliver", "clear"} =>
       \A p \in Owners :
         WordsOf(p) \cap {Index(reader.next + i) : i \in 0 .. reader.length - 1} = {}

\* The handler is called with exactly the messages that were claimed, in the
\* order of the tail, each once and with the type and the body its producer
\* wrote; so also in the order each producer wrote them.
DeliveredInOrder ==
  /\ Len(delivered) <= Len(claims)
  /\ \A i \in DOMAIN delivered :
       i \in published /\ delivered[i] = View(claims[i].msg)

\* Where the length of a claim will be, no length of an earlier lap is left: what
\* clearing the length of a consumed record is there for.  That holds for claims
\* whose producer has died as well.
NoLengthLeft ==
  /\ \A p \in Producers : writer[p].pc = "pad" => Index(writer[p].tail) \notin lengths
  /\ \A i \in DOMAIN claims \ published :
       Index(RecordPosition(claims[i].msg, claims[i].start)) \notin lengths

\* write() refuses a message it accepts only while some record is unread: a
\* ring that has been drained takes any message up to max_msg_length, even
\* one that has to wrap.
RefusedOnlyWhenOccupied ==
  [][\A p \in Producers : writer[p].pc = "head" /\ writer'[p].pc = "idle" => head < tail]_vars

\* Between two calls of read() the consumer position is the start of a claim
\* or, when only its padding was consumed, of the record in it: the next call
\* starts where a length word is or will be.
HeadOnRecord ==
  reader.pc = "idle" /\ head < tail =>
    \E i \in DOMAIN claims :
      head \in {claims[i].start, RecordPosition(claims[i].msg, claims[i].start)}

\* Outside read() no message behind the consumer position is missing, and none
\* at or before it is handed over again: either the claims behind head are as many as
\* the messages delivered, or a handler threw, and head stays at a word that is 0.
HeadCountsDelivered ==
  reader.pc = "idle" =>
    LET released == {i \in DOMAIN claims : claims[i].end <= head}
    IN  \/ Len(delivered) = Cardinality(released)
        \/ throws > 0 /\ Len(delivered) > Cardinality(released) /\ data[Index(head)] = 0

\* Again and again every message that was claimed has reached the handler,
\* unless a producer died or a handler threw.
EveryClaimDelivered ==
  []<>(Len(delivered) = Len(claims) \/ crashes + throws > 0)

\* The ring implements the channel: a claim is the reservation, the length
\* word completes it, the call of the handler receives.
Channel == INSTANCE MessageChannel WITH
  Msgs <- {View(m) : m \in Messages},
  sent <- [i \in DOMAIN claims |-> View(claims[i].msg)],
  complete <- published,
  received <- delivered

ImplementsChannel == Channel!Spec
=============================================================================
