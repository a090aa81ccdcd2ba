----------------------------- MODULE Broadcast ------------------------------
(***************************************************************************)
(* caeron/concurrent/broadcast_transmitter.h and broadcast_receiver.h: the *)
(* buffer in shared memory through which the media driver answers its      *)
(* clients.  One transmitter, one or more receivers; every receiver keeps  *)
(* a position of its own, but all of them store the one head the           *)
(* transmitter reads its free space from.                                  *)
(*                                                                         *)
(* The layout is that of ManyToOneRingBuffer, in the same 4-byte words;    *)
(* here nothing clears a record and nothing limits the length of a message *)
(* but the free space.                                                     *)
(***************************************************************************)
EXTENDS Integers, Sequences, FiniteSets

CONSTANTS
  Receivers,       \* the clients
  Capacity,        \* words in the data region, capacity_
  Messages,        \* what is transmitted
  MaxMessages,     \* bound: messages transmitted
  MaxThrows        \* bound: times a handler throws

PADDING_MSG_TYPE_ID == -1
MSG_HEADER_LENGTH == 2
LENGTH_WORD == 1

ASSUME CapacityAssumption == Capacity \in Nat \ {0}
ASSUME MessageAssumption ==
  Messages \subseteq [type : Int \ {PADDING_MSG_TYPE_ID}, words : Nat, fill : Int]
ASSUME BoundsAssumption == MaxMessages \in Nat /\ MaxThrows \in Nat

VARIABLES
  head, tail,      \* the positions in the buffer's header
  data,            \* the words of the data region
  transmitter,     \* the step of transmit(), its message and next tail
  position,        \* tail_ of every receiver: how far it has read
  reader,          \* each receiver in receive(): its step, tail, next_tail,
                   \* record_length and messages_received
  sent,            \* history: the messages put into the buffer and where
  complete,        \* history: how many of them a tail has published
  handled,         \* history: what each receiver's handler took, and where from
  throws           \* handlers that threw so far

buffer == << head, tail, data >>
history == << sent, complete, handled >>
vars == << buffer, transmitter, position, reader, history, throws >>

-----------------------------------------------------------------------------
Words == 0 .. Capacity - 1
Index(pos) == pos % Capacity
ToBufferEnd(pos) == Capacity - Index(pos)

RecordLength(m) == MSG_HEADER_LENGTH + m.words
RequiredCapacity(m) == RecordLength(m) + LENGTH_WORD
Padding(m, pos) ==
  IF ToBufferEnd(pos) < RequiredCapacity(m) THEN ToBufferEnd(pos) ELSE 0

View(m) == [type |-> m.type, words |-> m.words,
            content |-> IF m.words = 0 THEN {} ELSE {m.fill}]

-----------------------------------------------------------------------------
(* transmit()                                                              *)

NoMessage == [type |-> 0, words |-> 0, fill |-> 0]
NotTransmitting == [pc |-> "idle", msg |-> NoMessage, at |-> 0]

Available == Capacity - (tail - head)

\* Mutant: the padding is left out of the space that is checked.
FitsWithoutPadding(m) == RequiredCapacity(m) <= Available

Fits(m) == Padding(m, tail) + RequiredCapacity(m) <= Available

\* The record goes behind the padding, if there is any.  With a message that
\* does not fit transmit() returns false and has changed nothing.
Transmit(m) ==
  LET at == tail + Padding(m, tail)
  IN  /\ transmitter.pc = "idle"
      /\ Len(sent) < MaxMessages
      /\ Fits(m)
      /\ transmitter' = [pc |-> IF at = tail THEN "record" ELSE "padding", msg |-> m, at |-> at]
      /\ sent' = Append(sent, [at |-> at, msg |-> View(m)])
      /\ UNCHANGED << buffer, position, reader, complete, handled, throws >>

PutPadding ==
  /\ transmitter.pc = "padding"
  /\ data' = [data EXCEPT ![Index(tail)] = -ToBufferEnd(tail)]
  /\ transmitter' = [transmitter EXCEPT !.pc = "record"]
  /\ UNCHANGED << head, tail, position, reader, history, throws >>

\* The words are those of the record, the stores of its type and body first.
PutTypeAndBody ==
  LET i == Index(transmitter.at)
      m == transmitter.msg
  IN  /\ transmitter.pc = "record"
      /\ data' = [w \in Words |->
           IF w = i + 1 THEN m.type
           ELSE IF w \in i + MSG_HEADER_LENGTH .. i + RecordLength(m) - 1 THEN m.fill
           ELSE data[w]]
      /\ transmitter' = [transmitter EXCEPT !.pc = "length"]
      /\ UNCHANGED << head, tail, position, reader, history, throws >>

PutLength ==
  /\ transmitter.pc = "length"
  /\ data' = [data EXCEPT ![Index(transmitter.at)] = RecordLength(transmitter.msg)]
  /\ transmitter' = [transmitter EXCEPT !.pc = "tail"]
  /\ UNCHANGED << head, tail, position, reader, history, throws >>

\* Mutant: the tail does not move over the padding.
PublishTailWithoutPadding ==
  /\ transmitter.pc = "tail"
  /\ tail' = tail + RequiredCapacity(transmitter.msg)
  /\ complete' = complete + 1
  /\ transmitter' = NotTransmitting
  /\ UNCHANGED << head, data, position, reader, sent, handled, throws >>

PublishTail ==
  /\ transmitter.pc = "tail"
  /\ tail' = transmitter.at + RequiredCapacity(transmitter.msg)
  /\ complete' = complete + 1
  /\ transmitter' = NotTransmitting
  /\ UNCHANGED << head, data, position, reader, sent, handled, throws >>

-----------------------------------------------------------------------------
(* receive()                                                               *)

NotReceiving == [pc |-> "idle", tail |-> 0, next |-> 0, length |-> 0, count |-> 0]

NextIndex(r) == Index(reader[r].next)

\* A receiver that was lapped goes on at the oldest position of the buffer.
Receive(r) ==
  /\ reader[r].pc = "idle"
  /\ reader' = [reader EXCEPT ![r] =
       [NotReceiving EXCEPT !.pc = "loop", !.tail = tail,
          !.next = IF tail - position[r] > Capacity THEN tail - Capacity ELSE position[r]]]
  /\ UNCHANGED << buffer, transmitter, position, history, throws >>

EndOfRecords(r) ==
  /\ reader[r].pc = "loop"
  /\ reader[r].next >= reader[r].tail
  /\ reader' = [reader EXCEPT ![r].pc = "store"]
  /\ UNCHANGED << buffer, transmitter, position, history, throws >>

\* The length is loaded; padding is skipped at once.
LoadLength(r) ==
  LET length == data[NextIndex(r)]
      local == reader[r]
  IN  /\ local.pc = "loop"
      /\ local.next < local.tail
      /\ reader' = [reader EXCEPT ![r] =
           CASE length = 0 -> [local EXCEPT !.pc = "store"]
             [] length < 0 -> [local EXCEPT !.next = local.next + ToBufferEnd(local.next)]
             [] length \in 1 .. Capacity -> [local EXCEPT !.pc = "handle", !.length = length]
             [] OTHER -> NotReceiving]     \* throws "corrupt broadcast record"
      /\ UNCHANGED << buffer, transmitter, position, history, throws >>

\* The record as the handler sees it; % only keeps this defined for a record
\* that is none, at the last word.
RecordRead(r) ==
  LET i == NextIndex(r)
      length == reader[r].length
  IN  [type |-> data[(i + 1) % Capacity],
       words |-> length - MSG_HEADER_LENGTH,
       content |-> {data[w] : w \in Words \cap (i + MSG_HEADER_LENGTH .. i + length - 1)}]

\* Mutant: the head is stored after every record.
HandleAndRelease(r) ==
  LET local == reader[r]
  IN  /\ local.pc = "handle"
      /\ handled' = [handled EXCEPT ![r] = Append(@, [at |-> local.next, msg |-> RecordRead(r)])]
      /\ head' = local.next + local.length + LENGTH_WORD
      /\ reader' = [reader EXCEPT ![r] =
           [local EXCEPT !.pc = "loop", !.next = local.next + local.length + LENGTH_WORD,
                         !.length = 0, !.count = local.count + 1]]
      /\ UNCHANGED << tail, data, transmitter, position, sent, complete, throws >>

Handle(r) ==
  LET local == reader[r]
  IN  /\ local.pc = "handle"
      /\ handled' = [handled EXCEPT ![r] = Append(@, [at |-> local.next, msg |-> RecordRead(r)])]
      /\ reader' = [reader EXCEPT ![r] =
           [local EXCEPT !.pc = "loop", !.next = local.next + local.length + LENGTH_WORD,
                         !.length = 0, !.count = local.count + 1]]
      /\ UNCHANGED << buffer, transmitter, position, sent, complete, throws >>

\* The exception leaves receive() before tail_ and the head are stored.
HandlerThrows(r) ==
  /\ reader[r].pc = "handle"
  /\ throws < MaxThrows
  /\ throws' = throws + 1
  /\ reader' = [reader EXCEPT ![r] = NotReceiving]
  /\ UNCHANGED << buffer, transmitter, position, history >>

\* Mutant: the position the call began at is stored as the head.
StoreOldPosition(r) ==
  LET local == reader[r]
  IN  /\ local.pc = "store"
      /\ position' = [position EXCEPT ![r] = local.next]
      /\ head' = IF local.count > 0 THEN position[r] ELSE head
      /\ reader' = [reader EXCEPT ![r] = NotReceiving]
      /\ UNCHANGED << tail, data, transmitter, history, throws >>

\* tail_ is the receiver's own, so its store and that of the head are one step.
StorePosition(r) ==
  LET local == reader[r]
  IN  /\ local.pc = "store"
      /\ position' = [position EXCEPT ![r] = local.next]
      /\ head' = IF local.count > 0 THEN local.next ELSE head
      /\ reader' = [reader EXCEPT ![r] = NotReceiving]
      /\ UNCHANGED << tail, data, transmitter, history, throws >>

-----------------------------------------------------------------------------
Init ==
  /\ head = 0
  /\ tail = 0
  /\ data = [w \in Words |-> 0]
  /\ transmitter = NotTransmitting
  /\ position = [r \in Receivers |-> 0]
  /\ reader = [r \in Receivers |-> NotReceiving]
  /\ sent = << >>
  /\ complete = 0
  /\ handled = [r \in Receivers |-> << >>]
  /\ throws = 0

\* The steps of transmit() once it has accepted a message.
TransmitStep == PutPadding \/ PutTypeAndBody \/ PutLength \/ PublishTail

ReceiveStep(r) ==
  \/ Receive(r)
  \/ EndOfRecords(r)
  \/ LoadLength(r)
  \/ Handle(r)
  \/ StorePosition(r)

Next ==
  \/ \E m \in Messages : Transmit(m)
  \/ TransmitStep
  \/ \E r \in Receivers : ReceiveStep(r) \/ HandlerThrows(r)

Spec == Init /\ [][Next]_vars

\* The driver's thread finishes transmit(), and every client polls.
FairSpec == Spec /\ WF_vars(TransmitStep) /\ (\A r \in Receivers : WF_vars(ReceiveStep(r)))

-----------------------------------------------------------------------------
(* Properties.                                                             *)

SeenMessage == [type : Int, words : Int, content : SUBSET Int]

TypeOK ==
  /\ head \in Nat
  /\ tail \in Nat
  /\ data \in [Words -> Int]
  /\ transmitter \in [pc : {"idle", "padding", "record", "length", "tail"},
                      msg : Messages \cup {NoMessage}, at : Nat]
  /\ position \in [Receivers -> Nat]
  /\ reader \in [Receivers -> [pc : {"idle", "loop", "handle", "store"}, tail : Nat,
                               next : Nat, length : 0 .. Capacity, count : Nat]]
  /\ sent \in Seq([at : Nat, msg : SeenMessage])
  /\ complete \in 0 .. Len(sent)
  /\ handled \in [Receivers -> Seq([at : Nat, msg : SeenMessage])]
  /\ throws \in Nat

\* When a handler threw, the records it had taken before are handed to it again
\* by the next call of receive(), and they are still what they were: the head
\* has not released their words to the transmitter.
RedeliveredUnchanged ==
  /\ TypeOK
  /\ \A r \in Receivers : \A i, j \in DOMAIN handled[r] :
       handled[r][i].at = handled[r][j].at => handled[r][i].msg = handled[r][j].msg

\* Once the receivers have read everything, every message of at most half the
\* ring is accepted, wherever the tail is.  (A longer one may be refused for
\* ever: the tail only moves when a message is accepted.)
RefusedOnlyWhenUnread ==
  (transmitter.pc = "idle" /\ \A r \in Receivers : reader[r].pc = "idle" /\ position[r] = tail) =>
    \A m \in Messages : 2 * RequiredCapacity(m) <= Capacity => Fits(m)

\* Where a receiver's handler took a record for the first time: the record lies
\* behind all that it had taken.
FirstTimes(r) ==
  {i \in DOMAIN handled[r] : \A j \in 1 .. i - 1 : handled[r][j].at < handled[r][i].at}

\* What a receiver's handler has taken, without what it was handed again.
FirstTime(r) ==
  LET count == Cardinality(FirstTimes(r))
      order == CHOOSE f \in [1 .. count -> FirstTimes(r)] :
                 \A i, j \in 1 .. count : i < j => f[i] < f[j]
  IN  [k \in 1 .. count |-> handled[r][order[k]].msg]

\* What is transmitted reaches the receiver, when there is one: whatever padding
\* lies between and whenever its handler throws.  (Several receivers share one
\* head, see EachReceivesAll.)
EveryMessageReceived ==
  \A n \in 1 .. MaxMessages : \A r \in Receivers :
    complete >= n ~> Len(FirstTime(r)) >= n

\* Each receiver's handler takes the messages that were transmitted, in their
\* order, with no other among them and none left out.
EachReceivesAll ==
  \A r \in Receivers :
    LET took == FirstTime(r)
    IN  /\ Len(took) <= complete
        /\ \A i \in DOMAIN took : took[i] = sent[i].msg

\* With one receiver the broadcast buffer implements the channel: accepting a
\* message reserves its place, the store of the tail completes it.  (With more
\* than one it does not: all of them store the one head, and the slower is
\* handed what the transmitter is already writing over.)
Channel == INSTANCE MessageChannel WITH
  Msgs <- {View(m) : m \in Messages},
  sent <- [i \in DOMAIN sent |-> sent[i].msg],
  complete <- 1 .. complete,
  received <- FirstTime(CHOOSE r \in Receivers : TRUE)

ImplementsChannel == Channel!Spec
=============================================================================
