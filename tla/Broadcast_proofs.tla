-------------------------- MODULE Broadcast_proofs --------------------------
(***************************************************************************)
(* The broadcast buffer for every capacity and messages of any lengths:    *)
(* its types, with any number of receivers; and with one receiver, that it *)
(* hands out again what it handed out, refuses only what would overrun the *)
(* receiver, and implements the channel.                                   *)
(*                                                                         *)
(* With more receivers that does not hold: all of them store the one head, *)
(* and the slowest is overrun.                                             *)
(***************************************************************************)
EXTENDS Broadcast, FiniteSetTheorems, NaturalsInduction, TLAPS

\* What the types need besides: only of a message that is being transmitted no tail
\* has been published.
Accepted ==
  IF transmitter.pc = "idle"
  THEN complete = Len(sent)
  ELSE complete + 1 = Len(sent) /\ transmitter.msg \in Messages

TypesInv == TypeOK /\ Accepted

\* One client.
OneReceiver == \E r : Receivers = {r}
R == CHOOSE r \in Receivers : TRUE

\* Where the k-th record begins, and how long its body is.
Rec(k) == sent[k].at
BodyWords(k) == sent[k].msg.words

\* Where the first k records end, and the next begins.
Bound(k) == IF k = 0 THEN 0 ELSE Rec(k) + BodyWords(k) + MSG_HEADER_LENGTH + LENGTH_WORD

\* Each record begins where the last ends, or behind padding at the buffer's start, and
\* does not wrap round.
SentInv ==
  /\ \A k \in 1 .. Len(sent) :
       /\ BodyWords(k) \in Nat
       /\ Rec(k) \in {Bound(k - 1), Bound(k - 1) + ToBufferEnd(Bound(k - 1))}
       /\ Index(Rec(k)) + BodyWords(k) + MSG_HEADER_LENGTH + LENGTH_WORD <= Capacity
  /\ \A i, j \in 0 .. Len(sent) : i < j => Bound(i) <= Rec(j) /\ Rec(j) < Bound(j)

\* The words of the k-th record, and of the padding in front of it.
PaddingPut(words, k) ==
  Rec(k) # Bound(k - 1) => words[Index(Bound(k - 1))] = - ToBufferEnd(Bound(k - 1))

BodyPut(words, k) ==
  /\ words[Index(Rec(k)) + 1] = sent[k].msg.type
  /\ \A j \in MSG_HEADER_LENGTH .. BodyWords(k) + MSG_HEADER_LENGTH - 1 :
       sent[k].msg.content = {words[Index(Rec(k)) + j]}
  /\ BodyWords(k) = 0 => sent[k].msg.content = {}

LengthPut(words, k) == words[Index(Rec(k))] = BodyWords(k) + MSG_HEADER_LENGTH

RecordPut(words, k) == PaddingPut(words, k) /\ BodyPut(words, k) /\ LengthPut(words, k)

\* What the transmitter has written, of a record for which there is room.
TransmitterInv ==
  /\ tail = Bound(complete)
  /\ Bound(Len(sent)) <= head + Capacity
  /\ transmitter.pc # "idle" =>
       sent[complete + 1] = [at |-> transmitter.at, msg |-> View(transmitter.msg)]
  /\ transmitter.pc = "padding" => transmitter.at # tail
  /\ transmitter.pc \in {"record", "length", "tail"} => PaddingPut(data, complete + 1)
  /\ transmitter.pc \in {"length", "tail"} => BodyPut(data, complete + 1)
  /\ transmitter.pc = "tail" => LengthPut(data, complete + 1)

\* What the head has not released is in the buffer.
DataInv == \A k \in 1 .. complete : head <= Bound(k - 1) => RecordPut(data, k)

\* The head has released h records; the receiver has passed k of the t that it saw a
\* tail of.
ReaderInv(h, k, t) ==
  /\ h <= k /\ k <= t /\ t <= complete
  /\ head = Bound(h)
  /\ position[R] = head
  /\ reader[R].pc # "idle" => reader[R].tail = Bound(t) /\ (reader[R].count = 0 => k = h)
  /\ reader[R].pc = "loop" => reader[R].next = Bound(k) \/ (k < t /\ reader[R].next = Rec(k + 1))
  /\ reader[R].pc = "handle" =>
       k < t /\ reader[R].next = Rec(k + 1) /\ reader[R].length = BodyWords(k + 1) + MSG_HEADER_LENGTH
  /\ reader[R].pc = "store" => k = t /\ reader[R].next = Bound(t)

\* The handler has taken the first n records, and nothing else.
HandledInv(k, n) ==
  /\ k <= n /\ n <= complete
  /\ \A i \in 1 .. Len(handled[R]) : \E j \in 1 .. n : handled[R][i] = sent[j]
  /\ \A j \in 1 .. n : \E i \in FirstTimes(R) : handled[R][i] = sent[j]

RecordsInv(h, k, t, n) ==
  SentInv /\ TransmitterInv /\ DataInv /\ ReaderInv(h, k, t) /\ HandledInv(k, n)
IInv == TypesInv /\ \E h, k, t, n \in Nat : RecordsInv(h, k, t, n)

-----------------------------------------------------------------------------
(* Division, and indices.                                                   *)

\* An index is one of a word.
LEMMA IndexType ==
  ASSUME NEW pos \in Int
  PROVE  /\ Index(pos) \in Words
         /\ Index(pos) \in 0 .. Capacity - 1
         /\ ToBufferEnd(pos) \in 1 .. Capacity
  BY CapacityAssumption DEF Index, ToBufferEnd, Words

\* How far it is to the end of the buffer.
LEMMA BufferEndType ==
  ASSUME NEW pos \in Int
  PROVE  ToBufferEnd(pos) \in Nat
<1>1. ToBufferEnd(pos) \in 1 .. Capacity
  BY IndexType
<1> QED BY <1>1, CapacityAssumption

\* A multiple is not less than what is multiplied.
LEMMA MultipleApart ==
  ASSUME NEW m \in Nat \ {0}, NEW d \in Int, d > 0
  PROVE  d * m >= m
<1> DEFINE e == d - 1
<1>1. e \in Nat /\ d = e + 1
  OBVIOUS
<1> HIDE DEF e
<1>2. e * m >= 0
  BY <1>1
<1>3. (e + 1) * m = e * m + m
  BY <1>1
<1> QED BY <1>1, <1>2, <1>3

\* Quotient and remainder.
LEMMA DivisionParts ==
  ASSUME NEW m \in Nat \ {0}, NEW x \in Int
  PROVE  /\ x \div m \in Int /\ x % m \in 0 .. m - 1
         /\ x = (x \div m) * m + (x % m)
<1>1. x \div m \in Int /\ x % m \in 0 .. m - 1
  OBVIOUS
<1>2. x = m * (x \div m) + (x % m)
  OBVIOUS
<1> QED BY <1>1, <1>2

\* The remainder is the only number below the divisor that leaves a multiple.
LEMMA Remainder ==
  ASSUME NEW m \in Nat \ {0}, NEW a \in Int, NEW r \in 0 .. m - 1
  PROVE  (a * m + r) % m = r
<1> DEFINE x == a * m + r
           q == x \div m
           s == x % m
<1>1. x \in Int
  OBVIOUS
<1>2. q \in Int /\ s \in 0 .. m - 1 /\ x = q * m + s
  BY <1>1, DivisionParts
<1> DEFINE A == a * m
           Q == q * m
<1>3. A + r = Q + s /\ A \in Int /\ Q \in Int
  BY <1>2
<1>4. a > q => A - Q >= m
  <2>1. SUFFICES ASSUME a > q PROVE A - Q >= m
    OBVIOUS
  <2>2. (a - q) * m >= m
    BY <1>2, <2>1, MultipleApart
  <2> QED BY <1>2, <2>2
<1>5. a < q => Q - A >= m
  <2>1. SUFFICES ASSUME a < q PROVE Q - A >= m
    OBVIOUS
  <2>2. (q - a) * m >= m
    BY <1>2, <2>1, MultipleApart
  <2> QED BY <1>2, <2>2
<1>6. s = r
  <2> HIDE DEF x, q, s, A, Q
  <2>1. a = q
    BY <1>2, <1>3, <1>4, <1>5
  <2>2. A = Q
    BY <2>1 DEF A, Q
  <2> QED BY <1>2, <1>3, <2>2
<1> QED BY <1>6

\* Two positions less than the buffer's length apart have different indices.
LEMMA IndexApart ==
  ASSUME NEW x \in Nat, NEW y \in Nat, x <= y, y < x + Capacity, Index(x) = Index(y)
  PROVE  x = y
<1> DEFINE a == x \div Capacity
           b == y \div Capacity
           r == x % Capacity
           A == a * Capacity
           B == b * Capacity
<1>1. /\ a \in Int /\ b \in Int /\ r \in 0 .. Capacity - 1
      /\ x = A + r /\ y = B + r
  BY DivisionParts, CapacityAssumption DEF Index
<1> HIDE DEF a, b, r
<1>2. A \in Int /\ B \in Int
  BY <1>1, CapacityAssumption
<1>3. (b - a) * Capacity = B - A
  BY <1>1, CapacityAssumption
<1>4. b > a => B - A >= Capacity
  BY <1>1, <1>3, MultipleApart, CapacityAssumption
<1>5. a > b => A - B >= Capacity
  <2>1. (a - b) * Capacity = A - B
    BY <1>1, CapacityAssumption
  <2> QED BY <1>1, <2>1, MultipleApart, CapacityAssumption
<1>6. a = b
  <2> HIDE DEF A, B
  <2> QED BY <1>1, <1>2, <1>4, <1>5, CapacityAssumption
<1>7. A = B
  BY <1>6
<1> HIDE DEF A, B
<1> QED BY <1>1, <1>2, <1>7

\* The index counts with the position up to the end of the buffer, and begins at 0
\* again there.
LEMMA IndexAhead ==
  ASSUME NEW x \in Nat, NEW j \in Nat, Index(x) + j <= Capacity
  PROVE  Index(x + j) = IF Index(x) + j = Capacity THEN 0 ELSE Index(x) + j
<1> DEFINE a == x \div Capacity
           r == x % Capacity
           A == a * Capacity
<1>1. a \in Int /\ r \in 0 .. Capacity - 1 /\ x = A + r /\ r = Index(x)
  BY DivisionParts, CapacityAssumption DEF Index
<1> HIDE DEF a, r
<1>2. A \in Int
  BY <1>1, CapacityAssumption
<1>3. (a + 1) * Capacity = A + Capacity
  BY <1>1, CapacityAssumption
<1> HIDE DEF A
<1>4. CASE r + j < Capacity
  <2>1. r + j \in 0 .. Capacity - 1
    BY <1>1, <1>4, CapacityAssumption
  <2>2. (a * Capacity + (r + j)) % Capacity = r + j
    BY <1>1, <2>1, Remainder, CapacityAssumption
  <2>3. (A + (r + j)) % Capacity = r + j
    BY <2>2 DEF A
  <2>4. A + (r + j) = x + j
    BY <1>1, <1>2
  <2> QED BY <1>1, <1>4, <2>3, <2>4 DEF Index
<1>5. CASE r + j = Capacity
  <2>1. a + 1 \in Int /\ 0 \in 0 .. Capacity - 1
    BY <1>1, CapacityAssumption
  <2>2. ((a + 1) * Capacity + 0) % Capacity = 0
    BY <2>1, Remainder, CapacityAssumption
  <2>3. (a + 1) * Capacity + 0 = x + j
    <3> DEFINE B == (a + 1) * Capacity
    <3>1. B = A + Capacity
      BY <1>3
    <3> HIDE DEF B
    <3>2. B + 0 = x + j
      BY <1>1, <1>2, <1>5, <3>1, CapacityAssumption
    <3> QED BY <3>2 DEF B
  <2> QED BY <1>1, <1>5, <2>2, <2>3 DEF Index
<1>6. r + j < Capacity \/ r + j = Capacity
  BY <1>1, CapacityAssumption
<1> QED BY <1>4, <1>5, <1>6

-----------------------------------------------------------------------------
(* The types, with any number of receivers.                                 *)

LocalState == [pc : {"idle", "loop", "handle", "store"}, tail : Nat, next : Nat,
               length : 0 .. Capacity, count : Nat]
TransmitterState == [pc : {"idle", "padding", "record", "length", "tail"},
                     msg : Messages \cup {NoMessage}, at : Nat]

\* Every message has a length and contents, and what is seen of it too.
LEMMA MessageFacts ==
  ASSUME NEW m \in Messages \cup {NoMessage}
  PROVE  /\ m.words \in Nat /\ m.type \in Int /\ m.fill \in Int
         /\ RecordLength(m) \in Nat /\ RecordLength(m) = m.words + 2
         /\ RequiredCapacity(m) \in Nat /\ RequiredCapacity(m) = m.words + 3
         /\ View(m) \in SeenMessage /\ View(m).words = m.words /\ View(m).type = m.type
         /\ View(m).content = IF m.words = 0 THEN {} ELSE {m.fill}
<1>1. m.words \in Nat /\ m.type \in Int /\ m.fill \in Int
  BY MessageAssumption DEF NoMessage
<1> QED
  BY <1>1 DEF RecordLength, RequiredCapacity, MSG_HEADER_LENGTH, LENGTH_WORD, View, SeenMessage

\* The steps of transmit() keep the types.
LEMMA TransmitTypes ==
  ASSUME TypesInv, (\E m \in Messages : Transmit(m)) \/ TransmitStep
  PROVE  TypesInv'
<1>1. /\ head \in Nat /\ tail \in Nat /\ data \in [Words -> Int]
      /\ transmitter \in TransmitterState
      /\ sent \in Seq([at : Nat, msg : SeenMessage]) /\ complete \in 0 .. Len(sent)
  BY DEF TypesInv, TypeOK, TransmitterState
<1>2. CASE \E m \in Messages : Transmit(m)
  <2>1. PICK m \in Messages : Transmit(m)
    BY <1>2
  <2>2. Padding(m, tail) \in Nat /\ tail + Padding(m, tail) \in Nat
    <3>1. tail \in Int
      BY <1>1
    <3>2. ToBufferEnd(tail) \in Nat
      BY <3>1, BufferEndType
    <3>3. Padding(m, tail) \in Nat
      BY <3>2 DEF Padding
    <3> QED BY <1>1, <3>3
  <2>3. View(m) \in SeenMessage
    BY MessageFacts
  <2>4. transmitter' \in TransmitterState /\ transmitter'.pc # "idle" /\ transmitter'.msg = m
    BY <2>1, <2>2 DEF Transmit, TransmitterState
  <2>5. PICK e : e = [at |-> tail + Padding(m, tail), msg |-> View(m)]
    OBVIOUS
  <2>6. e \in [at : Nat, msg : SeenMessage] /\ sent' = Append(sent, e)
    BY <2>1, <2>2, <2>3, <2>5 DEF Transmit
  <2>7. sent' \in Seq([at : Nat, msg : SeenMessage]) /\ Len(sent') = Len(sent) + 1
    BY <1>1, <2>6
  <2>8. complete' \in 0 .. Len(sent')
    BY <1>1, <2>1, <2>7 DEF Transmit
  <2>9. complete + 1 = Len(sent')
    BY <1>1, <2>1, <2>7 DEF Transmit, TypesInv, Accepted
  <2> QED BY <2>1, <2>4, <2>7, <2>8, <2>9
        DEF Transmit, TypesInv, TypeOK, Accepted, TransmitterState, buffer
<1>3. CASE PutPadding \/ PutTypeAndBody \/ PutLength
  <2>1. transmitter.msg \in Messages
    BY <1>3 DEF PutPadding, PutTypeAndBody, PutLength, TypesInv, Accepted
  <2>2. RecordLength(transmitter.msg) \in Int /\ transmitter.msg.type \in Int
        /\ transmitter.msg.fill \in Int
    <3>1. PICK m \in Messages : m = transmitter.msg
      BY <2>1
    <3>2. RecordLength(m) \in Nat /\ m.type \in Int /\ m.fill \in Int
      BY MessageFacts
    <3> QED BY <3>1, <3>2
  <2>3. - ToBufferEnd(tail) \in Int
    <3>1. tail \in Int
      BY <1>1
    <3>2. ToBufferEnd(tail) \in Nat
      BY <3>1, BufferEndType
    <3> QED BY <3>2
  <2>4. data' \in [Words -> Int]
    BY <1>1, <1>3, <2>2, <2>3 DEF PutPadding, PutTypeAndBody, PutLength
  <2>5. transmitter' \in TransmitterState /\ transmitter'.msg = transmitter.msg
    BY <1>1, <1>3 DEF PutPadding, PutTypeAndBody, PutLength, TransmitterState
  <2>6. complete + 1 = Len(sent)
    BY <1>3 DEF PutPadding, PutTypeAndBody, PutLength, TypesInv, Accepted
  <2> QED BY <1>3, <2>1, <2>4, <2>5, <2>6
        DEF PutPadding, PutTypeAndBody, PutLength, TypesInv, TypeOK, Accepted,
            TransmitterState, history
<1>4. CASE PublishTail
  <2>1. transmitter.msg \in Messages /\ complete + 1 = Len(sent)
    BY <1>4 DEF PublishTail, TypesInv, Accepted
  <2>2. tail' \in Nat
    <3>1. PICK m \in Messages : m = transmitter.msg
      BY <2>1
    <3>2. RequiredCapacity(m) \in Nat /\ transmitter.at \in Nat
      BY <1>1, MessageFacts DEF TransmitterState
    <3> QED BY <1>4, <3>1, <3>2 DEF PublishTail
  <2>3. complete' \in 0 .. Len(sent')
    BY <1>1, <1>4, <2>1 DEF PublishTail
  <2>4. transmitter' \in TransmitterState /\ transmitter'.pc = "idle"
    BY <1>4 DEF PublishTail, NotTransmitting, TransmitterState
  <2> QED BY <1>4, <2>2, <2>3, <2>4
        DEF PublishTail, TypesInv, TypeOK, Accepted, TransmitterState
<1> QED BY <1>2, <1>3, <1>4 DEF TransmitStep

\* The steps of receive() keep the types, and change nothing of the transmitter's.
LEMMA ReceiveTypes ==
  ASSUME TypesInv, NEW r \in Receivers, ReceiveStep(r) \/ HandlerThrows(r)
  PROVE  TypesInv'
<1>1. /\ head \in Nat /\ tail \in Nat /\ data \in [Words -> Int]
      /\ position \in [Receivers -> Nat] /\ reader \in [Receivers -> LocalState]
      /\ handled \in [Receivers -> Seq([at : Nat, msg : SeenMessage])] /\ throws \in Nat
  BY DEF TypesInv, TypeOK, LocalState
<1>2. PICK local \in LocalState : local = reader[r]
  BY <1>1
<1>3. /\ local.tail \in Nat /\ local.next \in Nat /\ local.length \in 0 .. Capacity
      /\ local.length \in Nat /\ local.count \in Nat /\ position[r] \in Nat
  BY <1>1, CapacityAssumption DEF LocalState
<1>4. NotReceiving \in LocalState /\ Capacity \in Nat
  BY CapacityAssumption DEF NotReceiving, LocalState
<1>5. /\ UNCHANGED << tail, data, transmitter, sent, complete >>
      /\ \E l \in LocalState : reader' = [reader EXCEPT ![r] = l]
      /\ head' \in Nat /\ position' \in [Receivers -> Nat] /\ throws' \in Nat
      /\ handled' \in [Receivers -> Seq([at : Nat, msg : SeenMessage])]
  <2>1. CASE Receive(r)
    <3>1. PICK next : next = IF tail - position[r] > Capacity THEN tail - Capacity ELSE position[r]
      OBVIOUS
    <3>2. next \in Nat
      BY <1>1, <1>3, <1>4, <3>1
    <3>3. [NotReceiving EXCEPT !.pc = "loop", !.tail = tail, !.next = next] \in LocalState
      BY <1>1, <1>4, <3>2 DEF LocalState
    <3> QED BY <1>1, <2>1, <3>1, <3>3 DEF Receive, buffer, history
  <2>2. CASE EndOfRecords(r)
    <3>1. [local EXCEPT !.pc = "store"] \in LocalState
      BY DEF LocalState
    <3>2. reader' = [reader EXCEPT ![r] = [local EXCEPT !.pc = "store"]]
      BY <1>2, <2>2 DEF EndOfRecords
    <3> QED BY <1>1, <2>2, <3>1, <3>2 DEF EndOfRecords, buffer, history
  <2>3. CASE LoadLength(r)
    <3>1. local.next + ToBufferEnd(local.next) \in Nat
      <4>1. ToBufferEnd(local.next) \in Nat
        BY <1>3, BufferEndType
      <4> QED BY <1>3, <4>1
    <3>2. [local EXCEPT !.pc = "store"] \in LocalState
      BY DEF LocalState
    <3>3. [local EXCEPT !.next = local.next + ToBufferEnd(local.next)] \in LocalState
      BY <3>1 DEF LocalState
    <3>4. ASSUME NEW length \in 1 .. Capacity
          PROVE  [local EXCEPT !.pc = "handle", !.length = length] \in LocalState
      <4>1. length \in 0 .. Capacity
        BY CapacityAssumption
      <4> QED BY <4>1 DEF LocalState
    <3>5. PICK length : length = data[NextIndex(r)]
      OBVIOUS
    <3>6. reader' = [reader EXCEPT ![r] =
            CASE length = 0 -> [local EXCEPT !.pc = "store"]
              [] length < 0 -> [local EXCEPT !.next = local.next + ToBufferEnd(local.next)]
              [] length \in 1 .. Capacity -> [local EXCEPT !.pc = "handle", !.length = length]
              [] OTHER -> NotReceiving]
      BY <1>2, <2>3, <3>5 DEF LoadLength
    <3>7. NextIndex(r) \in Words
      BY <1>2, <1>3, IndexType DEF NextIndex
    <3>8. length \in Int
      BY <1>1, <3>5, <3>7
    <3>9. PICK l : l =
            CASE length = 0 -> [local EXCEPT !.pc = "store"]
              [] length < 0 -> [local EXCEPT !.next = local.next + ToBufferEnd(local.next)]
              [] length \in 1 .. Capacity -> [local EXCEPT !.pc = "handle", !.length = length]
              [] OTHER -> NotReceiving
      OBVIOUS
    <3>10. \/ length = 0 /\ l = [local EXCEPT !.pc = "store"]
           \/ l = [local EXCEPT !.next = local.next + ToBufferEnd(local.next)]
           \/ length \in 1 .. Capacity /\ l = [local EXCEPT !.pc = "handle", !.length = length]
           \/ l = NotReceiving
      <4>1. \/ length = 0 /\ ~ (length < 0) /\ ~ (length \in 1 .. Capacity)
            \/ length < 0 /\ length # 0 /\ ~ (length \in 1 .. Capacity)
            \/ length \in 1 .. Capacity /\ length # 0 /\ ~ (length < 0)
            \/ length # 0 /\ ~ (length < 0) /\ ~ (length \in 1 .. Capacity)
        BY <1>4, <3>8
      <4> QED BY <3>9, <4>1
    <3>11. l \in LocalState
      BY <1>4, <3>2, <3>3, <3>4, <3>10
    <3>12. reader' = [reader EXCEPT ![r] = l]
      BY <3>6, <3>9
    <3> QED BY <1>1, <2>3, <3>11, <3>12 DEF LoadLength, buffer, history
  <2>4. CASE Handle(r)
    <3>1. local.next + local.length + LENGTH_WORD \in Nat /\ local.count + 1 \in Nat
      BY <1>3 DEF LENGTH_WORD
    <3>2. PICK after : after = local.next + local.length + LENGTH_WORD
      OBVIOUS
    <3>3. [local EXCEPT !.pc = "loop", !.next = after, !.length = 0, !.count = local.count + 1]
            \in LocalState
      <4>1. 0 \in 0 .. Capacity /\ after \in Nat
        BY <1>4, <3>1, <3>2
      <4> QED BY <3>1, <4>1 DEF LocalState
    <3>4. reader' = [reader EXCEPT ![r] =
            [local EXCEPT !.pc = "loop", !.next = after, !.length = 0, !.count = local.count + 1]]
      BY <1>2, <2>4, <3>2 DEF Handle
    <3>5. PICK e : e = [at |-> local.next, msg |-> RecordRead(r)]
      OBVIOUS
    <3>6. RecordRead(r) \in SeenMessage
      <4>1. (NextIndex(r) + 1) % Capacity \in Words
        <5>1. NextIndex(r) + 1 \in Int
          BY <1>2, <1>3, IndexType, CapacityAssumption DEF NextIndex
        <5> QED BY <5>1, IndexType DEF Index
      <4>2. \A S : {data[w] : w \in Words \cap S} \in SUBSET Int
        BY <1>1
      <4>3. data[(NextIndex(r) + 1) % Capacity] \in Int
        BY <1>1, <4>1
      <4>4. reader[r].length - MSG_HEADER_LENGTH \in Int
        BY <1>2, <1>3 DEF MSG_HEADER_LENGTH
      <4> QED BY <4>2, <4>3, <4>4 DEF RecordRead, SeenMessage
    <3>7. e \in [at : Nat, msg : SeenMessage]
      BY <1>3, <3>5, <3>6
    <3>8. handled' = [handled EXCEPT ![r] = Append(handled[r], e)]
      BY <1>2, <2>4, <3>5 DEF Handle
    <3>9. Append(handled[r], e) \in Seq([at : Nat, msg : SeenMessage])
      <4>1. PICK S : S = [at : Nat, msg : SeenMessage]
        OBVIOUS
      <4>2. PICK old : old = handled[r]
        OBVIOUS
      <4>3. old \in Seq(S) /\ e \in S
        BY <1>1, <3>7, <4>1, <4>2
      <4>4. Append(old, e) \in Seq(S)
        BY <4>3
      <4> QED BY <4>1, <4>2, <4>4
    <3>10. handled' \in [Receivers -> Seq([at : Nat, msg : SeenMessage])]
      BY <1>1, <3>8, <3>9
    <3> QED BY <1>1, <2>4, <3>3, <3>4, <3>10 DEF Handle, buffer
  <2>5. CASE HandlerThrows(r)
    <3>1. /\ reader' = [reader EXCEPT ![r] = NotReceiving] /\ throws' = throws + 1
          /\ UNCHANGED << head, tail, data, transmitter, position, sent, complete, handled >>
      BY <2>5 DEF HandlerThrows, buffer, history
    <3>2. throws' \in Nat
      BY <1>1, <3>1
    <3> QED BY <1>1, <1>4, <3>1, <3>2
  <2>6. CASE StorePosition(r)
    BY <1>1, <1>2, <1>3, <1>4, <2>6 DEF StorePosition, history
  <2> QED BY <2>1, <2>2, <2>3, <2>4, <2>5, <2>6 DEF ReceiveStep
<1>6. reader' \in [Receivers -> LocalState]
  BY <1>1, <1>5
<1> QED BY <1>5, <1>6 DEF TypesInv, TypeOK, Accepted, LocalState

\* The types hold, whatever the clients do.
LEMMA TypesStep ==
  ASSUME TypesInv, [Next]_vars
  PROVE  TypesInv'
<1>1. CASE UNCHANGED vars
  BY <1>1 DEF TypesInv, TypeOK, Accepted, vars, buffer, history
<1> QED BY <1>1, TransmitTypes, ReceiveTypes DEF Next

\* They hold of the buffer that has been created.
LEMMA TypesInit ==
  ASSUME Init
  PROVE  TypesInv
<1>1. data \in [Words -> Int]
  BY DEF Init
<1>2. transmitter \in TransmitterState /\ transmitter.pc = "idle"
  BY DEF Init, NotTransmitting, TransmitterState
<1>3. reader \in [Receivers -> LocalState]
  BY CapacityAssumption DEF Init, NotReceiving, LocalState
<1>4. sent \in Seq([at : Nat, msg : SeenMessage]) /\ complete \in 0 .. Len(sent)
  BY DEF Init
<1>5. handled \in [Receivers -> Seq([at : Nat, msg : SeenMessage])]
  BY DEF Init
<1>6. head \in Nat /\ tail \in Nat /\ position \in [Receivers -> Nat] /\ throws \in Nat
  BY DEF Init
<1>7. Accepted
  <2>1. transmitter.pc = "idle" /\ complete = 0 /\ Len(sent) = 0
    BY DEF Init, NotTransmitting
  <2> QED BY <2>1 DEF Accepted
<1> QED BY <1>1, <1>2, <1>3, <1>4, <1>5, <1>6, <1>7
      DEF TypesInv, TypeOK, TransmitterState, LocalState

\* The types of the transmitter's, the receivers' and the buffer's state.
THEOREM TypeCorrect == Spec => []TypeOK
<1>1. TypesInv => TypeOK
  BY DEF TypesInv
<1> QED BY <1>1, TypesInit, TypesStep, PTL DEF Spec

-----------------------------------------------------------------------------
(* Where the records are.                                                   *)

\* What SentInv says of one record.
LEMMA RecordFacts ==
  ASSUME TypesInv, SentInv, NEW k \in 1 .. Len(sent)
  PROVE  /\ k \in Nat /\ k - 1 \in Nat /\ k - 1 \in 0 .. Len(sent) /\ k \in 0 .. Len(sent)
         /\ Rec(k) \in Nat /\ BodyWords(k) \in Nat /\ Bound(k) \in Nat /\ Bound(k - 1) \in Nat
         /\ Bound(k) = Rec(k) + BodyWords(k) + 3
         /\ Bound(k - 1) <= Rec(k) /\ Rec(k) < Bound(k)
         /\ Rec(k) = Bound(k - 1) \/ Rec(k) = Bound(k - 1) + ToBufferEnd(Bound(k - 1))
         /\ Index(Rec(k)) \in Nat /\ Index(Rec(k)) + BodyWords(k) + 3 <= Capacity
         /\ sent[k] \in [at : Nat, msg : SeenMessage]
<1>1. k \in Nat /\ k # 0 /\ k - 1 \in Nat /\ k - 1 \in 0 .. Len(sent) /\ k \in 0 .. Len(sent)
  OBVIOUS
<1>2. ASSUME NEW i \in 1 .. Len(sent)
      PROVE  Rec(i) \in Nat /\ BodyWords(i) \in Nat /\ sent[i] \in [at : Nat, msg : SeenMessage]
  <2>1. sent[i] \in [at : Nat, msg : SeenMessage]
    <3>1. PICK S : S = [at : Nat, msg : SeenMessage]
      OBVIOUS
    <3>2. sent \in Seq(S)
      BY <3>1 DEF TypesInv, TypeOK
    <3>3. sent[i] \in S
      BY <3>2
    <3> QED BY <3>1, <3>3
  <2> QED BY <2>1 DEF SentInv, Rec
<1>3. ASSUME NEW i \in 1 .. Len(sent)
      PROVE  Bound(i) = Rec(i) + BodyWords(i) + 3 /\ Bound(i) \in Nat
  BY <1>2, <1>3 DEF Bound, MSG_HEADER_LENGTH, LENGTH_WORD
<1>4. Bound(k - 1) \in Nat
  <2>1. CASE k = 1
    BY <2>1 DEF Bound
  <2>2. CASE k # 1
    <3>1. k - 1 \in 1 .. Len(sent)
      BY <2>2
    <3> QED BY <1>3, <3>1
  <2> QED BY <2>1, <2>2
<1>5. Bound(k - 1) <= Rec(k) /\ Rec(k) < Bound(k)
  <2>1. k - 1 < k
    OBVIOUS
  <2> QED BY <1>1, <2>1 DEF SentInv
<1>6. Index(Rec(k)) \in Nat
  <2>1. Rec(k) \in Int
    BY <1>2
  <2>2. Index(Rec(k)) \in 0 .. Capacity - 1
    BY <2>1, IndexType
  <2> QED BY <2>2, CapacityAssumption
<1>7. Index(Rec(k)) + BodyWords(k) + 3 <= Capacity
  <2>1. Index(Rec(k)) + BodyWords(k) + MSG_HEADER_LENGTH + LENGTH_WORD <= Capacity
    BY DEF SentInv
  <2> QED BY <1>2, <1>6, <2>1, CapacityAssumption DEF MSG_HEADER_LENGTH, LENGTH_WORD
<1>8. Rec(k) = Bound(k - 1) \/ Rec(k) = Bound(k - 1) + ToBufferEnd(Bound(k - 1))
  BY DEF SentInv
<1> QED BY <1>1, <1>2, <1>3, <1>4, <1>5, <1>6, <1>7, <1>8

\* The bounds are in order, and no two are equal.
LEMMA BoundsOrder ==
  ASSUME TypesInv, SentInv, NEW i \in 0 .. Len(sent), NEW j \in 0 .. Len(sent)
  PROVE  /\ Bound(i) \in Nat
         /\ i < j => Bound(i) < Bound(j)
         /\ i <= j => Bound(i) <= Bound(j)
         /\ Bound(i) < Bound(j) => i < j
         /\ Bound(i) = Bound(j) => i = j
<1>1. ASSUME NEW a \in 0 .. Len(sent) PROVE Bound(a) \in Nat
  <2>1. CASE a = 0
    BY <2>1 DEF Bound
  <2>2. CASE a # 0
    <3>1. a \in 1 .. Len(sent)
      BY <2>2
    <3> QED BY <3>1, RecordFacts
  <2> QED BY <2>1, <2>2
<1>2. ASSUME NEW a \in 0 .. Len(sent), NEW b \in 0 .. Len(sent), a < b
      PROVE  Bound(a) < Bound(b)
  <2>1. b \in 1 .. Len(sent)
    BY <1>2
  <2>2. Rec(b) \in Nat
    BY <2>1, RecordFacts
  <2>3. Bound(a) <= Rec(b) /\ Rec(b) < Bound(b)
    BY <1>2 DEF SentInv
  <2> QED BY <1>1, <2>2, <2>3
<1>3. Bound(i) \in Nat /\ Bound(j) \in Nat /\ (i < j => Bound(i) < Bound(j)) /\ (j < i => Bound(j) < Bound(i))
  BY <1>1, <1>2
<1>4. i < j \/ i = j \/ j < i
  OBVIOUS
<1> QED BY <1>3, <1>4

\* No two records begin at one position.
LEMMA RecordsApart ==
  ASSUME TypesInv, SentInv, NEW i \in 1 .. Len(sent), NEW j \in 1 .. Len(sent)
  PROVE  /\ i < j => Rec(i) < Rec(j)
         /\ Rec(i) = Rec(j) => i = j
<1>1. ASSUME NEW a \in 1 .. Len(sent), NEW b \in 1 .. Len(sent), a < b PROVE Rec(a) < Rec(b)
  <2>1. Rec(a) \in Nat /\ Rec(b) \in Nat /\ Bound(a) \in Nat /\ Rec(a) < Bound(a)
    BY RecordFacts
  <2>2. Bound(a) <= Rec(b)
    <3>1. a \in 0 .. Len(sent) /\ b \in 0 .. Len(sent)
      OBVIOUS
    <3> QED BY <1>1, <3>1 DEF SentInv
  <2> QED BY <2>1, <2>2
<1>2. Rec(i) \in Nat /\ Rec(j) \in Nat
  BY RecordFacts
<1>3. i < j \/ i = j \/ j < i
  OBVIOUS
<1> QED BY <1>1, <1>2, <1>3

\* The indices of a record's words.
LEMMA WordIndex ==
  ASSUME TypesInv, SentInv, NEW k \in 1 .. Len(sent), NEW j \in 0 .. BodyWords(k) + 2
  PROVE  /\ j \in Nat /\ Rec(k) + j \in Nat
         /\ Index(Rec(k) + j) = Index(Rec(k)) + j
         /\ Bound(k - 1) <= Rec(k) + j /\ Rec(k) + j < Bound(k)
<1>1. /\ Rec(k) \in Nat /\ BodyWords(k) \in Nat /\ Bound(k) \in Nat /\ Bound(k - 1) \in Nat
      /\ Bound(k) = Rec(k) + BodyWords(k) + 3 /\ Bound(k - 1) <= Rec(k)
      /\ Index(Rec(k)) \in Nat /\ Index(Rec(k)) + BodyWords(k) + 3 <= Capacity
  BY RecordFacts
<1>2. PICK r, b, i \in Nat : r = Rec(k) /\ b = BodyWords(k) /\ i = Index(r)
  BY <1>1
<1>3. /\ Capacity \in Nat /\ j \in Nat /\ j <= b + 2 /\ i + b + 3 <= Capacity
      /\ Bound(k) = r + b + 3 /\ Bound(k - 1) \in Nat /\ Bound(k - 1) <= r
  BY <1>1, <1>2, CapacityAssumption
<1>4. i + j <= Capacity /\ i + j # Capacity /\ r + j \in Nat
  BY <1>3
<1>5. Index(r + j) = i + j
  BY <1>2, <1>3, <1>4, IndexAhead
<1>6. Bound(k - 1) <= r + j /\ r + j < Bound(k)
  BY <1>3
<1> QED BY <1>2, <1>3, <1>4, <1>5, <1>6

\* Records and padding whose words are the same are put alike.
LEMMA PutAlike ==
  ASSUME TypesInv, SentInv, NEW k \in 1 .. Len(sent), NEW old, NEW new
  PROVE  /\ /\ new[Index(Bound(k - 1))] = old[Index(Bound(k - 1))]
            /\ PaddingPut(old, k)
            => PaddingPut(new, k)
         /\ /\ new[Index(Rec(k))] = old[Index(Rec(k))]
            /\ LengthPut(old, k)
            => LengthPut(new, k)
         /\ /\ \A j \in 1 .. BodyWords(k) + 1 : new[Index(Rec(k)) + j] = old[Index(Rec(k)) + j]
            /\ BodyPut(old, k)
            => BodyPut(new, k)
<1>1. ASSUME \A j \in 1 .. BodyWords(k) + 1 : new[Index(Rec(k)) + j] = old[Index(Rec(k)) + j],
             BodyPut(old, k)
      PROVE  BodyPut(new, k)
  <2>1. BodyWords(k) \in Nat
    BY RecordFacts
  <2>2. 1 \in 1 .. BodyWords(k) + 1
        /\ \A j \in 2 .. BodyWords(k) + 2 - 1 : j \in 1 .. BodyWords(k) + 1
    BY <2>1
  <2>3. new[Index(Rec(k)) + 1] = sent[k].msg.type
    BY <1>1, <2>2 DEF BodyPut
  <2>4. ASSUME NEW j \in 2 .. BodyWords(k) + 2 - 1
        PROVE  sent[k].msg.content = {new[Index(Rec(k)) + j]}
    BY <1>1, <2>2 DEF BodyPut, MSG_HEADER_LENGTH
  <2> QED BY <1>1, <2>3, <2>4 DEF BodyPut, MSG_HEADER_LENGTH
<1> QED BY <1>1 DEF PaddingPut, LengthPut

-----------------------------------------------------------------------------
(* transmit() of a receiver's messages.                                     *)

\* The records that are there stay where they are, and as they are.
LEMMA RecordsStay ==
  ASSUME NEW N \in Nat, \A i \in 1 .. N : sent'[i] = sent[i], NEW d, d = data'
  PROVE  /\ \A k \in 1 .. N : Rec(k)' = Rec(k) /\ BodyWords(k)' = BodyWords(k)
         /\ \A k \in 0 .. N : Bound(k)' = Bound(k)
         /\ \A k \in 1 .. N : /\ PaddingPut(data, k)' <=> PaddingPut(d, k)
                              /\ BodyPut(data, k)' <=> BodyPut(d, k)
                              /\ LengthPut(data, k)' <=> LengthPut(d, k)
                              /\ RecordPut(data, k)' <=> RecordPut(d, k)
<1>1. \A k \in 1 .. N : Rec(k)' = Rec(k) /\ BodyWords(k)' = BodyWords(k)
  BY DEF Rec, BodyWords
<1>2. \A k \in 0 .. N : Bound(k)' = Bound(k)
  <2>1. ASSUME NEW k \in 0 .. N PROVE Bound(k)' = Bound(k)
    <3>1. k = 0 \/ k \in 1 .. N
      OBVIOUS
    <3> QED BY <1>1, <3>1 DEF Bound
  <2> QED BY <2>1
<1>3. ASSUME NEW k \in 1 .. N
      PROVE  /\ PaddingPut(data, k)' <=> PaddingPut(d, k)
             /\ BodyPut(data, k)' <=> BodyPut(d, k)
             /\ LengthPut(data, k)' <=> LengthPut(d, k)
  <2>1. k - 1 \in 0 .. N
    OBVIOUS
  <2>2. /\ Rec(k)' = Rec(k) /\ BodyWords(k)' = BodyWords(k) /\ Bound(k - 1)' = Bound(k - 1)
        /\ sent'[k] = sent[k]
    BY <1>1, <1>2, <2>1
  <2>3. PaddingPut(data, k)' <=> PaddingPut(d, k)
    BY <2>2 DEF PaddingPut, Index, ToBufferEnd
  <2>4. BodyPut(data, k)' <=> BodyPut(d, k)
    BY <2>2 DEF BodyPut, Index
  <2>5. LengthPut(data, k)' <=> LengthPut(d, k)
    BY <2>2 DEF LengthPut, Index
  <2> QED BY <2>3, <2>4, <2>5
<1>4. \A k \in 1 .. N : RecordPut(data, k)' <=> RecordPut(d, k)
  BY <1>3 DEF RecordPut
<1> QED BY <1>1, <1>2, <1>3, <1>4

\* What the receiver knows does not change when another message is accepted or published.
LEMMA ReceiverStays ==
  ASSUME TypesInv, NEW h \in Nat, NEW k \in Nat, NEW t \in Nat, NEW n \in Nat,
         ReaderInv(h, k, t), HandledInv(k, n),
         \A i \in 1 .. Len(sent) : sent'[i] = sent[i],
         complete' \in Nat, complete <= complete',
         UNCHANGED << head, position, reader, handled >>
  PROVE  ReaderInv(h, k, t)' /\ HandledInv(k, n)'
<1>1. complete \in Nat /\ Len(sent) \in Nat /\ complete <= Len(sent)
  BY DEF TypesInv, TypeOK
<1>2. /\ h \in 0 .. Len(sent) /\ k \in 0 .. Len(sent) /\ t \in 0 .. Len(sent)
      /\ k < t => k + 1 \in 1 .. Len(sent)
      /\ t <= complete' /\ n <= complete'
      /\ \A j \in 1 .. n : j \in 1 .. Len(sent)
  BY <1>1 DEF ReaderInv, HandledInv
<1>3. /\ Bound(h)' = Bound(h) /\ Bound(k)' = Bound(k) /\ Bound(t)' = Bound(t)
      /\ k < t => Rec(k + 1)' = Rec(k + 1) /\ BodyWords(k + 1)' = BodyWords(k + 1)
  <2>1. PICK d : d = data'
    OBVIOUS
  <2> QED BY <1>1, <1>2, <2>1, RecordsStay
<1>4. ReaderInv(h, k, t)'
  BY <1>2, <1>3 DEF ReaderInv
<1>5. HandledInv(k, n)'
  <2>1. FirstTimes(R)' = FirstTimes(R)
    BY DEF FirstTimes
  <2> QED BY <1>2, <2>1 DEF HandledInv
<1> QED BY <1>4, <1>5

\* The words that the head has not released, and those in front of them that are being
\* written, are different words.
LEMMA Untouched ==
  ASSUME TypesInv, SentInv, TransmitterInv, NEW x \in Nat, NEW y \in Nat,
         head <= x, x < y, y < Bound(Len(sent))
  PROVE  Index(x) # Index(y)
<1>1. head \in Nat /\ Len(sent) \in 0 .. Len(sent)
  BY DEF TypesInv, TypeOK
<1>2. Bound(Len(sent)) \in Nat /\ Bound(Len(sent)) <= head + Capacity
  BY <1>1, BoundsOrder DEF TransmitterInv
<1>3. y < x + Capacity
  <2>1. Capacity \in Nat
    BY CapacityAssumption
  <2> QED BY <1>1, <1>2, <2>1
<1>4. SUFFICES ASSUME Index(x) = Index(y) PROVE FALSE
  OBVIOUS
<1>5. x <= y
  OBVIOUS
<1>6. x = y
  BY <1>3, <1>4, <1>5, IndexApart
<1> QED BY <1>6

\* Nothing else is written, so what the head has not released is still there.
LEMMA DataStays ==
  ASSUME TypesInv, SentInv, TransmitterInv, DataInv, NEW d,
         \A x \in Nat : head <= x /\ x < tail => d[Index(x)] = data[Index(x)]
  PROVE  \A k \in 1 .. complete : head <= Bound(k - 1) => RecordPut(d, k)
<1>1. head \in Nat /\ tail \in Nat /\ complete \in 0 .. Len(sent) /\ complete \in Nat
  BY DEF TypesInv, TypeOK
<1>2. SUFFICES ASSUME NEW k \in 1 .. complete, head <= Bound(k - 1) PROVE RecordPut(d, k)
  OBVIOUS
<1>3. k \in 1 .. Len(sent) /\ k \in 0 .. Len(sent) /\ k <= complete
  BY <1>1
<1>4. Bound(k) <= tail
  BY <1>1, <1>3, BoundsOrder DEF TransmitterInv
<1>5. /\ Rec(k) \in Nat /\ Bound(k) \in Nat /\ Bound(k - 1) \in Nat /\ BodyWords(k) \in Nat
      /\ Bound(k - 1) <= Rec(k) /\ Rec(k) < Bound(k)
  BY <1>3, RecordFacts
<1>6. d[Index(Bound(k - 1))] = data[Index(Bound(k - 1))]
  BY <1>1, <1>2, <1>4, <1>5
<1>7. d[Index(Rec(k))] = data[Index(Rec(k))]
  BY <1>1, <1>2, <1>4, <1>5
<1>8. ASSUME NEW j \in 1 .. BodyWords(k) + 1
      PROVE  d[Index(Rec(k)) + j] = data[Index(Rec(k)) + j]
  <2>1. j \in 0 .. BodyWords(k) + 2
    BY <1>5
  <2>2. /\ Rec(k) + j \in Nat /\ Index(Rec(k) + j) = Index(Rec(k)) + j
        /\ Bound(k - 1) <= Rec(k) + j /\ Rec(k) + j < Bound(k)
    BY <1>3, <2>1, WordIndex
  <2>3. PICK x \in Nat : x = Rec(k) + j
    BY <2>2
  <2>4. head <= x /\ x < tail
    BY <1>1, <1>2, <1>4, <1>5, <2>2, <2>3
  <2> QED BY <2>2, <2>3, <2>4
<1>9. RecordPut(data, k)
  BY <1>2 DEF DataInv
<1> QED BY <1>3, <1>6, <1>7, <1>8, <1>9, PutAlike DEF RecordPut

\* What was accepted is not behind the head.
LEMMA TailNotBehind ==
  ASSUME TypesInv, NEW h \in Nat, NEW k \in Nat, NEW t \in Nat, NEW n \in Nat,
         RecordsInv(h, k, t, n)
  PROVE  head <= tail
<1>1. complete \in 0 .. Len(sent) /\ complete \in Nat /\ Len(sent) \in Nat
  BY DEF TypesInv, TypeOK
<1>2. h \in 0 .. Len(sent) /\ h <= complete
  BY <1>1 DEF RecordsInv, ReaderInv
<1> QED BY <1>1, <1>2, BoundsOrder DEF RecordsInv, ReaderInv, TransmitterInv

\* A message is accepted: its record goes behind the others, and there is room for it.
LEMMA AcceptKeeps ==
  ASSUME TypesInv, NEW h \in Nat, NEW k \in Nat, NEW t \in Nat, NEW n \in Nat,
         RecordsInv(h, k, t, n), NEW m \in Messages, Transmit(m)
  PROVE  RecordsInv(h, k, t, n)'
<1> USE DEF RecordsInv
<1>1. PICK N \in Nat : N = Len(sent)
  BY DEF TypesInv, TypeOK
<1>2. /\ head \in Nat /\ tail \in Nat /\ complete = N /\ tail = Bound(N)
      /\ sent \in Seq([at : Nat, msg : SeenMessage])
  BY <1>1 DEF TypesInv, TypeOK, Accepted, TransmitterInv, Transmit
<1>3. PICK at : at = tail + Padding(m, tail)
  OBVIOUS
<1>4. PICK e : e = [at |-> at, msg |-> View(m)]
  OBVIOUS
<1>5. /\ sent' = Append(sent, e)
      /\ transmitter' = [pc |-> IF at = tail THEN "record" ELSE "padding", msg |-> m, at |-> at]
      /\ UNCHANGED << head, tail, data, position, reader, complete, handled >>
  BY <1>3, <1>4 DEF Transmit, buffer
<1>6. /\ m.words \in Nat /\ RequiredCapacity(m) = m.words + 3 /\ View(m).words = m.words
      /\ View(m) \in SeenMessage
  BY MessageFacts
<1>7. /\ ToBufferEnd(tail) \in Nat /\ ToBufferEnd(tail) # 0
      /\ ToBufferEnd(tail) = Capacity - Index(tail)
      /\ Index(tail) \in Nat /\ Index(tail) < Capacity /\ Capacity \in Nat
  <2>1. Index(tail) \in 0 .. Capacity - 1 /\ Capacity \in Nat /\ Capacity # 0
    BY <1>2, IndexType, CapacityAssumption
  <2>2. ToBufferEnd(tail) = Capacity - Index(tail)
    BY DEF ToBufferEnd
  <2> QED BY <2>1, <2>2
<1>8. \/ at = tail /\ m.words + 3 <= ToBufferEnd(tail)
      \/ at = tail + ToBufferEnd(tail) /\ ToBufferEnd(tail) < m.words + 3
  BY <1>2, <1>3, <1>6, <1>7 DEF Padding
<1>9. at \in Nat /\ at + m.words + 3 <= head + Capacity /\ at >= tail
  <2>1. Padding(m, tail) + (m.words + 3) <= Capacity - (tail - head)
    BY <1>6 DEF Transmit, Fits, Available
  <2>2. PICK p \in Nat : p = Padding(m, tail)
    BY <1>7 DEF Padding
  <2>3. p + (m.words + 3) <= Capacity - (tail - head) /\ at = tail + p
    BY <1>3, <2>1, <2>2
  <2>4. Capacity \in Nat /\ head \in Nat /\ tail \in Nat /\ m.words \in Nat
    BY <1>2, <1>6, <1>7
  <2> QED BY <2>3, <2>4
<1>10. Index(at) + m.words + 3 <= Capacity
  <2>1. CASE at = tail /\ m.words + 3 <= ToBufferEnd(tail)
    BY <1>6, <1>7, <2>1
  <2>2. CASE at = tail + ToBufferEnd(tail) /\ ToBufferEnd(tail) < m.words + 3
    <3>1. PICK b \in Nat : b = ToBufferEnd(tail)
      BY <1>7
    <3>2. Index(tail) + b = Capacity
      BY <1>7, <3>1
    <3>3. Index(tail + b) = 0
      <4>1. Index(tail) + b <= Capacity
        BY <1>7, <3>2
      <4> QED BY <1>2, <3>2, <4>1, IndexAhead
    <3>4. m.words + 3 <= Capacity
      <4>1. head <= tail
        BY TailNotBehind
      <4>2. PICK w \in Nat : w = m.words
        BY <1>6
      <4>3. at + w + 3 <= head + Capacity /\ at >= tail /\ at \in Nat
        BY <1>9, <4>2
      <4>4. head \in Nat /\ tail \in Nat /\ Capacity \in Nat
        BY <1>2, <1>7
      <4>5. w + 3 <= Capacity
        BY <4>1, <4>3, <4>4
      <4> QED BY <4>2, <4>5
    <3> QED BY <1>6, <2>2, <3>1, <3>3, <3>4
  <2> QED BY <1>8, <2>1, <2>2
<1>11. /\ Len(sent') = N + 1 /\ sent'[N + 1] = e /\ \A i \in 1 .. N : sent'[i] = sent[i]
  <2>1. PICK S : S = [at : Nat, msg : SeenMessage]
    OBVIOUS
  <2>2. sent \in Seq(S) /\ e \in S
    BY <1>2, <1>4, <1>6, <1>9, <2>1
  <2> QED BY <1>1, <1>5, <2>2
<1>12. /\ \A i \in 1 .. N : Rec(i)' = Rec(i) /\ BodyWords(i)' = BodyWords(i)
       /\ \A i \in 0 .. N : Bound(i)' = Bound(i)
       /\ \A i \in 1 .. N : RecordPut(data, i)' <=> RecordPut(data, i)
  <2>1. data' = data
    BY <1>5
  <2>2. PICK d : d = data'
    OBVIOUS
  <2> QED BY <1>11, <2>1, <2>2, RecordsStay
<1>13. /\ Rec(N + 1)' = at /\ BodyWords(N + 1)' = m.words /\ Bound(N + 1)' = at + m.words + 3
  <2>1. Rec(N + 1)' = at /\ BodyWords(N + 1)' = m.words
    BY <1>4, <1>6, <1>11 DEF Rec, BodyWords
  <2>2. N + 1 # 0
    OBVIOUS
  <2> QED BY <1>6, <1>9, <2>1, <2>2 DEF Bound, MSG_HEADER_LENGTH, LENGTH_WORD
<1>14. SentInv'
  <2>1. ASSUME NEW i \in 1 .. N + 1
        PROVE  /\ BodyWords(i)' \in Nat
               /\ \/ Rec(i)' = Bound(i - 1)'
                  \/ Rec(i)' = Bound(i - 1)' + ToBufferEnd(Bound(i - 1)')
               /\ Index(Rec(i)') + BodyWords(i)' + MSG_HEADER_LENGTH + LENGTH_WORD <= Capacity
    <3>1. CASE i \in 1 .. N
      <4>1. i - 1 \in 0 .. N
        BY <3>1
      <4>2. /\ Rec(i)' = Rec(i) /\ BodyWords(i)' = BodyWords(i) /\ Bound(i - 1)' = Bound(i - 1)
        BY <1>12, <3>1, <4>1
      <4> QED BY <1>1, <3>1, <4>2 DEF SentInv
    <3>2. CASE i = N + 1
      <4>1. Bound(i - 1)' = tail
        <5>1. i - 1 = N /\ N \in 0 .. N
          BY <3>2
        <5> QED BY <1>2, <1>12, <5>1
      <4>2. Index(at) + m.words + MSG_HEADER_LENGTH + LENGTH_WORD <= Capacity
        <5>1. Index(at) \in Nat
          BY <1>9, IndexType, CapacityAssumption
        <5> QED BY <1>6, <1>7, <1>10, <5>1 DEF MSG_HEADER_LENGTH, LENGTH_WORD
      <4> QED BY <1>6, <1>8, <1>13, <3>2, <4>1, <4>2
    <3>3. i \in 1 .. N \/ i = N + 1
      OBVIOUS
    <3> QED BY <3>1, <3>2, <3>3
  <2>2. ASSUME NEW i \in 0 .. N + 1, NEW j \in 0 .. N + 1, i < j
        PROVE  Bound(i)' <= Rec(j)' /\ Rec(j)' < Bound(j)'
    <3>1. CASE j \in 1 .. N
      <4>1. i \in 0 .. N /\ j \in 0 .. N
        BY <2>2, <3>1
      <4>2. Bound(i)' = Bound(i) /\ Rec(j)' = Rec(j) /\ Bound(j)' = Bound(j)
        BY <1>12, <3>1, <4>1
      <4> QED BY <1>1, <2>2, <4>1, <4>2 DEF SentInv
    <3>2. CASE j = N + 1
      <4>1. i \in 0 .. N
        BY <2>2, <3>2
      <4>2. Bound(i) \in Nat /\ Bound(i) <= tail
        <5>1. N \in 0 .. N /\ i <= N
          BY <4>1
        <5> QED BY <1>1, <1>2, <4>1, <5>1, BoundsOrder
      <4>3. Bound(i)' = Bound(i)
        BY <1>12, <4>1
      <4>4. PICK w \in Nat : w = m.words
        BY <1>6
      <4>5. tail \in Nat /\ at \in Nat /\ at >= tail
        BY <1>2, <1>9
      <4>6. Bound(i) <= at /\ at < at + w + 3
        BY <4>2, <4>5
      <4> QED BY <1>13, <3>2, <4>3, <4>4, <4>6
    <3>3. j \in 1 .. N \/ j = N + 1
      BY <2>2
    <3> QED BY <3>1, <3>2, <3>3
  <2> QED BY <1>11, <2>1, <2>2 DEF SentInv, Index, ToBufferEnd
<1>15. TransmitterInv'
  <2>1. tail' = Bound(complete)'
    <3>1. N \in 0 .. N
      OBVIOUS
    <3>2. Bound(N)' = tail
      BY <1>2, <1>12, <3>1
    <3> QED BY <1>2, <1>5, <3>2 DEF Bound, Rec, BodyWords
  <2>2. Bound(Len(sent))' <= head' + Capacity
    <3>1. Bound(N + 1)' <= head + Capacity
      BY <1>9, <1>13
    <3> QED BY <1>5, <1>11, <3>1 DEF Bound, Rec, BodyWords
  <2>3. sent'[complete' + 1] = [at |-> transmitter'.at, msg |-> View(transmitter'.msg)]
    BY <1>2, <1>4, <1>5, <1>11
  <2>4. transmitter'.pc = "padding" => transmitter'.at # tail'
    BY <1>5
  <2>5. transmitter'.pc \in {"record", "length", "tail"} =>
          transmitter'.pc = "record" /\ PaddingPut(data, complete + 1)'
    <3>1. ASSUME at = tail PROVE PaddingPut(data, complete + 1)'
      <4>1. N \in 0 .. N /\ (N + 1) - 1 = N
        OBVIOUS
      <4>2. Bound(N)' = at /\ Rec(N + 1)' = at
        BY <1>2, <1>12, <1>13, <3>1, <4>1
      <4>3. PaddingPut(data, N + 1)'
        BY <4>1, <4>2 DEF PaddingPut
      <4> QED BY <1>2, <1>5, <4>3 DEF PaddingPut, Bound, Rec, BodyWords
    <3> QED BY <1>5, <3>1
  <2> QED BY <2>1, <2>2, <2>3, <2>4, <2>5 DEF TransmitterInv
<1>16. DataInv'
  <2>1. ASSUME NEW i \in 1 .. complete', head' <= Bound(i - 1)' PROVE RecordPut(data, i)'
    <3>1. i \in 1 .. N /\ i \in 1 .. complete /\ i - 1 \in 0 .. N
      BY <1>2, <1>5
    <3>2. head <= Bound(i - 1)
      BY <1>5, <1>12, <2>1, <3>1
    <3> QED BY <1>12, <3>1, <3>2 DEF DataInv
  <2> QED BY <2>1 DEF DataInv
<1>17. ReaderInv(h, k, t)' /\ HandledInv(k, n)'
  <2>1. complete' \in Nat /\ complete <= complete'
    BY <1>2, <1>5
  <2>2. \A i \in 1 .. Len(sent) : sent'[i] = sent[i]
    BY <1>1, <1>11
  <2> QED BY <1>5, <2>1, <2>2, ReceiverStays
<1> QED BY <1>14, <1>15, <1>16, <1>17

\* What is known while a message is transmitted: it is the last record, at the position
\* that transmit() keeps.
LEMMA Transmitting ==
  ASSUME TypesInv, SentInv, TransmitterInv, transmitter.pc # "idle"
  PROVE  /\ complete \in Nat /\ complete + 1 = Len(sent) /\ complete + 1 \in 1 .. Len(sent)
         /\ tail = Bound(complete) /\ transmitter.at = Rec(complete + 1)
         /\ transmitter.msg \in Messages /\ View(transmitter.msg) = sent[complete + 1].msg
         /\ BodyWords(complete + 1) = transmitter.msg.words
         /\ RecordLength(transmitter.msg) = BodyWords(complete + 1) + 2
         /\ Rec(complete + 1) \in Nat /\ tail \in Nat /\ tail <= Rec(complete + 1)
         /\ Rec(complete + 1) < Bound(complete + 1)
         /\ Bound(complete + 1) \in Nat /\ head \in Nat
         /\ data \in [Words -> Int]
<1>1. complete \in Nat /\ complete + 1 = Len(sent) /\ complete + 1 \in 1 .. Len(sent)
      /\ transmitter.msg \in Messages
  BY DEF TypesInv, TypeOK, Accepted
<1>2. PICK e : e = sent[complete + 1]
  OBVIOUS
<1>3. e = [at |-> transmitter.at, msg |-> View(transmitter.msg)]
  BY <1>2 DEF TransmitterInv
<1>4. PICK m \in Messages : m = transmitter.msg
  BY <1>1
<1>5. View(m).words = m.words /\ RecordLength(m) = m.words + 2
  BY MessageFacts
<1>6. transmitter.at = Rec(complete + 1) /\ BodyWords(complete + 1) = m.words
  BY <1>2, <1>3, <1>4, <1>5 DEF Rec, BodyWords
<1>7. /\ Rec(complete + 1) \in Nat /\ Bound((complete + 1) - 1) <= Rec(complete + 1)
      /\ Rec(complete + 1) < Bound(complete + 1) /\ Bound(complete + 1) \in Nat
  BY <1>1, RecordFacts
<1>8. (complete + 1) - 1 = complete
  BY <1>1
<1>9. tail = Bound(complete) /\ tail \in Nat /\ head \in Nat /\ data \in [Words -> Int]
  BY DEF TransmitterInv, TypesInv, TypeOK
<1> QED BY <1>1, <1>2, <1>3, <1>4, <1>5, <1>6, <1>7, <1>8, <1>9

\* What is put into the record that is being transmitted leaves the others as they are.
LEMMA WriteKeeps ==
  ASSUME TypesInv, NEW h \in Nat, NEW k \in Nat, NEW t \in Nat, NEW n \in Nat,
         RecordsInv(h, k, t, n), transmitter.pc # "idle", NEW d, d = data',
         \A x \in Nat : head <= x /\ x < tail => d[Index(x)] = data[Index(x)],
         UNCHANGED << head, tail, position, reader, handled, sent, complete >>,
         NEW pc \in {"record", "length", "tail"}, transmitter' = [transmitter EXCEPT !.pc = pc],
         PaddingPut(d, complete + 1),
         pc # "record" => BodyPut(d, complete + 1),
         pc = "tail" => LengthPut(d, complete + 1)
  PROVE  RecordsInv(h, k, t, n)'
<1> USE DEF RecordsInv
<1>1. /\ complete \in Nat /\ complete \in 0 .. Len(sent) /\ Len(sent) \in Nat
      /\ complete + 1 \in 1 .. Len(sent)
      /\ \A i \in 1 .. Len(sent) : sent'[i] = sent[i]
  <2>1. complete \in Nat /\ complete \in 0 .. Len(sent) /\ Len(sent) \in Nat
    BY DEF TypesInv, TypeOK
  <2> QED BY <2>1, Transmitting
<1>2. SentInv'
  <2>1. SentInv
    OBVIOUS
  <2> QED BY <2>1 DEF SentInv, Rec, BodyWords, Bound
<1>3. DataInv'
  <2>1. ASSUME NEW i \in 1 .. complete, head <= Bound(i - 1)' PROVE RecordPut(data, i)'
    <3>1. i \in 1 .. Len(sent) /\ i - 1 \in 0 .. Len(sent)
      BY <1>1
    <3>2. Bound(i - 1)' = Bound(i - 1) /\ (RecordPut(data, i)' <=> RecordPut(d, i))
      BY <1>1, <3>1, RecordsStay
    <3>3. RecordPut(d, i)
      BY <2>1, <3>2, DataStays
    <3> QED BY <3>2, <3>3
  <2> QED BY <2>1 DEF DataInv
<1>4. ReaderInv(h, k, t)' /\ HandledInv(k, n)'
  BY <1>1, ReceiverStays
<1>5. PICK N : N = complete + 1
  OBVIOUS
<1>6. /\ PaddingPut(data, N)'
      /\ pc # "record" => BodyPut(data, N)'
      /\ pc = "tail" => LengthPut(data, N)'
  BY <1>1, <1>5, RecordsStay
<1>7. TransmitterInv'
  <2>1. tail' = Bound(complete)' /\ Bound(Len(sent))' <= head' + Capacity
    <3>1. Bound(complete)' = Bound(complete) /\ Bound(Len(sent))' = Bound(Len(sent))
      BY DEF Bound, Rec, BodyWords
    <3> QED BY <3>1 DEF TransmitterInv
  <2>2. transmitter'.pc = pc /\ transmitter'.at = transmitter.at
        /\ transmitter'.msg = transmitter.msg
    BY DEF TypesInv, TypeOK
  <2>3. sent'[complete' + 1] = [at |-> transmitter'.at, msg |-> View(transmitter'.msg)]
    BY <2>2 DEF TransmitterInv
  <2>4. /\ PaddingPut(data, complete + 1)'
        /\ pc # "record" => BodyPut(data, complete + 1)'
        /\ pc = "tail" => LengthPut(data, complete + 1)'
    <3>1. PaddingPut(data, complete + 1)'
      BY <1>5, <1>6 DEF PaddingPut, Bound, Rec, BodyWords
    <3>2. pc # "record" => BodyPut(data, complete + 1)'
      BY <1>5, <1>6 DEF BodyPut, Rec, BodyWords
    <3>3. pc = "tail" => LengthPut(data, complete + 1)'
      BY <1>5, <1>6 DEF LengthPut, Rec, BodyWords
    <3> QED BY <3>1, <3>2, <3>3
  <2> QED BY <2>1, <2>2, <2>3, <2>4 DEF TransmitterInv
<1> QED BY <1>2, <1>3, <1>4, <1>7

\* The padding is put in front of the record.
LEMMA PaddingKeeps ==
  ASSUME TypesInv, NEW h \in Nat, NEW k \in Nat, NEW t \in Nat, NEW n \in Nat,
         RecordsInv(h, k, t, n), PutPadding
  PROVE  RecordsInv(h, k, t, n)'
<1> USE DEF RecordsInv
<1>1. PICK N : N = complete + 1
  OBVIOUS
<1>2. PICK d : d = data'
  OBVIOUS
<1>3. /\ d = [data EXCEPT ![Index(tail)] = - ToBufferEnd(tail)]
      /\ transmitter.pc = "padding" /\ transmitter' = [transmitter EXCEPT !.pc = "record"]
      /\ UNCHANGED << head, tail, position, reader, handled, sent, complete >>
  BY <1>2 DEF PutPadding, history
<1>4. /\ N = Len(sent) /\ N \in 1 .. Len(sent) /\ N \in Nat /\ N - 1 = complete
      /\ tail = Bound(complete) /\ tail \in Nat /\ head \in Nat
      /\ tail <= Rec(N) /\ Rec(N) < Bound(N) /\ Rec(N) \in Nat /\ Bound(N) \in Nat
      /\ data \in [Words -> Int]
  <2>1. complete \in Nat /\ complete + 1 = Len(sent) /\ complete + 1 \in 1 .. Len(sent)
    BY <1>3, Transmitting
  <2>2. N = Len(sent) /\ N \in 1 .. Len(sent) /\ N \in Nat /\ N - 1 = complete
    BY <1>1, <2>1
  <2> QED BY <1>1, <1>3, <2>2, Transmitting
<1>5. Index(tail) \in Words /\ d[Index(tail)] = - ToBufferEnd(tail)
      /\ \A w \in Words : w # Index(tail) => d[w] = data[w]
  <2>1. Index(tail) \in Words
    BY <1>4, IndexType
  <2> QED BY <1>3, <1>4, <2>1
<1>6. ASSUME NEW x \in Nat, head <= x, x < tail PROVE d[Index(x)] = data[Index(x)]
  <2>1. tail < Bound(Len(sent))
    BY <1>4
  <2>2. Index(x) # Index(tail)
    BY <1>4, <1>6, <2>1, Untouched
  <2>3. Index(x) \in Words
    BY IndexType
  <2> QED BY <1>5, <2>2, <2>3
<1>7. PaddingPut(d, N)
  BY <1>4, <1>5 DEF PaddingPut
<1> QED BY <1>1, <1>2, <1>3, <1>6, <1>7, WriteKeeps

\* The type and the body are put into the record.
LEMMA BodyKeeps ==
  ASSUME TypesInv, NEW h \in Nat, NEW k \in Nat, NEW t \in Nat, NEW n \in Nat,
         RecordsInv(h, k, t, n), PutTypeAndBody
  PROVE  RecordsInv(h, k, t, n)'
<1> USE DEF RecordsInv
<1>1. PICK N : N = complete + 1
  OBVIOUS
<1>2. PICK d : d = data'
  OBVIOUS
<1>3. PICK m : m = transmitter.msg
  OBVIOUS
<1>4. transmitter.pc = "record" /\ transmitter' = [transmitter EXCEPT !.pc = "length"]
      /\ UNCHANGED << head, tail, position, reader, handled, sent, complete >>
  BY DEF PutTypeAndBody, history
<1>5. /\ N = Len(sent) /\ N \in 1 .. Len(sent) /\ N \in Nat /\ N - 1 = complete
      /\ tail = Bound(complete) /\ tail \in Nat /\ head \in Nat /\ transmitter.at = Rec(N)
      /\ tail <= Rec(N) /\ Rec(N) < Bound(N) /\ Rec(N) \in Nat /\ Bound(N) \in Nat
      /\ m \in Messages /\ View(m) = sent[N].msg
      /\ BodyWords(N) = m.words /\ RecordLength(m) = m.words + 2
  BY <1>1, <1>3, <1>4, Transmitting
<1>6. /\ m.words \in Nat /\ View(m).type = m.type
      /\ View(m).content = IF m.words = 0 THEN {} ELSE {m.fill}
  BY <1>5, MessageFacts
<1>7. PICK i \in Nat : i = Index(Rec(N))
  <2>1. Index(Rec(N)) \in Nat
    BY <1>5, RecordFacts
  <2> QED BY <2>1
<1>8. d = [w \in Words |-> IF w = i + 1 THEN m.type
                           ELSE IF w \in i + 2 .. i + (m.words + 2) - 1 THEN m.fill
                           ELSE data[w]]
  BY <1>2, <1>3, <1>5, <1>7 DEF PutTypeAndBody, MSG_HEADER_LENGTH
<1>9. ASSUME NEW j \in 1 .. m.words + 1
      PROVE  i + j \in Words /\ \A x \in Nat : head <= x /\ x <= Rec(N) => Index(x) # i + j
  <2>1. j \in 0 .. BodyWords(N) + 2 /\ j > 0
    <3>1. PICK w \in Nat : w = m.words
      BY <1>6
    <3>2. j \in 0 .. w + 2 /\ j > 0
      BY <3>1
    <3> QED BY <1>5, <3>1, <3>2
  <2>2. Rec(N) + j \in Nat /\ Index(Rec(N) + j) = i + j /\ Rec(N) + j < Bound(N)
    BY <1>5, <1>7, <2>1, WordIndex
  <2>3. i + j \in Words
    BY <2>2, IndexType
  <2>4. PICK y \in Nat : y = Rec(N) + j
    BY <2>2
  <2>5. ASSUME NEW x \in Nat, head <= x, x <= Rec(N) PROVE Index(x) # Index(y)
    <3>1. PICK r \in Nat : r = Rec(N)
      BY <1>5
    <3>2. x <= r /\ y = r + j /\ j \in Nat /\ j > 0
      BY <2>1, <2>4, <2>5, <3>1
    <3>3. x < y
      BY <3>2
    <3>4. y < Bound(Len(sent))
      BY <1>5, <2>2, <2>4
    <3> QED BY <2>4, <2>5, <3>3, <3>4, Untouched
  <2> QED BY <2>2, <2>3, <2>4, <2>5
<1>10. ASSUME NEW x \in Nat, head <= x, x <= Rec(N) PROVE d[Index(x)] = data[Index(x)]
  <2>1. Index(x) \in Words /\ Index(x) \in Int
    BY IndexType
  <2>2. ASSUME Index(x) = i + 1 \/ Index(x) \in i + 2 .. i + (m.words + 2) - 1 PROVE FALSE
    <3>1. PICK j : j = Index(x) - i
      OBVIOUS
    <3>2. j \in 1 .. m.words + 1 /\ Index(x) = i + j
      BY <1>6, <2>1, <2>2, <3>1
    <3> QED BY <1>9, <1>10, <3>2
  <2> QED BY <1>8, <2>1, <2>2
<1>11. PaddingPut(d, N)
  <2>1. PaddingPut(data, N)
    BY <1>1, <1>4 DEF TransmitterInv
  <2>2. head <= tail
    BY TailNotBehind
  <2>3. d[Index(Bound(N - 1))] = data[Index(Bound(N - 1))]
    BY <1>5, <1>10, <2>2
  <2> QED BY <1>5, <2>1, <2>3, PutAlike
<1>12. BodyPut(d, N)
  <2>1. 1 \in 1 .. m.words + 1
    BY <1>6
  <2>2. d[i + 1] = m.type
    BY <1>8, <1>9, <2>1
  <2>3. ASSUME NEW j \in MSG_HEADER_LENGTH .. BodyWords(N) + MSG_HEADER_LENGTH - 1
        PROVE  sent[N].msg.content = {d[i + j]}
    <3>1. /\ j \in 1 .. m.words + 1 /\ j # 1 /\ m.words # 0
          /\ i + j \in i + 2 .. i + (m.words + 2) - 1 /\ i + j # i + 1
      <4>1. PICK w \in Nat : w = m.words
        BY <1>6
      <4>2. j \in 2 .. w + 2 - 1
        BY <1>5, <4>1 DEF MSG_HEADER_LENGTH
      <4>3. j \in 1 .. w + 1 /\ j # 1 /\ w # 0 /\ i + j \in i + 2 .. i + (w + 2) - 1 /\ i + j # i + 1
        BY <4>2
      <4> QED BY <4>1, <4>3
    <3>2. d[i + j] = m.fill
      BY <1>8, <1>9, <3>1
    <3> QED BY <1>5, <1>6, <3>1, <3>2
  <2>4. BodyWords(N) = 0 => sent[N].msg.content = {}
    BY <1>5, <1>6
  <2> QED BY <1>5, <1>6, <1>7, <2>2, <2>3, <2>4 DEF BodyPut
<1>13. \A x \in Nat : head <= x /\ x < tail => d[Index(x)] = data[Index(x)]
  <2>1. \A x \in Nat : x < tail => x <= Rec(N)
    BY <1>5
  <2> QED BY <1>10, <2>1
<1> QED BY <1>1, <1>2, <1>4, <1>11, <1>12, <1>13, WriteKeeps

\* The length is put into the record.
LEMMA LengthKeeps ==
  ASSUME TypesInv, NEW h \in Nat, NEW k \in Nat, NEW t \in Nat, NEW n \in Nat,
         RecordsInv(h, k, t, n), PutLength
  PROVE  RecordsInv(h, k, t, n)'
<1> USE DEF RecordsInv
<1>1. PICK N : N = complete + 1
  OBVIOUS
<1>2. PICK d : d = data'
  OBVIOUS
<1>3. transmitter.pc = "length" /\ transmitter' = [transmitter EXCEPT !.pc = "tail"]
      /\ UNCHANGED << head, tail, position, reader, handled, sent, complete >>
  BY DEF PutLength, history
<1>4. /\ N = Len(sent) /\ N \in 1 .. Len(sent) /\ N \in Nat /\ N - 1 = complete
      /\ tail = Bound(complete) /\ tail \in Nat /\ head \in Nat /\ transmitter.at = Rec(N)
      /\ tail <= Rec(N) /\ Rec(N) < Bound(N) /\ Rec(N) \in Nat /\ Bound(N) \in Nat
      /\ RecordLength(transmitter.msg) = BodyWords(N) + 2 /\ data \in [Words -> Int]
  BY <1>1, <1>3, Transmitting
<1>5. d = [data EXCEPT ![Index(Rec(N))] = BodyWords(N) + 2]
  BY <1>2, <1>4 DEF PutLength
<1>6. Index(Rec(N)) \in Words /\ d[Index(Rec(N))] = BodyWords(N) + 2
      /\ \A w \in Words : w # Index(Rec(N)) => d[w] = data[w]
  <2>1. Index(Rec(N)) \in Words
    BY <1>4, IndexType
  <2> QED BY <1>4, <1>5, <2>1
<1>7. ASSUME NEW x \in Nat, head <= x, x < Rec(N) PROVE d[Index(x)] = data[Index(x)]
  <2>1. Rec(N) < Bound(Len(sent))
    BY <1>4
  <2>2. Index(x) # Index(Rec(N))
    BY <1>4, <1>7, <2>1, Untouched
  <2>3. Index(x) \in Words
    BY IndexType
  <2> QED BY <1>6, <2>2, <2>3
<1>8. PaddingPut(d, N)
  <2>1. PaddingPut(data, N)
    BY <1>1, <1>3 DEF TransmitterInv
  <2>2. head <= tail
    BY TailNotBehind
  <2>3. CASE Rec(N) = tail
    BY <1>4, <2>3 DEF PaddingPut
  <2>4. CASE tail < Rec(N)
    <3>1. d[Index(Bound(N - 1))] = data[Index(Bound(N - 1))]
      BY <1>4, <1>7, <2>2, <2>4
    <3> QED BY <1>4, <2>1, <3>1, PutAlike
  <2> QED BY <1>4, <2>3, <2>4
<1>9. BodyPut(d, N)
  <2>1. BodyPut(data, N)
    BY <1>1, <1>3 DEF TransmitterInv
  <2>2. Index(Rec(N)) \in Nat /\ BodyWords(N) \in Nat
    BY <1>4, RecordFacts
  <2>3. ASSUME NEW j \in 1 .. BodyWords(N) + 1
        PROVE  d[Index(Rec(N)) + j] = data[Index(Rec(N)) + j]
    <3>1. j \in 0 .. BodyWords(N) + 2 /\ Index(Rec(N)) + j # Index(Rec(N))
      BY <2>2
    <3>2. Rec(N) + j \in Nat /\ Index(Rec(N) + j) = Index(Rec(N)) + j
      BY <1>4, <3>1, WordIndex
    <3>3. Index(Rec(N)) + j \in Words
      BY <3>2, IndexType
    <3> QED BY <1>6, <3>1, <3>3
  <2> QED BY <1>4, <2>1, <2>3, PutAlike
<1>10. LengthPut(d, N)
  BY <1>6 DEF LengthPut, MSG_HEADER_LENGTH
<1>11. \A x \in Nat : head <= x /\ x < tail => d[Index(x)] = data[Index(x)]
  <2>1. \A x \in Nat : x < tail => x < Rec(N)
    BY <1>4
  <2> QED BY <1>7, <2>1
<1> QED BY <1>1, <1>2, <1>3, <1>8, <1>9, <1>10, <1>11, WriteKeeps

\* The store of the tail publishes the record.
LEMMA PublishKeeps ==
  ASSUME TypesInv, NEW h \in Nat, NEW k \in Nat, NEW t \in Nat, NEW n \in Nat,
         RecordsInv(h, k, t, n), PublishTail
  PROVE  RecordsInv(h, k, t, n)'
<1> USE DEF RecordsInv
<1>1. PICK N : N = complete + 1
  OBVIOUS
<1>2. /\ transmitter.pc = "tail" /\ transmitter'.pc = "idle" /\ complete' = complete + 1
      /\ tail' = transmitter.at + RequiredCapacity(transmitter.msg)
      /\ UNCHANGED << head, data, position, reader, handled, sent >>
  BY DEF PublishTail, NotTransmitting
<1>3. /\ N = Len(sent) /\ N \in 1 .. Len(sent) /\ N \in Nat /\ complete \in Nat
      /\ transmitter.at = Rec(N) /\ transmitter.msg \in Messages
      /\ BodyWords(N) = transmitter.msg.words
  BY <1>1, <1>2, Transmitting
<1>4. tail' = Bound(N)
  <2>1. PICK m \in Messages : m = transmitter.msg
    BY <1>3
  <2>2. RequiredCapacity(m) = m.words + 3 /\ m.words \in Nat
    BY MessageFacts
  <2>3. Bound(N) = Rec(N) + BodyWords(N) + 3 /\ Rec(N) \in Nat
    BY <1>3, RecordFacts
  <2> QED BY <1>2, <1>3, <2>1, <2>2, <2>3
<1>5. /\ \A i \in 1 .. Len(sent) : sent'[i] = sent[i] /\ (RecordPut(data, i)' <=> RecordPut(data, i))
      /\ \A i \in 0 .. Len(sent) : Bound(i)' = Bound(i)
  <2>1. PICK d : d = data'
    OBVIOUS
  <2>2. \A i \in 1 .. Len(sent) : sent'[i] = sent[i]
    BY <1>2
  <2>3. Len(sent) \in Nat /\ d = data
    BY <1>2, <1>3, <2>1
  <2> QED BY <2>1, <2>2, <2>3, RecordsStay
<1>6. SentInv'
  <2>1. SentInv
    OBVIOUS
  <2> QED BY <1>2, <2>1 DEF SentInv, Rec, BodyWords, Bound
<1>7. TransmitterInv'
  <2>1. tail' = Bound(complete)'
    <3>1. Bound(N)' = Bound(N)
      BY <1>3, <1>5
    <3>2. complete' = N
      BY <1>1, <1>2
    <3> QED BY <1>4, <3>1, <3>2 DEF Bound, Rec, BodyWords
  <2>2. Bound(Len(sent))' <= head' + Capacity
    <3>1. Bound(Len(sent))' = Bound(Len(sent))
      BY <1>2 DEF Bound, Rec, BodyWords
    <3> QED BY <1>2, <3>1 DEF TransmitterInv
  <2> QED BY <1>2, <2>1, <2>2 DEF TransmitterInv
<1>8. DataInv'
  <2>1. ASSUME NEW i \in 1 .. N, head <= Bound(i - 1)' PROVE RecordPut(data, i)'
    <3>1. i \in 1 .. Len(sent) /\ i - 1 \in 0 .. Len(sent) /\ (i = N \/ i \in 1 .. complete)
      BY <1>1, <1>3
    <3>2. head <= Bound(i - 1)
      BY <1>5, <2>1, <3>1
    <3>3. RecordPut(data, i)
      <4>1. CASE i = N
        BY <1>1, <1>2, <4>1 DEF TransmitterInv, RecordPut
      <4>2. CASE i \in 1 .. complete
        BY <3>2, <4>2 DEF DataInv
      <4> QED BY <3>1, <4>1, <4>2
    <3> QED BY <1>5, <3>1, <3>3
  <2> QED BY <1>1, <1>2, <2>1 DEF DataInv
<1>9. ReaderInv(h, k, t)' /\ HandledInv(k, n)'
  <2>1. complete' \in Nat /\ complete <= complete'
    BY <1>2, <1>3
  <2> QED BY <1>2, <1>5, <2>1, ReceiverStays
<1> QED BY <1>6, <1>7, <1>8, <1>9

-----------------------------------------------------------------------------
(* receive() of the one receiver.                                           *)

\* Who receives is the one receiver.
LEMMA OnlyReceiver ==
  ASSUME OneReceiver
  PROVE  R \in Receivers /\ \A r \in Receivers : r = R
<1>1. PICK r : Receivers = {r}
  BY DEF OneReceiver
<1>2. R \in {r}
  BY <1>1 DEF R
<1> QED BY <1>1, <1>2

\* receive() changes nothing of the transmitter's, and releases no record twice.
LEMMA ReceiveLeaves ==
  ASSUME TypesInv, SentInv, TransmitterInv, DataInv,
         head' \in Nat, head <= head', UNCHANGED << tail, data, transmitter, sent, complete >>
  PROVE  /\ SentInv' /\ TransmitterInv' /\ DataInv'
         /\ \A i : Bound(i)' = Bound(i) /\ Rec(i)' = Rec(i) /\ BodyWords(i)' = BodyWords(i)
<1>1. \A i : Bound(i)' = Bound(i) /\ Rec(i)' = Rec(i) /\ BodyWords(i)' = BodyWords(i)
  BY DEF Bound, Rec, BodyWords
<1>2. /\ complete \in 0 .. Len(sent) /\ complete \in Nat /\ Len(sent) \in 0 .. Len(sent)
      /\ head \in Nat
  BY DEF TypesInv, TypeOK
<1>3. SentInv'
  BY <1>1 DEF SentInv, Rec, BodyWords, Bound
<1>4. TransmitterInv'
  <2>1. Bound(Len(sent)) <= head' + Capacity
    <3>1. Bound(Len(sent)) \in Nat /\ Bound(Len(sent)) <= head + Capacity
      BY <1>2, BoundsOrder DEF TransmitterInv
    <3> QED BY <1>2, <3>1, CapacityAssumption
  <2>2. tail' = Bound(complete)' /\ Bound(Len(sent))' <= head' + Capacity
    <3>1. tail' = Bound(complete)'
      BY DEF TransmitterInv, Bound, Rec, BodyWords
    <3>2. Bound(Len(sent))' = Bound(Len(sent))
      BY DEF Bound, Rec, BodyWords
    <3> QED BY <2>1, <3>1, <3>2
  <2>3. /\ PaddingPut(data, complete + 1)' <=> PaddingPut(data, complete + 1)
        /\ BodyPut(data, complete + 1)' <=> BodyPut(data, complete + 1)
        /\ LengthPut(data, complete + 1)' <=> LengthPut(data, complete + 1)
    BY DEF PaddingPut, BodyPut, LengthPut, Rec, BodyWords, Bound
  <2> QED BY <2>2, <2>3 DEF TransmitterInv
<1>5. DataInv'
  <2>1. ASSUME NEW i \in 1 .. complete, head' <= Bound(i - 1)' PROVE RecordPut(data, i)'
    <3>1. Bound(i - 1)' = Bound(i - 1) /\ i - 1 \in 0 .. Len(sent)
      BY <1>1, <1>2
    <3>2. head <= Bound(i - 1)
      <4>1. Bound(i - 1) \in Nat
        BY <3>1, BoundsOrder
      <4> QED BY <1>2, <2>1, <3>1, <4>1
    <3>3. RecordPut(data, i)
      BY <3>2 DEF DataInv
    <3> QED BY <3>3 DEF RecordPut, PaddingPut, BodyPut, LengthPut, Rec, BodyWords, Bound
  <2> QED BY <2>1 DEF DataInv
<1> QED BY <1>1, <1>3, <1>4, <1>5

\* What holds of the receiver's position, wherever it is in receive().
LEMMA ReaderFacts ==
  ASSUME TypesInv, OneReceiver, NEW h \in Nat, NEW k \in Nat, NEW t \in Nat, NEW n \in Nat,
         RecordsInv(h, k, t, n)
  PROVE  /\ complete \in Nat /\ complete <= Len(sent) /\ Len(sent) \in Nat
         /\ h \in 0 .. Len(sent) /\ k \in 0 .. Len(sent) /\ t \in 0 .. Len(sent)
         /\ Bound(h) \in Nat /\ Bound(k) \in Nat /\ Bound(t) \in Nat
         /\ Bound(h) <= Bound(k) /\ Bound(k) <= Bound(t) /\ Bound(t) <= tail
         /\ head = Bound(h) /\ tail \in Nat /\ tail <= head + Capacity
         /\ k < t => k + 1 \in 1 .. complete /\ k + 1 \in 1 .. Len(sent)
         /\ reader[R] \in LocalState /\ reader \in [Receivers -> LocalState]
         /\ position \in [Receivers -> Nat] /\ R \in Receivers
<1> USE DEF RecordsInv
<1>1. /\ complete \in Nat /\ complete \in 0 .. Len(sent) /\ Len(sent) \in Nat
      /\ complete <= Len(sent) /\ Len(sent) \in 0 .. Len(sent)
      /\ reader \in [Receivers -> LocalState] /\ position \in [Receivers -> Nat]
      /\ tail \in Nat /\ head \in Nat
  BY DEF TypesInv, TypeOK, LocalState
<1>2. h <= k /\ k <= t /\ t <= complete
  BY DEF ReaderInv
<1>3. /\ h \in 0 .. Len(sent) /\ k \in 0 .. Len(sent) /\ t \in 0 .. Len(sent)
      /\ k < t => k + 1 \in 1 .. complete /\ k + 1 \in 1 .. Len(sent)
  BY <1>1, <1>2
<1>4. /\ Bound(h) \in Nat /\ Bound(k) \in Nat /\ Bound(t) \in Nat
      /\ Bound(h) <= Bound(k) /\ Bound(k) <= Bound(t)
  BY <1>2, <1>3, BoundsOrder
<1>5. Bound(t) <= tail
  BY <1>1, <1>2, <1>3, BoundsOrder DEF TransmitterInv
<1>6. tail <= head + Capacity
  <2>1. Bound(Len(sent)) \in Nat /\ tail <= Bound(Len(sent))
    BY <1>1, BoundsOrder DEF TransmitterInv
  <2>2. Bound(Len(sent)) <= head + Capacity
    BY DEF TransmitterInv
  <2> QED BY <1>1, <2>1, <2>2, CapacityAssumption
<1>7. R \in Receivers
  BY OnlyReceiver
<1> QED BY <1>1, <1>3, <1>4, <1>5, <1>6, <1>7 DEF ReaderInv

\* receive() begins at the head: the one receiver is never lapped.
LEMMA ReceiveKeeps ==
  ASSUME TypesInv, OneReceiver, NEW h \in Nat, NEW k \in Nat, NEW t \in Nat, NEW n \in Nat,
         RecordsInv(h, k, t, n), Receive(R)
  PROVE  \E c \in Nat : RecordsInv(h, h, c, n)'
<1> USE DEF RecordsInv
<1>1. PICK c \in Nat : c = complete
  BY ReaderFacts
<1>2. /\ head = Bound(h) /\ tail = Bound(c) /\ tail \in Nat /\ head \in Nat
      /\ h <= c /\ position[R] = head /\ h <= k
  BY <1>1, ReaderFacts DEF ReaderInv, TransmitterInv
<1>3. ~ (tail - position[R] > Capacity)
  <2>1. tail <= head + Capacity
    BY ReaderFacts
  <2> QED BY <1>2, <2>1, CapacityAssumption
<1>4. /\ reader'[R].pc = "loop" /\ reader'[R].tail = tail /\ reader'[R].next = head
      /\ reader'[R].count = 0
  BY <1>2, <1>3, ReaderFacts DEF Receive, NotReceiving
<1>5. UNCHANGED << head, tail, data, transmitter, position, sent, complete, handled >>
  BY DEF Receive, buffer, history
<1>6. /\ SentInv' /\ TransmitterInv' /\ DataInv'
      /\ \A i : Bound(i)' = Bound(i) /\ Rec(i)' = Rec(i) /\ BodyWords(i)' = BodyWords(i)
  BY <1>2, <1>5, ReceiveLeaves
<1>7. ReaderInv(h, h, c)'
  BY <1>1, <1>2, <1>4, <1>5, <1>6 DEF ReaderInv
<1>8. HandledInv(h, n)'
  <2>1. HandledInv(h, n)
    <3>1. k <= n /\ h <= n
      BY <1>2 DEF HandledInv
    <3> QED BY <3>1 DEF HandledInv
  <2> QED BY <1>5, <2>1 DEF HandledInv, FirstTimes
<1> QED BY <1>1, <1>6, <1>7, <1>8

\* The end of what has been published is the end of a record.
LEMMA EndKeeps ==
  ASSUME TypesInv, OneReceiver, NEW h \in Nat, NEW k \in Nat, NEW t \in Nat, NEW n \in Nat,
         RecordsInv(h, k, t, n), EndOfRecords(R)
  PROVE  RecordsInv(h, k, t, n)'
<1> USE DEF RecordsInv
<1>1. /\ reader[R].pc = "loop" /\ reader[R].next >= reader[R].tail
      /\ reader'[R].pc = "store" /\ reader'[R].next = reader[R].next
      /\ reader'[R].tail = reader[R].tail /\ reader'[R].count = reader[R].count
  BY ReaderFacts DEF EndOfRecords, LocalState
<1>2. UNCHANGED << head, tail, data, transmitter, position, sent, complete, handled >>
  BY DEF EndOfRecords, buffer, history
<1>3. /\ SentInv' /\ TransmitterInv' /\ DataInv'
      /\ \A i : Bound(i)' = Bound(i) /\ Rec(i)' = Rec(i) /\ BodyWords(i)' = BodyWords(i)
  <2>1. head' \in Nat /\ head <= head'
    BY <1>2, ReaderFacts
  <2> QED BY <1>2, <2>1, ReceiveLeaves
<1>4. reader[R].tail = Bound(t) /\ (reader[R].count = 0 => k = h) /\ k <= t
  BY <1>1 DEF ReaderInv
<1>5. k = t /\ reader[R].next = Bound(t)
  <2>1. k < t => Rec(k + 1) < Bound(t) /\ Bound(k) < Bound(t)
    <3>1. SUFFICES ASSUME k < t PROVE Rec(k + 1) < Bound(t) /\ Bound(k) < Bound(t)
      OBVIOUS
    <3>2. k + 1 \in 1 .. Len(sent) /\ k + 1 \in 0 .. Len(sent) /\ k + 1 <= t /\ (k + 1) - 1 = k
      BY <3>1, ReaderFacts
    <3>3. Bound(k + 1) <= Bound(t) /\ Bound(k + 1) \in Nat
      BY <3>2, ReaderFacts, BoundsOrder
    <3>4. Rec(k + 1) \in Nat /\ Rec(k + 1) < Bound(k + 1) /\ Bound(k) <= Rec(k + 1)
      BY <3>2, RecordFacts
    <3>5. Bound(k) \in Nat /\ Bound(t) \in Nat
      BY ReaderFacts
    <3> QED BY <3>3, <3>4, <3>5
  <2>2. reader[R].next = Bound(k) \/ (k < t /\ reader[R].next = Rec(k + 1))
    BY <1>1 DEF ReaderInv
  <2>3. reader[R].next >= Bound(t) /\ Bound(t) \in Nat
    BY <1>1, <1>4, ReaderFacts
  <2>4. Bound(k) \in Nat /\ (k < t => Rec(k + 1) \in Nat)
    BY ReaderFacts, RecordFacts
  <2>5. ~ (k < t)
    BY <2>1, <2>2, <2>3, <2>4
  <2> QED BY <1>4, <2>2, <2>5
<1>6. ReaderInv(h, k, t)'
  BY <1>1, <1>2, <1>3, <1>4, <1>5 DEF ReaderInv
<1>7. HandledInv(k, n)'
  BY <1>2 DEF HandledInv, FirstTimes
<1> QED BY <1>3, <1>6, <1>7

\* The length that is read is that of the next record, or of the padding in front of it.
LEMMA LoadKeeps ==
  ASSUME TypesInv, OneReceiver, NEW h \in Nat, NEW k \in Nat, NEW t \in Nat, NEW n \in Nat,
         RecordsInv(h, k, t, n), LoadLength(R)
  PROVE  RecordsInv(h, k, t, n)'
<1> USE DEF RecordsInv
<1>1. PICK local \in LocalState : local = reader[R]
  BY ReaderFacts
<1>2. PICK length : length = data[Index(local.next)]
  OBVIOUS
<1>3. /\ local.pc = "loop" /\ local.next < local.tail
      /\ reader' = [reader EXCEPT ![R] =
           CASE length = 0 -> [local EXCEPT !.pc = "store"]
             [] length < 0 -> [local EXCEPT !.next = local.next + ToBufferEnd(local.next)]
             [] length \in 1 .. Capacity -> [local EXCEPT !.pc = "handle", !.length = length]
             [] OTHER -> NotReceiving]
      /\ UNCHANGED << head, tail, data, transmitter, position, sent, complete, handled >>
  BY <1>1, <1>2 DEF LoadLength, NextIndex, buffer, history
<1>4. /\ local.tail = Bound(t) /\ (local.count = 0 => k = h) /\ k <= t /\ h <= k
      /\ local.next = Bound(k) \/ (k < t /\ local.next = Rec(k + 1))
  BY <1>1, <1>3 DEF ReaderInv
<1>5. k < t
  <2>1. CASE local.next = Bound(k)
    <3>1. Bound(k) < Bound(t)
      BY <1>3, <1>4, <2>1
    <3> QED BY <3>1, ReaderFacts, BoundsOrder
  <2> QED BY <1>4, <2>1
<1>6. PICK i : i = k + 1
  OBVIOUS
<1>7. i \in 1 .. complete /\ i \in 1 .. Len(sent) /\ i - 1 = k
  BY <1>5, <1>6, ReaderFacts
<1>8. /\ Rec(i) \in Nat /\ BodyWords(i) \in Nat /\ Bound(k) \in Nat
      /\ Rec(i) = Bound(k) \/ Rec(i) = Bound(k) + ToBufferEnd(Bound(k))
      /\ Index(Rec(i)) \in Nat /\ Index(Rec(i)) + BodyWords(i) + 3 <= Capacity
  BY <1>7, RecordFacts
<1>9. RecordPut(data, i)
  <2>1. head <= Bound(k)
    BY ReaderFacts
  <2> QED BY <1>7, <2>1 DEF DataInv
<1>10. /\ SentInv' /\ TransmitterInv' /\ DataInv'
       /\ \A j : Bound(j)' = Bound(j) /\ Rec(j)' = Rec(j) /\ BodyWords(j)' = BodyWords(j)
  <2>1. head' \in Nat /\ head <= head'
    <3>1. head \in Nat
      BY ReaderFacts
    <3>2. head' = head
      BY <1>3
    <3> QED BY <3>1, <3>2
  <2> QED BY <1>3, <2>1, ReceiveLeaves
<1>11. ReaderInv(h, k, t)'
  <2>1. CASE local.next = Rec(i)
    <3>1. length = BodyWords(i) + 2
      BY <1>2, <1>9, <2>1 DEF RecordPut, LengthPut, MSG_HEADER_LENGTH
    <3>2. length \in 1 .. Capacity /\ length # 0 /\ ~ (length < 0)
      BY <1>8, <3>1, CapacityAssumption
    <3>3. reader' = [reader EXCEPT ![R] = [local EXCEPT !.pc = "handle", !.length = length]]
      BY <1>3, <3>2
    <3>4. /\ reader'[R].pc = "handle" /\ reader'[R].tail = local.tail
          /\ reader'[R].next = local.next /\ reader'[R].count = local.count
          /\ reader'[R].length = length
      BY <3>3, ReaderFacts DEF LocalState
    <3>5. head' = head /\ position' = position /\ complete' = complete
      BY <1>3
    <3> QED BY <1>4, <1>5, <1>6, <1>10, <2>1, <3>1, <3>4, <3>5 DEF ReaderInv, MSG_HEADER_LENGTH
  <2>2. CASE local.next # Rec(i)
    <3>1. local.next = Bound(k)
      BY <1>4, <1>6, <2>2
    <3>2. length = - ToBufferEnd(Bound(k))
      BY <1>2, <1>7, <1>9, <2>2, <3>1 DEF RecordPut, PaddingPut
    <3>3. ToBufferEnd(Bound(k)) \in 1 .. Capacity
      BY <1>8, IndexType
    <3>4. length < 0 /\ length # 0 /\ ~ (length \in 1 .. Capacity)
      BY <3>2, <3>3, CapacityAssumption
    <3>5. reader' = [reader EXCEPT ![R] =
                      [local EXCEPT !.next = local.next + ToBufferEnd(local.next)]]
      BY <1>3, <3>4
    <3>6. /\ reader'[R].pc = "loop" /\ reader'[R].tail = local.tail
          /\ reader'[R].next = Rec(i) /\ reader'[R].count = local.count
      <4>1. local.next + ToBufferEnd(local.next) = Rec(i)
        BY <1>7, <1>8, <2>2, <3>1
      <4>2. reader' = [reader EXCEPT ![R] = [local EXCEPT !.next = Rec(i)]]
        BY <3>5, <4>1
      <4>3. reader \in [Receivers -> LocalState] /\ R \in Receivers
        BY ReaderFacts
      <4>4. reader'[R] = [local EXCEPT !.next = Rec(i)]
        BY <4>2, <4>3
      <4> QED BY <1>3, <4>4 DEF LocalState
    <3>7. head' = head /\ position' = position /\ complete' = complete
      BY <1>3
    <3> QED BY <1>4, <1>5, <1>6, <1>10, <3>6, <3>7 DEF ReaderInv
  <2> QED BY <2>1, <2>2
<1>12. HandledInv(k, n)'
  BY <1>3 DEF HandledInv, FirstTimes
<1> QED BY <1>10, <1>11, <1>12

\* The handler sees the next record as it was transmitted.
LEMMA ReadsRecord ==
  ASSUME TypesInv, OneReceiver, NEW h \in Nat, NEW k \in Nat, NEW t \in Nat, NEW n \in Nat,
         RecordsInv(h, k, t, n), reader[R].pc = "handle"
  PROVE  /\ k + 1 \in 1 .. complete /\ k < t /\ reader[R].next = Rec(k + 1)
         /\ reader[R].length = BodyWords(k + 1) + 2
         /\ sent[k + 1] = [at |-> reader[R].next, msg |-> RecordRead(R)]
<1> USE DEF RecordsInv
<1>1. PICK i : i = k + 1
  OBVIOUS
<1>2. k < t /\ reader[R].next = Rec(i) /\ reader[R].length = BodyWords(i) + 2
  BY <1>1 DEF ReaderInv, MSG_HEADER_LENGTH
<1>3. i \in 1 .. complete /\ i \in 1 .. Len(sent) /\ i - 1 = k
  BY <1>1, <1>2, ReaderFacts
<1>4. /\ Rec(i) \in Nat /\ BodyWords(i) \in Nat
      /\ Index(Rec(i)) \in Nat /\ Index(Rec(i)) + BodyWords(i) + 3 <= Capacity
      /\ sent[i] \in [at : Nat, msg : SeenMessage]
  BY <1>3, RecordFacts
<1>5. BodyPut(data, i)
  <2>1. head <= Bound(k)
    BY ReaderFacts
  <2> QED BY <1>3, <2>1 DEF DataInv, RecordPut
<1>6. PICK x \in Nat, w \in Nat : x = Index(Rec(i)) /\ w = BodyWords(i)
  BY <1>4
<1>7. Capacity \in Nat \ {0} /\ x + w + 3 <= Capacity
  BY <1>4, <1>6, CapacityAssumption
<1>8. (x + 1) % Capacity = x + 1
  <2>1. x + 1 \in 0 .. Capacity - 1 /\ 0 * Capacity + (x + 1) = x + 1
    BY <1>7
  <2>2. (0 * Capacity + (x + 1)) % Capacity = x + 1
    BY <1>7, <2>1, Remainder
  <2> QED BY <2>1, <2>2
<1>9. /\ data[x + 1] = sent[i].msg.type
      /\ \A j \in 2 .. w + 1 : sent[i].msg.content = {data[x + j]}
      /\ w = 0 => sent[i].msg.content = {}
  <2>1. \A j \in 2 .. w + 1 : j \in MSG_HEADER_LENGTH .. BodyWords(i) + MSG_HEADER_LENGTH - 1
    BY <1>6 DEF MSG_HEADER_LENGTH
  <2> QED BY <1>5, <1>6, <2>1 DEF BodyPut
<1>10. {data[v] : v \in Words \cap (x + 2 .. x + (w + 2) - 1)} = sent[i].msg.content
  <2>1. CASE w = 0
    <3>1. Words \cap (x + 2 .. x + (w + 2) - 1) = {}
      BY <2>1
    <3> QED BY <1>9, <2>1, <3>1
  <2>2. CASE w # 0
    <3>1. 2 \in 2 .. w + 1 /\ x + 2 \in Words /\ x + 2 \in x + 2 .. x + (w + 2) - 1
      BY <1>7, <2>2 DEF Words
    <3>2. ASSUME NEW v \in x + 2 .. x + (w + 2) - 1 PROVE sent[i].msg.content = {data[v]}
      <4>1. PICK j : j = v - x
        OBVIOUS
      <4>2. j \in 2 .. w + 1 /\ x + j = v
        BY <4>1
      <4> QED BY <1>9, <4>2
    <3>3. \A v \in x + 2 .. x + (w + 2) - 1 : data[v] = data[x + 2]
      BY <3>1, <3>2
    <3>4. sent[i].msg.content = {data[x + 2]}
      BY <3>1, <3>2
    <3> QED BY <3>1, <3>3, <3>4
  <2> QED BY <2>1, <2>2
<1>11. RecordRead(R) = [type |-> sent[i].msg.type, words |-> w, content |-> sent[i].msg.content]
  <2>1. NextIndex(R) = x /\ reader[R].length = w + 2
    BY <1>2, <1>6 DEF NextIndex
  <2>2. (w + 2) - MSG_HEADER_LENGTH = w
    BY DEF MSG_HEADER_LENGTH
  <2> QED BY <1>8, <1>9, <1>10, <2>1, <2>2 DEF RecordRead, MSG_HEADER_LENGTH
<1>12. sent[i].msg = [type |-> sent[i].msg.type, words |-> w, content |-> sent[i].msg.content]
  BY <1>4, <1>6 DEF SeenMessage, BodyWords
<1>13. sent[i] = [at |-> Rec(i), msg |-> sent[i].msg]
  BY <1>4 DEF Rec
<1> QED BY <1>1, <1>2, <1>3, <1>11, <1>12, <1>13

\* What the handler takes next: the next record for the first time, or one again.
LEMMA HandledGrows ==
  ASSUME TypesInv, OneReceiver, SentInv, NEW k \in Nat, NEW n \in Nat, HandledInv(k, n),
         k + 1 \in 1 .. complete, UNCHANGED << sent, complete >>,
         handled' = [handled EXCEPT ![R] = Append(@, sent[k + 1])]
  PROVE  \E o \in Nat : /\ HandledInv(k + 1, o)'
                        /\ o = n \/ (o = n + 1 /\ n + 1 \in 1 .. complete)
<1>1. PICK L \in Nat : L = Len(handled[R])
  BY OnlyReceiver DEF TypesInv, TypeOK
<1>2. PICK e : e = sent[k + 1]
  OBVIOUS
<1>3. /\ complete \in Nat /\ Len(sent) \in Nat /\ complete <= Len(sent)
      /\ k + 1 \in 1 .. Len(sent) /\ e \in [at : Nat, msg : SeenMessage] /\ e.at = Rec(k + 1)
  <2>1. complete \in Nat /\ Len(sent) \in Nat /\ complete <= Len(sent)
    BY DEF TypesInv, TypeOK
  <2>2. k + 1 \in 1 .. Len(sent)
    BY <2>1
  <2>3. sent[k + 1] \in [at : Nat, msg : SeenMessage]
    BY <2>2, RecordFacts
  <2> QED BY <1>2, <2>1, <2>2, <2>3 DEF Rec
<1>4. /\ Len(handled'[R]) = L + 1 /\ handled'[R][L + 1] = e
      /\ \A i \in 1 .. L : handled'[R][i] = handled[R][i]
      /\ DOMAIN handled'[R] = 1 .. L + 1 /\ DOMAIN handled[R] = 1 .. L
  <2>1. PICK S : S = [at : Nat, msg : SeenMessage]
    OBVIOUS
  <2>2. PICK old : old = handled[R]
    OBVIOUS
  <2>3. old \in Seq(S) /\ e \in S /\ handled'[R] = Append(old, e)
    BY <1>2, <1>3, <2>1, <2>2, OnlyReceiver DEF TypesInv, TypeOK
  <2> QED BY <1>1, <2>2, <2>3
<1>5. k <= n /\ n <= complete
      /\ (\A i \in 1 .. L : \E j \in 1 .. n : handled[R][i] = sent[j])
      /\ \A j \in 1 .. n : \E i \in FirstTimes(R) : handled[R][i] = sent[j]
  BY <1>1 DEF HandledInv
<1>6. \A i \in FirstTimes(R) : i \in 1 .. L /\ i \in FirstTimes(R)'
  <2>1. ASSUME NEW i \in FirstTimes(R) PROVE i \in 1 .. L /\ i \in FirstTimes(R)'
    <3>1. i \in 1 .. L /\ \A j \in 1 .. i - 1 : handled[R][j].at < handled[R][i].at
      BY <1>4 DEF FirstTimes
    <3>2. \A j \in 1 .. i - 1 : j \in 1 .. L
      BY <3>1
    <3>3. i \in 1 .. L + 1
      BY <3>1
    <3>4. \A j \in 1 .. i - 1 : handled'[R][j].at < handled'[R][i].at
      BY <1>4, <3>1, <3>2
    <3> QED BY <1>4, <3>1, <3>3, <3>4 DEF FirstTimes
  <2> QED BY <2>1
<1>7. CASE k + 1 <= n
  <2>1. \A i \in 1 .. L + 1 : \E j \in 1 .. n : handled'[R][i] = sent[j]
    <3>1. k + 1 \in 1 .. n /\ \A i \in 1 .. L + 1 : i = L + 1 \/ i \in 1 .. L
      BY <1>7
    <3> QED BY <1>2, <1>4, <1>5, <3>1
  <2>2. \A j \in 1 .. n : \E i \in FirstTimes(R)' : handled'[R][i] = sent[j]
    BY <1>4, <1>5, <1>6
  <2>3. HandledInv(k + 1, n)'
    <3>1. k + 1 <= n /\ n <= complete'
      BY <1>5, <1>7
    <3>2. \A i \in 1 .. Len(handled'[R]) : \E j \in 1 .. n : handled'[R][i] = sent'[j]
      BY <1>4, <2>1
    <3>3. \A j \in 1 .. n : \E i \in FirstTimes(R)' : handled'[R][i] = sent'[j]
      BY <2>2
    <3> QED BY <3>1, <3>2, <3>3, Zenon DEF HandledInv
  <2> QED BY <2>3
<1>8. CASE ~ (k + 1 <= n)
  <2>1. n = k
    BY <1>5, <1>8
  <2>2. PICK o \in Nat : o = n + 1
    OBVIOUS
  <2>3. o = k + 1 /\ o \in 1 .. complete /\ o \in 1 .. o /\ \A j \in 1 .. o : j = o \/ j \in 1 .. n
    BY <2>1, <2>2
  <2>4. \A i \in 1 .. L + 1 : \E j \in 1 .. o : handled'[R][i] = sent[j]
    <3>1. \A j \in 1 .. n : j \in 1 .. o
      BY <2>2
    <3>2. \A i \in 1 .. L + 1 : i = L + 1 \/ i \in 1 .. L
      OBVIOUS
    <3>3. handled'[R][L + 1] = sent[o]
      BY <1>2, <1>4, <2>3
    <3>4. ASSUME NEW i \in 1 .. L PROVE \E j \in 1 .. o : handled'[R][i] = sent[j]
      <4>1. PICK j \in 1 .. n : handled[R][i] = sent[j]
        BY <1>5
      <4> QED BY <1>4, <3>1, <4>1
    <3>5. o \in 1 .. o
      BY <2>3
    <3> QED BY <3>2, <3>3, <3>4, <3>5
  <2>5. L + 1 \in FirstTimes(R)'
    <3>1. ASSUME NEW i \in 1 .. L PROVE handled[R][i].at < e.at
      <4>1. PICK j \in 1 .. n : handled[R][i] = sent[j]
        BY <1>5
      <4>2. j \in 1 .. Len(sent) /\ j < k + 1
        BY <1>3, <1>5, <2>1
      <4>3. Rec(j) < Rec(k + 1)
        BY <1>3, <4>2, RecordsApart
      <4> QED BY <1>3, <4>1, <4>3 DEF Rec
    <3>2. (L + 1) - 1 = L /\ L + 1 \in 1 .. L + 1
      OBVIOUS
    <3>3. \A i \in 1 .. L : handled'[R][i].at < handled'[R][L + 1].at
      BY <1>4, <3>1
    <3> QED BY <1>4, <3>2, <3>3 DEF FirstTimes
  <2>6. \A j \in 1 .. o : \E i \in FirstTimes(R)' : handled'[R][i] = sent[j]
    <3>1. handled'[R][L + 1] = sent[o]
      BY <1>2, <1>4, <2>3
    <3>2. ASSUME NEW j \in 1 .. n PROVE \E i \in FirstTimes(R)' : handled'[R][i] = sent[j]
      BY <1>4, <1>5, <1>6
    <3> QED BY <2>3, <2>5, <3>1, <3>2
  <2>7. HandledInv(k + 1, o)'
    <3>1. k + 1 <= o /\ o <= complete'
      BY <2>3
    <3>2. \A i \in 1 .. Len(handled'[R]) : \E j \in 1 .. o : handled'[R][i] = sent'[j]
      BY <1>4, <2>4
    <3>3. \A j \in 1 .. o : \E i \in FirstTimes(R)' : handled'[R][i] = sent'[j]
      BY <2>6
    <3> QED BY <3>1, <3>2, <3>3, Zenon DEF HandledInv
  <2> QED BY <2>2, <2>3, <2>7
<1> QED BY <1>7, <1>8

\* The handler is called, and the next record is behind this one.
LEMMA HandleKeeps ==
  ASSUME TypesInv, OneReceiver, NEW h \in Nat, NEW k \in Nat, NEW t \in Nat, NEW n \in Nat,
         RecordsInv(h, k, t, n), Handle(R)
  PROVE  \E o \in Nat : /\ RecordsInv(h, k + 1, t, o)'
                        /\ o = n \/ (o = n + 1 /\ n + 1 \in 1 .. complete)
<1> USE DEF RecordsInv
<1>1. PICK local \in LocalState : local = reader[R]
  BY ReaderFacts
<1>2. PICK i : i = k + 1
  OBVIOUS
<1>3. /\ i \in 1 .. complete /\ i \in 1 .. Len(sent) /\ i \in Nat
      /\ k < t /\ local.next = Rec(i) /\ local.length = BodyWords(i) + 2
      /\ sent[i] = [at |-> local.next, msg |-> RecordRead(R)]
  <2>1. reader[R].pc = "handle"
    BY DEF Handle
  <2>2. /\ i \in 1 .. complete /\ k < t /\ local.next = Rec(i) /\ local.length = BodyWords(i) + 2
        /\ sent[i] = [at |-> local.next, msg |-> RecordRead(R)]
    BY <1>1, <1>2, <2>1, ReadsRecord
  <2>3. i \in 1 .. Len(sent) /\ i \in Nat
    BY <1>2, <2>2, ReaderFacts
  <2> QED BY <2>2, <2>3
<1>4. local.next + local.length + LENGTH_WORD = Bound(i)
  <2>1. Rec(i) \in Nat /\ BodyWords(i) \in Nat /\ Bound(i) = Rec(i) + BodyWords(i) + 3
    BY <1>3, RecordFacts
  <2> QED BY <1>3, <2>1 DEF LENGTH_WORD
<1>5. /\ reader' = [reader EXCEPT ![R] =
           [local EXCEPT !.pc = "loop", !.next = Bound(i), !.length = 0, !.count = local.count + 1]]
      /\ handled' = [handled EXCEPT ![R] = Append(@, sent[i])]
      /\ UNCHANGED << head, tail, data, transmitter, position, sent, complete >>
  BY <1>1, <1>3, <1>4 DEF Handle, buffer
<1>6. /\ reader'[R].pc = "loop" /\ reader'[R].next = Bound(i) /\ reader'[R].tail = local.tail
      /\ reader'[R].count = local.count + 1
  <2>1. reader \in [Receivers -> LocalState] /\ R \in Receivers
    BY ReaderFacts
  <2> QED BY <1>5, <2>1 DEF LocalState
<1>7. /\ SentInv' /\ TransmitterInv' /\ DataInv'
      /\ \A j : Bound(j)' = Bound(j) /\ Rec(j)' = Rec(j) /\ BodyWords(j)' = BodyWords(j)
  <2>1. head \in Nat
    BY ReaderFacts
  <2>2. head' \in Nat /\ head <= head'
    BY <1>5, <2>1
  <2> QED BY <1>5, <2>2, ReceiveLeaves
<1>8. ReaderInv(h, i, t)'
  <2>1. local.count + 1 # 0
    BY DEF LocalState
  <2>2. /\ h <= k /\ t <= complete /\ head = Bound(h) /\ position[R] = head
        /\ local.tail = Bound(t)
    BY <1>1 DEF ReaderInv, Handle
  <2>3. h <= i /\ i <= t
    BY <1>2, <1>3, <2>2
  <2> QED BY <1>5, <1>6, <1>7, <2>1, <2>2, <2>3 DEF ReaderInv
<1>9. PICK o \in Nat : /\ HandledInv(k + 1, o)'
                       /\ o = n \/ (o = n + 1 /\ n + 1 \in 1 .. complete)
  BY <1>2, <1>3, <1>5, HandledGrows
<1> QED BY <1>2, <1>7, <1>8, <1>9

\* After an exception the records are still there, and the receiver is where it was.
LEMMA ThrowKeeps ==
  ASSUME TypesInv, OneReceiver, NEW h \in Nat, NEW k \in Nat, NEW t \in Nat, NEW n \in Nat,
         RecordsInv(h, k, t, n), HandlerThrows(R)
  PROVE  RecordsInv(h, k, t, n)'
<1> USE DEF RecordsInv
<1>1. /\ reader'[R].pc = "idle"
      /\ UNCHANGED << head, tail, data, transmitter, position, sent, complete, handled >>
  BY ReaderFacts DEF HandlerThrows, NotReceiving, buffer, history
<1>2. /\ SentInv' /\ TransmitterInv' /\ DataInv'
      /\ \A i : Bound(i)' = Bound(i) /\ Rec(i)' = Rec(i) /\ BodyWords(i)' = BodyWords(i)
  <2>1. head \in Nat
    BY ReaderFacts
  <2>2. head' \in Nat /\ head <= head'
    BY <1>1, <2>1
  <2> QED BY <1>1, <2>2, ReceiveLeaves
<1>3. ReaderInv(h, k, t)'
  BY <1>1, <1>2 DEF ReaderInv
<1>4. HandledInv(k, n)'
  BY <1>1 DEF HandledInv, FirstTimes
<1> QED BY <1>2, <1>3, <1>4

\* The head follows the position: if the handler took nothing there was nothing.
LEMMA StoreKeeps ==
  ASSUME TypesInv, OneReceiver, NEW h \in Nat, NEW k \in Nat, NEW t \in Nat, NEW n \in Nat,
         RecordsInv(h, k, t, n), StorePosition(R)
  PROVE  RecordsInv(t, t, t, n)'
<1> USE DEF RecordsInv
<1>1. PICK local \in LocalState : local = reader[R]
  BY ReaderFacts
<1>2. /\ k = t /\ local.next = Bound(t) /\ (local.count = 0 => k = h)
      /\ head = Bound(h) /\ h <= k /\ t <= complete
  BY <1>1 DEF ReaderInv, StorePosition
<1>3. /\ reader'[R].pc = "idle" /\ position'[R] = local.next
      /\ head' = IF local.count > 0 THEN local.next ELSE head
      /\ UNCHANGED << tail, data, transmitter, sent, complete, handled >>
  BY <1>1, ReaderFacts DEF StorePosition, NotReceiving, history
<1>4. head' = Bound(t)
  <2>1. local.count = 0 \/ local.count > 0
    BY DEF LocalState
  <2> QED BY <1>2, <1>3, <2>1
<1>5. /\ SentInv' /\ TransmitterInv' /\ DataInv'
      /\ \A i : Bound(i)' = Bound(i) /\ Rec(i)' = Rec(i) /\ BodyWords(i)' = BodyWords(i)
  <2>1. head' \in Nat /\ head <= head'
    BY <1>2, <1>4, ReaderFacts
  <2> QED BY <1>3, <2>1, ReceiveLeaves
<1>6. ReaderInv(t, t, t)'
  BY <1>2, <1>3, <1>4, <1>5 DEF ReaderInv
<1>7. HandledInv(t, n)'
  BY <1>2, <1>3 DEF HandledInv, FirstTimes
<1> QED BY <1>5, <1>6, <1>7

\* The buffer begins empty.
LEMMA RecordsInit ==
  ASSUME Init, OneReceiver
  PROVE  RecordsInv(0, 0, 0, 0)
<1>1. R \in Receivers
  BY OnlyReceiver
<1>2. /\ head = 0 /\ tail = 0 /\ sent = << >> /\ Len(sent) = 0 /\ complete = 0
      /\ position[R] = 0 /\ reader[R].pc = "idle" /\ handled[R] = << >>
      /\ Len(handled[R]) = 0 /\ transmitter.pc = "idle"
  BY <1>1 DEF Init, NotReceiving, NotTransmitting
<1>3. Bound(0) = 0
  BY DEF Bound
<1>4. SentInv
  BY <1>2 DEF SentInv
<1>5. TransmitterInv
  BY <1>2, <1>3, CapacityAssumption DEF TransmitterInv
<1>6. DataInv
  BY <1>2 DEF DataInv
<1>7. ReaderInv(0, 0, 0)
  BY <1>2, <1>3 DEF ReaderInv
<1>8. HandledInv(0, 0)
  BY <1>2 DEF HandledInv
<1> QED BY <1>4, <1>5, <1>6, <1>7, <1>8 DEF RecordsInv

\* Every step of the transmitter keeps the records.
LEMMA TransmitterKeeps ==
  ASSUME TypesInv, NEW h \in Nat, NEW k \in Nat, NEW t \in Nat, NEW n \in Nat,
         RecordsInv(h, k, t, n), (\E m \in Messages : Transmit(m)) \/ TransmitStep
  PROVE  RecordsInv(h, k, t, n)'
  BY AcceptKeeps, PaddingKeeps, BodyKeeps, LengthKeeps, PublishKeeps DEF TransmitStep

\* Every step of the receiver does; it takes the next record, or none for the first time.
LEMMA ReceiverKeeps ==
  ASSUME TypesInv, OneReceiver, NEW h \in Nat, NEW k \in Nat, NEW t \in Nat, NEW n \in Nat,
         RecordsInv(h, k, t, n), ReceiveStep(R) \/ HandlerThrows(R)
  PROVE  \E h2, k2, t2, o \in Nat :
           /\ RecordsInv(h2, k2, t2, o)'
           /\ o = n \/ (o = n + 1 /\ n + 1 \in 1 .. complete)
<1>1. CASE Receive(R)
  BY <1>1, ReceiveKeeps
<1>2. CASE EndOfRecords(R)
  BY <1>2, EndKeeps
<1>3. CASE LoadLength(R)
  BY <1>3, LoadKeeps
<1>4. CASE Handle(R)
  <2>1. PICK o \in Nat : /\ RecordsInv(h, k + 1, t, o)'
                         /\ o = n \/ (o = n + 1 /\ n + 1 \in 1 .. complete)
    BY <1>4, HandleKeeps
  <2>2. k + 1 \in Nat
    OBVIOUS
  <2> QED BY <2>1, <2>2
<1>5. CASE StorePosition(R)
  BY <1>5, StoreKeeps
<1>6. CASE HandlerThrows(R)
  BY <1>6, ThrowKeeps
<1> QED BY <1>1, <1>2, <1>3, <1>4, <1>5, <1>6 DEF ReceiveStep

\* A step that changes nothing.
LEMMA StutterKeeps ==
  ASSUME NEW h \in Nat, NEW k \in Nat, NEW t \in Nat, NEW n \in Nat,
         RecordsInv(h, k, t, n), UNCHANGED vars
  PROVE  RecordsInv(h, k, t, n)'
<1>1. UNCHANGED << head, tail, data, transmitter, position, reader, sent, complete, handled >>
  BY DEF vars, buffer, history
<1>2. SentInv' /\ TransmitterInv'
  BY <1>1 DEF RecordsInv, SentInv, TransmitterInv, PaddingPut, BodyPut, LengthPut, Rec, BodyWords,
              Bound
<1>3. DataInv'
  BY <1>1 DEF RecordsInv, DataInv, RecordPut, PaddingPut, BodyPut, LengthPut, Rec, BodyWords, Bound
<1>4. ReaderInv(h, k, t)'
  BY <1>1 DEF RecordsInv, ReaderInv, Rec, BodyWords, Bound
<1>5. HandledInv(k, n)'
  BY <1>1 DEF RecordsInv, HandledInv, FirstTimes
<1> QED BY <1>2, <1>3, <1>4, <1>5 DEF RecordsInv

\* The invariant, of a buffer with one receiver.
THEOREM InvCorrect == ASSUME OneReceiver PROVE Spec => []IInv
<1>1. Init => IInv
  <2>1. ASSUME Init PROVE TypesInv /\ RecordsInv(0, 0, 0, 0)
    BY <2>1, TypesInit, RecordsInit
  <2> QED BY <2>1 DEF IInv
<1>2. IInv /\ [Next]_vars => IInv'
  <2>1. SUFFICES ASSUME IInv, [Next]_vars PROVE IInv'
    OBVIOUS
  <2>2. PICK h, k, t, n \in Nat : RecordsInv(h, k, t, n)
    BY <2>1 DEF IInv
  <2>3. TypesInv /\ TypesInv'
    BY <2>1, TypesStep DEF IInv
  <2>4. CASE (\E m \in Messages : Transmit(m)) \/ TransmitStep
    <3>1. RecordsInv(h, k, t, n)'
      BY <2>2, <2>3, <2>4, TransmitterKeeps
    <3> QED BY <2>3, <3>1 DEF IInv
  <2>5. CASE \E r \in Receivers : ReceiveStep(r) \/ HandlerThrows(r)
    <3>1. ReceiveStep(R) \/ HandlerThrows(R)
      BY <2>5, OnlyReceiver
    <3>2. PICK h2, k2, t2, o \in Nat : RecordsInv(h2, k2, t2, o)'
      BY <2>2, <2>3, <3>1, ReceiverKeeps
    <3> QED BY <2>3, <3>2 DEF IInv
  <2>6. CASE UNCHANGED vars
    <3>1. RecordsInv(h, k, t, n)'
      BY <2>2, <2>6, StutterKeeps
    <3> QED BY <2>3, <3>1 DEF IInv
  <2> QED BY <2>1, <2>4, <2>5, <2>6 DEF Next
<1> QED BY <1>1, <1>2, PTL DEF Spec

-----------------------------------------------------------------------------
(* What the handler has taken for the first time, in order.                 *)

\* A set of numbers is enumerated in increasing order in one way only.
LEMMA OneEnumeration ==
  ASSUME NEW S \in SUBSET Nat, NEW n \in Nat, NEW f \in [1 .. n -> S], NEW g \in [1 .. n -> S],
         \A i, j \in 1 .. n : i < j => f[i] < f[j],
         \A i, j \in 1 .. n : i < j => g[i] < g[j],
         \A s \in S : \E i \in 1 .. n : f[i] = s,
         \A s \in S : \E i \in 1 .. n : g[i] = s
  PROVE  f = g
<1>1. SUFFICES ASSUME NEW d \in 1 .. n, f[d] # g[d] PROVE FALSE
  OBVIOUS
<1>2. PICK k \in 1 .. n : f[k] # g[k] /\ \A i \in 1 .. n : i < k => f[i] = g[i]
  <2> DEFINE D == {i \in 1 .. n : f[i] # g[i]}
  <2>1. D \in SUBSET Nat /\ D # {}
    BY <1>1
  <2> HIDE DEF D
  <2>2. PICK k \in D : \A i \in D : ~ (<< i, k >> \in OpToRel(<, Nat))
    BY <2>1, NatLessThanWellFounded, WFMin
  <2>3. \A i \in D : ~ (i < k)
    <3>1. ASSUME NEW i \in D, i < k PROVE << i, k >> \in OpToRel(<, Nat)
      <4>1. << i, k >> \in Nat \X Nat
        BY <2>1
      <4> QED BY <3>1, <4>1 DEF OpToRel
    <3> QED BY <2>2, <3>1
  <2> QED BY <2>3 DEF D
<1>3. f[k] \in Nat /\ g[k] \in Nat /\ f[k] \in S /\ g[k] \in S
  OBVIOUS
<1>4. CASE f[k] < g[k]
  <2>1. PICK i \in 1 .. n : g[i] = f[k]
    BY <1>3
  <2>2. ~ (k < i) /\ i # k
    BY <1>3, <1>4, <2>1
  <2>3. i < k
    BY <2>2
  <2>4. f[i] = f[k] /\ f[i] < f[k]
    BY <1>2, <2>1, <2>3
  <2> QED BY <1>3, <2>4
<1>5. CASE g[k] < f[k]
  <2>1. PICK i \in 1 .. n : f[i] = g[k]
    BY <1>3
  <2>2. ~ (k < i) /\ i # k
    BY <1>3, <1>5, <2>1
  <2>3. i < k
    BY <2>2
  <2>4. g[i] = g[k] /\ g[i] < g[k]
    BY <1>2, <2>1, <2>3
  <2> QED BY <1>3, <2>4
<1> QED BY <1>2, <1>3, <1>4, <1>5

\* Such an enumeration is the one of as many as the set has.
LEMMA TheEnumeration ==
  ASSUME NEW S \in SUBSET Nat, NEW n \in Nat, NEW g \in [1 .. n -> S],
         \A i, j \in 1 .. n : i < j => g[i] < g[j],
         \A s \in S : \E i \in 1 .. n : g[i] = s
  PROVE  /\ Cardinality(S) = n
         /\ g = CHOOSE f \in [1 .. n -> S] : \A i, j \in 1 .. n : i < j => f[i] < f[j]
<1>1. ASSUME NEW f \in [1 .. n -> S], \A i, j \in 1 .. n : i < j => f[i] < f[j]
      PROVE  f \in Injection(1 .. n, S)
  <2>1. \A i, j \in 1 .. n : i # j => f[i] # f[j]
    <3>1. SUFFICES ASSUME NEW i \in 1 .. n, NEW j \in 1 .. n, i # j PROVE f[i] # f[j]
      OBVIOUS
    <3>2. f[i] \in S /\ f[j] \in S
      OBVIOUS
    <3>3. f[i] \in Nat /\ f[j] \in Nat
      BY <3>2
    <3>4. i < j \/ j < i
      BY <3>1
    <3>5. f[i] < f[j] \/ f[j] < f[i]
      BY <1>1, <3>4
    <3> QED BY <3>3, <3>5
  <2> QED BY <2>1 DEF Injection, IsInjective
<1>2. g \in Surjection(1 .. n, S)
  BY DEF Surjection
<1>3. g \in Bijection(1 .. n, S)
  BY <1>1, <1>2 DEF Bijection
<1>4. IsFiniteSet(1 .. n) /\ Cardinality(1 .. n) = n
  BY FS_Interval
<1>5. IsFiniteSet(S) /\ Cardinality(S) = n
  <2>1. ExistsBijection(1 .. n, S)
    BY <1>3 DEF ExistsBijection
  <2> QED BY <1>4, <2>1, FS_Bijection
<1>6. PICK f \in [1 .. n -> S] :
        /\ \A i, j \in 1 .. n : i < j => f[i] < f[j]
        /\ f = CHOOSE h \in [1 .. n -> S] : \A i, j \in 1 .. n : i < j => h[i] < h[j]
  OBVIOUS
<1>7. f \in Injection(1 .. n, S)
  BY <1>1, <1>6
<1>8. f \in Surjection(1 .. n, S)
  BY <1>4, <1>5, <1>7, FS_Injection
<1>9. f = g
  <2>1. \A s \in S : \E i \in 1 .. n : f[i] = s
    BY <1>8 DEF Surjection
  <2> QED BY <1>6, <2>1, OneEnumeration
<1> QED BY <1>5, <1>6, <1>9

\* The first times the handler took a record were those of the first n records.
LEMMA FirstTimeTaken ==
  ASSUME TypesInv, OneReceiver, SentInv, NEW k \in Nat, NEW n \in Nat, HandledInv(k, n)
  PROVE  FirstTime(R) = [j \in 1 .. n |-> sent[j].msg]
<1>1. /\ n \in Nat /\ n <= Len(sent) /\ Len(sent) \in Nat
      /\ \A j \in 1 .. n : j \in 1 .. Len(sent) /\ Rec(j) \in Nat
  <2>1. complete \in Nat /\ complete <= Len(sent) /\ Len(sent) \in Nat /\ n <= complete
    BY DEF TypesInv, TypeOK, HandledInv
  <2>2. \A j \in 1 .. n : j \in 1 .. Len(sent)
    BY <2>1
  <2>3. \A j \in 1 .. n : Rec(j) \in Nat
    <3>1. ASSUME NEW j \in 1 .. n PROVE Rec(j) \in Nat
      <4>1. j \in 1 .. Len(sent)
        BY <2>2
      <4> QED BY <4>1, RecordFacts
    <3> QED BY <3>1
  <2> QED BY <2>1, <2>2, <2>3
<1>2. PICK F : F = FirstTimes(R)
  OBVIOUS
<1>3. PICK taken : taken = handled[R]
  OBVIOUS
<1>4. DOMAIN taken = 1 .. Len(taken) /\ Len(taken) \in Nat
  <2>1. PICK S : S = [at : Nat, msg : SeenMessage]
    OBVIOUS
  <2>2. taken \in Seq(S)
    BY <1>3, <2>1, OnlyReceiver DEF TypesInv, TypeOK
  <2> QED BY <2>2
<1>5. /\ F \in SUBSET Nat
      /\ \A i \in F : i \in 1 .. Len(taken) /\ \A j \in 1 .. i - 1 : taken[j].at < taken[i].at
  BY <1>2, <1>3, <1>4 DEF FirstTimes
<1>6. /\ \A j \in 1 .. n : \E i \in F : taken[i] = sent[j]
      /\ \A i \in F : \E j \in 1 .. n : taken[i] = sent[j]
  BY <1>2, <1>3, <1>5 DEF HandledInv
<1>7. ASSUME NEW i \in F, NEW j \in F, i < j PROVE taken[i].at < taken[j].at
  <2>1. i \in 1 .. j - 1
    BY <1>5, <1>7
  <2> QED BY <1>5, <2>1
<1>8. ASSUME NEW i \in F, NEW j \in 1 .. n, taken[i] = sent[j]
      PROVE  taken[i].at = Rec(j) /\ taken[i].at \in Nat
  BY <1>1, <1>8 DEF Rec
<1> DEFINE g == [j \in 1 .. n |-> CHOOSE i \in F : taken[i] = sent[j]]
<1>9. \A j \in 1 .. n : g[j] \in F /\ taken[g[j]] = sent[j]
  BY <1>6
<1>10. g \in [1 .. n -> F] /\ \A i \in F : i \in Nat
  BY <1>5, <1>9
<1> HIDE DEF g
<1>11. \A i, j \in 1 .. n : i < j => g[i] < g[j]
  <2>1. SUFFICES ASSUME NEW i \in 1 .. n, NEW j \in 1 .. n, i < j PROVE g[i] < g[j]
    OBVIOUS
  <2>2. g[i] \in F /\ g[j] \in F /\ taken[g[i]].at = Rec(i) /\ taken[g[j]].at = Rec(j)
    BY <1>8, <1>9
  <2>3. Rec(i) < Rec(j) /\ Rec(i) \in Nat /\ Rec(j) \in Nat
    BY <1>1, <2>1, RecordsApart
  <2>4. ~ (g[j] < g[i]) /\ g[i] # g[j]
    BY <1>7, <2>2, <2>3
  <2>5. g[i] \in Nat /\ g[j] \in Nat
    BY <1>10, <2>2
  <2> QED BY <2>4, <2>5
<1>12. \A i \in F : \E j \in 1 .. n : g[j] = i
  <2>1. SUFFICES ASSUME NEW i \in F PROVE \E j \in 1 .. n : g[j] = i
    OBVIOUS
  <2>2. PICK j \in 1 .. n : taken[i] = sent[j]
    BY <1>6
  <2>3. g[j] \in F /\ taken[g[j]] = sent[j]
    BY <1>9
  <2>4. taken[i].at \in Nat /\ taken[g[j]].at = taken[i].at
    BY <1>8, <2>2, <2>3
  <2>5. ~ (g[j] < i) /\ ~ (i < g[j])
    BY <1>7, <2>3, <2>4
  <2>6. g[j] \in Nat /\ i \in Nat
    BY <1>10, <2>3
  <2>7. g[j] = i
    BY <2>5, <2>6
  <2> QED BY <2>7
<1>13. /\ Cardinality(F) = n
       /\ g = CHOOSE f \in [1 .. n -> F] : \A i, j \in 1 .. n : i < j => f[i] < f[j]
  BY <1>5, <1>10, <1>11, <1>12, TheEnumeration
<1>14. FirstTime(R) = [j \in 1 .. n |-> taken[g[j]].msg]
  BY <1>2, <1>3, <1>13 DEF FirstTime
<1>15. \A j \in 1 .. n : taken[g[j]].msg = sent[j].msg
  BY <1>9
<1> QED BY <1>14, <1>15

-----------------------------------------------------------------------------
(* What the runs check, for every capacity.                                 *)

\* With one receiver a record that is handed out again is what it was: its words are
\* not released before its head is stored, after the handler.
THEOREM HandedOutAgain == ASSUME OneReceiver PROVE Spec => []RedeliveredUnchanged
<1>1. ASSUME IInv PROVE RedeliveredUnchanged
  <2>1. PICK h, k, t, n \in Nat : RecordsInv(h, k, t, n)
    BY <1>1 DEF IInv
  <2>2. TypesInv /\ TypeOK /\ SentInv /\ HandledInv(k, n) /\ R \in Receivers
    BY <1>1, <2>1, OnlyReceiver DEF IInv, TypesInv, RecordsInv
  <2>3. \A j \in 1 .. n : j \in 1 .. Len(sent)
    BY <2>2 DEF HandledInv, TypeOK
  <2>4. ASSUME NEW i \in DOMAIN handled[R], NEW j \in DOMAIN handled[R],
               handled[R][i].at = handled[R][j].at
        PROVE  handled[R][i].msg = handled[R][j].msg
    <3>1. DOMAIN handled[R] = 1 .. Len(handled[R])
      BY <2>2 DEF TypeOK
    <3>2. PICK a \in 1 .. n : handled[R][i] = sent[a]
      BY <2>2, <3>1 DEF HandledInv
    <3>3. PICK b \in 1 .. n : handled[R][j] = sent[b]
      BY <2>2, <3>1 DEF HandledInv
    <3>4. a \in 1 .. Len(sent) /\ b \in 1 .. Len(sent) /\ Rec(a) = Rec(b)
      BY <2>3, <2>4, <3>2, <3>3 DEF Rec
    <3>5. a = b
      BY <2>2, <3>4, RecordsApart
    <3> QED BY <3>2, <3>3, <3>5
  <2> QED BY <2>2, <2>4, OnlyReceiver DEF RedeliveredUnchanged
<1> QED BY <1>1, InvCorrect, PTL

\* Once the one receiver has read everything, a message of at most half the buffer is
\* accepted wherever the tail is: the whole buffer is free, so the padding fits too.
THEOREM AcceptedWhenRead == ASSUME OneReceiver PROVE Spec => []RefusedOnlyWhenUnread
<1>1. ASSUME IInv PROVE RefusedOnlyWhenUnread
  <2>1. PICK h, k, t, n \in Nat : RecordsInv(h, k, t, n)
    BY <1>1 DEF IInv
  <2>2. TypesInv /\ ReaderInv(h, k, t) /\ R \in Receivers
    BY <1>1, <2>1, OnlyReceiver DEF IInv, RecordsInv
  <2>3. SUFFICES ASSUME position[R] = tail, NEW m \in Messages,
                        2 * RequiredCapacity(m) <= Capacity
                 PROVE  Fits(m)
    BY <2>2 DEF RefusedOnlyWhenUnread
  <2>4. head = tail /\ head \in Nat /\ tail \in Nat
    BY <2>2, <2>3 DEF ReaderInv, TypesInv, TypeOK
  <2>5. Available = Capacity
    BY <2>4, CapacityAssumption DEF Available
  <2>6. PICK required : required = RequiredCapacity(m)
    OBVIOUS
  <2>7. required \in Nat
    BY <2>6, MessageAssumption
       DEF RequiredCapacity, RecordLength, MSG_HEADER_LENGTH, LENGTH_WORD
  <2>8. ToBufferEnd(tail) \in Nat
    BY <2>4, BufferEndType
  <2>9. Padding(m, tail) \in Nat /\ Padding(m, tail) <= required
    BY <2>6, <2>7, <2>8 DEF Padding
  <2> QED BY <2>3, <2>5, <2>6, <2>7, <2>9, CapacityAssumption DEF Fits
<1> QED BY <1>1, InvCorrect, PTL

-----------------------------------------------------------------------------
(* The channel.                                                             *)

\* The messages of what was sent, one more appended.
LEMMA SentAppend ==
  ASSUME NEW s \in Seq([at : Nat, msg : SeenMessage]), NEW e \in [at : Nat, msg : SeenMessage]
  PROVE  [i \in DOMAIN Append(s, e) |-> Append(s, e)[i].msg]
           = Append([i \in DOMAIN s |-> s[i].msg], e.msg)
<1> DEFINE views == [i \in DOMAIN s |-> s[i].msg]
           longer == Append(s, e)
<1>1. PICK S : S = [at : Nat, msg : SeenMessage]
  OBVIOUS
<1>2. s \in Seq(S) /\ e \in S
  BY <1>1
<1>3. /\ DOMAIN s = 1 .. Len(s) /\ Len(s) \in Nat /\ DOMAIN longer = 1 .. Len(s) + 1
      /\ longer[Len(s) + 1] = e /\ \A i \in 1 .. Len(s) : longer[i] = s[i]
  BY <1>2
<1> HIDE DEF longer
<1>4. views \in Seq({s[i].msg : i \in 1 .. Len(s)}) /\ Len(views) = Len(s)
  BY <1>3
<1>5. Append(views, e.msg)
        = [i \in 1 .. Len(s) + 1 |-> IF i = Len(s) + 1 THEN e.msg ELSE views[i]]
  BY <1>3, <1>4
<1>6. \A i \in 1 .. Len(s) + 1 : longer[i].msg = IF i = Len(s) + 1 THEN e.msg ELSE views[i]
  BY <1>3
<1>7. [i \in DOMAIN longer |-> longer[i].msg] = Append(views, e.msg)
  <2> HIDE DEF views
  <2> QED BY <1>3, <1>5, <1>6
<1> QED BY <1>7 DEF longer

\* What the receiver has taken, said as a state predicate: it holds in every state, so
\* also in the next.
TakenInOrder ==
  \A k, n \in Nat :
    TypesInv /\ SentInv /\ HandledInv(k, n) => FirstTime(R) = [j \in 1 .. n |-> sent[j].msg]

\* A step that takes nothing for the first time leaves the channel's received alone.
LEMMA SameReceived ==
  ASSUME NEW n \in Nat, n <= Len(sent), Len(sent) \in Nat,
         FirstTime(R) = [j \in 1 .. n |-> sent[j].msg],
         FirstTime(R)' = [j \in 1 .. n |-> sent'[j].msg],
         \A j \in 1 .. Len(sent) : sent'[j] = sent[j]
  PROVE  FirstTime(R)' = FirstTime(R)
<1>1. \A j \in 1 .. n : sent'[j].msg = sent[j].msg
  <2>1. \A j \in 1 .. n : j \in 1 .. Len(sent)
    OBVIOUS
  <2> QED BY <2>1
<1> QED BY <1>1

\* transmit() reserves a place with the message it accepts, and completes it with the
\* store of the tail.
LEMMA TransmitterOfChannel ==
  ASSUME TypesInv, TypesInv', OneReceiver, TakenInOrder, TakenInOrder',
         NEW h \in Nat, NEW k \in Nat, NEW t \in Nat, NEW n \in Nat, RecordsInv(h, k, t, n),
         (\E m \in Messages : Transmit(m)) \/ TransmitStep
  PROVE  [Channel!Next]_(Channel!channel)
<1> DEFINE views == [i \in DOMAIN sent |-> sent[i].msg]
           received == FirstTime(CHOOSE r \in Receivers : TRUE)
<1>1. SentInv /\ HandledInv(k, n) /\ SentInv' /\ HandledInv(k, n)'
  BY TransmitterKeeps DEF RecordsInv
<1>2. /\ FirstTime(R) = [j \in 1 .. n |-> sent[j].msg]
      /\ FirstTime(R)' = [j \in 1 .. n |-> sent'[j].msg]
  BY <1>1 DEF TakenInOrder
<1>3. /\ n <= Len(sent) /\ Len(sent) \in Nat /\ DOMAIN sent = 1 .. Len(sent)
      /\ complete \in Nat /\ complete <= Len(sent)
      /\ sent \in Seq([at : Nat, msg : SeenMessage])
  BY <1>1 DEF HandledInv, TypesInv, TypeOK
<1>4. CASE \E m \in Messages : Transmit(m)
  <2>1. PICK m \in Messages : Transmit(m)
    BY <1>4
  <2>2. PICK e : e = [at |-> tail + Padding(m, tail), msg |-> View(m)]
    OBVIOUS
  <2>3. sent' = Append(sent, e) /\ complete' = complete /\ e.msg = View(m)
    BY <2>1, <2>2 DEF Transmit
  <2>4. e \in [at : Nat, msg : SeenMessage]
    <3>1. tail \in Nat /\ Padding(m, tail) \in Nat
      BY BufferEndType DEF TypesInv, TypeOK, Padding
    <3>2. View(m) \in SeenMessage
      BY MessageFacts
    <3>3. tail + Padding(m, tail) \in Nat
      BY <3>1
    <3> QED BY <2>2, <3>2, <3>3
  <2>5. views' = Append(views, View(m))
    BY <1>3, <2>3, <2>4, SentAppend
  <2>6. \A j \in 1 .. Len(sent) : sent'[j] = sent[j]
    <3>1. PICK S : S = [at : Nat, msg : SeenMessage]
      OBVIOUS
    <3>2. sent \in Seq(S) /\ e \in S
      BY <1>3, <2>4, <3>1
    <3> QED BY <2>3, <3>2
  <2>7. received' = received
    BY <1>2, <1>3, <2>6, SameReceived DEF R
  <2>8. Channel!Reserve(View(m))
    BY <2>3, <2>5, <2>7 DEF Channel!Reserve
  <2> QED BY <2>8 DEF Channel!Next
<1>5. CASE TransmitStep
  <2>1. sent' = sent /\ \A j \in 1 .. Len(sent) : sent'[j] = sent[j]
    BY <1>5 DEF TransmitStep, PutPadding, PutTypeAndBody, PutLength, PublishTail, history
  <2>2. views' = views /\ received' = received
    <3>1. views' = views
      BY <2>1
    <3>2. received' = received
      BY <1>2, <1>3, <2>1, SameReceived DEF R
    <3> QED BY <3>1, <3>2
  <2>3. CASE PublishTail
    <3>1. complete' = complete + 1 /\ complete + 1 = Len(sent)
      BY <2>3 DEF PublishTail, TypesInv, Accepted
    <3>2. PICK i : i = complete + 1
      OBVIOUS
    <3>3. i \in 1 .. Len(sent) \ 1 .. complete /\ 1 .. complete' = (1 .. complete) \cup {i}
      BY <1>3, <3>1, <3>2
    <3>4. Len(views) = Len(sent)
      BY <1>3
    <3>5. i \in 1 .. Len(views) \ 1 .. complete
      BY <3>3, <3>4
    <3>6. Channel!Complete(i)
      BY <2>2, <3>3, <3>5 DEF Channel!Complete
    <3> QED BY <3>5, <3>6 DEF Channel!Next
  <2>4. CASE PutPadding \/ PutTypeAndBody \/ PutLength
    <3>1. complete' = complete
      BY <2>4 DEF PutPadding, PutTypeAndBody, PutLength, history
    <3> QED BY <2>2, <3>1 DEF Channel!channel
  <2> QED BY <1>5, <2>3, <2>4 DEF TransmitStep
<1> QED BY <1>4, <1>5

\* receive() takes the next message of the channel with the handler's call, unless it
\* hands a record out again.
LEMMA ReceiverOfChannel ==
  ASSUME TypesInv, TypesInv', OneReceiver, TakenInOrder, TakenInOrder',
         NEW h \in Nat, NEW k \in Nat, NEW t \in Nat, NEW n \in Nat, RecordsInv(h, k, t, n),
         ReceiveStep(R) \/ HandlerThrows(R)
  PROVE  [Channel!Next]_(Channel!channel)
<1> DEFINE views == [i \in DOMAIN sent |-> sent[i].msg]
           received == FirstTime(CHOOSE r \in Receivers : TRUE)
<1>1. PICK h2, k2, t2, o \in Nat :
        /\ RecordsInv(h2, k2, t2, o)'
        /\ o = n \/ (o = n + 1 /\ n + 1 \in 1 .. complete)
  BY ReceiverKeeps
<1>2. sent' = sent /\ complete' = complete
  BY DEF ReceiveStep, Receive, EndOfRecords, LoadLength, Handle, StorePosition, HandlerThrows,
         history
<1>3. SentInv /\ HandledInv(k, n) /\ SentInv' /\ HandledInv(k2, o)'
  BY <1>1 DEF RecordsInv
<1>4. /\ FirstTime(R) = [j \in 1 .. n |-> sent[j].msg]
      /\ FirstTime(R)' = [j \in 1 .. o |-> sent[j].msg]
  BY <1>2, <1>3 DEF TakenInOrder
<1>5. /\ DOMAIN sent = 1 .. Len(sent) /\ Len(sent) \in Nat
      /\ complete \in Nat /\ complete <= Len(sent)
  BY DEF TypesInv, TypeOK
<1>6. views' = views
  BY <1>2
<1>7. CASE o = n
  <2>1. received' = received
    BY <1>4, <1>7 DEF R
  <2> QED BY <1>2, <1>6, <2>1 DEF Channel!channel
<1>8. CASE o = n + 1 /\ n + 1 \in 1 .. complete
  <2>1. PICK s : s = [j \in 1 .. n |-> sent[j].msg]
    OBVIOUS
  <2>2. Len(s) = n /\ Append(s, sent[n + 1].msg) = [j \in 1 .. n + 1 |-> sent[j].msg]
    <3>1. s \in Seq({sent[j].msg : j \in 1 .. n}) /\ Len(s) = n
      BY <2>1
    <3>2. Append(s, sent[n + 1].msg)
            = [j \in 1 .. n + 1 |-> IF j = n + 1 THEN sent[n + 1].msg ELSE s[j]]
      BY <3>1
    <3>3. \A j \in 1 .. n + 1 : sent[j].msg = IF j = n + 1 THEN sent[n + 1].msg ELSE s[j]
      BY <2>1
    <3> QED BY <3>1, <3>2, <3>3
  <2>3. views[n + 1] = sent[n + 1].msg
    <3>1. n + 1 \in 1 .. Len(sent)
      BY <1>5, <1>8
    <3> QED BY <1>5, <3>1
  <2>4. received = s /\ received' = Append(s, sent[n + 1].msg)
    BY <1>4, <1>8, <2>1, <2>2 DEF R
  <2> HIDE DEF views, received
  <2>5. /\ Len(received) + 1 \in 1 .. complete
        /\ received' = Append(received, views[Len(received) + 1])
    BY <1>8, <2>2, <2>3, <2>4
  <2>6. Channel!Receive
    BY <1>2, <1>6, <2>5 DEF Channel!Receive, views, received
  <2> QED BY <2>6 DEF Channel!Next
<1> QED BY <1>1, <1>7, <1>8

\* With one receiver every step of the buffer is one of the channel or none: no message
\* is lost, changed, overtaken or overrun, whichever handlers throw.
THEOREM BroadcastIsChannel == ASSUME OneReceiver PROVE Spec => ImplementsChannel
<1>1. Init => Channel!Init
  <2>1. SUFFICES ASSUME Init PROVE Channel!Init
    OBVIOUS
  <2>2. TypesInv /\ SentInv /\ HandledInv(0, 0)
    BY <2>1, TypesInit, RecordsInit DEF RecordsInv
  <2>3. FirstTime(R) = [j \in 1 .. 0 |-> sent[j].msg]
    BY <2>2, FirstTimeTaken
  <2>4. FirstTime(R) = << >>
    BY <2>3
  <2>5. sent = << >> /\ complete = 0
    BY <2>1 DEF Init
  <2> QED BY <2>4, <2>5 DEF Channel!Init, R
<1>2. TakenInOrder
  BY FirstTimeTaken DEF TakenInOrder
<1>3. /\ IInv /\ IInv' /\ TakenInOrder /\ TakenInOrder' /\ [Next]_vars
      => [Channel!Next]_(Channel!channel)
  <2>1. SUFFICES ASSUME IInv, IInv', TakenInOrder, TakenInOrder', [Next]_vars
                 PROVE  [Channel!Next]_(Channel!channel)
    OBVIOUS
  <2>2. TypesInv /\ TypesInv'
    BY <2>1 DEF IInv
  <2>3. PICK h, k, t, n \in Nat : RecordsInv(h, k, t, n)
    BY <2>1 DEF IInv
  <2>4. CASE (\E m \in Messages : Transmit(m)) \/ TransmitStep
    BY <2>1, <2>2, <2>3, <2>4, TransmitterOfChannel
  <2>5. CASE \E r \in Receivers : ReceiveStep(r) \/ HandlerThrows(r)
    <3>1. ReceiveStep(R) \/ HandlerThrows(R)
      BY <2>5, OnlyReceiver
    <3> QED BY <2>1, <2>2, <2>3, <3>1, ReceiverOfChannel
  <2>6. CASE UNCHANGED vars
    BY <2>6 DEF vars, history, Channel!channel, FirstTime, FirstTimes
  <2> QED BY <2>1, <2>4, <2>5, <2>6 DEF Next
<1> QED BY <1>1, <1>2, <1>3, InvCorrect, PTL DEF Spec, ImplementsChannel, Channel!Spec
=============================================================================
