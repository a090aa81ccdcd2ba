---------------- MODULE OneToOneConcurrentArrayQueue_proofs -----------------
(***************************************************************************)
(* The array queue for every capacity and every width of its indices: it   *)
(* implements the channel, constructs and destroys each object once, and    *)
(* leaks only when the indices have overflowed.                             *)
(***************************************************************************)
EXTENDS OneToOneConcurrentArrayQueue, TLAPS

\* How many objects a stored head has left behind.
Released == Len(received) - (IF dequeuing = "publish" THEN 1 ELSE 0)

\* The indices are what the counts are in the machine's arithmetic, and the counts
\* are never further apart than the queue is long.
Positions ==
  /\ head = I32(Released)
  /\ tail = I32(complete)
  /\ Released \in Nat
  /\ Len(sent) = complete + (IF enqueuing = "publish" THEN 1 ELSE 0)
  /\ Released <= complete /\ complete - Released <= Capacity
  /\ enqueuing # "idle" => complete - Released < Capacity
  /\ dequeuing # "idle" => Released < complete

\* The objects that are in the queue, each in the slot of its place; the other
\* slots are raw.
Queued == Len(received) + 1 .. Len(sent)
Contents ==
  alive =>
    /\ \A n \in Queued : slots[Slot(n - 1)] = sent[n]
    /\ \A s \in Slots : (\A n \in Queued : Slot(n - 1) # s) => slots[s] = Raw

Destroyed == ~ alive => enqueuing = "idle" /\ dequeuing = "idle"

IInv == TypeOK /\ Positions /\ Contents /\ Destroyed /\ LeaksOnlyWrapped

-----------------------------------------------------------------------------
(* Division.                                                                *)

\* A multiple is not less than what is multiplied.
LEMMA MultipleApart ==
  ASSUME NEW m \in Nat \ {0}, NEW d \in Int, d > 0
  PROVE  d * m >= m
<1> DEFINE e == d - 1
<1>1. e \in Nat /\ d = e + 1
  OBVIOUS
<1> HIDE DEF e
<1>2. e * m >= 0
  BY <1>1
<1>3. (e + 1) * m = e * m + m
  BY <1>1
<1> QED BY <1>1, <1>2, <1>3

\* Quotient and remainder.
LEMMA DivisionParts ==
  ASSUME NEW m \in Nat \ {0}, NEW x \in Int
  PROVE  /\ x \div m \in Int /\ x % m \in 0 .. m - 1
         /\ x = (x \div m) * m + (x % m)
<1>1. x \div m \in Int /\ x % m \in 0 .. m - 1
  OBVIOUS
<1>2. x = m * (x \div m) + (x % m)
  OBVIOUS
<1> QED BY <1>1, <1>2

\* The remainder is the only number below the divisor that leaves a multiple.
LEMMA Remainder ==
  ASSUME NEW m \in Nat \ {0}, NEW a \in Int, NEW r \in 0 .. m - 1
  PROVE  (a * m + r) % m = r
<1> DEFINE x == a * m + r
           q == x \div m
           s == x % m
<1>1. x \in Int
  OBVIOUS
<1>2. q \in Int /\ s \in 0 .. m - 1 /\ x = q * m + s
  BY <1>1, DivisionParts
<1> DEFINE A == a * m
           Q == q * m
<1>3. A + r = Q + s /\ A \in Int /\ Q \in Int
  BY <1>2
<1>4. a > q => A - Q >= m
  <2>1. SUFFICES ASSUME a > q PROVE A - Q >= m
    OBVIOUS
  <2>2. (a - q) * m >= m
    BY <1>2, <2>1, MultipleApart
  <2> QED BY <1>2, <2>2
<1>5. a < q => Q - A >= m
  <2>1. SUFFICES ASSUME a < q PROVE Q - A >= m
    OBVIOUS
  <2>2. (q - a) * m >= m
    BY <1>2, <2>1, MultipleApart
  <2> QED BY <1>2, <2>2
<1>6. s = r
  <2> HIDE DEF x, q, s, A, Q
  <2>1. a = q
    BY <1>2, <1>3, <1>4, <1>5
  <2>2. A = Q
    BY <2>1 DEF A, Q
  <2> QED BY <1>2, <1>3, <2>2
<1> QED BY <1>6

\* Numbers that differ by a multiple leave the same remainder.
LEMMA SameRemainder ==
  ASSUME NEW m \in Nat \ {0}, NEW a \in Int, NEW y \in Int
  PROVE  (y + a * m) % m = y % m
<1> DEFINE q == y \div m
           r == y % m
<1>1. q \in Int /\ r \in 0 .. m - 1 /\ y = q * m + r
  BY DivisionParts
<1> HIDE DEF q
<1>2. y + a * m = (q + a) * m + r
  <2> HIDE DEF r
  <2>1. (q + a) * m = q * m + a * m /\ q * m \in Int /\ a * m \in Int
    BY <1>1
  <2> QED BY <1>1, <2>1
<1>3. q + a \in Int
  BY <1>1
<1>4. ((q + a) * m + r) % m = r
  BY <1>1, <1>3, Remainder
<1> QED BY <1>2, <1>4

-----------------------------------------------------------------------------
(* The machine's arithmetic, and the slots.                                 *)

\* Half an index's values are more than the queue has slots.
LEMMA Widths ==
  /\ Capacity \in Nat \ {0} /\ IndexModulus \in Nat \ {0} /\ Half \in Nat
  /\ IndexModulus = 2 * Half /\ Half > Capacity
  /\ \E j \in Int : IndexModulus = j * Capacity
<1>1. PICK k \in Nat : k >= 2 /\ IndexModulus = 2 * k * Capacity
  BY CapacityAssumption
<1> DEFINE K == k * Capacity
<1>2. Capacity \in Nat \ {0} /\ IndexModulus \in Nat
  BY CapacityAssumption
<1>3. K \in Nat /\ IndexModulus = 2 * K
  BY <1>1, <1>2
<1>4. (k - 1) * Capacity >= Capacity
  BY <1>1, <1>2, MultipleApart
<1>5. K = (k - 1) * Capacity + Capacity
  BY <1>1, <1>2
<1>6. 2 * k \in Int /\ IndexModulus = (2 * k) * Capacity
  BY <1>1, <1>2
<1> HIDE DEF K
<1>7. K > Capacity
  BY <1>1, <1>2, <1>3, <1>4, <1>5
<1>8. Half = K
  BY <1>3 DEF Half
<1> QED BY <1>2, <1>3, <1>6, <1>7, <1>8

\* An addition that overflows is off by a multiple of the modulus.
LEMMA I32Wraps ==
  ASSUME NEW x \in Int
  PROVE  I32(x) \in Indices /\ \E a \in Int : I32(x) = x + a * IndexModulus
<1> DEFINE y == x + Half
           q == y \div IndexModulus
           r == y % IndexModulus
<1>1. y \in Int
  BY Widths
<1>2. q \in Int /\ r \in 0 .. IndexModulus - 1 /\ y = q * IndexModulus + r
  BY <1>1, Widths, DivisionParts
<1>3. I32(x) = r - Half
  BY DEF I32
<1> HIDE DEF q, r
<1>4. (- q) \in Int /\ (- q) * IndexModulus = - (q * IndexModulus) /\ q * IndexModulus \in Int
  BY <1>2, Widths
<1>5. I32(x) = x + (- q) * IndexModulus
  BY <1>2, <1>3, <1>4, Widths
<1>6. I32(x) \in Indices
  BY <1>2, <1>3, Widths DEF Indices
<1> QED BY <1>4, <1>5, <1>6

\* Numbers that differ by a multiple of the modulus are one index.
LEMMA I32Same ==
  ASSUME NEW x \in Int, NEW y \in Int, NEW a \in Int, x = y + a * IndexModulus
  PROVE  I32(x) = I32(y)
<1>1. a * IndexModulus \in Int
  BY Widths
<1> DEFINE X == x + Half
           Y == y + Half
<1>2. X \in Int /\ Y \in Int /\ X = Y + a * IndexModulus
  BY <1>1, Widths
<1>3. X % IndexModulus = Y % IndexModulus
  <2> HIDE DEF X, Y
  <2>1. IndexModulus \in Nat \ {0}
    BY Widths
  <2>2. (Y + a * IndexModulus) % IndexModulus = Y % IndexModulus
    BY <1>2, <2>1, SameRemainder
  <2> QED BY <1>2, <2>2
<1> QED BY <1>3 DEF I32

\* What fits is left as it is.
LEMMA I32Fits ==
  ASSUME NEW x \in Indices
  PROVE  I32(x) = x
<1>1. x \in Int /\ x + Half \in 0 .. IndexModulus - 1
  BY Widths DEF Indices
<1>2. (0 * IndexModulus + (x + Half)) % IndexModulus = x + Half
  BY <1>1, Widths, Remainder
<1>3. 0 * IndexModulus + (x + Half) = x + Half
  BY <1>1, Widths
<1> QED BY <1>1, <1>2, <1>3, Widths DEF I32

\* The next index is the index of the next count.
LEMMA I32Next ==
  ASSUME NEW n \in Int
  PROVE  I32(I32(n) + 1) = I32(n + 1)
<1>1. PICK a \in Int : I32(n) = n + a * IndexModulus
  BY I32Wraps
<1>2. a * IndexModulus \in Int
  BY Widths
<1>3. I32(n) + 1 \in Int /\ I32(n) + 1 = (n + 1) + a * IndexModulus
  BY <1>1, <1>2
<1> QED BY <1>3, I32Same

\* The difference of two indices is that of the counts, as long as these are not
\* further apart than the queue is long.
LEMMA I32Difference ==
  ASSUME NEW n \in Int, NEW m \in Int, n <= m, m - n <= Capacity
  PROVE  I32(I32(m) - I32(n)) = m - n
<1>1. PICK a \in Int : I32(m) = m + a * IndexModulus
  BY I32Wraps
<1>2. PICK b \in Int : I32(n) = n + b * IndexModulus
  BY I32Wraps
<1>3. /\ a * IndexModulus \in Int /\ b * IndexModulus \in Int
      /\ (a - b) * IndexModulus = a * IndexModulus - b * IndexModulus
  BY Widths
<1>4. /\ I32(m) - I32(n) \in Int /\ a - b \in Int
      /\ I32(m) - I32(n) = (m - n) + (a - b) * IndexModulus
  BY <1>1, <1>2, <1>3
<1>5. I32(I32(m) - I32(n)) = I32(m - n)
  BY <1>4, I32Same
<1>6. m - n \in Indices
  BY Widths DEF Indices
<1> QED BY <1>5, <1>6, I32Fits

\* A count has a slot, and its index has the same.
LEMMA SlotOfCount ==
  ASSUME NEW n \in Int
  PROVE  Slot(n) \in Slots /\ Slot(I32(n)) = Slot(n)
<1>1. PICK a \in Int : I32(n) = n + a * IndexModulus
  BY I32Wraps
<1>2. PICK j \in Int : IndexModulus = j * Capacity
  BY Widths
<1>3. a * j \in Int /\ a * IndexModulus = (a * j) * Capacity
  BY <1>2, Widths
<1>4. I32(n) \in Int
  BY <1>1, Widths
<1>5. I32(n) % Capacity = n % Capacity
  <2> DEFINE b == a * j
  <2>1. b \in Int /\ I32(n) = n + b * Capacity
    BY <1>1, <1>3
  <2> HIDE DEF b
  <2>2. Capacity \in Nat \ {0}
    BY Widths
  <2>3. (n + b * Capacity) % Capacity = n % Capacity
    BY <2>1, <2>2, SameRemainder
  <2> QED BY <2>1, <2>3
<1>6. n % Capacity \in 0 .. Capacity - 1
  BY Widths
<1> QED BY <1>5, <1>6 DEF Slot, Slots

\* Counts within the length of the queue have slots of their own.
LEMMA SlotsApart ==
  ASSUME NEW n \in Int, NEW m \in Int, n < m, m - n < Capacity
  PROVE  Slot(n) # Slot(m)
<1> DEFINE q == n \div Capacity
           r == n % Capacity
           p == m \div Capacity
           s == m % Capacity
<1>1. /\ q \in Int /\ r \in 0 .. Capacity - 1 /\ n = q * Capacity + r
      /\ p \in Int /\ s \in 0 .. Capacity - 1 /\ m = p * Capacity + s
  BY Widths, DivisionParts
<1>2. SUFFICES ASSUME r = s PROVE FALSE
  BY DEF Slot
<1> HIDE DEF q, r, p, s
<1>3. /\ q * Capacity \in Int /\ p * Capacity \in Int
      /\ (p - q) * Capacity = p * Capacity - q * Capacity
  BY <1>1, Widths
<1>4. (p - q) * Capacity = m - n
  BY <1>1, <1>2, <1>3
<1>5. p - q > 0 => (p - q) * Capacity >= Capacity
  BY <1>1, Widths, MultipleApart
<1>6. ~ (p - q > 0) => (q - p) * Capacity >= 0
  BY <1>1, Widths
<1>7. (q - p) * Capacity = - ((p - q) * Capacity)
  BY <1>1, Widths
<1> QED BY <1>1, <1>3, <1>4, <1>5, <1>6, <1>7, Widths

-----------------------------------------------------------------------------
(* The steps of the producer.                                               *)

\* What the counts are, of a queue in a sound state.
LEMMA Counts ==
  ASSUME IInv
  PROVE  /\ Released \in Nat /\ complete \in Nat /\ Len(sent) \in Nat /\ Len(received) \in Nat
         /\ Released <= complete /\ complete - Released <= Capacity
         /\ Capacity \in Nat
         /\ I32(tail - head) = complete - Released
         /\ Slot(tail) = Slot(complete) /\ Slot(complete) \in Slots
         /\ Slot(head) = Slot(Released) /\ Slot(Released) \in Slots
<1>1. /\ Released \in Nat /\ complete \in Nat /\ Len(sent) \in Nat /\ Len(received) \in Nat
      /\ Released <= complete /\ complete - Released <= Capacity
      /\ head = I32(Released) /\ tail = I32(complete)
  BY DEF IInv, TypeOK, Positions
<1> HIDE DEF Released
<1>2. I32(I32(complete) - I32(Released)) = complete - Released
  BY <1>1, I32Difference
<1> QED BY <1>1, <1>2, Widths, SlotOfCount

\* enqueue() finds a free slot.
LEMMA EnqueueKeeps ==
  ASSUME IInv, Enqueue
  PROVE  IInv'
<1>1. complete - Released < Capacity
  BY Counts DEF Enqueue
<1>2. TypeOK'
  BY DEF IInv, TypeOK, Enqueue
<1>3. Positions'
  BY <1>1 DEF IInv, Positions, Released, Enqueue
<1>4. Contents' /\ Destroyed' /\ LeaksOnlyWrapped'
  BY DEF IInv, Contents, Queued, Destroyed, LeaksOnlyWrapped, Enqueue
<1> QED BY <1>2, <1>3, <1>4 DEF IInv

\* The object is constructed in a slot that no queued object has.
LEMMA ConstructKeeps ==
  ASSUME IInv, NEW v \in Values, Construct(v)
  PROVE  IInv'
<1> DEFINE last == complete + 1
           slot == Slot(complete)
<1>1. /\ Len(sent) = complete /\ complete - Released < Capacity /\ alive
      /\ Len(received) <= complete /\ Released <= Len(received)
  BY Counts DEF IInv, Positions, Released, Construct, TypeOK, Destroyed
<1>2. /\ sent \in Seq(Values) /\ sent' = Append(sent, v)
      /\ Len(sent') = last /\ sent'[last] = v
      /\ \A n \in 1 .. complete : sent'[n] = sent[n]
  BY <1>1 DEF IInv, TypeOK, Construct
<1>3. slots' = [slots EXCEPT ![slot] = v] /\ slot \in Slots /\ slots \in [Slots -> Values \cup {Raw}]
  BY Counts DEF Construct, IInv, TypeOK
<1>4. TypeOK'
  <2>1. slots' \in [Slots -> Values \cup {Raw}]
    BY <1>3
  <2> QED BY <1>2, <2>1 DEF IInv, TypeOK, Construct
<1>5. Positions'
  BY <1>1, <1>2 DEF IInv, Positions, Released, Construct
<1>6. Contents'
  <2>1. Queued' = Queued \cup {last} /\ Queued = Len(received) + 1 .. complete
    BY <1>1, <1>2, Counts DEF Queued, Construct
  <2>2. \A n \in Queued : Slot(n - 1) # slot
    <3>1. SUFFICES ASSUME NEW n \in Queued PROVE Slot(n - 1) # slot
      OBVIOUS
    <3>2. n \in Int /\ n - 1 \in Int /\ complete \in Int /\ n - 1 < complete
      BY <2>1, Counts
    <3>3. complete - (n - 1) < Capacity
      <4> HIDE DEF Released
      <4> QED BY <1>1, <2>1, <3>2, Counts
    <3> QED BY <3>2, <3>3, SlotsApart
  <2>3. \A n \in Queued : slots[Slot(n - 1)] = sent[n] /\ Slot(n - 1) \in Slots /\ n \in 1 .. complete
    <3>1. \A n \in Queued : n - 1 \in Int /\ n \in 1 .. complete
      BY <2>1, Counts
    <3> QED BY <1>1, <3>1, SlotOfCount DEF IInv, Contents
  <2>4. \A s \in Slots : (\A n \in Queued : Slot(n - 1) # s) => slots[s] = Raw
    BY <1>1 DEF IInv, Contents
  <2>5. last - 1 = complete
    BY Counts
  <2>6. \A n \in Queued' : slots'[Slot(n - 1)] = sent'[n]
    <3> HIDE DEF last, slot
    <3>1. Slot(last - 1) = slot
      BY <2>5 DEF slot
    <3> QED BY <1>2, <1>3, <2>1, <2>2, <2>3, <3>1
  <2>7. \A s \in Slots : (\A n \in Queued' : Slot(n - 1) # s) => slots'[s] = Raw
    <3>1. Slot(last - 1) = slot
      BY <2>5
    <3> HIDE DEF last, slot
    <3> QED BY <1>3, <2>1, <2>4, <3>1
  <2> QED BY <2>6, <2>7 DEF Contents, Slot, Slots
<1>7. Destroyed' /\ LeaksOnlyWrapped'
  BY <1>1 DEF Destroyed, LeaksOnlyWrapped, Construct
<1> QED BY <1>4, <1>5, <1>6, <1>7 DEF IInv

\* The store of the tail.
LEMMA PublishTailKeeps ==
  ASSUME IInv, PublishTail
  PROVE  IInv'
<1>1. tail' = I32(complete + 1)
  BY Counts, I32Next DEF IInv, Positions, PublishTail
<1>2. complete - Released < Capacity /\ alive
  BY DEF IInv, Positions, PublishTail, Destroyed
<1>3. TypeOK'
  <2>1. tail' \in Indices
    BY <1>1, Counts, I32Wraps
  <2> QED BY <2>1 DEF IInv, TypeOK, PublishTail
<1>4. Positions'
  BY <1>1, <1>2, Counts DEF IInv, Positions, Released, PublishTail
<1>5. Contents' /\ Destroyed' /\ LeaksOnlyWrapped'
  BY <1>2 DEF IInv, Contents, Queued, Destroyed, LeaksOnlyWrapped, PublishTail
<1> QED BY <1>3, <1>4, <1>5 DEF IInv

-----------------------------------------------------------------------------
(* The steps of the consumer, and the destructor.                           *)

\* try_dequeue() finds an object.
LEMMA TryDequeueKeeps ==
  ASSUME IInv, TryDequeue
  PROVE  IInv'
<1>1. Released < complete
  <2>1. Released # complete
    BY DEF IInv, Positions, TryDequeue
  <2> HIDE DEF Released
  <2> QED BY <2>1, Counts
<1>2. TypeOK'
  BY DEF IInv, TypeOK, TryDequeue
<1>3. Positions'
  BY <1>1 DEF IInv, Positions, Released, TryDequeue
<1>4. Contents' /\ Destroyed' /\ LeaksOnlyWrapped'
  BY DEF IInv, Contents, Queued, Destroyed, LeaksOnlyWrapped, TryDequeue
<1> QED BY <1>2, <1>3, <1>4 DEF IInv

\* The consumer is at the slot of the first object that is queued.
LEMMA FirstQueued ==
  ASSUME IInv, dequeuing = "take"
  PROVE  /\ Released = Len(received) /\ alive
         /\ Len(received) + 1 \in 1 .. complete
         /\ Len(received) + 1 \in Queued
         /\ slots[Slot(head)] = sent[Len(received) + 1]
         /\ sent[Len(received) + 1] \in Values
<1>1. /\ Released = Len(received) /\ alive /\ Released < complete
      /\ complete <= Len(sent)
  BY Counts DEF IInv, Positions, Released, Destroyed
<1>2. /\ Len(received) + 1 \in 1 .. complete
      /\ Len(received) + 1 \in Queued
  BY <1>1, Counts DEF Queued
<1>3. (Len(received) + 1) - 1 = Len(received)
  BY Counts
<1>4. slots[Slot(Len(received))] = sent[Len(received) + 1]
  BY <1>1, <1>2, <1>3 DEF IInv, Contents
<1>5. sent[Len(received) + 1] \in Values
  BY <1>1, <1>2, Counts DEF IInv, TypeOK
<1> QED BY <1>1, <1>2, <1>4, <1>5, Counts

\* The object is moved out and its slot is raw again.
LEMMA TakeKeeps ==
  ASSUME IInv, Take
  PROVE  IInv'
<1> DEFINE first == Len(received) + 1
           slot == Slot(Released)
<1>1. /\ Released = Len(received) /\ alive /\ first \in 1 .. complete
      /\ first \in Queued /\ slots[Slot(head)] = sent[first] /\ sent[first] \in Values
  BY FirstQueued DEF Take
<1>2. /\ slots' = [slots EXCEPT ![slot] = Raw] /\ slot \in Slots
      /\ slots \in [Slots -> Values \cup {Raw}]
      /\ received' = Append(received, sent[first]) /\ Len(received') = first
  <2>1. PICK v \in Values : v = sent[first]
    BY <1>1
  <2>2. received' = Append(received, v) /\ received \in Seq(Values)
    BY <1>1, <2>1 DEF Take, IInv, TypeOK
  <2>3. Len(received') = first
    BY <2>2
  <2>4. slots' = [slots EXCEPT ![slot] = Raw] /\ slots \in [Slots -> Values \cup {Raw}]
    BY Counts DEF Take, IInv, TypeOK
  <2> QED BY <2>1, <2>2, <2>3, <2>4, Counts
<1>3. TypeOK'
  <2>1. slots' \in [Slots -> Values \cup {Raw}] /\ received' \in Seq(Values)
    BY <1>1, <1>2 DEF IInv, TypeOK
  <2> QED BY <2>1 DEF IInv, TypeOK, Take
<1>4. Positions'
  BY <1>1, <1>2, Counts DEF IInv, Positions, Released, Take
<1>5. Contents'
  <2>1. Len(sent) <= Released + Capacity
    BY Counts DEF IInv, Positions
  <2>2. Queued = Queued' \cup {first} /\ Queued' = first + 1 .. Len(sent)
    BY <1>1, <1>2, Counts DEF Queued, Take
  <2>3. \A n \in Queued' : n \in Queued /\ Slot(n - 1) # slot /\ Slot(n - 1) \in Slots
    <3>1. SUFFICES ASSUME NEW n \in Queued'
                   PROVE  Slot(n - 1) # slot /\ Slot(n - 1) \in Slots
      BY <2>2
    <3>2. /\ n - 1 \in Int /\ Released \in Int
          /\ Released < n - 1 /\ (n - 1) - Released < Capacity
      <4> HIDE DEF Released
      <4> QED BY <1>1, <2>1, <2>2, Counts
    <3> HIDE DEF Released
    <3> QED BY <3>2, SlotsApart, SlotOfCount
  <2>4. \A n \in Queued' : slots'[Slot(n - 1)] = sent'[n]
    <3>1. \A n \in Queued : slots[Slot(n - 1)] = sent[n]
      BY <1>1 DEF IInv, Contents
    <3>2. sent' = sent
      BY DEF Take
    <3> HIDE DEF slot
    <3> QED BY <1>2, <2>3, <3>1, <3>2
  <2>5. \A s \in Slots : (\A n \in Queued' : Slot(n - 1) # s) => slots'[s] = Raw
    <3>1. SUFFICES ASSUME NEW s \in Slots, \A n \in Queued' : Slot(n - 1) # s
                   PROVE  slots'[s] = Raw
      BY DEF Slot, Slots
    <3>2. CASE s = slot
      BY <1>2, <3>2
    <3>3. CASE s # slot
      <4>1. Slot(first - 1) = slot
        BY <1>1, Counts
      <4>2. \A n \in Queued : Slot(n - 1) # s
        BY <2>2, <3>1, <3>3, <4>1
      <4>3. slots[s] = Raw
        BY <1>1, <4>2 DEF IInv, Contents
      <4> QED BY <1>2, <3>3, <4>3
    <3> QED BY <3>2, <3>3
  <2> QED BY <2>4, <2>5 DEF Contents, Slot, Slots
<1>6. Destroyed' /\ LeaksOnlyWrapped'
  BY <1>1 DEF Destroyed, LeaksOnlyWrapped, Take
<1> QED BY <1>3, <1>4, <1>5, <1>6 DEF IInv

\* The store of the head.
LEMMA PublishHeadKeeps ==
  ASSUME IInv, PublishHead
  PROVE  IInv'
<1>1. /\ alive /\ Released < complete /\ Released' = Released + 1
      /\ Released' = Len(received)
  BY Counts DEF IInv, Positions, PublishHead, Destroyed, Released
<1>2. head' = I32(Released + 1)
  <2>1. head' = I32(I32(Released) + 1)
    BY DEF IInv, Positions, PublishHead
  <2> HIDE DEF Released
  <2> QED BY <2>1, Counts, I32Next
<1>3. TypeOK'
  <2>1. head' \in Indices
    <3> HIDE DEF Released
    <3> QED BY <1>2, Counts, I32Wraps
  <2> QED BY <2>1 DEF IInv, TypeOK, PublishHead
<1>4. Positions'
  <2> HIDE DEF Released
  <2>1. /\ tail' = I32(complete') /\ complete' = complete /\ dequeuing' = "idle"
        /\ Len(sent') = complete' + (IF enqueuing' = "publish" THEN 1 ELSE 0)
    BY DEF IInv, Positions, PublishHead
  <2>2. head' = I32(Released')
    BY <1>1, <1>2
  <2>3. /\ Released' \in Nat /\ Released' <= complete'
        /\ complete' - Released' < Capacity
    BY <1>1, <2>1, Counts
  <2> QED BY <2>1, <2>2, <2>3, Counts DEF Positions
<1>5. Contents' /\ Destroyed' /\ LeaksOnlyWrapped'
  BY <1>1 DEF IInv, Contents, Queued, Destroyed, LeaksOnlyWrapped, PublishHead
<1> QED BY <1>3, <1>4, <1>5 DEF IInv

\* The destructor meets every slot in use, if it meets any.
LEMMA DestroyKeeps ==
  ASSUME IInv, Destroy
  PROVE  IInv'
<1>1. /\ Released = Len(received) /\ Len(sent) = complete /\ alive
      /\ head = I32(Released) /\ tail = I32(complete)
  BY DEF IInv, Positions, Released, Destroy, TypeOK
<1>2. slots' \in [Slots -> Values \cup {Raw}]
  BY DEF IInv, TypeOK, Destroy
<1>3. TypeOK'
  BY <1>2 DEF IInv, TypeOK, Destroy
<1>4. Positions'
  BY DEF IInv, Positions, Released, Destroy
<1>5. Contents' /\ Destroyed'
  BY DEF Contents, Destroyed, Destroy
<1>6. LeaksOnlyWrapped'
  <2>1. SUFFICES ASSUME head <= tail, NEW s \in Slots
                 PROVE  slots'[s] = Raw
    <3>1. head \in Int /\ tail \in Int
      BY Widths DEF IInv, TypeOK, Indices
    <3>2. head' = head /\ tail' = tail
      BY DEF Destroy
    <3> QED BY <3>1, <3>2 DEF LeaksOnlyWrapped, Slots
  <2>2. tail - head = complete - Released
    <3>1. head \in Indices /\ tail \in Indices
      BY DEF IInv, TypeOK
    <3>2. I32(tail - head) = complete - Released
      BY Counts
    <3> HIDE DEF Released
    <3>3. PICK a \in Int : I32(tail - head) = (tail - head) + a * IndexModulus
      <4>1. tail - head \in Int
        BY <3>1, Widths DEF Indices
      <4> QED BY <4>1, I32Wraps
    <3>4. tail - head \in 0 .. IndexModulus - 1 /\ complete - Released \in 0 .. Capacity
      BY <2>1, <3>1, Widths, Counts DEF Indices
    <3> DEFINE d == tail - head
               e == complete - Released
               A == a * IndexModulus
    <3>5. A \in Int /\ e = d + A /\ (- a) * IndexModulus = - A
      BY <3>1, <3>2, <3>3, Widths DEF Indices
    <3>6. a > 0 => A >= IndexModulus
      BY Widths, MultipleApart
    <3>7. a < 0 => (- a) * IndexModulus >= IndexModulus
      BY Widths, MultipleApart
    <3>8. a = 0 => A = 0
      BY Widths
    <3> HIDE DEF d, e, A
    <3>9. A = 0
      BY <3>4, <3>5, <3>6, <3>7, <3>8, Widths DEF d, e
    <3> QED BY <3>4, <3>5, <3>9 DEF d, e
  <2>3. CASE \E n \in Queued : Slot(n - 1) = s
    <3>1. PICK n \in Queued : Slot(n - 1) = s
      BY <2>3
    <3> DEFINE i == head + ((n - 1) - Released)
    <3>2. n \in Len(received) + 1 .. complete /\ n \in Int
      BY <1>1 DEF Queued
    <3>3. head \in Int /\ tail \in Int /\ Released \in Int
      BY Counts, Widths DEF IInv, TypeOK, Indices
    <3>4. i \in head .. tail - 1
      <4> HIDE DEF Released
      <4> QED BY <1>1, <2>2, <3>2, <3>3, Counts
    <3>5. Slot(i) = Slot(n - 1)
      <4> HIDE DEF Released
      <4>1. PICK a \in Int : head = Released + a * IndexModulus
        BY <1>1, <3>3, I32Wraps
      <4>2. PICK j \in Int : IndexModulus = j * Capacity
        BY Widths
      <4>3. a * j \in Int /\ a * IndexModulus = (a * j) * Capacity
        BY <4>2, Widths
      <4> DEFINE b == a * j
                 m == n - 1
      <4>4. b \in Int /\ m \in Int /\ b * Capacity \in Int /\ i = m + b * Capacity
        BY <3>2, <3>3, <4>1, <4>3, Widths
      <4>5. (m + b * Capacity) % Capacity = m % Capacity
        <5> HIDE DEF b, m
        <5>1. Capacity \in Nat \ {0}
          BY Widths
        <5> QED BY <4>4, <5>1, SameRemainder
      <4> QED BY <4>4, <4>5 DEF Slot
    <3> HIDE DEF i
    <3> QED BY <3>1, <3>4, <3>5 DEF Destroy
  <2>4. CASE ~ \E n \in Queued : Slot(n - 1) = s
    <3>1. slots[s] = Raw
      BY <1>1, <2>4 DEF IInv, Contents
    <3> QED BY <3>1 DEF Destroy
  <2> QED BY <2>3, <2>4
<1> QED BY <1>3, <1>4, <1>5, <1>6 DEF IInv

-----------------------------------------------------------------------------
(* The theorems.                                                            *)

\* A new queue is empty.
LEMMA InitOK == Init => IInv
<1> SUFFICES ASSUME Init PROVE IInv
  OBVIOUS
<1>1. 0 \in Indices
  BY Widths DEF Indices
<1>2. I32(0) = 0
  BY <1>1, I32Fits
<1>3. TypeOK
  BY <1>1 DEF Init, TypeOK
<1>4. Positions
  BY <1>2, Widths DEF Init, Positions, Released
<1>5. Contents /\ Destroyed /\ LeaksOnlyWrapped
  BY DEF Init, Contents, Queued, Destroyed, LeaksOnlyWrapped
<1> QED BY <1>3, <1>4, <1>5 DEF IInv

\* Every step keeps the invariant.
LEMMA NextOK == IInv /\ [Next]_vars => IInv'
<1> SUFFICES ASSUME IInv, [Next]_vars PROVE IInv'
  OBVIOUS
<1>1. CASE Next
  BY <1>1, EnqueueKeeps, ConstructKeeps, PublishTailKeeps, TryDequeueKeeps, TakeKeeps,
     PublishHeadKeeps, DestroyKeeps DEF Next, EnqueueStep, DequeueStep
<1>2. CASE UNCHANGED vars
  BY <1>2 DEF vars, IInv, TypeOK, Positions, Released, Contents, Queued, Destroyed, LeaksOnlyWrapped
<1> QED BY <1>1, <1>2

\* The indices count the objects modulo their width, and what is in the slots is
\* what lies between them.
THEOREM InvCorrect == Spec => []IInv
<1>1. Init => IInv
  BY InitOK
<1>2. IInv /\ [Next]_vars => IInv'
  BY NextOK
<1> QED BY <1>1, <1>2, PTL DEF Spec

\* An object is constructed in raw storage only, and moved out of a slot that holds
\* one, however often the i32 indices have overflowed.
THEOREM SlotsSound == Spec => []SlotsAsExpected
<1>1. IInv => SlotsAsExpected
  <2>1. SUFFICES ASSUME IInv PROVE SlotsAsExpected
    OBVIOUS
  <2>2. ASSUME enqueuing = "construct" PROVE slots[Slot(tail)] = Raw
    <3>1. /\ Len(sent) = complete /\ complete - Released < Capacity /\ alive
          /\ Released <= Len(received)
      BY <2>1, <2>2, Counts DEF IInv, Positions, Destroyed, Released
    <3>2. \A n \in Queued : Slot(n - 1) # Slot(complete)
      <4>1. SUFFICES ASSUME NEW n \in Queued PROVE Slot(n - 1) # Slot(complete)
        OBVIOUS
      <4>2. n - 1 \in Int /\ complete \in Int /\ n - 1 < complete /\ complete - (n - 1) < Capacity
        <5> HIDE DEF Released
        <5> QED BY <2>1, <3>1, Counts DEF Queued
      <4> QED BY <4>2, SlotsApart
    <3>3. slots[Slot(complete)] = Raw
      BY <2>1, <3>1, <3>2, Counts DEF IInv, Contents
    <3> QED BY <2>1, <3>3, Counts
  <2>3. ASSUME dequeuing = "take" PROVE slots[Slot(head)] \in Values
    BY <2>1, <2>3, FirstQueued
  <2> QED BY <2>1, <2>2, <2>3 DEF IInv, SlotsAsExpected
<1> QED BY <1>1, InvCorrect, PTL

\* The destructor leaks nothing, unless the tail has become negative and the head
\* has not.
THEOREM LeaksExplained == Spec => []LeaksOnlyWrapped
<1>1. IInv => LeaksOnlyWrapped
  BY DEF IInv
<1> QED BY <1>1, InvCorrect, PTL

\* Every step of the queue is one of the channel or none: what enqueue() has
\* constructed is moved out by try_dequeue() once, in order and unchanged.
THEOREM QueueIsChannel == Spec => ImplementsChannel
<1>1. Init => Channel!Init
  BY DEF Init, Channel!Init
<1>2. IInv /\ [Next]_vars => [Channel!Next]_(Channel!channel)
  <2>1. SUFFICES ASSUME IInv, [Next]_vars PROVE [Channel!Next]_(Channel!channel)
    OBVIOUS
  <2>2. CASE \E v \in Values : Construct(v)
    BY <2>2 DEF Construct, Channel!Next, Channel!Reserve
  <2>3. CASE PublishTail
    <3>1. complete + 1 \in 1 .. Len(sent) \ 1 .. complete
      BY <2>1, <2>3, Counts DEF IInv, Positions, PublishTail
    <3>2. 1 .. (complete + 1) = (1 .. complete) \cup {complete + 1}
      BY <2>1, Counts
    <3>3. Channel!Complete(complete + 1)
      BY <2>3, <3>1, <3>2 DEF PublishTail, Channel!Complete
    <3>4. complete + 1 \in 1 .. Len(sent)
      BY <3>1
    <3> QED BY <3>3, <3>4 DEF Channel!Next
  <2>4. CASE Take
    <3>1. /\ Len(received) + 1 \in 1 .. complete
          /\ slots[Slot(head)] = sent[Len(received) + 1]
      BY <2>1, <2>4, FirstQueued DEF Take
    <3>2. Channel!Receive
      BY <2>4, <3>1 DEF Take, Channel!Receive
    <3> QED BY <3>2 DEF Channel!Next
  <2>5. CASE Enqueue \/ TryDequeue \/ PublishHead \/ Destroy \/ UNCHANGED vars
    BY <2>5 DEF Enqueue, TryDequeue, PublishHead, Destroy, vars, Channel!channel
  <2> QED BY <2>1, <2>2, <2>3, <2>4, <2>5 DEF Next, EnqueueStep, DequeueStep
<1> QED BY <1>1, <1>2, InvCorrect, PTL DEF Spec, ImplementsChannel, Channel!Spec
=============================================================================
