-------------------------- MODULE LogBuffer_proofs --------------------------
(***************************************************************************)
(* What holds of the claims for any number of publishers, any length of    *)
(* the terms and of the frames, whoever dies, is slow, unblocks or rotates *)
(* with a term count that is old: they tile the terms.  If the publishers  *)
(* together cannot fill a term with one frame each, the terms also stay in *)
(* step with the active term count, and if they leave room in it, each     *)
(* committed message that the subscriber has passed was handed over, once. *)
(***************************************************************************)
EXTENDS LogBuffer, FiniteSetTheorems, TLAPS

\* The term that a partition holds, counted from the first.
TermOfPartition(i) == raw_tail[i].term_id - InitialTermId

\* What a thread will add to a tail, and what it replaces a tail by.
ThreadsSound ==
  \A t \in Threads :
    /\ thread[t].pc = "add" => thread[t].length \in FrameLengths
    /\ thread[t].pc = "rotate_tail" => thread[t].raw.term_id = ExpectedTermId(t)

\* Terms go round the partitions: what a partition holds is congruent to its index.
TermsGoRound == \A i \in Partitions : TermOfPartition(i) % PARTITION_COUNT = i

\* A claim lies in one term, which is not younger than that of its partition, and
\* before the tail if it is the same.
LiesIn(claim, count, offset) ==
  /\ claim.position = count * TermLength + offset
  /\ offset + claim.length <= TermLength
  /\ LET i == count % PARTITION_COUNT
     IN  /\ count <= TermOfPartition(i)
         /\ count = TermOfPartition(i) => offset + claim.length <= raw_tail[i].term_offset

ClaimsBeforeTails ==
  \A n \in DOMAIN claims : \E count \in Int, offset \in Nat : LiesIn(claims[n], count, offset)

\* The claim has this position.
Covers(claim, position) == position \in claim.position .. End(claim) - 1

\* Each position before a tail has one claim.
Owned(i, offset) ==
  LET position == TermOfPartition(i) * TermLength + offset
  IN  \E n \in DOMAIN claims : /\ Covers(claims[n], position)
                               /\ \A m \in DOMAIN claims : Covers(claims[m], position) => m = n

TailsTiled ==
  \A i \in Partitions, offset \in Offsets :
    offset < raw_tail[i].term_offset => Owned(i, offset)

IInv == TypeOK /\ ThreadsSound /\ TermsGoRound /\ ClaimsBeforeTails /\ TailsTiled

-----------------------------------------------------------------------------
(* Positions.                                                              *)

\* A term ends before the next begins.
LEMMA TermsApart ==
  ASSUME NEW c \in Int, NEW d \in Int, c < d
  PROVE  c * TermLength + TermLength <= d * TermLength
<1>1. TermLength \in Nat
  BY TermAssumption
<1> DEFINE k == d - c - 1
<1>2. k \in Nat
  OBVIOUS
<1>3. d = c + 1 + k
  OBVIOUS
<1> HIDE DEF k
<1>4. k * TermLength >= 0
  BY <1>1, <1>2
<1>5. (c + 1 + k) * TermLength = c * TermLength + TermLength + k * TermLength
  BY <1>1, <1>2
<1>6. c * TermLength \in Int /\ k * TermLength \in Int
  BY <1>1, <1>2
<1> QED BY <1>1, <1>3, <1>4, <1>5, <1>6

\* A claim that covers a position of a term lies in that term.
LEMMA CoveredInTerm ==
  ASSUME NEW c \in Int, NEW o \in Offsets,
         NEW d \in Int, NEW e \in Nat, NEW claim \in Claim,
         claim.position = d * TermLength + e, e + claim.length <= TermLength,
         Covers(claim, c * TermLength + o)
  PROVE  c = d /\ e <= o /\ o < e + claim.length
<1>1. TermLength \in Nat \ {0} /\ o \in 0 .. TermLength - 1
  BY TermAssumption DEF Offsets
<1>2. c * TermLength \in Int /\ d * TermLength \in Int
  BY <1>1
<1> DEFINE C == c * TermLength
           D == d * TermLength
<1>3. C \in Int /\ D \in Int /\ D + e <= C + o /\ C + o < D + e + claim.length
  BY <1>1, <1>2 DEF Covers, End, Claim
<1>4. c < d => C + TermLength <= D
  BY TermsApart
<1>5. d < c => D + TermLength <= C
  BY TermsApart
<1> HIDE DEF C, D
<1>6. c = d
  BY <1>1, <1>3, <1>4, <1>5 DEF Claim
<1>7. C = D
  BY <1>6 DEF C, D
<1> QED BY <1>1, <1>3, <1>6, <1>7 DEF Claim

\* Behind the tail there is no claim.
LEMMA NothingBehindTail ==
  ASSUME IInv, NEW i \in Partitions, NEW offset \in Offsets, NEW n \in DOMAIN claims,
         Covers(claims[n], TermOfPartition(i) * TermLength + offset)
  PROVE  offset < raw_tail[i].term_offset
<1>1. PICK d \in Int, e \in Nat : LiesIn(claims[n], d, e)
  BY DEF IInv, ClaimsBeforeTails
<1>2. claims[n] \in Claim
  BY DEF IInv, TypeOK
<1>3. TermOfPartition(i) \in Int /\ raw_tail[i].term_offset \in Nat
  BY IdAssumption DEF IInv, TypeOK, PackedTail, TermOfPartition
<1>4. /\ claims[n].position = d * TermLength + e
      /\ e + claims[n].length <= TermLength
  BY <1>1 DEF LiesIn
<1>5. TermOfPartition(i) = d /\ e <= offset /\ offset < e + claims[n].length
  BY <1>2, <1>3, <1>4, CoveredInTerm
<1>6. d % PARTITION_COUNT = i
  BY <1>5 DEF IInv, TermsGoRound
<1>7. e + claims[n].length <= raw_tail[i].term_offset
  BY <1>1, <1>5, <1>6 DEF LiesIn
<1>8. offset \in Int
  BY TermAssumption DEF Offsets
<1> QED BY <1>2, <1>3, <1>5, <1>7, <1>8 DEF Claim

-----------------------------------------------------------------------------
(* The steps that neither claim nor rotate.                                *)

\* The threads' part of the invariant.
ThreadsTyped == thread \in [Threads -> Locals] /\ ThreadsSound

\* The steps of all threads.
Steps == {"idle", "dead"} \cup PublisherSteps \cup RotateSteps \cup DriverSteps

\* A new record for a thread keeps the threads typed if it is sound itself.
LEMMA ThreadStored ==
  ASSUME ThreadsTyped, NEW t \in Threads, NEW r \in Locals,
         r.pc = "add" => r.length \in FrameLengths,
         r.pc = "rotate_tail" => r.raw.term_id = r.term_id + 1 - PARTITION_COUNT,
         thread' = [thread EXCEPT ![t] = r]
  PROVE  ThreadsTyped'
BY DEF ThreadsTyped, ThreadsSound, ExpectedTermId

\* A thread may go on to any step but those that need more of its locals.
LEMMA Goes ==
  ASSUME ThreadsTyped, NEW t \in Threads, NEW pc \in Steps,
         pc \notin {"add", "rotate_tail"}, Goto(t, pc)
  PROVE  ThreadsTyped'
<1> DEFINE r == [thread[t] EXCEPT !.pc = pc]
<1>1. r \in Locals /\ r.pc = pc
  BY DEF ThreadsTyped, Locals, Steps
<1>2. thread' = [thread EXCEPT ![t] = r]
  BY DEF Goto
<1> HIDE DEF r
<1> QED BY <1>1, <1>2, ThreadStored

\* The locals of an idle thread are locals.
LEMMA IdleTyped == Idle \in Locals /\ Idle.pc = "idle"
<1>1. 0 \in Partitions /\ 0 \in Offsets
  BY TermAssumption DEF Partitions, PARTITION_COUNT, Offsets
<1> QED BY <1>1 DEF Idle, Locals, pack_tail, PackedTail

\* A thread may end its call at any step.
LEMMA Returns ==
  ASSUME ThreadsTyped, NEW t \in Threads, Return(t)
  PROVE  ThreadsTyped'
BY IdleTyped, ThreadStored DEF Return

\* A header stored at a thread's offset is stored in its term.
LEMMA FrameStored ==
  ASSUME TypeOK, NEW t \in Threads, NEW frame \in Header, PutFrame(t, frame)
  PROVE  term' \in [Partitions -> [Offsets -> Header]]
BY DEF TypeOK, PutFrame, Locals

\* What a thread finds at its offset is a header.
LEMMA FrameTyped ==
  ASSUME TypeOK, NEW t \in Threads
  PROVE  Frame(t) \in Header
BY DEF TypeOK, Frame, Locals

\* A store to one field of a header leaves a header.
LEMMA HeaderChanged ==
  ASSUME NEW h \in Header, NEW length \in Int, NEW claim \in Nat
  PROVE  /\ [h EXCEPT !.length = length] \in Header
         /\ [h EXCEPT !.type = "DATA", !.claim = claim] \in Header
         /\ [h EXCEPT !.type = "PAD"] \in Header
BY DEF Header

\* A step that moves no tail and claims nothing only has to keep the types.
LEMMA TailsKept ==
  ASSUME IInv, TypeOK', ThreadsSound', UNCHANGED << raw_tail, claims >>
  PROVE  IInv'
BY DEF IInv, TermsGoRound, ClaimsBeforeTails, TailsTiled, Owned, LiesIn,
       TermOfPartition, Covers, End

\* The writes of a publisher to the header of its frame.
LEMMA PublisherWrites ==
  ASSUME IInv, NEW p \in Publishers,
         \/ PutNegativeLength(p) \/ PutHeader(p) \/ Commit(p) \/ AbortType(p) \/ AbortLength(p)
  PROVE  IInv'
<1>1. p \in Threads /\ TypeOK /\ ThreadsTyped
  BY DEF Threads, IInv, TypeOK, ThreadsTyped
<1>2. ThreadsTyped'
  BY <1>1, Goes, Returns
     DEF Steps, PublisherSteps, RotateSteps, PutNegativeLength, PutHeader, Commit, AbortType, AbortLength
<1>3. thread[p] \in Locals
  BY <1>1 DEF TypeOK
<1>4. term' \in [Partitions -> [Offsets -> Header]]
  <2>1. Frame(p) \in Header
    BY <1>1, FrameTyped
  <2>2. /\ [Frame(p) EXCEPT !.length = - thread[p].length] \in Header
        /\ [Frame(p) EXCEPT !.type = "DATA", !.claim = thread[p].claim] \in Header
        /\ [Frame(p) EXCEPT !.length = thread[p].length] \in Header
        /\ [Frame(p) EXCEPT !.type = "PAD"] \in Header
    <3>1. /\ thread[p].length \in Int /\ - thread[p].length \in Int
          /\ thread[p].claim \in Nat
      BY <1>3 DEF Locals
    <3> QED BY <2>1, <3>1, HeaderChanged
  <2> QED BY <1>1, <2>2, FrameStored DEF PutNegativeLength, PutHeader, Commit, AbortType, AbortLength
<1>5. committed' \subseteq Nat
  BY <1>1, <1>3 DEF TypeOK, Locals, PutNegativeLength, PutHeader, Commit, AbortType, AbortLength, history
<1>6. /\ UNCHANGED << raw_tail, claims, active_term_count, limit, subscriber, delivered, padded >>
      /\ UNCHANGED << faults, timeouts >>
  BY DEF PutNegativeLength, PutHeader, Commit, AbortType, AbortLength, history, incidents
<1>7. TypeOK'
  BY <1>1, <1>2, <1>4, <1>5, <1>6 DEF TypeOK, ThreadsTyped
<1> QED BY <1>2, <1>6, <1>7, TailsKept DEF ThreadsTyped

\* A client that dies leaves the log as it is.
LEMMA PublisherDies ==
  ASSUME IInv, NEW p \in Publishers, Crash(p)
  PROVE  IInv'
<1>1. p \in Threads /\ TypeOK /\ ThreadsTyped
  BY DEF Threads, IInv, TypeOK, ThreadsTyped
<1>2. ThreadsTyped'
  BY <1>1, Goes DEF Crash, Steps
<1>3. /\ faults' \subseteq CrashSteps \cup {"to_tail", "past_end", "late"}
      /\ UNCHANGED << log, subscriber, history, timeouts >>
  BY <1>1 DEF Crash, TypeOK
<1>4. TypeOK'
  BY <1>1, <1>2, <1>3 DEF TypeOK, ThreadsTyped, log, history
<1> QED BY <1>2, <1>3, <1>4, TailsKept DEF ThreadsTyped, log, history

\* offer() loads the active term count and checks the limit.
LEMMA PublisherOffers ==
  ASSUME IInv, NEW p \in Publishers, NEW length \in FrameLengths, Offer(p, length)
  PROVE  IInv'
<1> DEFINE r == [thread[p] EXCEPT !.pc = "add", !.count = active_term_count, !.length = length]
<1>1. p \in Threads /\ TypeOK /\ ThreadsTyped
  BY DEF Threads, IInv, TypeOK, ThreadsTyped
<1>2. r \in Locals /\ r.pc = "add" /\ r.length = length
  <2>1. length \in Int /\ active_term_count \in Int
    BY <1>1, LengthsAssumption, TermAssumption DEF TypeOK
  <2>2. thread[p] \in Locals
    BY <1>1 DEF TypeOK
  <2> QED BY <2>1, <2>2 DEF Locals, PublisherSteps
<1>3. thread' = [thread EXCEPT ![p] = r] /\ UNCHANGED << log, subscriber, history, incidents >>
  BY DEF Offer
<1> HIDE DEF r
<1>4. ThreadsTyped'
  BY <1>1, <1>2, <1>3, ThreadStored
<1>5. TypeOK'
  BY <1>1, <1>3, <1>4 DEF TypeOK, ThreadsTyped, log, history, incidents
<1> QED BY <1>3, <1>4, <1>5, TailsKept DEF ThreadsTyped, log, history

\* A position has a term and an offset in it.
LEMMA Quotient ==
  ASSUME NEW position \in Nat
  PROVE  Count(position) \in Nat /\ Offset(position) \in Offsets
BY TermAssumption DEF Count, Offset, Offsets

\* A term count has a partition.
LEMMA PartitionIndex ==
  ASSUME NEW count \in Int
  PROVE  index_by_term_count(count) \in Partitions
BY DEF index_by_term_count, Partitions, PARTITION_COUNT

\* The driver cleans the terms that were read and moves the limit.
LEMMA DriverUpdatesLimit ==
  ASSUME IInv, UpdateLimit
  PROVE  IInv'
<1>1. TypeOK /\ ThreadsTyped
  BY DEF IInv, TypeOK, ThreadsTyped
<1>2. EmptyTerm \in [Offsets -> Header]
  BY DEF EmptyTerm, Header
<1>3. term' \in [Partitions -> [Offsets -> Header]]
  BY <1>1, <1>2 DEF UpdateLimit, TypeOK
<1>4. limit' \in Nat
  BY <1>1, TermAssumption DEF UpdateLimit, TypeOK
<1>5. faults' \subseteq CrashSteps \cup {"to_tail", "past_end", "late"}
  BY <1>1 DEF UpdateLimit, TypeOK
<1>6. UNCHANGED << raw_tail, active_term_count, thread, subscriber, history, timeouts >>
  BY DEF UpdateLimit
<1>7. TypeOK' /\ ThreadsSound'
  BY <1>1, <1>3, <1>4, <1>5, <1>6 DEF TypeOK, history, ThreadsTyped, ThreadsSound, ExpectedTermId
<1> QED BY <1>6, <1>7, TailsKept DEF history

\* The loads of the driver before it writes.
LEMMA DriverLoads ==
  ASSUME IInv, Unblock \/ LoadCurrentTail \/ LoadBlockedTail \/ LoadLength
  PROVE  IInv'
<1>1. TypeOK /\ ThreadsTyped /\ Driver \in Threads
  BY DEF IInv, TypeOK, ThreadsTyped, Threads
<1>2. thread[Driver] \in Locals
  BY <1>1 DEF TypeOK
<1>3. ThreadsTyped'
  <2>1. CASE Unblock
    <3> DEFINE nextTerm == /\ Offset(subscriber.position) = 0
                           /\ Count(subscriber.position) = active_term_count + 1
               partition == index_by_term_count(Count(subscriber.position))
               offset == Offset(subscriber.position)
               pc == IF nextTerm THEN "current_tail" ELSE "blocked_tail"
               r == [Idle EXCEPT !.pc = pc, !.count = active_term_count,
                                 !.partition = partition, !.offset = offset]
    <3>1. thread' = [thread EXCEPT ![Driver] = r]
      BY <2>1 DEF Unblock
    <3>2. partition \in Partitions /\ offset \in Offsets
      BY <1>1, Quotient, PartitionIndex DEF TypeOK
    <3>3. active_term_count \in Int
      BY <1>1 DEF TypeOK
    <3>4. pc \in {"current_tail", "blocked_tail"}
      OBVIOUS
    <3> HIDE DEF partition, offset, pc
    <3>5. r \in Locals /\ r.pc \in {"current_tail", "blocked_tail"}
      BY <3>2, <3>3, <3>4, IdleTyped DEF Locals, DriverSteps
    <3> HIDE DEF r
    <3> QED BY <1>1, <3>1, <3>5, ThreadStored
  <2>2. CASE LoadCurrentTail
    <3> DEFINE id == raw_tail[index_by_term_count(thread[Driver].count)].term_id
               r == [thread[Driver] EXCEPT !.pc = "rotate", !.term_id = id]
    <3>1. thread' = [thread EXCEPT ![Driver] = r]
      BY <2>2 DEF LoadCurrentTail
    <3>2. index_by_term_count(thread[Driver].count) \in Partitions
      BY <1>2, PartitionIndex DEF Locals
    <3>3. id \in Int
      BY <1>1, <3>2 DEF TypeOK, PackedTail
    <3> HIDE DEF id
    <3>4. r \in Locals /\ r.pc = "rotate"
      BY <1>2, <3>3 DEF Locals, RotateSteps
    <3> HIDE DEF r
    <3> QED BY <1>1, <3>1, <3>4, ThreadStored
  <2>3. CASE LoadBlockedTail
    <3> DEFINE tail == raw_tail[thread[Driver].partition]
               r == [thread[Driver] EXCEPT !.pc = "length", !.raw = tail, !.term_id = tail.term_id]
    <3>1. thread' = [thread EXCEPT ![Driver] = r]
      BY <2>3 DEF LoadBlockedTail
    <3>2. tail \in PackedTail /\ tail.term_id \in Int
      BY <1>1, <1>2 DEF TypeOK, PackedTail, Locals
    <3> HIDE DEF tail
    <3>3. r \in Locals /\ r.pc = "length"
      BY <1>2, <3>2 DEF Locals, DriverSteps
    <3> HIDE DEF r
    <3> QED BY <1>1, <3>1, <3>3, ThreadStored
  <2>4. CASE LoadLength
    <3> DEFINE length == Frame(Driver).length
               r1 == [thread[Driver] EXCEPT !.pc = "negate", !.length = - length]
               r2 == [thread[Driver] EXCEPT !.pc = "forward", !.scan = thread[Driver].offset]
    <3>1. \/ thread' = [thread EXCEPT ![Driver] = r1]
          \/ thread' = [thread EXCEPT ![Driver] = r2]
          \/ Return(Driver)
      BY <2>4 DEF LoadLength
    <3>2. length \in Int /\ - length \in Int
      BY <1>1, FrameTyped DEF Header
    <3>3. thread[Driver].offset \in Int
      BY <1>2 DEF Locals, Offsets
    <3> HIDE DEF length
    <3>4. r1 \in Locals /\ r1.pc = "negate" /\ r2 \in Locals /\ r2.pc = "forward"
      BY <1>2, <3>2, <3>3 DEF Locals, DriverSteps
    <3> HIDE DEF r1, r2
    <3> QED BY <1>1, <3>1, <3>4, ThreadStored, Returns
  <2> QED BY <2>1, <2>2, <2>3, <2>4
<1>4. /\ UNCHANGED << log, subscriber, history, faults >>
      /\ timeouts' \in Nat
  BY <1>1 DEF Unblock, LoadCurrentTail, LoadBlockedTail, LoadLength, incidents, TypeOK
<1>5. TypeOK'
  BY <1>1, <1>3, <1>4 DEF TypeOK, ThreadsTyped, log, history
<1> QED BY <1>3, <1>4, <1>5, TailsKept DEF ThreadsTyped, log, history

\* The positions the driver takes over are positions.
LEMMA TakenOver ==
  ASSUME TypeOK, NEW length \in Int, TakeOver(length)
  PROVE  padded' \subseteq Int
<1> DEFINE count == thread[Driver].term_id - InitialTermId
           from == count * TermLength + thread[Driver].offset
<1>1. Driver \in Threads
  BY DEF Threads
<1>2. thread[Driver].term_id \in Int /\ thread[Driver].offset \in Int
  BY <1>1 DEF TypeOK, Locals, Offsets
<1>3. count \in Int /\ TermLength \in Int
  BY <1>2, IdAssumption, TermAssumption
<1>4. padded' = padded \cup (from .. from + length - 1)
  BY DEF TakeOver
<1> HIDE DEF count
<1>5. from \in Int
  BY <1>2, <1>3
<1> HIDE DEF from
<1> QED BY <1>4, <1>5 DEF TypeOK

\* The driver's writes to the header it takes over.
LEMMA DriverWrites ==
  ASSUME IInv, NegateLength \/ ApplyDefaultHeader \/ PadType \/ PadLength
  PROVE  IInv'
<1>1. TypeOK /\ ThreadsTyped /\ Driver \in Threads
  BY DEF IInv, TypeOK, ThreadsTyped, Threads
<1>2. thread[Driver] \in Locals /\ thread[Driver].length \in Int
  BY <1>1 DEF TypeOK, Locals
<1>3. ThreadsTyped'
  BY <1>1, Goes, Returns
     DEF Steps, DriverSteps, RotateSteps, NegateLength, ApplyDefaultHeader, PadType, PadLength
<1>4. term' \in [Partitions -> [Offsets -> Header]]
  <2>1. Frame(Driver) \in Header
    BY <1>1, FrameTyped
  <2>2. DefaultHeader \in Header
    BY DEF DefaultHeader, Header
  <2>3. - (- thread[Driver].length) \in Int
    BY <1>2
  <2>4. /\ [Frame(Driver) EXCEPT !.length = - (- thread[Driver].length)] \in Header
        /\ [Frame(Driver) EXCEPT !.length = thread[Driver].length] \in Header
        /\ [Frame(Driver) EXCEPT !.type = "PAD"] \in Header
    BY <1>2, <2>1, <2>3, HeaderChanged
  <2>5. CASE UNCHANGED term
    BY <1>1, <2>5 DEF TypeOK
  <2>6. CASE PutFrame(Driver, [Frame(Driver) EXCEPT !.length = - (- thread[Driver].length)])
    BY <1>1, <2>4, <2>6, FrameStored
  <2>7. CASE ~ NegateLength
    BY <1>1, <2>2, <2>4, <2>7, FrameStored DEF ApplyDefaultHeader, PadType, PadLength
  <2> QED BY <2>5, <2>6, <2>7 DEF NegateLength
<1>5. padded' \subseteq Int
  BY <1>1, <1>2, TakenOver
     DEF TypeOK, NegateLength, ApplyDefaultHeader, PadType, PadLength, history
<1>6. /\ UNCHANGED << raw_tail, claims, active_term_count, limit, subscriber, committed, delivered >>
      /\ UNCHANGED << faults, timeouts >>
  BY DEF NegateLength, ApplyDefaultHeader, PadType, PadLength, history, incidents
<1>7. TypeOK'
  BY <1>1, <1>3, <1>4, <1>5, <1>6 DEF TypeOK, ThreadsTyped
<1> QED BY <1>3, <1>6, <1>7, TailsKept DEF ThreadsTyped

\* The driver makes padding or gives up.
LEMMA Pads ==
  ASSUME TypeOK, ThreadsTyped, NEW length \in Int, NEW rotates \in BOOLEAN, Pad(length, rotates)
  PROVE  /\ ThreadsTyped'
         /\ padded' \subseteq Int
         /\ faults' \subseteq CrashSteps \cup {"to_tail", "past_end", "late"}
<1> DEFINE r == [thread[Driver] EXCEPT !.pc = "default_header", !.length = length, !.rotates = rotates]
<1>1. Driver \in Threads /\ thread[Driver] \in Locals
  BY DEF TypeOK, Threads
<1>2. thread' = [thread EXCEPT ![Driver] = r] \/ Return(Driver)
  BY DEF Pad
<1>3. r \in Locals /\ r.pc = "default_header"
  BY <1>1 DEF Locals, DriverSteps
<1> HIDE DEF r
<1>4. ThreadsTyped'
  BY <1>1, <1>2, <1>3, ThreadStored, Returns
<1>5. padded' \subseteq Int
  BY TakenOver DEF Pad, TypeOK
<1>6. faults' \subseteq CrashSteps \cup {"to_tail", "past_end", "late"}
  BY DEF Pad, TypeOK
<1> QED BY <1>4, <1>5, <1>6

\* The driver scans for the length of the padding.
LEMMA DriverScans ==
  ASSUME IInv, ScanForward \/ ScanBack
  PROVE  IInv'
<1> DEFINE at == thread[Driver]
           current == at.scan
           r1 == [at EXCEPT !.scan = current + 1]
           r2 == [at EXCEPT !.pc = "back", !.scan = current - 1, !.length = current - at.offset]
           r3 == [at EXCEPT !.scan = current - 1]
<1>1. TypeOK /\ ThreadsTyped /\ Driver \in Threads
  BY DEF IInv, TypeOK, ThreadsTyped, Threads
<1>2. /\ at \in Locals /\ current \in Int /\ at.offset \in Int
      /\ at.length \in Int /\ at.raw.term_offset \in Int
  BY <1>1 DEF TypeOK, Locals, Offsets, PackedTail
<1>3. /\ r1 \in Locals /\ r1.pc = at.pc
      /\ r2 \in Locals /\ r2.pc = "back"
      /\ r3 \in Locals /\ r3.pc = at.pc
  <2>1. current + 1 \in Int /\ current - 1 \in Int /\ current - at.offset \in Int
    BY <1>2
  <2>2. at \in Locals
    BY <1>2
  <2> HIDE DEF at
  <2> QED BY <2>1, <2>2 DEF Locals, DriverSteps
<1>4. /\ ThreadsTyped'
      /\ padded' \subseteq Int
      /\ faults' \subseteq CrashSteps \cup {"to_tail", "past_end", "late"}
  <2>1. CASE /\ \/ thread' = [thread EXCEPT ![Driver] = r1]
                \/ thread' = [thread EXCEPT ![Driver] = r2]
                \/ thread' = [thread EXCEPT ![Driver] = r3]
                \/ Return(Driver)
             /\ UNCHANGED padded
             /\ faults' \in {faults, faults \cup {"past_end"}}
             /\ at.pc \in {"forward", "back"}
    <3> HIDE DEF r1, r2, r3
    <3>1. ThreadsTyped'
      BY <1>1, <1>3, <2>1, ThreadStored, Returns
    <3> QED BY <1>1, <2>1, <3>1 DEF TypeOK
  <2>2. CASE Pad(at.raw.term_offset - at.offset, TRUE)
    <3>1. at.raw.term_offset - at.offset \in Int
      BY <1>2
    <3> QED BY <1>1, <2>2, <3>1, Pads
  <2>3. CASE Pad(at.length, FALSE)
    BY <1>1, <1>2, <2>3, Pads
  <2> QED BY <2>1, <2>2, <2>3 DEF ScanForward, ScanBack, LookAt
<1>5. UNCHANGED << log, subscriber, claims, committed, delivered, timeouts >>
  BY DEF ScanForward, ScanBack
<1>6. TypeOK'
  BY <1>1, <1>4, <1>5 DEF TypeOK, ThreadsTyped, log
<1> QED BY <1>4, <1>5, <1>6, TailsKept DEF ThreadsTyped, log

\* The subscriber reads at offsets of its term only.
LEMMA SubscriberReads ==
  ASSUME IInv, ReadStep
  PROVE  IInv'
<1> DEFINE position == subscriber.position
           Subscriber == [position : Nat, pc : {"idle", "loop", "type"}, offset : Nat, length : Nat]
           frame == term[SubscribedPartition][subscriber.offset]
<1>1. TypeOK /\ ThreadsSound
  BY DEF IInv
<1>2. /\ subscriber \in Subscriber
      /\ position \in Nat /\ subscriber.offset \in Nat /\ subscriber.length \in Nat
  BY <1>1 DEF TypeOK
<1>3. Count(position) \in Nat /\ Offset(position) \in Nat /\ Count(position) * TermLength \in Nat
  <2>1. Count(position) \in Nat /\ Offset(position) \in Offsets
    BY <1>2, Quotient
  <2> QED BY <2>1, TermAssumption DEF Offsets
<1>4. /\ subscriber' \in Subscriber
      /\ subscriber'.pc = "type" => subscriber'.offset \in Offsets
  <2>1. CASE ReadLength
    <3> DEFINE offset == IF subscriber.pc = "idle" THEN Offset(position) ELSE subscriber.offset
               length == term[SubscribedPartition][offset].length
    <3>1. /\ subscriber' = [subscriber EXCEPT !.pc = "type", !.offset = offset, !.length = length]
          /\ offset < TermLength /\ length > 0
      BY <2>1 DEF ReadLength
    <3>2. offset \in Nat
      BY <1>2, <1>3
    <3> HIDE DEF offset
    <3>3. offset \in Offsets
      BY <3>1, <3>2, TermAssumption DEF Offsets
    <3>4. SubscribedPartition \in Partitions
      BY <1>3, PartitionIndex DEF SubscribedPartition
    <3>5. length \in Nat
      BY <1>1, <3>1, <3>3, <3>4 DEF TypeOK, Header
    <3> HIDE DEF length
    <3> QED BY <1>2, <3>1, <3>2, <3>3, <3>5
  <2>2. CASE ReadReturns
    BY <1>2, <1>3, <2>2 DEF ReadReturns
  <2>3. CASE SkipPadding \/ HandleFragment
    <3> DEFINE next == subscriber.offset + subscriber.length
    <3>1. subscriber' = [subscriber EXCEPT !.pc = "loop", !.offset = next]
      BY <2>3 DEF SkipPadding, HandleFragment
    <3>2. next \in Nat
      BY <1>2
    <3> HIDE DEF next
    <3> QED BY <1>2, <3>1, <3>2
  <2> QED BY <2>1, <2>2, <2>3 DEF ReadStep
<1>5. delivered' \in Seq([claim : Nat, position : Nat])
  <2>1. CASE HandleFragment
    <3> DEFINE call == [claim |-> frame.claim,
                        position |-> Count(position) * TermLength + subscriber.offset]
    <3>1. delivered' = Append(delivered, call) /\ subscriber.pc = "type"
      BY <2>1 DEF HandleFragment
    <3>2. SubscribedPartition \in Partitions
      BY <1>3, PartitionIndex DEF SubscribedPartition
    <3>3. frame.claim \in Nat
      BY <1>1, <3>1, <3>2 DEF TypeOK, Header
    <3>4. call \in [claim : Nat, position : Nat]
      BY <1>2, <1>3, <3>3
    <3> HIDE DEF call
    <3> QED BY <1>1, <3>1, <3>4 DEF TypeOK
  <2>2. CASE ~ HandleFragment
    BY <1>1, <2>2 DEF ReadStep, ReadLength, ReadReturns, SkipPadding, TypeOK, history
  <2> QED BY <2>1, <2>2
<1>6. UNCHANGED << log, thread, claims, committed, padded, incidents >>
  BY DEF ReadStep, ReadLength, ReadReturns, SkipPadding, HandleFragment, history
<1> HIDE DEF frame, position
<1>7. TypeOK'
  BY <1>1, <1>4, <1>5, <1>6 DEF TypeOK, log, incidents
<1>8. ThreadsSound'
  BY <1>1, <1>6 DEF ThreadsSound, ExpectedTermId
<1> QED BY <1>6, <1>7, <1>8, TailsKept DEF log

-----------------------------------------------------------------------------
(* Rotating: a tail is only replaced by that of three terms later.         *)

\* rotate_log() looks at the next tail and sets the active term count.
LEMMA RotationLooks ==
  ASSUME IInv, NEW t \in Threads,
         RotationRefused(t) \/ LoadNextTail(t) \/ CompareAndSetTermCount(t)
  PROVE  IInv'
<1>1. TypeOK /\ ThreadsTyped /\ thread[t] \in Locals
  BY DEF IInv, TypeOK, ThreadsTyped
<1>2. ThreadsTyped'
  <2>1. CASE LoadNextTail(t)
    <3> DEFINE tail == raw_tail[NextIndex(t)]
               r == [thread[t] EXCEPT !.pc = "rotate_tail", !.raw = tail]
    <3>1. thread' = [thread EXCEPT ![t] = r] /\ tail.term_id = ExpectedTermId(t)
      BY <2>1 DEF LoadNextTail
    <3>2. NextIndex(t) \in Partitions
      BY <1>1, PartitionIndex DEF NextIndex, Locals
    <3>3. tail \in PackedTail
      BY <1>1, <3>2 DEF TypeOK
    <3> HIDE DEF tail
    <3>4. r \in Locals /\ r.pc = "rotate_tail" /\ r.raw = tail /\ r.term_id = thread[t].term_id
      BY <1>1, <3>3 DEF Locals, RotateSteps
    <3>5. r.raw.term_id = r.term_id + 1 - PARTITION_COUNT
      BY <3>1, <3>4 DEF ExpectedTermId
    <3> HIDE DEF r
    <3> QED BY <1>1, <3>1, <3>4, <3>5, ThreadStored
  <2> QED BY <1>1, <2>1, Returns DEF RotationRefused, CompareAndSetTermCount
<1>3. active_term_count' \in Nat
  <2>1. CASE thread[t].count = active_term_count
    BY <1>1, <2>1 DEF RotationRefused, LoadNextTail, CompareAndSetTermCount, TypeOK, log
  <2>2. CASE thread[t].count # active_term_count
    BY <1>1, <2>2 DEF RotationRefused, LoadNextTail, CompareAndSetTermCount, TypeOK, log
  <2> QED BY <2>1, <2>2
<1>4. UNCHANGED << term, raw_tail, limit, subscriber, history, incidents >>
  BY DEF RotationRefused, LoadNextTail, CompareAndSetTermCount, log
<1>5. TypeOK'
  BY <1>1, <1>2, <1>3, <1>4 DEF TypeOK, ThreadsTyped, history, incidents
<1> QED BY <1>2, <1>4, <1>5, TailsKept DEF ThreadsTyped, history

\* The compare-and-set of rotate_log(): the term of the partition grows by three, and no
\* claim is in the new term.
LEMMA TailReplaced ==
  ASSUME IInv, NEW t \in Threads, CompareAndSetNextTail(t)
  PROVE  IInv'
<1>0. PICK next \in Partitions : next = NextIndex(t)
  BY PartitionIndex DEF IInv, TypeOK, Locals, NextIndex
<1> DEFINE tail == pack_tail(0, thread[t].term_id + 1)
<1>1. TypeOK /\ ThreadsTyped /\ thread[t] \in Locals /\ thread[t].pc = "rotate_tail"
  BY DEF IInv, TypeOK, ThreadsTyped, CompareAndSetNextTail
<1>2. ThreadsTyped'
  BY <1>1, Goes DEF CompareAndSetNextTail, Steps, RotateSteps
<1>3. /\ next \in Partitions
      /\ thread[t].term_id \in Int
      /\ tail \in PackedTail /\ tail.term_offset = 0 /\ tail.term_id = thread[t].term_id + 1
  BY <1>1 DEF Locals, pack_tail, PackedTail
<1>4. UNCHANGED << term, active_term_count, limit, subscriber, history, incidents >>
  BY DEF CompareAndSetNextTail
<1>5. CASE UNCHANGED raw_tail
  <2>1. TypeOK'
    BY <1>1, <1>2, <1>4, <1>5 DEF TypeOK, ThreadsTyped, history, incidents
  <2> QED BY <1>2, <1>4, <1>5, <2>1, TailsKept DEF ThreadsTyped, history
<1>6. CASE raw_tail[next] = thread[t].raw /\ raw_tail' = [raw_tail EXCEPT ![next] = tail]
  <2> HIDE DEF tail
  <2>1. TypeOK'
    BY <1>1, <1>2, <1>3, <1>4, <1>6 DEF TypeOK, ThreadsTyped, history, incidents
  <2>2. raw_tail[next].term_id = thread[t].term_id + 1 - PARTITION_COUNT
    BY <1>1, <1>6 DEF ThreadsTyped, ThreadsSound, ExpectedTermId
  <2>3. \A i \in Partitions : raw_tail[i] \in PackedTail /\ raw_tail[i].term_id \in Int
    BY <1>1 DEF TypeOK, PackedTail
  <2>4. /\ \A i \in Partitions : TermOfPartition(i) \in Int
        /\ TermOfPartition(next)' = TermOfPartition(next) + PARTITION_COUNT
        /\ \A i \in Partitions \ {next} : raw_tail'[i] = raw_tail[i] /\ TermOfPartition(i)' = TermOfPartition(i)
        /\ raw_tail'[next].term_offset = 0
    <3>1. \A i \in Partitions : TermOfPartition(i) \in Int
      BY <2>3, IdAssumption DEF TermOfPartition
    <3>2. raw_tail'[next] = tail /\ \A i \in Partitions \ {next} : raw_tail'[i] = raw_tail[i]
      BY <1>1, <1>3, <1>6 DEF TypeOK
    <3>3. TermOfPartition(next)' = tail.term_id - InitialTermId
      BY <3>2 DEF TermOfPartition
    <3>4. tail.term_id = raw_tail[next].term_id + PARTITION_COUNT
      BY <1>3, <2>2, <2>3 DEF PARTITION_COUNT
    <3>5. tail.term_id - InitialTermId = TermOfPartition(next) + PARTITION_COUNT
      BY <1>3, <2>3, <3>4, IdAssumption DEF TermOfPartition, PARTITION_COUNT
    <3> QED BY <1>3, <3>1, <3>2, <3>3, <3>5 DEF TermOfPartition
  <2>5. TermsGoRound'
    BY <1>3, <2>4 DEF IInv, TermsGoRound, PARTITION_COUNT
  <2>6. ClaimsBeforeTails'
    <3>1. SUFFICES ASSUME NEW n \in DOMAIN claims
                   PROVE  \E count \in Int, offset \in Nat : LiesIn(claims[n], count, offset)'
      BY <1>4 DEF ClaimsBeforeTails, history
    <3>2. PICK count \in Int, offset \in Nat : LiesIn(claims[n], count, offset)
      BY DEF IInv, ClaimsBeforeTails
    <3>3. count % PARTITION_COUNT \in Partitions
      BY DEF Partitions, PARTITION_COUNT
    <3>4. claims'[n] = claims[n]
      BY <1>4 DEF history
    <3>5. LiesIn(claims[n], count, offset)'
      <4>1. CASE count % PARTITION_COUNT = next
        BY <1>3, <2>4, <3>2, <3>4, <4>1 DEF LiesIn, PARTITION_COUNT
      <4>2. CASE count % PARTITION_COUNT # next
        BY <2>4, <3>2, <3>3, <3>4, <4>2 DEF LiesIn
      <4> QED BY <4>1, <4>2
    <3> QED BY <3>5
  <2>7. TailsTiled'
    <3>1. SUFFICES ASSUME NEW i \in Partitions, NEW offset \in Offsets,
                          offset < raw_tail'[i].term_offset
                   PROVE  Owned(i, offset)'
      BY DEF TailsTiled, Offsets
    <3>2. i # next
      BY <2>4, <3>1, TermAssumption DEF Offsets
    <3>3. Owned(i, offset)
      BY <2>4, <3>1, <3>2 DEF IInv, TailsTiled
    <3> QED BY <1>4, <2>4, <3>2, <3>3 DEF Owned, Covers, End, history
  <2> QED BY <1>2, <2>1, <2>5, <2>6, <2>7 DEF IInv, ThreadsTyped
<1> QED BY <1>0, <1>5, <1>6 DEF CompareAndSetNextTail

-----------------------------------------------------------------------------
(* Adding to a tail: what is between the old tail and the new is claimed.  *)

\* A tail that grows leaves the claims behind it.
LEMMA TailGrows ==
  ASSUME IInv, NEW index \in Partitions, NEW added \in Nat,
         raw_tail' = [raw_tail EXCEPT ![index].term_offset = @ + added]
  PROVE  /\ raw_tail' \in [Partitions -> PackedTail]
         /\ raw_tail'[index].term_offset = raw_tail[index].term_offset + added
         /\ \A i \in Partitions \ {index} : raw_tail'[i] = raw_tail[i]
         /\ \A i \in Partitions : TermOfPartition(i) \in Int /\ TermOfPartition(i)' = TermOfPartition(i)
         /\ \A claim \in Claim, count \in Int, offset \in Nat :
              LiesIn(claim, count, offset) => LiesIn(claim, count, offset)'
<1> DEFINE tail == raw_tail[index]
           next == [tail EXCEPT !.term_offset = @ + added]
<1>1. raw_tail \in [Partitions -> PackedTail]
  BY DEF IInv, TypeOK
<1>2. next \in PackedTail /\ next.term_offset = tail.term_offset + added /\ next.term_id = tail.term_id
  BY <1>1 DEF PackedTail
<1>3. raw_tail' = [raw_tail EXCEPT ![index] = next]
  BY <1>1
<1>4. /\ raw_tail' \in [Partitions -> PackedTail]
      /\ raw_tail'[index] = next
      /\ \A i \in Partitions \ {index} : raw_tail'[i] = raw_tail[i]
  <2> HIDE DEF next
  <2> QED BY <1>1, <1>2, <1>3
<1>5. \A i \in Partitions : TermOfPartition(i) \in Int /\ TermOfPartition(i)' = TermOfPartition(i)
  <2> HIDE DEF next
  <2>1. \A i \in Partitions : raw_tail[i].term_id \in Int
    BY <1>1 DEF PackedTail
  <2> QED BY <1>2, <1>4, <2>1, IdAssumption DEF TermOfPartition
<1>6. ASSUME NEW claim \in Claim, NEW count \in Int, NEW offset \in Nat,
             LiesIn(claim, count, offset)
      PROVE  LiesIn(claim, count, offset)'
  <2> DEFINE i == count % PARTITION_COUNT
  <2>1. i \in Partitions
    BY DEF Partitions, PARTITION_COUNT
  <2>2. /\ count <= TermOfPartition(i)
        /\ count = TermOfPartition(i) => offset + claim.length <= raw_tail[i].term_offset
    BY <1>6 DEF LiesIn
  <2>3. raw_tail[i].term_offset \in Nat /\ raw_tail[i].term_offset <= raw_tail'[i].term_offset
    <3>1. raw_tail[i].term_offset \in Nat
      BY <1>1, <2>1 DEF PackedTail
    <3> HIDE DEF next, i
    <3> QED BY <1>2, <1>4, <2>1, <3>1
  <2>4. TermOfPartition(i)' = TermOfPartition(i) /\ i' = i /\ raw_tail'[i].term_offset \in Nat
    BY <1>4, <1>5, <2>1 DEF PackedTail
  <2>5. offset + claim.length \in Nat
    BY DEF Claim
  <2>6. /\ count <= TermOfPartition(i)'
        /\ count = TermOfPartition(i)' => offset + claim.length <= raw_tail'[i].term_offset
    <3> HIDE DEF i
    <3> QED BY <2>2, <2>3, <2>4, <2>5
  <2> QED BY <1>6, <2>4, <2>6 DEF LiesIn
<1> QED BY <1>2, <1>4, <1>5, <1>6

\* A publisher that finds the tail at the end of the term claims nothing.
LEMMA TailPassedTheEnd ==
  ASSUME IInv, NEW p \in Publishers, NEW index \in Partitions,
         raw_tail' = [raw_tail EXCEPT ![index].term_offset = @ + thread[p].length],
         thread[p].length \in Nat, raw_tail[index].term_offset >= TermLength,
         UNCHANGED claims
  PROVE  TermsGoRound' /\ ClaimsBeforeTails' /\ TailsTiled'
<1> DEFINE added == thread[p].length
<1>1. /\ raw_tail'[index].term_offset = raw_tail[index].term_offset + added
      /\ \A i \in Partitions \ {index} : raw_tail'[i] = raw_tail[i]
      /\ \A i \in Partitions : TermOfPartition(i) \in Int /\ TermOfPartition(i)' = TermOfPartition(i)
      /\ \A claim \in Claim, count \in Int, offset \in Nat :
           LiesIn(claim, count, offset) => LiesIn(claim, count, offset)'
  BY TailGrows
<1>2. TermsGoRound'
  BY <1>1 DEF IInv, TermsGoRound
<1>3. ClaimsBeforeTails'
  <2>1. \A n \in DOMAIN claims : claims[n] \in Claim
    BY DEF IInv, TypeOK
  <2> QED BY <1>1, <2>1 DEF IInv, ClaimsBeforeTails
<1>4. TailsTiled'
  <2>1. SUFFICES ASSUME NEW i \in Partitions, NEW offset \in Offsets,
                        offset < raw_tail'[i].term_offset
                 PROVE  Owned(i, offset)'
    BY DEF TailsTiled, Offsets
  <2>2. offset < raw_tail[i].term_offset
    <3>1. offset \in Nat /\ offset < TermLength /\ TermLength \in Nat
      BY TermAssumption DEF Offsets
    <3>2. raw_tail[index].term_offset \in Nat
      BY DEF IInv, TypeOK, PackedTail
    <3>3. CASE i = index
      BY <3>1, <3>2, <3>3
    <3>4. CASE i # index
      BY <1>1, <2>1, <3>4
    <3> QED BY <3>3, <3>4
  <2>3. Owned(i, offset)
    BY <2>2 DEF IInv, TailsTiled
  <2> QED BY <1>1, <2>3 DEF Owned, Covers, End
<1> QED BY <1>2, <1>3, <1>4

\* A claim covers the positions from its first.
LEMMA CoveredFrom ==
  ASSUME NEW start \in Int, NEW from \in Int, NEW offset \in Int, NEW claim,
         NEW length \in Int, claim.position = start + from, claim.length = length,
         from <= offset, offset < from + length
  PROVE  Covers(claim, start + offset)
BY DEF Covers, End

\* A publisher that finds the tail within the term claims what is between the old tail
\* and the new, and nobody has claimed that before.
LEMMA Claimed ==
  ASSUME IInv, NEW p \in Publishers, NEW index \in Partitions, NEW claim \in Claim, NEW length \in Nat,
         raw_tail' = [raw_tail EXCEPT ![index].term_offset = @ + thread[p].length],
         thread[p].length \in Nat \ {0}, raw_tail[index].term_offset < TermLength,
         length = IF raw_tail[index].term_offset + thread[p].length <= TermLength
                  THEN thread[p].length ELSE TermLength - raw_tail[index].term_offset,
         claim.position = TermOfPartition(index) * TermLength + raw_tail[index].term_offset,
         claim.length = length,
         claims' = Append(claims, claim)
  PROVE  TermsGoRound' /\ ClaimsBeforeTails' /\ TailsTiled'
<1> DEFINE added == thread[p].length
           from == raw_tail[index].term_offset
           last == Len(claims) + 1
<1>1. /\ raw_tail'[index].term_offset = from + added
      /\ \A i \in Partitions \ {index} : raw_tail'[i] = raw_tail[i]
      /\ \A i \in Partitions : TermOfPartition(i) \in Int /\ TermOfPartition(i)' = TermOfPartition(i)
      /\ \A c \in Claim, count \in Int, offset \in Nat :
           LiesIn(c, count, offset) => LiesIn(c, count, offset)'
  BY TailGrows
<1>2. claims \in Seq(Claim)
  BY DEF IInv, TypeOK
<1>3. /\ last \in Nat
      /\ DOMAIN claims' = DOMAIN claims \cup {last} /\ last \notin DOMAIN claims
      /\ claims'[last] = claim
      /\ \A n \in DOMAIN claims : claims'[n] = claims[n] /\ claims[n] \in Claim
  BY <1>2
<1>4. /\ TermLength \in Nat /\ from \in Nat /\ added \in Nat
      /\ from + length <= TermLength /\ from + length <= from + added
      /\ \A o \in Offsets : o < from + added => o < from + length
  <2>1. from \in Nat /\ TermLength \in Nat
    BY TermAssumption DEF IInv, TypeOK, PackedTail
  <2> QED BY <2>1 DEF Offsets
<1>5. TermOfPartition(index) \in Int /\ TermOfPartition(index) % PARTITION_COUNT = index
  BY <1>1 DEF IInv, TermsGoRound
<1>6. TermsGoRound'
  BY <1>1 DEF IInv, TermsGoRound
<1>7. ClaimsBeforeTails'
  <2>2. \E count \in Int, offset \in Nat : LiesIn(claim, count, offset)'
    <3>1. PICK count \in Int : count = TermOfPartition(index)
      BY <1>5
    <3>2. PICK offset \in Nat : offset = from
      BY <1>4
    <3>3. /\ count % PARTITION_COUNT = index /\ TermOfPartition(index)' = count
          /\ claim.position = count * TermLength + offset
          /\ offset + claim.length <= TermLength
          /\ offset + claim.length <= raw_tail'[index].term_offset
      BY <1>1, <1>4, <1>5, <3>1, <3>2
    <3>4. LiesIn(claim, count, offset)'
      BY <3>3 DEF LiesIn
    <3> QED BY <3>4
  <2>3. SUFFICES ASSUME NEW n \in DOMAIN claims'
                 PROVE  \E count \in Int, offset \in Nat : LiesIn(claims[n], count, offset)'
    BY DEF ClaimsBeforeTails
  <2>4. PICK c \in Claim : /\ c = claims'[n]
                           /\ \E count \in Int, offset \in Nat : LiesIn(c, count, offset)'
    <3>1. CASE n \in DOMAIN claims
      BY <1>1, <1>3, <3>1 DEF IInv, ClaimsBeforeTails
    <3>2. CASE n = last
      <4> HIDE DEF last
      <4> QED BY <1>3, <2>2, <3>2
    <3> QED BY <1>3, <3>1, <3>2
  <2> QED BY <2>4 DEF LiesIn
<1>8. TailsTiled'
  <2>1. SUFFICES ASSUME NEW i \in Partitions, NEW offset \in Offsets,
                        offset < raw_tail'[i].term_offset
                 PROVE  Owned(i, offset)'
    BY DEF TailsTiled, Offsets
  <2> DEFINE position == TermOfPartition(i) * TermLength + offset
  <2>2. /\ offset \in Nat /\ TermOfPartition(i) \in Int
        /\ raw_tail[i].term_offset \in Nat
    BY <1>1 DEF IInv, TypeOK, PackedTail, Offsets
  <2>3. position' = position
    BY <1>1
  <2>4. Covers(claim, position) <=> i = index /\ from <= offset /\ offset < from + length
    <3>1. ASSUME Covers(claim, position)
          PROVE  i = index /\ from <= offset /\ offset < from + length
      BY <1>1, <1>4, <1>5, <2>2, <3>1, CoveredInTerm DEF IInv, TermsGoRound
    <3>2. ASSUME i = index, from <= offset, offset < from + length
          PROVE  Covers(claim, position)
      <4> DEFINE start == TermOfPartition(index) * TermLength
      <4>1. start \in Int
        BY <1>4, <1>5
      <4>2. claim.position = start + from /\ claim.length = length /\ position = start + offset
        BY <3>2
      <4>3. from \in Int /\ from <= offset /\ offset < from + length
        BY <1>4, <3>2
      <4> HIDE DEF start, from, position
      <4>4. Covers(claim, start + offset)
        BY <2>2, <4>1, <4>2, <4>3, CoveredFrom
      <4> QED BY <4>2, <4>4
    <3> QED BY <3>1, <3>2
  <2>5. \E n \in DOMAIN claims' : /\ Covers(claims'[n], position)
                                  /\ \A m \in DOMAIN claims' : Covers(claims'[m], position) => m = n
    <3>1. CASE offset < raw_tail[i].term_offset
      <4>1. Owned(i, offset)
        BY <3>1 DEF IInv, TailsTiled
      <4>2. ~ Covers(claim, position)
        BY <1>4, <2>2, <2>4, <3>1
      <4> HIDE DEF last
      <4> QED BY <1>3, <4>1, <4>2 DEF Owned
    <3>2. CASE ~ (offset < raw_tail[i].term_offset)
      <4>1. i = index
        BY <1>1, <2>1, <3>2
      <4>2. from <= offset /\ offset < from + length
        <5>1. offset < from + added
          BY <1>1, <2>1, <4>1
        <5>2. offset < from + length
          BY <1>4, <5>1
        <5>3. ~ (offset < from)
          BY <3>2, <4>1
        <5> HIDE DEF from
        <5> QED BY <1>4, <2>2, <5>2, <5>3
      <4>3. \A n \in DOMAIN claims : ~ Covers(claims[n], position)
        BY <3>2, NothingBehindTail
      <4> HIDE DEF last
      <4> QED BY <1>3, <2>4, <4>1, <4>2, <4>3
    <3> QED BY <3>1, <3>2
  <2>6. \A c : Covers(c, position)' <=> Covers(c, position)
    BY <2>3 DEF Covers, End
  <2> QED BY <2>3, <2>5 DEF Owned, Covers, End
<1> QED BY <1>6, <1>7, <1>8

\* get_and_add on the tail, with its claim.
LEMMA PublisherAdds ==
  ASSUME IInv, NEW p \in Publishers, AddToTail(p)
  PROVE  IInv'
<1>1. TypeOK /\ ThreadsTyped /\ p \in Threads /\ thread[p] \in Locals /\ thread[p].pc = "add"
  BY DEF IInv, TypeOK, ThreadsTyped, Threads, AddToTail
<1>2. PICK index \in Partitions : index = index_by_term_count(thread[p].count)
  BY <1>1, PartitionIndex DEF Locals
<1>3. PICK added \in Nat \ {0} : added = thread[p].length
  <2>1. thread[p].length \in FrameLengths
    BY <1>1 DEF ThreadsTyped, ThreadsSound
  <2>2. \A length \in 1 .. TermLength : length \in Nat \ {0}
    BY TermAssumption
  <2> QED BY <2>1, <2>2, LengthsAssumption
<1>4. PICK tail \in PackedTail : tail = raw_tail[index]
  BY <1>1 DEF TypeOK
<1>5. tail.term_offset \in Nat /\ tail.term_id \in Int /\ tail.term_id - InitialTermId \in Int
  BY <1>4, IdAssumption DEF PackedTail
<1> DEFINE count == tail.term_id - InitialTermId
           fits == tail.term_offset + added <= TermLength
           length == IF fits THEN added ELSE TermLength - tail.term_offset
           at == [thread[p] EXCEPT !.count = count, !.term_id = tail.term_id, !.partition = index]
           claim == [position |-> count * TermLength + tail.term_offset, length |-> length]
           r1 == [at EXCEPT !.pc = "claimed", !.offset = tail.term_offset, !.length = length,
                            !.claim = Len(claims) + 1, !.rotates = ~ fits]
           r2 == [at EXCEPT !.pc = "rotate"]
<1>6. /\ raw_tail' = [raw_tail EXCEPT ![index].term_offset = @ + thread[p].length]
      /\ \/ /\ tail.term_offset < TermLength
            /\ claims' = Append(claims, claim)
            /\ thread' = [thread EXCEPT ![p] = r1]
         \/ /\ tail.term_offset >= TermLength
            /\ thread' = [thread EXCEPT ![p] = r2]
            /\ UNCHANGED claims
      /\ UNCHANGED << term, active_term_count, limit, subscriber, committed, delivered, padded, incidents >>
  BY <1>2, <1>3, <1>4 DEF AddToTail
<1>7. at \in Locals
  BY <1>1, <1>5 DEF Locals
<1>8. Len(claims) + 1 \in Nat
  BY <1>1 DEF TypeOK
<1>9. raw_tail' \in [Partitions -> PackedTail]
  BY <1>3, <1>6, TailGrows
<1>10. CASE tail.term_offset < TermLength
  <2>1. tail.term_offset \in Offsets /\ length \in Nat /\ fits \in BOOLEAN
    BY <1>3, <1>5, <1>10, TermAssumption DEF Offsets
  <2>2. length = IF raw_tail[index].term_offset + thread[p].length <= TermLength
                 THEN thread[p].length ELSE TermLength - raw_tail[index].term_offset
    BY <1>3, <1>4
  <2>3. r1 \in Locals /\ r1.pc = "claimed"
    <3> HIDE DEF at, length, fits
    <3>1. length \in Int
      BY <2>1
    <3> QED BY <1>7, <1>8, <2>1, <3>1 DEF Locals, PublisherSteps
  <2>4. count * TermLength + tail.term_offset \in Int
    BY <1>5, TermAssumption
  <2>5. /\ claim \in Claim /\ claim.length = length
        /\ claim.position = TermOfPartition(index) * TermLength + raw_tail[index].term_offset
    <3> HIDE DEF length
    <3> QED BY <1>4, <2>1, <2>4 DEF Claim, TermOfPartition
  <2>6. claims' = Append(claims, claim) /\ thread' = [thread EXCEPT ![p] = r1]
    BY <1>5, <1>6, <1>10, TermAssumption
  <2> HIDE DEF r1, claim, length
  <2>7. ThreadsTyped'
    BY <1>1, <2>3, <2>6, ThreadStored
  <2>8. claims' \in Seq(Claim)
    BY <1>1, <2>5, <2>6 DEF TypeOK
  <2>9. TermsGoRound' /\ ClaimsBeforeTails' /\ TailsTiled'
    BY <1>3, <1>4, <1>6, <1>10, <2>1, <2>2, <2>5, <2>6, Claimed
  <2>10. TypeOK'
    BY <1>1, <1>6, <1>9, <2>7, <2>8 DEF TypeOK, ThreadsTyped, incidents
  <2> QED BY <2>7, <2>9, <2>10 DEF IInv, ThreadsTyped
<1>11. CASE ~ (tail.term_offset < TermLength)
  <2>1. /\ tail.term_offset >= TermLength
        /\ thread' = [thread EXCEPT ![p] = r2]
        /\ UNCHANGED claims
    BY <1>5, <1>6, <1>11, TermAssumption
  <2>2. r2 \in Locals /\ r2.pc = "rotate"
    <3> HIDE DEF at
    <3> QED BY <1>7 DEF Locals, RotateSteps
  <2> HIDE DEF r2
  <2>3. ThreadsTyped'
    BY <1>1, <2>1, <2>2, ThreadStored
  <2>4. TermsGoRound' /\ ClaimsBeforeTails' /\ TailsTiled'
    BY <1>3, <1>4, <1>6, <2>1, TailPassedTheEnd
  <2>5. TypeOK'
    BY <1>1, <1>6, <1>9, <2>1, <2>3 DEF TypeOK, ThreadsTyped, incidents
  <2> QED BY <2>3, <2>4, <2>5 DEF IInv, ThreadsTyped
<1> QED BY <1>10, <1>11

-----------------------------------------------------------------------------
\* A new log has no claims, and its partitions hold the terms 0, -2 and -1.
LEMMA InitOK == Init => IInv
<1> SUFFICES ASSUME Init PROVE IInv
  OBVIOUS
<1>1. TermLength \in Nat \ {0} /\ Window \in Nat
  BY TermAssumption
<1>2. EmptyTerm \in [Offsets -> Header]
  BY DEF EmptyTerm, Header
<1>3. term \in [Partitions -> [Offsets -> Header]]
  BY <1>2 DEF Init
<1>4. \A i \in Partitions :
        /\ raw_tail[i] \in PackedTail
        /\ raw_tail[i].term_offset = 0
        /\ raw_tail[i].term_id = InitialTermId + i - (IF i = 0 THEN 0 ELSE PARTITION_COUNT)
  BY IdAssumption DEF Init, pack_tail, PackedTail, Partitions, PARTITION_COUNT
<1>5. raw_tail \in [Partitions -> PackedTail]
  BY <1>4 DEF Init
<1>6. thread \in [Threads -> Locals] /\ \A t \in Threads : thread[t].pc = "idle"
  BY IdleTyped DEF Init
<1>7. TypeOK
  BY <1>1, <1>3, <1>5, <1>6 DEF Init, TypeOK
<1>8. ThreadsSound
  BY <1>6 DEF ThreadsSound
<1>9. TermsGoRound
  BY <1>4, IdAssumption DEF TermsGoRound, TermOfPartition, Partitions, PARTITION_COUNT
<1>10. ClaimsBeforeTails
  BY DEF Init, ClaimsBeforeTails
<1>11. TailsTiled
  BY <1>4, <1>1 DEF TailsTiled, Offsets
<1> QED BY <1>7, <1>8, <1>9, <1>10, <1>11 DEF IInv

\* Every step keeps the invariant.
LEMMA NextOK == IInv /\ [Next]_vars => IInv'
<1> SUFFICES ASSUME IInv, [Next]_vars PROVE IInv'
  OBVIOUS
<1>1. ASSUME NEW t \in Threads, RotateStep(t)
      PROVE  IInv'
  BY <1>1, RotationLooks, TailReplaced DEF RotateStep
<1>2. ASSUME NEW p \in Publishers,
             (\E length \in FrameLengths : Offer(p, length)) \/ PublishStep(p) \/ Crash(p)
      PROVE  IInv'
  <2>1. p \in Threads
    BY DEF Threads
  <2> QED BY <1>1, <1>2, <2>1, PublisherOffers, PublisherAdds, PublisherWrites, PublisherDies
          DEF PublishStep
<1>3. CASE UpdateLimit
  BY <1>3, DriverUpdatesLimit
<1>4. CASE Unblock \/ UnblockStep
  <2>1. Driver \in Threads
    BY DEF Threads
  <2> QED BY <1>1, <1>4, <2>1, DriverLoads, DriverWrites, DriverScans DEF UnblockStep
<1>5. CASE ReadStep
  BY <1>5, SubscriberReads
<1>6. CASE UNCHANGED vars
  <2>1. ThreadsSound'
    BY <1>6 DEF IInv, ThreadsSound, ExpectedTermId, vars, log
  <2>2. TypeOK'
    BY <1>6 DEF IInv, TypeOK, vars, log, history, incidents
  <2> QED BY <1>6, <2>1, <2>2, TailsKept DEF vars, log, history
<1> QED BY <1>2, <1>3, <1>4, <1>5, <1>6 DEF Next

\* The claims of every publisher stay before the tails, each position of a term
\* has one owner, and what a thread holds fits what it will do with it.
THEOREM InvCorrect == Spec => []IInv
<1>1. Init => IInv
  BY InitOK
<1>2. IInv /\ [Next]_vars => IInv'
  BY NextOK
<1> QED BY <1>1, <1>2, PTL DEF Spec

\* No thread works at an offset outside its term, and every variable keeps its type.
THEOREM TypeCorrect == Spec => []TypeOK
<1>1. IInv => TypeOK
  BY DEF IInv
<1> QED BY <1>1, InvCorrect, PTL

\* A position before a tail has exactly one owner, one behind it none.
LEMMA OwnersCounted == IInv => ClaimsTile
<1> SUFFICES ASSUME IInv, NEW i \in Partitions, NEW offset \in Offsets
             PROVE  LET position == (raw_tail[i].term_id - InitialTermId) * TermLength + offset
                        owners == {n \in DOMAIN claims :
                                     position \in claims[n].position .. End(claims[n]) - 1}
                    IN  Cardinality(owners) = IF offset < raw_tail[i].term_offset THEN 1 ELSE 0
  BY DEF ClaimsTile
<1> DEFINE position == TermOfPartition(i) * TermLength + offset
           owners == {n \in DOMAIN claims : Covers(claims[n], position)}
<1>1. CASE offset < raw_tail[i].term_offset
  <2>1. PICK n \in DOMAIN claims :
          /\ Covers(claims[n], position)
          /\ \A m \in DOMAIN claims : Covers(claims[m], position) => m = n
    BY <1>1 DEF IInv, TailsTiled, Owned
  <2>2. owners = {n}
    BY <2>1
  <2>3. Cardinality(owners) = 1
    BY <2>2, FS_Singleton
  <2> QED BY <1>1, <2>3 DEF TermOfPartition, Covers
<1>2. CASE ~ (offset < raw_tail[i].term_offset)
  <2>1. \A n \in DOMAIN claims : ~ Covers(claims[n], position)
    BY <1>2, NothingBehindTail
  <2>2. owners = {}
    BY <2>1
  <2>3. Cardinality(owners) = 0
    BY <2>2, FS_EmptySet
  <2> QED BY <1>2, <2>3 DEF TermOfPartition, Covers
<1> QED BY <1>1, <1>2

\* The claims of publishers tile each term up to its tail: get_and_add on the tail
\* gives every position to one publisher, whichever publishers and driver rotate,
\* with whatever old term counts, and whoever dies.
THEOREM ClaimsTileTerms == Spec => []ClaimsTile
<1> QED BY OwnersCounted, InvCorrect, PTL

-----------------------------------------------------------------------------
(* The terms stay in step, with publishers that cannot fill a term.        *)

\* All publishers together, with one frame each, do not overrun a term.
FewPublishers ==
  /\ IsFiniteSet(Publishers)
  /\ \E longest \in Nat : /\ \A length \in FrameLengths : length <= longest
                          /\ Cardinality(Publishers) * longest <= TermLength

\* They even leave room for a header.
RoomLeft ==
  /\ IsFiniteSet(Publishers)
  /\ \E longest \in Nat : /\ \A length \in FrameLengths : length <= longest
                          /\ Cardinality(Publishers) * longest < TermLength

Longest ==
  CHOOSE longest \in Nat : /\ \A length \in FrameLengths : length <= longest
                           /\ Cardinality(Publishers) * longest <= TermLength
                           /\ RoomLeft => Cardinality(Publishers) * longest < TermLength

\* The publishers that will add to the tail of a partition.
Adders(i) == {p \in Publishers : thread[p].pc = "add" /\ index_by_term_count(thread[p].count) = i}

\* No publisher has got or gets a claim in this term from the present limit: it is ahead of
\* the active term count or behind the limit.
Closed(i) == TermOfPartition(i) > active_term_count \/ TermOfPartition(i) * TermLength >= limit

\* Whoever adds to such a term loaded an old count, and does so once.
NotFilled ==
  \A i \in Partitions :
    Closed(i) => raw_tail[i].term_offset <= Cardinality(Publishers \ Adders(i)) * Longest

\* So a publisher rotates a term that is not closed.
WillRotate(r) == r.pc \in RotateSteps \/ (r.pc \in {"claimed", "header", "payload", "abort"} /\ r.rotates)

RotatesOpen(r) ==
  WillRotate(r) => /\ r.term_id - InitialTermId = r.count
                   /\ r.count <= active_term_count
                   /\ r.count * TermLength < limit

SameTerm(r) == index_by_term_count(r.term_id - InitialTermId) = index_by_term_count(r.count)

\* While the driver unblocks the limit stays, so the log does not go round: the term it
\* rotates is that of the count it loaded, or its rotation will be refused.
WithinRound(r) ==
  /\ limit <= (r.count + 2) * TermLength
  /\ \A i \in Partitions : TermOfPartition(i) <= r.count + 2
  /\ r.pc \notin {"current_tail", "blocked_tail"} /\ SameTerm(r) => r.term_id - InitialTermId = r.count

WillBeRefused(r) ==
  /\ r.pc # "current_tail"
  /\ IF r.pc = "blocked_tail" THEN r.partition # index_by_term_count(r.count) ELSE ~ SameTerm(r)

DriverSound(r) ==
  r.pc # "idle" => r.count <= active_term_count /\ (WithinRound(r) \/ WillBeRefused(r))

\* Who is to store the count has stored the tail.
CountOwed(r) ==
  r.pc = "rotate_count" => TermOfPartition(index_by_term_count(r.count + 1)) >= r.count + 1

\* The limit is at most a window ahead of the subscriber, who only moves on.
LimitSound ==
  /\ limit <= subscriber.position + Window
  /\ subscriber.pc # "idle" => Offset(subscriber.position) <= subscriber.offset

StepInv ==
  /\ TermsInStep
  /\ NotFilled
  /\ \A p \in Publishers : RotatesOpen(thread[p])
  /\ DriverSound(thread[Driver])
  /\ \A t \in Threads : CountOwed(thread[t])
  /\ LimitSound

\* The types that the proofs of StepInv need.
LEMMA StepTypes ==
  ASSUME IInv
  PROVE  /\ TermLength \in Nat /\ TermLength # 0 /\ Window \in Nat /\ Window <= TermLength
         /\ active_term_count \in Nat /\ limit \in Nat
         /\ subscriber.position \in Nat /\ subscriber.offset \in Nat /\ subscriber.length \in Nat
         /\ Driver \in Threads /\ Driver \notin Publishers /\ InitialTermId \in Int
         /\ thread \in [Threads -> Locals]
         /\ \A p \in Publishers : p \in Threads
         /\ \A t \in Threads : /\ thread[t] \in Locals
                               /\ thread[t].count \in Int /\ thread[t].term_id \in Int
                               /\ thread[t].partition \in Partitions
         /\ \A i \in Partitions : /\ TermOfPartition(i) \in Int /\ raw_tail[i] \in PackedTail
                                  /\ raw_tail[i].term_offset \in Nat
                                  /\ TermOfPartition(i) % 3 = i
         /\ raw_tail \in [Partitions -> PackedTail]
<1>1. TypeOK /\ TermsGoRound
  BY DEF IInv
<1>2. /\ TermLength \in Nat /\ TermLength # 0 /\ Window \in Nat /\ Window <= TermLength
      /\ Driver \notin Publishers /\ InitialTermId \in Int
  BY TermAssumption, ThreadsAssumption, IdAssumption
<1>3. thread \in [Threads -> Locals] /\ raw_tail \in [Partitions -> PackedTail]
  BY <1>1 DEF TypeOK
<1>4. \A t \in Threads : /\ thread[t] \in Locals
                         /\ thread[t].count \in Int /\ thread[t].term_id \in Int
                         /\ thread[t].partition \in Partitions
  BY <1>3 DEF Locals
<1>5. \A i \in Partitions : /\ TermOfPartition(i) \in Int /\ raw_tail[i] \in PackedTail
                            /\ raw_tail[i].term_offset \in Nat
  BY <1>2, <1>3 DEF PackedTail, TermOfPartition
<1>6. \A i \in Partitions : TermOfPartition(i) % 3 = i
  BY <1>1 DEF TermsGoRound, PARTITION_COUNT
<1>7. /\ active_term_count \in Nat /\ limit \in Nat
      /\ subscriber.position \in Nat /\ subscriber.offset \in Nat /\ subscriber.length \in Nat
  BY <1>1 DEF TypeOK
<1>8. Driver \in Threads /\ \A p \in Publishers : p \in Threads
  BY DEF Threads
<1> QED BY <1>2, <1>3, <1>4, <1>5, <1>6, <1>7, <1>8

\* What the hypothesis says of the longest frame.
LEMMA LongestFrame ==
  ASSUME FewPublishers
  PROVE  /\ Longest \in Nat /\ \A length \in FrameLengths : length <= Longest
         /\ Cardinality(Publishers) * Longest <= TermLength
         /\ RoomLeft => Cardinality(Publishers) * Longest < TermLength
         /\ IsFiniteSet(Publishers) /\ Cardinality(Publishers) \in Nat
<1>1. IsFiniteSet(Publishers) /\ Cardinality(Publishers) \in Nat
  BY FS_CardinalityType DEF FewPublishers
<1>2. \E longest \in Nat : /\ \A length \in FrameLengths : length <= longest
                           /\ Cardinality(Publishers) * longest <= TermLength
                           /\ RoomLeft => Cardinality(Publishers) * longest < TermLength
  <2>1. CASE ~ RoomLeft
    BY <2>1 DEF FewPublishers
  <2>2. CASE RoomLeft
    <3>1. PICK longest \in Nat : /\ \A length \in FrameLengths : length <= longest
                                /\ Cardinality(Publishers) * longest < TermLength
      BY <2>2 DEF RoomLeft
    <3>2. PICK x \in Int : x = Cardinality(Publishers) * longest
      BY <1>1
    <3>3. Cardinality(Publishers) * longest <= TermLength
      BY <3>1, <3>2, TermAssumption
    <3> QED BY <3>1, <3>3
  <2> QED BY <2>1, <2>2
<1>3. /\ Longest \in Nat
      /\ (\A length \in FrameLengths : length <= Longest)
         /\ Cardinality(Publishers) * Longest <= TermLength
         /\ (RoomLeft => Cardinality(Publishers) * Longest < TermLength)
  BY <1>2, Zenon DEF Longest
<1> QED BY <1>1, <1>3

\* With room left, publishers are few.
LEMMA RoomForFew == RoomLeft => FewPublishers
<1> SUFFICES ASSUME RoomLeft PROVE FewPublishers
  OBVIOUS
<1>1. IsFiniteSet(Publishers) /\ Cardinality(Publishers) \in Nat
  BY FS_CardinalityType DEF RoomLeft
<1>2. PICK longest \in Nat : /\ \A length \in FrameLengths : length <= longest
                            /\ Cardinality(Publishers) * longest < TermLength
  BY DEF RoomLeft
<1>3. PICK x \in Int : x = Cardinality(Publishers) * longest
  BY <1>1
<1>4. Cardinality(Publishers) * longest <= TermLength
  BY <1>2, <1>3, TermAssumption
<1> QED BY <1>1, <1>2, <1>4 DEF FewPublishers

\* A product grows with its first factor.
LEMMA ProductGrows ==
  ASSUME NEW a \in Nat, NEW b \in Nat, NEW m \in Nat, a <= b
  PROVE  /\ a * m \in Nat /\ b * m \in Nat /\ a * m <= b * m
         /\ a + 1 <= b => a * m + m <= b * m
<1> DEFINE d == b - a
<1>1. d \in Nat /\ b = a + d
  OBVIOUS
<1> HIDE DEF d
<1>2. (a + d) * m = a * m + d * m
  BY <1>1
<1>3. a * m \in Nat /\ d * m \in Nat
  BY <1>1
<1>4. d >= 1 => d * m >= m
  <2>1. SUFFICES ASSUME d >= 1 PROVE d * m >= m
    OBVIOUS
  <2> DEFINE e == d - 1
  <2>2. e \in Nat /\ d = e + 1
    BY <1>1, <2>1
  <2> HIDE DEF e
  <2>3. (e + 1) * m = e * m + m /\ e * m \in Nat
    BY <2>2
  <2> QED BY <2>2, <2>3
<1> DEFINE A == a * m
           D == d * m
           B == b * m
<1>5. B = A + D
  BY <1>1, <1>2
<1> HIDE DEF A, D, B
<1>6. A \in Nat /\ D \in Nat /\ (d >= 1 => D >= m)
  BY <1>3, <1>4 DEF A, D
<1>7. B \in Nat /\ A <= B /\ (a + 1 <= b => A + m <= B)
  BY <1>1, <1>5, <1>6
<1> QED BY <1>6, <1>7 DEF A, B

\* How many publishers there are, and how far they get with the longest frame.
LEMMA Room ==
  ASSUME FewPublishers, NEW S \in SUBSET Publishers, NEW T \in SUBSET Publishers, S \subseteq T
  PROVE  /\ Cardinality(S) * Longest \in Nat /\ Cardinality(T) * Longest \in Nat
         /\ Cardinality(S) * Longest <= Cardinality(T) * Longest
         /\ (\E p \in T : p \notin S) =>
              Cardinality(S) * Longest + Longest <= Cardinality(T) * Longest
         /\ Cardinality(T) * Longest <= TermLength
<1>1. /\ Longest \in Nat /\ Cardinality(Publishers) * Longest <= TermLength
      /\ IsFiniteSet(Publishers) /\ Cardinality(Publishers) \in Nat
  BY LongestFrame
<1>2. IsFiniteSet(T) /\ Cardinality(T) \in Nat /\ Cardinality(T) <= Cardinality(Publishers)
  BY <1>1, FS_Subset, FS_CardinalityType
<1>3. IsFiniteSet(S) /\ Cardinality(S) \in Nat /\ Cardinality(S) <= Cardinality(T)
  BY <1>2, FS_Subset, FS_CardinalityType
<1>4. (\E p \in T : p \notin S) => Cardinality(S) + 1 <= Cardinality(T)
  <2>1. SUFFICES ASSUME NEW p \in T, p \notin S PROVE Cardinality(S) + 1 <= Cardinality(T)
    OBVIOUS
  <2>2. Cardinality(S \cup {p}) = Cardinality(S) + 1
    BY <1>3, <2>1, FS_AddElement
  <2>3. S \cup {p} \subseteq T
    BY <2>1
  <2>4. Cardinality(S \cup {p}) <= Cardinality(T)
    BY <1>2, <2>3, FS_Subset
  <2> QED BY <2>2, <2>4
<1>5. PICK s, t, n \in Nat : s = Cardinality(S) /\ t = Cardinality(T) /\ n = Cardinality(Publishers)
  BY <1>1, <1>2, <1>3
<1>6. s <= t /\ t <= n /\ ((\E p \in T : p \notin S) => s + 1 <= t)
  BY <1>2, <1>3, <1>4, <1>5
<1>7. /\ s * Longest \in Nat /\ t * Longest \in Nat /\ s * Longest <= t * Longest
      /\ s + 1 <= t => s * Longest + Longest <= t * Longest
  BY <1>1, <1>6, ProductGrows
<1>8. n * Longest \in Nat /\ t * Longest <= n * Longest /\ n * Longest <= TermLength
  BY <1>1, <1>5, <1>6, ProductGrows
<1>9. PICK x, y \in Nat : x = t * Longest /\ y = n * Longest
  BY <1>7, <1>8
<1>10. x <= TermLength
  BY <1>8, <1>9, TermAssumption
<1> QED BY <1>5, <1>6, <1>7, <1>9, <1>10

\* Which terms the partitions hold.
LEMMA InStep ==
  ASSUME IInv, TermsInStep, NEW a \in Nat, a = active_term_count
  PROVE  /\ TermOfPartition(a % 3) = a
         /\ TermOfPartition((a + 1) % 3) \in {a + 1, a - 2}
         /\ TermOfPartition((a + 2) % 3) = a - 1
         /\ \A i \in Partitions : a - 2 <= TermOfPartition(i) /\ TermOfPartition(i) <= a + 1
<1>1. /\ TermOfPartition(a % 3) = a
      /\ TermOfPartition((a + 1) % 3) \in {a + 1, a - 2}
      /\ TermOfPartition((a + 2) % 3) = a - 1
  BY DEF TermsInStep, TermOfPartition, index_by_term_count, PARTITION_COUNT
<1>2. ASSUME NEW i \in Partitions PROVE i = a % 3 \/ i = (a + 1) % 3 \/ i = (a + 2) % 3
  BY DEF Partitions, PARTITION_COUNT
<1>3. ASSUME NEW i \in Partitions PROVE a - 2 <= TermOfPartition(i) /\ TermOfPartition(i) <= a + 1
  <2>1. TermOfPartition(i) \in {a, a + 1, a - 2, a - 1}
    BY <1>1, <1>2
  <2> QED BY <2>1
<1> QED BY <1>1, <1>3

\* The index of a count is its remainder.
LEMMA IndexIs ==
  ASSUME NEW c \in Int
  PROVE  index_by_term_count(c) = c % 3 /\ c % 3 \in Partitions
  BY DEF index_by_term_count, PARTITION_COUNT, Partitions

\* The only count near another that has its index is the other.
LEMMA NearCounts ==
  ASSUME NEW c \in Int, NEW d \in Int, c % 3 = d % 3, c - 3 < d, d < c + 3
  PROVE  c = d
  OBVIOUS

\* Terms that are in step remain so as long as no tail goes on, and who is to store the
\* count stores it or dies.
LEMMA StaysInStep ==
  ASSUME IInv, TermsInStep, active_term_count' = active_term_count,
         \A i \in Partitions : TermOfPartition(i)' = TermOfPartition(i), faults \subseteq faults',
         \A t \in Threads : thread[t].pc = "rotate_count" =>
           \/ thread'[t].pc = "rotate_count" /\ thread'[t].count = thread[t].count
           \/ "rotate_count" \in faults'
  PROVE  TermsInStep'
<1>1. PICK a \in Nat : a = active_term_count
  BY StepTypes
<1>2. /\ TermOfPartition(a % 3) = a
      /\ TermOfPartition((a + 1) % 3) \in {a + 1, a - 2}
      /\ TermOfPartition((a + 2) % 3) = a - 1
  BY <1>1, InStep
<1>3. a % 3 \in Partitions /\ (a + 1) % 3 \in Partitions /\ (a + 2) % 3 \in Partitions
  BY IndexIs
<1>4. /\ TermOfPartition(a % 3)' = a
      /\ TermOfPartition((a + 1) % 3)' \in {a + 1, a - 2}
      /\ TermOfPartition((a + 2) % 3)' = a - 1
  BY <1>2, <1>3
<1>5. TermOfPartition((a + 1) % 3)' = a + 1 =>
        \/ \E t \in Threads : thread'[t].pc = "rotate_count" /\ thread'[t].count = a
        \/ "rotate_count" \in faults'
  <2>1. SUFFICES ASSUME TermOfPartition((a + 1) % 3) = a + 1
                 PROVE  \/ \E t \in Threads : thread'[t].pc = "rotate_count" /\ thread'[t].count = a
                        \/ "rotate_count" \in faults'
    BY <1>3
  <2>2. \/ \E t \in Threads : thread[t].pc = "rotate_count" /\ thread[t].count = a
        \/ "rotate_count" \in faults
    BY <1>1, <2>1 DEF TermsInStep, TermOfPartition, index_by_term_count, PARTITION_COUNT
  <2> QED BY <2>2
<1> QED
  BY <1>1, <1>4, <1>5 DEF TermsInStep, TermOfPartition, index_by_term_count, PARTITION_COUNT

\* A term that is closed later is closed now, and fewer add to it: it is not filled either.
LEMMA StaysNotFilled ==
  ASSUME FewPublishers, IInv, NotFilled, NEW i \in Partitions,
         raw_tail'[i].term_offset = raw_tail[i].term_offset, Closed(i)' => Closed(i),
         Closed(i)' => Adders(i)' \subseteq Adders(i), Closed(i)'
  PROVE  raw_tail'[i].term_offset <= Cardinality(Publishers \ Adders(i)') * Longest
<1>1. raw_tail[i].term_offset <= Cardinality(Publishers \ Adders(i)) * Longest
  BY DEF NotFilled
<1>2. PICK S : S = Publishers \ Adders(i)
  OBVIOUS
<1>3. PICK T : T = Publishers \ Adders(i)'
  OBVIOUS
<1>4. S \in SUBSET Publishers /\ T \in SUBSET Publishers /\ S \subseteq T
  BY <1>2, <1>3
<1>5. PICK s, t \in Nat : s = Cardinality(S) * Longest /\ t = Cardinality(T) * Longest /\ s <= t
  BY <1>4, Room
<1>6. raw_tail[i].term_offset \in Nat
  BY StepTypes
<1>7. raw_tail[i].term_offset <= t
  BY <1>1, <1>2, <1>5, <1>6
<1> QED BY <1>3, <1>5, <1>7

\* A step of one thread that touches no tail, and neither begins to add nor is to store
\* the count.
LEMMA ThreadMoves ==
  ASSUME FewPublishers, IInv, StepInv, UNCHANGED << raw_tail, active_term_count, limit, subscriber >>,
         faults \subseteq faults', NEW t \in Threads, NEW r, thread' = [thread EXCEPT ![t] = r],
         r.pc \notin {"rotate_count", "add"}, thread[t].pc = "rotate_count" => "rotate_count" \in faults',
         t \in Publishers => RotatesOpen(r), t = Driver => DriverSound(r)
  PROVE  StepInv'
<1>1. /\ thread'[t] = r /\ \A s \in Threads : s # t => thread'[s] = thread[s]
      /\ Driver \in Threads /\ \A p \in Publishers : p \in Threads
  BY StepTypes
<1>2. \A i : TermOfPartition(i)' = TermOfPartition(i)
  BY DEF TermOfPartition
<1>3. TermsInStep'
  <2>1. \A s \in Threads : thread[s].pc = "rotate_count" =>
           \/ thread'[s].pc = "rotate_count" /\ thread'[s].count = thread[s].count
           \/ "rotate_count" \in faults'
    BY <1>1
  <2> QED BY <1>2, <2>1, StaysInStep DEF StepInv
<1>4. NotFilled'
  <2>1. \A i : Adders(i)' \subseteq Adders(i)
    BY <1>1 DEF Adders
  <2>2. \A i : Closed(i)' <=> Closed(i)
    BY <1>2 DEF Closed
  <2>3. \A i \in Partitions :
          Closed(i)' => raw_tail'[i].term_offset <= Cardinality(Publishers \ Adders(i)') * Longest
    BY <2>1, <2>2, StaysNotFilled DEF StepInv
  <2> QED BY <2>3 DEF NotFilled
<1>5. \A p \in Publishers : RotatesOpen(thread[p])'
  <2>1. ASSUME NEW p \in Publishers PROVE RotatesOpen(thread[p])'
    <3>1. PICK new : new = thread'[p]
      OBVIOUS
    <3>2. RotatesOpen(new)
      BY <1>1, <3>1 DEF StepInv
    <3> QED BY <3>1, <3>2 DEF RotatesOpen, WillRotate
  <2> QED BY <2>1
<1>6. DriverSound(thread[Driver])'
  <2>1. PICK new : new = thread'[Driver]
    OBVIOUS
  <2>2. DriverSound(new)
    BY <1>1, <2>1 DEF StepInv
  <2> QED BY <1>2, <2>1, <2>2 DEF DriverSound, WithinRound, WillBeRefused, SameTerm
<1>7. \A s \in Threads : CountOwed(thread[s])'
  <2>1. ASSUME NEW s \in Threads PROVE CountOwed(thread[s])'
    <3>1. PICK new : new = thread'[s]
      OBVIOUS
    <3>2. CountOwed(new)
      BY <1>1, <3>1 DEF StepInv, CountOwed
    <3> QED BY <1>2, <3>1, <3>2 DEF CountOwed
  <2> QED BY <2>1
<1>8. LimitSound'
  BY DEF StepInv, LimitSound
<1> QED BY <1>3, <1>4, <1>5, <1>6, <1>7, <1>8 DEF StepInv

\* A publisher between its claim and the next tail.
LEMMA PublisherMoves ==
  ASSUME FewPublishers, IInv, StepInv, NEW p \in Publishers,
         \/ PutNegativeLength(p) \/ PutHeader(p) \/ Commit(p) \/ AbortType(p) \/ AbortLength(p)
         \/ RotationRefused(p) \/ LoadNextTail(p) \/ Crash(p)
         \/ CompareAndSetNextTail(p) /\ raw_tail[NextIndex(p)] # thread[p].raw
  PROVE  StepInv'
<1>1. /\ p \in Threads /\ p # Driver /\ RotatesOpen(thread[p]) /\ thread[p] \in Locals
      /\ thread \in [Threads -> Locals]
  BY StepTypes DEF StepInv
<1>2. UNCHANGED << raw_tail, active_term_count, limit, subscriber >> /\ faults \subseteq faults'
  BY DEF PutNegativeLength, PutHeader, Commit, AbortType, AbortLength, RotationRefused, LoadNextTail,
         Crash, CompareAndSetNextTail, log, incidents
<1>3. ASSUME NEW r, thread' = [thread EXCEPT ![p] = r], r.pc \notin {"rotate_count", "add"},
             thread[p].pc # "rotate_count" \/ Crash(p),
             r.count = thread[p].count, r.term_id = thread[p].term_id,
             WillRotate(r) => WillRotate(thread[p])
      PROVE  StepInv'
  <2>1. RotatesOpen(r)
    BY <1>1, <1>3 DEF RotatesOpen
  <2>2. thread[p].pc = "rotate_count" => "rotate_count" \in faults'
    BY <1>3 DEF Crash
  <2> QED BY <1>1, <1>2, <1>3, <2>1, <2>2, ThreadMoves
<1>4. CASE Return(p) /\ thread[p].pc # "rotate_count"
  <2>1. thread' = [thread EXCEPT ![p] = Idle] /\ Idle.pc = "idle"
    BY <1>4 DEF Return, Idle
  <2>2. RotatesOpen(Idle)
    BY <2>1 DEF RotatesOpen, WillRotate, RotateSteps
  <2> QED BY <1>1, <1>2, <1>4, <2>1, <2>2, ThreadMoves
<1>5. ASSUME NEW pc, Goto(p, pc), pc \notin {"rotate_count", "add"},
             thread[p].pc # "rotate_count" \/ Crash(p),
             WillRotate([thread[p] EXCEPT !.pc = pc]) => WillRotate(thread[p])
      PROVE  StepInv'
  <2> DEFINE r == [thread[p] EXCEPT !.pc = pc]
  <2>1. thread' = [thread EXCEPT ![p] = r]
    BY <1>5 DEF Goto
  <2>2. r.pc = pc /\ r.count = thread[p].count /\ r.term_id = thread[p].term_id
    BY <1>1 DEF Locals
  <2>3. WillRotate(r) => WillRotate(thread[p])
    BY <1>5
  <2> HIDE DEF r
  <2> QED BY <1>3, <1>5, <2>1, <2>2, <2>3
<1>6. ASSUME NEW pc PROVE /\ [thread[p] EXCEPT !.pc = pc].pc = pc
                          /\ [thread[p] EXCEPT !.pc = pc].rotates = thread[p].rotates
  BY <1>1 DEF Locals
<1>7. CASE PutNegativeLength(p)
  <2>1. Goto(p, "header") /\ thread[p].pc = "claimed"
    BY <1>7 DEF PutNegativeLength
  <2> QED BY <1>5, <1>6, <2>1 DEF WillRotate, RotateSteps
<1>8. CASE PutHeader(p)
  <2>1. Goto(p, "payload") /\ thread[p].pc = "header"
    BY <1>8 DEF PutHeader
  <2> QED BY <1>5, <1>6, <2>1 DEF WillRotate, RotateSteps
<1>9. CASE AbortType(p)
  <2>1. Goto(p, "abort") /\ thread[p].pc = "payload"
    BY <1>9 DEF AbortType
  <2> QED BY <1>5, <1>6, <2>1 DEF WillRotate, RotateSteps
<1>10. CASE AbortLength(p)
  <2>1. thread[p].pc = "abort" /\ ((Goto(p, "rotate") /\ thread[p].rotates) \/ Return(p))
    BY <1>10 DEF AbortLength
  <2>2. CASE Goto(p, "rotate") /\ thread[p].rotates
    BY <1>5, <1>6, <2>1, <2>2 DEF WillRotate, RotateSteps
  <2> QED BY <1>4, <2>1, <2>2
<1>11. CASE Commit(p)
  BY <1>4, <1>11 DEF Commit
<1>12. CASE RotationRefused(p)
  BY <1>4, <1>12 DEF RotationRefused
<1>13. CASE LoadNextTail(p)
  <2> DEFINE r == [thread[p] EXCEPT !.pc = "rotate_tail", !.raw = raw_tail[NextIndex(p)]]
  <2>1. thread' = [thread EXCEPT ![p] = r] /\ thread[p].pc = "rotate"
    BY <1>13 DEF LoadNextTail
  <2>2. r.pc = "rotate_tail" /\ r.count = thread[p].count /\ r.term_id = thread[p].term_id
    BY <1>1 DEF Locals
  <2> HIDE DEF r
  <2>3. WillRotate(thread[p])
    BY <2>1 DEF WillRotate, RotateSteps
  <2> QED BY <1>3, <2>1, <2>2, <2>3
<1>14. CASE CompareAndSetNextTail(p) /\ raw_tail[NextIndex(p)] # thread[p].raw
  <2>1. Goto(p, "rotate") /\ thread[p].pc = "rotate_tail"
    BY <1>14 DEF CompareAndSetNextTail
  <2> QED BY <1>5, <1>6, <2>1 DEF WillRotate, RotateSteps
<1>15. CASE Crash(p)
  <2>1. Goto(p, "dead")
    BY <1>15 DEF Crash
  <2> QED BY <1>5, <1>6, <1>15, <2>1 DEF WillRotate, RotateSteps
<1> QED BY <1>7, <1>8, <1>9, <1>10, <1>11, <1>12, <1>13, <1>14, <1>15

\* The driver once it has loaded the tail.
LEMMA DriverMoves ==
  ASSUME FewPublishers, IInv, StepInv,
         \/ LoadLength \/ NegateLength \/ ScanForward \/ ScanBack \/ ApplyDefaultHeader \/ PadType
         \/ PadLength \/ RotationRefused(Driver) \/ LoadNextTail(Driver)
         \/ CompareAndSetNextTail(Driver) /\ raw_tail[NextIndex(Driver)] # thread[Driver].raw
  PROVE  StepInv'
<1> DEFINE d == thread[Driver]
<1>1. /\ Driver \in Threads /\ Driver \notin Publishers /\ DriverSound(d) /\ d \in Locals
      /\ thread \in [Threads -> Locals]
  BY StepTypes DEF StepInv
<1>2. UNCHANGED << raw_tail, active_term_count, limit, subscriber >> /\ faults \subseteq faults'
  BY DEF LoadLength, NegateLength, ScanForward, ScanBack, ApplyDefaultHeader, PadType, PadLength,
         RotationRefused, LoadNextTail, CompareAndSetNextTail, log, incidents, Pad, LookAt
<1>3. d.pc \notin {"idle", "current_tail", "blocked_tail", "rotate_count"}
  BY DEF LoadLength, NegateLength, ScanForward, ScanBack, ApplyDefaultHeader, PadType, PadLength,
         RotationRefused, LoadNextTail, CompareAndSetNextTail
<1>4. ASSUME NEW r, thread' = [thread EXCEPT ![Driver] = r],
             r.pc \notin {"rotate_count", "add", "current_tail", "blocked_tail"},
             r.count = d.count, r.term_id = d.term_id
      PROVE  StepInv'
  <2>1. DriverSound(r)
    BY <1>1, <1>3, <1>4 DEF DriverSound, WithinRound, WillBeRefused, SameTerm
  <2> QED BY <1>1, <1>2, <1>3, <1>4, <2>1, ThreadMoves
<1>5. CASE Return(Driver)
  <2>1. thread' = [thread EXCEPT ![Driver] = Idle] /\ Idle.pc = "idle"
    BY <1>5 DEF Return, Idle
  <2>2. DriverSound(Idle)
    BY <2>1 DEF DriverSound
  <2> QED BY <1>1, <1>2, <1>3, <2>1, <2>2, ThreadMoves
<1>6. ASSUME NEW pc, Goto(Driver, pc),
             pc \notin {"rotate_count", "add", "current_tail", "blocked_tail"}
      PROVE  StepInv'
  <2> DEFINE r == [d EXCEPT !.pc = pc]
  <2>1. thread' = [thread EXCEPT ![Driver] = r]
    BY <1>6 DEF Goto
  <2>2. r.pc = pc /\ r.count = d.count /\ r.term_id = d.term_id
    BY <1>1 DEF Locals
  <2> HIDE DEF r, d
  <2> QED BY <1>4, <1>6, <2>1, <2>2
<1>7. ASSUME NEW length, NEW rotates, Pad(length, rotates)
      PROVE  StepInv'
  <2>1. CASE length # 0
    <3> DEFINE r == [d EXCEPT !.pc = "default_header", !.length = length, !.rotates = rotates]
    <3>1. thread' = [thread EXCEPT ![Driver] = r]
      BY <1>7, <2>1 DEF Pad
    <3>2. r.pc = "default_header" /\ r.count = d.count /\ r.term_id = d.term_id
      BY <1>1 DEF Locals
    <3> HIDE DEF r, d
    <3> QED BY <1>4, <3>1, <3>2
  <2> QED BY <1>5, <1>7, <2>1 DEF Pad
<1>8. CASE LoadLength
  <2>1. CASE Frame(Driver).length < 0
    <3> DEFINE r == [d EXCEPT !.pc = "negate", !.length = - Frame(Driver).length]
    <3>1. thread' = [thread EXCEPT ![Driver] = r] \/ Return(Driver)
                                                  \/ Frame(Driver).length = 0
      BY <1>8, <2>1 DEF LoadLength
    <3>2. r.pc = "negate" /\ r.count = d.count /\ r.term_id = d.term_id
      BY <1>1 DEF Locals
    <3> HIDE DEF r, d
    <3>3. ~ Frame(Driver).length = 0
      BY <2>1
    <3> QED BY <1>4, <1>5, <3>1, <3>2, <3>3
  <2>2. CASE Frame(Driver).length = 0
    <3> DEFINE r == [d EXCEPT !.pc = "forward", !.scan = thread[Driver].offset]
    <3>1. thread' = [thread EXCEPT ![Driver] = r] \/ Return(Driver) \/ Frame(Driver).length < 0
      BY <1>8, <2>2 DEF LoadLength
    <3>2. r.pc = "forward" /\ r.count = d.count /\ r.term_id = d.term_id
      BY <1>1 DEF Locals
    <3> HIDE DEF r, d
    <3>3. ~ Frame(Driver).length < 0
      BY <2>2
    <3> QED BY <1>4, <1>5, <3>1, <3>2, <3>3
  <2>3. CASE ~ Frame(Driver).length < 0 /\ Frame(Driver).length # 0
    BY <1>5, <1>8, <2>3 DEF LoadLength
  <2> QED BY <2>1, <2>2, <2>3
<1>9. CASE NegateLength
  BY <1>5, <1>6, <1>9 DEF NegateLength
<1>10. CASE ScanForward
  <2>1. CASE thread' = [thread EXCEPT ![Driver].scan = d.scan + 1]
    <3> DEFINE r == [d EXCEPT !.scan = d.scan + 1]
    <3>1. thread' = [thread EXCEPT ![Driver] = r]
      BY <2>1
    <3>2. r.pc = d.pc /\ r.count = d.count /\ r.term_id = d.term_id
      BY <1>1 DEF Locals
    <3>3. d.pc = "forward"
      BY <1>10 DEF ScanForward
    <3> HIDE DEF r, d
    <3> QED BY <1>4, <3>1, <3>2, <3>3
  <2>2. CASE thread' = [thread EXCEPT ![Driver].pc = "back", ![Driver].scan = d.scan - 1,
                                      ![Driver].length = d.scan - d.offset]
    <3> DEFINE r == [d EXCEPT !.pc = "back", !.scan = d.scan - 1, !.length = d.scan - d.offset]
    <3>1. thread' = [thread EXCEPT ![Driver] = r]
      BY <2>2
    <3>2. r.pc = "back" /\ r.count = d.count /\ r.term_id = d.term_id
      BY <1>1 DEF Locals
    <3> HIDE DEF r, d
    <3> QED BY <1>4, <3>1, <3>2
  <2> QED BY <1>7, <1>10, <2>1, <2>2 DEF ScanForward
<1>11. CASE ScanBack
  <2>1. CASE thread' = [thread EXCEPT ![Driver].scan = d.scan - 1]
    <3> DEFINE r == [d EXCEPT !.scan = d.scan - 1]
    <3>1. thread' = [thread EXCEPT ![Driver] = r]
      BY <2>1
    <3>2. r.pc = d.pc /\ r.count = d.count /\ r.term_id = d.term_id
      BY <1>1 DEF Locals
    <3>3. d.pc = "back"
      BY <1>11 DEF ScanBack
    <3> HIDE DEF r, d
    <3> QED BY <1>4, <3>1, <3>2, <3>3
  <2> QED BY <1>5, <1>7, <1>11, <2>1 DEF ScanBack
<1>12. CASE ApplyDefaultHeader \/ PadType \/ PadLength
  BY <1>5, <1>6, <1>12 DEF ApplyDefaultHeader, PadType, PadLength
<1>13. CASE RotationRefused(Driver)
  BY <1>5, <1>13 DEF RotationRefused
<1>14. CASE LoadNextTail(Driver)
  <2> DEFINE r == [d EXCEPT !.pc = "rotate_tail", !.raw = raw_tail[NextIndex(Driver)]]
  <2>1. thread' = [thread EXCEPT ![Driver] = r]
    BY <1>14 DEF LoadNextTail
  <2>2. r.pc = "rotate_tail" /\ r.count = d.count /\ r.term_id = d.term_id
    BY <1>1 DEF Locals
  <2> HIDE DEF r, d
  <2> QED BY <1>4, <2>1, <2>2
<1>15. CASE CompareAndSetNextTail(Driver) /\ raw_tail[NextIndex(Driver)] # thread[Driver].raw
  BY <1>6, <1>15 DEF CompareAndSetNextTail
<1> QED BY <1>8, <1>9, <1>10, <1>11, <1>12, <1>13, <1>14, <1>15

\* The claim that a thread works at was made.
ClaimsMade == \A t \in Threads : thread[t].claim <= Len(claims)

\* It stays so if only a thread's claim is dropped and no other is.
LEMMA ClaimsStayMade ==
  ASSUME IInv, ClaimsMade, UNCHANGED claims, NEW t \in Threads,
         \A s \in Threads : s # t => thread'[s] = thread[s],
         thread'[t].claim \in {thread[t].claim, 0}
  PROVE  ClaimsMade'
<1>1. Len(claims) \in Nat
  BY DEF IInv, TypeOK
<1> QED BY <1>1 DEF ClaimsMade

\* Whatever step is taken, the claims that the threads work at were made.
LEMMA ClaimsMadeStep == IInv /\ ClaimsMade /\ [Next]_vars => ClaimsMade'
<1> SUFFICES ASSUME IInv, ClaimsMade, [Next]_vars PROVE ClaimsMade'
  OBVIOUS
<1>1. /\ thread \in [Threads -> Locals] /\ Driver \in Threads /\ \A p \in Publishers : p \in Threads
      /\ Idle.claim = 0
  BY StepTypes DEF Idle
<1>2. ASSUME NEW t \in Threads PROVE thread[t].claim \in Nat /\ thread[t] \in Locals
  BY <1>1 DEF Locals
<1>3. ASSUME NEW t \in Threads, UNCHANGED claims, NEW r, thread' = [thread EXCEPT ![t] = r],
             r.claim \in {thread[t].claim, 0}
      PROVE  ClaimsMade'
  BY <1>1, <1>3, ClaimsStayMade
<1>4. ASSUME NEW t \in Threads, UNCHANGED claims, NEW pc, Goto(t, pc)
      PROVE  ClaimsMade'
  <2>1. [thread[t] EXCEPT !.pc = pc].claim = thread[t].claim
    BY <1>2 DEF Locals
  <2> QED BY <1>3, <1>4, <2>1 DEF Goto
<1>5. ASSUME NEW t \in Threads, UNCHANGED claims, Return(t)
      PROVE  ClaimsMade'
  BY <1>1, <1>3, <1>5 DEF Return
<1>6. ASSUME UNCHANGED << claims, thread >> PROVE ClaimsMade'
  BY <1>6 DEF ClaimsMade
<1>7. ASSUME NEW t \in Threads, RotateStep(t) PROVE ClaimsMade'
  <2>1. UNCHANGED claims
    BY <1>7 DEF RotateStep, RotationRefused, LoadNextTail, CompareAndSetNextTail,
                CompareAndSetTermCount, history
  <2>2. CASE LoadNextTail(t)
    <3> DEFINE r == [thread[t] EXCEPT !.pc = "rotate_tail", !.raw = raw_tail[NextIndex(t)]]
    <3>1. thread' = [thread EXCEPT ![t] = r]
      BY <2>2 DEF LoadNextTail
    <3>2. r.claim = thread[t].claim
      BY <1>2 DEF Locals
    <3> HIDE DEF r
    <3> QED BY <1>3, <2>1, <3>1, <3>2
  <2> QED BY <1>4, <1>5, <1>7, <2>1, <2>2
          DEF RotateStep, RotationRefused, CompareAndSetNextTail, CompareAndSetTermCount
<1>8. ASSUME NEW p \in Publishers, NEW length \in FrameLengths, Offer(p, length) PROVE ClaimsMade'
  <2>1. [thread[p] EXCEPT !.pc = "add", !.count = active_term_count, !.length = length].claim
          = thread[p].claim
    BY <1>1, <1>2 DEF Locals
  <2>2. UNCHANGED claims
    BY <1>8 DEF Offer, history
  <2>3. thread' = [thread EXCEPT ![p] =
                     [thread[p] EXCEPT !.pc = "add", !.count = active_term_count, !.length = length]]
    BY <1>8 DEF Offer
  <2> QED BY <1>1, <1>3, <2>1, <2>2, <2>3
<1>9. ASSUME NEW p \in Publishers, AddToTail(p) PROVE ClaimsMade'
  <2>1. PICK r : /\ thread' = [thread EXCEPT ![p] = r]
                 /\ \/ UNCHANGED claims /\ r.claim = thread[p].claim
                    \/ Len(claims') = Len(claims) + 1 /\ r.claim = Len(claims) + 1
    <3> DEFINE index == index_by_term_count(thread[p].count)
               tail == raw_tail[index]
               at == [thread[p] EXCEPT !.count = tail.term_id - InitialTermId,
                                       !.term_id = tail.term_id, !.partition = index]
    <3>1. PICK length, fits :
            \/ /\ \E claim : claims' = Append(claims, claim)
               /\ thread' = [thread EXCEPT ![p] = [at EXCEPT
                               !.pc = "claimed", !.offset = tail.term_offset, !.length = length,
                               !.claim = Len(claims) + 1, !.rotates = ~ fits]]
            \/ thread' = [thread EXCEPT ![p] = [at EXCEPT !.pc = "rotate"]] /\ UNCHANGED claims
      BY <1>9 DEF AddToTail
    <3>2. claims \in Seq(Claim)
      BY DEF IInv, TypeOK
    <3>3. ASSUME NEW claim, claims' = Append(claims, claim) PROVE Len(claims') = Len(claims) + 1
      <4>1. PICK S : S = Claim \cup {claim}
        OBVIOUS
      <4>2. claims \in Seq(S) /\ claim \in S
        BY <3>2, <4>1
      <4> QED BY <3>3, <4>2
    <3>4. /\ [at EXCEPT !.pc = "claimed", !.offset = tail.term_offset, !.length = length,
                        !.claim = Len(claims) + 1, !.rotates = ~ fits].claim = Len(claims) + 1
          /\ [at EXCEPT !.pc = "rotate"].claim = thread[p].claim
      BY <1>1, <1>2 DEF Locals
    <3> HIDE DEF at, tail, index
    <3> QED BY <3>1, <3>3, <3>4
  <2>2. Len(claims) \in Nat
    BY DEF IInv, TypeOK
  <2>3. CASE UNCHANGED claims /\ r.claim = thread[p].claim
    BY <1>1, <1>3, <2>1, <2>3
  <2>4. CASE Len(claims') = Len(claims) + 1 /\ r.claim = Len(claims) + 1
    <3>1. ASSUME NEW t \in Threads PROVE thread'[t].claim <= Len(claims) + 1
      <4>1. CASE t = p
        <5>1. thread'[t].claim = Len(claims) + 1
          BY <1>1, <2>1, <2>4, <4>1
        <5> QED BY <2>2, <5>1
      <4>2. CASE t # p
        <5>1. thread'[t].claim = thread[t].claim /\ thread[t].claim <= Len(claims)
          BY <1>1, <2>1, <4>2 DEF ClaimsMade
        <5> QED BY <1>2, <2>2, <5>1
      <4> QED BY <4>1, <4>2
    <3> QED BY <2>4, <3>1 DEF ClaimsMade
  <2> QED BY <2>1, <2>3, <2>4
<1>10. ASSUME NEW p \in Publishers,
              \/ PutNegativeLength(p) \/ PutHeader(p) \/ Commit(p) \/ AbortType(p) \/ AbortLength(p)
              \/ Crash(p)
       PROVE  ClaimsMade'
  <2>1. UNCHANGED claims
    BY <1>10 DEF PutNegativeLength, PutHeader, Commit, AbortType, AbortLength, Crash, history
  <2> QED BY <1>1, <1>4, <1>5, <1>10, <2>1
          DEF PutNegativeLength, PutHeader, Commit, AbortType, AbortLength, Crash
<1>11. ASSUME Unblock PROVE ClaimsMade'
  <2>1. UNCHANGED claims /\ \A s \in Threads : s # Driver => thread'[s] = thread[s]
    BY <1>1, <1>11 DEF Unblock, history
  <2>2. thread'[Driver].claim = 0
    BY <1>1, <1>11 DEF Unblock, Idle
  <2> QED BY <1>1, <2>1, <2>2, ClaimsStayMade
<1>12. ASSUME UnblockStep, ~ RotateStep(Driver) PROVE ClaimsMade'
  <2>1. UNCHANGED claims
    BY <1>12 DEF UnblockStep, LoadCurrentTail, LoadBlockedTail, LoadLength, NegateLength, ScanForward,
                 ScanBack, ApplyDefaultHeader, PadType, PadLength, history
  <2>2. CASE LoadCurrentTail
    <3> DEFINE r == [thread[Driver] EXCEPT !.pc = "rotate",
                       !.term_id = raw_tail[index_by_term_count(thread[Driver].count)].term_id]
    <3>1. thread' = [thread EXCEPT ![Driver] = r]
      BY <2>2 DEF LoadCurrentTail
    <3>2. r.claim = thread[Driver].claim
      BY <1>1, <1>2 DEF Locals
    <3> HIDE DEF r
    <3> QED BY <1>1, <1>3, <2>1, <3>1, <3>2
  <2>3. CASE LoadBlockedTail
    <3> DEFINE r == [thread[Driver] EXCEPT !.pc = "length",
                       !.raw = raw_tail[thread[Driver].partition],
                       !.term_id = raw_tail[thread[Driver].partition].term_id]
    <3>1. thread' = [thread EXCEPT ![Driver] = r]
      BY <2>3 DEF LoadBlockedTail
    <3>2. r.claim = thread[Driver].claim
      BY <1>1, <1>2 DEF Locals
    <3> HIDE DEF r
    <3> QED BY <1>1, <1>3, <2>1, <3>1, <3>2
  <2>4. ASSUME NEW pc, NEW length,
               thread' = [thread EXCEPT ![Driver].pc = pc, ![Driver].length = length]
        PROVE  ClaimsMade'
    <3> DEFINE r == [thread[Driver] EXCEPT !.pc = pc, !.length = length]
    <3>1. thread' = [thread EXCEPT ![Driver] = r] /\ r.claim = thread[Driver].claim
      BY <1>1, <1>2, <2>4 DEF Locals
    <3> HIDE DEF r
    <3> QED BY <1>1, <1>3, <2>1, <3>1
  <2>5. ASSUME NEW pc, NEW scan,
               thread' = [thread EXCEPT ![Driver].pc = pc, ![Driver].scan = scan]
        PROVE  ClaimsMade'
    <3> DEFINE r == [thread[Driver] EXCEPT !.pc = pc, !.scan = scan]
    <3>1. thread' = [thread EXCEPT ![Driver] = r] /\ r.claim = thread[Driver].claim
      BY <1>1, <1>2, <2>5 DEF Locals
    <3> HIDE DEF r
    <3> QED BY <1>1, <1>3, <2>1, <3>1
  <2>6. CASE LoadLength
    BY <1>1, <1>5, <2>1, <2>4, <2>5, <2>6 DEF LoadLength
  <2>7. ASSUME NEW length, NEW rotates, Pad(length, rotates) PROVE ClaimsMade'
    <3>1. CASE length # 0
      <4> DEFINE r == [thread[Driver] EXCEPT !.pc = "default_header", !.length = length,
                                             !.rotates = rotates]
      <4>1. thread' = [thread EXCEPT ![Driver] = r]
        BY <2>7, <3>1 DEF Pad
      <4>2. r.claim = thread[Driver].claim
        BY <1>1, <1>2 DEF Locals
      <4> HIDE DEF r
      <4> QED BY <1>1, <1>3, <2>1, <4>1, <4>2
    <3> QED BY <1>1, <1>5, <2>1, <2>7, <3>1 DEF Pad
  <2>8. ASSUME NEW scan, thread' = [thread EXCEPT ![Driver].scan = scan] PROVE ClaimsMade'
    <3> DEFINE r == [thread[Driver] EXCEPT !.scan = scan]
    <3>1. thread' = [thread EXCEPT ![Driver] = r] /\ r.claim = thread[Driver].claim
      BY <1>1, <1>2, <2>8 DEF Locals
    <3> HIDE DEF r
    <3> QED BY <1>1, <1>3, <2>1, <3>1
  <2>9. ASSUME NEW scan, NEW length,
               thread' = [thread EXCEPT ![Driver].pc = "back", ![Driver].scan = scan,
                                        ![Driver].length = length]
        PROVE  ClaimsMade'
    <3> DEFINE r == [thread[Driver] EXCEPT !.pc = "back", !.scan = scan, !.length = length]
    <3>1. thread' = [thread EXCEPT ![Driver] = r]
      BY <2>9
    <3>2. r.claim = thread[Driver].claim
      BY <1>1, <1>2 DEF Locals
    <3> HIDE DEF r
    <3> QED BY <1>1, <1>3, <2>1, <3>1, <3>2
  <2>10. CASE ScanForward
    BY <2>7, <2>8, <2>9, <2>10 DEF ScanForward
  <2>11. CASE ScanBack
    BY <1>1, <1>5, <2>1, <2>7, <2>8, <2>11 DEF ScanBack
  <2>12. CASE NegateLength \/ ApplyDefaultHeader \/ PadType \/ PadLength
    BY <1>1, <1>4, <1>5, <2>1, <2>12 DEF NegateLength, ApplyDefaultHeader, PadType, PadLength
  <2> QED BY <1>12, <2>2, <2>3, <2>6, <2>10, <2>11, <2>12 DEF UnblockStep
<1>13. ASSUME UpdateLimit \/ ReadStep \/ UNCHANGED vars PROVE ClaimsMade'
  BY <1>6, <1>13 DEF UpdateLimit, ReadStep, ReadLength, ReadReturns, SkipPadding, HandleFragment,
                     vars, history
<1> QED BY <1>1, <1>7, <1>8, <1>9, <1>10, <1>11, <1>12, <1>13 DEF Next, PublishStep, UnblockStep

\* A position is so many terms and an offset in the next.
LEMMA PositionSplits ==
  ASSUME NEW position \in Nat
  PROVE  /\ Count(position) \in Nat /\ Offset(position) \in Nat /\ Offset(position) < TermLength
         /\ position = Count(position) * TermLength + Offset(position)
BY TermAssumption DEF Count, Offset

\* Whoever starts to unblock knows that the log does not go round, or that it will not rotate.
LEMMA UnblockStarts ==
  ASSUME FewPublishers, IInv, ClaimsMade, StepInv, Unblock
  PROVE  StepInv'
<1> DEFINE position == subscriber.position
           nextTerm == Offset(position) = 0 /\ Count(position) = active_term_count + 1
           r == [Idle EXCEPT !.pc = IF nextTerm THEN "current_tail" ELSE "blocked_tail",
                             !.count = active_term_count,
                             !.partition = index_by_term_count(Count(position)),
                             !.offset = Offset(position)]
<1>1. thread' = [thread EXCEPT ![Driver] = r] /\ thread[Driver].pc = "idle"
  BY DEF Unblock
<1>2. /\ r.pc = IF nextTerm THEN "current_tail" ELSE "blocked_tail"
      /\ r.count = active_term_count
      /\ r.partition = index_by_term_count(Count(position))
  BY DEF Idle
<1>3. nextTerm \/ \E p \in Publishers : BlockedBy(p, position)
  BY DEF Unblock
<1> HIDE DEF r
<1>4. PICK a, c, o, P, T, W \in Nat :
        /\ a = active_term_count /\ c = Count(position) /\ o = Offset(position) /\ P = position
        /\ T = TermLength /\ W = Window
  BY StepTypes, PositionSplits
<1>5. P = c * T + o /\ o < T /\ W <= T
  BY <1>4, StepTypes, PositionSplits
<1>6. limit \in Nat /\ limit <= P + W
  BY <1>4, StepTypes DEF StepInv, LimitSound
<1>7. \A i \in Partitions : TermOfPartition(i) \in Int /\ TermOfPartition(i) <= a + 1
  BY <1>4, StepTypes, InStep DEF StepInv
<1>8. PICK A \in Nat : A = a * T
  OBVIOUS
<1>9. (a + 1) * T = A + T /\ (a + 2) * T = A + T + T
  BY <1>8
<1>10. ASSUME WithinRound(r) \/ WillBeRefused(r) PROVE StepInv'
  <2>1. DriverSound(r) /\ r.pc \notin {"rotate_count", "add"}
    BY <1>2, <1>4, <1>10 DEF DriverSound
  <2>2. UNCHANGED << raw_tail, active_term_count, limit, subscriber >> /\ UNCHANGED faults
    BY DEF Unblock, log
  <2> QED BY <1>1, <2>1, <2>2, StepTypes, ThreadMoves
<1>11. CASE nextTerm
  <2>1. o = 0 /\ c = a + 1
    BY <1>4, <1>11
  <2>2. P = (a + 1) * T
    BY <1>5, <2>1
  <2>3. limit <= (a + 2) * T
    BY <1>5, <1>6, <1>8, <1>9, <2>2
  <2>4. WithinRound(r)
    BY <1>2, <1>4, <1>7, <1>11, <2>3 DEF WithinRound
  <2> QED BY <1>10, <2>4
<1>12. CASE ~ nextTerm /\ c % 3 # a % 3
  <2>1. WillBeRefused(r)
    BY <1>2, <1>4, <1>12 DEF WillBeRefused, index_by_term_count, PARTITION_COUNT
  <2> QED BY <1>10, <2>1
<1>13. CASE ~ nextTerm /\ c % 3 = a % 3
  <2>1. PICK p \in Publishers : BlockedBy(p, position)
    BY <1>3, <1>13
  <2>2. thread[p].claim \in DOMAIN claims /\ claims[thread[p].claim].position = P
    <3>1. p \in Threads /\ thread[p].claim \in Nat
      BY StepTypes DEF Locals
    <3>2. thread[p].claim > 0 /\ claims[thread[p].claim].position = P
      BY <1>4, <2>1 DEF BlockedBy
    <3>3. thread[p].claim <= Len(claims)
      BY <3>1 DEF ClaimsMade
    <3>4. claims \in Seq(Claim)
      BY DEF IInv, TypeOK
    <3> QED BY <3>1, <3>2, <3>3, <3>4
  <2>3. PICK d \in Int, e \in Nat : LiesIn(claims[thread[p].claim], d, e)
    BY <2>2 DEF IInv, ClaimsBeforeTails
  <2>4. claims[thread[p].claim].length \in Nat
    <3>1. claims[thread[p].claim] \in Claim
      BY <2>2 DEF IInv, TypeOK
    <3> QED BY <3>1 DEF Claim
  <2>5. P = d * T + e /\ e <= T
    BY <1>4, <2>2, <2>3, <2>4 DEF LiesIn
  <2>6. d <= a + 1
    <3>1. d <= TermOfPartition(d % PARTITION_COUNT) /\ d % PARTITION_COUNT \in Partitions
      BY <2>3 DEF LiesIn, Partitions, PARTITION_COUNT
    <3> QED BY <1>7, <3>1
  <2>7. c <= a + 2
    <3>1. SUFFICES ASSUME d + 1 < c PROVE FALSE
      BY <2>6
    <3>2. (d + 1) * T + T <= c * T
      BY <1>4, <3>1, TermsApart
    <3>3. (d + 1) * T = d * T + T /\ d * T \in Int /\ c * T \in Int
      OBVIOUS
    <3>4. T # 0
      BY <1>4, StepTypes
    <3>5. PICK x, y \in Int : x = d * T /\ y = c * T
      BY <3>3
    <3> QED BY <1>5, <2>5, <3>2, <3>3, <3>4, <3>5
  <2>8. c <= a
    BY <1>13, <2>7
  <2>9. c * T <= A /\ c * T \in Nat
    BY <1>8, <2>8, ProductGrows
  <2>10. limit <= (a + 2) * T
    <3>1. PICK x \in Nat : x = c * T
      BY <2>9
    <3> QED BY <1>5, <1>6, <1>9, <2>9, <3>1
  <2>11. WithinRound(r)
    BY <1>2, <1>4, <1>7, <1>13, <2>10 DEF WithinRound
  <2> QED BY <1>10, <2>11
<1> QED BY <1>4, <1>11, <1>12, <1>13

\* The driver loads the tail of the term that is to be rotated, or another that will not be.
LEMMA DriverLoadsTail ==
  ASSUME FewPublishers, IInv, StepInv, LoadCurrentTail \/ LoadBlockedTail
  PROVE  StepInv'
<1> DEFINE d == thread[Driver]
<1>1. /\ Driver \in Threads /\ Driver \notin Publishers /\ DriverSound(d) /\ d \in Locals
      /\ thread \in [Threads -> Locals] /\ d.count \in Int /\ d.partition \in Partitions
  BY StepTypes DEF StepInv
<1>2. UNCHANGED << raw_tail, active_term_count, limit, subscriber >> /\ UNCHANGED faults
  BY DEF LoadCurrentTail, LoadBlockedTail, log, incidents
<1>3. d.pc \in {"current_tail", "blocked_tail"}
  BY DEF LoadCurrentTail, LoadBlockedTail
<1>4. PICK a, c \in Int : a = active_term_count /\ c = d.count
  BY <1>1, StepTypes
<1>5. c <= a /\ (WithinRound(d) \/ WillBeRefused(d))
  BY <1>1, <1>3, <1>4 DEF DriverSound
<1>6. \A i \in Partitions : /\ TermOfPartition(i) \in Int /\ TermOfPartition(i) % 3 = i
                            /\ a - 2 <= TermOfPartition(i)
  BY <1>4, InStep, StepTypes DEF StepInv
<1>7. ASSUME NEW i \in Partitions, WithinRound(d), i = c % 3 PROVE TermOfPartition(i) = c
  <2>1. TermOfPartition(i) <= c + 2
    BY <1>4, <1>7 DEF WithinRound
  <2> QED BY <1>5, <1>6, <1>7, <2>1
<1>8. ASSUME NEW r, thread' = [thread EXCEPT ![Driver] = r], r.pc \in {"rotate", "length"},
             r.count = c, NEW i \in Partitions, r.term_id - InitialTermId = TermOfPartition(i),
             d.pc = "current_tail" => i = c % 3, d.pc = "blocked_tail" => i = d.partition
      PROVE  StepInv'
  <2>1. SameTerm(r) <=> i = c % 3
    BY <1>6, <1>8 DEF SameTerm, index_by_term_count, PARTITION_COUNT
  <2>2. WillBeRefused(d) => WillBeRefused(r)
    BY <1>3, <1>4, <1>8, <2>1 DEF WillBeRefused, index_by_term_count, PARTITION_COUNT
  <2>3. WithinRound(d) => WithinRound(r)
    BY <1>4, <1>7, <1>8, <2>1 DEF WithinRound
  <2>4. DriverSound(r)
    BY <1>4, <1>5, <1>8, <2>2, <2>3 DEF DriverSound
  <2> QED BY <1>1, <1>2, <1>3, <1>8, <2>4, ThreadMoves
<1>9. CASE LoadCurrentTail
  <2> DEFINE i == index_by_term_count(d.count)
             r == [d EXCEPT !.pc = "rotate", !.term_id = raw_tail[i].term_id]
  <2>1. thread' = [thread EXCEPT ![Driver] = r] /\ d.pc = "current_tail"
    BY <1>9 DEF LoadCurrentTail
  <2>2. r.pc = "rotate" /\ r.count = c /\ r.term_id = raw_tail[i].term_id
    BY <1>1, <1>4 DEF Locals
  <2>3. i = c % 3 /\ i \in Partitions
    BY <1>4, IndexIs
  <2>4. r.term_id - InitialTermId = TermOfPartition(i)
    BY <2>2 DEF TermOfPartition
  <2> HIDE DEF i, r
  <2> QED BY <1>8, <2>1, <2>2, <2>3, <2>4
<1>10. CASE LoadBlockedTail
  <2> DEFINE i == d.partition
             r == [d EXCEPT !.pc = "length", !.raw = raw_tail[i], !.term_id = raw_tail[i].term_id]
  <2>1. thread' = [thread EXCEPT ![Driver] = r] /\ d.pc = "blocked_tail"
    BY <1>10 DEF LoadBlockedTail
  <2>2. r.pc = "length" /\ r.count = c /\ r.term_id = raw_tail[i].term_id
    BY <1>1, <1>4 DEF Locals
  <2>3. i \in Partitions /\ i = d.partition
    BY <1>1
  <2>4. r.term_id - InitialTermId = TermOfPartition(i)
    BY <2>2 DEF TermOfPartition
  <2> HIDE DEF i, r
  <2> QED BY <1>8, <2>1, <2>2, <2>3, <2>4
<1> QED BY <1>9, <1>10

\* A publisher that starts to add loaded the active term count, whose term is not closed.
LEMMA PublisherStartsToAdd ==
  ASSUME FewPublishers, IInv, StepInv, NEW p \in Publishers, NEW length \in FrameLengths,
         Offer(p, length)
  PROVE  StepInv'
<1> DEFINE r == [thread[p] EXCEPT !.pc = "add", !.count = active_term_count, !.length = length]
<1>1. /\ p \in Threads /\ p # Driver /\ thread[p] \in Locals /\ thread \in [Threads -> Locals]
  BY StepTypes
<1>2. /\ UNCHANGED << raw_tail, active_term_count, limit, subscriber, faults >>
      /\ thread[p].pc = "idle" /\ ProducerPosition < limit /\ thread' = [thread EXCEPT ![p] = r]
  BY DEF Offer, log, incidents
<1>3. r.pc = "add" /\ r.count = active_term_count
  BY <1>1 DEF Locals
<1> HIDE DEF r
<1>4. thread'[p] = r /\ \A s \in Threads : s # p => thread'[s] = thread[s]
  BY <1>1, <1>2
<1>5. \A i : TermOfPartition(i)' = TermOfPartition(i)
  BY <1>2 DEF TermOfPartition
<1>6. PICK a \in Nat : a = active_term_count
  BY StepTypes
<1>7. a % 3 \in Partitions /\ index_by_term_count(a) = a % 3 /\ ~ Closed(a % 3)
  <2>1. TermOfPartition(a % 3) = a /\ index_by_term_count(a) = a % 3 /\ a % 3 \in Partitions
    BY <1>6, InStep, IndexIs DEF StepInv
  <2>2. PICK offset, A \in Nat : offset = raw_tail[a % 3].term_offset /\ A = a * TermLength
    <3>1. a * TermLength \in Nat
      BY StepTypes, ProductGrows
    <3> QED BY <2>1, <3>1, StepTypes
  <2>3. A + offset < limit
    BY <1>2, <1>6, <2>1, <2>2 DEF ProducerPosition
  <2>4. A < limit
    BY <2>3, StepTypes
  <2> QED BY <1>6, <2>1, <2>2, <2>4, StepTypes DEF Closed
<1>8. TermsInStep'
  <2>1. \A s \in Threads : thread[s].pc = "rotate_count" =>
           \/ thread'[s].pc = "rotate_count" /\ thread'[s].count = thread[s].count
           \/ "rotate_count" \in faults'
    BY <1>2, <1>4
  <2> QED BY <1>2, <1>5, <2>1, StaysInStep DEF StepInv
<1>9. NotFilled'
  <2>1. ASSUME NEW i \in Partitions, i # a % 3 PROVE Adders(i)' \subseteq Adders(i)
    <3>1. ASSUME NEW q \in Publishers, thread'[q].pc = "add",
                 index_by_term_count(thread'[q].count) = i
          PROVE  thread[q].pc = "add" /\ index_by_term_count(thread[q].count) = i
      <4>1. q # p
        BY <1>3, <1>4, <1>6, <1>7, <2>1, <3>1
      <4> QED BY <1>4, <3>1, <4>1, StepTypes
    <3> QED BY <3>1 DEF Adders
  <2>2. \A i : Closed(i)' <=> Closed(i)
    BY <1>2, <1>5 DEF Closed
  <2>3. ASSUME NEW i \in Partitions, Closed(i)'
        PROVE  raw_tail'[i].term_offset <= Cardinality(Publishers \ Adders(i)') * Longest
    BY <1>2, <1>7, <2>1, <2>2, <2>3, StaysNotFilled DEF StepInv
  <2> QED BY <2>3 DEF NotFilled
<1>10. \A q \in Publishers : RotatesOpen(thread[q])'
  <2>1. ASSUME NEW q \in Publishers PROVE RotatesOpen(thread[q])'
    <3>1. PICK new : new = thread'[q]
      OBVIOUS
    <3>2. RotatesOpen(new)
      <4>1. CASE q = p
        BY <1>3, <1>4, <3>1, <4>1 DEF RotatesOpen, WillRotate, RotateSteps
      <4>2. CASE q # p
        BY <1>4, <3>1, <4>2, StepTypes DEF StepInv
      <4> QED BY <4>1, <4>2
    <3> QED BY <1>2, <3>1, <3>2 DEF RotatesOpen, WillRotate
  <2> QED BY <2>1
<1>11. DriverSound(thread[Driver])'
  <2>1. PICK new : new = thread'[Driver] /\ new = thread[Driver]
    BY <1>1, <1>4, StepTypes
  <2>2. DriverSound(new)
    BY <2>1 DEF StepInv
  <2> QED BY <1>2, <1>5, <2>1, <2>2 DEF DriverSound, WithinRound, WillBeRefused, SameTerm
<1>12. \A s \in Threads : CountOwed(thread[s])'
  <2>1. ASSUME NEW s \in Threads PROVE CountOwed(thread[s])'
    <3>1. PICK new : new = thread'[s]
      OBVIOUS
    <3>2. CountOwed(new)
      BY <1>3, <1>4, <3>1 DEF StepInv, CountOwed
    <3> QED BY <1>5, <3>1, <3>2 DEF CountOwed
  <2> QED BY <2>1
<1>13. LimitSound'
  BY <1>2 DEF StepInv, LimitSound
<1> QED BY <1>8, <1>9, <1>10, <1>11, <1>12, <1>13 DEF StepInv

\* A publisher that adds to a closed tail does not fill its term; so it rotates open ones only.
LEMMA PublisherAddsOnce ==
  ASSUME FewPublishers, IInv, StepInv, NEW p \in Publishers, AddToTail(p)
  PROVE  StepInv'
<1>1. /\ p \in Threads /\ p # Driver /\ thread[p] \in Locals /\ thread \in [Threads -> Locals]
      /\ raw_tail \in [Partitions -> PackedTail]
  BY StepTypes
<1>2. /\ UNCHANGED << active_term_count, limit, subscriber, faults >> /\ thread[p].pc = "add"
      /\ thread[p].length \in FrameLengths
  BY <1>1 DEF AddToTail, incidents, IInv, ThreadsSound
<1>3. PICK i : i = index_by_term_count(thread[p].count)
  OBVIOUS
<1>4. i \in Partitions
  BY <1>1, <1>3, IndexIs, StepTypes
<1>5. PICK o, l, T, L \in Nat : /\ o = raw_tail[i].term_offset /\ l = thread[p].length
                                /\ T = TermLength /\ L = Longest
  <2>1. thread[p].length \in Nat
    <3>1. thread[p].length \in 1 .. TermLength /\ TermLength \in Nat
      BY <1>2, LengthsAssumption, TermAssumption
    <3> QED BY <3>1
  <2> QED BY <1>4, <2>1, StepTypes, LongestFrame
<1>6. l <= L /\ 1 <= l
  BY <1>2, <1>5, LongestFrame, LengthsAssumption, TermAssumption
<1>7. /\ raw_tail' = [raw_tail EXCEPT ![i] = [raw_tail[i] EXCEPT !.term_offset = o + l]]
      /\ raw_tail[i] \in PackedTail
  BY <1>1, <1>3, <1>4, <1>5 DEF AddToTail
<1>8. /\ raw_tail'[i].term_offset = o + l /\ raw_tail'[i].term_id = raw_tail[i].term_id
      /\ \A j \in Partitions : j # i => raw_tail'[j] = raw_tail[j]
  BY <1>1, <1>4, <1>7 DEF PackedTail
<1>9. \A j \in Partitions : TermOfPartition(j)' = TermOfPartition(j)
  BY <1>8 DEF TermOfPartition
<1>10. PICK r : /\ thread' = [thread EXCEPT ![p] = r] /\ r.pc \in {"claimed", "rotate"}
                /\ r.count = TermOfPartition(i) /\ r.term_id - InitialTermId = r.count
                /\ WillRotate(r) => o + l > T
  <2> DEFINE at == [thread[p] EXCEPT !.count = raw_tail[i].term_id - InitialTermId,
                                     !.term_id = raw_tail[i].term_id, !.partition = i]
  <2>1. CASE o < T
    <3> DEFINE fits == o + l <= T
               length == IF fits THEN l ELSE T - o
               r == [at EXCEPT !.pc = "claimed", !.offset = o, !.length = length,
                               !.claim = Len(claims) + 1, !.rotates = ~ fits]
    <3>1. thread' = [thread EXCEPT ![p] = r]
      BY <1>3, <1>5, <2>1 DEF AddToTail
    <3>2. /\ r.pc = "claimed" /\ r.count = TermOfPartition(i)
          /\ r.term_id = raw_tail[i].term_id /\ r.rotates = ~ fits
      BY <1>1 DEF Locals, TermOfPartition
    <3>3. WillRotate(r) => o + l > T
      <4>1. o + l <= T \/ o + l > T
        OBVIOUS
      <4> HIDE DEF r
      <4>2. WillRotate(r) => r.rotates
        BY <3>2 DEF WillRotate, RotateSteps
      <4> QED BY <3>2, <4>1, <4>2, Zenon
    <3>4. r.term_id - InitialTermId = r.count
      BY <3>2 DEF TermOfPartition
    <3> HIDE DEF r
    <3> QED BY <3>1, <3>2, <3>3, <3>4
  <2>2. CASE ~ o < T
    <3> DEFINE r == [at EXCEPT !.pc = "rotate"]
    <3>1. thread' = [thread EXCEPT ![p] = r]
      BY <1>3, <1>5, <2>2 DEF AddToTail
    <3>2. /\ r.pc = "rotate" /\ r.count = TermOfPartition(i)
          /\ r.term_id = raw_tail[i].term_id
      BY <1>1 DEF Locals, TermOfPartition
    <3>3. o + l > T
      BY <1>6, <2>2
    <3>4. r.term_id - InitialTermId = r.count
      BY <3>2 DEF TermOfPartition
    <3> HIDE DEF r
    <3> QED BY <3>1, <3>2, <3>3, <3>4
  <2> QED BY <2>1, <2>2
<1>11. thread'[p] = r /\ \A s \in Threads : s # p => thread'[s] = thread[s]
  BY <1>1, <1>10
<1>12. \A j : Adders(j)' \subseteq Adders(j)
  <2>1. ASSUME NEW j, NEW q \in Adders(j)' PROVE q \in Adders(j)
    <3>1. q \in Publishers /\ thread'[q].pc = "add" /\ index_by_term_count(thread'[q].count) = j
      BY <2>1 DEF Adders
    <3>2. q # p
      BY <1>10, <1>11, <3>1
    <3> QED BY <1>11, <3>1, <3>2, StepTypes DEF Adders
  <2> QED BY <2>1
<1>13. p \in Adders(i) /\ p \notin Adders(i)'
  BY <1>2, <1>3, <1>10, <1>11 DEF Adders
<1>14. \A j \in Partitions : Closed(j)' <=> Closed(j)
  BY <1>2, <1>9 DEF Closed
<1>15. Closed(i) => /\ o + l <= Cardinality(Publishers \ Adders(i)') * Longest
                    /\ o + l <= T
  <2>1. PICK A, B : A = Publishers \ Adders(i) /\ B = Publishers \ Adders(i)'
    OBVIOUS
  <2>2. A \in SUBSET Publishers /\ B \in SUBSET Publishers /\ A \subseteq B /\ p \in B /\ p \notin A
    BY <1>12, <1>13, <2>1
  <2>3. PICK x, y \in Nat : /\ x = Cardinality(A) * Longest /\ y = Cardinality(B) * Longest
                            /\ x + L <= y /\ y <= T
    BY <1>5, <2>2, Room
  <2>4. Closed(i) => o <= x
    BY <1>4, <1>5, <2>1, <2>3 DEF StepInv, NotFilled
  <2> QED BY <1>6, <2>1, <2>3, <2>4
<1>16. TermsInStep'
  <2>1. \A s \in Threads : thread[s].pc = "rotate_count" =>
           \/ thread'[s].pc = "rotate_count" /\ thread'[s].count = thread[s].count
           \/ "rotate_count" \in faults'
    BY <1>2, <1>11
  <2> QED BY <1>2, <1>9, <2>1, StaysInStep DEF StepInv
<1>17. NotFilled'
  <2>1. ASSUME NEW j \in Partitions, Closed(j)'
        PROVE  raw_tail'[j].term_offset <= Cardinality(Publishers \ Adders(j)') * Longest
    <3>1. CASE j = i
      BY <1>4, <1>8, <1>14, <1>15, <2>1, <3>1
    <3>2. CASE j # i
      BY <1>8, <1>12, <1>14, <2>1, <3>2, StaysNotFilled DEF StepInv
    <3> QED BY <3>1, <3>2
  <2> QED BY <2>1 DEF NotFilled
<1>18. \A q \in Publishers : RotatesOpen(thread[q])'
  <2>1. ASSUME NEW q \in Publishers PROVE RotatesOpen(thread[q])'
    <3>1. PICK new : new = thread'[q]
      OBVIOUS
    <3>2. RotatesOpen(new)
      <4>1. CASE q = p
        <5>1. new = r
          BY <1>11, <3>1, <4>1
        <5>2. WillRotate(r) => ~ Closed(i)
          BY <1>5, <1>10, <1>15
        <5>3. TermOfPartition(i) * TermLength \in Int /\ TermOfPartition(i) \in Int
          BY <1>4, StepTypes
        <5> QED BY <1>10, <5>1, <5>2, <5>3, StepTypes DEF RotatesOpen, Closed
      <4>2. CASE q # p
        BY <1>11, <3>1, <4>2, StepTypes DEF StepInv
      <4> QED BY <4>1, <4>2
    <3> QED BY <1>2, <3>1, <3>2 DEF RotatesOpen, WillRotate
  <2> QED BY <2>1
<1>19. DriverSound(thread[Driver])'
  <2>1. PICK new : new = thread'[Driver] /\ new = thread[Driver]
    BY <1>1, <1>11, StepTypes
  <2>2. DriverSound(new)
    BY <2>1 DEF StepInv
  <2> QED BY <1>2, <1>9, <2>1, <2>2 DEF DriverSound, WithinRound, WillBeRefused, SameTerm
<1>20. \A s \in Threads : CountOwed(thread[s])'
  <2>1. ASSUME NEW s \in Threads PROVE CountOwed(thread[s])'
    <3>1. PICK new : new = thread'[s]
      OBVIOUS
    <3>2. CountOwed(new)
      BY <1>10, <1>11, <3>1 DEF StepInv, CountOwed
    <3>3. new.pc = "rotate_count" => new.count \in Int
      BY <1>10, <1>11, <3>1, StepTypes
    <3>4. new.pc = "rotate_count" => index_by_term_count(new.count + 1) \in Partitions
      BY <3>3, IndexIs
    <3> QED BY <1>9, <3>1, <3>2, <3>4 DEF CountOwed
  <2> QED BY <2>1
<1>21. LimitSound'
  BY <1>2 DEF StepInv, LimitSound
<1> QED BY <1>16, <1>17, <1>18, <1>19, <1>20, <1>21 DEF StepInv

\* The tail of the term after the active one is replaced.
Replaced(t, a, j) ==
  /\ a = active_term_count /\ j = NextIndex(t) /\ j = (a + 1) % 3
  /\ thread[t].count = a /\ thread[t].term_id - InitialTermId = a
  /\ TermOfPartition(j) = a - 2
  /\ TermOfPartition(j)' = a + 1 /\ raw_tail'[j].term_offset = 0
  /\ \A i \in Partitions : i # j => raw_tail'[i] = raw_tail[i]
  /\ \A i \in Partitions : i # j => TermOfPartition(i)' = TermOfPartition(i)

\* Whoever replaces a tail replaces that of the term after the active one, which is the only
\* one it can be.
LEMMA NextTail ==
  ASSUME IInv, StepInv, NEW t \in Threads, CompareAndSetNextTail(t),
         raw_tail[NextIndex(t)] = thread[t].raw
  PROVE  \E a \in Nat, j \in Partitions : Replaced(t, a, j)
<1>1. /\ thread[t] \in Locals /\ Driver \notin Publishers /\ raw_tail \in [Partitions -> PackedTail]
  BY StepTypes
<1>2. /\ thread[t].pc = "rotate_tail"
      /\ raw_tail' = [raw_tail EXCEPT ![NextIndex(t)] = pack_tail(0, thread[t].term_id + 1)]
  BY DEF CompareAndSetNextTail
<1>3. PICK a, c, D \in Int : /\ a = active_term_count /\ c = thread[t].count
                             /\ D = thread[t].term_id - InitialTermId
  BY StepTypes
<1>4. PICK j \in Partitions : j = NextIndex(t) /\ j = (c + 1) % 3
  BY <1>3, IndexIs DEF NextIndex
<1>5. TermOfPartition(j) = D - 2
  <2>1. raw_tail[j].term_id = thread[t].term_id + 1 - PARTITION_COUNT
    BY <1>2, <1>4 DEF IInv, ThreadsSound, ExpectedTermId
  <2> QED BY <1>3, <2>1, StepTypes DEF TermOfPartition, PARTITION_COUNT
<1>6. SameTerm(thread[t])
  <2>1. (D - 2) % 3 = (c + 1) % 3
    BY <1>4, <1>5, StepTypes
  <2>2. D % 3 = c % 3
    BY <2>1
  <2> QED BY <1>3, <2>2 DEF SameTerm, index_by_term_count, PARTITION_COUNT
<1>7. D = c /\ c <= a
  <2>1. CASE t \in Publishers
    BY <1>2, <1>3, <2>1 DEF StepInv, RotatesOpen, WillRotate, RotateSteps
  <2>2. CASE t = Driver
    BY <1>2, <1>3, <1>6, <2>2 DEF StepInv, DriverSound, WithinRound, WillBeRefused
  <2> QED BY <2>1, <2>2 DEF Threads
<1>8. c = a
  <2>1. a - 2 <= TermOfPartition(j)
    BY <1>3, InStep, StepTypes DEF StepInv
  <2> QED BY <1>5, <1>7, <2>1
<1>9. /\ TermOfPartition(j)' = a + 1 /\ raw_tail'[j].term_offset = 0
      /\ \A i \in Partitions : i # j => raw_tail'[i] = raw_tail[i]
      /\ \A i \in Partitions : i # j => TermOfPartition(i)' = TermOfPartition(i)
  <2>1. raw_tail'[j] = pack_tail(0, thread[t].term_id + 1)
    BY <1>1, <1>2, <1>4
  <2>2. raw_tail'[j].term_offset = 0 /\ raw_tail'[j].term_id = thread[t].term_id + 1
    BY <2>1 DEF pack_tail
  <2>3. \A i \in Partitions : i # j => raw_tail'[i] = raw_tail[i]
    BY <1>1, <1>2, <1>4
  <2> QED BY <1>3, <1>7, <1>8, <2>2, <2>3, StepTypes DEF TermOfPartition
<1>10. a \in Nat
  BY <1>3, StepTypes
<1>11. Replaced(t, a, j)
  <2>1. thread[t].count = a /\ thread[t].term_id - InitialTermId = a
    BY <1>3, <1>7, <1>8
  <2>2. TermOfPartition(j) = a - 2 /\ j = (a + 1) % 3
    BY <1>4, <1>5, <1>7, <1>8
  <2> QED BY <1>3, <1>4, <1>9, <2>1, <2>2 DEF Replaced
<1> QED BY <1>10, <1>11

\* So the terms stay in step.
LEMMA NextTailReplaced ==
  ASSUME FewPublishers, IInv, StepInv, NEW t \in Threads, CompareAndSetNextTail(t),
         raw_tail[NextIndex(t)] = thread[t].raw
  PROVE  StepInv'
<1> DEFINE r == [thread[t] EXCEPT !.pc = "rotate_count"]
<1>1. /\ thread[t] \in Locals /\ thread \in [Threads -> Locals] /\ Driver \in Threads
      /\ Driver \notin Publishers /\ raw_tail \in [Partitions -> PackedTail]
  BY StepTypes
<1>2. /\ UNCHANGED << active_term_count, limit, subscriber, faults >> /\ thread[t].pc = "rotate_tail"
      /\ thread' = [thread EXCEPT ![t] = r]
  BY DEF CompareAndSetNextTail, incidents, Goto
<1>3. r.pc = "rotate_count" /\ r.count = thread[t].count /\ r.term_id = thread[t].term_id
  BY <1>1 DEF Locals
<1> HIDE DEF r
<1>4. thread'[t] = r /\ \A s \in Threads : s # t => thread'[s] = thread[s]
  BY <1>1, <1>2
<1>5. PICK a, c \in Int, j \in Partitions : Replaced(t, a, j) /\ c = thread[t].count
  BY NextTail, StepTypes
<1>6. a = active_term_count /\ j = NextIndex(t) /\ j = (c + 1) % 3
  BY <1>5 DEF Replaced
<1>7. TermOfPartition(j) = a - 2
  BY <1>5 DEF Replaced
<1>8. c = a
  BY <1>5 DEF Replaced
<1>9. /\ TermOfPartition(j)' = a + 1 /\ raw_tail'[j].term_offset = 0
      /\ \A i \in Partitions : i # j => raw_tail'[i] = raw_tail[i]
      /\ \A i \in Partitions : i # j => TermOfPartition(i)' = TermOfPartition(i)
  BY <1>5 DEF Replaced
<1>10. TermsInStep'
  <2>1. /\ TermOfPartition(a % 3) = a /\ TermOfPartition((a + 2) % 3) = a - 1
        /\ a % 3 \in Partitions /\ (a + 2) % 3 \in Partitions
    BY <1>6, InStep, IndexIs, StepTypes DEF StepInv
  <2>2. j = (a + 1) % 3 /\ a % 3 # j /\ (a + 2) % 3 # j
    BY <1>6, <1>8
  <2>3. /\ TermOfPartition(a % 3)' = a /\ TermOfPartition((a + 1) % 3)' = a + 1
        /\ TermOfPartition((a + 2) % 3)' = a - 1
    BY <1>9, <2>1, <2>2
  <2>4. thread'[t].pc = "rotate_count" /\ thread'[t].count = a
    BY <1>3, <1>4, <1>5, <1>8
  <2>5. active_term_count' = a
    BY <1>2, <1>6
  <2> QED BY <2>3, <2>4, <2>5
          DEF TermsInStep, TermOfPartition, index_by_term_count, PARTITION_COUNT
<1>11. NotFilled'
  <2>1. \A i : Adders(i)' \subseteq Adders(i)
    <3>1. ASSUME NEW i, NEW q \in Adders(i)' PROVE q \in Adders(i)
      <4>1. q \in Publishers /\ thread'[q].pc = "add" /\ index_by_term_count(thread'[q].count) = i
        BY <3>1 DEF Adders
      <4>2. q # t
        BY <1>3, <1>4, <4>1
      <4> QED BY <1>4, <4>1, <4>2, StepTypes DEF Adders
    <3> QED BY <3>1
  <2>2. ASSUME NEW i \in Partitions, Closed(i)'
        PROVE  raw_tail'[i].term_offset <= Cardinality(Publishers \ Adders(i)') * Longest
    <3>1. CASE i = j
      <4>1. PICK S : S = Publishers \ Adders(i)'
        OBVIOUS
      <4>2. S \in SUBSET Publishers
        BY <4>1
      <4>3. Cardinality(S) * Longest \in Nat
        BY <4>2, Room
      <4> QED BY <1>9, <3>1, <4>1, <4>3
    <3>2. CASE i # j
      <4>1. Closed(i)' => Closed(i)
        BY <1>2, <1>9, <3>2 DEF Closed
      <4> QED BY <1>9, <2>1, <2>2, <3>2, <4>1, StaysNotFilled DEF StepInv
    <3> QED BY <3>1, <3>2
  <2> QED BY <2>2 DEF NotFilled
<1>12. \A q \in Publishers : RotatesOpen(thread[q])'
  <2>1. ASSUME NEW q \in Publishers PROVE RotatesOpen(thread[q])'
    <3>1. PICK new : new = thread'[q]
      OBVIOUS
    <3>2. RotatesOpen(new)
      <4>1. CASE q = t
        <5>1. RotatesOpen(thread[t]) /\ WillRotate(thread[t])
          BY <1>2, <4>1 DEF StepInv, WillRotate, RotateSteps
        <5> QED BY <1>3, <1>4, <3>1, <4>1, <5>1 DEF RotatesOpen
      <4>2. CASE q # t
        BY <1>4, <3>1, <4>2, StepTypes DEF StepInv
      <4> QED BY <4>1, <4>2
    <3> QED BY <1>2, <3>1, <3>2 DEF RotatesOpen, WillRotate
  <2> QED BY <2>1
<1>13. DriverSound(thread[Driver])'
  <2>1. PICK old, new : old = thread[Driver] /\ new = thread'[Driver]
    OBVIOUS
  <2>2. DriverSound(old) /\ old.count \in Int
    BY <2>1, StepTypes DEF StepInv
  <2>3. /\ new.count = old.count /\ new.term_id = old.term_id /\ new.partition = old.partition
        /\ new.pc # old.pc => t = Driver /\ old.pc = "rotate_tail" /\ new.pc = "rotate_count"
    <3>1. CASE t = Driver
      <4>1. r.partition = thread[t].partition
        BY <1>1 DEF r, Locals
      <4> QED BY <1>2, <1>3, <1>4, <2>1, <3>1, <4>1
    <3>2. CASE t # Driver
      BY <1>1, <1>4, <2>1, <3>2
    <3> QED BY <3>1, <3>2
  <2>4. DriverSound(new)
    BY <2>2, <2>3 DEF DriverSound, WithinRound, WillBeRefused, SameTerm
  <2>5. WithinRound(new) => a + 1 <= new.count + 2
    <3>1. CASE t = Driver
      <4>1. new.count = a
        BY <1>5, <1>8, <2>1, <2>3, <3>1
      <4> QED BY <4>1
    <3>2. CASE t \in Publishers
      <4>1. SUFFICES ASSUME limit <= (new.count + 2) * TermLength, new.count + 2 <= a PROVE FALSE
        BY <1>5, <2>2, <2>3 DEF WithinRound
      <4>2. a * TermLength < limit
        BY <1>2, <1>5, <1>8, <3>2 DEF StepInv, RotatesOpen, WillRotate, RotateSteps
      <4>3. PICK n \in Int : n = new.count + 2
        BY <2>2, <2>3
      <4>4. n <= a /\ (n < a => n * TermLength + TermLength <= a * TermLength)
        BY <4>1, <4>3, TermsApart
      <4>5. PICK x, y \in Int : x = n * TermLength /\ y = a * TermLength
        BY StepTypes
      <4> QED BY <4>1, <4>2, <4>3, <4>4, <4>5, StepTypes
    <3> QED BY <3>1, <3>2 DEF Threads
  <2>6. WithinRound(new) => WithinRound(new)'
    <3>1. SUFFICES ASSUME WithinRound(new) PROVE WithinRound(new)'
      OBVIOUS
    <3>2. \A i \in Partitions : TermOfPartition(i) <= new.count + 2
      BY <3>1 DEF WithinRound
    <3>3. \A i \in Partitions : TermOfPartition(i)' <= new.count + 2
      BY <1>9, <2>5, <3>1, <3>2
    <3> QED BY <1>2, <3>1, <3>3 DEF WithinRound, SameTerm
  <2> QED BY <1>2, <2>1, <2>4, <2>6 DEF DriverSound, WillBeRefused, SameTerm
<1>14. \A s \in Threads : CountOwed(thread[s])'
  <2>1. ASSUME NEW s \in Threads PROVE CountOwed(thread[s])'
    <3>1. PICK new : new = thread'[s]
      OBVIOUS
    <3>2. SUFFICES ASSUME new.pc = "rotate_count"
                   PROVE  TermOfPartition(index_by_term_count(new.count + 1))' >= new.count + 1
      BY <3>1 DEF CountOwed
    <3>3. CASE s = t
      BY <1>3, <1>4, <1>5, <1>6, <1>8, <1>9, <3>1, <3>3 DEF NextIndex
    <3>4. CASE s # t
      <4>1. new = thread[s] /\ new.count \in Int
        BY <1>4, <3>1, <3>4, StepTypes
      <4>2. PICK i \in Partitions : i = index_by_term_count(new.count + 1)
        BY <4>1, IndexIs
      <4>3. TermOfPartition(i) >= new.count + 1
        BY <3>2, <4>1, <4>2 DEF StepInv, CountOwed
      <4>4. TermOfPartition(i)' >= TermOfPartition(i)
        BY <1>5, <1>7, <1>8, <1>9, StepTypes
      <4>5. TermOfPartition(i)' \in Int /\ TermOfPartition(i) \in Int
        BY <1>5, <1>9, StepTypes
      <4> QED BY <4>1, <4>2, <4>3, <4>4, <4>5
    <3> QED BY <3>3, <3>4
  <2> QED BY <2>1
<1>15. LimitSound'
  BY <1>2 DEF StepInv, LimitSound
<1> QED BY <1>10, <1>11, <1>12, <1>13, <1>14, <1>15 DEF StepInv

\* Who stores the count has stored the tail, so that the terms remain in step.
LEMMA TermCountStored ==
  ASSUME FewPublishers, IInv, StepInv, NEW t \in Threads, CompareAndSetTermCount(t)
  PROVE  StepInv'
<1>1. /\ thread[t] \in Locals /\ thread \in [Threads -> Locals] /\ Driver \in Threads
      /\ Driver \notin Publishers /\ Idle.pc = "idle"
  BY StepTypes DEF Idle
<1>2. /\ UNCHANGED << raw_tail, limit, subscriber, faults >> /\ thread[t].pc = "rotate_count"
      /\ thread' = [thread EXCEPT ![t] = Idle]
  BY DEF CompareAndSetTermCount, incidents, Return
<1>3. thread'[t] = Idle /\ \A s \in Threads : s # t => thread'[s] = thread[s]
  BY <1>1, <1>2
<1>4. PICK a, b, c \in Int : a = active_term_count /\ b = active_term_count' /\ c = thread[t].count
  BY StepTypes DEF CompareAndSetTermCount
<1>5. b = IF a = c THEN a + 1 ELSE a
  BY <1>4 DEF CompareAndSetTermCount
<1>6. \A i : TermOfPartition(i)' = TermOfPartition(i)
  BY <1>2 DEF TermOfPartition
<1>7. /\ TermOfPartition(a % 3) = a /\ TermOfPartition((a + 1) % 3) \in {a + 1, a - 2}
      /\ TermOfPartition((a + 2) % 3) = a - 1
  BY <1>4, InStep, StepTypes DEF StepInv
<1>8. TermsInStep'
  <2>1. CASE a = c
    <3>1. TermOfPartition((a + 1) % 3) >= a + 1
      <4>1. TermOfPartition(index_by_term_count(a + 1)) >= a + 1
        BY <1>2, <1>4, <2>1 DEF StepInv, CountOwed
      <4> QED BY <4>1, IndexIs
    <3>2. TermOfPartition((a + 1) % 3) = a + 1
      BY <1>7, <3>1
    <3>3. b = a + 1 /\ (b + 1) % 3 = (a + 2) % 3 /\ (b + 2) % 3 = a % 3
      BY <1>5, <2>1
    <3>4. /\ TermOfPartition(b % 3) = b /\ TermOfPartition((b + 1) % 3) = b - 2
          /\ TermOfPartition((b + 2) % 3) = b - 1
      BY <1>7, <3>2, <3>3
    <3>5. /\ TermOfPartition(b % 3)' = b /\ TermOfPartition((b + 1) % 3)' = b - 2
          /\ TermOfPartition((b + 2) % 3)' = b - 1
      BY <1>6, <3>4
    <3> QED BY <1>4, <3>5 DEF TermsInStep, TermOfPartition, index_by_term_count, PARTITION_COUNT
  <2>2. CASE a # c
    <3>1. TermOfPartition((a + 1) % 3) = a + 1 =>
            \/ \E s \in Threads : thread'[s].pc = "rotate_count" /\ thread'[s].count = a
            \/ "rotate_count" \in faults'
      <4>1. SUFFICES ASSUME TermOfPartition((a + 1) % 3) = a + 1, "rotate_count" \notin faults
                     PROVE  \E s \in Threads : thread'[s].pc = "rotate_count"
                                               /\ thread'[s].count = a
        BY <1>2
      <4>2. PICK s \in Threads : thread[s].pc = "rotate_count" /\ thread[s].count = a
        BY <1>4, <4>1
           DEF StepInv, TermsInStep, TermOfPartition, index_by_term_count, PARTITION_COUNT
      <4>3. s # t
        BY <1>4, <2>2, <4>2
      <4> QED BY <1>3, <4>2, <4>3
    <3>2. /\ TermOfPartition(a % 3)' = a /\ TermOfPartition((a + 1) % 3)' \in {a + 1, a - 2}
          /\ TermOfPartition((a + 2) % 3)' = a - 1
      BY <1>6, <1>7
    <3>3. active_term_count' = a
      BY <1>4, <1>5, <2>2
    <3>4. TermOfPartition((a + 1) % 3)' = TermOfPartition((a + 1) % 3)
      BY <1>6
    <3> QED BY <3>1, <3>2, <3>3, <3>4
            DEF TermsInStep, TermOfPartition, index_by_term_count, PARTITION_COUNT
  <2> QED BY <2>1, <2>2
<1>9. a <= b
  BY <1>5
<1>10. NotFilled'
  <2>1. \A i : Adders(i)' \subseteq Adders(i)
    <3>1. ASSUME NEW i, NEW q \in Adders(i)' PROVE q \in Adders(i)
      <4>1. q \in Publishers /\ thread'[q].pc = "add" /\ index_by_term_count(thread'[q].count) = i
        BY <3>1 DEF Adders
      <4>2. q # t
        BY <1>1, <1>3, <4>1
      <4> QED BY <1>3, <4>1, <4>2, StepTypes DEF Adders
    <3> QED BY <3>1
  <2>2. ASSUME NEW i \in Partitions, Closed(i)'
        PROVE  raw_tail'[i].term_offset <= Cardinality(Publishers \ Adders(i)') * Longest
    <3>1. Closed(i)' => Closed(i)
      <4>1. PICK k \in Int : k = TermOfPartition(i) /\ k = TermOfPartition(i)'
        BY <1>6, StepTypes
      <4>2. k > b => k > a
        BY <1>9
      <4> QED BY <1>2, <1>4, <4>1, <4>2 DEF Closed
    <3> QED BY <1>2, <2>1, <2>2, <3>1, StaysNotFilled DEF StepInv
  <2> QED BY <2>2 DEF NotFilled
<1>11. \A q \in Publishers : RotatesOpen(thread[q])'
  <2>1. ASSUME NEW q \in Publishers PROVE RotatesOpen(thread[q])'
    <3>1. PICK new : new = thread'[q]
      OBVIOUS
    <3>2. RotatesOpen(new) /\ (WillRotate(new) => new.count \in Int)
      <4>1. CASE q = t
        BY <1>1, <1>3, <3>1, <4>1 DEF RotatesOpen, WillRotate, RotateSteps
      <4>2. CASE q # t
        BY <1>3, <3>1, <4>2, StepTypes DEF StepInv
      <4> QED BY <4>1, <4>2
    <3>3. WillRotate(new) => new.count <= b
      BY <1>4, <1>9, <3>2 DEF RotatesOpen
    <3> QED BY <1>2, <1>4, <3>1, <3>2, <3>3 DEF RotatesOpen, WillRotate
  <2> QED BY <2>1
<1>12. DriverSound(thread[Driver])'
  <2>1. PICK new : new = thread'[Driver]
    OBVIOUS
  <2>2. DriverSound(new) /\ (new.pc # "idle" => new.count \in Int)
    <3>1. CASE Driver = t
      BY <1>1, <1>3, <2>1, <3>1 DEF DriverSound
    <3>2. CASE Driver # t
      BY <1>1, <1>3, <2>1, <3>2, StepTypes DEF StepInv
    <3> QED BY <3>1, <3>2
  <2>3. new.pc # "idle" => new.count <= b
    BY <1>4, <1>9, <2>2 DEF DriverSound
  <2> QED BY <1>2, <1>4, <1>6, <2>1, <2>2, <2>3 DEF DriverSound, WithinRound, WillBeRefused, SameTerm
<1>13. \A s \in Threads : CountOwed(thread[s])'
  <2>1. ASSUME NEW s \in Threads PROVE CountOwed(thread[s])'
    <3>1. PICK new : new = thread'[s]
      OBVIOUS
    <3>2. CountOwed(new)
      BY <1>1, <1>3, <3>1 DEF StepInv, CountOwed
    <3> QED BY <1>6, <3>1, <3>2 DEF CountOwed
  <2> QED BY <2>1
<1>14. LimitSound'
  BY <1>2 DEF StepInv, LimitSound
<1> QED BY <1>8, <1>10, <1>11, <1>12, <1>13, <1>14 DEF StepInv

\* While no thread moves, the limit may grow, unless the driver unblocks.
LEMMA LimitGrows ==
  ASSUME FewPublishers, IInv, StepInv, UNCHANGED << raw_tail, active_term_count, thread >>,
         faults \subseteq faults', limit' \in Nat, limit <= limit',
         limit' # limit => thread[Driver].pc = "idle", LimitSound'
  PROVE  StepInv'
<1>1. \A i : TermOfPartition(i)' = TermOfPartition(i)
  BY DEF TermOfPartition
<1>2. TermsInStep'
  <2>1. \A s \in Threads : thread[s].pc = "rotate_count" =>
           \/ thread'[s].pc = "rotate_count" /\ thread'[s].count = thread[s].count
           \/ "rotate_count" \in faults'
    OBVIOUS
  <2> QED BY <1>1, <2>1, StaysInStep DEF StepInv
<1>3. NotFilled'
  <2>1. ASSUME NEW i \in Partitions, Closed(i)'
        PROVE  raw_tail'[i].term_offset <= Cardinality(Publishers \ Adders(i)') * Longest
    <3>1. Closed(i)' => Closed(i)
      <4>1. PICK k \in Int : k = TermOfPartition(i) /\ k = TermOfPartition(i)'
        BY <1>1, StepTypes
      <4>2. PICK x \in Int : x = k * TermLength
        BY StepTypes
      <4>3. x >= limit' => x >= limit
        BY StepTypes
      <4> QED BY <4>1, <4>2, <4>3 DEF Closed
    <3>2. Adders(i)' = Adders(i)
      BY DEF Adders
    <3> QED BY <2>1, <3>1, <3>2, StaysNotFilled DEF StepInv
  <2> QED BY <2>1 DEF NotFilled
<1>4. \A q \in Publishers : RotatesOpen(thread[q])'
  <2>1. ASSUME NEW q \in Publishers PROVE RotatesOpen(thread[q])'
    <3>1. PICK new : new = thread[q] /\ new = thread'[q]
      OBVIOUS
    <3>2. RotatesOpen(new) /\ new.count \in Int
      BY <3>1, StepTypes DEF StepInv
    <3>3. PICK x \in Int : x = new.count * TermLength
      BY <3>2, StepTypes
    <3>4. x < limit => x < limit'
      BY StepTypes
    <3> QED BY <3>1, <3>2, <3>3, <3>4 DEF RotatesOpen, WillRotate
  <2> QED BY <2>1
<1>5. DriverSound(thread[Driver])'
  <2>1. PICK new : new = thread[Driver] /\ new = thread'[Driver]
    OBVIOUS
  <2>2. DriverSound(new)
    BY <2>1 DEF StepInv
  <2>3. CASE new.pc = "idle"
    BY <2>1, <2>3 DEF DriverSound
  <2>4. CASE limit' = limit
    BY <1>1, <2>1, <2>2, <2>4 DEF DriverSound, WithinRound, WillBeRefused, SameTerm
  <2> QED BY <2>1, <2>3, <2>4
<1>6. \A s \in Threads : CountOwed(thread[s])'
  BY <1>1 DEF StepInv, CountOwed
<1> QED BY <1>2, <1>3, <1>4, <1>5, <1>6 DEF StepInv

\* The driver moves the limit between its calls of unblock().
LEMMA LimitUpdated ==
  ASSUME FewPublishers, IInv, StepInv, UpdateLimit
  PROVE  StepInv'
<1>1. /\ UNCHANGED << raw_tail, active_term_count, thread, subscriber >>
      /\ faults \subseteq faults' /\ thread[Driver].pc = "idle"
      /\ limit' = subscriber.position + Window
  BY DEF UpdateLimit
<1>2. limit <= limit' /\ limit' \in Nat
  BY <1>1, StepTypes DEF StepInv, LimitSound
<1>3. LimitSound'
  <2>1. limit' <= subscriber.position + Window
    BY <1>1, StepTypes
  <2> QED BY <1>1, <2>1 DEF LimitSound, StepInv
<1> QED BY <1>1, <1>2, <1>3, LimitGrows

\* The subscriber goes on, and its position with it.
LEMMA SubscriberMoves ==
  ASSUME FewPublishers, IInv, StepInv, ReadStep
  PROVE  StepInv'
<1>1. UNCHANGED << raw_tail, active_term_count, thread, limit, faults >>
  BY DEF ReadStep, ReadLength, ReadReturns, SkipPadding, HandleFragment, log, incidents
<1>2. PICK P, O, L, W \in Nat : /\ P = subscriber.position /\ O = subscriber.offset
                                /\ L = subscriber.length /\ W = Window
  BY StepTypes
<1>3. /\ limit \in Nat /\ limit <= P + W /\ (subscriber.pc # "idle" => Offset(P) <= O)
      /\ Offset(P) \in Nat /\ Count(P) \in Nat /\ P = Count(P) * TermLength + Offset(P)
      /\ subscriber \in [position : Nat, pc : {"idle", "loop", "type"}, offset : Nat, length : Nat]
  BY <1>2, StepTypes, PositionSplits DEF StepInv, LimitSound, IInv, TypeOK
<1>4. /\ subscriber'.position \in Nat /\ P <= subscriber'.position
      /\ subscriber'.pc # "idle" => subscriber'.position = P /\ Offset(P) <= subscriber'.offset
  <2>1. CASE ReadLength
    <3> DEFINE offset == IF subscriber.pc = "idle" THEN Offset(subscriber.position)
                                                   ELSE subscriber.offset
    <3>1. subscriber'.position = P /\ subscriber'.offset = offset
      BY <1>2, <1>3, <2>1 DEF ReadLength
    <3> QED BY <1>2, <1>3, <3>1
  <2>2. CASE ReadReturns
    <3>1. subscriber'.position = Count(P) * TermLength + O /\ subscriber'.pc = "idle"
      BY <1>2, <2>2 DEF ReadReturns
    <3>2. PICK x \in Nat : x = Count(P) * TermLength
      BY <1>3, StepTypes, ProductGrows
    <3>3. Offset(P) <= O
      BY <1>3, <2>2 DEF ReadReturns
    <3> QED BY <1>3, <3>1, <3>2, <3>3
  <2>3. CASE SkipPadding \/ HandleFragment
    <3>1. subscriber'.position = P /\ subscriber'.offset = O + L /\ subscriber.pc = "type"
      BY <1>2, <1>3, <2>3 DEF SkipPadding, HandleFragment
    <3> QED BY <1>3, <3>1
  <2> QED BY <2>1, <2>2, <2>3 DEF ReadStep
<1>5. LimitSound'
  <2>1. limit' <= subscriber'.position + Window
    BY <1>1, <1>2, <1>3, <1>4
  <2>2. subscriber'.pc # "idle" => Offset(subscriber'.position) <= subscriber'.offset
    BY <1>4
  <2> QED BY <2>1, <2>2 DEF LimitSound, Offset
<1> QED BY <1>1, <1>3, <1>5, LimitGrows

\* In a new log the terms are in step.
LEMMA StepInit == FewPublishers /\ Init => StepInv /\ ClaimsMade
<1> SUFFICES ASSUME FewPublishers, Init PROVE StepInv /\ ClaimsMade
  OBVIOUS
<1>1. IInv
  BY InitOK
<1>2. \A t \in Threads : thread[t] = Idle
  BY DEF Init
<1>3. Idle.pc = "idle" /\ Idle.claim = 0
  BY DEF Idle
<1>4. /\ TermOfPartition(0) = 0 /\ TermOfPartition(1) = -2 /\ TermOfPartition(2) = -1
      /\ \A i \in Partitions : raw_tail[i].term_offset = 0
  BY IdAssumption DEF Init, TermOfPartition, pack_tail, Partitions, PARTITION_COUNT
<1>5. TermsInStep
  <2>1. active_term_count = 0
    BY DEF Init
  <2>2. /\ index_by_term_count(0) = 0 /\ index_by_term_count(0 + 1) = 1
        /\ index_by_term_count(0 + 2) = 2
    BY DEF index_by_term_count, PARTITION_COUNT
  <2> QED BY <1>4, <2>1, <2>2 DEF TermsInStep, TermOfPartition
<1>6. NotFilled
  <2>1. ASSUME NEW i \in Partitions
        PROVE  raw_tail[i].term_offset <= Cardinality(Publishers \ Adders(i)) * Longest
    <3>1. PICK S : S = Publishers \ Adders(i)
      OBVIOUS
    <3>2. S \in SUBSET Publishers
      BY <3>1
    <3>3. Cardinality(S) * Longest \in Nat
      BY <3>2, Room
    <3> QED BY <1>4, <3>1, <3>3
  <2> QED BY <2>1 DEF NotFilled
<1>7. \A p \in Publishers : RotatesOpen(thread[p])
  BY <1>1, <1>2, <1>3, StepTypes DEF RotatesOpen, WillRotate, RotateSteps
<1>8. DriverSound(thread[Driver])
  BY <1>1, <1>2, <1>3, StepTypes DEF DriverSound
<1>9. \A t \in Threads : CountOwed(thread[t])
  BY <1>2, <1>3 DEF CountOwed
<1>10. LimitSound
  BY TermAssumption DEF Init, LimitSound
<1>11. ClaimsMade
  BY <1>2, <1>3 DEF ClaimsMade, Init
<1> QED BY <1>5, <1>6, <1>7, <1>8, <1>9, <1>10, <1>11 DEF StepInv

\* Each step keeps them in step.
LEMMA StepNext == FewPublishers /\ IInv /\ ClaimsMade /\ StepInv /\ [Next]_vars => StepInv'
<1> SUFFICES ASSUME FewPublishers, IInv, ClaimsMade, StepInv, [Next]_vars PROVE StepInv'
  OBVIOUS
<1>1. ASSUME NEW t \in Threads, RotateStep(t) PROVE StepInv'
  <2>1. CASE CompareAndSetNextTail(t) /\ raw_tail[NextIndex(t)] = thread[t].raw
    BY <2>1, NextTailReplaced
  <2>2. CASE CompareAndSetTermCount(t)
    BY <2>2, TermCountStored
  <2>3. CASE \/ RotationRefused(t) \/ LoadNextTail(t)
             \/ CompareAndSetNextTail(t) /\ raw_tail[NextIndex(t)] # thread[t].raw
    <3>1. CASE t = Driver
      BY <2>3, <3>1, DriverMoves
    <3>2. CASE t \in Publishers
      BY <2>3, <3>2, PublisherMoves
    <3> QED BY <3>1, <3>2 DEF Threads
  <2> QED BY <1>1, <2>1, <2>2, <2>3 DEF RotateStep
<1>2. ASSUME NEW p \in Publishers,
             (\E length \in FrameLengths : Offer(p, length)) \/ PublishStep(p) \/ Crash(p)
      PROVE  StepInv'
  BY <1>1, <1>2, PublisherStartsToAdd, PublisherAddsOnce, PublisherMoves DEF PublishStep, Threads
<1>3. CASE UnblockStep
  BY <1>1, <1>3, DriverLoadsTail, DriverMoves DEF UnblockStep, Threads
<1>4. CASE UNCHANGED vars
  <2>1. LimitSound'
    BY <1>4 DEF vars, log, StepInv, LimitSound
  <2> QED BY <1>4, <2>1, StepTypes, LimitGrows DEF vars, log, incidents
<1> QED BY <1>2, <1>3, <1>4, UnblockStarts, LimitUpdated, SubscriberMoves DEF Next

\* Whoever rotates, and whoever dies while rotating, the terms stay in step, for any number of
\* publishers that cannot fill a term with one frame each, any lengths, and any window up to a
\* term: rotate_log() with an old term count replaces no tail but that of the next term.
THEOREM TermsStayInStep ==
  ASSUME FewPublishers
  PROVE  Spec => []TermsInStep
<1>1. Init => IInv /\ ClaimsMade /\ StepInv
  BY InitOK, StepInit
<1>2. IInv /\ ClaimsMade /\ StepInv /\ [Next]_vars => (IInv /\ ClaimsMade /\ StepInv)'
  BY NextOK, ClaimsMadeStep, StepNext
<1>3. StepInv => TermsInStep
  BY DEF StepInv
<1> QED BY <1>1, <1>2, <1>3, PTL DEF Spec
-----------------------------------------------------------------------------
(* What is delivered.  While no publisher is so slow that its term was     *)
(* cleaned and the driver looked nowhere behind a term, each frame that    *)
(* the subscriber has still to read is as its claim left it.               *)

Excused == faults \cap {"late", "past_end"} # {}

\* Where a claim is: its term, where it begins and ends in it, and the header there.
TermCount(n) == Count(claims[n].position)
TermOffset(n) == Offset(claims[n].position)
EndOffset(n) == TermOffset(n) + claims[n].length
HeaderOf(n) == term[index_by_term_count(TermCount(n))][TermOffset(n)]

\* The first term that is not cleaned, and where the subscriber is.
Cleaned == Count(limit - Window)
ReadCount == Count(subscriber.position)
ReadOffset == IF subscriber.pc = "idle" THEN Offset(subscriber.position) ELSE subscriber.offset

\* A publisher that has a claim and has not finished it.
WriteSteps == {"claimed", "header", "payload", "abort"}
Writes(p, n) == thread[p].pc \in WriteSteps /\ thread[p].claim = n

\* The driver at a blocked frame, and the term of that.
PadSteps == {"default_header", "pad_type", "pad_length"}
BlockSteps == {"blocked_tail", "length", "negate", "forward", "back"} \cup PadSteps
Blocked == thread[Driver].pc \in BlockSteps
BlockedCount == TermOfPartition(thread[Driver].partition)

\* Claims of a term do not overlap and end before its tail.
Apart(m, n) ==
  TermCount(m) = TermCount(n) => EndOffset(m) <= TermOffset(n) \/ EndOffset(n) <= TermOffset(m)

ClaimsApart ==
  /\ \A n \in DOMAIN claims :
       LET i == index_by_term_count(TermCount(n))
       IN  /\ claims[n].position >= 0 /\ claims[n].length > 0 /\ EndOffset(n) <= TermLength
           /\ TermCount(n) <= TermOfPartition(i)
           /\ TermCount(n) = TermOfPartition(i) => EndOffset(n) <= raw_tail[i].term_offset
  /\ \A m, n \in DOMAIN claims : m # n => Apart(m, n)

\* Who adds to a tail adds to that of the term it loaded or of a later one.
AddersSound ==
  \A p \in Publishers : thread[p].pc = "add" =>
    /\ 0 <= thread[p].count
    /\ thread[p].count <= TermOfPartition(index_by_term_count(thread[p].count))

\* A place in a term that is no further than its tail and not inside a frame.
Reaches(count, offset) ==
  LET i == index_by_term_count(count)
  IN  /\ offset <= TermLength
      /\ offset > 0 => TermOfPartition(i) = count /\ offset <= raw_tail[i].term_offset
      /\ \A n \in DOMAIN claims : TermCount(n) = count => EndOffset(n) <= offset \/ offset <= TermOffset(n)

\* The subscriber is at such a place.  The terms behind it are full, the partitions
\* do not go round before it, and the terms are cleaned up to two behind it.
ReadPlace ==
  /\ Reaches(ReadCount, ReadOffset)
  /\ \A i \in Partitions : 0 <= TermOfPartition(i) /\ TermOfPartition(i) < ReadCount =>
       raw_tail[i].term_offset >= TermLength
  /\ \A i \in Partitions : TermOfPartition(i) <= ReadCount + 2
  /\ ReadCount <= active_term_count + 1
  /\ Window <= limit /\ ReadCount <= Cleaned + 2

\* The next term was begun within the limit, or by the driver.
NextByLimit ==
  \A i \in Partitions : TermOfPartition(i) = active_term_count + 1 =>
    \/ active_term_count <= Cleaned + 1
    \/ thread[Driver].pc = "rotate_count" /\ thread[Driver].count = active_term_count

\* The driver unblocks a claim that is not ahead of the subscriber, and rotates no
\* term that is.
DriverPlace ==
  LET d == thread[Driver]
  IN  /\ Blocked =>
           /\ \E n \in DOMAIN claims : TermCount(n) = BlockedCount /\ TermOffset(n) = d.offset
           /\ Cleaned <= BlockedCount /\ BlockedCount <= ReadCount
           /\ \A i \in Partitions : TermOfPartition(i) <= BlockedCount + 2
           /\ d.pc # "blocked_tail" => d.term_id - InitialTermId = BlockedCount
      /\ d.pc = "current_tail" => d.count + 1 <= ReadCount
      /\ d.pc \in {"rotate", "rotate_tail"} => d.term_id - InitialTermId <= ReadCount

\* A term that will be cleaned before it is used; a term that is left with room before
\* its end, so that the subscriber does not get past it; and one that is neither read,
\* nor to be cleaned, nor behind one with room.
Dirty(count) == Cleaned <= count - 3
Cut(count) ==
  LET i == index_by_term_count(count)
  IN  /\ 0 <= count /\ count < active_term_count
      /\ TermOfPartition(i) = count
      /\ raw_tail[i].term_offset <= Cardinality(Publishers \ Adders(i)) * Longest
Sound(count) == ReadCount <= count /\ ~ Dirty(count) /\ ~ Cut(count - 1)

\* A publisher that writes works at its own claim, which is not committed.
WritersSound ==
  /\ \A p \in Publishers : thread[p].pc \in WriteSteps =>
       LET n == thread[p].claim
       IN  /\ n \in DOMAIN claims /\ n \notin committed
           /\ thread[p].count = TermCount(n)
           /\ thread[p].partition = index_by_term_count(TermCount(n))
           /\ thread[p].offset = TermOffset(n)
           /\ thread[p].length = claims[n].length
           /\ Cleaned <= TermCount(n)
  /\ \A p, q \in Publishers :
       p # q /\ thread[p].pc \in WriteSteps /\ thread[q].pc \in WriteSteps => thread[p].claim # thread[q].claim
  /\ committed \subseteq DOMAIN claims

\* What is behind the beginnings of frames is empty.
UnclaimedEmpty ==
  \A count \in ReadCount .. ReadCount + 2, offset \in Offsets : Sound(count) =>
    LET h == term[index_by_term_count(count)][offset]
    IN  \/ h.length = 0 /\ h.claim = 0
        \/ \E n \in DOMAIN claims : TermCount(n) = count /\ TermOffset(n) = offset

\* The driver took these positions over, and so whole frames.
Taken(n, length) ==
  /\ claims[n].position .. claims[n].position + length - 1 \subseteq padded
  /\ Reaches(TermCount(n), TermOffset(n) + length)

\* The header of a claim: if the driver did not take it over, a length makes it final,
\* and it is that of data if and only if the claim was committed.
HeaderSound(n, h) ==
  /\ h.claim \in {0, n}
  /\ h.length < 0 => h.length = - claims[n].length
  /\ h.length > 0 => h.length = claims[n].length \/ Taken(n, h.length)
  /\ claims[n].position \notin padded =>
       /\ h.length > 0 => /\ h.length = claims[n].length
                          /\ \A p \in Publishers : ~ Writes(p, n)
                          /\ n \in committed <=> h.type = "DATA"
                          /\ h.type = "DATA" => h.claim = n
       /\ \A p \in Publishers : Writes(p, n) =>
            /\ thread[p].pc = "payload" => h.type = "DATA" /\ h.claim = n
            /\ thread[p].pc = "abort" => h.type = "PAD"

HeadersSound == \A n \in DOMAIN claims : Sound(TermCount(n)) => HeaderSound(n, HeaderOf(n))

\* The driver makes padding up to the beginning of a frame or to the tail.
DriverPads ==
  LET d == thread[Driver]
  IN  /\ d.pc = "forward" =>
           /\ d.offset < d.raw.term_offset /\ d.offset <= d.scan /\ d.scan <= TermLength
      /\ d.pc \in {"length", "forward"} /\ d.raw.term_offset <= TermLength =>
           Reaches(BlockedCount, d.raw.term_offset)
      /\ d.pc = "length" => d.offset < d.raw.term_offset
      /\ d.pc = "negate" /\ BlockedCount = ReadCount =>
           \A n \in DOMAIN claims : TermCount(n) = BlockedCount /\ TermOffset(n) = d.offset =>
             d.length = claims[n].length
      /\ d.pc \in {"back"} \cup PadSteps /\ BlockedCount = ReadCount =>
           d.length >= 0 /\ Reaches(BlockedCount, d.offset + d.length)
      /\ d.pc \in PadSteps /\ BlockedCount = ReadCount =>
           /\ d.length > 0
           /\ \A n \in DOMAIN claims : TermCount(n) = BlockedCount /\ TermOffset(n) = d.offset =>
                claims[n].position .. claims[n].position + d.length - 1 \subseteq padded

\* The subscriber goes on by a frame or by what the driver took over.
SubscriberSound ==
  subscriber.pc = "type" =>
    \E n \in DOMAIN claims :
      /\ TermCount(n) = ReadCount /\ TermOffset(n) = subscriber.offset
      /\ subscriber.length > 0
      /\ subscriber.length = claims[n].length \/ Taken(n, subscriber.length)
      /\ claims[n].position \notin padded =>
           subscriber.length = claims[n].length /\ HeaderOf(n).length > 0

\* Nobody writes in what it has passed, and what was committed there is handed over.
Passed(n) == TermCount(n) < ReadCount \/ (TermCount(n) = ReadCount /\ EndOffset(n) <= ReadOffset)
HandedOver(n) == \E i \in DOMAIN delivered : delivered[i].claim = n
PassedSound ==
  \A n \in DOMAIN claims : Passed(n) /\ claims[n].position \notin padded =>
    /\ \A p \in Publishers : ~ Writes(p, n)
    /\ n \in committed => HandedOver(n)

\* The handler gets claims in the order of their positions, with no position twice.
DeliveredSound ==
  /\ \A i \in DOMAIN delivered :
       /\ delivered[i].claim > 0 => /\ delivered[i].claim \in DOMAIN claims
                                    /\ claims[delivered[i].claim].position = delivered[i].position
       /\ delivered[i].position < ReadCount * TermLength + ReadOffset
       /\ delivered[i].claim \in committed \/ delivered[i].position \in padded
  /\ \A i, j \in DOMAIN delivered : i < j => delivered[i].position < delivered[j].position

\* Where the threads and the subscriber are, and what is in the headers there.
PlacesSound == ClaimsApart /\ AddersSound /\ ReadPlace /\ NextByLimit /\ DriverPlace
FramesSound == WritersSound /\ UnclaimedEmpty /\ HeadersSound /\ SubscriberSound
ReadSound == PassedSound /\ DeliveredSound

AllSound == PlacesSound /\ FramesSound /\ DriverPads /\ ReadSound

DeliveryInv == Excused \/ AllSound

\* What is known before a step.
Known == IInv /\ ClaimsMade /\ StepInv /\ AllSound

\* A term and an offset make one position.
LEMMA PositionOf ==
  ASSUME NEW c \in Nat, NEW o \in Nat, o < TermLength
  PROVE  c * TermLength + o \in Nat /\ Count(c * TermLength + o) = c /\ Offset(c * TermLength + o) = o
<1>1. PICK T, x \in Nat : T = TermLength /\ x = c * T
  BY TermAssumption
<1>2. PICK P \in Nat : P = c * TermLength + o
  BY <1>1
<1>3. PICK d, e \in Nat : d = Count(P) /\ e = Offset(P) /\ P = d * TermLength + e /\ e < TermLength
  BY PositionSplits
<1>4. PICK y \in Nat : y = d * T
  OBVIOUS
<1>5. x + o = y + e /\ o < T /\ e < T
  BY <1>1, <1>2, <1>3, <1>4
<1>6. c < d => x + T <= y
  BY <1>1, <1>4, TermsApart
<1>7. d < c => y + T <= x
  BY <1>1, <1>4, TermsApart
<1>8. c = d
  BY <1>5, <1>6, <1>7
<1>9. o = e
  BY <1>1, <1>4, <1>5, <1>8
<1> QED BY <1>2, <1>3, <1>8, <1>9

\* A later position is in no earlier term.
LEMMA CountGrows ==
  ASSUME NEW x \in Nat, NEW y \in Nat, x <= y
  PROVE  Count(x) <= Count(y)
<1>1. PICK T \in Nat : T = TermLength
  BY TermAssumption
<1>2. PICK c, d, e, f \in Nat : /\ c = Count(x) /\ d = Count(y)
                                /\ x = c * T + e /\ y = d * T + f /\ e < T /\ f < T
  BY <1>1, PositionSplits
<1>3. PICK u, v \in Nat : u = c * T /\ v = d * T
  OBVIOUS
<1>4. d < c => v + T <= u
  BY <1>1, <1>3, TermsApart
<1> QED BY <1>2, <1>3, <1>4

\* What holds of every index of a term count.
LEMMA SameIndex ==
  /\ \A c \in Int : index_by_term_count(c) \in Partitions
  /\ \A c, d \in Int : index_by_term_count(c) = index_by_term_count(d) => c = d \/ c <= d - 3 \/ d <= c - 3
  /\ \A c \in Int : index_by_term_count(c - 3) = index_by_term_count(c)
  /\ \A c \in Int, i \in Partitions : c % 3 = i <=> index_by_term_count(c) = i
<1>1. \A c \in Int : index_by_term_count(c) \in Partitions /\ index_by_term_count(c) = c % 3
  BY IndexIs
<1>2. \A c, d \in Int : c % 3 = d % 3 => c = d \/ c <= d - 3 \/ d <= c - 3
  OBVIOUS
<1>3. \A c \in Int : (c - 3) % 3 = c % 3
  OBVIOUS
<1> QED BY <1>1, <1>2, <1>3

\* The types that the proofs need of the claims.
LEMMA ClaimTypes ==
  ASSUME IInv, ClaimsApart, NEW n \in DOMAIN claims
  PROVE  /\ n \in Nat /\ n > 0 /\ n <= Len(claims) /\ Len(claims) \in Nat /\ claims[n] \in Claim
         /\ claims[n].position \in Nat /\ claims[n].length \in Nat /\ claims[n].length > 0
         /\ TermCount(n) \in Nat /\ TermCount(n) \in Int /\ TermOffset(n) \in Nat /\ TermOffset(n) \in Offsets
         /\ TermOffset(n) < TermLength
         /\ EndOffset(n) = TermOffset(n) + claims[n].length
         /\ EndOffset(n) \in Nat /\ TermOffset(n) < EndOffset(n) /\ EndOffset(n) <= TermLength
         /\ claims[n].position = TermCount(n) * TermLength + TermOffset(n)
         /\ index_by_term_count(TermCount(n)) \in Partitions
         /\ HeaderOf(n) \in Header
<1>1. claims \in Seq(Claim)
  BY DEF IInv, TypeOK
<1>2. n \in Nat /\ n > 0 /\ n <= Len(claims) /\ Len(claims) \in Nat /\ claims[n] \in Claim
  BY <1>1
<1>3. /\ claims[n].position \in Nat /\ claims[n].length \in Nat /\ claims[n].length > 0
      /\ EndOffset(n) <= TermLength
  BY <1>2 DEF ClaimsApart, Claim
<1>4. /\ TermCount(n) \in Nat /\ TermOffset(n) \in Nat /\ TermOffset(n) < TermLength
      /\ claims[n].position = TermCount(n) * TermLength + TermOffset(n)
  BY <1>3, PositionSplits DEF TermCount, TermOffset
<1>5. TermOffset(n) \in Offsets
  BY <1>3, Quotient DEF TermOffset
<1>6. index_by_term_count(TermCount(n)) \in Partitions
  BY <1>4, SameIndex
<1>7. HeaderOf(n) \in Header
  BY <1>5, <1>6 DEF HeaderOf, IInv, TypeOK
<1> QED BY <1>2, <1>3, <1>4, <1>5, <1>6, <1>7 DEF EndOffset

\* The types of the terms that are read and cleaned.
LEMMA PlaceTypes ==
  ASSUME IInv, StepInv, Window <= limit
  PROVE  /\ ReadCount \in Nat /\ ReadOffset \in Nat /\ Cleaned \in Nat /\ Cleaned <= ReadCount
         /\ subscriber.position \in Nat /\ Offset(subscriber.position) \in Nat
         /\ Offset(subscriber.position) < TermLength
         /\ subscriber.position = ReadCount * TermLength + Offset(subscriber.position)
         /\ limit - Window \in Nat
         /\ index_by_term_count(ReadCount) \in Partitions
<1>1. PICK l, w, P \in Nat : l = limit /\ w = Window /\ P = subscriber.position
  BY StepTypes
<1>2. w <= l /\ l <= P + w
  BY <1>1 DEF StepInv, LimitSound
<1>3. limit - Window \in Nat /\ limit - Window <= P
  BY <1>1, <1>2
<1>4. Cleaned <= ReadCount
  BY <1>1, <1>3, CountGrows DEF Cleaned, ReadCount
<1>5. Cleaned \in Nat /\ ReadCount \in Nat
  BY <1>1, <1>3, PositionSplits DEF Cleaned, ReadCount
<1>6. /\ Offset(subscriber.position) \in Nat /\ Offset(subscriber.position) < TermLength
      /\ subscriber.position = ReadCount * TermLength + Offset(subscriber.position)
  BY <1>1, PositionSplits DEF ReadCount
<1>7. ReadOffset \in Nat
  BY <1>6, StepTypes DEF ReadOffset
<1> QED BY <1>1, <1>3, <1>4, <1>5, <1>6, <1>7, SameIndex

\* A term within the limit is at most the next after the first that is not cleaned.
LEMMA WithinLimit ==
  ASSUME IInv, Window <= limit, NEW c \in Int, c * TermLength < limit
  PROVE  c <= Cleaned + 1
<1>1. PICK T, l, w, q \in Nat : T = TermLength /\ l = limit /\ w = Window /\ q = limit - Window
  BY StepTypes
<1>2. q = l - w /\ w <= T
  BY <1>1, StepTypes
<1>3. PICK d, e \in Nat : d = Cleaned /\ q = d * T + e /\ e < T
  BY <1>1, PositionSplits DEF Cleaned
<1>4. SUFFICES ASSUME d + 1 < c PROVE FALSE
  BY <1>3
<1>5. PICK x, y, z \in Int : x = c * T /\ y = (d + 1) * T /\ z = d * T
  OBVIOUS
<1>6. y + T <= x
  BY <1>1, <1>4, <1>5, TermsApart
<1>7. y = z + T
  BY <1>5
<1> QED BY <1>1, <1>2, <1>3, <1>5, <1>6, <1>7

\* The types before a step.
LEMMA KnownTypes ==
  ASSUME Known
  PROVE  /\ ReadCount \in Nat /\ ReadOffset \in Nat /\ Cleaned \in Nat /\ Cleaned <= ReadCount
         /\ ReadCount <= Cleaned + 2 /\ Window <= limit
         /\ active_term_count \in Nat /\ TermLength \in Nat /\ TermLength # 0 /\ InitialTermId \in Int
         /\ Driver \in Threads /\ Driver \notin Publishers /\ thread \in [Threads -> Locals]
         /\ raw_tail \in [Partitions -> PackedTail]
         /\ \A t \in Threads : /\ thread[t] \in Locals
                               /\ thread[t].count \in Int /\ thread[t].term_id \in Int
                               /\ thread[t].partition \in Partitions
                               /\ thread[t].offset \in Offsets /\ thread[t].offset \in Nat
                               /\ thread[t].length \in Int /\ thread[t].claim \in Nat
                               /\ thread[t].scan \in Int /\ thread[t].raw \in PackedTail
                               /\ thread[t].raw.term_offset \in Nat
         /\ \A p \in Publishers : p \in Threads
         /\ \A i \in Partitions : /\ TermOfPartition(i) \in Int /\ raw_tail[i].term_offset \in Nat
                                  /\ TermOfPartition(i) <= ReadCount + 2
                                  /\ index_by_term_count(TermOfPartition(i)) = i
<1>1. IInv /\ StepInv /\ ReadPlace
  BY DEF Known, AllSound, PlacesSound
<1>2. Window <= limit /\ ReadCount <= Cleaned + 2 /\ \A i \in Partitions : TermOfPartition(i) <= ReadCount + 2
  BY <1>1 DEF ReadPlace
<1>3. ASSUME NEW i \in Partitions
      PROVE  /\ TermOfPartition(i) \in Int /\ raw_tail[i].term_offset \in Nat
             /\ index_by_term_count(TermOfPartition(i)) = i
  BY <1>1, StepTypes, SameIndex
<1>4. ASSUME NEW t \in Threads
      PROVE  /\ thread[t] \in Locals
             /\ thread[t].count \in Int /\ thread[t].term_id \in Int
             /\ thread[t].partition \in Partitions
             /\ thread[t].offset \in Offsets /\ thread[t].offset \in Nat
             /\ thread[t].length \in Int /\ thread[t].claim \in Nat
             /\ thread[t].scan \in Int /\ thread[t].raw \in PackedTail
             /\ thread[t].raw.term_offset \in Nat
  <2>1. thread[t] \in Locals
    BY <1>1, StepTypes
  <2> QED BY <2>1, TermAssumption DEF Locals, PackedTail, Offsets
<1>5. /\ active_term_count \in Nat /\ TermLength \in Nat /\ TermLength # 0 /\ InitialTermId \in Int
      /\ Driver \in Threads /\ Driver \notin Publishers /\ thread \in [Threads -> Locals]
      /\ raw_tail \in [Partitions -> PackedTail] /\ \A p \in Publishers : p \in Threads
  BY <1>1, StepTypes
<1>6. ReadCount \in Nat /\ ReadOffset \in Nat /\ Cleaned \in Nat /\ Cleaned <= ReadCount
  BY <1>1, <1>2, PlaceTypes
<1> QED BY <1>2, <1>3, <1>4, <1>5, <1>6

\* The types of the claims before a step.
LEMMA KnownClaims ==
  ASSUME Known, NEW n \in DOMAIN claims
  PROVE  /\ n \in Nat /\ n > 0 /\ n <= Len(claims) /\ Len(claims) \in Nat /\ claims[n] \in Claim
         /\ claims[n].position \in Nat /\ claims[n].length \in Nat /\ claims[n].length > 0
         /\ TermCount(n) \in Nat /\ TermCount(n) \in Int /\ TermOffset(n) \in Nat /\ TermOffset(n) \in Offsets
         /\ TermOffset(n) < TermLength
         /\ EndOffset(n) = TermOffset(n) + claims[n].length
         /\ EndOffset(n) \in Nat /\ TermOffset(n) < EndOffset(n) /\ EndOffset(n) <= TermLength
         /\ claims[n].position = TermCount(n) * TermLength + TermOffset(n)
         /\ index_by_term_count(TermCount(n)) \in Partitions
         /\ HeaderOf(n) \in Header
         /\ TermCount(n) <= TermOfPartition(index_by_term_count(TermCount(n)))
         /\ TermCount(n) <= ReadCount + 2
<1>1. IInv /\ ClaimsApart
  BY DEF Known, AllSound, PlacesSound
<1>2. index_by_term_count(TermCount(n)) \in Partitions /\ TermCount(n) \in Nat
  BY <1>1, ClaimTypes
<1>3. TermCount(n) <= TermOfPartition(index_by_term_count(TermCount(n)))
  BY <1>1 DEF ClaimsApart
<1>4. TermCount(n) <= ReadCount + 2
  BY <1>2, <1>3, KnownTypes
<1> QED BY <1>1, <1>3, <1>4, ClaimTypes

\* A claim that is not behind the subscriber is in the term of its partition.
LEMMA ClaimCurrent ==
  ASSUME Known, NEW n \in DOMAIN claims, ReadCount <= TermCount(n)
  PROVE  TermOfPartition(index_by_term_count(TermCount(n))) = TermCount(n)
<1>1. PICK c \in Nat, i \in Partitions : c = TermCount(n) /\ i = index_by_term_count(c)
  BY KnownClaims
<1>2. PICK d \in Int : d = TermOfPartition(i) /\ index_by_term_count(d) = i /\ d <= ReadCount + 2
  BY KnownTypes
<1>3. c <= d
  BY <1>1, <1>2, KnownClaims
<1>4. c = d \/ c <= d - 3 \/ d <= c - 3
  BY <1>1, <1>2, SameIndex
<1>5. ReadCount \in Nat
  BY KnownTypes
<1> QED BY <1>1, <1>2, <1>3, <1>4, <1>5

\* A frame begins and ends at places that are in no other.
LEMMA FrameReaches ==
  ASSUME Known, NEW n \in DOMAIN claims,
         TermOfPartition(index_by_term_count(TermCount(n))) = TermCount(n)
  PROVE  Reaches(TermCount(n), TermOffset(n)) /\ Reaches(TermCount(n), EndOffset(n))
<1>1. PICK c \in Nat, i \in Partitions, o, e \in Nat :
        c = TermCount(n) /\ i = index_by_term_count(c) /\ o = TermOffset(n) /\ e = EndOffset(n)
  BY KnownClaims
<1>2. o < e /\ e <= TermLength /\ TermLength \in Nat
  BY <1>1, KnownClaims, KnownTypes
<1>3. e <= raw_tail[i].term_offset /\ raw_tail[i].term_offset \in Nat
  BY <1>1, KnownTypes DEF Known, AllSound, PlacesSound, ClaimsApart
<1>4. ASSUME NEW m \in DOMAIN claims, TermCount(m) = c
      PROVE  /\ EndOffset(m) <= o \/ o <= TermOffset(m)
             /\ EndOffset(m) <= e \/ e <= TermOffset(m)
  <2>1. CASE m = n
    BY <1>1, <1>2, <2>1
  <2>2. CASE m # n
    <3>1. EndOffset(m) <= TermOffset(n) \/ EndOffset(n) <= TermOffset(m)
      BY <1>1, <1>4, <2>2 DEF Known, AllSound, PlacesSound, ClaimsApart, Apart
    <3>2. PICK x, y \in Nat : x = TermOffset(m) /\ y = EndOffset(m)
      BY KnownClaims
    <3> QED BY <1>1, <1>2, <3>1, <3>2
  <2> QED BY <2>1, <2>2
<1> QED BY <1>1, <1>2, <1>3, <1>4 DEF Reaches

\* The tail of a term is at the end of all its frames.
LEMMA TailReaches ==
  ASSUME Known, NEW i \in Partitions, raw_tail[i].term_offset <= TermLength
  PROVE  Reaches(TermOfPartition(i), raw_tail[i].term_offset)
<1>1. TermOfPartition(i) \in Int /\ raw_tail[i].term_offset \in Nat
      /\ index_by_term_count(TermOfPartition(i)) = i
  BY KnownTypes
<1>2. ASSUME NEW m \in DOMAIN claims, TermCount(m) = TermOfPartition(i)
      PROVE  EndOffset(m) <= raw_tail[i].term_offset
  BY <1>1, <1>2 DEF Known, AllSound, PlacesSound, ClaimsApart
<1> QED BY <1>1, <1>2 DEF Reaches

\* No two claims begin at one place.
LEMMA OnePlace ==
  ASSUME Known, NEW m \in DOMAIN claims, NEW n \in DOMAIN claims,
         TermCount(m) = TermCount(n), TermOffset(m) = TermOffset(n)
  PROVE  m = n
<1>1. SUFFICES ASSUME m # n PROVE FALSE
  OBVIOUS
<1>2. EndOffset(m) <= TermOffset(n) \/ EndOffset(n) <= TermOffset(m)
  BY <1>1 DEF Known, AllSound, PlacesSound, ClaimsApart, Apart
<1> QED BY <1>2, KnownClaims

\* A term with no room before its end is neither ahead of the active term nor behind the limit.
LEMMA FullTerm ==
  ASSUME RoomLeft, Known, NEW i \in Partitions, raw_tail[i].term_offset >= TermLength
  PROVE  /\ TermOfPartition(i) <= active_term_count /\ TermOfPartition(i) <= Cleaned + 1
         /\ ~ raw_tail[i].term_offset <= Cardinality(Publishers \ Adders(i)) * Longest
<1>1. FewPublishers
  BY RoomForFew
<1>2. PICK S : S = Publishers \ Adders(i)
  OBVIOUS
<1>3. PICK x, y \in Nat : x = Cardinality(S) * Longest /\ y = Cardinality(Publishers) * Longest /\ x <= y
  <2>1. S \in SUBSET Publishers /\ Publishers \in SUBSET Publishers /\ S \subseteq Publishers
    BY <1>2
  <2> QED BY <1>1, <2>1, Room
<1>4. y < TermLength
  BY <1>1, <1>3, LongestFrame
<1>5. ~ raw_tail[i].term_offset <= Cardinality(Publishers \ Adders(i)) * Longest
  BY <1>2, <1>3, <1>4, KnownTypes
<1>6. ~ Closed(i)
  BY <1>5 DEF Known, StepInv, NotFilled
<1>7. PICK c \in Int : c = TermOfPartition(i)
  BY KnownTypes
<1>8. c <= active_term_count
  BY <1>6, <1>7, KnownTypes DEF Closed
<1>9. c * TermLength < limit
  <2>1. PICK z \in Int : z = c * TermLength
    BY KnownTypes
  <2>2. limit \in Nat
    BY StepTypes DEF Known
  <2> QED BY <1>6, <1>7, <2>1, <2>2 DEF Closed
<1>10. c <= Cleaned + 1
  BY <1>9, KnownTypes, WithinLimit DEF Known
<1> QED BY <1>5, <1>7, <1>8, <1>10

\* The term that is read is sound.
LEMMA ReadTermSound ==
  ASSUME RoomLeft, Known
  PROVE  Sound(ReadCount)
<1>1. ReadCount \in Nat /\ Cleaned \in Nat /\ ReadCount <= Cleaned + 2
  BY KnownTypes
<1>2. ~ Dirty(ReadCount)
  BY <1>1 DEF Dirty
<1>3. ~ Cut(ReadCount - 1)
  <2>1. SUFFICES ASSUME Cut(ReadCount - 1) PROVE FALSE
    OBVIOUS
  <2>2. PICK c \in Int, i \in Partitions : c = ReadCount - 1 /\ i = index_by_term_count(c)
    BY <1>1, SameIndex
  <2>3. /\ 0 <= c /\ TermOfPartition(i) = c
        /\ raw_tail[i].term_offset <= Cardinality(Publishers \ Adders(i)) * Longest
    BY <2>1, <2>2 DEF Cut
  <2>4. c < ReadCount
    BY <1>1, <2>2
  <2>5. raw_tail[i].term_offset >= TermLength
    BY <2>3, <2>4 DEF Known, AllSound, PlacesSound, ReadPlace
  <2> QED BY <2>3, <2>5, FullTerm
<1> QED BY <1>1, <1>2, <1>3 DEF Sound

\* A sound term shares its partition with no other that is not cleaned.
LEMMA OneTerm ==
  ASSUME Known, NEW u \in Int, NEW c \in Int, Sound(u), Cleaned <= c, c <= ReadCount + 2,
         index_by_term_count(u) = index_by_term_count(c)
  PROVE  u = c
<1>1. u = c \/ u <= c - 3 \/ c <= u - 3
  BY SameIndex
<1>2. ReadCount <= u /\ ~ Cleaned <= u - 3
  BY DEF Sound, Dirty
<1> QED BY <1>1, <1>2, KnownTypes

\* A sound claim shares its header with no other that is not cleaned.
LEMMA OneHeader ==
  ASSUME Known, NEW m \in DOMAIN claims, NEW n \in DOMAIN claims, Cleaned <= TermCount(m),
         Sound(TermCount(n)), index_by_term_count(TermCount(n)) = index_by_term_count(TermCount(m)),
         TermOffset(n) = TermOffset(m)
  PROVE  n = m
<1>1. TermCount(n) = TermCount(m)
  BY KnownClaims, OneTerm
<1> QED BY <1>1, OnePlace

\* Where the driver unblocks.
LEMMA BlockedPlace ==
  ASSUME Known, Blocked
  PROVE  \E m \in DOMAIN claims :
           /\ TermCount(m) = BlockedCount /\ TermOffset(m) = thread[Driver].offset
           /\ thread[Driver].partition = index_by_term_count(TermCount(m))
           /\ Cleaned <= TermCount(m) /\ TermCount(m) <= ReadCount /\ BlockedCount \in Nat
           /\ TermOfPartition(index_by_term_count(TermCount(m))) = TermCount(m)
<1>1. PICK m \in DOMAIN claims : TermCount(m) = BlockedCount /\ TermOffset(m) = thread[Driver].offset
  BY DEF Known, AllSound, PlacesSound, DriverPlace
<1>2. Cleaned <= BlockedCount /\ BlockedCount <= ReadCount
  BY DEF Known, AllSound, PlacesSound, DriverPlace
<1>3. thread[Driver].partition = index_by_term_count(BlockedCount)
  BY KnownTypes DEF BlockedCount
<1>4. BlockedCount \in Nat
  BY <1>1, KnownClaims
<1> QED BY <1>1, <1>2, <1>3, <1>4 DEF BlockedCount

\* What a step that does not move the limit leaves as it is: claims, places in terms that are
\* not behind the subscriber or the driver, and which terms are not sound.  New claims are behind
\* the others of their terms.
Onward ==
  /\ \A n \in DOMAIN claims : n \in DOMAIN claims' /\ claims'[n] = claims[n]
  /\ \A c \in Int, o \in Nat :
       (ReadCount <= c \/ (Blocked /\ c = BlockedCount)) /\ Reaches(c, o) => Reaches(c, o)'
  /\ \A n \in DOMAIN claims' : n \notin DOMAIN claims =>
       \A m \in DOMAIN claims : TermCount(m) = TermCount(n)' => EndOffset(m) <= TermOffset(n)'
  /\ \A c \in Int : Sound(c)' => Sound(c)
  /\ limit' = limit /\ padded \subseteq padded' /\ ReadCount <= ReadCount' /\ ReadCount' \in Nat

\* A cut term remains so if its tail does.
LEMMA SoundStays ==
  ASSUME RoomLeft, Known, limit' = limit, ReadCount <= ReadCount', ReadCount' \in Nat,
         active_term_count <= active_term_count', active_term_count' \in Nat,
         \A i \in Partitions :
           /\ ReadCount <= TermOfPartition(i) /\ TermOfPartition(i) < active_term_count
           /\ raw_tail[i].term_offset <= Cardinality(Publishers \ Adders(i)) * Longest
           => /\ TermOfPartition(i)' = TermOfPartition(i)
              /\ raw_tail'[i].term_offset <= Cardinality(Publishers \ Adders(i)') * Longest
  PROVE  \A c \in Int : Sound(c)' => Sound(c)
<1>1. SUFFICES ASSUME NEW c \in Int, ReadCount' <= c, ~ Dirty(c)', Cut(c - 1) PROVE Cut(c - 1)'
  <2>1. ASSUME NEW c \in Int, Sound(c)' PROVE Sound(c)
    <3>1. ReadCount' <= c /\ ~ Dirty(c)' /\ ~ Cut(c - 1)'
      BY <2>1 DEF Sound
    <3>2. ~ Cut(c - 1)
      BY <1>1, <3>1
    <3>3. ~ Dirty(c)
      BY <3>1 DEF Dirty, Cleaned
    <3>4. ReadCount <= c
      BY <3>1, KnownTypes
    <3> QED BY <3>2, <3>3, <3>4 DEF Sound
  <2> QED BY <2>1
<1>2. PICK u \in Int, i \in Partitions : u = c - 1 /\ i = index_by_term_count(u)
  BY SameIndex
<1>3. /\ 0 <= u /\ u < active_term_count /\ TermOfPartition(i) = u
      /\ raw_tail[i].term_offset <= Cardinality(Publishers \ Adders(i)) * Longest
  BY <1>1, <1>2 DEF Cut
<1>4. ReadCount <= u
  <2>1. SUFFICES ASSUME u < ReadCount PROVE FALSE
    BY <1>2, KnownTypes
  <2>2. raw_tail[i].term_offset >= TermLength
    BY <1>3, <2>1 DEF Known, AllSound, PlacesSound, ReadPlace
  <2> QED BY <1>3, <2>2, FullTerm
<1>5. /\ TermOfPartition(i)' = u
      /\ raw_tail'[i].term_offset <= Cardinality(Publishers \ Adders(i)') * Longest
  BY <1>3, <1>4
<1>6. u < active_term_count'
  BY <1>2, <1>3, KnownTypes
<1> QED BY <1>2, <1>3, <1>5, <1>6 DEF Cut, index_by_term_count

\* The fewer add to a tail, the more room the bound on it leaves.
LEMMA FewerAdd ==
  ASSUME RoomLeft, Known, NEW i \in Partitions, Adders(i)' \subseteq Adders(i),
         raw_tail[i].term_offset <= Cardinality(Publishers \ Adders(i)) * Longest
  PROVE  raw_tail[i].term_offset <= Cardinality(Publishers \ Adders(i)') * Longest
<1>1. PICK S, T : S = Publishers \ Adders(i) /\ T = Publishers \ Adders(i)'
  OBVIOUS
<1>2. S \in SUBSET Publishers /\ T \in SUBSET Publishers /\ S \subseteq T
  BY <1>1
<1>3. PICK x, y \in Nat : x = Cardinality(S) * Longest /\ y = Cardinality(T) * Longest /\ x <= y
  BY <1>2, Room, RoomForFew
<1>4. raw_tail[i].term_offset \in Nat
  BY KnownTypes
<1> QED BY <1>1, <1>3, <1>4

\* A step that moves neither tails nor the limit, claims nothing, and lets nobody begin to add.
Keeps ==
  /\ UNCHANGED << raw_tail, claims, limit >>
  /\ active_term_count <= active_term_count' /\ active_term_count' \in Nat
  /\ \A p \in Publishers : thread'[p].pc = "add" =>
       thread[p].pc = "add" /\ thread'[p].count = thread[p].count
  /\ padded \subseteq padded'

\* It goes onward.
LEMMA OnwardKept ==
  ASSUME RoomLeft, Known, Keeps, ReadCount <= ReadCount', ReadCount' \in Nat
  PROVE  Onward
<1>1. \A i : TermOfPartition(i)' = TermOfPartition(i)
  BY DEF Keeps, TermOfPartition
<1>2. \A i \in Partitions : Adders(i)' \subseteq Adders(i)
  BY DEF Keeps, Adders
<1>3. \A c \in Int : Sound(c)' => Sound(c)
  <2>1. ASSUME NEW i \in Partitions,
               raw_tail[i].term_offset <= Cardinality(Publishers \ Adders(i)) * Longest
        PROVE  /\ TermOfPartition(i)' = TermOfPartition(i)
               /\ raw_tail'[i].term_offset <= Cardinality(Publishers \ Adders(i)') * Longest
    BY <1>1, <1>2, <2>1, FewerAdd DEF Keeps
  <2> QED BY <2>1, SoundStays DEF Keeps
<1>4. \A c \in Int, o \in Nat : Reaches(c, o) => Reaches(c, o)'
  BY DEF Keeps, Reaches, TermOfPartition, TermCount, TermOffset, EndOffset, Count, Offset,
         index_by_term_count
<1> QED BY <1>3, <1>4 DEF Onward, Keeps

\* Who begins to add does so in the active term, which is not cut.
LEMMA OnwardOffer ==
  ASSUME RoomLeft, Known, NEW p \in Publishers, NEW length \in FrameLengths, Offer(p, length)
  PROVE  Onward
<1>1. /\ UNCHANGED << raw_tail, claims, limit, active_term_count, padded, subscriber >>
      /\ thread' = [thread EXCEPT ![p].pc = "add", ![p].count = active_term_count, ![p].length = length]
  BY DEF Offer, log, history
<1>2. PICK a \in Nat : a = active_term_count
  BY KnownTypes
<1>3. TermOfPartition(index_by_term_count(a)) = a /\ index_by_term_count(a) = a % 3
  BY <1>2, InStep, IndexIs DEF Known, StepInv
<1>4. ReadCount' = ReadCount /\ ReadCount \in Nat
  BY <1>1, KnownTypes DEF ReadCount
<1>5. ASSUME NEW i \in Partitions, i # index_by_term_count(a) PROVE Adders(i)' \subseteq Adders(i)
  <2>1. ASSUME NEW q \in Publishers, thread'[q].pc = "add", index_by_term_count(thread'[q].count) = i
        PROVE  thread[q].pc = "add" /\ index_by_term_count(thread[q].count) = i
    <3>1. p \in Threads /\ q \in Threads /\ thread[p] \in Locals /\ thread \in [Threads -> Locals]
      BY KnownTypes
    <3>2. thread'[p].count = a
      BY <1>1, <1>2, <3>1 DEF Locals
    <3>3. q # p
      BY <1>5, <2>1, <3>2
    <3> QED BY <1>1, <2>1, <3>1, <3>3
  <2> QED BY <2>1 DEF Adders
<1>6. \A c \in Int : Sound(c)' => Sound(c)
  <2>1. ASSUME NEW i \in Partitions, TermOfPartition(i) < active_term_count,
               raw_tail[i].term_offset <= Cardinality(Publishers \ Adders(i)) * Longest
        PROVE  /\ TermOfPartition(i)' = TermOfPartition(i)
               /\ raw_tail'[i].term_offset <= Cardinality(Publishers \ Adders(i)') * Longest
    <3>1. i # index_by_term_count(a)
      BY <1>2, <1>3, <2>1
    <3> QED BY <1>1, <1>5, <2>1, <3>1, FewerAdd DEF TermOfPartition
  <2> QED BY <1>1, <1>2, <1>4, <2>1, SoundStays
<1>7. \A c \in Int, o \in Nat : Reaches(c, o) => Reaches(c, o)'
  BY <1>1 DEF Reaches, TermOfPartition, TermCount, TermOffset, EndOffset, Count, Offset,
         index_by_term_count
<1> QED BY <1>1, <1>4, <1>6, <1>7 DEF Onward

\* A claim stays where it is.
LEMMA ClaimsStay ==
  ASSUME NEW n \in DOMAIN claims, claims'[n] = claims[n]
  PROVE  /\ TermCount(n)' = TermCount(n) /\ TermOffset(n)' = TermOffset(n)
         /\ EndOffset(n)' = EndOffset(n)
BY DEF TermCount, TermOffset, EndOffset, Count, Offset

\* A frame is claimed at the tail, or the tail is behind the end of the term.
Added(p, i, o, l, c, k, r) ==
  /\ i = index_by_term_count(thread[p].count) /\ o = raw_tail[i].term_offset
  /\ l = thread[p].length /\ l >= 1 /\ c = TermOfPartition(i)
  /\ raw_tail'[i].term_offset = o + l
  /\ \A j \in Partitions : j # i => raw_tail'[j] = raw_tail[j]
  /\ \A j \in Partitions : TermOfPartition(j)' = TermOfPartition(j)
  /\ thread' = [thread EXCEPT ![p] = r]
  /\ \A j : Adders(j)' \subseteq Adders(j)
  /\ o <= Cardinality(Publishers \ Adders(i)) * Longest =>
       o + l <= Cardinality(Publishers \ Adders(i)') * Longest
  /\ \/ o >= TermLength /\ UNCHANGED claims /\ r.pc = "rotate"
     \/ /\ o < TermLength /\ ReadCount <= c /\ 0 < k /\ k <= l /\ o + k <= TermLength
        /\ claims' = Append(claims, [position |-> c * TermLength + o, length |-> k])
        /\ r.pc = "claimed" /\ r.count = c /\ r.partition = i /\ r.offset = o /\ r.length = k
        /\ r.claim = Len(claims) + 1

\* A publisher that adds to a tail claims at it in a term that is not behind the subscriber, or
\* finds it behind the end of its term.
LEMMA AddFacts ==
  ASSUME RoomLeft, Known, NEW p \in Publishers, AddToTail(p)
  PROVE  \E i \in Partitions, o \in Nat, l \in Nat, c \in Nat, k \in Nat, r \in Locals : Added(p, i, o, l, c, k, r)
<1>1. /\ p \in Threads /\ thread[p] \in Locals /\ thread \in [Threads -> Locals]
      /\ raw_tail \in [Partitions -> PackedTail] /\ thread[p].count \in Int
  BY KnownTypes
<1>2. thread[p].pc = "add" /\ thread[p].length \in FrameLengths
  BY <1>1 DEF AddToTail, Known, IInv, ThreadsSound
<1>3. PICK i \in Partitions : i = index_by_term_count(thread[p].count)
  BY <1>1, SameIndex
<1>4. PICK o, l, T, L \in Nat : /\ o = raw_tail[i].term_offset /\ l = thread[p].length
                                /\ T = TermLength /\ L = Longest
  <2>1. thread[p].length \in Nat
    <3>1. thread[p].length \in 1 .. TermLength /\ TermLength \in Nat
      BY <1>2, LengthsAssumption, TermAssumption
    <3> QED BY <3>1
  <2> QED BY <2>1, KnownTypes, LongestFrame, RoomForFew
<1>5. l <= L /\ 1 <= l
  BY <1>2, <1>4, LongestFrame, RoomForFew, LengthsAssumption, TermAssumption
<1>6. PICK c \in Int : c = TermOfPartition(i) /\ 0 <= thread[p].count /\ thread[p].count <= c
  BY <1>2, <1>3, KnownTypes DEF Known, AllSound, PlacesSound, AddersSound
<1>7. c \in Nat
  BY <1>1, <1>6
<1>8. /\ raw_tail' = [raw_tail EXCEPT ![i] = [raw_tail[i] EXCEPT !.term_offset = o + l]]
      /\ raw_tail[i] \in PackedTail
  BY <1>1, <1>3, <1>4 DEF AddToTail
<1>9. /\ raw_tail'[i].term_offset = o + l /\ raw_tail'[i].term_id = raw_tail[i].term_id
      /\ \A j \in Partitions : j # i => raw_tail'[j] = raw_tail[j]
  BY <1>1, <1>8 DEF PackedTail
<1>10. \A j \in Partitions : TermOfPartition(j)' = TermOfPartition(j)
  BY <1>9 DEF TermOfPartition
<1>11. o < T => ReadCount <= c
  BY <1>4, <1>6, <1>7, KnownTypes DEF Known, AllSound, PlacesSound, ReadPlace
<1> DEFINE at == [thread[p] EXCEPT !.count = raw_tail[i].term_id - InitialTermId,
                                   !.term_id = raw_tail[i].term_id, !.partition = i]
<1> DEFINE Adds(k, r) ==
         /\ thread' = [thread EXCEPT ![p] = r]
         /\ \/ o >= TermLength /\ UNCHANGED claims /\ r.pc = "rotate"
            \/ /\ o < TermLength /\ ReadCount <= c /\ 0 < k /\ k <= l /\ o + k <= TermLength
               /\ claims' = Append(claims, [position |-> c * TermLength + o, length |-> k])
               /\ r.pc = "claimed" /\ r.count = c /\ r.partition = i /\ r.offset = o /\ r.length = k
               /\ r.claim = Len(claims) + 1
<1>12. \E k \in Nat : \E r : Adds(k, r)
  <2>1. CASE o < T
    <3> DEFINE fits == o + l <= T
               length == IF fits THEN l ELSE T - o
               r == [at EXCEPT !.pc = "claimed", !.offset = o, !.length = length,
                               !.claim = Len(claims) + 1, !.rotates = ~ fits]
    <3>1. /\ thread' = [thread EXCEPT ![p] = r]
          /\ claims' = Append(claims, [position |-> (raw_tail[i].term_id - InitialTermId) * TermLength + o,
                                       length |-> length])
      BY <1>1, <1>3, <1>4, <2>1 DEF AddToTail, Locals
    <3>2. /\ r.pc = "claimed" /\ r.count = raw_tail[i].term_id - InitialTermId /\ r.partition = i /\ r.offset = o
          /\ r.length = length /\ r.claim = Len(claims) + 1
      BY <1>1 DEF Locals
    <3>3. length \in Nat /\ 0 < length /\ length <= l /\ o + length <= T
      BY <1>5, <2>1
    <3>4. raw_tail[i].term_id - InitialTermId = c
      BY <1>6 DEF TermOfPartition
    <3> HIDE DEF r, length
    <3> QED BY <1>4, <1>11, <2>1, <3>1, <3>2, <3>3, <3>4
  <2>2. CASE ~ o < T
    <3> DEFINE r == [at EXCEPT !.pc = "rotate"]
    <3>1. thread' = [thread EXCEPT ![p] = r] /\ UNCHANGED claims
      BY <1>3, <1>4, <2>2 DEF AddToTail
    <3>2. r.pc = "rotate"
      BY <1>1 DEF Locals
    <3> HIDE DEF r
    <3>3. o >= TermLength /\ 0 \in Nat
      BY <1>4, <2>2
    <3> QED BY <3>1, <3>2, <3>3
  <2> QED BY <2>1, <2>2
<1>13. PICK k \in Nat : \E r : Adds(k, r)
  BY <1>12
<1>14. PICK r : Adds(k, r)
  BY <1>13
<1>15. thread'[p] = r /\ \A s \in Threads : s # p => thread'[s] = thread[s]
  BY <1>1, <1>14
<1>16. \A j : Adders(j)' \subseteq Adders(j)
  <2>1. ASSUME NEW j, NEW q \in Adders(j)' PROVE q \in Adders(j)
    <3>1. q \in Publishers /\ thread'[q].pc = "add" /\ index_by_term_count(thread'[q].count) = j
      BY <2>1 DEF Adders
    <3>2. q # p
      BY <1>14, <1>15, <3>1
    <3> QED BY <1>15, <3>1, <3>2, KnownTypes DEF Adders
  <2> QED BY <2>1
<1>17. p \in Adders(i) /\ p \notin Adders(i)'
  BY <1>2, <1>3, <1>14, <1>15 DEF Adders
<1>18. o <= Cardinality(Publishers \ Adders(i)) * Longest =>
         o + l <= Cardinality(Publishers \ Adders(i)') * Longest
  <2>1. PICK A, B : A = Publishers \ Adders(i) /\ B = Publishers \ Adders(i)'
    OBVIOUS
  <2>2. A \in SUBSET Publishers /\ B \in SUBSET Publishers /\ A \subseteq B /\ p \in B /\ p \notin A
    BY <1>16, <1>17, <2>1
  <2>3. PICK x, y \in Nat : x = Cardinality(A) * Longest /\ y = Cardinality(B) * Longest /\ x + L <= y
    BY <1>4, <2>2, Room, RoomForFew
  <2> QED BY <1>5, <2>1, <2>3
<1>19. r \in Locals
  <2>1. [Next]_vars
    BY DEF Next, PublishStep
  <2>2. thread' \in [Threads -> Locals]
    BY <2>1, NextOK DEF Known, IInv, TypeOK
  <2> QED BY <1>1, <1>15, <2>2
<1>20. Added(p, i, o, l, c, k, r)
  BY <1>3, <1>4, <1>5, <1>6, <1>9, <1>10, <1>14, <1>16, <1>18 DEF Added
<1> QED BY <1>7, <1>19, <1>20

\* A new claim, behind all others of its term.
NewClaim(n, c, o, k) ==
  /\ n = Len(claims) + 1 /\ n \notin DOMAIN claims /\ DOMAIN claims' = DOMAIN claims \cup {n}
  /\ \A m \in DOMAIN claims : claims'[m] = claims[m] /\ (TermCount(m) = c => EndOffset(m) <= o)
  /\ TermCount(n)' = c /\ TermOffset(n)' = o /\ EndOffset(n)' = o + k
  /\ claims'[n].position = c * TermLength + o /\ claims'[n].position \in Nat /\ claims'[n].length = k

\* The claim that is added is at the tail, and so behind all others.
LEMMA ClaimAtTail ==
  ASSUME Known, NEW p \in Publishers, NEW i \in Partitions, NEW o \in Nat, NEW l \in Nat, NEW c \in Nat,
         NEW k \in Nat, NEW r \in Locals, Added(p, i, o, l, c, k, r), o < TermLength
  PROVE  index_by_term_count(c) = i /\ \E n \in Nat : NewClaim(n, c, o, k)
<1>1. claims \in Seq(Claim)
  BY DEF Known, IInv, TypeOK
<1>2. claims' = Append(claims, [position |-> c * TermLength + o, length |-> k])
  <2>1. ~ o >= TermLength
    BY KnownTypes
  <2> QED BY <2>1, Zenon DEF Added
<1>3. PICK n \in Nat : n = Len(claims) + 1 /\ DOMAIN claims = 1 .. n - 1
  BY <1>1
<1>4. PICK P \in Nat : P = c * TermLength + o /\ Count(P) = c /\ Offset(P) = o
  BY PositionOf
<1>5. claims' = Append(claims, [position |-> P, length |-> k])
  BY <1>2, <1>4
<1>6. /\ n \notin DOMAIN claims /\ DOMAIN claims' = DOMAIN claims \cup {n}
      /\ claims'[n] = [position |-> P, length |-> k]
      /\ \A m \in DOMAIN claims : claims'[m] = claims[m]
  BY <1>1, <1>3, <1>5
<1>7. claims'[n].position = P /\ claims'[n].length = k
  BY <1>6
<1>8. TermCount(n)' = c /\ TermOffset(n)' = o /\ EndOffset(n)' = o + k
  BY <1>4, <1>7 DEF TermCount, TermOffset, EndOffset, Count, Offset
<1>9. TermOfPartition(i) = c /\ raw_tail[i].term_offset = o /\ index_by_term_count(c) = i
  BY KnownTypes DEF Added
<1>10. ASSUME NEW m \in DOMAIN claims, TermCount(m) = c PROVE EndOffset(m) <= o
  BY <1>9, <1>10 DEF Known, AllSound, PlacesSound, ClaimsApart
<1>11. NewClaim(n, c, o, k)
  BY <1>3, <1>4, <1>6, <1>7, <1>8, <1>10 DEF NewClaim
<1> QED BY <1>9, <1>11

\* A tail that grows is passed by no place that it reached.
LEMMA OnwardAdd ==
  ASSUME RoomLeft, Known, NEW p \in Publishers, AddToTail(p)
  PROVE  Onward
<1>1. PICK i \in Partitions, o \in Nat, l \in Nat, c \in Nat, k \in Nat, r \in Locals : Added(p, i, o, l, c, k, r)
  BY AddFacts
<1>2. UNCHANGED << limit, active_term_count, subscriber, padded >>
  BY DEF AddToTail
<1>3. ReadCount' = ReadCount /\ ReadCount \in Nat /\ active_term_count \in Nat
  BY <1>2, KnownTypes DEF ReadCount
<1>4. /\ raw_tail[i].term_offset = o /\ raw_tail'[i].term_offset = o + l /\ TermOfPartition(i) = c
      /\ index_by_term_count(c) = i
      /\ \A j \in Partitions : j # i => raw_tail'[j] = raw_tail[j]
      /\ \A j \in Partitions : TermOfPartition(j)' = TermOfPartition(j)
  BY <1>1, KnownTypes DEF Added
<1>5. \A d \in Int : Sound(d)' => Sound(d)
  <2>1. ASSUME NEW j \in Partitions,
               raw_tail[j].term_offset <= Cardinality(Publishers \ Adders(j)) * Longest
        PROVE  /\ TermOfPartition(j)' = TermOfPartition(j)
               /\ raw_tail'[j].term_offset <= Cardinality(Publishers \ Adders(j)') * Longest
    <3>1. CASE j = i
      BY <1>1, <1>4, <2>1, <3>1 DEF Added
    <3>2. CASE j # i
      <4>1. Adders(j)' \subseteq Adders(j)
        BY <1>1 DEF Added
      <4> QED BY <1>4, <2>1, <3>2, <4>1, FewerAdd
    <3> QED BY <3>1, <3>2
  <2> QED BY <1>2, <1>3, <2>1, SoundStays
<1>6. \A n \in DOMAIN claims : n \in DOMAIN claims' /\ claims'[n] = claims[n]
  <2>1. CASE UNCHANGED claims
    BY <2>1
  <2>2. CASE o < TermLength
    <3>1. PICK n \in Nat : NewClaim(n, c, o, k)
      BY <1>1, <2>2, ClaimAtTail
    <3> QED BY <3>1 DEF NewClaim
  <2> QED BY <1>1, <2>1, <2>2 DEF Added
<1>8. ASSUME NEW n \in DOMAIN claims', n \notin DOMAIN claims, NEW m \in DOMAIN claims,
             TermCount(m) = TermCount(n)'
      PROVE  EndOffset(m) <= TermOffset(n)'
  <2>1. o < TermLength
    BY <1>1, <1>8 DEF Added
  <2>2. PICK new \in Nat : NewClaim(new, c, o, k)
    BY <1>1, <2>1, ClaimAtTail
  <2>3. n = new
    BY <1>8, <2>2 DEF NewClaim
  <2>4. TermCount(n)' = c /\ TermOffset(n)' = o /\ (TermCount(m) = c => EndOffset(m) <= o)
    BY <2>2, <2>3 DEF NewClaim
  <2> QED BY <1>8, <2>4
<1>7. ASSUME NEW d \in Int, NEW e \in Nat, Reaches(d, e) PROVE Reaches(d, e)'
  <2>1. PICK j \in Partitions : j = index_by_term_count(d)
    BY SameIndex
  <2>2. /\ e <= TermLength
        /\ e > 0 => TermOfPartition(j) = d /\ e <= raw_tail[j].term_offset
        /\ \A n \in DOMAIN claims : TermCount(n) = d => EndOffset(n) <= e \/ e <= TermOffset(n)
    BY <1>7, <2>1 DEF Reaches
  <2>3. e > 0 => TermOfPartition(j)' = d /\ e <= raw_tail'[j].term_offset
    <3>1. raw_tail[j].term_offset \in Nat /\ raw_tail'[j].term_offset \in Nat
          /\ raw_tail[j].term_offset <= raw_tail'[j].term_offset
      BY <1>4, KnownTypes
    <3>2. TermOfPartition(j)' = TermOfPartition(j)
      BY <1>4
    <3> QED BY <2>2, <3>1, <3>2
  <2>4. ASSUME NEW n \in DOMAIN claims', TermCount(n)' = d
        PROVE  EndOffset(n)' <= e \/ e <= TermOffset(n)'
    <3>1. CASE n \in DOMAIN claims
      BY <1>6, <2>2, <2>4, <3>1, ClaimsStay
    <3>2. CASE n \notin DOMAIN claims
      <4>1. PICK m \in Nat : NewClaim(m, c, o, k)
        <5>1. o < TermLength
          BY <1>1, <2>4, <3>2 DEF Added
        <5> QED BY <1>1, <5>1, ClaimAtTail
      <4>2. n = m
        BY <2>4, <3>2, <4>1 DEF NewClaim
      <4>3. TermOffset(n)' = o /\ d = c
        BY <2>4, <4>1, <4>2 DEF NewClaim
      <4> QED BY <1>4, <2>1, <2>2, <4>3
    <3> QED BY <3>1, <3>2
  <2> QED BY <2>1, <2>2, <2>3, <2>4 DEF Reaches, index_by_term_count
<1> QED BY <1>2, <1>3, <1>5, <1>6, <1>7, <1>8 DEF Onward

\* Who replaces a tail does so in no partition that the driver or the subscriber are at.
LEMMA NextTailPlace ==
  ASSUME Known, NEW t \in Threads, CompareAndSetNextTail(t), raw_tail[NextIndex(t)] = thread[t].raw
  PROVE  \E a \in Nat, j \in Partitions :
           /\ Replaced(t, a, j)
           /\ a <= ReadCount + 1
           /\ t # Driver => a <= Cleaned + 1
           /\ Blocked => /\ j # thread[Driver].partition /\ a + 1 <= BlockedCount + 2
                         /\ BlockedCount \in Nat
<1>1. PICK a \in Nat, j \in Partitions : Replaced(t, a, j)
  BY NextTail DEF Known
<1>2. /\ thread[t].pc = "rotate_tail" /\ thread[t].count = a /\ thread[t].term_id - InitialTermId = a
      /\ TermOfPartition(j) = a - 2
  BY <1>1 DEF Replaced, CompareAndSetNextTail
<1>3. t # Driver => a <= Cleaned + 1
  <2>1. SUFFICES ASSUME t \in Publishers PROVE a <= Cleaned + 1
    BY DEF Threads
  <2>2. a * TermLength < limit
    BY <1>2, <2>1 DEF Known, StepInv, RotatesOpen, WillRotate, RotateSteps
  <2> QED BY <2>2, KnownTypes, WithinLimit DEF Known
<1>4. t = Driver => a <= ReadCount /\ ~ Blocked
  BY <1>2 DEF Known, AllSound, PlacesSound, DriverPlace, Blocked, BlockSteps, PadSteps
<1>5. a <= ReadCount + 1
  BY <1>3, <1>4, KnownTypes
<1>6. ASSUME Blocked
      PROVE  j # thread[Driver].partition /\ a + 1 <= BlockedCount + 2 /\ BlockedCount \in Nat
  <2>1. PICK b \in Nat : b = BlockedCount /\ Cleaned <= b
    BY <1>6, BlockedPlace
  <2>2. a <= b + 1
    BY <1>3, <1>4, <1>6, <2>1, KnownTypes
  <2>3. j = thread[Driver].partition => b = a - 2
    BY <1>2, <2>1 DEF BlockedCount
  <2> QED BY <2>1, <2>2, <2>3
<1> QED BY <1>1, <1>3, <1>5, <1>6

\* Nor does it move a place there.
LEMMA OnwardNext ==
  ASSUME RoomLeft, Known, NEW t \in Threads, CompareAndSetNextTail(t),
         raw_tail[NextIndex(t)] = thread[t].raw
  PROVE  Onward
<1>1. PICK a \in Nat, j \in Partitions :
        /\ Replaced(t, a, j)
        /\ a <= ReadCount + 1
        /\ Blocked => j # thread[Driver].partition /\ BlockedCount \in Nat
  BY NextTailPlace
<1>2. /\ UNCHANGED << limit, active_term_count, subscriber, padded, claims >>
      /\ thread[t].pc = "rotate_tail" /\ thread' = [thread EXCEPT ![t].pc = "rotate_count"]
  BY DEF CompareAndSetNextTail, history, Goto
<1>3. ReadCount' = ReadCount /\ ReadCount \in Nat /\ active_term_count \in Nat
  BY <1>2, KnownTypes DEF ReadCount
<1>4. /\ TermOfPartition(j) = a - 2
      /\ \A i \in Partitions : i # j => raw_tail'[i] = raw_tail[i] /\ TermOfPartition(i)' = TermOfPartition(i)
  BY <1>1 DEF Replaced
<1>5. \A i : Adders(i)' \subseteq Adders(i)
  <2>1. ASSUME NEW i, NEW q \in Adders(i)' PROVE q \in Adders(i)
    <3>1. q \in Publishers /\ thread'[q].pc = "add" /\ index_by_term_count(thread'[q].count) = i
      BY <2>1 DEF Adders
    <3>2. q # t /\ q \in Threads
      BY <1>2, <3>1, KnownTypes
    <3> QED BY <1>2, <3>1, <3>2, KnownTypes DEF Adders
  <2> QED BY <2>1
<1>6. \A c \in Int : Sound(c)' => Sound(c)
  <2>1. ASSUME NEW i \in Partitions, ReadCount <= TermOfPartition(i),
               raw_tail[i].term_offset <= Cardinality(Publishers \ Adders(i)) * Longest
        PROVE  /\ TermOfPartition(i)' = TermOfPartition(i)
               /\ raw_tail'[i].term_offset <= Cardinality(Publishers \ Adders(i)') * Longest
    <3>1. i # j
      BY <1>1, <1>3, <1>4, <2>1
    <3> QED BY <1>4, <1>5, <2>1, <3>1, FewerAdd
  <2> QED BY <1>2, <1>3, <2>1, SoundStays
<1>7. ASSUME NEW c \in Int, NEW o \in Nat, ReadCount <= c \/ (Blocked /\ c = BlockedCount), Reaches(c, o)
      PROVE  Reaches(c, o)'
  <2>1. PICK i \in Partitions : i = index_by_term_count(c)
    BY SameIndex
  <2>2. /\ o <= TermLength
        /\ o > 0 => TermOfPartition(i) = c /\ o <= raw_tail[i].term_offset
        /\ \A n \in DOMAIN claims : TermCount(n) = c => EndOffset(n) <= o \/ o <= TermOffset(n)
    BY <1>7, <2>1 DEF Reaches
  <2>3. o > 0 => i # j
    <3>1. SUFFICES ASSUME o > 0, i = j PROVE FALSE
      OBVIOUS
    <3>2. c = a - 2
      BY <1>4, <2>2, <3>1
    <3>3. Blocked /\ c = BlockedCount
      BY <1>1, <1>3, <1>7, <3>2
    <3>4. index_by_term_count(c) = thread[Driver].partition
      BY <3>3, KnownTypes DEF BlockedCount
    <3> QED BY <1>1, <2>1, <3>1, <3>3, <3>4
  <2>4. o > 0 => TermOfPartition(i)' = c /\ o <= raw_tail'[i].term_offset
    BY <1>4, <2>2, <2>3
  <2>5. \A n \in DOMAIN claims' : TermCount(n)' = c => EndOffset(n)' <= o \/ o <= TermOffset(n)'
    BY <1>2, <2>2 DEF TermCount, TermOffset, EndOffset, Count, Offset
  <2> QED BY <2>1, <2>2, <2>4, <2>5 DEF Reaches, index_by_term_count
<1> QED BY <1>2, <1>3, <1>6, <1>7 DEF Onward

\* Claims stay apart and behind their tails.
LEMMA ApartKept ==
  ASSUME Known, Keeps
  PROVE  ClaimsApart' /\ AddersSound'
<1>1. ClaimsApart'
  BY DEF Known, AllSound, PlacesSound, Keeps, ClaimsApart, Apart, TermOfPartition, TermCount, TermOffset,
         EndOffset, Count, Offset, index_by_term_count
<1>2. AddersSound'
  BY DEF Known, AllSound, PlacesSound, Keeps, AddersSound, TermOfPartition, index_by_term_count
<1> QED BY <1>1, <1>2

\* So they do when a publisher begins to add,
LEMMA ApartOffer ==
  ASSUME Known, NEW p \in Publishers, NEW length \in FrameLengths, Offer(p, length)
  PROVE  ClaimsApart' /\ AddersSound'
<1>1. /\ UNCHANGED << raw_tail, claims >>
      /\ thread' = [thread EXCEPT ![p].pc = "add", ![p].count = active_term_count, ![p].length = length]
  BY DEF Offer, log, history
<1>2. ClaimsApart'
  BY <1>1 DEF Known, AllSound, PlacesSound, ClaimsApart, Apart, TermOfPartition, TermCount, TermOffset,
              EndOffset, Count, Offset, index_by_term_count
<1>3. PICK a \in Nat : a = active_term_count /\ TermOfPartition(index_by_term_count(a)) = a
  BY KnownTypes, InStep, IndexIs DEF Known, StepInv
<1>4. ASSUME NEW q \in Publishers, thread'[q].pc = "add"
      PROVE  /\ 0 <= thread'[q].count
             /\ thread'[q].count <= TermOfPartition(index_by_term_count(thread'[q].count))
  <2>1. p \in Threads /\ q \in Threads /\ thread[p] \in Locals /\ thread \in [Threads -> Locals]
    BY KnownTypes
  <2>2. CASE q = p
    <3>1. thread'[q].count = a
      BY <1>1, <1>3, <2>1, <2>2 DEF Locals
    <3> QED BY <1>3, <3>1
  <2>3. CASE q # p
    <3>1. thread'[q] = thread[q]
      BY <1>1, <2>1, <2>3
    <3> QED BY <1>4, <3>1 DEF Known, AllSound, PlacesSound, AddersSound
  <2> QED BY <2>2, <2>3
<1>5. AddersSound'
  BY <1>1, <1>4 DEF AddersSound, TermOfPartition, index_by_term_count
<1> QED BY <1>2, <1>5

\* adds,
LEMMA ApartAdd ==
  ASSUME RoomLeft, Known, NEW p \in Publishers, AddToTail(p)
  PROVE  ClaimsApart' /\ AddersSound'
<1>1. PICK i \in Partitions, o \in Nat, l \in Nat, c \in Nat, k \in Nat, r \in Locals : Added(p, i, o, l, c, k, r)
  BY AddFacts
<1>2. /\ raw_tail[i].term_offset = o /\ raw_tail'[i].term_offset = o + l /\ TermOfPartition(i) = c
      /\ index_by_term_count(c) = i
      /\ \A j \in Partitions : j # i => raw_tail'[j] = raw_tail[j]
      /\ \A j \in Partitions : TermOfPartition(j)' = TermOfPartition(j)
      /\ thread' = [thread EXCEPT ![p] = r] /\ r.pc # "add"
  BY <1>1, KnownTypes DEF Added
<1>3. \A j \in Partitions : /\ raw_tail[j].term_offset \in Nat /\ raw_tail'[j].term_offset \in Nat
                            /\ raw_tail[j].term_offset <= raw_tail'[j].term_offset
  BY <1>2, KnownTypes
<1>4. ASSUME NEW n \in DOMAIN claims
      PROVE  /\ n \in DOMAIN claims' /\ claims'[n] = claims[n]
             /\ TermCount(n)' = TermCount(n) /\ TermOffset(n)' = TermOffset(n)
             /\ EndOffset(n)' = EndOffset(n)
  BY OnwardAdd, ClaimsStay DEF Onward
<1>5. ASSUME NEW n \in DOMAIN claims', n \notin DOMAIN claims
      PROVE  o < TermLength /\ o + k <= TermLength /\ 0 < k /\ k <= l /\ NewClaim(n, c, o, k)
  <2>1. o < TermLength /\ o + k <= TermLength /\ 0 < k /\ k <= l
    BY <1>1, <1>5 DEF Added
  <2>2. PICK m \in Nat : NewClaim(m, c, o, k)
    BY <1>1, <2>1, ClaimAtTail
  <2>3. n = m
    BY <1>5, <2>2 DEF NewClaim
  <2> QED BY <2>1, <2>2, <2>3
<1>6. ASSUME NEW n \in DOMAIN claims', NEW j, j = index_by_term_count(TermCount(n)')
      PROVE  /\ claims'[n].position >= 0 /\ claims'[n].length > 0 /\ EndOffset(n)' <= TermLength
             /\ TermCount(n)' <= TermOfPartition(j)'
             /\ TermCount(n)' = TermOfPartition(j)' => EndOffset(n)' <= raw_tail'[j].term_offset
  <2>1. CASE n \in DOMAIN claims
    <3>1. j = index_by_term_count(TermCount(n)) /\ j \in Partitions
      BY <1>4, <1>6, <2>1, KnownClaims
    <3>2. /\ claims[n].position >= 0 /\ claims[n].length > 0 /\ EndOffset(n) <= TermLength
          /\ TermCount(n) <= TermOfPartition(j)
          /\ TermCount(n) = TermOfPartition(j) => EndOffset(n) <= raw_tail[j].term_offset
      BY <2>1, <3>1 DEF Known, AllSound, PlacesSound, ClaimsApart
    <3>3. PICK e \in Nat : e = EndOffset(n)
      BY <2>1, KnownClaims
    <3>4. TermOfPartition(j)' = TermOfPartition(j)
      BY <1>2, <3>1
    <3>5. e <= raw_tail[j].term_offset => e <= raw_tail'[j].term_offset
      BY <1>3, <3>1
    <3> QED BY <1>4, <2>1, <3>2, <3>3, <3>4, <3>5
  <2>2. CASE n \notin DOMAIN claims
    <3>1. /\ o + k <= TermLength /\ 0 < k /\ k <= l /\ claims'[n].position \in Nat /\ claims'[n].length = k
          /\ EndOffset(n)' = o + k /\ TermCount(n)' = c
      BY <1>5, <1>6, <2>2 DEF NewClaim
    <3>2. j = i
      BY <1>2, <1>6, <3>1
    <3> QED BY <1>2, <3>1, <3>2
  <2> QED BY <2>1, <2>2
<1>7. ASSUME NEW m \in DOMAIN claims', NEW n \in DOMAIN claims', m # n, TermCount(m)' = TermCount(n)'
      PROVE  EndOffset(m)' <= TermOffset(n)' \/ EndOffset(n)' <= TermOffset(m)'
  <2>1. CASE m \in DOMAIN claims /\ n \in DOMAIN claims
    BY <1>4, <1>7, <2>1 DEF Known, AllSound, PlacesSound, ClaimsApart, Apart
  <2>2. CASE m \in DOMAIN claims /\ n \notin DOMAIN claims
    BY <1>4, <1>5, <1>7, <2>2 DEF NewClaim
  <2>3. CASE m \notin DOMAIN claims /\ n \in DOMAIN claims
    <3>1. NewClaim(m, c, o, k) /\ TermCount(n)' = TermCount(n) /\ EndOffset(n)' = EndOffset(n)
      BY <1>4, <1>5, <2>3
    <3>2. TermCount(m)' = c /\ TermOffset(m)' = o /\ (TermCount(n) = c => EndOffset(n) <= o)
      BY <2>3, <3>1 DEF NewClaim
    <3> QED BY <1>7, <3>1, <3>2
  <2>4. CASE m \notin DOMAIN claims /\ n \notin DOMAIN claims
    BY <1>5, <1>7, <2>4 DEF NewClaim
  <2> QED BY <2>1, <2>2, <2>3, <2>4
<1>8. ClaimsApart'
  BY <1>6, <1>7 DEF ClaimsApart, Apart, index_by_term_count
<1>9. ASSUME NEW q \in Publishers, NEW new, new = thread'[q], new.pc = "add"
      PROVE  0 <= new.count /\ new.count <= TermOfPartition(index_by_term_count(new.count))'
  <2>1. p \in Threads /\ q \in Threads /\ thread \in [Threads -> Locals] /\ thread[q].count \in Int
    BY KnownTypes
  <2>2. q # p
    BY <1>2, <1>9, <2>1
  <2>3. new = thread[q]
    BY <1>2, <1>9, <2>1, <2>2
  <2>4. PICK j \in Partitions : j = index_by_term_count(new.count)
    BY <2>1, <2>3, SameIndex
  <2>5. 0 <= new.count /\ new.count <= TermOfPartition(j)
    BY <1>9, <2>3, <2>4 DEF Known, AllSound, PlacesSound, AddersSound
  <2>6. TermOfPartition(j)' = TermOfPartition(j)
    BY <1>2
  <2> QED BY <2>4, <2>5, <2>6 DEF index_by_term_count
<1>10. AddersSound'
  <2>1. ASSUME NEW q \in Publishers PROVE (thread[q].pc = "add" =>
                 /\ 0 <= thread[q].count
                 /\ thread[q].count <= TermOfPartition(index_by_term_count(thread[q].count)))'
    <3>1. PICK new : new = thread'[q]
      OBVIOUS
    <3> QED BY <1>9, <3>1 DEF index_by_term_count
  <2> QED BY <2>1 DEF AddersSound
<1> QED BY <1>8, <1>10

\* or a tail is replaced.
LEMMA ApartNext ==
  ASSUME Known, NEW t \in Threads, CompareAndSetNextTail(t), raw_tail[NextIndex(t)] = thread[t].raw
  PROVE  ClaimsApart' /\ AddersSound'
<1>1. PICK a \in Nat, j \in Partitions : Replaced(t, a, j)
  BY NextTailPlace
<1>2. /\ TermOfPartition(j) = a - 2 /\ TermOfPartition(j)' = a + 1
      /\ \A i \in Partitions : i # j => raw_tail'[i] = raw_tail[i] /\ TermOfPartition(i)' = TermOfPartition(i)
  BY <1>1 DEF Replaced
<1>3. /\ UNCHANGED claims /\ thread[t].pc = "rotate_tail"
      /\ thread' = [thread EXCEPT ![t].pc = "rotate_count"]
  BY DEF CompareAndSetNextTail, history, Goto
<1>4. \A n \in DOMAIN claims : /\ TermCount(n)' = TermCount(n) /\ TermOffset(n)' = TermOffset(n)
                               /\ EndOffset(n)' = EndOffset(n)
  BY <1>3, ClaimsStay
<1>5. ASSUME NEW n \in DOMAIN claims, NEW i, i = index_by_term_count(TermCount(n)')
      PROVE  /\ TermCount(n)' <= TermOfPartition(i)'
             /\ TermCount(n)' = TermOfPartition(i)' => EndOffset(n)' <= raw_tail'[i].term_offset
  <2>1. PICK c \in Nat : c = TermCount(n) /\ i = index_by_term_count(c) /\ i \in Partitions
    BY <1>4, <1>5, KnownClaims
  <2>2. c <= TermOfPartition(i) /\ (c = TermOfPartition(i) => EndOffset(n) <= raw_tail[i].term_offset)
    BY <2>1 DEF Known, AllSound, PlacesSound, ClaimsApart
  <2>3. CASE i = j
    BY <1>2, <1>4, <2>1, <2>2, <2>3
  <2>4. CASE i # j
    BY <1>2, <1>4, <2>1, <2>2, <2>4
  <2> QED BY <2>3, <2>4
<1>6. ASSUME NEW n \in DOMAIN claims
      PROVE  claims[n].position >= 0 /\ claims[n].length > 0 /\ EndOffset(n)' <= TermLength
  BY <1>4 DEF Known, AllSound, PlacesSound, ClaimsApart
<1>7. \A m, n \in DOMAIN claims : m # n /\ TermCount(m)' = TermCount(n)' =>
        EndOffset(m)' <= TermOffset(n)' \/ EndOffset(n)' <= TermOffset(m)'
  BY <1>4 DEF Known, AllSound, PlacesSound, ClaimsApart, Apart
<1>8. ClaimsApart'
  BY <1>3, <1>5, <1>6, <1>7 DEF ClaimsApart, Apart, index_by_term_count
<1>9. ASSUME NEW q \in Publishers, NEW new, new = thread'[q], new.pc = "add"
      PROVE  0 <= new.count /\ new.count <= TermOfPartition(index_by_term_count(new.count))'
  <2>1. t \in Threads /\ q \in Threads /\ thread \in [Threads -> Locals] /\ thread[q].count \in Int
        /\ thread[t] \in Locals
    BY KnownTypes
  <2>2. q # t
    BY <1>3, <1>9, <2>1 DEF Locals
  <2>3. new = thread[q]
    BY <1>3, <1>9, <2>1, <2>2
  <2>4. PICK i \in Partitions : i = index_by_term_count(new.count)
    BY <2>1, <2>3, SameIndex
  <2>5. 0 <= new.count /\ new.count <= TermOfPartition(i)
    BY <1>9, <2>3, <2>4 DEF Known, AllSound, PlacesSound, AddersSound
  <2>6. TermOfPartition(i) <= TermOfPartition(i)' /\ TermOfPartition(i) \in Int /\ TermOfPartition(i)' \in Int
    <3>1. CASE i = j
      BY <1>2, <3>1
    <3>2. CASE i # j
      BY <1>2, <3>2, KnownTypes
    <3> QED BY <3>1, <3>2
  <2>7. new.count <= TermOfPartition(i)'
    BY <2>1, <2>3, <2>5, <2>6
  <2> QED BY <2>4, <2>5, <2>7 DEF index_by_term_count
<1>10. AddersSound'
  <2>1. ASSUME NEW q \in Publishers PROVE (thread[q].pc = "add" =>
                 /\ 0 <= thread[q].count
                 /\ thread[q].count <= TermOfPartition(index_by_term_count(thread[q].count)))'
    <3>1. PICK new : new = thread'[q]
      OBVIOUS
    <3> QED BY <1>9, <3>1 DEF index_by_term_count
  <2> QED BY <2>1 DEF AddersSound
<1> QED BY <1>8, <1>10

\* While the subscriber stays, so does its place, if no partition goes round before it.
LEMMA ReadPlaceStays ==
  ASSUME Known, Onward, UNCHANGED subscriber, active_term_count <= active_term_count',
         active_term_count' \in Nat,
         \A i \in Partitions : /\ TermOfPartition(i)' <= ReadCount + 2
                               /\ 0 <= TermOfPartition(i)' /\ TermOfPartition(i)' < ReadCount =>
                                    raw_tail'[i].term_offset >= TermLength
  PROVE  ReadPlace'
<1>1. PICK c, o \in Nat : c = ReadCount /\ o = ReadOffset
  BY KnownTypes
<1>2. ReadCount' = c /\ ReadOffset' = o
  BY <1>1 DEF ReadCount, ReadOffset, Count, Offset
<1>3. Reaches(c, o)
  BY <1>1 DEF Known, AllSound, PlacesSound, ReadPlace
<1>4. Reaches(c, o)'
  BY <1>1, <1>3 DEF Onward
<1>5. Reaches(ReadCount, ReadOffset)'
  BY <1>2, <1>4 DEF Reaches, index_by_term_count
<1>6. limit' = limit /\ Cleaned' = Cleaned
  BY DEF Onward, Cleaned, Count
<1>7. ReadCount <= active_term_count' + 1
  BY KnownTypes DEF Known, AllSound, PlacesSound, ReadPlace
<1> QED BY <1>1, <1>2, <1>5, <1>6, <1>7, KnownTypes DEF ReadPlace

\* So it is with the tail that is replaced, which is far enough behind.
LEMMA ReadPlaceNext ==
  ASSUME RoomLeft, Known, NEW t \in Threads, CompareAndSetNextTail(t),
         raw_tail[NextIndex(t)] = thread[t].raw
  PROVE  ReadPlace'
<1>1. PICK a \in Nat, j \in Partitions : Replaced(t, a, j) /\ a <= ReadCount + 1
  BY NextTailPlace
<1>2. /\ TermOfPartition(j)' = a + 1 /\ a = active_term_count
      /\ \A i \in Partitions : i # j => raw_tail'[i] = raw_tail[i] /\ TermOfPartition(i)' = TermOfPartition(i)
  BY <1>1 DEF Replaced
<1>3. UNCHANGED << subscriber, active_term_count >>
  BY DEF CompareAndSetNextTail
<1>4. ReadCount \in Nat /\ ReadCount <= a + 1
  BY <1>2, KnownTypes DEF Known, AllSound, PlacesSound, ReadPlace
<1>5. ASSUME NEW i \in Partitions
      PROVE  /\ TermOfPartition(i)' <= ReadCount + 2
             /\ 0 <= TermOfPartition(i)' /\ TermOfPartition(i)' < ReadCount =>
                  raw_tail'[i].term_offset >= TermLength
  <2>1. CASE i = j
    BY <1>1, <1>2, <1>4, <2>1
  <2>2. CASE i # j
    BY <1>2, <2>2, KnownTypes DEF Known, AllSound, PlacesSound, ReadPlace
  <2> QED BY <2>1, <2>2
<1> QED BY <1>2, <1>3, <1>5, OnwardNext, ReadPlaceStays

\* And with a tail that grows.
LEMMA ReadPlaceKept ==
  ASSUME Known, Onward, UNCHANGED subscriber, active_term_count <= active_term_count',
         active_term_count' \in Nat,
         \A i \in Partitions : /\ TermOfPartition(i)' = TermOfPartition(i)
                               /\ raw_tail'[i].term_offset \in Nat
                               /\ raw_tail[i].term_offset <= raw_tail'[i].term_offset
  PROVE  ReadPlace'
<1>1. ASSUME NEW i \in Partitions
      PROVE  /\ TermOfPartition(i)' <= ReadCount + 2
             /\ 0 <= TermOfPartition(i)' /\ TermOfPartition(i)' < ReadCount =>
                  raw_tail'[i].term_offset >= TermLength
  <2>1. PICK d \in Int, x, y \in Nat :
          /\ d = TermOfPartition(i) /\ d = TermOfPartition(i)' /\ d <= ReadCount + 2
          /\ x = raw_tail[i].term_offset /\ y = raw_tail'[i].term_offset /\ x <= y
    BY KnownTypes
  <2>2. 0 <= d /\ d < ReadCount => x >= TermLength
    BY <2>1 DEF Known, AllSound, PlacesSound, ReadPlace
  <2> QED BY <2>1, <2>2, KnownTypes
<1> QED BY <1>1, ReadPlaceStays


\* While the active term count stays, a next term is begun within the limit or by the driver if it was.
LEMMA NextByLimitKept ==
  ASSUME Known, UNCHANGED << limit, active_term_count >>,
         \A i \in Partitions : TermOfPartition(i)' = TermOfPartition(i),
         thread[Driver].pc = "rotate_count" /\ thread[Driver].count = active_term_count =>
           thread'[Driver].pc = "rotate_count" /\ thread'[Driver].count = active_term_count
  PROVE  NextByLimit'
<1>1. Cleaned' = Cleaned
  BY DEF Cleaned, Count
<1> QED BY <1>1 DEF Known, AllSound, PlacesSound, NextByLimit

\* Who replaces its tail has a claim within the limit, or is the driver.
LEMMA NextByLimitNext ==
  ASSUME Known, NEW t \in Threads, CompareAndSetNextTail(t), raw_tail[NextIndex(t)] = thread[t].raw
  PROVE  NextByLimit'
<1>1. PICK a \in Nat, j \in Partitions : Replaced(t, a, j) /\ (t # Driver => a <= Cleaned + 1)
  BY NextTailPlace
<1>2. /\ a = active_term_count /\ thread[t].count = a
      /\ \A i \in Partitions : i # j => TermOfPartition(i)' = TermOfPartition(i)
  BY <1>1 DEF Replaced
<1>3. /\ UNCHANGED << limit, active_term_count >> /\ thread[t].pc = "rotate_tail"
      /\ thread' = [thread EXCEPT ![t].pc = "rotate_count"] /\ thread[t] \in Locals
      /\ thread \in [Threads -> Locals]
  BY KnownTypes DEF CompareAndSetNextTail, Goto
<1>4. Cleaned' = Cleaned
  BY <1>3 DEF Cleaned, Count
<1>5. CASE t = Driver
  <2>1. thread'[Driver].pc = "rotate_count" /\ thread'[Driver].count = a
    BY <1>2, <1>3, <1>5 DEF Locals
  <2> QED BY <1>2, <1>3, <2>1 DEF NextByLimit
<1>6. CASE t # Driver
  BY <1>1, <1>2, <1>3, <1>4, <1>6 DEF NextByLimit
<1> QED BY <1>5, <1>6

\* When the count is stored, no next term is begun.
LEMMA NextByLimitStored ==
  ASSUME Known, NEW t \in Threads, CompareAndSetTermCount(t)
  PROVE  NextByLimit'
<1>1. /\ UNCHANGED << limit, raw_tail >> /\ thread[t].pc = "rotate_count"
      /\ thread' = [thread EXCEPT ![t] = Idle] /\ thread \in [Threads -> Locals]
  BY KnownTypes DEF CompareAndSetTermCount, Return
<1>2. \A i : TermOfPartition(i)' = TermOfPartition(i)
  BY <1>1 DEF TermOfPartition
<1>3. PICK a \in Nat : a = active_term_count
  BY KnownTypes
<1>4. CASE thread[t].count = a
  <2>1. active_term_count' = a + 1
    BY <1>3, <1>4 DEF CompareAndSetTermCount
  <2>2. \A i \in Partitions : TermOfPartition(i) <= a + 1
    BY <1>3, InStep DEF Known, StepInv
  <2>3. \A i \in Partitions : TermOfPartition(i) # a + 2
    BY <2>2
  <2> QED BY <1>2, <2>1, <2>3 DEF NextByLimit
<1>5. CASE thread[t].count # a
  <2>1. active_term_count' = active_term_count
    BY <1>3, <1>5 DEF CompareAndSetTermCount
  <2>2. thread[Driver].pc = "rotate_count" /\ thread[Driver].count = active_term_count =>
          thread'[Driver] = thread[Driver]
    BY <1>1, <1>3, <1>5
  <2> QED BY <1>1, <1>2, <2>1, <2>2, NextByLimitKept
<1> QED BY <1>4, <1>5

\* While the driver does nothing, its place stays.
LEMMA DriverPlaceKept ==
  ASSUME Known, Onward, thread'[Driver] = thread[Driver],
         Blocked => /\ BlockedCount' = BlockedCount
                    /\ \A i \in Partitions : TermOfPartition(i)' <= BlockedCount + 2
  PROVE  DriverPlace'
<1>1. Blocked' <=> Blocked
  BY DEF Blocked
<1>2. Cleaned' = Cleaned
  BY DEF Onward, Cleaned, Count
<1>3. PICK c, e \in Nat : c = ReadCount /\ e = ReadCount' /\ c <= e
  BY KnownTypes DEF Onward
<1>4. PICK d : d = thread[Driver] /\ d = thread'[Driver] /\ d.term_id \in Int /\ d.count \in Int
  BY KnownTypes
<1>5. /\ d.pc = "current_tail" => d.count + 1 <= c
      /\ d.pc \in {"rotate", "rotate_tail"} => d.term_id - InitialTermId <= c
  BY <1>3, <1>4 DEF Known, AllSound, PlacesSound, DriverPlace
<1>6. /\ d.pc = "current_tail" => d.count + 1 <= e
      /\ d.pc \in {"rotate", "rotate_tail"} => d.term_id - InitialTermId <= e
  BY <1>3, <1>4, <1>5, KnownTypes
<1>7. ASSUME Blocked
      PROVE  /\ \E n \in DOMAIN claims' : TermCount(n)' = BlockedCount' /\ TermOffset(n)' = d.offset
             /\ Cleaned' <= BlockedCount' /\ BlockedCount' <= e
             /\ \A i \in Partitions : TermOfPartition(i)' <= BlockedCount' + 2
             /\ d.pc # "blocked_tail" => d.term_id - InitialTermId = BlockedCount'
  <2>1. PICK m \in DOMAIN claims : TermCount(m) = BlockedCount /\ TermOffset(m) = d.offset
    BY <1>4, <1>7 DEF Known, AllSound, PlacesSound, DriverPlace
  <2>2. /\ m \in DOMAIN claims' /\ TermCount(m)' = BlockedCount' /\ TermOffset(m)' = d.offset
    BY <1>7, <2>1, ClaimsStay DEF Onward
  <2>3. /\ Cleaned <= BlockedCount /\ BlockedCount <= c /\ BlockedCount \in Int
        /\ d.pc # "blocked_tail" => d.term_id - InitialTermId = BlockedCount
    BY <1>3, <1>4, <1>7, KnownTypes DEF Known, AllSound, PlacesSound, DriverPlace, BlockedCount
  <2>4. BlockedCount <= e
    BY <1>3, <2>3
  <2> QED BY <1>2, <1>7, <2>2, <2>3, <2>4
<1> QED BY <1>1, <1>3, <1>4, <1>6, <1>7 DEF DriverPlace

\* The steps of the driver between Unblock and the end of its call, but for the one that
\* replaces a tail: it works at the same frame, of a term id that it loaded.
LEMMA DriverWorks ==
  ASSUME Known, UnblockStep,
         ~ (CompareAndSetNextTail(Driver) /\ raw_tail[NextIndex(Driver)] = thread[Driver].raw),
         NEW d, NEW new, d = thread[Driver], new = thread'[Driver]
  PROVE  /\ UNCHANGED << raw_tail, claims, committed, delivered, limit, subscriber >>
         /\ \A p \in Publishers : thread'[p] = thread[p]
         /\ padded \subseteq padded' /\ faults \subseteq faults'
         /\ active_term_count <= active_term_count' /\ active_term_count' \in Nat
         /\ d.pc # "rotate_count" => active_term_count' = active_term_count
         /\ \/ new.pc = "idle"
            \/ /\ new.partition = d.partition /\ new.offset = d.offset
               /\ \/ /\ d.pc = "current_tail" /\ new.pc = "rotate"
                     /\ new.term_id = raw_tail[index_by_term_count(d.count)].term_id
                  \/ /\ d.pc = "blocked_tail" /\ new.pc = "length"
                     /\ new.term_id = raw_tail[d.partition].term_id /\ new.raw = raw_tail[d.partition]
                  \/ /\ d.pc \in BlockSteps \ {"blocked_tail"}
                     /\ new.pc \in (BlockSteps \ {"blocked_tail"}) \cup {"rotate"}
                     /\ new.term_id = d.term_id /\ new.raw = d.raw
                  \/ /\ d.pc \in {"rotate", "rotate_tail"} /\ new.pc \in {"rotate", "rotate_tail"}
                     /\ new.term_id = d.term_id
<1>1. /\ thread \in [Threads -> Locals] /\ Driver \in Threads /\ Driver \notin Publishers
      /\ thread[Driver] \in Locals /\ Idle.pc = "idle" /\ active_term_count \in Nat
      /\ \A p \in Publishers : p \in Threads
  BY KnownTypes DEF Idle
<1>2. CASE LoadCurrentTail
  BY <1>1, <1>2 DEF LoadCurrentTail,
     log, history, incidents, Goto, Return, Locals, BlockSteps, PadSteps
<1>3. CASE LoadBlockedTail
  BY <1>1, <1>3 DEF LoadBlockedTail,
     log, history, incidents, Goto, Return, Locals, BlockSteps, PadSteps
<1>4. CASE LoadLength
  BY <1>1, <1>4 DEF LoadLength,
     log, history, incidents, Goto, Return, Locals, BlockSteps, PadSteps
<1>5. CASE NegateLength
  BY <1>1, <1>5 DEF NegateLength, TakeOver,
     log, history, incidents, Goto, Return, Locals, BlockSteps, PadSteps
<1>6. CASE ScanForward
  BY <1>1, <1>6 DEF ScanForward, LookAt, Pad, TakeOver,
     log, history, incidents, Goto, Return, Locals, BlockSteps, PadSteps
<1>7. CASE ScanBack
  BY <1>1, <1>7 DEF ScanBack, Pad, TakeOver,
     log, history, incidents, Goto, Return, Locals, BlockSteps, PadSteps
<1>8. CASE ApplyDefaultHeader \/ PadType
  BY <1>1, <1>8 DEF ApplyDefaultHeader, PadType,
     log, history, incidents, Goto, Return, Locals, BlockSteps, PadSteps
<1>9. CASE PadLength
  BY <1>1, <1>9 DEF PadLength,
     log, history, incidents, Goto, Return, Locals, BlockSteps, PadSteps
<1>10. CASE RotationRefused(Driver)
  BY <1>1, <1>10 DEF RotationRefused,
     log, history, incidents, Goto, Return, Locals, BlockSteps, PadSteps
<1>11. CASE LoadNextTail(Driver)
  BY <1>1, <1>11 DEF LoadNextTail,
     log, history, incidents, Goto, Return, Locals, BlockSteps, PadSteps
<1>12. CASE CompareAndSetNextTail(Driver)
  BY <1>1, <1>12 DEF CompareAndSetNextTail,
     log, history, incidents, Goto, Return, Locals, BlockSteps, PadSteps
<1>13. CASE CompareAndSetTermCount(Driver)
  BY <1>1, <1>13 DEF CompareAndSetTermCount,
     log, history, incidents, Goto, Return, Locals, BlockSteps, PadSteps
<1> QED BY <1>2, <1>3, <1>4, <1>5, <1>6, <1>7, <1>8, <1>9, <1>10, <1>11, <1>12, <1>13
        DEF UnblockStep, RotateStep

\* So it stays where it unblocks, and rotates no term ahead of the subscriber.
LEMMA DriverPlaceWorks ==
  ASSUME Known, UnblockStep,
         ~ (CompareAndSetNextTail(Driver) /\ raw_tail[NextIndex(Driver)] = thread[Driver].raw)
  PROVE  DriverPlace'
<1>1. PICK d, new : d = thread[Driver] /\ new = thread'[Driver]
  OBVIOUS
<1>2. /\ UNCHANGED << raw_tail, claims, limit, subscriber >>
      /\ \/ new.pc = "idle"
         \/ /\ new.partition = d.partition /\ new.offset = d.offset
            /\ \/ /\ d.pc = "current_tail" /\ new.pc = "rotate"
                  /\ new.term_id = raw_tail[index_by_term_count(d.count)].term_id
               \/ /\ d.pc = "blocked_tail" /\ new.pc = "length"
                  /\ new.term_id = raw_tail[d.partition].term_id
               \/ /\ d.pc \in BlockSteps \ {"blocked_tail"}
                  /\ new.pc \in (BlockSteps \ {"blocked_tail"}) \cup {"rotate"}
                  /\ new.term_id = d.term_id
               \/ /\ d.pc \in {"rotate", "rotate_tail"} /\ new.pc \in {"rotate", "rotate_tail"}
                  /\ new.term_id = d.term_id
  BY <1>1, DriverWorks
<1>3. PICK c \in Nat : c = ReadCount /\ c = ReadCount'
  BY <1>2, KnownTypes DEF ReadCount
<1>4. Cleaned' = Cleaned /\ \A i : TermOfPartition(i)' = TermOfPartition(i)
  BY <1>2 DEF Cleaned, TermOfPartition
<1>5. d.term_id \in Int /\ d.count \in Int /\ d.partition \in Partitions
  BY <1>1, KnownTypes
<1>6. CASE new.pc \in {"rotate", "rotate_tail"}
  <2>1. new.term_id - InitialTermId <= c
    <3>1. CASE d.pc = "current_tail"
      <4>1. PICK k \in Int, i \in Partitions : k = d.count /\ i = index_by_term_count(k)
        BY <1>5, SameIndex
      <4>2. k + 1 <= c
        BY <1>1, <1>3, <3>1, <4>1 DEF Known, AllSound, PlacesSound, DriverPlace
      <4>3. TermOfPartition(i) <= k + 2 /\ TermOfPartition(i) \in Int /\ index_by_term_count(TermOfPartition(i)) = i
        BY <1>1, <3>1, <4>1, KnownTypes DEF Known, StepInv, DriverSound, WithinRound, WillBeRefused
      <4>4. PICK e \in Int : e = TermOfPartition(i)
        BY <4>3
      <4>5. e = k \/ e <= k - 3 \/ k <= e - 3
        BY <4>1, <4>3, <4>4, SameIndex
      <4>6. e <= c
        BY <4>2, <4>3, <4>4, <4>5
      <4>7. new.term_id - InitialTermId = e
        BY <1>2, <1>6, <3>1, <4>1, <4>4 DEF TermOfPartition, BlockSteps, PadSteps
      <4> QED BY <4>6, <4>7
    <3>2. CASE d.pc \in BlockSteps \ {"blocked_tail"}
      <4>1. new.term_id = d.term_id
        BY <1>2, <1>6, <3>2 DEF BlockSteps, PadSteps
      <4>2. BlockedCount <= c /\ d.term_id - InitialTermId = BlockedCount
        BY <1>1, <1>3, <3>2 DEF Known, AllSound, PlacesSound, DriverPlace, Blocked
      <4> QED BY <4>1, <4>2
    <3>3. CASE d.pc \in {"rotate", "rotate_tail"}
      <4>1. new.term_id = d.term_id
        BY <1>2, <1>6, <3>3 DEF BlockSteps, PadSteps
      <4>2. d.term_id - InitialTermId <= c
        BY <1>1, <1>3, <3>3 DEF Known, AllSound, PlacesSound, DriverPlace
      <4> QED BY <4>1, <4>2
    <3> QED BY <1>2, <1>6, <3>1, <3>2, <3>3
  <2> QED BY <1>1, <1>3, <1>6, <2>1 DEF DriverPlace, Blocked, BlockSteps, PadSteps
<1>7. CASE new.pc \in BlockSteps
  <2>1. Blocked /\ new.partition = d.partition /\ new.offset = d.offset /\ new.pc # "blocked_tail"
    BY <1>1, <1>2, <1>7 DEF Blocked, BlockSteps, PadSteps
  <2>2. BlockedCount' = BlockedCount
    BY <1>1, <1>4, <2>1 DEF BlockedCount
  <2>3. /\ \E n \in DOMAIN claims : TermCount(n) = BlockedCount /\ TermOffset(n) = d.offset
        /\ Cleaned <= BlockedCount /\ BlockedCount <= c
        /\ \A i \in Partitions : TermOfPartition(i) <= BlockedCount + 2
        /\ d.pc # "blocked_tail" => d.term_id - InitialTermId = BlockedCount
    BY <1>1, <1>3, <2>1 DEF Known, AllSound, PlacesSound, DriverPlace
  <2>4. new.term_id - InitialTermId = BlockedCount
    <3>1. CASE d.pc = "blocked_tail"
      <4>1. new.term_id = raw_tail[d.partition].term_id
        BY <1>2, <1>7, <3>1 DEF BlockSteps, PadSteps
      <4> QED BY <1>1, <4>1 DEF BlockedCount, TermOfPartition
    <3>2. CASE d.pc # "blocked_tail"
      <4>1. new.term_id = d.term_id
        BY <1>1, <1>2, <1>7, <2>1, <3>2 DEF Blocked, BlockSteps, PadSteps
      <4> QED BY <2>3, <3>2, <4>1
    <3> QED BY <3>1, <3>2
  <2>5. \E n \in DOMAIN claims' : TermCount(n)' = BlockedCount' /\ TermOffset(n)' = new.offset
    BY <1>2, <2>1, <2>2, <2>3 DEF TermCount, TermOffset, Count, Offset
  <2>6. /\ Cleaned' <= BlockedCount' /\ BlockedCount' <= ReadCount'
        /\ \A i \in Partitions : TermOfPartition(i)' <= BlockedCount' + 2
        /\ new.term_id - InitialTermId = BlockedCount'
    BY <1>3, <1>4, <2>2, <2>3, <2>4
  <2> QED BY <1>1, <1>7, <2>5, <2>6 DEF DriverPlace, BlockSteps, PadSteps
<1>8. CASE new.pc = "idle"
  BY <1>1, <1>8 DEF DriverPlace, Blocked, BlockSteps, PadSteps
<1>9. new.pc \in {"rotate", "rotate_tail"} \/ new.pc \in BlockSteps \/ new.pc = "idle"
  BY <1>2 DEF BlockSteps, PadSteps
<1> QED BY <1>6, <1>7, <1>8, <1>9

\* Whoever replaces a tail.
LEMMA DriverPlaceNext ==
  ASSUME RoomLeft, Known, NEW t \in Threads, CompareAndSetNextTail(t),
         raw_tail[NextIndex(t)] = thread[t].raw
  PROVE  DriverPlace'
<1>1. PICK a \in Nat, j \in Partitions :
        /\ Replaced(t, a, j)
        /\ Blocked => j # thread[Driver].partition /\ a + 1 <= BlockedCount + 2
  BY NextTailPlace
<1>2. /\ TermOfPartition(j)' = a + 1
      /\ \A i \in Partitions : i # j => TermOfPartition(i)' = TermOfPartition(i)
  BY <1>1 DEF Replaced
<1>3. /\ thread[t].pc = "rotate_tail" /\ thread' = [thread EXCEPT ![t].pc = "rotate_count"]
      /\ thread[t] \in Locals /\ thread \in [Threads -> Locals] /\ Driver \in Threads
  BY KnownTypes DEF CompareAndSetNextTail, Goto
<1>4. CASE t = Driver
  <2>1. thread'[Driver].pc = "rotate_count"
    BY <1>3, <1>4 DEF Locals
  <2> QED BY <2>1 DEF DriverPlace, Blocked, BlockSteps, PadSteps
<1>5. CASE t # Driver
  <2>1. thread'[Driver] = thread[Driver]
    BY <1>3, <1>5
  <2>2. ASSUME Blocked
        PROVE  /\ BlockedCount' = BlockedCount
               /\ \A i \in Partitions : TermOfPartition(i)' <= BlockedCount + 2
    <3>1. PICK k \in Partitions : k = thread[Driver].partition /\ k # j
      BY <1>1, <2>2, KnownTypes
    <3>2. BlockedCount' = BlockedCount
      BY <1>2, <2>1, <3>1 DEF BlockedCount
    <3>3. \A i \in Partitions : TermOfPartition(i) <= BlockedCount + 2
      BY <2>2 DEF Known, AllSound, PlacesSound, DriverPlace
    <3> QED BY <1>1, <1>2, <2>2, <3>2, <3>3
  <2> QED BY <2>1, <2>2, DriverPlaceKept, OnwardNext
<1> QED BY <1>4, <1>5

\* The driver starts to unblock the claim that the subscriber waits for, or the next term.
LEMMA DriverPlaceUnblock ==
  ASSUME Known, Unblock
  PROVE  DriverPlace'
<1>1. PICK P \in Nat : P = subscriber.position
  BY KnownTypes, StepTypes DEF Known
<1>2. PICK c, o \in Nat : c = ReadCount /\ o = Offset(P) /\ c = Count(P)
  BY <1>1, PositionSplits DEF ReadCount
<1> DEFINE next == Offset(P) = 0 /\ Count(P) = active_term_count + 1
           new == [Idle EXCEPT !.pc = IF next THEN "current_tail" ELSE "blocked_tail",
                               !.count = active_term_count,
                               !.partition = index_by_term_count(Count(P)), !.offset = Offset(P)]
<1>3. /\ UNCHANGED << raw_tail, claims, limit, subscriber >>
      /\ thread' = [thread EXCEPT ![Driver] = new]
      /\ \/ next
         \/ \E p \in Publishers : BlockedBy(p, P)
  BY <1>1 DEF Unblock, log, history
<1>4. /\ new.pc = IF next THEN "current_tail" ELSE "blocked_tail"
      /\ new.count = active_term_count /\ new.partition = index_by_term_count(c) /\ new.offset = o
  BY <1>2 DEF Idle
<1>5. thread'[Driver] = new
  BY <1>3, KnownTypes
<1> HIDE DEF new
<1>6. ReadCount' = c /\ Cleaned' = Cleaned
  BY <1>2, <1>3 DEF ReadCount, Cleaned, Count
<1>9. \A i \in Partitions : TermOfPartition(i)' = TermOfPartition(i)
  BY <1>3 DEF TermOfPartition
<1>7. CASE next
  <2>1. new.pc = "current_tail" /\ new.count + 1 = c
    BY <1>2, <1>4, <1>7
  <2>2. new.count + 1 <= ReadCount'
    BY <1>2, <1>6, <2>1
  <2> QED BY <1>5, <2>1, <2>2 DEF DriverPlace, Blocked, BlockSteps, PadSteps
<1>8. CASE ~ next
  <2>1. PICK p \in Publishers : BlockedBy(p, P)
    BY <1>3, <1>8
  <2>2. PICK m \in Nat : m = thread[p].claim /\ m \in DOMAIN claims /\ claims[m].position = P
    <3>1. thread[p].claim > 0 /\ claims[thread[p].claim].position = P /\ thread[p].claim \in Nat
          /\ p \in Threads
      BY <2>1, KnownTypes DEF BlockedBy
    <3>2. thread[p].claim <= Len(claims)
      BY <3>1 DEF Known, ClaimsMade
    <3>3. claims \in Seq(Claim)
      BY DEF Known, IInv, TypeOK
    <3> QED BY <3>1, <3>2, <3>3
  <2>3. TermCount(m) = c /\ TermOffset(m) = o
    BY <1>2, <2>2 DEF TermCount, TermOffset
  <2>4. TermOfPartition(index_by_term_count(c)) = c
    BY <1>2, <2>2, <2>3, ClaimCurrent
  <2>5. BlockedCount' = c
    <3>1. index_by_term_count(c) \in Partitions
      BY <1>2, SameIndex
    <3>2. BlockedCount' = TermOfPartition(index_by_term_count(c))'
      BY <1>4, <1>5 DEF BlockedCount, TermOfPartition, index_by_term_count
    <3>3. TermOfPartition(index_by_term_count(c))' = c
      BY <1>3, <2>4 DEF TermOfPartition, index_by_term_count
    <3> QED BY <3>2, <3>3
  <2>6. m \in DOMAIN claims' /\ TermCount(m)' = c /\ TermOffset(m)' = o
    BY <1>3, <2>2, <2>3 DEF TermCount, TermOffset, Count, Offset
  <2>7. /\ Cleaned' <= c /\ c <= ReadCount'
        /\ \A i \in Partitions : TermOfPartition(i)' <= c + 2
    BY <1>2, <1>6, <1>9, KnownTypes
  <2> QED BY <1>4, <1>5, <1>8, <2>5, <2>6, <2>7 DEF DriverPlace, Blocked, BlockSteps, PadSteps
<1> QED BY <1>7, <1>8

\* While the driver does nothing, what it will make padding of stays so.
LEMMA DriverPadsKept ==
  ASSUME Known, Onward, thread'[Driver] = thread[Driver], Blocked => BlockedCount' = BlockedCount
  PROVE  DriverPads'
<1>1. PICK d : /\ d = thread[Driver] /\ d = thread'[Driver] /\ d.offset \in Nat /\ d.length \in Int
               /\ d.raw.term_offset \in Nat
  BY KnownTypes
<1>2. CASE ~ Blocked
  BY <1>1, <1>2 DEF DriverPads, Blocked, BlockSteps, PadSteps
<1>3. CASE Blocked
  <2>1. PICK b \in Nat, m \in DOMAIN claims :
          b = BlockedCount /\ TermCount(m) = b /\ TermOffset(m) = d.offset
    BY <1>1, <1>3, BlockedPlace
  <2>2. BlockedCount' = b /\ (b = ReadCount' => b = ReadCount)
    <3>1. BlockedCount <= ReadCount
      BY <1>3, BlockedPlace
    <3> QED BY <1>3, <2>1, <3>1, KnownTypes DEF Onward
  <2>3. \A o \in Nat : Reaches(b, o) => Reaches(b, o)'
    BY <1>3, <2>1 DEF Onward
  <2>4. /\ d.pc = "forward" =>
             /\ d.offset < d.raw.term_offset /\ d.offset <= d.scan /\ d.scan <= TermLength
        /\ d.pc \in {"length", "forward"} /\ d.raw.term_offset <= TermLength =>
             Reaches(b, d.raw.term_offset)
        /\ d.pc = "length" => d.offset < d.raw.term_offset
        /\ d.pc \in {"back"} \cup PadSteps /\ b = ReadCount =>
             d.length >= 0 /\ Reaches(b, d.offset + d.length)
        /\ d.pc \in PadSteps /\ b = ReadCount => d.length > 0
    BY <1>1, <2>1 DEF Known, AllSound, DriverPads
  <2>5. d.pc \in {"length", "forward"} /\ d.raw.term_offset <= TermLength =>
          Reaches(BlockedCount, d.raw.term_offset)'
    <3>1. PICK o \in Nat : o = d.raw.term_offset
      BY <1>1
    <3>2. Reaches(b, o)' => Reaches(BlockedCount, d.raw.term_offset)'
      BY <2>2, <3>1 DEF Reaches, index_by_term_count
    <3> QED BY <2>3, <2>4, <3>1, <3>2
  <2>6. d.pc \in {"back"} \cup PadSteps /\ b = ReadCount => Reaches(BlockedCount, d.offset + d.length)'
    <3>1. SUFFICES ASSUME d.pc \in {"back"} \cup PadSteps /\ b = ReadCount
                   PROVE  Reaches(BlockedCount, d.offset + d.length)'
      OBVIOUS
    <3>2. PICK o \in Nat : o = d.offset + d.length /\ Reaches(b, o)
      BY <1>1, <2>4, <3>1
    <3>3. Reaches(b, o)'
      BY <2>3, <3>2
    <3> QED BY <2>2, <3>2, <3>3 DEF Reaches, index_by_term_count
  <2>7. ASSUME NEW n \in DOMAIN claims', TermCount(n)' = b, TermOffset(n)' = d.offset
        PROVE  n \in DOMAIN claims /\ claims'[n] = claims[n] /\ TermCount(n) = b /\ TermOffset(n) = d.offset
    <3>1. n \in DOMAIN claims
      <4>1. SUFFICES ASSUME n \notin DOMAIN claims PROVE FALSE
        OBVIOUS
      <4>2. EndOffset(m) <= d.offset
        BY <2>1, <2>7, <4>1 DEF Onward
      <4> QED BY <1>1, <2>1, <4>2, KnownClaims
    <3>2. claims'[n] = claims[n]
      BY <3>1 DEF Onward
    <3> QED BY <2>7, <3>1, <3>2, ClaimsStay
  <2>8. d.pc = "negate" /\ b = ReadCount =>
          \A n \in DOMAIN claims' : TermCount(n)' = b /\ TermOffset(n)' = d.offset =>
            d.length = claims'[n].length
    BY <1>1, <2>1, <2>7 DEF Known, AllSound, DriverPads
  <2>9. d.pc \in PadSteps /\ b = ReadCount =>
          \A n \in DOMAIN claims' : TermCount(n)' = b /\ TermOffset(n)' = d.offset =>
            claims'[n].position .. claims'[n].position + d.length - 1 \subseteq padded'
    <3>1. padded \subseteq padded'
      BY DEF Onward
    <3>2. ASSUME d.pc \in PadSteps, b = ReadCount,
                 NEW n \in DOMAIN claims', TermCount(n)' = b, TermOffset(n)' = d.offset
          PROVE  claims'[n].position .. claims'[n].position + d.length - 1 \subseteq padded'
      <4>1. n \in DOMAIN claims /\ claims'[n] = claims[n] /\ TermCount(n) = b /\ TermOffset(n) = d.offset
        BY <2>7, <3>2
      <4>2. claims[n].position .. claims[n].position + d.length - 1 \subseteq padded
        BY <1>1, <2>1, <3>2, <4>1 DEF Known, AllSound, DriverPads
      <4> QED BY <3>1, <4>1, <4>2
    <3> QED BY <3>2
  <2> HIDE <2>7
  <2> QED BY <1>1, <2>2, <2>4, <2>5, <2>6, <2>8, <2>9 DEF DriverPads
<1> QED BY <1>2, <1>3

\* The driver at the claim that it unblocks, of a term b: where it is, what the header is, and
\* that the steps that it takes there move no place.
AtFrame(d, b, m) ==
  /\ d = thread[Driver] /\ d \in Locals /\ d.offset \in Nat /\ d.length \in Int
  /\ d.raw.term_offset \in Nat /\ d.scan \in Int
  /\ b = BlockedCount /\ TermCount(m) = b /\ TermOffset(m) = d.offset
  /\ b <= ReadCount /\ ReadCount' = ReadCount /\ ReadCount \in Nat
  /\ d.pc # "blocked_tail" => d.term_id - InitialTermId = b
  /\ Frame(Driver) = HeaderOf(m) /\ Frame(Driver) \in Header
  /\ d.partition = index_by_term_count(b) /\ TermOfPartition(d.partition) = b
  /\ \A n \in DOMAIN claims : TermCount(n) = b /\ TermOffset(n) = d.offset => n = m
  /\ thread'[Driver].partition = d.partition => BlockedCount' = b
  /\ UNCHANGED << claims, raw_tail >>
  /\ \A o : Reaches(b, o)' <=> Reaches(b, o)
  /\ \A n \in DOMAIN claims : TermCount(n)' = TermCount(n) /\ TermOffset(n)' = TermOffset(n)

\* That is where it unblocks.
LEMMA DriverAtFrame ==
  ASSUME RoomLeft, Known, UnblockStep, Blocked
  PROVE  \E b \in Nat, m \in DOMAIN claims : AtFrame(thread[Driver], b, m)
<1>1. PICK m \in DOMAIN claims :
        /\ TermCount(m) = BlockedCount /\ TermOffset(m) = thread[Driver].offset
        /\ thread[Driver].partition = index_by_term_count(TermCount(m))
        /\ Cleaned <= TermCount(m) /\ TermCount(m) <= ReadCount /\ BlockedCount \in Nat
        /\ TermOfPartition(index_by_term_count(TermCount(m))) = TermCount(m)
  BY BlockedPlace
<1>2. PICK b \in Nat : b = BlockedCount
  BY <1>1
<1>3. UNCHANGED << raw_tail, claims, subscriber >>
  <2>1. CASE CompareAndSetNextTail(Driver)
    BY <2>1 DEF CompareAndSetNextTail, Blocked, BlockSteps, PadSteps
  <2>2. PICK d, new : d = thread[Driver] /\ new = thread'[Driver]
    OBVIOUS
  <2> QED BY <2>1, <2>2, DriverWorks
<1>4. ReadCount' = ReadCount
  BY <1>3 DEF ReadCount
<1>5. thread[Driver].pc # "blocked_tail" => thread[Driver].term_id - InitialTermId = b
  BY <1>2 DEF Known, AllSound, PlacesSound, DriverPlace
<1>6. Frame(Driver) = HeaderOf(m) /\ Frame(Driver) \in Header
  BY <1>1, KnownClaims DEF Frame, HeaderOf
<1>7. \A n \in DOMAIN claims : TermCount(n) = b /\ TermOffset(n) = thread[Driver].offset => n = m
  BY <1>1, <1>2, OnePlace
<1>8. thread'[Driver].partition = thread[Driver].partition => BlockedCount' = b
  BY <1>2, <1>3 DEF BlockedCount, TermOfPartition
<1>9. \A o : Reaches(b, o)' <=> Reaches(b, o)
  BY <1>3 DEF Reaches, TermOfPartition, TermCount, TermOffset, EndOffset, Count, Offset,
              index_by_term_count
<1>10. \A n \in DOMAIN claims : TermCount(n)' = TermCount(n) /\ TermOffset(n)' = TermOffset(n)
  BY <1>3 DEF TermCount, TermOffset, Count, Offset
<1>11. PICK d : /\ d = thread[Driver] /\ d \in Locals /\ d.offset \in Nat /\ d.length \in Int
                /\ d.raw.term_offset \in Nat /\ d.scan \in Int
  BY KnownTypes
<1>12. AtFrame(d, b, m)
  BY <1>1, <1>2, <1>3, <1>4, <1>5, <1>6, <1>7, <1>8, <1>9, <1>10, <1>11, KnownTypes DEF AtFrame
<1> QED BY <1>2, <1>11, <1>12

\* The positions that it takes over are those of the claim.
LEMMA TakesClaim ==
  ASSUME Known, Blocked, thread[Driver].pc # "blocked_tail", NEW length, TakeOver(length),
         NEW n \in DOMAIN claims, TermCount(n) = BlockedCount, TermOffset(n) = thread[Driver].offset
  PROVE  claims[n].position .. claims[n].position + length - 1 \subseteq padded'
<1>1. thread[Driver].term_id - InitialTermId = BlockedCount
  BY DEF Known, AllSound, PlacesSound, DriverPlace
<1>2. claims[n].position = TermCount(n) * TermLength + TermOffset(n)
  BY KnownClaims
<1> QED BY <1>1, <1>2 DEF TakeOver

\* What the driver will make padding of, after its step.
PadsAt(r, b) ==
  /\ r.partition = thread[Driver].partition /\ r = thread'[Driver]
  /\ r.pc = "forward" =>
       /\ r.offset < r.raw.term_offset /\ r.offset <= r.scan /\ r.scan <= TermLength
  /\ r.pc \in {"length", "forward"} /\ r.raw.term_offset <= TermLength =>
       Reaches(b, r.raw.term_offset)
  /\ r.pc = "length" => r.offset < r.raw.term_offset
  /\ r.pc = "negate" /\ b = ReadCount =>
       \A n \in DOMAIN claims : TermCount(n) = b /\ TermOffset(n) = r.offset =>
         r.length = claims[n].length
  /\ r.pc \in {"back"} \cup PadSteps /\ b = ReadCount =>
       r.length >= 0 /\ Reaches(b, r.offset + r.length)
  /\ r.pc \in PadSteps /\ b = ReadCount =>
       /\ r.length > 0
       /\ \A n \in DOMAIN claims : TermCount(n) = b /\ TermOffset(n) = r.offset =>
            claims[n].position .. claims[n].position + r.length - 1 \subseteq padded'

\* That is what the invariant says of it.
LEMMA PadsThere ==
  ASSUME NEW d, NEW b \in Nat, NEW m \in DOMAIN claims, NEW new, AtFrame(d, b, m), PadsAt(new, b)
  PROVE  DriverPads'
<1>1. BlockedCount' = b /\ ReadCount' = ReadCount /\ claims' = claims /\ new = thread'[Driver]
  BY DEF AtFrame, PadsAt
<1>2. \A n \in DOMAIN claims : TermCount(n)' = TermCount(n) /\ TermOffset(n)' = TermOffset(n)
  BY DEF AtFrame
<1>3. \A o : Reaches(b, o) => Reaches(BlockedCount, o)'
  <2>1. \A o : Reaches(b, o) => Reaches(b, o)'
    BY DEF AtFrame
  <2> QED BY <1>1, <2>1 DEF Reaches, index_by_term_count
<1>4. new.pc \in {"length", "forward"} /\ new.raw.term_offset <= TermLength =>
        Reaches(BlockedCount, thread[Driver].raw.term_offset)'
  <2>1. PICK o : o = new.raw.term_offset
    OBVIOUS
  <2>2. Reaches(BlockedCount, o)' => Reaches(BlockedCount, thread[Driver].raw.term_offset)'
    BY <1>1, <2>1 DEF Reaches
  <2> QED BY <1>3, <2>1, <2>2 DEF PadsAt
<1>5. new.pc \in {"back"} \cup PadSteps /\ b = ReadCount =>
        Reaches(BlockedCount, thread[Driver].offset + thread[Driver].length)'
  <2>1. PICK o : o = new.offset + new.length
    OBVIOUS
  <2>2. Reaches(BlockedCount, o)' => Reaches(BlockedCount, thread[Driver].offset + thread[Driver].length)'
    BY <1>1, <2>1 DEF Reaches
  <2> QED BY <1>3, <2>1, <2>2 DEF PadsAt
<1> QED BY <1>1, <1>2, <1>4, <1>5 DEF DriverPads, PadsAt

\* It loads the tail and the length at the blocked claim.
LEMMA PadsLoaded ==
  ASSUME RoomLeft, Known, NEW d, NEW b \in Nat, NEW m \in DOMAIN claims, AtFrame(d, b, m), Blocked,
         LoadBlockedTail \/ LoadLength, NEW new, new = thread'[Driver]
  PROVE  new.pc = "idle" \/ PadsAt(new, b)
<1>1. /\ d = thread[Driver] /\ d \in Locals /\ d.offset \in Nat /\ d.length \in Int
      /\ d.raw.term_offset \in Nat /\ b = BlockedCount /\ TermCount(m) = b /\ TermOffset(m) = d.offset
      /\ d.partition \in Partitions /\ d.partition = index_by_term_count(b) /\ TermOfPartition(d.partition) = b
      /\ Frame(Driver) = HeaderOf(m) /\ Frame(Driver) \in Header
      /\ \A n \in DOMAIN claims : TermCount(n) = b /\ TermOffset(n) = d.offset => n = m
  BY KnownTypes DEF AtFrame
<1>2. /\ thread \in [Threads -> Locals] /\ Driver \in Threads /\ Idle.pc = "idle"
  BY KnownTypes DEF Idle
<1>3. PICK o, e, t, T \in Nat : /\ o = d.offset /\ e = EndOffset(m) /\ t = raw_tail[d.partition].term_offset
                                /\ T = TermLength /\ o < e /\ e <= T
  BY <1>1, KnownTypes, KnownClaims
<1>4. e <= t
  BY <1>1, <1>3 DEF Known, AllSound, PlacesSound, ClaimsApart
<1>5. CASE LoadBlockedTail
  <2>1. /\ new.pc = "length" /\ new.raw = raw_tail[d.partition] /\ new.partition = d.partition
        /\ new.offset = o
    BY <1>1, <1>2, <1>3, <1>5 DEF LoadBlockedTail, Locals
  <2>2. t <= T => Reaches(b, t)
    BY <1>1, <1>3, TailReaches
  <2>3. o < t
    BY <1>3, <1>4
  <2> QED BY <1>1, <1>3, <2>1, <2>2, <2>3 DEF PadsAt, PadSteps
<1>6. CASE LoadLength
  <2>1. PICK h : h = Frame(Driver)
    OBVIOUS
  <2>2. /\ d.pc = "length"
        /\ \/ h.length < 0 /\ thread' = [thread EXCEPT ![Driver] = [d EXCEPT !.pc = "negate", !.length = - h.length]]
           \/ h.length = 0 /\ thread' = [thread EXCEPT ![Driver] = [d EXCEPT !.pc = "forward", !.scan = d.offset]]
           \/ thread' = [thread EXCEPT ![Driver] = Idle]
    BY <1>1, <1>6, <2>1 DEF LoadLength, Return
  <2>3. CASE h.length < 0 /\ thread' = [thread EXCEPT ![Driver] = [d EXCEPT !.pc = "negate", !.length = - h.length]]
    <3>1. new.pc = "negate" /\ new.length = - h.length /\ new.partition = d.partition /\ new.offset = o
      BY <1>1, <1>2, <1>3, <2>3 DEF Locals
    <3>2. b = ReadCount => h.length = - claims[m].length
      <4>1. SUFFICES ASSUME b = ReadCount PROVE h.length = - claims[m].length
        OBVIOUS
      <4>2. Sound(b)
        BY <4>1, ReadTermSound
      <4>3. HeaderSound(m, HeaderOf(m))
        BY <1>1, <4>2 DEF Known, AllSound, FramesSound, HeadersSound
      <4> QED BY <1>1, <2>1, <2>3, <4>3 DEF HeaderSound
    <3>3. claims[m].length \in Nat /\ h.length \in Int
      BY <1>1, <2>1, KnownClaims DEF Header
    <3>4. b = ReadCount => new.length = claims[m].length
      BY <3>1, <3>2, <3>3
    <3> QED BY <1>1, <1>3, <3>1, <3>4 DEF PadsAt, PadSteps
  <2>4. CASE thread' = [thread EXCEPT ![Driver] = [d EXCEPT !.pc = "forward", !.scan = d.offset]]
    <3>1. /\ new.pc = "forward" /\ new.scan = o /\ new.partition = d.partition /\ new.offset = o
          /\ new.raw = d.raw
      BY <1>1, <1>2, <1>3, <2>4 DEF Locals
    <3>2. /\ o < d.raw.term_offset
          /\ d.raw.term_offset <= TermLength => Reaches(b, d.raw.term_offset)
      BY <1>1, <1>3, <2>2 DEF Known, AllSound, DriverPads
    <3>3. o <= T
      BY <1>3
    <3> QED BY <1>1, <1>3, <3>1, <3>2, <3>3 DEF PadsAt, PadSteps
  <2>5. CASE thread' = [thread EXCEPT ![Driver] = Idle]
    BY <1>2, <2>5
  <2> QED BY <2>2, <2>3, <2>4, <2>5
<1> QED BY <1>5, <1>6

\* It takes an unfinished frame and writes the header of padding.
LEMMA PadsWritten ==
  ASSUME RoomLeft, Known, NEW d, NEW b \in Nat, NEW m \in DOMAIN claims, AtFrame(d, b, m), Blocked,
         NegateLength \/ ApplyDefaultHeader \/ PadType \/ PadLength, NEW new, new = thread'[Driver]
  PROVE  new.pc \in {"idle", "rotate"} \/ PadsAt(new, b)
<1>1. /\ d = thread[Driver] /\ d \in Locals /\ d.offset \in Nat /\ d.length \in Int
      /\ b = BlockedCount /\ b <= ReadCount /\ TermCount(m) = b /\ TermOffset(m) = d.offset
      /\ TermOfPartition(d.partition) = b /\ d.partition = index_by_term_count(b)
      /\ \A n \in DOMAIN claims : TermCount(n) = b /\ TermOffset(n) = d.offset => n = m
  BY DEF AtFrame
<1>2. /\ thread \in [Threads -> Locals] /\ Driver \in Threads /\ Idle.pc = "idle"
  BY KnownTypes DEF Idle
<1>3. CASE NegateLength
  <2>1. d.pc = "negate" /\ (thread' = [thread EXCEPT ![Driver] = Idle]
          \/ (TakeOver(d.length) /\ thread' = [thread EXCEPT ![Driver] = [d EXCEPT !.pc = "default_header"]]))
    BY <1>1, <1>3 DEF NegateLength, Return, Goto
  <2>2. CASE thread' = [thread EXCEPT ![Driver] = Idle]
    BY <1>2, <2>2
  <2>3. CASE TakeOver(d.length) /\ thread' = [thread EXCEPT ![Driver] = [d EXCEPT !.pc = "default_header"]]
    <3>1. /\ new.pc = "default_header" /\ new.length = d.length /\ new.partition = d.partition
          /\ new.offset = d.offset
      BY <1>1, <1>2, <2>3 DEF Locals
    <3>2. b = ReadCount => d.length = claims[m].length
      BY <1>1, <2>1 DEF Known, AllSound, DriverPads
    <3>3. claims[m].length > 0 /\ EndOffset(m) = TermOffset(m) + claims[m].length /\ claims[m].length \in Nat
      BY KnownClaims
    <3>4. Reaches(b, d.offset + claims[m].length)
      BY <1>1, <3>3, FrameReaches
    <3>5. claims[m].position .. claims[m].position + d.length - 1 \subseteq padded'
      BY <1>1, <2>1, <2>3, TakesClaim
    <3>6. b = ReadCount =>
            /\ d.length > 0 /\ d.length >= 0 /\ Reaches(b, d.offset + d.length)
            /\ \A n \in DOMAIN claims : TermCount(n) = b /\ TermOffset(n) = d.offset =>
                 claims[n].position .. claims[n].position + d.length - 1 \subseteq padded'
      BY <1>1, <3>2, <3>3, <3>4, <3>5
    <3> QED BY <1>1, <3>1, <3>6 DEF PadsAt, PadSteps
  <2> QED BY <2>1, <2>2, <2>3
<1>4. CASE ApplyDefaultHeader \/ PadType
  <2>1. /\ d.pc \in PadSteps /\ padded' = padded /\ new.pc \in {"pad_type", "pad_length"}
        /\ new.length = d.length /\ new.partition = d.partition /\ new.offset = d.offset
    BY <1>1, <1>2, <1>4 DEF ApplyDefaultHeader, PadType, Goto, history, Locals, PadSteps
  <2>2. b = ReadCount =>
            /\ d.length > 0 /\ d.length >= 0 /\ Reaches(b, d.offset + d.length)
            /\ \A n \in DOMAIN claims : TermCount(n) = b /\ TermOffset(n) = d.offset =>
                 claims[n].position .. claims[n].position + d.length - 1 \subseteq padded
    BY <1>1, <2>1 DEF Known, AllSound, DriverPads
  <2> QED BY <1>1, <2>1, <2>2 DEF PadsAt, PadSteps
<1>5. CASE PadLength
  BY <1>2, <1>5 DEF PadLength, Goto, Return, Locals
<1> QED BY <1>3, <1>4, <1>5

\* It makes padding up to the place where it looked.
LEMMA PadsMade ==
  ASSUME RoomLeft, Known, NEW d, NEW b \in Nat, NEW m \in DOMAIN claims, AtFrame(d, b, m), Blocked,
         d.pc # "blocked_tail", NEW length \in Int, NEW rotates, Pad(length, rotates), NEW new, new = thread'[Driver],
         length >= 0, b = ReadCount => Reaches(b, d.offset + length)
  PROVE  new.pc = "idle" \/ PadsAt(new, b)
<1>1. /\ d = thread[Driver] /\ d \in Locals /\ d.offset \in Nat
      /\ b = BlockedCount /\ TermCount(m) = b /\ TermOffset(m) = d.offset
      /\ \A n \in DOMAIN claims : TermCount(n) = b /\ TermOffset(n) = d.offset => n = m
  BY DEF AtFrame
<1>2. /\ thread \in [Threads -> Locals] /\ Driver \in Threads /\ Idle.pc = "idle"
  BY KnownTypes DEF Idle
<1>3. CASE thread' = [thread EXCEPT ![Driver] = Idle]
  BY <1>2, <1>3
<1>4. CASE /\ length # 0 /\ TakeOver(length)
           /\ thread' = [thread EXCEPT ![Driver].pc = "default_header", ![Driver].length = length,
                                       ![Driver].rotates = rotates]
  <2>1. /\ new.pc = "default_header" /\ new.length = length /\ new.partition = d.partition
        /\ new.offset = d.offset
    BY <1>1, <1>2, <1>4 DEF Locals
  <2>2. length > 0
    BY <1>4
  <2>3. claims[m].position .. claims[m].position + length - 1 \subseteq padded'
    BY <1>1, <1>4, TakesClaim
  <2> QED BY <1>1, <2>1, <2>2, <2>3 DEF PadsAt, PadSteps
<1> QED BY <1>3, <1>4 DEF Pad, Return

\* Where it finds a length is the beginning of a frame, and it does not look behind the end of the term.
LEMMA PadsScanned ==
  ASSUME RoomLeft, Known, NEW d, NEW b \in Nat, NEW m \in DOMAIN claims, AtFrame(d, b, m), Blocked,
         ScanForward \/ ScanBack, ~ Excused', NEW new, new = thread'[Driver]
  PROVE  new.pc = "idle" \/ PadsAt(new, b)
<1>1. /\ d = thread[Driver] /\ d \in Locals /\ d.offset \in Nat /\ d.scan \in Int /\ d.length \in Int
      /\ d.raw.term_offset \in Nat /\ b = BlockedCount /\ TermCount(m) = b /\ TermOffset(m) = d.offset
      /\ d.partition = index_by_term_count(b)
  BY DEF AtFrame
<1>2. /\ thread \in [Threads -> Locals] /\ Driver \in Threads /\ Idle.pc = "idle"
  BY KnownTypes DEF Idle
<1>3. PICK o, t, T \in Nat, s \in Int : /\ o = d.offset /\ t = d.raw.term_offset /\ T = TermLength
                                        /\ s = d.scan
  BY <1>1, KnownTypes
<1>4. CASE ScanForward
  <2>1. /\ d.pc = "forward"
        /\ \/ s < t /\ thread' = [thread EXCEPT ![Driver].scan = s + 1] /\ LookAt(s)
           \/ /\ s < t /\ MayBeNonZero(s) /\ LookAt(s)
              /\ thread' = [thread EXCEPT ![Driver].pc = "back", ![Driver].scan = s - 1,
                                          ![Driver].length = s - o]
           \/ s >= t /\ Pad(t - o, TRUE)
    BY <1>1, <1>3, <1>4 DEF ScanForward
  <2>2. /\ o < t /\ o <= s /\ s <= T
        /\ t <= T => Reaches(b, t)
    BY <1>1, <1>3, <2>1 DEF Known, AllSound, DriverPads
  <2>3. LookAt(s) => s < T /\ s \in Offsets /\ s \in Nat
    <3>1. LookAt(s) => s \in Offsets
      BY DEF LookAt, Excused
    <3> QED BY <1>3, <2>2, <3>1 DEF Offsets
  <2>4. CASE s < t /\ thread' = [thread EXCEPT ![Driver].scan = s + 1] /\ LookAt(s)
    <3>1. /\ new.pc = "forward" /\ new.scan = s + 1 /\ new.partition = d.partition /\ new.offset = o
          /\ new.raw = d.raw
      BY <1>1, <1>2, <1>3, <2>1, <2>4 DEF Locals
    <3>2. o <= s + 1 /\ s + 1 <= T
      BY <1>3, <2>2, <2>3, <2>4
    <3> QED BY <1>1, <1>3, <2>2, <3>1, <3>2 DEF PadsAt, PadSteps
  <2>5. CASE /\ s < t /\ MayBeNonZero(s) /\ LookAt(s)
             /\ thread' = [thread EXCEPT ![Driver].pc = "back", ![Driver].scan = s - 1,
                                         ![Driver].length = s - o]
    <3>1. /\ new.pc = "back" /\ new.length = s - o /\ new.partition = d.partition /\ new.offset = o
      BY <1>1, <1>2, <1>3, <2>5 DEF Locals
    <3>2. b = ReadCount => Reaches(b, s)
      <4>1. SUFFICES ASSUME b = ReadCount PROVE Reaches(b, s)
        OBVIOUS
      <4>2. Sound(b) /\ b \in ReadCount .. ReadCount + 2
        BY <4>1, ReadTermSound, KnownTypes
      <4>3. term[index_by_term_count(b)][s].length # 0
        BY <1>1, <2>3, <2>5 DEF MayBeNonZero
      <4>4. PICK n \in DOMAIN claims : TermCount(n) = b /\ TermOffset(n) = s
        BY <2>3, <2>5, <4>2, <4>3 DEF Known, AllSound, FramesSound, UnclaimedEmpty
      <4>5. TermOfPartition(index_by_term_count(TermCount(n))) = TermCount(n)
        BY <4>1, <4>4, ClaimCurrent, KnownTypes
      <4> QED BY <4>4, <4>5, FrameReaches
    <3>3. s - o >= 0 /\ o + (s - o) = s
      BY <1>3, <2>2
    <3> QED BY <1>1, <1>3, <3>1, <3>2, <3>3 DEF PadsAt, PadSteps
  <2>6. CASE s >= t /\ Pad(t - o, TRUE)
    <3>1. t <= T /\ t - o >= 0 /\ t - o \in Int /\ o + (t - o) = t
      BY <1>3, <2>2, <2>6
    <3>2. Reaches(b, d.offset + (t - o))
      BY <1>3, <2>2, <3>1
    <3> QED BY <2>1, <2>6, <3>1, <3>2, PadsMade
  <2> QED BY <2>1, <2>4, <2>5, <2>6
<1>5. CASE ScanBack
  <2>1. /\ d.pc = "back"
        /\ \/ thread' = [thread EXCEPT ![Driver].scan = s - 1]
           \/ thread' = [thread EXCEPT ![Driver] = Idle]
           \/ Pad(d.length, FALSE)
    BY <1>1, <1>3, <1>5 DEF ScanBack, Return
  <2>2. b = ReadCount => d.length >= 0 /\ Reaches(b, d.offset + d.length)
    BY <1>1, <2>1 DEF Known, AllSound, DriverPads
  <2>3. CASE thread' = [thread EXCEPT ![Driver].scan = s - 1]
    <3>1. /\ new.pc = "back" /\ new.length = d.length /\ new.partition = d.partition /\ new.offset = d.offset
      BY <1>1, <1>2, <2>1, <2>3 DEF Locals
    <3> QED BY <1>1, <2>2, <3>1 DEF PadsAt, PadSteps
  <2>4. CASE thread' = [thread EXCEPT ![Driver] = Idle]
    BY <1>2, <2>4
  <2>5. CASE Pad(d.length, FALSE)
    <3>1. CASE b = ReadCount
      BY <1>1, <2>1, <2>2, <2>5, <3>1, PadsMade
    <3>2. CASE b # ReadCount
      <4>1. \/ thread' = [thread EXCEPT ![Driver] = Idle]
            \/ thread' = [thread EXCEPT ![Driver].pc = "default_header", ![Driver].length = d.length,
                                        ![Driver].rotates = FALSE]
        BY <2>5 DEF Pad, Return
      <4>2. new.pc = "idle" \/ (new.pc = "default_header" /\ new.partition = d.partition)
        BY <1>1, <1>2, <4>1 DEF Locals
      <4> QED BY <1>1, <3>2, <4>2 DEF PadsAt, PadSteps
    <3> QED BY <3>1, <3>2
  <2> QED BY <2>1, <2>3, <2>4, <2>5
<1> QED BY <1>4, <1>5

\* What it makes padding of ends at a frame or at the tail.
LEMMA DriverPadsWorks ==
  ASSUME RoomLeft, Known, UnblockStep, ~ Excused'
  PROVE  DriverPads'
<1>1. PICK d, new : d = thread[Driver] /\ new = thread'[Driver]
  OBVIOUS
<1>2. CASE ~ Blocked
  <2>1. new.pc \notin BlockSteps
    <3>1. CASE CompareAndSetNextTail(Driver)
      BY <1>1, <3>1, KnownTypes DEF CompareAndSetNextTail, Goto, Locals, BlockSteps, PadSteps
    <3>2. CASE ~ CompareAndSetNextTail(Driver)
      BY <1>1, <1>2, <3>2, DriverWorks DEF Blocked, BlockSteps, PadSteps
    <3> QED BY <3>1, <3>2
  <2> QED BY <1>1, <2>1 DEF DriverPads, BlockSteps, PadSteps
<1>3. CASE Blocked
  <2>1. PICK b \in Nat, m \in DOMAIN claims : AtFrame(d, b, m)
    BY <1>1, <1>3, DriverAtFrame
  <2>2. \/ LoadBlockedTail \/ LoadLength \/ NegateLength \/ ScanForward \/ ScanBack
        \/ ApplyDefaultHeader \/ PadType \/ PadLength
    BY <1>3 DEF UnblockStep, RotateStep, LoadCurrentTail, RotationRefused, LoadNextTail,
                CompareAndSetNextTail, CompareAndSetTermCount, Blocked, BlockSteps, PadSteps
  <2>3. new.pc \in {"idle", "rotate"} \/ PadsAt(new, b)
    BY <1>1, <1>3, <2>1, <2>2, PadsLoaded, PadsWritten, PadsScanned
  <2>4. CASE new.pc \in {"idle", "rotate"}
    BY <1>1, <2>4 DEF DriverPads, PadSteps
  <2>5. CASE PadsAt(new, b)
    BY <2>1, <2>5, PadsThere
  <2> QED BY <2>3, <2>4, <2>5
<1> QED BY <1>2, <1>3

\* What was taken over remains so.
LEMMA TakenStays ==
  ASSUME Known, Onward, NEW n \in DOMAIN claims, ReadCount <= TermCount(n), NEW length \in Nat, Taken(n, length)
  PROVE  Taken(n, length)'
<1>1. PICK c, o, e \in Nat : c = TermCount(n) /\ o = TermOffset(n) /\ e = o + length
  BY KnownClaims
<1>2. Reaches(c, e)
  BY <1>1 DEF Taken
<1>3. Reaches(c, e)'
  BY <1>1, <1>2 DEF Onward
<1>4. claims'[n] = claims[n] /\ padded \subseteq padded'
  BY DEF Onward
<1>5. TermCount(n)' = c /\ TermOffset(n)' = o
  BY <1>1, <1>4, ClaimsStay
<1>6. Reaches(TermCount(n), TermOffset(n) + length)'
  BY <1>1, <1>3, <1>5 DEF Reaches, index_by_term_count
<1> QED BY <1>4, <1>6 DEF Taken

\* A header remains sound while nobody writes at its claim.
LEMMA HeaderKept ==
  ASSUME Known, Onward, NEW n \in DOMAIN claims, ReadCount <= TermCount(n),
         NEW h \in Header, HeaderSound(n, h), n \in committed' <=> n \in committed,
         \A p \in Publishers : Writes(p, n)' => Writes(p, n) /\ thread'[p].pc = thread[p].pc
  PROVE  HeaderSound(n, h)'
<1>1. claims'[n] = claims[n] /\ padded \subseteq padded'
  BY DEF Onward
<1>2. h.length > 0 /\ Taken(n, h.length) => Taken(n, h.length)'
  BY TakenStays DEF Header
<1>3. /\ h.claim \in {0, n}
      /\ h.length < 0 => h.length = - claims'[n].length
      /\ h.length > 0 => h.length = claims'[n].length \/ Taken(n, h.length)'
  BY <1>1, <1>2 DEF HeaderSound
<1>4. claims'[n].position \notin padded' =>
       /\ h.length > 0 => /\ h.length = claims'[n].length
                          /\ \A p \in Publishers : ~ Writes(p, n)'
                          /\ n \in committed' <=> h.type = "DATA"
                          /\ h.type = "DATA" => h.claim = n
       /\ \A p \in Publishers : Writes(p, n)' =>
            /\ thread'[p].pc = "payload" => h.type = "DATA" /\ h.claim = n
            /\ thread'[p].pc = "abort" => h.type = "PAD"
  BY <1>1 DEF HeaderSound
<1> QED BY <1>3, <1>4 DEF HeaderSound

\* While the subscriber stays, so does what is known of the frames behind it.
LEMMA ReadKept ==
  ASSUME Known, Onward, UNCHANGED << subscriber, delivered >>, committed \subseteq committed',
         \A p \in Publishers, n \in DOMAIN claims : Writes(p, n)' => Writes(p, n),
         \A n \in committed' : n \in committed \/ \E p \in Publishers : Writes(p, n),
         \A n \in DOMAIN claims' : n \notin DOMAIN claims => ~ Passed(n)'
  PROVE  PassedSound' /\ DeliveredSound'
<1>1. /\ ReadCount' = ReadCount /\ ReadOffset' = ReadOffset
      /\ padded \subseteq padded' /\ \A n \in DOMAIN claims : n \in DOMAIN claims' /\ claims'[n] = claims[n]
  BY DEF Onward, ReadCount, ReadOffset, Count, Offset
<1>2. \A n : HandedOver(n)' <=> HandedOver(n)
  BY DEF HandedOver
<1>3. \A n \in DOMAIN claims : Passed(n)' <=> Passed(n)
  BY <1>1, ClaimsStay DEF Passed
<1>4. PassedSound'
  BY <1>1, <1>2, <1>3 DEF PassedSound, Known, AllSound, ReadSound
<1>5. DeliveredSound'
  BY <1>1 DEF DeliveredSound, Known, AllSound, ReadSound
<1> QED BY <1>4, <1>5

\* And the frame it is at.
LEMMA SubscriberKept ==
  ASSUME Known, Onward, UNCHANGED subscriber,
         \A n \in DOMAIN claims :
           TermCount(n) = ReadCount /\ HeaderOf(n).length > 0 /\ claims[n].position \notin padded' =>
             HeaderOf(n)'.length > 0
  PROVE  SubscriberSound'
<1>1. /\ ReadCount' = ReadCount
      /\ padded \subseteq padded' /\ \A n \in DOMAIN claims : n \in DOMAIN claims' /\ claims'[n] = claims[n]
  BY DEF Onward, ReadCount, Count
<1>2. SUFFICES ASSUME subscriber.pc = "type" PROVE SubscriberSound'
  BY DEF SubscriberSound
<1>3. PICK n \in DOMAIN claims :
      /\ TermCount(n) = ReadCount /\ TermOffset(n) = subscriber.offset
      /\ subscriber.length > 0
      /\ subscriber.length = claims[n].length \/ Taken(n, subscriber.length)
      /\ claims[n].position \notin padded =>
           subscriber.length = claims[n].length /\ HeaderOf(n).length > 0
  BY <1>2 DEF Known, AllSound, FramesSound, SubscriberSound
<1>4. subscriber.length \in Nat
  BY StepTypes DEF Known
<1>5. ReadCount <= TermCount(n)
  BY <1>3, KnownTypes
<1>6. Taken(n, subscriber.length) => Taken(n, subscriber.length)'
  <2>1. PICK l \in Nat : l = subscriber.length
    BY <1>4
  <2>2. Taken(n, l) => Taken(n, l)'
    BY <1>5, TakenStays
  <2> QED BY <2>1, <2>2 DEF Taken, Reaches
<1>7. TermCount(n)' = TermCount(n) /\ TermOffset(n)' = TermOffset(n)
  BY <1>1, ClaimsStay
<1> QED BY <1>1, <1>3, <1>6, <1>7 DEF SubscriberSound

\* While nobody writes headers, they remain sound.
LEMMA TermKept ==
  ASSUME Known, Onward, UNCHANGED << term, subscriber >>,
         \A n \in DOMAIN claims : n \in committed' <=> n \in committed,
         \A p \in Publishers, n \in DOMAIN claims :
           Writes(p, n)' => Writes(p, n) /\ thread'[p].pc = thread[p].pc,
         \A n \in DOMAIN claims' : n \notin DOMAIN claims =>
           (Sound(TermCount(n)) => HeaderSound(n, HeaderOf(n)))'
  PROVE  UnclaimedEmpty' /\ HeadersSound' /\ SubscriberSound'
<1>1. ReadCount' = ReadCount /\ ReadCount \in Nat
  BY KnownTypes DEF ReadCount, Count
<1>2. ASSUME NEW n \in DOMAIN claims
      PROVE  /\ n \in DOMAIN claims' /\ claims'[n] = claims[n]
             /\ TermCount(n)' = TermCount(n) /\ TermOffset(n)' = TermOffset(n) /\ HeaderOf(n)' = HeaderOf(n)
  <2>1. n \in DOMAIN claims' /\ claims'[n] = claims[n]
    BY DEF Onward
  <2>2. TermCount(n)' = TermCount(n) /\ TermOffset(n)' = TermOffset(n)
    BY <2>1, ClaimsStay
  <2> QED BY <2>1, <2>2 DEF HeaderOf, index_by_term_count
<1>3. UnclaimedEmpty'
  <2>1. ASSUME NEW count \in ReadCount .. ReadCount + 2, NEW offset \in Offsets, Sound(count)',
               NEW h, h = term[index_by_term_count(count)][offset]
        PROVE  \/ h.length = 0 /\ h.claim = 0
               \/ \E n \in DOMAIN claims' : TermCount(n)' = count /\ TermOffset(n)' = offset
    <3>1. count \in Int /\ Sound(count)
      BY <1>1, <2>1 DEF Onward
    <3>2. \/ h.length = 0 /\ h.claim = 0
          \/ \E n \in DOMAIN claims : TermCount(n) = count /\ TermOffset(n) = offset
      BY <2>1, <3>1 DEF Known, AllSound, FramesSound, UnclaimedEmpty
    <3> QED BY <1>2, <3>2
  <2> QED BY <1>1, <2>1 DEF UnclaimedEmpty, index_by_term_count
<1>4. HeadersSound'
  <2>1. ASSUME NEW n \in DOMAIN claims', Sound(TermCount(n))' PROVE HeaderSound(n, HeaderOf(n))'
    <3>1. CASE n \notin DOMAIN claims
      BY <2>1, <3>1
    <3>2. CASE n \in DOMAIN claims
      <4>1. PICK c \in Nat, h \in Header : c = TermCount(n) /\ h = HeaderOf(n)
        BY <3>2, KnownClaims
      <4>2. Sound(c)'
        BY <1>2, <2>1, <3>2, <4>1 DEF Sound, Cut, Dirty, index_by_term_count
      <4>3. Sound(c)
        BY <4>1, <4>2 DEF Onward
      <4>4. HeaderSound(n, h) /\ ReadCount <= c
        BY <3>2, <4>1, <4>3 DEF Known, AllSound, FramesSound, HeadersSound, Sound
      <4>5. HeaderSound(n, h)'
        BY <3>2, <4>1, <4>4, HeaderKept
      <4> QED BY <1>2, <3>2, <4>1, <4>5 DEF HeaderSound
    <3> QED BY <3>1, <3>2
  <2> QED BY <2>1 DEF HeadersSound
<1>5. SubscriberSound'
  BY <1>2, SubscriberKept
<1> QED BY <1>3, <1>4, <1>5

\* While the claims stay, and the publishers that write work at their claims, so do these.
LEMMA WritersKept ==
  ASSUME Known, Onward, UNCHANGED claims, committed' \subseteq DOMAIN claims,
         \A p \in Publishers : thread'[p].pc \in WriteSteps =>
           /\ thread[p].pc \in WriteSteps /\ thread'[p].claim = thread[p].claim
           /\ thread'[p].claim \notin committed'
           /\ thread'[p].count = thread[p].count /\ thread'[p].partition = thread[p].partition
           /\ thread'[p].offset = thread[p].offset /\ thread'[p].length = thread[p].length
  PROVE  WritersSound'
<1>1. Cleaned' = Cleaned
  BY DEF Onward, Cleaned, Count
<1>2. \A n \in DOMAIN claims : TermCount(n)' = TermCount(n) /\ TermOffset(n)' = TermOffset(n)
  BY ClaimsStay
<1>3. WritersSound
  BY DEF Known, AllSound, FramesSound
<1>4. ASSUME NEW p \in Publishers, thread'[p].pc \in WriteSteps, NEW n, n = thread'[p].claim
      PROVE  /\ n \in DOMAIN claims /\ n \notin committed'
             /\ thread'[p].count = TermCount(n)'
             /\ thread'[p].partition = index_by_term_count(TermCount(n))'
             /\ thread'[p].offset = TermOffset(n)'
             /\ thread'[p].length = claims[n].length
             /\ Cleaned' <= TermCount(n)'
  <2>1. thread[p].pc \in WriteSteps /\ n = thread[p].claim /\ n \notin committed'
    BY <1>4
  <2>2. /\ n \in DOMAIN claims /\ thread[p].count = TermCount(n)
        /\ thread[p].partition = index_by_term_count(TermCount(n)) /\ thread[p].offset = TermOffset(n)
        /\ thread[p].length = claims[n].length /\ Cleaned <= TermCount(n)
    BY <1>3, <2>1 DEF WritersSound
  <2>3. index_by_term_count(TermCount(n))' = index_by_term_count(TermCount(n))
    BY <1>2, <2>2 DEF index_by_term_count
  <2> QED BY <1>1, <1>2, <1>4, <2>1, <2>2, <2>3
<1>5. \A p, q \in Publishers :
        p # q /\ thread'[p].pc \in WriteSteps /\ thread'[q].pc \in WriteSteps => thread'[p].claim # thread'[q].claim
  BY <1>3 DEF WritersSound
<1> QED BY <1>4, <1>5 DEF WritersSound, TermCount, TermOffset, index_by_term_count

\* Steps at which nobody writes a header, claims, or reads.
LEMMA FramesKept ==
  ASSUME Known, Onward, UNCHANGED << term, subscriber, delivered, committed, claims >>,
         \A p \in Publishers : thread'[p].pc \in WriteSteps => thread'[p] = thread[p]
  PROVE  FramesSound' /\ ReadSound'
<1>1. ASSUME NEW p \in Publishers, NEW n \in DOMAIN claims, Writes(p, n)'
      PROVE  Writes(p, n) /\ thread'[p].pc = thread[p].pc
  BY <1>1 DEF Writes
<1>2. UnclaimedEmpty' /\ HeadersSound' /\ SubscriberSound'
  BY <1>1, TermKept
<1>3. WritersSound'
  BY WritersKept DEF Known, AllSound, FramesSound, WritersSound
<1>4. PassedSound' /\ DeliveredSound'
  BY <1>1, ReadKept
<1> QED BY <1>2, <1>3, <1>4 DEF FramesSound, ReadSound

\* The header of a new claim is empty, and it is not behind the subscriber.
LEMMA FramesAdded ==
  ASSUME RoomLeft, Known, NEW p \in Publishers, AddToTail(p)
  PROVE  FramesSound' /\ ReadSound'
<1>1. PICK i \in Partitions, o \in Nat, l \in Nat, c \in Nat, k \in Nat, r \in Locals : Added(p, i, o, l, c, k, r)
  BY AddFacts
<1>2. /\ UNCHANGED << term, limit, subscriber, committed, delivered, padded >>
      /\ thread' = [thread EXCEPT ![p] = r]
  BY <1>1 DEF AddToTail, Added
<1>3. thread'[p] = r /\ \A q \in Publishers : q # p => thread'[q] = thread[q]
  BY <1>2, KnownTypes
<1>4. Onward
  BY OnwardAdd
<1>5. CASE UNCHANGED claims /\ r.pc = "rotate"
  <2>1. \A q \in Publishers : thread'[q].pc \in WriteSteps => thread'[q] = thread[q]
    BY <1>3, <1>5 DEF WriteSteps
  <2> QED BY <1>2, <1>4, <1>5, <2>1, FramesKept
<1>6. CASE /\ o < TermLength /\ ReadCount <= c /\ 0 < k
           /\ r.pc = "claimed" /\ r.count = c /\ r.partition = i /\ r.offset = o /\ r.length = k
           /\ r.claim = Len(claims) + 1
  <2>1. PICK n \in Nat : NewClaim(n, c, o, k) /\ index_by_term_count(c) = i
    BY <1>1, <1>6, ClaimAtTail
  <2>2. /\ n = r.claim /\ n \notin DOMAIN claims /\ DOMAIN claims' = DOMAIN claims \cup {n}
        /\ \A m \in DOMAIN claims : claims'[m] = claims[m] /\ (TermCount(m) = c => EndOffset(m) <= o)
        /\ TermCount(n)' = c /\ TermOffset(n)' = o /\ EndOffset(n)' = o + k
        /\ claims'[n].length = k
    BY <1>6, <2>1 DEF NewClaim
  <2>3. c \in ReadCount .. ReadCount + 2 /\ Cleaned <= c /\ TermOfPartition(i) = c
        /\ raw_tail[i].term_offset = o
    BY <1>1, <1>6, KnownTypes DEF Added
  <2>4. WritersSound /\ committed \subseteq DOMAIN claims
    BY DEF Known, AllSound, FramesSound, WritersSound
  <2>5. \A q \in Publishers : q # p /\ thread'[q].pc \in WriteSteps =>
          thread[q].claim \in DOMAIN claims /\ thread'[q] = thread[q]
    BY <1>3, <2>4 DEF WritersSound
  <2>6. ASSUME NEW q \in Publishers, NEW m \in DOMAIN claims, Writes(q, m)'
        PROVE  Writes(q, m) /\ thread'[q].pc = thread[q].pc
    <3>1. q # p
      BY <1>3, <2>2, <2>6 DEF Writes
    <3> QED BY <1>3, <2>6, <3>1 DEF Writes
  <2>7. Sound(TermCount(n))' => HeaderSound(n, HeaderOf(n))'
    <3>1. SUFFICES ASSUME Sound(TermCount(n))' PROVE HeaderSound(n, HeaderOf(n))'
      OBVIOUS
    <3>2. Sound(c)'
      BY <2>2, <3>1 DEF Sound, Cut, Dirty, index_by_term_count
    <3>3. Sound(c)
      BY <1>4, <3>2 DEF Onward
    <3>4. PICK h : h = term[i][o]
      OBVIOUS
    <3>5. HeaderOf(n)' = h
      BY <1>2, <2>1, <2>2, <3>4 DEF HeaderOf, index_by_term_count
    <3>6. o \in Offsets
      BY <1>6, KnownTypes DEF Offsets
    <3>7. ~ \E m \in DOMAIN claims : TermCount(m) = c /\ TermOffset(m) = o
      BY <2>2, KnownClaims
    <3>8. h.length = 0 /\ h.claim = 0
      BY <2>1, <2>3, <3>3, <3>4, <3>6, <3>7 DEF Known, AllSound, FramesSound, UnclaimedEmpty
    <3>9. \A q \in Publishers : Writes(q, n)' => thread'[q].pc = "claimed"
      <4>1. ASSUME NEW q \in Publishers, Writes(q, n)' PROVE thread'[q].pc = "claimed"
        <5>1. q = p
          BY <2>2, <2>5, <4>1 DEF Writes
        <5> QED BY <1>3, <1>6, <5>1
      <4> QED BY <4>1
    <3>10. HeaderSound(n, h)'
      BY <3>8, <3>9 DEF HeaderSound
    <3> QED BY <3>5, <3>10 DEF HeaderSound
  <2>8. UnclaimedEmpty' /\ HeadersSound' /\ SubscriberSound'
    <3>1. \A m \in DOMAIN claims' : m \notin DOMAIN claims => m = n
      BY <2>2
    <3>2. \A m \in DOMAIN claims : m \in committed' <=> m \in committed
      BY <1>2
    <3>3. \A m \in DOMAIN claims' : m \notin DOMAIN claims =>
            (Sound(TermCount(m)) => HeaderSound(m, HeaderOf(m)))'
      BY <2>7, <3>1
    <3> QED BY <1>2, <1>4, <2>6, <3>2, <3>3, TermKept
  <2>9. ~ Passed(n)'
    <3>1. PICK x \in Nat : x = ReadOffset /\ x = ReadOffset'
      BY <1>2, KnownTypes DEF ReadOffset, Offset
    <3>2. PICK y \in Nat : y = ReadCount /\ y = ReadCount'
      BY <1>2, KnownTypes DEF ReadCount, Count
    <3>3. Reaches(y, x)
      BY <3>1, <3>2 DEF Known, AllSound, PlacesSound, ReadPlace
    <3>4. x > 0 /\ y = c => x <= o
      BY <2>1, <2>3, <3>3 DEF Reaches
    <3>5. ~ (c = y /\ o + k <= x) /\ ~ c < y
      BY <1>6, <3>2, <3>4
    <3> QED BY <2>2, <3>1, <3>2, <3>5 DEF Passed
  <2>10. PassedSound' /\ DeliveredSound'
    <3>1. \A m \in DOMAIN claims' : m \notin DOMAIN claims => m = n
      BY <2>2
    <3>2. \A m \in DOMAIN claims' : m \notin DOMAIN claims => ~ Passed(m)'
      BY <2>9, <3>1
    <3>3. committed' = committed
      BY <1>2
    <3> QED BY <1>2, <1>4, <2>6, <3>2, <3>3, ReadKept
  <2>11. WritersSound'
    <3>1. \A m \in DOMAIN claims : TermCount(m)' = TermCount(m) /\ TermOffset(m)' = TermOffset(m)
      BY <2>2, ClaimsStay
    <3>2. Cleaned' = Cleaned
      BY <1>2 DEF Cleaned, Count
    <3>3. ASSUME NEW q \in Publishers, NEW new, new = thread'[q], new.pc \in WriteSteps, NEW m, m = new.claim
          PROVE  /\ m \in DOMAIN claims' /\ m \notin committed'
                 /\ new.count = TermCount(m)' /\ new.partition = index_by_term_count(TermCount(m))'
                 /\ new.offset = TermOffset(m)' /\ new.length = claims'[m].length
                 /\ Cleaned' <= TermCount(m)'
      <4>1. CASE q = p
        <5>1. new = r /\ m = n
          BY <1>3, <2>2, <3>3, <4>1
        <5>2. n \in DOMAIN claims' /\ n \notin committed'
          BY <1>2, <2>2, <2>4
        <5>3. index_by_term_count(TermCount(n))' = i
          BY <2>1, <2>2 DEF index_by_term_count
        <5> QED BY <1>6, <2>2, <2>3, <3>2, <5>1, <5>2, <5>3
      <4>2. CASE q # p
        <5>1. new = thread[q] /\ m = thread[q].claim /\ thread[q].pc \in WriteSteps
          BY <1>3, <3>3, <4>2
        <5>2. /\ m \in DOMAIN claims /\ m \notin committed /\ new.count = TermCount(m)
              /\ new.partition = index_by_term_count(TermCount(m)) /\ new.offset = TermOffset(m)
              /\ new.length = claims[m].length /\ Cleaned <= TermCount(m)
          BY <2>4, <5>1 DEF WritersSound
        <5>3. index_by_term_count(TermCount(m))' = index_by_term_count(TermCount(m))
          BY <3>1, <5>2 DEF index_by_term_count
        <5> QED BY <1>2, <2>2, <3>1, <3>2, <5>2, <5>3
      <4> QED BY <4>1, <4>2
    <3>4. ASSUME NEW q \in Publishers
          PROVE  (thread[q].pc \in WriteSteps =>
                    LET m == thread[q].claim
                    IN  /\ m \in DOMAIN claims /\ m \notin committed
                        /\ thread[q].count = TermCount(m)
                        /\ thread[q].partition = index_by_term_count(TermCount(m))
                        /\ thread[q].offset = TermOffset(m)
                        /\ thread[q].length = claims[m].length
                        /\ Cleaned <= TermCount(m))'
      <4>1. PICK new : new = thread'[q]
        OBVIOUS
      <4>2. PICK m : m = new.claim
        OBVIOUS
      <4> QED BY <3>3, <4>1, <4>2 DEF TermCount, TermOffset, index_by_term_count
    <3>5. \A q, s \in Publishers :
            q # s /\ thread'[q].pc \in WriteSteps /\ thread'[s].pc \in WriteSteps =>
              thread'[q].claim # thread'[s].claim
      BY <1>3, <2>2, <2>4, <2>5 DEF WritersSound
    <3>6. committed' \subseteq DOMAIN claims'
      BY <1>2, <2>2, <2>4
    <3> QED BY <3>4, <3>5, <3>6 DEF WritersSound
  <2> QED BY <2>8, <2>10, <2>11 DEF FramesSound, ReadSound
<1> QED BY <1>1, <1>5, <1>6 DEF Added

\* A header is written where a claim begins whose term is not cleaned, and so in no other frame
\* of a sound term.
LEMMA FrameWritten ==
  ASSUME RoomLeft, Known, Onward, UNCHANGED << claims, subscriber >>,
         NEW m \in DOMAIN claims, NEW frame \in Header, Cleaned <= TermCount(m),
         term' = [term EXCEPT ![index_by_term_count(TermCount(m))][TermOffset(m)] = frame],
         \A n \in DOMAIN claims : n # m => (n \in committed' <=> n \in committed),
         \A p \in Publishers, n \in DOMAIN claims :
           n # m /\ Writes(p, n)' => Writes(p, n) /\ thread'[p].pc = thread[p].pc,
         Sound(TermCount(m)) => HeaderSound(m, frame)',
         TermCount(m) = ReadCount /\ HeaderOf(m).length > 0 /\ claims[m].position \notin padded' =>
           frame.length > 0
  PROVE  UnclaimedEmpty' /\ HeadersSound' /\ SubscriberSound'
<1>1. ReadCount' = ReadCount /\ ReadCount \in Nat
  BY KnownTypes DEF ReadCount, Count
<1>2. ASSUME NEW n \in DOMAIN claims
      PROVE  TermCount(n)' = TermCount(n) /\ TermOffset(n)' = TermOffset(n)
  BY ClaimsStay
<1>3. PICK i \in Partitions, o \in Offsets : i = index_by_term_count(TermCount(m)) /\ o = TermOffset(m)
  BY KnownClaims
<1>4. term \in [Partitions -> [Offsets -> Header]] /\ term' = [term EXCEPT ![i][o] = frame]
  BY <1>3 DEF Known, IInv, TypeOK
<1>5. /\ term'[i][o] = frame
      /\ \A j \in Partitions, e \in Offsets : j # i \/ e # o => term'[j][e] = term[j][e]
  BY <1>4
<1>6. HeaderOf(m)' = frame
  BY <1>2, <1>3, <1>5 DEF HeaderOf, index_by_term_count
<1>7. ASSUME NEW n \in DOMAIN claims, n # m, Sound(TermCount(n)) PROVE HeaderOf(n)' = HeaderOf(n)
  <2>1. PICK j \in Partitions, e \in Offsets : j = index_by_term_count(TermCount(n)) /\ e = TermOffset(n)
    BY KnownClaims
  <2>2. j # i \/ e # o
    BY <1>3, <1>7, <2>1, OneHeader
  <2>3. term'[j][e] = term[j][e]
    BY <1>5, <2>2
  <2> QED BY <1>2, <2>1, <2>3 DEF HeaderOf, index_by_term_count
<1>8. UnclaimedEmpty'
  <2>1. ASSUME NEW count \in ReadCount .. ReadCount + 2, NEW offset \in Offsets, Sound(count)',
               NEW h, h = term'[index_by_term_count(count)][offset]
        PROVE  \/ h.length = 0 /\ h.claim = 0
               \/ \E n \in DOMAIN claims : TermCount(n) = count /\ TermOffset(n) = offset
    <3>1. count \in Int /\ Sound(count)
      BY <1>1, <2>1 DEF Onward
    <3>2. PICK j \in Partitions : j = index_by_term_count(count)
      BY <3>1, SameIndex
    <3>3. CASE j = i /\ offset = o
      <4>1. count = TermCount(m)
        BY <1>3, <3>1, <3>2, <3>3, OneTerm, KnownClaims
      <4> QED BY <1>3, <3>3, <4>1
    <3>4. CASE j # i \/ offset # o
      <4>1. h = term[j][offset]
        BY <1>5, <2>1, <3>2, <3>4
      <4> QED BY <2>1, <3>1, <3>2, <4>1 DEF Known, AllSound, FramesSound, UnclaimedEmpty
    <3> QED BY <3>3, <3>4
  <2> QED BY <1>1, <1>2, <2>1 DEF UnclaimedEmpty, index_by_term_count
<1>9. HeadersSound'
  <2>1. ASSUME NEW n \in DOMAIN claims, Sound(TermCount(n))' PROVE HeaderSound(n, HeaderOf(n))'
    <3>1. PICK c \in Nat, h \in Header : c = TermCount(n) /\ h = HeaderOf(n)
      BY KnownClaims
    <3>2. Sound(c)'
      BY <1>2, <2>1, <3>1 DEF Sound, Cut, Dirty, index_by_term_count
    <3>3. Sound(c)
      BY <3>1, <3>2 DEF Onward
    <3>4. CASE n = m
      BY <1>6, <3>1, <3>3, <3>4 DEF HeaderSound
    <3>5. CASE n # m
      <4>1. HeaderSound(n, h) /\ ReadCount <= c
        BY <3>1, <3>3 DEF Known, AllSound, FramesSound, HeadersSound, Sound
      <4>2. HeaderSound(n, h)'
        BY <3>1, <3>5, <4>1, HeaderKept
      <4> QED BY <1>7, <3>1, <3>3, <3>5, <4>2 DEF HeaderSound
    <3> QED BY <3>4, <3>5
  <2> QED BY <2>1 DEF HeadersSound
<1>10. SubscriberSound'
  <2>1. ASSUME NEW n \in DOMAIN claims, TermCount(n) = ReadCount, HeaderOf(n).length > 0,
               claims[n].position \notin padded'
        PROVE  HeaderOf(n)'.length > 0
    <3>1. CASE n = m
      BY <1>6, <2>1, <3>1
    <3>2. CASE n # m
      BY <1>7, <2>1, <3>2, ReadTermSound
    <3> QED BY <3>1, <3>2
  <2> QED BY <2>1, SubscriberKept
<1> QED BY <1>8, <1>9, <1>10

\* A publisher at its claim.
LEMMA PublisherAtFrame ==
  ASSUME RoomLeft, Known, NEW p \in Publishers, thread[p].pc \in WriteSteps, NEW m, m = thread[p].claim
  PROVE  /\ m \in DOMAIN claims /\ m \in Nat /\ m \notin committed /\ Cleaned <= TermCount(m)
         /\ thread[p].partition = index_by_term_count(TermCount(m)) /\ thread[p].offset = TermOffset(m)
         /\ thread[p].length = claims[m].length /\ claims[m].length \in Nat /\ claims[m].length > 0
         /\ Frame(p) = HeaderOf(m) /\ Frame(p) \in Header /\ Writes(p, m)
         /\ \A q \in Publishers : q # p => ~ Writes(q, m)
         /\ Sound(TermCount(m)) => HeaderSound(m, HeaderOf(m)) /\ ReadCount <= TermCount(m)
         /\ TermCount(m) = ReadCount /\ HeaderOf(m).length > 0 => claims[m].position \in padded
         /\ committed \subseteq DOMAIN claims
<1>1. /\ m \in DOMAIN claims /\ m \notin committed /\ Cleaned <= TermCount(m)
      /\ thread[p].partition = index_by_term_count(TermCount(m)) /\ thread[p].offset = TermOffset(m)
      /\ thread[p].length = claims[m].length /\ committed \subseteq DOMAIN claims
  BY DEF Known, AllSound, FramesSound, WritersSound
<1>2. Writes(p, m) /\ \A q \in Publishers : q # p => ~ Writes(q, m)
  BY DEF Known, AllSound, FramesSound, WritersSound, Writes
<1>3. Sound(TermCount(m)) => HeaderSound(m, HeaderOf(m)) /\ ReadCount <= TermCount(m)
  BY <1>1 DEF Known, AllSound, FramesSound, HeadersSound, Sound
<1>4. TermCount(m) = ReadCount /\ HeaderOf(m).length > 0 => claims[m].position \in padded
  BY <1>2, <1>3, ReadTermSound DEF HeaderSound
<1>5. Frame(p) = HeaderOf(m)
  BY <1>1 DEF Frame, HeaderOf
<1> QED BY <1>1, <1>2, <1>3, <1>4, <1>5, KnownClaims

\* The header that a publisher writes is that of its claim.
LEMMA FramesWritten ==
  ASSUME RoomLeft, Known, NEW p \in Publishers,
         \/ PutNegativeLength(p) \/ PutHeader(p) \/ Commit(p) \/ AbortType(p) \/ AbortLength(p),
         Onward
  PROVE  FramesSound' /\ ReadSound'
<1>1. thread[p].pc \in WriteSteps /\ thread[p] \in Locals /\ thread \in [Threads -> Locals]
      /\ p \in Threads
  BY KnownTypes DEF PutNegativeLength, PutHeader, Commit, AbortType, AbortLength, WriteSteps
<1>2. PICK m : m = thread[p].claim
  OBVIOUS
<1>3. /\ m \in DOMAIN claims /\ m \in Nat /\ m \notin committed /\ Cleaned <= TermCount(m)
      /\ thread[p].partition = index_by_term_count(TermCount(m)) /\ thread[p].offset = TermOffset(m)
      /\ thread[p].length = claims[m].length /\ claims[m].length \in Nat /\ claims[m].length > 0
      /\ Frame(p) = HeaderOf(m) /\ Frame(p) \in Header /\ Writes(p, m)
      /\ \A q \in Publishers : q # p => ~ Writes(q, m)
      /\ Sound(TermCount(m)) => HeaderSound(m, HeaderOf(m)) /\ ReadCount <= TermCount(m)
      /\ TermCount(m) = ReadCount /\ HeaderOf(m).length > 0 => claims[m].position \in padded
      /\ committed \subseteq DOMAIN claims
  BY <1>1, <1>2, PublisherAtFrame
<1>4. PICK h \in Header, l \in Nat : h = HeaderOf(m) /\ h = Frame(p) /\ l = thread[p].length /\ l > 0
  BY <1>3
<1>15. PICK new : \E frame \in Header :
        /\ UNCHANGED << claims, subscriber, delivered >> /\ padded' = padded
        /\ PutFrame(p, frame) /\ thread' = [thread EXCEPT ![p] = new]
        /\ \/ /\ thread[p].pc = "claimed" /\ frame = [h EXCEPT !.length = - l]
              /\ new = [thread[p] EXCEPT !.pc = "header"] /\ committed' = committed
           \/ /\ thread[p].pc = "header" /\ frame = [h EXCEPT !.type = "DATA", !.claim = m]
              /\ new = [thread[p] EXCEPT !.pc = "payload"] /\ committed' = committed
           \/ /\ thread[p].pc = "payload" /\ frame = [h EXCEPT !.length = l]
              /\ new = Idle /\ committed' = committed \cup {m}
           \/ /\ thread[p].pc = "payload" /\ frame = [h EXCEPT !.type = "PAD"]
              /\ new = [thread[p] EXCEPT !.pc = "abort"] /\ committed' = committed
           \/ /\ thread[p].pc = "abort" /\ frame = [h EXCEPT !.length = l]
              /\ new.pc \in {"idle", "rotate"} /\ committed' = committed
  <2>1. /\ [h EXCEPT !.length = - l] \in Header /\ [h EXCEPT !.length = l] \in Header
        /\ [h EXCEPT !.type = "DATA", !.claim = m] \in Header /\ [h EXCEPT !.type = "PAD"] \in Header
    <3>1. l \in Int /\ - l \in Int /\ m \in Nat
      BY <1>3, <1>4
    <3> QED BY <3>1 DEF Header
  <2>2. CASE PutNegativeLength(p)
    BY <1>1, <1>2, <1>4, <2>1, <2>2 DEF PutNegativeLength, Goto, history
  <2>3. CASE PutHeader(p)
    BY <1>1, <1>2, <1>4, <2>1, <2>3 DEF PutHeader, Goto, history
  <2>4. CASE Commit(p)
    BY <1>1, <1>2, <1>4, <2>1, <2>4 DEF Commit, Return
  <2>5. CASE AbortType(p)
    BY <1>1, <1>2, <1>4, <2>1, <2>5 DEF AbortType, Goto, history
  <2>6. CASE AbortLength(p)
    <3>1. PICK r : /\ thread' = [thread EXCEPT ![p] = r]
                   /\ r = Idle \/ r = [thread[p] EXCEPT !.pc = "rotate"]
      BY <2>6 DEF AbortLength, Goto, Return
    <3>2. r.pc \in {"idle", "rotate"} /\ r = thread'[p]
      BY <1>1, <3>1 DEF Idle, Locals
    <3> QED BY <1>4, <2>1, <2>6, <3>1, <3>2 DEF AbortLength, history
  <2> QED BY <2>2, <2>3, <2>4, <2>5, <2>6
<1>5. PICK frame \in Header :
        /\ UNCHANGED << claims, subscriber, delivered >> /\ padded' = padded
        /\ PutFrame(p, frame) /\ thread' = [thread EXCEPT ![p] = new]
        /\ \/ /\ thread[p].pc = "claimed" /\ frame = [h EXCEPT !.length = - l]
              /\ new = [thread[p] EXCEPT !.pc = "header"] /\ committed' = committed
           \/ /\ thread[p].pc = "header" /\ frame = [h EXCEPT !.type = "DATA", !.claim = m]
              /\ new = [thread[p] EXCEPT !.pc = "payload"] /\ committed' = committed
           \/ /\ thread[p].pc = "payload" /\ frame = [h EXCEPT !.length = l]
              /\ new = Idle /\ committed' = committed \cup {m}
           \/ /\ thread[p].pc = "payload" /\ frame = [h EXCEPT !.type = "PAD"]
              /\ new = [thread[p] EXCEPT !.pc = "abort"] /\ committed' = committed
           \/ /\ thread[p].pc = "abort" /\ frame = [h EXCEPT !.length = l]
              /\ new.pc \in {"idle", "rotate"} /\ committed' = committed
  BY <1>15
<1>6. /\ thread'[p] = new /\ \A q \in Publishers : q # p => thread'[q] = thread[q]
  BY <1>1, <1>5, KnownTypes
<1>7. ASSUME NEW q \in Publishers, NEW n \in DOMAIN claims, Writes(q, n)'
      PROVE  Writes(q, n) /\ (n # m => thread'[q].pc = thread[q].pc) /\ (n = m => q = p)
  <2>1. CASE q = p
    <3>1. new.pc \in WriteSteps /\ new.claim = n
      BY <1>6, <1>7, <2>1 DEF Writes
    <3>2. new.claim = m
      BY <1>1, <1>2, <1>5, <3>1 DEF Idle, Locals, WriteSteps
    <3> QED BY <1>3, <2>1, <3>1, <3>2
  <2>2. CASE q # p
    BY <1>3, <1>6, <1>7, <2>2 DEF Writes
  <2> QED BY <2>1, <2>2
<1>8. Sound(TermCount(m)) => HeaderSound(m, frame)'
  <2>1. SUFFICES ASSUME HeaderSound(m, h), ReadCount <= TermCount(m) PROVE HeaderSound(m, frame)'
    BY <1>3, <1>4
  <2>2. /\ h.claim \in {0, m} /\ h.length \in Int
        /\ h.length < 0 => h.length = - claims[m].length
        /\ h.length > 0 => h.length = claims[m].length \/ Taken(m, h.length)
        /\ claims[m].position \notin padded =>
             /\ ~ h.length > 0
             /\ thread[p].pc = "payload" => h.type = "DATA" /\ h.claim = m
             /\ thread[p].pc = "abort" => h.type = "PAD"
    BY <1>3, <2>1 DEF HeaderSound, Header
  <2>3. h.length > 0 /\ Taken(m, h.length) => Taken(m, h.length)'
    BY <1>3, <2>1, <2>2, TakenStays
  <2>4. /\ frame.claim \in {0, m}
        /\ frame.length < 0 => frame.length = - claims[m].length
        /\ frame.length > 0 => frame.length = claims[m].length \/ Taken(m, frame.length)'
    <3>1. \/ frame.length = h.length \/ frame.length = l \/ frame.length = - l
      BY <1>4, <1>5 DEF Header
    <3>2. frame.claim \in {0, m}
      BY <1>5, <2>2 DEF Header
    <3>3. CASE frame.length = h.length
      BY <2>2, <2>3, <3>2, <3>3
    <3>4. CASE frame.length # h.length
      BY <1>3, <1>4, <3>1, <3>2, <3>4
    <3> QED BY <3>3, <3>4
  <2>5. claims[m].position \notin padded =>
          /\ frame.length > 0 => /\ frame.length = claims[m].length
                                 /\ new.pc \notin WriteSteps
                                 /\ m \in committed' <=> frame.type = "DATA"
                                 /\ frame.type = "DATA" => frame.claim = m
          /\ new.pc = "payload" => frame.type = "DATA" /\ frame.claim = m
          /\ new.pc = "abort" => frame.type = "PAD"
    <3>1. SUFFICES ASSUME claims[m].position \notin padded
                   PROVE  /\ frame.length > 0 => /\ frame.length = l
                                                 /\ new.pc \notin WriteSteps
                                                 /\ m \in committed' <=> frame.type = "DATA"
                                                 /\ frame.type = "DATA" => frame.claim = m
                          /\ new.pc = "payload" => frame.type = "DATA" /\ frame.claim = m
                          /\ new.pc = "abort" => frame.type = "PAD"
      BY <1>3, <1>4
    <3>2. /\ ~ h.length > 0
          /\ thread[p].pc = "payload" => h.type = "DATA" /\ h.claim = m
          /\ thread[p].pc = "abort" => h.type = "PAD"
      BY <2>2, <3>1
    <3>3. \/ frame.length = - l /\ new.pc = "header"
          \/ frame.length = h.length /\ frame.type = "DATA" /\ frame.claim = m /\ new.pc = "payload"
          \/ /\ thread[p].pc = "payload" /\ frame.length = l /\ frame.type = h.type /\ frame.claim = h.claim
             /\ new.pc = "idle" /\ m \in committed'
          \/ frame.length = h.length /\ frame.type = "PAD" /\ new.pc = "abort"
          \/ /\ thread[p].pc = "abort" /\ frame.length = l /\ frame.type = h.type
             /\ new.pc \in {"idle", "rotate"} /\ committed' = committed
      <4>1. \A length \in Int : /\ [h EXCEPT !.length = length].length = length
                                /\ [h EXCEPT !.length = length].type = h.type
                                /\ [h EXCEPT !.length = length].claim = h.claim
        BY DEF Header
      <4>2. /\ [h EXCEPT !.type = "DATA", !.claim = m].length = h.length
            /\ [h EXCEPT !.type = "DATA", !.claim = m].type = "DATA"
            /\ [h EXCEPT !.type = "DATA", !.claim = m].claim = m
            /\ [h EXCEPT !.type = "PAD"].length = h.length /\ [h EXCEPT !.type = "PAD"].type = "PAD"
        BY DEF Header
      <4>3. \A pc : [thread[p] EXCEPT !.pc = pc].pc = pc
        BY <1>1 DEF Locals
      <4>4. Idle.pc = "idle" /\ l \in Int /\ - l \in Int
        BY <1>4 DEF Idle
      <4>5. CASE frame = [h EXCEPT !.length = - l] /\ new = [thread[p] EXCEPT !.pc = "header"]
        BY <4>1, <4>3, <4>4, <4>5
      <4>6. CASE /\ frame = [h EXCEPT !.type = "DATA", !.claim = m]
                 /\ new = [thread[p] EXCEPT !.pc = "payload"]
        BY <4>2, <4>3, <4>6
      <4>7. CASE /\ thread[p].pc = "payload" /\ frame = [h EXCEPT !.length = l]
                 /\ new = Idle /\ committed' = committed \cup {m}
        BY <4>1, <4>4, <4>7
      <4>8. CASE frame = [h EXCEPT !.type = "PAD"] /\ new = [thread[p] EXCEPT !.pc = "abort"]
        BY <4>2, <4>3, <4>8
      <4>9. CASE /\ thread[p].pc = "abort" /\ frame = [h EXCEPT !.length = l]
                 /\ new.pc \in {"idle", "rotate"} /\ committed' = committed
        BY <4>1, <4>4, <4>9
      <4> QED BY <1>5, <4>5, <4>6, <4>7, <4>8, <4>9
    <3>4. CASE frame.length = - l /\ new.pc = "header"
      BY <1>4, <3>4
    <3>5. CASE \/ frame.length = h.length /\ frame.type = "DATA" /\ frame.claim = m /\ new.pc = "payload"
               \/ frame.length = h.length /\ frame.type = "PAD" /\ new.pc = "abort"
      BY <3>2, <3>5
    <3>6. CASE /\ thread[p].pc = "payload" /\ frame.length = l /\ frame.type = h.type /\ frame.claim = h.claim
               /\ new.pc = "idle" /\ m \in committed'
      BY <3>2, <3>6 DEF WriteSteps
    <3>7. CASE /\ thread[p].pc = "abort" /\ frame.length = l /\ frame.type = h.type
               /\ new.pc \in {"idle", "rotate"} /\ committed' = committed
      BY <1>3, <3>2, <3>7 DEF WriteSteps
    <3> QED BY <3>3, <3>4, <3>5, <3>6, <3>7
  <2>6. \A q \in Publishers : Writes(q, m)' => new.pc \in WriteSteps /\ q = p
    BY <1>3, <1>6, <1>7 DEF Writes
  <2> QED BY <1>5, <1>6, <2>4, <2>5, <2>6 DEF HeaderSound
<1>9. UnclaimedEmpty' /\ HeadersSound' /\ SubscriberSound'
  <2>1. term' = [term EXCEPT ![index_by_term_count(TermCount(m))][TermOffset(m)] = frame]
    BY <1>3, <1>5 DEF PutFrame
  <2>2. \A n \in DOMAIN claims : n # m => (n \in committed' <=> n \in committed)
    BY <1>5
  <2>3. TermCount(m) = ReadCount /\ HeaderOf(m).length > 0 => claims[m].position \in padded'
    BY <1>3, <1>5
  <2>4. \A q \in Publishers, n \in DOMAIN claims :
           n # m /\ Writes(q, n)' => Writes(q, n) /\ thread'[q].pc = thread[q].pc
    BY <1>7
  <2> QED BY <1>3, <1>5, <1>8, <2>1, <2>2, <2>3, <2>4, FrameWritten
<1>10. WritersSound'
  <2>1. committed' \subseteq DOMAIN claims
    BY <1>3, <1>5
  <2>2. ASSUME NEW q \in Publishers, thread'[q].pc \in WriteSteps
        PROVE  /\ thread[q].pc \in WriteSteps /\ thread'[q].claim = thread[q].claim
               /\ thread'[q].claim \notin committed'
               /\ thread'[q].count = thread[q].count /\ thread'[q].partition = thread[q].partition
               /\ thread'[q].offset = thread[q].offset /\ thread'[q].length = thread[q].length
    <3>1. CASE q = p
      BY <1>1, <1>2, <1>3, <1>5, <1>6, <2>2, <3>1 DEF Idle, Locals, WriteSteps
    <3>2. CASE q # p
      <4>1. thread'[q] = thread[q] /\ thread[q].claim \notin committed /\ thread[q].claim # m
        BY <1>2, <1>3, <1>6, <2>2, <3>2 DEF Writes, Known, AllSound, FramesSound, WritersSound
      <4> QED BY <1>5, <2>2, <4>1
    <3> QED BY <3>1, <3>2
  <2> QED BY <1>5, <2>1, <2>2, WritersKept
<1>11. PassedSound' /\ DeliveredSound'
  <2>1. \A n \in committed' : n \in committed \/ \E q \in Publishers : Writes(q, n)
    BY <1>3, <1>5
  <2>2. committed \subseteq committed'
    BY <1>5
  <2> QED BY <1>5, <1>7, <2>1, <2>2, ReadKept
<1> QED BY <1>9, <1>10, <1>11 DEF FramesSound, ReadSound

\* The header that the driver writes is that of a claim that it took over, if the subscriber is
\* in its term.
LEMMA DriverWritesFrame ==
  ASSUME RoomLeft, Known, Onward, NEW d, NEW b \in Nat, NEW m \in DOMAIN claims, AtFrame(d, b, m), Blocked,
         NegateLength \/ ApplyDefaultHeader \/ PadType \/ PadLength,
         NEW h \in Header, h = HeaderOf(m), b = ReadCount
  PROVE  \/ UNCHANGED term
         \/ /\ claims[m].position \in padded'
            /\ \E frame \in Header : PutFrame(Driver, frame) /\ HeaderSound(m, frame)'
<1>1. /\ d = thread[Driver] /\ d \in Locals /\ d.offset \in Nat /\ d.length \in Int
      /\ b = BlockedCount /\ TermCount(m) = b /\ TermOffset(m) = d.offset
      /\ Frame(Driver) = h
  BY DEF AtFrame
<1>2. HeaderSound(m, h) /\ ReadCount <= TermCount(m)
  BY <1>1, ReadTermSound, KnownTypes DEF Known, AllSound, FramesSound, HeadersSound
<1>3. /\ claims[m].position \in Nat /\ claims[m].length \in Nat /\ claims[m].length > 0 /\ h.length \in Int
      /\ claims'[m] = claims[m] /\ padded \subseteq padded'
  BY KnownClaims DEF Header, Onward
<1>4. /\ h.claim \in {0, m}
      /\ h.length < 0 => h.length = - claims[m].length
      /\ h.length > 0 => h.length = claims[m].length \/ Taken(m, h.length)'
  <2>1. h.length > 0 /\ Taken(m, h.length) => Taken(m, h.length)'
    BY <1>2, <1>3, TakenStays
  <2> QED BY <1>2, <2>1 DEF HeaderSound
<1>5. ASSUME claims[m].position \in padded', NEW frame \in Header, PutFrame(Driver, frame),
             frame.claim \in {0, m}, frame.length \in {0, h.length, claims[m].length} \/
               (frame.length > 0 /\ Taken(m, frame.length)')
      PROVE  claims[m].position \in padded' /\ PutFrame(Driver, frame) /\ HeaderSound(m, frame)'
  <2>1. PICK x, y, z \in Int : x = frame.length /\ y = h.length /\ z = claims[m].length /\ z > 0
    BY <1>3 DEF Header
  <2>2. /\ y < 0 => y = - z
        /\ y > 0 => y = z \/ Taken(m, y)'
    BY <1>4, <2>1
  <2>3. x \in {0, y, z} \/ (x > 0 /\ Taken(m, x)')
    BY <1>5, <2>1
  <2>4. /\ x < 0 => x = - z
        /\ x > 0 => x = z \/ Taken(m, x)'
    BY <2>1, <2>2, <2>3
  <2> QED BY <1>3, <1>5, <2>1, <2>4 DEF HeaderSound
<1>6. \A length \in Int : /\ [h EXCEPT !.length = length] \in Header
                          /\ [h EXCEPT !.length = length].length = length
                          /\ [h EXCEPT !.length = length].claim = h.claim
  BY DEF Header
<1>7. CASE NegateLength
  <2>1. d.pc = "negate"
    BY <1>1, <1>7 DEF NegateLength
  <2>2. d.length = claims[m].length
    BY <1>1, <2>1 DEF Known, AllSound, DriverPads
  <2>3. CASE UNCHANGED term
    BY <2>3
  <2>4. CASE TakeOver(d.length) /\ PutFrame(Driver, [h EXCEPT !.length = - - d.length])
    <3>1. claims[m].position .. claims[m].position + d.length - 1 \subseteq padded'
      BY <1>1, <2>1, <2>4, TakesClaim
    <3>2. claims[m].position \in padded'
      BY <1>3, <2>2, <3>1
    <3>3. PICK x \in Int : x = - - d.length /\ x = claims[m].length
      BY <1>3, <2>2
    <3>4. PICK frame \in Header : frame = [h EXCEPT !.length = x] /\ frame.length = x
                                  /\ frame.claim = h.claim
      BY <1>6
    <3>5. PutFrame(Driver, frame)
      BY <2>4, <3>3, <3>4
    <3> QED BY <1>4, <1>5, <3>2, <3>3, <3>4, <3>5
  <2> QED BY <1>1, <1>7, <2>3, <2>4 DEF NegateLength
<1>8. CASE ApplyDefaultHeader \/ PadType \/ PadLength
  <2>1. d.pc \in PadSteps
    BY <1>1, <1>8 DEF ApplyDefaultHeader, PadType, PadLength, PadSteps
  <2>2. /\ d.length > 0 /\ Reaches(b, d.offset + d.length)
        /\ claims[m].position .. claims[m].position + d.length - 1 \subseteq padded
    BY <1>1, <2>1 DEF Known, AllSound, DriverPads
  <2>3. claims[m].position \in padded'
    BY <1>1, <1>3, <2>2
  <2>4. Taken(m, d.length)'
    <3>1. Taken(m, d.length) /\ d.length \in Nat
      BY <1>1, <2>2 DEF Taken
    <3> QED BY <1>2, <3>1, TakenStays
  <2>5. CASE ApplyDefaultHeader
    <3>1. DefaultHeader \in Header /\ DefaultHeader.length = 0 /\ DefaultHeader.claim = 0
      BY DEF Header, DefaultHeader
    <3>2. PutFrame(Driver, DefaultHeader)
      BY <2>5 DEF ApplyDefaultHeader
    <3> QED BY <1>5, <2>3, <3>1, <3>2
  <2>6. CASE PadType
    <3>1. /\ [h EXCEPT !.type = "PAD"] \in Header /\ [h EXCEPT !.type = "PAD"].length = h.length
          /\ [h EXCEPT !.type = "PAD"].claim = h.claim
      BY DEF Header
    <3>2. PutFrame(Driver, [h EXCEPT !.type = "PAD"])
      BY <1>1, <2>6 DEF PadType
    <3> QED BY <1>4, <1>5, <2>3, <3>1, <3>2
  <2>7. CASE PadLength
    <3>1. PICK frame \in Header : /\ frame = [h EXCEPT !.length = d.length] /\ frame.length = d.length
                                  /\ frame.claim = h.claim
      BY <1>1, <1>6
    <3>2. Taken(m, frame.length)'
      BY <2>4, <3>1
    <3> QED BY <1>1, <1>4, <1>5, <2>2, <2>3, <2>7, <3>1, <3>2 DEF PadLength
  <2> QED BY <1>8, <2>5, <2>6, <2>7
<1> QED BY <1>7, <1>8

\* So the frames remain sound.
LEMMA FramesTaken ==
  ASSUME RoomLeft, Known, Onward, UnblockStep,
         ~ (CompareAndSetNextTail(Driver) /\ raw_tail[NextIndex(Driver)] = thread[Driver].raw)
  PROVE  FramesSound' /\ ReadSound'
<1>1. /\ UNCHANGED << claims, committed, delivered, subscriber >>
      /\ \A p \in Publishers : thread'[p] = thread[p]
  <2>1. PICK d, new : d = thread[Driver] /\ new = thread'[Driver]
    OBVIOUS
  <2> QED BY <2>1, DriverWorks
<1>2. CASE UNCHANGED term
  BY <1>1, <1>2, FramesKept
<1>3. CASE (NegateLength \/ ApplyDefaultHeader \/ PadType \/ PadLength) /\ ~ UNCHANGED term
  <2>1. Blocked
    BY <1>3 DEF NegateLength, ApplyDefaultHeader, PadType, PadLength, Blocked, BlockSteps, PadSteps
  <2>10. PICK d : d = thread[Driver]
    OBVIOUS
  <2>2. PICK b \in Nat, m \in DOMAIN claims : AtFrame(d, b, m)
    BY <2>1, <2>10, DriverAtFrame
  <2>3. PICK h \in Header : h = HeaderOf(m)
    BY KnownClaims
  <2>4. /\ TermCount(m) = b /\ Cleaned <= b /\ b <= ReadCount
        /\ d = thread[Driver] /\ d.partition = index_by_term_count(b) /\ TermOffset(m) = d.offset
    BY <2>1, <2>2, BlockedPlace DEF AtFrame
  <2>5. PICK frame \in Header :
          /\ PutFrame(Driver, frame)
          /\ b = ReadCount => claims[m].position \in padded' /\ HeaderSound(m, frame)'
    <3>1. CASE b = ReadCount
      BY <1>3, <2>1, <2>2, <2>3, <3>1, DriverWritesFrame
    <3>2. CASE b # ReadCount
      <4>1. \E frame \in Header : PutFrame(Driver, frame)
        <5>1. PICK g : g = Frame(Driver) /\ g \in Header
          BY <2>2 DEF AtFrame
        <5>2. /\ \A length \in Int : [g EXCEPT !.length = length] \in Header
              /\ [g EXCEPT !.type = "PAD"] \in Header /\ DefaultHeader \in Header
          BY <5>1 DEF Header, DefaultHeader
        <5>3. thread[Driver].length \in Int /\ - - thread[Driver].length \in Int
          BY KnownTypes
        <5>4. CASE NegateLength
          BY <1>3, <5>1, <5>2, <5>3, <5>4 DEF NegateLength
        <5>5. CASE ApplyDefaultHeader \/ PadType \/ PadLength
          BY <5>1, <5>2, <5>3, <5>5 DEF ApplyDefaultHeader, PadType, PadLength
        <5> QED BY <1>3, <5>4, <5>5
      <4> QED BY <3>2, <4>1
    <3> QED BY <3>1, <3>2
  <2>6. Sound(TermCount(m)) => b = ReadCount
    BY <2>4, KnownTypes DEF Sound
  <2>7. UnclaimedEmpty' /\ HeadersSound' /\ SubscriberSound'
    <3>1. term' = [term EXCEPT ![index_by_term_count(TermCount(m))][TermOffset(m)] = frame]
      BY <2>4, <2>5 DEF PutFrame
    <3>2. \A q \in Publishers, n \in DOMAIN claims : Writes(q, n)' => Writes(q, n) /\ thread'[q].pc = thread[q].pc
      BY <1>1 DEF Writes
    <3> QED BY <1>1, <2>4, <2>5, <2>6, <3>1, <3>2, FrameWritten
  <2>8. WritersSound'
    BY <1>1, WritersKept DEF Known, AllSound, FramesSound, WritersSound
  <2>9. PassedSound' /\ DeliveredSound'
    <3>1. \A q \in Publishers, n \in DOMAIN claims : Writes(q, n)' => Writes(q, n)
      BY <1>1 DEF Writes
    <3> QED BY <1>1, <3>1, ReadKept
  <2> QED BY <2>7, <2>8, <2>9 DEF FramesSound, ReadSound
<1>4. UNCHANGED term \/ NegateLength \/ ApplyDefaultHeader \/ PadType \/ PadLength
  BY DEF UnblockStep, RotateStep, LoadCurrentTail, LoadBlockedTail, LoadLength, ScanForward, ScanBack,
         RotationRefused, LoadNextTail, CompareAndSetNextTail, CompareAndSetTermCount, log
<1> QED BY <1>2, <1>3, <1>4

\* With the driver idle, frames were only claimed in a term that is to be cleaned if the
\* term before it was left with room before its end.
LEMMA DirtyBehindCut ==
  ASSUME RoomLeft, Known, thread[Driver].pc = "idle", NEW n \in DOMAIN claims, Dirty(TermCount(n))
  PROVE  Cut(TermCount(n) - 1)
<1>1. PICK c \in Nat, C \in Nat, R \in Nat, a \in Nat :
        c = TermCount(n) /\ C = Cleaned /\ R = ReadCount /\ a = active_term_count
  BY KnownClaims, KnownTypes
<1>2. C + 3 <= c /\ R <= C + 2
  BY <1>1, KnownTypes DEF Dirty
<1>3. \A i \in Partitions : TermOfPartition(i) = a + 1 => a <= C + 1
  BY <1>1 DEF Known, AllSound, PlacesSound, NextByLimit
<1>4. \A i \in Partitions : /\ TermOfPartition(i) <= R + 2 /\ a - 2 <= TermOfPartition(i)
                            /\ TermOfPartition(i) <= a + 1
  BY <1>1, KnownTypes, InStep DEF Known, StepInv
<1>5. PICK j \in Partitions : j = index_by_term_count(c) /\ TermOfPartition(j) = c
  BY <1>1, <1>2, ClaimCurrent, KnownClaims
<1>6. PICK u \in Nat, i \in Partitions : u = c - 1 /\ i = index_by_term_count(u) /\ i = u % 3
  <2>1. c - 1 \in Nat
    BY <1>2
  <2> QED BY <2>1, IndexIs
<1>7. TermOfPartition(i) = u /\ u < a
  <2>1. /\ TermOfPartition(a % 3) = a /\ TermOfPartition((a + 1) % 3) \in {a + 1, a - 2}
        /\ TermOfPartition((a + 2) % 3) = a - 1
        /\ a % 3 \in Partitions /\ (a + 1) % 3 \in Partitions
    BY <1>1, InStep, IndexIs DEF Known, StepInv
  <2>2. c = a + 1 \/ c = a \/ c = a - 1 \/ c = a - 2
    BY <1>4, <1>5
  <2>3. CASE c = a + 1
    BY <1>2, <1>3, <1>5, <2>3
  <2>4. CASE c = a
    <3>1. i = (a + 2) % 3
      BY <1>6, <2>4
    <3> QED BY <1>6, <2>1, <2>4, <3>1
  <2>5. CASE c = a - 1
    <3>1. i = (a + 1) % 3
      BY <1>6, <2>5
    <3>2. TermOfPartition(i) # a + 1
      BY <1>2, <1>3, <2>5
    <3> QED BY <1>6, <2>1, <2>5, <3>1, <3>2
  <2>6. CASE c = a - 2
    <3>1. a <= R + 2
      BY <1>4, <2>1
    <3> QED BY <1>2, <2>6, <3>1
  <2> QED BY <2>2, <2>3, <2>4, <2>5, <2>6
<1>8. Closed(i)
  <2>1. PICK x, l \in Int : x = u * TermLength /\ l = limit
    BY KnownTypes, StepTypes DEF Known
  <2>2. x < l => u <= C + 1
    BY <1>1, <2>1, KnownTypes, WithinLimit DEF Known
  <2>3. x >= l
    BY <1>2, <1>6, <2>1, <2>2
  <2> QED BY <1>7, <2>1, <2>3 DEF Closed
<1>9. raw_tail[i].term_offset <= Cardinality(Publishers \ Adders(i)) * Longest
  BY <1>8 DEF Known, StepInv, NotFilled
<1> QED BY <1>1, <1>6, <1>7, <1>9 DEF Cut

\* The driver moves the limit: what is cleaned has been read.
LEMMA LimitFacts ==
  ASSUME RoomLeft, Known, UpdateLimit, ~ Excused'
  PROVE  /\ thread[Driver].pc = "idle"
         /\ UNCHANGED << raw_tail, active_term_count, thread, subscriber, claims, committed, delivered, padded >>
         /\ Window <= limit' /\ Cleaned' = ReadCount /\ ReadCount' = ReadCount
         /\ \A i \in Partitions : ~ (\E count \in Cleaned .. ReadCount - 1 : index_by_term_count(count) = i) =>
              term'[i] = term[i]
         /\ \A i \in Partitions : (\E count \in Cleaned .. ReadCount - 1 : index_by_term_count(count) = i) =>
              term'[i] = EmptyTerm
         /\ \A p \in Publishers : thread[p].pc \in WriteSteps => thread[p].count \notin Cleaned .. ReadCount - 1
<1>1. /\ thread[Driver].pc = "idle"
      /\ UNCHANGED << raw_tail, active_term_count, thread, subscriber, claims, committed, delivered, padded >>
      /\ limit' = subscriber.position + Window
  BY DEF UpdateLimit, history
<1>2. PICK P, W \in Nat : P = subscriber.position /\ W = Window /\ W <= P + W /\ P + W - W = P
  BY StepTypes DEF Known
<1>3. Window <= limit' /\ limit' - Window = subscriber.position
  BY <1>1, <1>2
<1>4. Cleaned' = ReadCount /\ ReadCount' = ReadCount
  BY <1>1, <1>3 DEF Cleaned, ReadCount, Count
<1>5. term' = [i \in Partitions |->
         IF \E count \in Cleaned .. ReadCount - 1 : index_by_term_count(count) = i THEN EmptyTerm ELSE term[i]]
  BY DEF UpdateLimit, Cleaned, ReadCount
<1>6. ~ \E p \in Publishers : /\ thread[p].pc \in {"claimed", "header", "payload", "abort"}
                              /\ thread[p].count \in Cleaned .. ReadCount - 1
  BY DEF UpdateLimit, Cleaned, ReadCount, Excused
<1> QED BY <1>1, <1>3, <1>4, <1>5, <1>6 DEF WriteSteps

\* A term that is sound afterwards was so, or it has been cleaned.
LEMMA LimitTerms ==
  ASSUME RoomLeft, Known, UpdateLimit, ~ Excused', NEW c \in Int, Sound(c)', c <= ReadCount + 2
  PROVE  /\ ReadCount <= c /\ ~ Cut(c - 1)
         /\ Dirty(c) => term'[index_by_term_count(c)] = EmptyTerm
         /\ ~ Dirty(c) => Sound(c) /\ term'[index_by_term_count(c)] = term[index_by_term_count(c)]
<1>1. /\ UNCHANGED << raw_tail, active_term_count, thread, subscriber, claims >>
      /\ ReadCount' = ReadCount /\ Cleaned' = ReadCount
      /\ \A i \in Partitions : ~ (\E count \in Cleaned .. ReadCount - 1 : index_by_term_count(count) = i) =>
           term'[i] = term[i]
      /\ \A i \in Partitions : (\E count \in Cleaned .. ReadCount - 1 : index_by_term_count(count) = i) =>
           term'[i] = EmptyTerm
  BY LimitFacts
<1>2. ReadCount <= c
  BY <1>1 DEF Sound
<1>3. ~ Cut(c - 1)
  <2>1. PICK u : u = c - 1
    OBVIOUS
  <2>2. ~ Cut(u)'
    BY <2>1 DEF Sound
  <2>3. Cut(u)' <=> Cut(u)
    BY <1>1 DEF Cut, Adders, TermOfPartition, index_by_term_count
  <2> QED BY <2>1, <2>2, <2>3
<1>4. PICK C \in Nat, R \in Nat, i \in Partitions : C = Cleaned /\ R = ReadCount /\ i = index_by_term_count(c)
  BY KnownTypes, SameIndex
<1>5. CASE Dirty(c)
  <2>1. c - 3 \in C .. R - 1
    BY <1>2, <1>4, <1>5 DEF Dirty
  <2>2. index_by_term_count(c - 3) = i
    BY <1>4, SameIndex
  <2>3. \E count \in Cleaned .. ReadCount - 1 : index_by_term_count(count) = i
    BY <1>4, <2>1, <2>2
  <2> QED BY <1>1, <1>2, <1>3, <1>4, <1>5, <2>3
<1>6. CASE ~ Dirty(c)
  <2>1. ASSUME NEW count \in C .. R - 1, index_by_term_count(count) = i PROVE FALSE
    <3>1. c = count \/ c <= count - 3 \/ count <= c - 3
      BY <1>4, <2>1, SameIndex
    <3>2. count <= c - 3
      BY <1>2, <1>4, <3>1
    <3> QED BY <1>4, <1>6, <3>2 DEF Dirty
  <2>2. term'[i] = term[i]
    BY <1>1, <1>4, <2>1
  <2> QED BY <1>2, <1>3, <1>4, <1>6, <2>2 DEF Sound
<1> QED BY <1>5, <1>6

\* The places are sound when the limit moves.
LEMMA PlacesLimited ==
  ASSUME RoomLeft, Known, UpdateLimit, ~ Excused'
  PROVE  PlacesSound' /\ DriverPads'
<1>1. /\ thread[Driver].pc = "idle"
      /\ UNCHANGED << raw_tail, active_term_count, thread, subscriber, claims >>
      /\ Window <= limit' /\ Cleaned' = ReadCount /\ ReadCount' = ReadCount
  BY LimitFacts
<1>2. PlacesSound
  BY DEF Known, AllSound
<1>3. ClaimsApart' /\ AddersSound'
  BY <1>1, <1>2 DEF PlacesSound, ClaimsApart, Apart, AddersSound, TermOfPartition, TermCount, TermOffset, EndOffset,
                    Count, Offset, index_by_term_count
<1>4. ReadPlace'
  <2>1. Reaches(ReadCount, ReadOffset)'
    BY <1>1, <1>2 DEF PlacesSound, ReadPlace, Reaches, ReadCount, ReadOffset, TermOfPartition, TermCount,
                      TermOffset, EndOffset, Count, Offset, index_by_term_count
  <2>2. /\ \A i \in Partitions : (0 <= TermOfPartition(i) /\ TermOfPartition(i) < ReadCount)' =>
              raw_tail'[i].term_offset >= TermLength
        /\ \A i \in Partitions : TermOfPartition(i)' <= ReadCount + 2
        /\ ReadCount <= active_term_count' + 1
    BY <1>1, <1>2 DEF PlacesSound, ReadPlace, TermOfPartition
  <2>3. ReadCount <= ReadCount + 2
    BY KnownTypes
  <2> QED BY <1>1, <2>1, <2>2, <2>3 DEF ReadPlace
<1>5. NextByLimit'
  <2>1. PICK a, C, R \in Nat : a = active_term_count /\ C = Cleaned /\ R = ReadCount /\ C <= R
    BY KnownTypes
  <2>2. \A i \in Partitions : TermOfPartition(i) = a + 1 => a <= R + 1
    BY <1>1, <1>2, <2>1 DEF PlacesSound, NextByLimit
  <2>3. \A i \in Partitions : TermOfPartition(i)' = a + 1 => a <= R + 1
    BY <1>1, <2>2 DEF TermOfPartition
  <2> QED BY <1>1, <2>1, <2>3 DEF NextByLimit
<1>6. DriverPlace' /\ DriverPads'
  BY <1>1 DEF DriverPlace, DriverPads, Blocked, BlockSteps, PadSteps
<1> QED BY <1>3, <1>4, <1>5, <1>6 DEF PlacesSound

\* The frames are sound when the limit moves.
LEMMA FramesLimited ==
  ASSUME RoomLeft, Known, UpdateLimit, ~ Excused'
  PROVE  FramesSound' /\ ReadSound'
<1>1. /\ thread[Driver].pc = "idle"
      /\ UNCHANGED << raw_tail, active_term_count, thread, subscriber, claims, committed, delivered, padded >>
      /\ Cleaned' = ReadCount /\ ReadCount' = ReadCount
      /\ \A p \in Publishers : thread[p].pc \in WriteSteps => thread[p].count \notin Cleaned .. ReadCount - 1
  BY LimitFacts
<1>2. /\ WritersSound /\ UnclaimedEmpty /\ HeadersSound /\ SubscriberSound /\ PassedSound /\ DeliveredSound
      /\ ReadOffset' = ReadOffset
  BY <1>1 DEF Known, AllSound, FramesSound, ReadSound, ReadOffset, Offset
<1>3. \A n \in DOMAIN claims : TermCount(n)' = TermCount(n) /\ TermOffset(n)' = TermOffset(n)
                               /\ EndOffset(n)' = EndOffset(n)
  BY <1>1, ClaimsStay
<1>4. WritersSound'
  <2>1. ASSUME NEW p \in Publishers, thread[p].pc \in WriteSteps, NEW n, n = thread[p].claim
        PROVE  n \in DOMAIN claims /\ ReadCount <= TermCount(n)
    <3>1. n \in DOMAIN claims /\ thread[p].count = TermCount(n) /\ Cleaned <= TermCount(n)
      BY <1>2, <2>1 DEF WritersSound
    <3>2. TermCount(n) \notin Cleaned .. ReadCount - 1
      BY <1>1, <2>1, <3>1
    <3> QED BY <3>1, <3>2, KnownClaims, KnownTypes
  <2>2. ASSUME NEW p \in Publishers, thread'[p].pc \in WriteSteps, NEW n, n = thread'[p].claim
        PROVE  /\ n \in DOMAIN claims' /\ n \notin committed'
               /\ thread'[p].count = TermCount(n)'
               /\ thread'[p].partition = index_by_term_count(TermCount(n)')
               /\ thread'[p].offset = TermOffset(n)'
               /\ thread'[p].length = claims'[n].length
               /\ Cleaned' <= TermCount(n)'
    <3>1. thread[p].pc \in WriteSteps /\ n = thread[p].claim
      BY <1>1, <2>2
    <3>2. /\ n \in DOMAIN claims /\ n \notin committed
          /\ thread[p].count = TermCount(n)
          /\ thread[p].partition = index_by_term_count(TermCount(n))
          /\ thread[p].offset = TermOffset(n)
          /\ thread[p].length = claims[n].length
      BY <1>2, <3>1 DEF WritersSound
    <3> QED BY <1>1, <1>3, <2>1, <3>1, <3>2
  <2>3. \A p, q \in Publishers :
          p # q /\ thread'[p].pc \in WriteSteps /\ thread'[q].pc \in WriteSteps => thread'[p].claim # thread'[q].claim
    BY <1>1, <1>2 DEF WritersSound
  <2>4. committed' \subseteq DOMAIN claims'
    BY <1>1, <1>2 DEF WritersSound
  <2> QED BY <2>2, <2>3, <2>4 DEF WritersSound, index_by_term_count
<1>5. UnclaimedEmpty'
  <2>1. ASSUME NEW c \in ReadCount .. ReadCount + 2, NEW o \in Offsets, Sound(c)', NEW i, i = index_by_term_count(c)
        PROVE  \/ term'[i][o].length = 0 /\ term'[i][o].claim = 0
               \/ \E n \in DOMAIN claims' : TermCount(n)' = c /\ TermOffset(n)' = o
    <3>1. c \in Int /\ c <= ReadCount + 2
      BY KnownTypes
    <3>2. CASE Dirty(c)
      BY <2>1, <3>1, <3>2, LimitTerms DEF EmptyTerm
    <3>3. CASE ~ Dirty(c)
      <4>1. Sound(c) /\ term'[i] = term[i]
        BY <2>1, <3>1, <3>3, LimitTerms
      <4>2. \/ term[i][o].length = 0 /\ term[i][o].claim = 0
            \/ \E n \in DOMAIN claims : TermCount(n) = c /\ TermOffset(n) = o
        BY <1>2, <2>1, <4>1 DEF UnclaimedEmpty
      <4> QED BY <1>1, <1>3, <4>1, <4>2
    <3> QED BY <3>2, <3>3
  <2> QED BY <1>1, <2>1 DEF UnclaimedEmpty, index_by_term_count
<1>6. ASSUME NEW n \in DOMAIN claims, Sound(TermCount(n))'
      PROVE  Sound(TermCount(n)) /\ HeaderOf(n)' = HeaderOf(n)
  <2>1. PICK c \in Int : c = TermCount(n) /\ c <= ReadCount + 2
    BY KnownClaims
  <2>2. Sound(c)'
    BY <1>3, <1>6, <2>1
  <2>3. ~ Cut(c - 1)
    BY <2>1, <2>2, LimitTerms
  <2>4. ~ Dirty(c)
    BY <1>1, <2>1, <2>3, DirtyBehindCut
  <2>5. Sound(c) /\ term'[index_by_term_count(c)] = term[index_by_term_count(c)]
    BY <2>1, <2>2, <2>4, LimitTerms
  <2> QED BY <1>3, <2>1, <2>5 DEF HeaderOf, index_by_term_count
<1>7. HeadersSound'
  <2>1. ASSUME NEW n \in DOMAIN claims, Sound(TermCount(n))' PROVE HeaderSound(n, HeaderOf(n))'
    <3>1. PICK h : h = HeaderOf(n) /\ h = HeaderOf(n)'
      BY <1>6, <2>1
    <3>2. HeaderSound(n, h)
      BY <1>2, <1>6, <2>1, <3>1 DEF HeadersSound
    <3>3. HeaderSound(n, h)'
      BY <1>1, <3>2 DEF HeaderSound, Taken, Reaches, Writes, TermOfPartition, TermCount, TermOffset, EndOffset,
                        Count, Offset, index_by_term_count
    <3> QED BY <3>1, <3>3
  <2> QED BY <1>1, <2>1 DEF HeadersSound
<1>8. SubscriberSound'
  <2>1. SUFFICES ASSUME subscriber'.pc = "type" PROVE SubscriberSound'
    BY DEF SubscriberSound
  <2>2. PICK n \in DOMAIN claims :
          /\ TermCount(n) = ReadCount /\ TermOffset(n) = subscriber.offset
          /\ subscriber.length > 0
          /\ subscriber.length = claims[n].length \/ Taken(n, subscriber.length)
          /\ claims[n].position \notin padded =>
               subscriber.length = claims[n].length /\ HeaderOf(n).length > 0
    BY <1>1, <1>2, <2>1 DEF SubscriberSound
  <2>3. HeaderOf(n)' = HeaderOf(n)
    <3>1. PICK c \in Int, i \in Partitions : c = TermCount(n) /\ c = ReadCount /\ i = index_by_term_count(c)
      BY <2>2, KnownClaims
    <3>2. \A count \in Cleaned .. ReadCount - 1 : index_by_term_count(count) # i
      BY <3>1, KnownTypes, SameIndex
    <3>3. term'[i] = term[i]
      BY <3>2, LimitFacts
    <3> QED BY <1>3, <3>1, <3>3 DEF HeaderOf, index_by_term_count
  <2>4. Taken(n, subscriber.length) => Taken(n, subscriber.length)'
    BY <1>1 DEF Taken, Reaches, TermOfPartition, TermCount, TermOffset, EndOffset, Count, Offset, index_by_term_count
  <2> QED BY <1>1, <1>3, <2>2, <2>3, <2>4 DEF SubscriberSound
<1>9. PassedSound'
  BY <1>1, <1>2, <1>3 DEF PassedSound, Passed, HandedOver, Writes
<1>10. DeliveredSound'
  BY <1>1, <1>2 DEF DeliveredSound
<1> QED BY <1>4, <1>5, <1>7, <1>8, <1>9, <1>10 DEF FramesSound, ReadSound

\* What the subscriber leaves as it is, as long as it does not go back.
LEMMA ReadsKeep ==
  ASSUME RoomLeft, Known, ReadStep, ReadCount <= ReadCount', ReadCount' \in Nat
  PROVE  /\ Onward /\ ClaimsApart' /\ AddersSound' /\ NextByLimit' /\ DriverPlace' /\ DriverPads'
         /\ WritersSound' /\ UnclaimedEmpty' /\ HeadersSound'
         /\ UNCHANGED << term, raw_tail, active_term_count, limit, thread, claims, committed, padded >>
<1>1. UNCHANGED << term, raw_tail, active_term_count, limit, thread, claims, committed, padded >>
  BY DEF ReadStep, ReadLength, ReadReturns, SkipPadding, HandleFragment, log, history
<1>2. Keeps
  BY <1>1, KnownTypes DEF Keeps
<1>3. Onward
  BY <1>2, OnwardKept
<1>4. ClaimsApart' /\ AddersSound'
  BY <1>2, ApartKept
<1>5. NextByLimit'
  <2>1. \A i \in Partitions : TermOfPartition(i)' = TermOfPartition(i)
    BY <1>1 DEF TermOfPartition
  <2> QED BY <1>1, <2>1, NextByLimitKept
<1>6. DriverPlace' /\ DriverPads'
  <2>1. BlockedCount' = BlockedCount /\ thread'[Driver] = thread[Driver]
    BY <1>1 DEF BlockedCount, TermOfPartition
  <2>2. Blocked => \A i \in Partitions : TermOfPartition(i) <= BlockedCount + 2
    BY DEF Known, AllSound, PlacesSound, DriverPlace
  <2>3. Blocked => \A i \in Partitions : TermOfPartition(i)' <= BlockedCount + 2
    BY <1>1, <2>2 DEF TermOfPartition
  <2> QED BY <1>3, <2>1, <2>3, DriverPlaceKept, DriverPadsKept
<1>7. WritersSound'
  BY <1>1, <1>3, WritersKept DEF Known, AllSound, FramesSound, WritersSound
<1>8. \A n \in DOMAIN claims : TermCount(n)' = TermCount(n) /\ TermOffset(n)' = TermOffset(n)
                               /\ HeaderOf(n)' = HeaderOf(n)
  BY <1>1, ClaimsStay DEF HeaderOf, TermCount, TermOffset, Count, Offset, index_by_term_count
<1>9. UnclaimedEmpty'
  <2>1. ASSUME NEW c \in ReadCount' .. ReadCount' + 2, NEW o \in Offsets, Sound(c)', NEW i, i = index_by_term_count(c)
        PROVE  \/ term'[i][o].length = 0 /\ term'[i][o].claim = 0
               \/ \E n \in DOMAIN claims' : TermCount(n)' = c /\ TermOffset(n)' = o
    <3>1. c \in Int
      OBVIOUS
    <3>2. Sound(c)
      BY <1>3, <2>1, <3>1 DEF Onward
    <3>3. c \in ReadCount .. ReadCount + 2
      BY <3>1, <3>2, KnownTypes DEF Sound, Dirty
    <3>4. \/ term[i][o].length = 0 /\ term[i][o].claim = 0
          \/ \E n \in DOMAIN claims : TermCount(n) = c /\ TermOffset(n) = o
      BY <2>1, <3>2, <3>3 DEF Known, AllSound, FramesSound, UnclaimedEmpty
    <3> QED BY <1>1, <1>8, <3>4
  <2> QED BY <2>1 DEF UnclaimedEmpty, index_by_term_count
<1>10. HeadersSound'
  <2>1. ASSUME NEW n \in DOMAIN claims, Sound(TermCount(n))' PROVE HeaderSound(n, HeaderOf(n))'
    <3>1. PICK c \in Int, h \in Header : c = TermCount(n) /\ h = HeaderOf(n)
      BY KnownClaims
    <3>2. Sound(c)'
      BY <1>8, <2>1, <3>1
    <3>3. Sound(c)
      BY <1>3, <3>2 DEF Onward
    <3>4. HeaderSound(n, h) /\ ReadCount <= c
      BY <3>1, <3>3 DEF Sound, Known, AllSound, FramesSound, HeadersSound
    <3>5. \A p \in Publishers : Writes(p, n)' => Writes(p, n) /\ thread'[p].pc = thread[p].pc
      BY <1>1 DEF Writes
    <3>6. HeaderSound(n, h)'
      BY <1>1, <1>3, <3>1, <3>4, <3>5, HeaderKept
    <3> QED BY <1>8, <3>1, <3>6
  <2> QED BY <1>1, <2>1 DEF HeadersSound
<1> QED BY <1>1, <1>3, <1>4, <1>5, <1>6, <1>7, <1>9, <1>10

\* The place of the subscriber is sound if it reaches the place in the same term.
LEMMA ReadsOn ==
  ASSUME Known, Onward, ReadCount' = ReadCount, ReadOffset' \in Nat, Reaches(ReadCount, ReadOffset'),
         UNCHANGED << raw_tail, active_term_count, limit, claims >>
  PROVE  ReadPlace'
<1>1. /\ \A i \in Partitions : 0 <= TermOfPartition(i) /\ TermOfPartition(i) < ReadCount =>
           raw_tail[i].term_offset >= TermLength
      /\ \A i \in Partitions : TermOfPartition(i) <= ReadCount + 2
      /\ ReadCount <= active_term_count + 1
      /\ Window <= limit /\ ReadCount <= Cleaned + 2
  BY DEF Known, AllSound, PlacesSound, ReadPlace
<1>2. PICK o \in Nat : o = ReadOffset'
  OBVIOUS
<1>3. Reaches(ReadCount, o)'
  BY <1>2, KnownTypes DEF Onward
<1>4. Reaches(ReadCount, ReadOffset)'
  BY <1>2, <1>3
<1>5. \A i \in Partitions : TermOfPartition(i)' = TermOfPartition(i)
  BY DEF TermOfPartition
<1>6. Cleaned' = Cleaned
  BY DEF Cleaned, Count
<1> QED BY <1>1, <1>4, <1>5, <1>6 DEF ReadPlace

\* Nothing is passed or handed over while the subscriber stays where it is.
LEMMA ReadStays ==
  ASSUME RoomLeft, Known, ReadStep, ReadCount' = ReadCount, ReadOffset' = ReadOffset, UNCHANGED delivered,
         SubscriberSound'
  PROVE  AllSound'
<1>1. ReadCount \in Nat /\ ReadOffset \in Nat /\ Reaches(ReadCount, ReadOffset) /\ ReadSound /\ ReadCount <= ReadCount
  BY KnownTypes DEF Known, AllSound, PlacesSound, ReadPlace
<1>2. /\ Onward /\ ClaimsApart' /\ AddersSound' /\ NextByLimit' /\ DriverPlace' /\ DriverPads'
      /\ WritersSound' /\ UnclaimedEmpty' /\ HeadersSound'
      /\ UNCHANGED << term, raw_tail, active_term_count, limit, thread, claims, committed, padded >>
  BY <1>1, ReadsKeep
<1>3. ReadPlace'
  BY <1>1, <1>2, ReadsOn
<1>4. PassedSound'
  BY <1>1, <1>2 DEF ReadSound, PassedSound, Passed, HandedOver, Writes, TermCount, EndOffset, TermOffset, Count, Offset
<1>5. DeliveredSound'
  BY <1>1, <1>2 DEF ReadSound, DeliveredSound
<1> QED BY <1>2, <1>3, <1>4, <1>5 DEF AllSound, PlacesSound, FramesSound, ReadSound

\* The subscriber looks at the frame at its place: if that is published, it is that of a claim.
LEMMA LengthRead ==
  ASSUME RoomLeft, Known, ReadLength
  PROVE  AllSound'
<1>1. PICK o \in Nat, h \in Header :
        /\ o = ReadOffset /\ o \in Offsets /\ h = term[index_by_term_count(ReadCount)][o] /\ h.length > 0
        /\ subscriber' = [subscriber EXCEPT !.pc = "type", !.offset = o, !.length = h.length]
  <2>1. ReadOffset \in Nat /\ ReadOffset < TermLength /\ TermLength \in Nat
    BY KnownTypes DEF ReadLength, ReadOffset
  <2>2. ReadOffset \in Offsets
    BY <2>1 DEF Offsets
  <2>3. term[index_by_term_count(ReadCount)][ReadOffset] \in Header
    <3>1. index_by_term_count(ReadCount) \in Partitions
      BY KnownTypes, SameIndex
    <3> QED BY <2>2, <3>1 DEF Known, IInv, TypeOK
  <2> QED BY <2>1, <2>2, <2>3 DEF ReadLength, ReadOffset, ReadCount, SubscribedPartition
<1>2. /\ subscriber' = [subscriber EXCEPT !.pc = "type", !.offset = o, !.length = h.length]
      /\ subscriber'.pc = "type" /\ subscriber'.offset = o /\ subscriber'.length = h.length
      /\ subscriber'.position = subscriber.position
  BY <1>1 DEF Known, IInv, TypeOK
<1>3. ReadCount' = ReadCount /\ ReadOffset' = ReadOffset
  BY <1>1, <1>2 DEF ReadCount, ReadOffset, Count
<1>4. UNCHANGED << term, raw_tail, claims, delivered, padded >>
  BY DEF ReadLength, log, history
<1>5. PICK R \in Nat : R = ReadCount /\ Sound(R) /\ R \in R .. R + 2
  BY ReadTermSound, KnownTypes
<1>6. h.length # 0
  BY <1>1
<1>7. PICK n \in DOMAIN claims : TermCount(n) = R /\ TermOffset(n) = o
  BY <1>1, <1>5, <1>6 DEF Known, AllSound, FramesSound, UnclaimedEmpty
<1>8. h = HeaderOf(n) /\ HeaderSound(n, h)
  BY <1>1, <1>5, <1>7 DEF HeaderOf, Known, AllSound, FramesSound, HeadersSound
<1>9. /\ h.length = claims[n].length \/ Taken(n, h.length)
      /\ claims[n].position \notin padded => h.length = claims[n].length
  BY <1>1, <1>8 DEF HeaderSound
<1>10. SubscriberSound'
  <2>1. TermCount(n)' = TermCount(n) /\ TermOffset(n)' = TermOffset(n) /\ HeaderOf(n)' = HeaderOf(n)
    BY <1>4, ClaimsStay DEF HeaderOf, TermCount, TermOffset, Count, Offset, index_by_term_count
  <2>2. Taken(n, h.length) => Taken(n, h.length)'
    BY <1>4 DEF Taken, Reaches, TermOfPartition, TermCount, TermOffset, EndOffset, Count, Offset, index_by_term_count
  <2> QED BY <1>1, <1>2, <1>3, <1>4, <1>5, <1>7, <1>8, <1>9, <2>1, <2>2 DEF SubscriberSound
<1> QED BY <1>3, <1>4, <1>10, ReadStays DEF ReadStep

\* The subscriber reads no further than the end of its term, and goes on to the next term only
\* from there.
LEMMA PlaceReturned ==
  ASSUME RoomLeft, Known, ReadReturns
  PROVE  /\ UNCHANGED << term, raw_tail, active_term_count, limit, thread, claims, committed, delivered, padded >>
         /\ subscriber'.pc = "idle" /\ ReadCount' \in Nat /\ ReadOffset' \in Nat
         /\ \/ ReadCount' = ReadCount /\ ReadOffset' = ReadOffset
            \/ ReadCount' = ReadCount + 1 /\ ReadOffset' = 0 /\ ReadOffset = TermLength
<1>1. UNCHANGED << term, raw_tail, active_term_count, limit, thread, claims, committed, delivered, padded >>
  BY DEF ReadReturns, log, history
<1>2. PICK R, o, T \in Nat : R = ReadCount /\ o = ReadOffset /\ o = subscriber.offset /\ T = TermLength /\ T # 0
  BY KnownTypes DEF ReadReturns, ReadOffset
<1>3. o <= T
  BY <1>2 DEF Known, AllSound, PlacesSound, ReadPlace, Reaches
<1>4. subscriber'.pc = "idle" /\ subscriber'.position = R * TermLength + o
  BY <1>2 DEF ReadReturns, ReadCount
<1>5. ReadOffset' = Offset(subscriber'.position) /\ ReadCount' = Count(subscriber'.position)
  BY <1>4 DEF ReadOffset, ReadCount, Offset, Count
<1>6. CASE o < T
  <2>1. Count(R * TermLength + o) = R /\ Offset(R * TermLength + o) = o
    BY <1>2, <1>6, PositionOf
  <2> QED BY <1>1, <1>2, <1>4, <1>5, <2>1
<1>7. CASE o = T
  <2>1. R * TermLength + o = (R + 1) * TermLength + 0
    BY <1>2, <1>7
  <2>2. R + 1 \in Nat /\ 0 < TermLength
    BY <1>2
  <2>3. Count((R + 1) * TermLength + 0) = R + 1 /\ Offset((R + 1) * TermLength + 0) = 0
    BY <2>2, PositionOf
  <2> QED BY <1>1, <1>2, <1>4, <1>5, <1>7, <2>1, <2>2, <2>3
<1> QED BY <1>2, <1>3, <1>6, <1>7

\* Its next place is sound.
LEMMA NextTermRead ==
  ASSUME RoomLeft, Known, Onward, UNCHANGED << raw_tail, active_term_count, limit, claims >>,
         ReadCount' = ReadCount + 1, ReadOffset' = 0, ReadOffset = TermLength
  PROVE  ReadPlace'
<1>1. PICK R, T, C, a \in Nat : R = ReadCount /\ T = TermLength /\ T # 0 /\ C = Cleaned /\ a = active_term_count
  BY KnownTypes
<1>2. /\ Reaches(R, T)
      /\ \A i \in Partitions : 0 <= TermOfPartition(i) /\ TermOfPartition(i) < R => raw_tail[i].term_offset >= TermLength
      /\ \A i \in Partitions : TermOfPartition(i) <= R + 2
      /\ Window <= limit
  BY <1>1 DEF Known, AllSound, PlacesSound, ReadPlace
<1>3. PICK i \in Partitions : i = index_by_term_count(R)
  BY <1>1, SameIndex
<1>4. TermOfPartition(i) = R /\ raw_tail[i].term_offset >= TermLength
  <2>1. raw_tail[i].term_offset \in Nat
    BY KnownTypes
  <2> QED BY <1>1, <1>2, <1>3, <2>1 DEF Reaches
<1>5. R <= a /\ R <= C + 1
  BY <1>1, <1>4, FullTerm
<1>6. Reaches(R + 1, 0)'
  <2>1. ASSUME NEW n \in DOMAIN claims PROVE 0 <= TermOffset(n)'
    BY <2>1, ClaimsStay, KnownClaims DEF Onward
  <2>2. 0 <= TermLength
    BY <1>1
  <2> QED BY <2>1, <2>2 DEF Reaches
<1>7. ASSUME NEW j \in Partitions
      PROVE  /\ TermOfPartition(j) <= R + 1 + 2
             /\ 0 <= TermOfPartition(j) /\ TermOfPartition(j) < R + 1 => raw_tail[j].term_offset >= TermLength
  <2>1. PICK c \in Int : c = TermOfPartition(j) /\ index_by_term_count(c) = j
    BY KnownTypes
  <2>2. c = R => j = i
    BY <1>3, <2>1
  <2> QED BY <1>1, <1>2, <1>4, <2>1, <2>2
<1>8. \A j \in Partitions : TermOfPartition(j)' = TermOfPartition(j)
  BY DEF TermOfPartition
<1>9. Cleaned' = Cleaned
  BY DEF Cleaned, Count
<1>10. R + 1 <= a + 1 /\ R + 1 <= C + 2
  BY <1>5
<1>11. Reaches(ReadCount, ReadOffset)'
  BY <1>1, <1>6
<1> QED BY <1>1, <1>2, <1>7, <1>8, <1>9, <1>10, <1>11 DEF ReadPlace

\* All is sound when a call of the subscriber returns.
LEMMA CallReturned ==
  ASSUME RoomLeft, Known, ReadReturns
  PROVE  AllSound'
<1>1. /\ UNCHANGED << term, raw_tail, active_term_count, limit, thread, claims, committed, delivered, padded >>
      /\ subscriber'.pc = "idle" /\ ReadCount' \in Nat /\ ReadOffset' \in Nat
      /\ \/ ReadCount' = ReadCount /\ ReadOffset' = ReadOffset
         \/ ReadCount' = ReadCount + 1 /\ ReadOffset' = 0 /\ ReadOffset = TermLength
  BY PlaceReturned
<1>2. SubscriberSound' /\ ReadStep
  BY <1>1 DEF SubscriberSound, ReadStep
<1>3. CASE ReadCount' = ReadCount /\ ReadOffset' = ReadOffset
  BY <1>1, <1>2, <1>3, ReadStays
<1>4. CASE ReadCount' = ReadCount + 1 /\ ReadOffset' = 0 /\ ReadOffset = TermLength
  <2>1. PICK R, T \in Nat : R = ReadCount /\ T = TermLength /\ R <= R + 1
    BY KnownTypes
  <2>2. /\ Onward /\ ClaimsApart' /\ AddersSound' /\ NextByLimit' /\ DriverPlace' /\ DriverPads'
        /\ WritersSound' /\ UnclaimedEmpty' /\ HeadersSound'
    BY <1>1, <1>2, <1>4, <2>1, ReadsKeep
  <2>3. ReadPlace'
    BY <1>1, <1>4, <2>2, NextTermRead
  <2>4. PassedSound /\ DeliveredSound
    BY DEF Known, AllSound, ReadSound
  <2>5. ASSUME NEW n \in DOMAIN claims, Passed(n)' PROVE Passed(n)
    <3>1. PICK c, e \in Nat : c = TermCount(n) /\ e = EndOffset(n) /\ 0 < e /\ e <= T
      BY <2>1, KnownClaims
    <3>2. TermCount(n)' = c /\ EndOffset(n)' = e
      BY <1>1, <3>1, ClaimsStay
    <3>3. c < R + 1 \/ (c = R + 1 /\ e <= 0)
      BY <1>4, <2>1, <2>5, <3>2 DEF Passed
    <3> QED BY <1>4, <2>1, <3>1, <3>3 DEF Passed
  <2>6. PassedSound'
    BY <1>1, <2>4, <2>5 DEF PassedSound, HandedOver, Writes
  <2>7. DeliveredSound'
    <3>1. ReadCount * TermLength + ReadOffset = ReadCount' * TermLength + ReadOffset'
      <4>1. R * T + T = (R + 1) * T + 0
        BY <2>1
      <4> QED BY <1>4, <2>1, <4>1
    <3>2. PICK z : z = ReadCount * TermLength + ReadOffset /\ z = ReadCount' * TermLength + ReadOffset'
      BY <3>1
    <3>3. \A i \in DOMAIN delivered : delivered[i].position < z
      BY <2>4, <3>2 DEF DeliveredSound
    <3>4. \A i \in DOMAIN delivered' : delivered'[i].position < ReadCount' * TermLength + ReadOffset'
      BY <1>1, <3>2, <3>3
    <3> QED BY <1>1, <2>4, <3>4 DEF DeliveredSound
  <2> QED BY <1>2, <2>2, <2>3, <2>6, <2>7 DEF AllSound, PlacesSound, FramesSound, ReadSound
<1> QED BY <1>1, <1>3, <1>4

\* The subscriber at a frame, that of a claim n: it goes on by l, over that or over what the driver
\* took over.
Over(n, l, h) ==
  /\ n \in DOMAIN claims /\ TermCount(n) = ReadCount /\ TermOffset(n) = ReadOffset
  /\ l \in Nat /\ l > 0 /\ h = HeaderOf(n) /\ HeaderSound(n, h) /\ Reaches(ReadCount, ReadOffset + l)
  /\ \/ l = claims[n].length
     \/ claims[n].position .. claims[n].position + l - 1 \subseteq padded
  /\ claims[n].position \notin padded => l = claims[n].length /\ h.length > 0
  /\ UNCHANGED << term, raw_tail, active_term_count, limit, thread, claims, committed, padded >>
  /\ ReadCount' = ReadCount /\ ReadOffset' = ReadOffset + l /\ subscriber'.pc = "loop"
  /\ \/ h.type = "PAD" /\ UNCHANGED delivered
     \/ /\ h.type = "DATA"
        /\ delivered' = Append(delivered, [claim |-> h.claim, position |-> ReadCount * TermLength + ReadOffset])

\* That is how it goes on from a frame.
LEMMA StepsOver ==
  ASSUME RoomLeft, Known, SkipPadding \/ HandleFragment
  PROVE  \E n \in DOMAIN claims, l \in Nat, h \in Header : Over(n, l, h)
<1>1. subscriber.pc = "type" /\ ReadOffset = subscriber.offset
  BY DEF SkipPadding, HandleFragment, ReadOffset
<1>2. PICK n \in DOMAIN claims :
        /\ TermCount(n) = ReadCount /\ TermOffset(n) = subscriber.offset
        /\ subscriber.length > 0
        /\ subscriber.length = claims[n].length \/ Taken(n, subscriber.length)
        /\ claims[n].position \notin padded =>
             subscriber.length = claims[n].length /\ HeaderOf(n).length > 0
  BY <1>1 DEF Known, AllSound, FramesSound, SubscriberSound
<1>3. PICK l \in Nat, h \in Header : l = subscriber.length /\ h = HeaderOf(n)
  BY KnownClaims, StepTypes DEF Known
<1>4. HeaderSound(n, h)
  BY <1>2, <1>3, ReadTermSound DEF Known, AllSound, FramesSound, HeadersSound
<1>5. Reaches(ReadCount, ReadOffset + l)
  <2>1. CASE l = claims[n].length
    <3>1. EndOffset(n) = ReadOffset + l
      BY <1>1, <1>2, <2>1, KnownClaims
    <3>2. TermOfPartition(index_by_term_count(TermCount(n))) = TermCount(n)
      BY <1>2, KnownTypes, ClaimCurrent
    <3> QED BY <1>2, <3>1, <3>2, FrameReaches
  <2>2. CASE Taken(n, l)
    BY <1>1, <1>2, <2>2 DEF Taken
  <2> QED BY <1>2, <1>3, <2>1, <2>2
<1>6. l = claims[n].length \/ claims[n].position .. claims[n].position + l - 1 \subseteq padded
  BY <1>2, <1>3 DEF Taken
<1>7. UNCHANGED << term, raw_tail, active_term_count, limit, thread, claims, committed, padded >>
  BY DEF SkipPadding, HandleFragment, log, history
<1>8. h = term[SubscribedPartition][subscriber.offset]
  BY <1>2, <1>3 DEF HeaderOf, SubscribedPartition, ReadCount
<1>9. subscriber' = [subscriber EXCEPT !.pc = "loop", !.offset = @ + subscriber.length]
  BY DEF SkipPadding, HandleFragment
<1>10. subscriber'.pc = "loop" /\ subscriber'.offset = ReadOffset + l /\ subscriber'.position = subscriber.position
  BY <1>1, <1>3, <1>9 DEF Known, IInv, TypeOK
<1>11. ReadCount' = ReadCount /\ ReadOffset' = ReadOffset + l
  BY <1>10 DEF ReadCount, ReadOffset, Count
<1>12. \/ h.type = "PAD" /\ UNCHANGED delivered
       \/ /\ h.type = "DATA"
          /\ delivered' = Append(delivered, [claim |-> h.claim, position |-> ReadCount * TermLength + ReadOffset])
  <2>1. CASE SkipPadding
    BY <1>8, <2>1 DEF SkipPadding, history
  <2>2. CASE HandleFragment
    BY <1>1, <1>8, <2>2 DEF HandleFragment, ReadCount
  <2> QED BY <2>1, <2>2
<1>13. h.length = HeaderOf(n).length /\ l > 0
  BY <1>2, <1>3
<1> QED BY <1>1, <1>2, <1>3, <1>4, <1>5, <1>6, <1>7, <1>10, <1>11, <1>12, <1>13 DEF Over

\* What it passes then is that claim, or was taken over.
LEMMA PassedOver ==
  ASSUME Known, NEW n \in DOMAIN claims, NEW l \in Nat, NEW h \in Header, Over(n, l, h),
         NEW m \in DOMAIN claims, Passed(m)', ~ Passed(m)
  PROVE  m = n \/ claims[m].position \in padded
<1>1. PICK R, o, x, e \in Nat : /\ R = ReadCount /\ o = ReadOffset /\ x = TermOffset(m) /\ e = EndOffset(m) /\ x < e
                                /\ R = TermCount(n) /\ o = TermOffset(n)
  BY KnownTypes, KnownClaims DEF Over
<1>2. TermCount(m) \in Nat /\ TermCount(m)' = TermCount(m) /\ EndOffset(m)' = e
  BY <1>1, KnownClaims, ClaimsStay DEF Over
<1>3. TermCount(m) < R \/ (TermCount(m) = R /\ e <= o + l)
  BY <1>1, <1>2 DEF Passed, Over
<1>4. ~ TermCount(m) < R /\ ~ (TermCount(m) = R /\ e <= o)
  BY <1>1 DEF Passed
<1>5. TermCount(m) = R /\ e <= o + l /\ o < e
  BY <1>1, <1>3, <1>4
<1>6. o <= x
  <2>1. e <= o \/ o <= x
    BY <1>1, <1>5 DEF Known, AllSound, PlacesSound, ReadPlace, Reaches
  <2> QED BY <1>1, <1>5, <2>1
<1>7. CASE claims[n].position .. claims[n].position + l - 1 \subseteq padded
  <2>1. PICK z \in Nat : z = R * TermLength
    BY KnownTypes
  <2>2. claims[n].position = z + o /\ claims[m].position = z + x
    BY <1>1, <1>5, <2>1, KnownClaims
  <2>3. z + x \in z + o .. z + o + l - 1
    BY <1>1, <1>5, <1>6
  <2> QED BY <1>7, <2>2, <2>3
<1>8. CASE l = claims[n].length
  <2>1. EndOffset(n) = o + l
    BY <1>1, <1>8, KnownClaims
  <2>2. m # n => e <= o \/ o + l <= x
    BY <1>1, <1>5, <2>1 DEF Known, AllSound, PlacesSound, ClaimsApart, Apart
  <2> QED BY <1>1, <1>5, <2>2
<1> QED BY <1>7, <1>8 DEF Over

\* What it hands over is a claim that was committed, or was taken over, and behind all others.
LEMMA HandedOn ==
  ASSUME Known, NEW n \in DOMAIN claims, NEW l \in Nat, NEW h \in Header, Over(n, l, h)
  PROVE  DeliveredSound' /\ \A i \in DOMAIN delivered : i \in DOMAIN delivered' /\ delivered'[i] = delivered[i]
<1>1. PICK R, o, z \in Nat : R = ReadCount /\ o = ReadOffset /\ z = R * TermLength
  BY KnownTypes
<1>2. claims[n].position = z + o
  BY <1>1, KnownClaims DEF Over
<1>3. /\ \A i \in DOMAIN delivered :
           /\ delivered[i].claim > 0 => /\ delivered[i].claim \in DOMAIN claims
                                        /\ claims[delivered[i].claim].position = delivered[i].position
           /\ delivered[i].position < z + o
           /\ delivered[i].claim \in committed \/ delivered[i].position \in padded
      /\ \A i, j \in DOMAIN delivered : i < j => delivered[i].position < delivered[j].position
  BY <1>1 DEF Known, AllSound, ReadSound, DeliveredSound
<1>4. ReadCount' * TermLength + ReadOffset' = z + o + l
  <2>1. ReadCount' = R /\ ReadOffset' = o + l
    BY <1>1 DEF Over
  <2>2. R * TermLength + (o + l) = z + o + l
    BY <1>1
  <2> QED BY <2>1, <2>2
<1>5. l > 0 /\ UNCHANGED << claims, committed, padded >>
  BY DEF Over
<1>6. /\ delivered \in Seq([claim : Nat, position : Nat])
      /\ \A i \in DOMAIN delivered : delivered[i].position \in Nat /\ delivered[i].claim \in Nat
  <2>1. delivered \in Seq([claim : Nat, position : Nat])
    BY DEF Known, IInv, TypeOK
  <2>2. ASSUME NEW i \in DOMAIN delivered PROVE delivered[i].position \in Nat /\ delivered[i].claim \in Nat
    <3>1. PICK S : S = [claim : Nat, position : Nat]
      OBVIOUS
    <3>2. delivered \in Seq(S)
      BY <2>1, <3>1
    <3>3. delivered[i] \in S
      BY <3>2
    <3> QED BY <3>1, <3>3
  <2> QED BY <2>1, <2>2
<1>7. CASE UNCHANGED delivered
  <2>1. \A i \in DOMAIN delivered : delivered[i].position < z + o + l
    BY <1>3, <1>5, <1>6
  <2> QED BY <1>3, <1>4, <1>5, <1>7, <2>1 DEF DeliveredSound
<1>8. CASE /\ h.type = "DATA"
           /\ delivered' = Append(delivered, [claim |-> h.claim, position |-> z + o])
  <2>1. PICK k \in Nat : k = Len(delivered) + 1
    BY <1>6
  <2>10. PICK e : e = [claim |-> h.claim, position |-> z + o]
    OBVIOUS
  <2>2. e = [claim |-> h.claim, position |-> z + o] /\ e.claim = h.claim /\ e.position = z + o
    BY <2>10
  <2>3. /\ DOMAIN delivered' = DOMAIN delivered \cup {k} /\ k \notin DOMAIN delivered /\ delivered'[k] = e
        /\ \A i \in DOMAIN delivered : delivered'[i] = delivered[i] /\ i \in Nat /\ i < k
    <3>1. h.claim \in Nat /\ e \in [claim : Nat, position : Nat]
      BY <2>2 DEF Header
    <3> QED BY <1>6, <1>8, <2>1, <2>2, <3>1
  <2>4. /\ h.claim \in {0, n}
        /\ n \notin committed => claims[n].position \in padded
        /\ claims[n].position \notin padded => h.claim = n /\ n \in committed
    BY <1>8 DEF Over, HeaderSound
  <2>5. /\ e.claim > 0 => e.claim \in DOMAIN claims /\ claims[e.claim].position = e.position
        /\ e.position < z + o + l
        /\ e.claim \in committed \/ e.position \in padded
    BY <1>2, <1>5, <2>2, <2>4
  <2>6. ASSUME NEW i \in DOMAIN delivered'
        PROVE  /\ delivered'[i].claim > 0 => /\ delivered'[i].claim \in DOMAIN claims
                                             /\ claims[delivered'[i].claim].position = delivered'[i].position
               /\ delivered'[i].position < z + o + l
               /\ delivered'[i].claim \in committed \/ delivered'[i].position \in padded
    <3>1. CASE i = k
      BY <2>3, <2>5, <3>1
    <3>2. CASE i \in DOMAIN delivered
      <4>1. delivered'[i] = delivered[i] /\ delivered[i].position < z + o + l
        BY <1>3, <1>5, <1>6, <2>3, <3>2
      <4> QED BY <1>3, <3>2, <4>1
    <3> QED BY <2>3, <3>1, <3>2
  <2>7. ASSUME NEW i \in DOMAIN delivered', NEW j \in DOMAIN delivered', i < j
        PROVE  delivered'[i].position < delivered'[j].position
    <3>1. i # k
      BY <2>3, <2>7
    <3>2. i \in DOMAIN delivered /\ delivered'[i] = delivered[i]
      BY <2>3, <3>1
    <3>3. CASE j = k
      BY <1>3, <2>2, <2>3, <3>2, <3>3
    <3>4. CASE j \in DOMAIN delivered
      BY <1>3, <2>3, <2>7, <3>2, <3>4
    <3> QED BY <2>3, <3>3, <3>4
  <2> QED BY <1>4, <1>5, <2>3, <2>6, <2>7 DEF DeliveredSound
<1> QED BY <1>1, <1>7, <1>8 DEF Over

\* All is sound when the subscriber goes on from a frame.
LEMMA FrameRead ==
  ASSUME RoomLeft, Known, SkipPadding \/ HandleFragment
  PROVE  AllSound'
<1>1. PICK n \in DOMAIN claims, l \in Nat, h \in Header : Over(n, l, h)
  BY StepsOver
<1>2. /\ ReadCount' = ReadCount /\ ReadOffset' = ReadOffset + l /\ Reaches(ReadCount, ReadOffset + l)
      /\ UNCHANGED << term, raw_tail, active_term_count, limit, thread, claims, committed, padded >>
      /\ subscriber'.pc = "loop"
  BY <1>1 DEF Over
<1>3. ReadCount \in Nat /\ ReadCount <= ReadCount /\ ReadOffset + l \in Nat
  BY KnownTypes
<1>4. /\ Onward /\ ClaimsApart' /\ AddersSound' /\ NextByLimit' /\ DriverPlace' /\ DriverPads'
      /\ WritersSound' /\ UnclaimedEmpty' /\ HeadersSound'
  BY <1>2, <1>3, ReadsKeep DEF ReadStep
<1>5. ReadPlace'
  BY <1>2, <1>3, <1>4, ReadsOn
<1>6. SubscriberSound'
  BY <1>2 DEF SubscriberSound
<1>7. DeliveredSound' /\ \A i \in DOMAIN delivered : i \in DOMAIN delivered' /\ delivered'[i] = delivered[i]
  BY <1>1, HandedOn
<1>8. ASSUME NEW m \in DOMAIN claims, Passed(m)', claims[m].position \notin padded
      PROVE  /\ \A p \in Publishers : ~ Writes(p, m)
             /\ m \in committed => HandedOver(m)'
  <2>1. CASE Passed(m)
    <3>1. /\ \A p \in Publishers : ~ Writes(p, m)
          /\ m \in committed => HandedOver(m)
      BY <1>8, <2>1 DEF Known, AllSound, ReadSound, PassedSound
    <3>2. HandedOver(m) => HandedOver(m)'
      BY <1>7 DEF HandedOver
    <3> QED BY <3>1, <3>2
  <2>2. CASE ~ Passed(m)
    <3>1. m = n
      BY <1>1, <1>8, <2>2, PassedOver
    <3>2. h.length > 0 /\ HeaderSound(n, h)
      BY <1>1, <1>8, <3>1 DEF Over
    <3>3. /\ \A p \in Publishers : ~ Writes(p, m)
          /\ m \in committed => h.type = "DATA" /\ h.claim = m
      BY <1>8, <3>1, <3>2 DEF HeaderSound
    <3>4. ASSUME h.type = "DATA", h.claim = m PROVE HandedOver(m)'
      <4>1. PICK e : e = [claim |-> h.claim, position |-> ReadCount * TermLength + ReadOffset]
        OBVIOUS
      <4>2. delivered' = Append(delivered, e) /\ e.claim = m
        BY <1>1, <3>4, <4>1 DEF Over
      <4>3. delivered \in Seq([claim : Nat, position : Nat])
        BY DEF Known, IInv, TypeOK
      <4>4. Len(delivered) + 1 \in DOMAIN delivered' /\ delivered'[Len(delivered) + 1] = e
        BY <4>2, <4>3
      <4> QED BY <4>2, <4>4 DEF HandedOver
    <3> QED BY <3>3, <3>4
  <2> QED BY <2>1, <2>2
<1>9. PassedSound'
  BY <1>2, <1>8 DEF PassedSound, Writes
<1> QED BY <1>4, <1>5, <1>6, <1>7, <1>9 DEF AllSound, PlacesSound, FramesSound, ReadSound

\* At first there are no frames, and nobody is anywhere.
LEMMA DeliveryInit == Init => AllSound
<1> SUFFICES ASSUME Init PROVE AllSound
  OBVIOUS
<1>1. /\ claims = << >> /\ committed = {} /\ delivered = << >> /\ active_term_count = 0 /\ limit = Window
      /\ subscriber = [position |-> 0, pc |-> "idle", offset |-> 0, length |-> 0]
      /\ term = [i \in Partitions |-> EmptyTerm] /\ thread = [t \in Threads |-> Idle]
  BY DEF Init
<1>2. DOMAIN claims = {} /\ DOMAIN delivered = {}
  BY <1>1
<1>3. \A t \in Threads : thread[t].pc = "idle"
  BY <1>1 DEF Idle
<1>4. /\ \A p \in Publishers : thread[p].pc = "idle"
      /\ thread[Driver].pc = "idle"
  BY <1>3 DEF Threads
<1>5. \A i \in Partitions : TermOfPartition(i) = (IF i = 0 THEN 0 ELSE i - 3)
  <2>1. ASSUME NEW i \in Partitions PROVE TermOfPartition(i) = (IF i = 0 THEN 0 ELSE i - 3)
    <3>1. raw_tail[i].term_id = InitialTermId + i - (IF i = 0 THEN 0 ELSE 3) /\ i \in Int
      BY DEF Init, pack_tail, Partitions, PARTITION_COUNT
    <3> QED BY <3>1, IdAssumption DEF TermOfPartition
  <2> QED BY <2>1
<1>6. \A i \in Partitions : TermOfPartition(i) <= 0 /\ (0 <= TermOfPartition(i) => i = 0)
  BY <1>5 DEF Partitions, PARTITION_COUNT
<1>7. ReadCount = 0 /\ ReadOffset = 0 /\ Cleaned = 0 /\ Window \in Nat /\ TermLength \in Nat /\ TermLength # 0
  <2>1. subscriber.position = 0 /\ subscriber.pc = "idle" /\ limit - Window = 0
    BY <1>1, TermAssumption
  <2>2. Count(0) = 0 /\ Offset(0) = 0
    BY TermAssumption DEF Count, Offset
  <2> QED BY <2>1, <2>2, TermAssumption DEF ReadCount, ReadOffset, Cleaned
<1>8. ClaimsApart /\ AddersSound
  BY <1>2, <1>4 DEF ClaimsApart, AddersSound
<1>9. ReadPlace
  <2>1. Reaches(ReadCount, ReadOffset)
    BY <1>2, <1>7 DEF Reaches
  <2>2. \A i \in Partitions : /\ ~ (0 <= TermOfPartition(i) /\ TermOfPartition(i) < ReadCount)
                              /\ TermOfPartition(i) <= ReadCount + 2
    BY <1>5, <1>7 DEF Partitions, PARTITION_COUNT
  <2>3. ReadCount <= active_term_count + 1 /\ Window <= limit /\ ReadCount <= Cleaned + 2
    BY <1>1, <1>7
  <2> QED BY <2>1, <2>2, <2>3 DEF ReadPlace
<1>10. NextByLimit
  BY <1>1, <1>7 DEF NextByLimit
<1>11. DriverPlace /\ DriverPads
  BY <1>4 DEF DriverPlace, DriverPads, Blocked, BlockSteps, PadSteps
<1>12. WritersSound
  BY <1>1, <1>4 DEF WritersSound, WriteSteps
<1>13. UnclaimedEmpty
  <2>1. ASSUME NEW c \in ReadCount .. ReadCount + 2, NEW o \in Offsets, NEW h, h = term[index_by_term_count(c)][o]
        PROVE  h.length = 0 /\ h.claim = 0
    <3>1. index_by_term_count(c) \in Partitions
      BY <1>7, SameIndex
    <3>2. h = [length |-> 0, type |-> "PAD", claim |-> 0]
      BY <1>1, <2>1, <3>1 DEF EmptyTerm
    <3> QED BY <3>2
  <2> QED BY <2>1 DEF UnclaimedEmpty
<1>14. HeadersSound /\ SubscriberSound
  BY <1>1, <1>2 DEF HeadersSound, SubscriberSound
<1>15. PassedSound /\ DeliveredSound
  BY <1>2 DEF PassedSound, DeliveredSound
<1> QED BY <1>8, <1>9, <1>10, <1>11, <1>12, <1>13, <1>14, <1>15
        DEF AllSound, PlacesSound, FramesSound, ReadSound

\* The places are sound after a step that keeps the tails and lets nobody begin to add.
LEMMA PlacesKept ==
  ASSUME RoomLeft, Known, Keeps, UNCHANGED subscriber
  PROVE  Onward /\ ClaimsApart' /\ AddersSound' /\ ReadPlace'
<1>1. ReadCount' = ReadCount /\ ReadCount \in Nat /\ ReadCount <= ReadCount
  BY KnownTypes DEF ReadCount, Count
<1>2. Onward /\ ClaimsApart' /\ AddersSound'
  BY <1>1, OnwardKept, ApartKept
<1>3. ASSUME NEW i \in Partitions
      PROVE  /\ TermOfPartition(i)' = TermOfPartition(i)
             /\ raw_tail'[i].term_offset \in Nat
             /\ raw_tail[i].term_offset <= raw_tail'[i].term_offset
  BY KnownTypes DEF Keeps, TermOfPartition
<1>4. active_term_count <= active_term_count' /\ active_term_count' \in Nat
  BY DEF Keeps
<1> QED BY <1>2, <1>3, <1>4, ReadPlaceKept

\* So is all, if it is a step of a publisher and the frames are.
LEMMA PublisherKept ==
  ASSUME RoomLeft, Known, Keeps, UNCHANGED subscriber, thread'[Driver] = thread[Driver], NextByLimit',
         Onward => FramesSound' /\ ReadSound'
  PROVE  AllSound'
<1>1. Onward /\ ClaimsApart' /\ AddersSound' /\ ReadPlace'
  BY PlacesKept
<1>2. UNCHANGED raw_tail
  BY DEF Keeps
<1>3. BlockedCount' = BlockedCount
  BY <1>2 DEF BlockedCount, TermOfPartition
<1>4. Blocked => \A i \in Partitions : TermOfPartition(i)' <= BlockedCount + 2
  <2>1. Blocked => \A i \in Partitions : TermOfPartition(i) <= BlockedCount + 2
    BY DEF Known, AllSound, PlacesSound, DriverPlace
  <2> QED BY <1>2, <2>1 DEF TermOfPartition
<1>5. DriverPlace' /\ DriverPads'
  BY <1>1, <1>3, <1>4, DriverPlaceKept, DriverPadsKept
<1> QED BY <1>1, <1>5 DEF AllSound, PlacesSound

\* A publisher that begins to add to a tail leaves all sound.
LEMMA OfferKeeps ==
  ASSUME RoomLeft, Known, NEW p \in Publishers, NEW length \in FrameLengths, Offer(p, length)
  PROVE  AllSound'
<1>1. /\ UNCHANGED << term, raw_tail, active_term_count, limit, subscriber, claims, committed, delivered >>
      /\ thread' = [thread EXCEPT ![p].pc = "add", ![p].count = active_term_count, ![p].length = length]
  BY DEF Offer, log, history
<1>2. Onward /\ ClaimsApart' /\ AddersSound'
  BY OnwardOffer, ApartOffer
<1>3. \A i \in Partitions : TermOfPartition(i)' = TermOfPartition(i)
  BY <1>1 DEF TermOfPartition
<1>4. thread'[Driver] = thread[Driver] /\ \A q \in Publishers : q # p => thread'[q] = thread[q]
  BY <1>1, KnownTypes
<1>5. thread'[p].pc \notin WriteSteps
  <2>1. p \in Threads /\ thread[p] \in Locals /\ thread \in [Threads -> Locals]
    BY KnownTypes
  <2>2. thread'[p].pc = "add"
    BY <1>1, <2>1 DEF Locals
  <2> QED BY <2>2 DEF WriteSteps
<1>6. ReadPlace'
  <2>1. active_term_count \in Nat /\ \A i \in Partitions : raw_tail[i].term_offset \in Nat
    BY KnownTypes
  <2>2. active_term_count <= active_term_count' /\ active_term_count' \in Nat
    BY <1>1, <2>1
  <2>3. \A i \in Partitions : raw_tail'[i].term_offset \in Nat /\ raw_tail[i].term_offset <= raw_tail'[i].term_offset
    BY <1>1, <2>1
  <2> QED BY <1>1, <1>2, <1>3, <2>2, <2>3, ReadPlaceKept
<1>7. NextByLimit'
  BY <1>1, <1>3, <1>4, NextByLimitKept
<1>8. DriverPlace' /\ DriverPads'
  <2>1. BlockedCount' = BlockedCount
    BY <1>1, <1>4 DEF BlockedCount, TermOfPartition
  <2>2. Blocked => \A i \in Partitions : TermOfPartition(i)' <= BlockedCount + 2
    <3>1. Blocked => \A i \in Partitions : TermOfPartition(i) <= BlockedCount + 2
      BY DEF Known, AllSound, PlacesSound, DriverPlace
    <3> QED BY <1>3, <3>1
  <2> QED BY <1>2, <1>4, <2>1, <2>2, DriverPlaceKept, DriverPadsKept
<1>9. FramesSound' /\ ReadSound'
  <2>1. \A q \in Publishers : thread'[q].pc \in WriteSteps => thread'[q] = thread[q]
    BY <1>4, <1>5
  <2> QED BY <1>1, <1>2, <2>1, FramesKept
<1> QED BY <1>2, <1>6, <1>7, <1>8, <1>9 DEF AllSound, PlacesSound

\* So does one that adds to it.
LEMMA AddKeeps ==
  ASSUME RoomLeft, Known, NEW p \in Publishers, AddToTail(p)
  PROVE  AllSound'
<1>1. PICK i \in Partitions, o \in Nat, l \in Nat, c \in Nat, k \in Nat, r \in Locals : Added(p, i, o, l, c, k, r)
  BY AddFacts
<1>2. /\ UNCHANGED << term, active_term_count, limit, subscriber >>
      /\ thread' = [thread EXCEPT ![p] = r]
      /\ o = raw_tail[i].term_offset /\ raw_tail'[i].term_offset = o + l
      /\ \A j \in Partitions : j # i => raw_tail'[j] = raw_tail[j]
      /\ \A j \in Partitions : TermOfPartition(j)' = TermOfPartition(j)
  BY <1>1 DEF AddToTail, Added
<1>3. Onward /\ ClaimsApart' /\ AddersSound'
  BY OnwardAdd, ApartAdd
<1>4. thread'[Driver] = thread[Driver]
  BY <1>2, KnownTypes
<1>5. ReadPlace'
  <2>1. active_term_count' \in Nat /\ active_term_count <= active_term_count'
    BY <1>2, KnownTypes
  <2>2. ASSUME NEW j \in Partitions
        PROVE  raw_tail'[j].term_offset \in Nat /\ raw_tail[j].term_offset <= raw_tail'[j].term_offset
    <3>1. CASE j = i
      BY <1>2, <3>1
    <3>2. CASE j # i
      BY <1>2, <3>2, KnownTypes
    <3> QED BY <3>1, <3>2
  <2> QED BY <1>2, <1>3, <2>1, <2>2, ReadPlaceKept
<1>6. NextByLimit'
  BY <1>2, <1>4, NextByLimitKept
<1>7. DriverPlace' /\ DriverPads'
  <2>1. Blocked => BlockedCount' = BlockedCount
    <3>1. thread[Driver].partition \in Partitions
      BY KnownTypes
    <3>2. TermOfPartition(thread[Driver].partition)' = TermOfPartition(thread[Driver].partition)
      BY <1>2, <1>4, <3>1 DEF TermOfPartition
    <3> QED BY <3>2 DEF BlockedCount
  <2>2. Blocked => \A j \in Partitions : TermOfPartition(j)' <= BlockedCount + 2
    <3>1. Blocked => \A j \in Partitions : TermOfPartition(j) <= BlockedCount + 2
      BY DEF Known, AllSound, PlacesSound, DriverPlace
    <3> QED BY <1>2, <3>1
  <2> QED BY <1>3, <1>4, <2>1, <2>2, DriverPlaceKept, DriverPadsKept
<1> QED BY <1>3, <1>5, <1>6, <1>7, FramesAdded DEF AllSound, PlacesSound

\* A publisher that writes in its frame leaves all sound.
LEMMA WriteKeeps ==
  ASSUME RoomLeft, Known, NEW p \in Publishers,
         \/ PutNegativeLength(p) \/ PutHeader(p) \/ Commit(p) \/ AbortType(p) \/ AbortLength(p)
  PROVE  AllSound'
<1>1. UNCHANGED << raw_tail, active_term_count, limit, subscriber, claims, delivered, padded >>
  BY DEF PutNegativeLength, PutHeader, Commit, AbortType, AbortLength, history
<1>2. PICK pc \in {"idle", "header", "payload", "abort", "rotate"} :
        \/ thread' = [thread EXCEPT ![p].pc = pc]
        \/ thread' = [thread EXCEPT ![p] = Idle] /\ pc = "idle"
  <2>1. CASE PutNegativeLength(p) \/ PutHeader(p) \/ AbortType(p)
    BY <2>1 DEF PutNegativeLength, PutHeader, AbortType, Goto
  <2>2. CASE Commit(p) \/ AbortLength(p)
    BY <2>2 DEF Commit, AbortLength, Goto, Return
  <2> QED BY <2>1, <2>2
<1>3. thread'[p].pc # "add" /\ thread'[Driver] = thread[Driver] /\ \A q \in Publishers : q # p => thread'[q] = thread[q]
  <2>1. /\ p \in Threads /\ thread[p] \in Locals /\ thread \in [Threads -> Locals] /\ Driver \in Threads
        /\ Driver # p /\ \A q \in Publishers : q \in Threads
    BY KnownTypes
  <2>2. thread'[p].pc = pc
    BY <1>2, <2>1 DEF Locals, Idle
  <2> QED BY <1>2, <2>1, <2>2
<1>4. Keeps
  BY <1>1, <1>3, KnownTypes DEF Keeps
<1>5. NextByLimit'
  <2>1. \A i \in Partitions : TermOfPartition(i)' = TermOfPartition(i)
    BY <1>1 DEF TermOfPartition
  <2> QED BY <1>1, <1>3, <2>1, NextByLimitKept
<1>6. Onward => FramesSound' /\ ReadSound'
  BY FramesWritten
<1> QED BY <1>1, <1>3, <1>4, <1>5, <1>6, PublisherKept

\* One that rotates, without a new tail, or dies does so too.
LEMMA LeaveKeeps ==
  ASSUME RoomLeft, Known, NEW p \in Publishers,
         \/ Crash(p) \/ RotationRefused(p) \/ LoadNextTail(p) \/ CompareAndSetTermCount(p)
         \/ CompareAndSetNextTail(p) /\ raw_tail[NextIndex(p)] # thread[p].raw
  PROVE  AllSound'
<1>1. UNCHANGED << term, raw_tail, limit, subscriber, claims, committed, delivered, padded >>
  BY DEF Crash, RotationRefused, LoadNextTail, CompareAndSetTermCount, CompareAndSetNextTail, log, history
<1>2. PICK r : thread' = [thread EXCEPT ![p] = r] /\ r.pc \in {"idle", "dead", "rotate_tail", "rotate"}
  <2>0. p \in Threads /\ thread[p] \in Locals /\ thread \in [Threads -> Locals]
    BY KnownTypes
  <2>1. CASE RotationRefused(p) \/ CompareAndSetTermCount(p)
    <3>1. thread' = [thread EXCEPT ![p] = Idle]
      BY <2>1 DEF RotationRefused, CompareAndSetTermCount, Return
    <3>2. Idle.pc = "idle"
      BY DEF Idle
    <3> QED BY <3>1, <3>2
  <2>2. CASE Crash(p) \/ (CompareAndSetNextTail(p) /\ raw_tail[NextIndex(p)] # thread[p].raw)
    <3>1. PICK pc \in {"dead", "rotate"} : thread' = [thread EXCEPT ![p].pc = pc]
      BY <2>2 DEF Crash, CompareAndSetNextTail, Goto
    <3>2. [thread[p] EXCEPT !.pc = pc].pc = pc
      BY <2>0 DEF Locals
    <3> QED BY <2>0, <3>1, <3>2
  <2>3. CASE LoadNextTail(p)
    <3>1. PICK r : r = thread'[p]
      OBVIOUS
    <3>2. thread' = [thread EXCEPT ![p] = r] /\ r.pc = "rotate_tail"
      BY <2>0, <2>3, <3>1 DEF LoadNextTail, Locals
    <3> QED BY <3>2
  <2> QED BY <2>1, <2>2, <2>3
<1>3. /\ thread'[p] = r /\ thread'[Driver] = thread[Driver]
      /\ \A q \in Publishers : q # p => thread'[q] = thread[q]
  BY <1>2, KnownTypes
<1>4. active_term_count <= active_term_count' /\ active_term_count' \in Nat
  <2>1. CASE CompareAndSetTermCount(p)
    <3>1. PICK a \in Nat, x \in Int : a = active_term_count /\ x = thread[p].count
      BY KnownTypes
    <3>2. active_term_count' = IF a = x THEN x + 1 ELSE a
      BY <2>1, <3>1 DEF CompareAndSetTermCount
    <3> QED BY <3>1, <3>2
  <2>2. CASE ~ CompareAndSetTermCount(p)
    <3>1. active_term_count' = active_term_count
      BY <2>2 DEF Crash, RotationRefused, LoadNextTail, CompareAndSetNextTail, log
    <3> QED BY <3>1, KnownTypes
  <2> QED BY <2>1, <2>2
<1>5. Keeps
  BY <1>1, <1>2, <1>3, <1>4 DEF Keeps
<1>6. NextByLimit'
  <2>1. CASE CompareAndSetTermCount(p)
    BY <2>1, NextByLimitStored, KnownTypes
  <2>2. CASE ~ CompareAndSetTermCount(p)
    <3>1. active_term_count' = active_term_count
      BY <2>2 DEF Crash, RotationRefused, LoadNextTail, CompareAndSetNextTail, log
    <3>2. \A i \in Partitions : TermOfPartition(i)' = TermOfPartition(i)
      BY <1>1 DEF TermOfPartition
    <3> QED BY <1>1, <1>3, <3>1, <3>2, NextByLimitKept
  <2> QED BY <2>1, <2>2
<1>7. Onward => FramesSound' /\ ReadSound'
  <2>1. \A q \in Publishers : thread'[q].pc \in WriteSteps => thread'[q] = thread[q]
    BY <1>2, <1>3 DEF WriteSteps
  <2> QED BY <1>1, <2>1, FramesKept
<1> QED BY <1>1, <1>3, <1>5, <1>6, <1>7, PublisherKept

\* A new tail leaves all sound.
LEMMA TailKeeps ==
  ASSUME RoomLeft, Known, NEW t \in Threads, CompareAndSetNextTail(t), raw_tail[NextIndex(t)] = thread[t].raw,
         t = Driver => ~ Excused'
  PROVE  AllSound'
<1>1. PICK a \in Nat, j \in Partitions :
        Replaced(t, a, j) /\ (Blocked => j # thread[Driver].partition /\ BlockedCount \in Nat)
  BY NextTailPlace
<1>2. Onward /\ ClaimsApart' /\ AddersSound' /\ ReadPlace' /\ NextByLimit' /\ DriverPlace'
  BY OnwardNext, ApartNext, ReadPlaceNext, NextByLimitNext, DriverPlaceNext
<1>3. /\ UNCHANGED << term, subscriber, claims, committed, delivered >>
      /\ thread' = [thread EXCEPT ![t].pc = "rotate_count"]
  BY DEF CompareAndSetNextTail, Goto, history
<1>4. /\ thread'[t].pc = "rotate_count"
      /\ \A u \in Threads : u # t => thread'[u] = thread[u]
  BY <1>3, KnownTypes DEF Locals
<1>5. DriverPads'
  <2>1. CASE t = Driver
    BY <2>1, DriverPadsWorks DEF UnblockStep, RotateStep
  <2>2. CASE t # Driver
    <3>1. thread'[Driver] = thread[Driver]
      BY <1>4, <2>2, KnownTypes
    <3>2. Blocked => BlockedCount' = BlockedCount
      <4>1. thread[Driver].partition \in Partitions
        BY KnownTypes
      <4>2. Blocked => TermOfPartition(thread[Driver].partition)' = TermOfPartition(thread[Driver].partition)
        BY <1>1, <3>1, <4>1 DEF Replaced, TermOfPartition
      <4> QED BY <4>2 DEF BlockedCount
    <3> QED BY <1>2, <3>1, <3>2, DriverPadsKept
  <2> QED BY <2>1, <2>2
<1>6. FramesSound' /\ ReadSound'
  <2>1. \A q \in Publishers : thread'[q].pc \in WriteSteps => thread'[q] = thread[q]
    BY <1>4, KnownTypes DEF WriteSteps
  <2> QED BY <1>2, <1>3, <2>1, FramesKept
<1> QED BY <1>2, <1>5, <1>6 DEF AllSound, PlacesSound

\* A step that begins to unblock leaves all sound.
LEMMA UnblockKeeps ==
  ASSUME RoomLeft, Known, Unblock
  PROVE  AllSound'
<1>1. /\ UNCHANGED << term, raw_tail, active_term_count, limit, subscriber, claims, committed, delivered, padded >>
      /\ \E r : thread' = [thread EXCEPT ![Driver] = r] /\ r.pc \in {"current_tail", "blocked_tail"}
      /\ thread[Driver].pc = "idle"
  <2>1. UNCHANGED << term, raw_tail, active_term_count, limit, subscriber, claims, committed, delivered, padded >>
    BY DEF Unblock, log, history
  <2>2. PICK p : p = subscriber.position
    OBVIOUS
  <2>3. PICK pc : pc = (IF Offset(p) = 0 /\ Count(p) = active_term_count + 1 THEN "current_tail" ELSE "blocked_tail")
    OBVIOUS
  <2>4. PICK r : r = [Idle EXCEPT !.pc = pc, !.count = active_term_count,
                                  !.partition = index_by_term_count(Count(p)), !.offset = Offset(p)]
    OBVIOUS
  <2>5. thread' = [thread EXCEPT ![Driver] = r] /\ thread[Driver].pc = "idle"
    BY <2>2, <2>3, <2>4 DEF Unblock
  <2>6. r.pc = pc /\ pc \in {"current_tail", "blocked_tail"}
    BY <2>3, <2>4 DEF Idle
  <2> QED BY <2>1, <2>5, <2>6
<1>2. PICK r : thread' = [thread EXCEPT ![Driver] = r] /\ r.pc \in {"current_tail", "blocked_tail"}
  BY <1>1
<1>3. thread'[Driver] = r /\ \A q \in Publishers : thread'[q] = thread[q]
  BY <1>2, KnownTypes
<1>4. Keeps
  BY <1>1, <1>3, KnownTypes DEF Keeps
<1>5. Onward /\ ClaimsApart' /\ AddersSound' /\ ReadPlace'
  BY <1>1, <1>4, PlacesKept
<1>6. NextByLimit'
  <2>1. \A i \in Partitions : TermOfPartition(i)' = TermOfPartition(i)
    BY <1>1 DEF TermOfPartition
  <2> QED BY <1>1, <2>1, NextByLimitKept
<1>7. DriverPlace'
  BY DriverPlaceUnblock
<1>8. DriverPads'
  BY <1>2, <1>3 DEF DriverPads, PadSteps
<1>9. FramesSound' /\ ReadSound'
  BY <1>1, <1>3, <1>5, FramesKept
<1> QED BY <1>5, <1>6, <1>7, <1>8, <1>9 DEF AllSound, PlacesSound

\* So does each step after it.
LEMMA UnblockStepKeeps ==
  ASSUME RoomLeft, Known, UnblockStep, ~ Excused'
  PROVE  AllSound'
<1>1. CASE CompareAndSetNextTail(Driver) /\ raw_tail[NextIndex(Driver)] = thread[Driver].raw
  BY <1>1, TailKeeps, KnownTypes
<1>2. CASE ~ (CompareAndSetNextTail(Driver) /\ raw_tail[NextIndex(Driver)] = thread[Driver].raw)
  <2>1. PICK d : d = thread[Driver]
    OBVIOUS
  <2>2. PICK new : new = thread'[Driver]
    OBVIOUS
  <2>3. /\ UNCHANGED << raw_tail, claims, committed, delivered, limit, subscriber >>
        /\ \A p \in Publishers : thread'[p] = thread[p]
        /\ padded \subseteq padded'
        /\ active_term_count <= active_term_count' /\ active_term_count' \in Nat
        /\ d.pc # "rotate_count" => active_term_count' = active_term_count
    BY <1>2, <2>1, <2>2, DriverWorks
  <2>4. Keeps
    BY <2>3 DEF Keeps
  <2>5. Onward /\ ClaimsApart' /\ AddersSound' /\ ReadPlace'
    BY <2>3, <2>4, PlacesKept
  <2>6. DriverPlace' /\ DriverPads'
    BY <1>2, DriverPlaceWorks, DriverPadsWorks
  <2>7. NextByLimit'
    <3>1. CASE d.pc = "rotate_count"
      <4>1. CompareAndSetTermCount(Driver)
        BY <2>1, <3>1 DEF UnblockStep, RotateStep, LoadCurrentTail, LoadBlockedTail, LoadLength, NegateLength,
             ScanForward, ScanBack, ApplyDefaultHeader, PadType, PadLength, RotationRefused, LoadNextTail,
             CompareAndSetNextTail
      <4> QED BY <4>1, NextByLimitStored, KnownTypes
    <3>2. CASE d.pc # "rotate_count"
      <4>1. \A i \in Partitions : TermOfPartition(i)' = TermOfPartition(i)
        BY <2>3 DEF TermOfPartition
      <4> QED BY <2>1, <2>3, <3>2, <4>1, NextByLimitKept
    <3> QED BY <3>1, <3>2
  <2>8. FramesSound' /\ ReadSound'
    BY <1>2, <2>5, FramesTaken
  <2> QED BY <2>5, <2>6, <2>7, <2>8 DEF AllSound, PlacesSound
<1> QED BY <1>1, <1>2

\* What went wrong is not forgotten.
LEMMA FaultsStay ==
  ASSUME [Next]_vars
  PROVE  faults \subseteq faults'
<1>1. CASE UNCHANGED vars
  BY <1>1 DEF vars, incidents
<1>2. ASSUME NEW t, RotateStep(t) PROVE faults \subseteq faults'
  BY <1>2 DEF RotateStep, RotationRefused, LoadNextTail, CompareAndSetNextTail, CompareAndSetTermCount, incidents
<1>3. ASSUME NEW p \in Publishers,
             (\E length \in FrameLengths : Offer(p, length)) \/ PublishStep(p) \/ Crash(p)
      PROVE  faults \subseteq faults'
  <2>1. CASE \E length \in FrameLengths : Offer(p, length)
    BY <2>1 DEF Offer, incidents
  <2>2. CASE PublishStep(p)
    BY <1>2, <2>2 DEF PublishStep, AddToTail, PutNegativeLength, PutHeader, Commit, AbortType, AbortLength, incidents
  <2>3. CASE Crash(p)
    BY <2>3 DEF Crash
  <2> QED BY <1>3, <2>1, <2>2, <2>3
<1>4. CASE UpdateLimit
  BY <1>4 DEF UpdateLimit
<1>5. CASE Unblock
  BY <1>5 DEF Unblock
<1>6. CASE UnblockStep
  <2>1. CASE ScanForward
    <3>1. PICK current : LookAt(current) \/ Pad(thread[Driver].raw.term_offset - thread[Driver].offset, TRUE)
      BY <2>1 DEF ScanForward
    <3> QED BY <3>1 DEF LookAt, Pad
  <2>2. CASE ScanBack
    <3>1. faults' = faults \/ Pad(thread[Driver].length, FALSE)
      BY <2>2 DEF ScanBack
    <3> QED BY <3>1 DEF Pad
  <2> QED BY <1>2, <1>6, <2>1, <2>2 DEF UnblockStep, LoadCurrentTail, LoadBlockedTail, LoadLength, NegateLength,
      ApplyDefaultHeader, PadType, PadLength, incidents
<1>7. CASE ReadStep
  BY <1>7 DEF ReadStep, ReadLength, ReadReturns, SkipPadding, HandleFragment, incidents
<1> QED BY <1>1, <1>3, <1>4, <1>5, <1>6, <1>7 DEF Next

\* All stays sound when nothing moves.
LEMMA NothingMoves ==
  ASSUME AllSound, UNCHANGED vars
  PROVE  AllSound'
<1>1. /\ UNCHANGED << term, raw_tail, active_term_count, thread, limit, subscriber >>
      /\ UNCHANGED << claims, committed, delivered, padded, faults >>
  BY DEF vars, log, history, incidents
<1>2. /\ \A n : /\ TermCount(n)' = TermCount(n) /\ TermOffset(n)' = TermOffset(n) /\ EndOffset(n)' = EndOffset(n)
                /\ HeaderOf(n)' = HeaderOf(n)
      /\ \A i : TermOfPartition(i)' = TermOfPartition(i) /\ Adders(i)' = Adders(i)
      /\ Cleaned' = Cleaned /\ ReadCount' = ReadCount /\ ReadOffset' = ReadOffset
      /\ BlockedCount' = BlockedCount /\ (Blocked' <=> Blocked)
  BY <1>1 DEF TermCount, TermOffset, EndOffset, HeaderOf, TermOfPartition, Adders, Cleaned, ReadCount, ReadOffset,
              BlockedCount, Blocked, Count, Offset, index_by_term_count
<1>3. \A c, o : Reaches(c, o)' <=> Reaches(c, o)
  BY <1>1, <1>2 DEF Reaches, index_by_term_count
<1>4. \A c : Cut(c)' <=> Cut(c)
  BY <1>1, <1>2 DEF Cut, index_by_term_count
<1>5. \A c : Sound(c)' <=> Sound(c)
  BY <1>2, <1>4 DEF Sound, Dirty
<1>6. PlacesSound'
  <2>1. ClaimsApart' /\ AddersSound'
    BY <1>1, <1>2 DEF AllSound, PlacesSound, ClaimsApart, Apart, AddersSound, index_by_term_count
  <2>2. ReadPlace' /\ NextByLimit'
    BY <1>1, <1>2, <1>3 DEF AllSound, PlacesSound, ReadPlace, NextByLimit
  <2>3. DriverPlace'
    BY <1>1, <1>2 DEF AllSound, PlacesSound, DriverPlace
  <2> QED BY <2>1, <2>2, <2>3 DEF PlacesSound
<1>7. \A n, h : (HeaderSound(n, h)' <=> HeaderSound(n, h)) /\ \A l : Taken(n, l)' <=> Taken(n, l)
  BY <1>1, <1>2, <1>3 DEF HeaderSound, Taken, Writes
<1>8. FramesSound'
  <2>1. WritersSound'
    BY <1>1, <1>2 DEF AllSound, FramesSound, WritersSound, index_by_term_count
  <2>2. UnclaimedEmpty' /\ HeadersSound'
    BY <1>1, <1>2, <1>5, <1>7 DEF AllSound, FramesSound, UnclaimedEmpty, HeadersSound, index_by_term_count
  <2>3. SubscriberSound'
    BY <1>1, <1>2, <1>7 DEF AllSound, FramesSound, SubscriberSound
  <2> QED BY <2>1, <2>2, <2>3 DEF FramesSound
<1>9. DriverPads'
  BY <1>1, <1>2, <1>3 DEF AllSound, DriverPads
<1>10. ReadSound'
  BY <1>1, <1>2 DEF AllSound, ReadSound, PassedSound, Passed, HandedOver, DeliveredSound, Writes
<1> QED BY <1>6, <1>8, <1>9, <1>10 DEF AllSound

\* What is delivered remains sound.
LEMMA DeliveryNext ==
  ASSUME RoomLeft, IInv, ClaimsMade, StepInv, DeliveryInv, [Next]_vars
  PROVE  DeliveryInv'
<1>1. faults \subseteq faults'
  BY FaultsStay
<1>2. SUFFICES ASSUME ~ Excused' PROVE AllSound'
  BY DEF DeliveryInv
<1>3. Known
  BY <1>1, <1>2 DEF DeliveryInv, Excused, Known
<1>4. CASE UNCHANGED vars
  BY <1>3, <1>4, NothingMoves DEF Known
<1>5. ASSUME NEW p \in Publishers,
             (\E length \in FrameLengths : Offer(p, length)) \/ PublishStep(p) \/ Crash(p)
      PROVE  AllSound'
  <2>1. p \in Threads /\ p # Driver
    BY <1>3, KnownTypes
  <2>2. CASE \E length \in FrameLengths : Offer(p, length)
    BY <1>3, <2>2, OfferKeeps
  <2>3. CASE AddToTail(p)
    BY <1>3, <2>3, AddKeeps
  <2>4. CASE PutNegativeLength(p) \/ PutHeader(p) \/ Commit(p) \/ AbortType(p) \/ AbortLength(p)
    BY <1>3, <2>4, WriteKeeps
  <2>5. CASE Crash(p) \/ RotationRefused(p) \/ LoadNextTail(p) \/ CompareAndSetTermCount(p)
    BY <1>3, <2>5, LeaveKeeps
  <2>6. CASE CompareAndSetNextTail(p)
    BY <1>3, <2>1, <2>6, LeaveKeeps, TailKeeps
  <2> QED BY <1>5, <2>2, <2>3, <2>4, <2>5, <2>6 DEF PublishStep, RotateStep
<1>6. CASE UpdateLimit
  BY <1>2, <1>3, <1>6, PlacesLimited, FramesLimited DEF AllSound
<1>7. CASE Unblock
  BY <1>3, <1>7, UnblockKeeps
<1>8. CASE UnblockStep
  BY <1>2, <1>3, <1>8, UnblockStepKeeps
<1>9. CASE ReadStep
  BY <1>3, <1>9, LengthRead, CallReturned, FrameRead DEF ReadStep
<1> QED BY <1>4, <1>5, <1>6, <1>7, <1>8, <1>9 DEF Next

\* The subscriber has passed the claims that end before its position.
LEMMA PassedByEnd ==
  ASSUME Known, subscriber.pc = "idle", NEW n \in DOMAIN claims, End(claims[n]) <= subscriber.position
  PROVE  Passed(n)
<1>1. PICK c, e, R, o, T \in Nat : /\ c = TermCount(n) /\ e = EndOffset(n) /\ R = ReadCount /\ o = ReadOffset
                                   /\ T = TermLength /\ 0 < e
  <2>1. TermCount(n) \in Nat /\ EndOffset(n) \in Nat /\ 0 < EndOffset(n)
    BY KnownClaims
  <2>2. ReadCount \in Nat /\ ReadOffset \in Nat /\ TermLength \in Nat
    BY KnownTypes
  <2> QED BY <2>1, <2>2
<1>2. o = Offset(subscriber.position) /\ o < T /\ subscriber.position = R * TermLength + o
  BY <1>1, PlaceTypes, KnownTypes DEF ReadOffset, Known
<1>3. PICK x, y \in Nat : x = c * TermLength /\ y = R * TermLength
  BY <1>1
<1>4. End(claims[n]) = x + e
  <2>1. PICK p, l, b \in Nat : /\ p = claims[n].position /\ l = claims[n].length /\ b = TermOffset(n)
                              /\ p = TermCount(n) * TermLength + b /\ EndOffset(n) = b + l
    BY KnownClaims
  <2>2. p = x + b /\ e = b + l
    BY <1>1, <1>3, <2>1
  <2> QED BY <2>1, <2>2 DEF End
<1>5. x + e <= y + o
  BY <1>2, <1>3, <1>4
<1>6. R < c => y + T <= x
  BY <1>1, <1>3, TermsApart
<1>7. c = R => x = y
  BY <1>3
<1> QED BY <1>1, <1>2, <1>5, <1>6, <1>7 DEF Passed

\* What is sound is delivered as it should be.
LEMMA SoundDelivers == Known => DeliveredUnlessTakenOver
<1> SUFFICES ASSUME Known PROVE DeliveredUnlessTakenOver
  OBVIOUS
<1>1. ReadSound /\ WritersSound
  BY DEF Known, AllSound, FramesSound
<1>2. \A i \in DOMAIN delivered : delivered[i].claim \in committed \/ delivered[i].position \in padded
  BY <1>1 DEF ReadSound, DeliveredSound
<1>3. ASSUME subscriber.pc = "idle", NEW n \in committed, End(claims[n]) <= subscriber.position,
             NEW S, S = {i \in DOMAIN delivered : delivered[i].claim = n}
      PROVE  Cardinality(S) = 1 \/ (Cardinality(S) = 0 /\ claims[n].position \in padded)
  <2>1. n \in DOMAIN claims /\ n > 0
    <3>1. n \in DOMAIN claims
      BY <1>1 DEF WritersSound
    <3> QED BY <3>1, KnownClaims
  <2>2. Passed(n)
    BY <1>3, <2>1, PassedByEnd
  <2>3. claims[n].position \notin padded => S # {}
    BY <1>1, <1>3, <2>1, <2>2 DEF ReadSound, PassedSound, HandedOver
  <2>4. ASSUME NEW i \in S, NEW j \in S PROVE i = j
    <3>1. i \in Nat /\ j \in Nat
      <4>1. delivered \in Seq([claim : Nat, position : Nat])
        BY DEF Known, IInv, TypeOK
      <4> QED BY <1>3, <4>1
    <3>2. delivered[i].position = claims[n].position /\ delivered[j].position = claims[n].position
      BY <1>1, <1>3, <2>1 DEF ReadSound, DeliveredSound
    <3>3. ~ i < j /\ ~ j < i
      <4>1. PICK x \in Nat : x = claims[n].position
        BY <2>1, KnownClaims
      <4>2. i < j => delivered[i].position < delivered[j].position
        BY <1>1, <1>3 DEF ReadSound, DeliveredSound
      <4>3. j < i => delivered[j].position < delivered[i].position
        BY <1>1, <1>3 DEF ReadSound, DeliveredSound
      <4> QED BY <3>2, <4>1, <4>2, <4>3
    <3> QED BY <3>1, <3>3
  <2>5. CASE S = {}
    BY <2>3, <2>5, FS_EmptySet
  <2>6. CASE S # {}
    <3>1. PICK i : S = {i}
      BY <2>4, <2>6
    <3> QED BY <3>1, FS_Singleton
  <2> QED BY <2>5, <2>6
<1> QED BY <1>2, <1>3 DEF DeliveredUnlessTakenOver

\* A committed message that the subscriber has passed was handed over, and once, except where
\* the driver took its position over, as long as the publishers together cannot fill a term.
THEOREM CommittedIsDelivered ==
  ASSUME RoomLeft
  PROVE  Spec => []DeliveredUnlessTakenOver
<1>1. FewPublishers
  BY RoomForFew
<1>2. Init => IInv /\ ClaimsMade /\ StepInv /\ DeliveryInv
  BY <1>1, InitOK, StepInit, DeliveryInit DEF DeliveryInv
<1>3. IInv /\ ClaimsMade /\ StepInv /\ DeliveryInv /\ [Next]_vars => (IInv /\ ClaimsMade /\ StepInv /\ DeliveryInv)'
  BY <1>1, NextOK, ClaimsMadeStep, StepNext, DeliveryNext
<1>4. IInv /\ ClaimsMade /\ StepInv /\ DeliveryInv => DeliveredUnlessTakenOver
  <2>1. SUFFICES ASSUME IInv, ClaimsMade, StepInv, DeliveryInv, ~ Excused PROVE DeliveredUnlessTakenOver
    BY DEF DeliveredUnlessTakenOver, Excused
  <2> QED BY <2>1, SoundDelivers DEF DeliveryInv, Known
<1> QED BY <1>2, <1>3, <1>4, PTL DEF Spec
=============================================================================
