----------------------------- MODULE LogBuffer ------------------------------
(***************************************************************************)
(* caeron/logbuffer: the three terms of a publication and their metadata,  *)
(* with the publishers that claim frames in them, the subscriber that      *)
(* reads them, and the driver that unblocks what a dead publisher left.    *)
(*                                                                         *)
(* Offsets and lengths are counted in FRAME_ALIGNMENT (32 bytes), which is *)
(* also the length of a frame's header.  Each action is one access to the  *)
(* metadata or to the header of a frame.  Only the first word of a frame   *)
(* is looked at, so the words of a payload stay 0.                         *)
(*                                                                         *)
(* How a publisher claims (get-and-add on the tail, its window, padding at *)
(* the end of a term) and how terms are cleaned is not in this repository; *)
(* it is modelled as LogBufferDescriptor, BufferClaim and the unblocker    *)
(* expect it.                                                              *)
(***************************************************************************)
EXTENDS Integers, Sequences, FiniteSets

CONSTANTS
  Publishers,      \* client threads that share the publication
  Driver,          \* the driver's thread that unblocks
  TermLength,
  FrameLengths,    \* the lengths publishers claim
  InitialTermId,
  Window,          \* how far publishers may be ahead of the subscriber
  CrashSteps,      \* the steps at which a publisher may die
  SlowSteps,       \* those at which it may be as slow as a dead one
  MaxClaims,       \* bound: frames claimed
  MaxIncidents     \* bound: publishers that die or are taken for dead

PARTITION_COUNT == 3

ASSUME ThreadsAssumption == Driver \notin Publishers
ASSUME TermAssumption == TermLength \in Nat \ {0} /\ Window \in 0 .. TermLength
ASSUME LengthsAssumption == FrameLengths \subseteq 1 .. TermLength
ASSUME IdAssumption == InitialTermId \in Int
ASSUME BoundsAssumption == MaxClaims \in Nat /\ MaxIncidents \in Nat

VARIABLES
  term,            \* per partition and offset, the header of the frame there
  raw_tail,        \* per partition, the packed tail: term id and term offset
  active_term_count,
  thread,          \* each publisher and the driver: its step and its locals
  limit,           \* the position publishers may go to, set by the driver
  subscriber,      \* the subscriber: its position, step and offset in read()
  claims,          \* history: the frames that were claimed, padding included
  committed,       \* history: the claims that commit() published
  delivered,       \* history: the calls of the fragment handler: position and claim
  padded,          \* history: the positions that the driver took over to make padding
  faults,          \* history: the steps at which publishers died; "to_tail", "past_end" and
                   \* "late" when the driver padded up to the tail, looked behind the end of
                   \* a term, and cleaned a term in which a slow publisher still writes
  timeouts         \* times a slow publisher was taken for dead so far

log == << term, raw_tail, active_term_count, limit >>
history == << claims, committed, delivered, padded >>
incidents == << faults, timeouts >>
vars == << log, thread, subscriber, history, incidents >>

Threads == Publishers \cup {Driver}
Partitions == 0 .. PARTITION_COUNT - 1
Offsets == 0 .. TermLength - 1

\* The header of no frame: the type of padding is 0.
EmptyTerm == [offset \in Offsets |-> [length |-> 0, type |-> "PAD", claim |-> 0]]

\* The default header in the metadata is that of data, with length 0.
DefaultHeader == [length |-> 0, type |-> "DATA", claim |-> 0]

\* pack_tail(), tail_term_id() and tail_term_offset(): a pair in one word.
pack_tail(term_offset, term_id) == [term_offset |-> term_offset, term_id |-> term_id]

index_by_term_count(count) == count % PARTITION_COUNT

Idle ==
  [pc |-> "idle", count |-> 0, term_id |-> 0, partition |-> 0, offset |-> 0,
   length |-> 0, claim |-> 0, rotates |-> FALSE, raw |-> pack_tail(0, 0), scan |-> 0]

Goto(t, pc) == thread' = [thread EXCEPT ![t].pc = pc]
Return(t) == thread' = [thread EXCEPT ![t] = Idle]

\* The frame t works at, and the store of a new header in it.
Frame(t) == term[thread[t].partition][thread[t].offset]
PutFrame(t, frame) == term' = [term EXCEPT ![thread[t].partition][thread[t].offset] = frame]

-----------------------------------------------------------------------------
(* rotate_log(), called by a publisher that reached the end of its term or *)
(* by the driver, with the term count and the term id in its locals.       *)

NextIndex(t) == index_by_term_count(thread[t].count + 1)
ExpectedTermId(t) == thread[t].term_id + 1 - PARTITION_COUNT

\* The tail of the next partition is not the one to be replaced: false.
RotationRefused(t) ==
  /\ thread[t].pc = "rotate"
  /\ raw_tail[NextIndex(t)].term_id # ExpectedTermId(t)
  /\ Return(t)
  /\ UNCHANGED << log, subscriber, history, incidents >>

LoadNextTail(t) ==
  /\ thread[t].pc = "rotate"
  /\ raw_tail[NextIndex(t)].term_id = ExpectedTermId(t)
  /\ thread' = [thread EXCEPT ![t].pc = "rotate_tail", ![t].raw = raw_tail[NextIndex(t)]]
  /\ UNCHANGED << log, subscriber, history, incidents >>

\* Mutant: the tail is stored without comparing it.
SetNextTail(t) ==
  /\ thread[t].pc = "rotate_tail"
  /\ raw_tail' = [raw_tail EXCEPT ![NextIndex(t)] = pack_tail(0, thread[t].term_id + 1)]
  /\ Goto(t, "rotate_count")
  /\ UNCHANGED << term, active_term_count, limit, subscriber, history, incidents >>

CompareAndSetNextTail(t) ==
  /\ thread[t].pc = "rotate_tail"
  /\ \/ /\ raw_tail[NextIndex(t)] = thread[t].raw
        /\ raw_tail' = [raw_tail EXCEPT ![NextIndex(t)] = pack_tail(0, thread[t].term_id + 1)]
        /\ Goto(t, "rotate_count")
     \/ /\ raw_tail[NextIndex(t)] # thread[t].raw
        /\ Goto(t, "rotate")
        /\ UNCHANGED raw_tail
  /\ UNCHANGED << term, active_term_count, limit, subscriber, history, incidents >>

\* Mutant: the count is left to the next publisher.
ForgetTermCount(t) ==
  /\ thread[t].pc = "rotate_count"
  /\ Return(t)
  /\ UNCHANGED << log, subscriber, history, incidents >>

CompareAndSetTermCount(t) ==
  /\ thread[t].pc = "rotate_count"
  /\ active_term_count' =
       IF active_term_count = thread[t].count THEN thread[t].count + 1 ELSE active_term_count
  /\ Return(t)
  /\ UNCHANGED << term, raw_tail, limit, subscriber, history, incidents >>

-----------------------------------------------------------------------------
(* A publisher.                                                            *)

\* The position of the tail of the active term.
ProducerPosition ==
  active_term_count * TermLength + raw_tail[index_by_term_count(active_term_count)].term_offset

\* The publisher loads the active term count and is within the limit.
Offer(p, length) ==
  /\ thread[p].pc = "idle"
  /\ Len(claims) + Cardinality({q \in Publishers : thread[q].pc = "add"}) < MaxClaims
  /\ ProducerPosition < limit
  /\ thread' = [thread EXCEPT ![p].pc = "add", ![p].count = active_term_count, ![p].length = length]
  /\ UNCHANGED << log, subscriber, history, incidents >>

AddToTail(p) ==
  LET index == index_by_term_count(thread[p].count)
      tail == raw_tail[index]
      fits == tail.term_offset + thread[p].length <= TermLength
      length == IF fits THEN thread[p].length ELSE TermLength - tail.term_offset
      at == [thread[p] EXCEPT !.count = tail.term_id - InitialTermId, !.term_id = tail.term_id,
                              !.partition = index]
  IN  /\ thread[p].pc = "add"
      /\ raw_tail' = [raw_tail EXCEPT ![index].term_offset = @ + thread[p].length]
      /\ \/ /\ tail.term_offset < TermLength
            /\ claims' = Append(claims, [position |-> at.count * TermLength + tail.term_offset,
                                         length |-> length])
            /\ thread' = [thread EXCEPT ![p] = [at EXCEPT
                            !.pc = "claimed", !.offset = tail.term_offset, !.length = length,
                            !.claim = Len(claims) + 1, !.rotates = ~ fits]]
         \/ /\ tail.term_offset >= TermLength
            /\ thread' = [thread EXCEPT ![p] = [at EXCEPT !.pc = "rotate"]]
            /\ UNCHANGED claims
      /\ UNCHANGED << term, active_term_count, limit, subscriber, committed, delivered, padded, incidents >>

\* write_default_header() with the negative length of an unfinished frame ...
PutNegativeLength(p) ==
  /\ thread[p].pc = "claimed"
  /\ PutFrame(p, [Frame(p) EXCEPT !.length = - thread[p].length])
  /\ Goto(p, "header")
  /\ UNCHANGED << raw_tail, active_term_count, limit, subscriber, history, incidents >>

\* Mutant: the type is left out of the header.
PutHeaderUntyped(p) ==
  /\ thread[p].pc = "header"
  /\ PutFrame(p, [Frame(p) EXCEPT !.claim = thread[p].claim])
  /\ Goto(p, "payload")
  /\ UNCHANGED << raw_tail, active_term_count, limit, subscriber, history, incidents >>

\* ... and the fields behind it.
PutHeader(p) ==
  /\ thread[p].pc = "header"
  /\ PutFrame(p, [Frame(p) EXCEPT !.type = "DATA", !.claim = thread[p].claim])
  /\ Goto(p, "payload")
  /\ UNCHANGED << raw_tail, active_term_count, limit, subscriber, history, incidents >>

\* BufferClaim::commit(): the length is stored with release semantics.
Commit(p) ==
  /\ thread[p].pc = "payload"
  /\ ~ thread[p].rotates
  /\ PutFrame(p, [Frame(p) EXCEPT !.length = thread[p].length])
  /\ committed' = committed \cup {thread[p].claim}
  /\ Return(p)
  /\ UNCHANGED << raw_tail, active_term_count, limit, subscriber, claims, delivered, padded, incidents >>

\* BufferClaim::abort(): the type first, then the length.  The padding at the
\* end of a term is written the same way.
AbortType(p) ==
  /\ thread[p].pc = "payload"
  /\ PutFrame(p, [Frame(p) EXCEPT !.type = "PAD"])
  /\ Goto(p, "abort")
  /\ UNCHANGED << raw_tail, active_term_count, limit, subscriber, history, incidents >>

AbortLength(p) ==
  /\ thread[p].pc = "abort"
  /\ PutFrame(p, [Frame(p) EXCEPT !.length = thread[p].length])
  /\ IF thread[p].rotates THEN Goto(p, "rotate") ELSE Return(p)
  /\ UNCHANGED << raw_tail, active_term_count, limit, subscriber, history, incidents >>

Incidents == timeouts + Cardinality({p \in Publishers : thread[p].pc = "dead"})

\* The client dies.
Crash(p) ==
  /\ thread[p].pc \in CrashSteps
  /\ Incidents < MaxIncidents
  /\ Goto(p, "dead")
  /\ faults' = faults \cup {thread[p].pc}
  /\ UNCHANGED << log, subscriber, history, timeouts >>

-----------------------------------------------------------------------------
(* The driver: LogBufferUnblocker::unblock() and TermUnblocker::unblock(). *)

Count(position) == position \div TermLength
Offset(position) == position % TermLength

\* The driver sees how far the subscriber is: it cleans the terms that have been
\* read and moves the limit of the publishers.
UpdateLimit ==
  LET read == Count(limit - Window) .. Count(subscriber.position) - 1
      late == \E p \in Publishers : /\ thread[p].pc \in {"claimed", "header", "payload", "abort"}
                                    /\ thread[p].count \in read
  IN  /\ thread[Driver].pc = "idle"
      /\ limit # subscriber.position + Window
      /\ limit' = subscriber.position + Window
      /\ term' = [i \in Partitions |->
                    IF \E count \in read : index_by_term_count(count) = i THEN EmptyTerm ELSE term[i]]
      /\ faults' = IF late THEN faults \cup {"late"} ELSE faults
      /\ UNCHANGED << raw_tail, active_term_count, thread, subscriber, history, timeouts >>

\* A publisher that has died or is slow has the claim at this position.
BlockedBy(p, position) ==
  /\ thread[p].pc \in {"dead"} \cup SlowSteps
  /\ thread[p].claim > 0
  /\ claims[thread[p].claim].position = position

\* The position has not moved for as long as the driver's timeout.  It is at the
\* start of the next term or at a frame that nobody seems to finish.  Loads the
\* active term count.
Unblock ==
  LET position == subscriber.position
      nextTerm == Offset(position) = 0 /\ Count(position) = active_term_count + 1
  IN  /\ thread[Driver].pc = "idle"
      /\ \/ nextTerm /\ UNCHANGED timeouts
         \/ \E p \in Publishers :
              /\ BlockedBy(p, position)
              /\ \/ thread[p].pc = "dead" /\ UNCHANGED timeouts
                 \/ /\ thread[p].pc # "dead"
                    /\ Incidents < MaxIncidents
                    /\ timeouts' = timeouts + 1
      /\ thread' = [thread EXCEPT ![Driver] = [Idle EXCEPT
                      !.pc = IF nextTerm THEN "current_tail" ELSE "blocked_tail",
                      !.count = active_term_count,
                      !.partition = index_by_term_count(Count(position)),
                      !.offset = Offset(position)]]
      /\ UNCHANGED << log, subscriber, history, faults >>

\* The id of the current term, to rotate to the next.
LoadCurrentTail ==
  LET tail == raw_tail[index_by_term_count(thread[Driver].count)]
  IN  /\ thread[Driver].pc = "current_tail"
      /\ thread' = [thread EXCEPT ![Driver].pc = "rotate", ![Driver].term_id = tail.term_id]
      /\ UNCHANGED << log, subscriber, history, incidents >>

LoadBlockedTail ==
  LET tail == raw_tail[thread[Driver].partition]
  IN  /\ thread[Driver].pc = "blocked_tail"
      /\ thread' = [thread EXCEPT ![Driver].pc = "length", ![Driver].raw = tail,
                                  ![Driver].term_id = tail.term_id]
      /\ UNCHANGED << log, subscriber, history, incidents >>

\* Mutant: a negative length is taken for a complete frame.
LoadLengthUnsigned ==
  LET length == Frame(Driver).length
  IN  /\ thread[Driver].pc = "length"
      /\ \/ /\ length = 0
            /\ thread' = [thread EXCEPT ![Driver].pc = "forward",
                                        ![Driver].scan = thread[Driver].offset]
         \/ /\ length # 0
            /\ Return(Driver)
      /\ UNCHANGED << log, subscriber, history, incidents >>

LoadLength ==
  LET length == Frame(Driver).length
  IN  /\ thread[Driver].pc = "length"
      /\ \/ /\ length < 0
            /\ thread' = [thread EXCEPT ![Driver].pc = "negate", ![Driver].length = - length]
         \/ /\ length = 0
            /\ thread' = [thread EXCEPT ![Driver].pc = "forward",
                                        ![Driver].scan = thread[Driver].offset]
         \/ /\ length > 0                      \* NO_ACTION
            /\ Return(Driver)
      /\ UNCHANGED << log, subscriber, history, incidents >>

\* The driver takes over the positions of a blocked frame.
TakeOver(length) ==
  LET from == (thread[Driver].term_id - InitialTermId) * TermLength + thread[Driver].offset
  IN  padded' = padded \cup (from .. from + length - 1)

\* The compare-and-set that takes an unfinished frame: its length is positive
\* before its header is that of padding.
NegateLength ==
  LET expected == - thread[Driver].length
  IN  /\ thread[Driver].pc = "negate"
      /\ \/ /\ Frame(Driver).length = expected
            /\ PutFrame(Driver, [Frame(Driver) EXCEPT !.length = - expected])
            /\ Goto(Driver, "default_header")
            /\ TakeOver(thread[Driver].length)
         \/ /\ Frame(Driver).length # expected  \* NO_ACTION
            /\ Return(Driver)
            /\ UNCHANGED << term, padded >>
      /\ UNCHANGED << raw_tail, active_term_count, limit, subscriber, claims, committed, delivered, incidents >>

\* The first words from the blocked offset to the tail; those behind the end
\* of the term are whatever is there.
MayBeZero(offset) ==
  offset \in Offsets => term[thread[Driver].partition][offset].length = 0
MayBeNonZero(offset) ==
  offset \in Offsets => term[thread[Driver].partition][offset].length # 0

LookAt(offset) == faults' = IF offset \in Offsets THEN faults ELSE faults \cup {"past_end"}

\* The driver makes padding of this length, or finds that none is left.
Pad(length, rotates) ==
  \/ /\ length = 0                             \* NO_ACTION
     /\ Return(Driver)
     /\ UNCHANGED << padded, faults >>
  \/ /\ length # 0
     /\ thread' = [thread EXCEPT ![Driver].pc = "default_header", ![Driver].length = length,
                                 ![Driver].rotates = rotates]
     /\ TakeOver(length)
     /\ faults' = faults \cup (IF rotates THEN {"to_tail"} ELSE {})

ScanForward ==
  LET tail_offset == thread[Driver].raw.term_offset
      current == thread[Driver].scan
  IN  /\ thread[Driver].pc = "forward"
      /\ \/ /\ current < tail_offset
            /\ MayBeZero(current)
            /\ thread' = [thread EXCEPT ![Driver].scan = current + 1]
            /\ LookAt(current)
            /\ UNCHANGED padded
         \/ /\ current < tail_offset
            /\ MayBeNonZero(current)
            /\ thread' = [thread EXCEPT ![Driver].pc = "back", ![Driver].scan = current - 1,
                                        ![Driver].length = current - thread[Driver].offset]
            /\ LookAt(current)
            /\ UNCHANGED padded
         \/ /\ current >= tail_offset
            /\ Pad(tail_offset - thread[Driver].offset, TRUE)
      /\ UNCHANGED << log, subscriber, claims, committed, delivered, timeouts >>

\* scan_back_to_confirm_zeroed()
ScanBack ==
  LET current == thread[Driver].scan
  IN  /\ thread[Driver].pc = "back"
      /\ \/ /\ current >= thread[Driver].offset
            /\ MayBeZero(current)
            /\ thread' = [thread EXCEPT ![Driver].scan = current - 1]
            /\ UNCHANGED << padded, faults >>
         \/ /\ current >= thread[Driver].offset
            /\ MayBeNonZero(current)           \* NO_ACTION
            /\ Return(Driver)
            /\ UNCHANGED << padded, faults >>
         \/ /\ current < thread[Driver].offset
            /\ Pad(thread[Driver].length, FALSE)
      /\ UNCHANGED << log, subscriber, claims, committed, delivered, timeouts >>

\* apply_default_header(), the first step of write_padding_header().
ApplyDefaultHeader ==
  /\ thread[Driver].pc = "default_header"
  /\ PutFrame(Driver, DefaultHeader)
  /\ Goto(Driver, "pad_type")
  /\ UNCHANGED << raw_tail, active_term_count, limit, subscriber, history, incidents >>

\* The type, the term offset and the term id.
PadType ==
  /\ thread[Driver].pc = "pad_type"
  /\ PutFrame(Driver, [Frame(Driver) EXCEPT !.type = "PAD"])
  /\ Goto(Driver, "pad_length")
  /\ UNCHANGED << raw_tail, active_term_count, limit, subscriber, history, incidents >>

\* UNBLOCKED, or UNBLOCKED_TO_END, which rotates the log.
PadLength ==
  /\ thread[Driver].pc = "pad_length"
  /\ PutFrame(Driver, [Frame(Driver) EXCEPT !.length = thread[Driver].length])
  /\ IF thread[Driver].rotates THEN Goto(Driver, "rotate") ELSE Return(Driver)
  /\ UNCHANGED << raw_tail, active_term_count, limit, subscriber, history, incidents >>

-----------------------------------------------------------------------------
(* The subscriber: TermReader::read() from its position, again and again.  *)

SubscribedPartition == index_by_term_count(Count(subscriber.position))

\* The next frame of this call is published.
ReadLength ==
  LET offset == IF subscriber.pc = "idle" THEN Offset(subscriber.position) ELSE subscriber.offset
      length == term[SubscribedPartition][offset].length
  IN  /\ subscriber.pc \in {"idle", "loop"}
      /\ offset < TermLength
      /\ length > 0
      /\ subscriber' = [subscriber EXCEPT !.pc = "type", !.offset = offset, !.length = length]
      /\ UNCHANGED << log, thread, history, incidents >>

\* It is not, or the term or the fragment limit ends the call: the image moves
\* its position to the offset that was reached.
ReadReturns ==
  /\ subscriber.pc = "loop"
  /\ subscriber' = [position |-> Count(subscriber.position) * TermLength + subscriber.offset,
                    pc |-> "idle", offset |-> 0, length |-> 0]
  /\ UNCHANGED << log, thread, history, incidents >>

SkipPadding ==
  /\ subscriber.pc = "type"
  /\ term[SubscribedPartition][subscriber.offset].type = "PAD"
  /\ subscriber' = [subscriber EXCEPT !.pc = "loop", !.offset = @ + subscriber.length]
  /\ UNCHANGED << log, thread, history, incidents >>

HandleFragment ==
  LET frame == term[SubscribedPartition][subscriber.offset]
  IN  /\ subscriber.pc = "type"
      /\ frame.type = "DATA"
      /\ delivered' = Append(delivered, [claim |-> frame.claim,
              position |-> Count(subscriber.position) * TermLength + subscriber.offset])
      /\ subscriber' = [subscriber EXCEPT !.pc = "loop", !.offset = @ + subscriber.length]
      /\ UNCHANGED << log, thread, claims, committed, padded, incidents >>

-----------------------------------------------------------------------------
\* The log of a new publication: partition 0 is active, the tails of the
\* others are those of the terms before it.
Init ==
  /\ term = [i \in Partitions |-> EmptyTerm]
  /\ raw_tail = [i \in Partitions |->
                   pack_tail(0, InitialTermId + i - (IF i = 0 THEN 0 ELSE PARTITION_COUNT))]
  /\ active_term_count = 0
  /\ limit = Window
  /\ thread = [t \in Threads |-> Idle]
  /\ subscriber = [position |-> 0, pc |-> "idle", offset |-> 0, length |-> 0]
  /\ claims = << >>
  /\ committed = {}
  /\ delivered = << >>
  /\ padded = {}
  /\ faults = {}
  /\ timeouts = 0

RotateStep(t) ==
  \/ RotationRefused(t)
  \/ LoadNextTail(t)
  \/ CompareAndSetNextTail(t)
  \/ CompareAndSetTermCount(t)

\* The steps of a publisher between Offer and the end of its call.
PublishStep(p) ==
  \/ AddToTail(p)
  \/ PutNegativeLength(p)
  \/ PutHeader(p)
  \/ Commit(p)
  \/ AbortType(p)
  \/ AbortLength(p)
  \/ RotateStep(p)

UnblockStep ==
  \/ LoadCurrentTail
  \/ LoadBlockedTail
  \/ LoadLength
  \/ NegateLength
  \/ ScanForward
  \/ ScanBack
  \/ ApplyDefaultHeader
  \/ PadType
  \/ PadLength
  \/ RotateStep(Driver)

ReadStep ==
  \/ ReadLength
  \/ ReadReturns
  \/ SkipPadding
  \/ HandleFragment

Next ==
  \/ \E p \in Publishers : (\E length \in FrameLengths : Offer(p, length)) \/ PublishStep(p) \/ Crash(p)
  \/ UpdateLimit
  \/ Unblock
  \/ UnblockStep
  \/ ReadStep

Spec == Init /\ [][Next]_vars

\* A live publisher finishes what it has begun, the driver keeps updating
\* the limit and checking for blocked positions, and the subscriber polls.
Fairness ==
  /\ \A p \in Publishers : WF_vars(PublishStep(p))
  /\ WF_vars(UpdateLimit)
  /\ WF_vars(Unblock \/ UnblockStep)
  /\ WF_vars(ReadStep)

FairSpec == Spec /\ Fairness

-----------------------------------------------------------------------------
(* Properties.                                                             *)

PublisherSteps == {"add", "claimed", "header", "payload", "abort"}
RotateSteps == {"rotate", "rotate_tail", "rotate_count"}
DriverSteps == {"current_tail", "blocked_tail", "length", "negate", "forward", "back",
                "default_header", "pad_type", "pad_length"}

PackedTail == [term_offset : Nat, term_id : Int]

Claim == [position : Int, length : Nat]
Header == [length : Int, type : {"DATA", "PAD"}, claim : Nat]

Locals ==
  [pc : {"idle", "dead"} \cup PublisherSteps \cup RotateSteps \cup DriverSteps,
   count : Int, term_id : Int, partition : Partitions, offset : Offsets, length : Int,
   claim : Nat, rotates : BOOLEAN, raw : PackedTail, scan : Int]

\* The types of the variables: no thread works at an offset outside its term.
TypeOK ==
  /\ term \in [Partitions -> [Offsets -> Header]]
  /\ raw_tail \in [Partitions -> PackedTail]
  /\ active_term_count \in Nat
  /\ limit \in Nat
  /\ thread \in [Threads -> Locals]
  /\ subscriber \in [position : Nat, pc : {"idle", "loop", "type"}, offset : Nat, length : Nat]
  /\ subscriber.pc = "type" => subscriber.offset \in Offsets
  /\ claims \in Seq(Claim)
  /\ committed \subseteq Nat
  /\ delivered \in Seq([claim : Nat, position : Nat])
  /\ padded \subseteq Int
  /\ faults \subseteq CrashSteps \cup {"to_tail", "past_end", "late"}
  /\ timeouts \in Nat

End(claim) == claim.position + claim.length

\* The claims of a term cover it exactly up to its tail: no two publishers have
\* claimed the same position, none is left to nobody, none is claimed again.
ClaimsTile ==
  \A i \in Partitions, offset \in Offsets :
    LET count == raw_tail[i].term_id - InitialTermId
        position == count * TermLength + offset
        owners == {n \in DOMAIN claims : position \in claims[n].position .. End(claims[n]) - 1}
    IN  count >= 0 => Cardinality(owners) = IF offset < raw_tail[i].term_offset THEN 1 ELSE 0

\* Whoever rotates, and whoever dies while rotating: the active term count is
\* that of a tail, no tail runs ahead of it by more than one term, and if one does,
\* the thread that will store the count is on its way, or died there.  (As long as
\* publishers that loaded an old term count cannot fill a term: three of them can
\* if a term holds one frame.)
TermsInStep ==
  LET TermIdAt(count) == raw_tail[index_by_term_count(count)].term_id - InitialTermId
  IN  /\ TermIdAt(active_term_count) = active_term_count
      /\ TermIdAt(active_term_count + 1) \in {active_term_count + 1, active_term_count - 2}
      /\ TermIdAt(active_term_count + 2) = active_term_count - 1
      /\ TermIdAt(active_term_count + 1) = active_term_count + 1 =>
           \/ \E t \in Threads : thread[t].pc = "rotate_count" /\ thread[t].count = active_term_count
           \/ "rotate_count" \in faults

\* A committed message the subscriber has passed was handed over, and once,
\* and the handler is called with committed messages only: except where the driver
\* took a slow publisher for dead and took the position over, and unless the
\* publisher was so slow that its term was cleaned, or the driver looked behind
\* the end of a term.
DeliveredUnlessTakenOver ==
  \/ faults \cap {"late", "past_end"} # {}
  \/ /\ subscriber.pc = "idle" =>
          \A n \in committed : End(claims[n]) <= subscriber.position =>
            LET times == Cardinality({i \in DOMAIN delivered : delivered[i].claim = n})
            IN  times = 1 \/ (times = 0 /\ claims[n].position \in padded)
     /\ \A i \in DOMAIN delivered :
          delivered[i].claim \in committed \/ delivered[i].position \in padded

\* The subscriber catches up with the publishers, dead and slow ones included:
\* what they leave behind is unblocked, as long as the driver finds a frame
\* behind it in the term, need not pad up to the tail, and cleans no term that a
\* slow publisher still writes in.
CatchesUp ==
  []<>((\A n \in DOMAIN claims : End(claims[n]) <= subscriber.position)
        \/ faults \cap {"to_tail", "past_end", "late"} # {})
=============================================================================
