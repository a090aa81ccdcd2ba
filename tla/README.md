# Caeron in TLA+

Caeron is a C++ rewrite of the Aeron messaging transport: client processes and a
media driver exchange commands, counters and log buffers through shared memory,
and the driver exchanges UDP frames with other drivers.  This directory holds
TLA+ models of its core, the TLC configurations that check them on small
instances, and proofs for TLAPS that hold for every instance.

Paths below are relative to `src/src/caeron/` in the repository unless they start
with `src/`.

## 1. The system

| Part | State it keeps | Operations | Interacts with |
|---|---|---|---|
| Many-to-one ring buffer, `concurrent/many_to_one_ring_buffer.h` | head, tail and the data region in shared memory | `write` (any client), `read` (the driver) | carries commands client -> driver |
| Broadcast buffer, `concurrent/broadcast_transmitter.h`, `broadcast_receiver.h` | head, tail, data; each receiver's cursor | `transmit` (the driver), `receive` (every client) | carries responses driver -> clients |
| Counters, `concurrent/counters_manager.h`, `atomic_counter.h` | per slot: type id, key, label, value | `allocate`, `free`, updates; `forEach`, `get_key`, `get_label` | driver and clients count, monitors read |
| Array queue, `concurrent/one_to_one_concurrent_array_queue.h` | i32 head and tail, slots of raw memory | `enqueue`, `try_dequeue`, destructor | between two threads of the driver |
| Linked queue, `concurrent/many_to_one_concurrent_linked_queue.h` | chain of heap nodes from `head_` to `tail_` | `enqueue`, `try_dequeue`, destructor | commands to a driver thread |
| Log buffer, terms, `logbuffer/log_buffer_descriptor.h`, `buffer_claim.h`, `header_writer.h`, `frame_descriptor.h` | three terms, three packed tails, active term count | claims are committed or aborted, `rotate_log`, packing, default header | publisher, sender, driver |
| Log buffer, unblocking, `logbuffer/term_unblocker.h`, `log_buffer_unblocker.h` | same | `unblock` of a publication whose client died | races publisher and rotation |
| Log buffer, image side, `logbuffer/term_rebuilder.h`, `term_gap_filler.h`, `term_gap_scanner.h`, `term_scanner.h`, `term_block_scanner.h`, `term_reader.h` | frames of a term | `insert`, `try_fill_gap`, `scan_for_gap`, `scan_for_availability`, `scan`, `read` | receiver, loss detection, subscribers |
| CnC protocol, `cnc/driver_proxy.h`, `client_command_adapter.h`, `client_proxy.h`, `driver_events_adapter.h` | correlation counter, the request and response in flight | one method per command and per event | two channels: ring and broadcast |
| CnC file, `cnc/cnc_file_descriptor.h`, `mapped_log_buffers_factory.*` | version, lengths, mapping | create, map, check version | start-up of driver and client |
| Media, `driver/media/*` | reserved ports, sockets, reference counts, destinations, poller entries | open, close, dispatch, register, cancel, poll | receiver and sender |
| Flyweights, `command/*`, `protocol/*` | none | field access | all |
| Placeholders | none | media driver agents, congestion and flow control, loss, archive, cluster: empty at this commit | |

What is hard in each of them, and what makes it correct:

- **Ring.** Any number of processes race for the tail with a compare-and-set computed
  from two separate loads; a record is published by its length word alone; memory is
  reused, so what the next lap reads where nothing is written yet must be 0; a
  process may die at any point; the handler may throw.  Correct: claims never
  overlap what is unread, every claim is delivered once, in order and unchanged,
  and a drained ring accepts.
- **Broadcast.** One transmitter that must not overwrite what is unread, and receivers
  that keep their own cursor but share the one head.  Correct: every message in order
  and unchanged, also again after an exception.
- **Counters.** A slot is found free, taken, filled and published in separate stores
  while others search and a monitor reads; `free` is two stores.  Correct: one
  owner per id, no value inherited, the metadata of a published slot complete, `allocate`
  gives up only with reason.
- **Queues.** Reused slots and reused node addresses, an exchange and a later link,
  i32 indices that overflow.  Correct: FIFO, no construct or destroy twice, no
  touch of freed memory, no leak at destruction.
- **Log buffer.** A rotation of two compare-and-sets with a stall in between; an
  unblocker that takes a slow publisher for a dead one; frames inserted, filled
  and read concurrently.  Correct: the stream read is the stream published, with
  padding in place of what was abandoned; the term count never runs ahead of the
  tails; a gap that is filled is never half overwritten.
- **CnC and frames.** Each writer fills one scratch buffer that is never cleared, and one
  flyweight reads back what an earlier message left; the reader trusts lengths that
  another process, or the network, wrote.  Correct: the handler gets the arguments of the
  method, nothing behind the message is read, and nothing of an earlier one is sent but the
  63 bits of the flags of `remove_publication` that `set_revoke` keeps.  (Two
  clients number their commands alike; who answers them is not in this repository.)
- **Media.** Ports are reserved before socket operations that may fail, and freed by
  what `bound_address_` says; epoll keeps a pointer into a list that grows and
  shrinks, under a descriptor number that the kernel hands out again.  Correct: a
  port is reserved exactly while a socket is bound to it, every epoll entry is valid,
  and what arrives for a registered transport is read.

## 2. Modules

| Module | Models | State | Actions |
|---|---|---|---|
| `MessageChannel` | what the ring, the queues and the broadcast buffer promise: messages are reserved in an order, completed in any order and received in the reserved order | `sent`, `complete`, `received` | `Reserve`, `Complete`, `Receive` |
| `ManyToOneRingBuffer` | `write`, `read` | `head`, `tail`, `data`; the program counter and local variables of each call | one per access to a shared word |
| `OneToOneConcurrentArrayQueue` | `enqueue`, `try_dequeue`, destructor | the two i32 indices and the slots | one per access |
| `ManyToOneConcurrentLinkedQueue` | `enqueue`, `try_dequeue`, destructor | `head_`, `tail_`, node memory with addresses that are allocated and freed | one per access |
| `Broadcast` | `transmit`, `receive` | `head`, `tail`, `data`; each receiver's cursor and batch | one per access |
| `CountersManager` | `allocate`, `free`, the owner's updates, the monitor's reads | type id, lengths, bytes and value of each slot | one per access, a copy of bytes one per byte |
| `LogBuffer` | `rotate_log`, `write_default_header`, `BufferClaim::commit` and `abort`, `TermUnblocker`, `LogBufferUnblocker`, `TermReader::read` | `term`, `raw_tail`, `active_term_count`; program counter and locals of each publisher, the driver and the subscriber | one per access to the metadata or a frame's header |
| `TermImage` | `TermScanner`, `TermRebuilder::insert`, `TermGapScanner`, `TermGapFiller`, `TermReader` from the publication's term to a subscriber's image of it; `TermBlockScanner` | `published` (how much of the term there is, chosen at the start), `network`, `image`, and step and locals of each function | one per access to a frame's length or type; `Send`, `Resend` and the network are external |
| `Flyweights`, `FrameFlyweights` | where `command/*` and `protocol/*` keep their fields, and how parts of any length follow each other | none | operators only |
| `MessageCodec` | `DriverProxy`, `ClientCommandAdapter`, `ClientProxy`, `DriverEventsAdapter`; the control frames a receive endpoint sends and the dispatch of both endpoints | `scratch`, the message on the `wire`, the `outcome` | `Send` (any method), `Foreign` (a message of another client or driver), `Dispatch`, `DispatchUnknown`, `Return` |
| `Transports` | `WildcardPortManager`, `UdpChannelTransport::open_datagram_channel` and `close`, both pollers | `port_set`, `next_port`, descriptors, `entries`, the kernel's sockets and epoll sets | one per call and per way it fails; `Arrive` |
| `*_proofs` | theorems about the module they are named after; `QueueAndCodec_proofs` about the linked queue and `MessageCodec` | | |
| `MC*` | messages for TLC's instances | | |

The ring, the two queues and the broadcast buffer are instances of one abstract
specification: each module ends with `Channel == INSTANCE MessageChannel WITH ...`
and its run checks `Channel!Spec` as a property.  A claim of the tail (the ring),
the store of the tail (array queue, broadcast) or the exchange of the tail (linked
queue) is a `Reserve`; the release store that makes the message visible is a
`Complete`; the call of the handler or the return of `try_dequeue` is a
`Receive`.

Conventions.  History variables (`claims`, `published`, `delivered`, `lengths`,
`stored`, `excused`, ...) are only written, never read by an action, except where a
`Max...` bound caps a run; the specification `UntilMisread` of the ring reads
`lengths` to say when it ends.  Definitions that begin with `\* Mutant:` are deliberately wrong variants
of the definition behind them; no specification uses them.  They document which
slip each property would catch.

### Abstractions

- **Interleaving.** A step is one load, store or read-modify-write of a word that
  another thread may access, with the private computation up to the next.
  Memory accesses are sequentially consistent: the code orders each hand-over with
  release stores and acquire loads, and the weaker orders it also uses are not
  explored.
- **Words.** Ring and broadcast count in 4-byte words: every record is aligned to at
  least that, so a word is never split.  The stores of a record's type and body are
  one step, as nobody may look at them before the length word; for the broadcast
  buffer, where the receiver may be lapped, the copy is checked against what was
  transmitted.
- **Contents.** A body is a number of equal words (`fill`).  Fill values are chosen to
  look like a plausible length when they are read as one by mistake.
- **i32 indices.** The array queue's indices are two's-complement with `IndexModulus`
  values instead of 2^32, so that a run overflows them; the conversion is the
  code's: the difference of the indices wraps, the comparison in the destructor does not.
- **Metadata.** The type id and each byte of key and label a counter gets are abstracted to
  the number of the allocation that writes them: the properties only compare who wrote.
  The lengths are kept, because they say where the label is and how much is read.  Length
  and bytes are separate accesses of `allocate`, `get_key` and `get_label`, and the bytes of
  one copy are written and read in any order.  The handler of `forEach` has buffers that are
  long enough, so `get_key` and `get_label` truncate nothing.
- **Node memory.** `Nodes` is the heap; a node that is deleted may be allocated again,
  so that an address held too long is met again with another content.
- **Frames.** The log buffer is counted in `FRAME_ALIGNMENT` (32 bytes), the length of a
  header.  A frame is its length, its type and the claim that wrote it; the other header
  fields follow the type in the code and are not looked at.  Only first words of frames are looked
  at, and payload words there stay 0.  `TermLength` is not a power of two in the runs: the
  shift and the mask of a position are a quotient and a remainder.
- **The rest of a publication.** `Offer`, `AddToTail`, `UpdateLimit` and `BlockedBy` (map:
  `external`) stand for the clients' publication and image and the driver's search for
  blocked publications, which the repository does not hold: a get-and-add on the packed tail, a window
  that the driver moves with the subscriber, padding at the end of a term, a term that the driver cleans
  when it has been read.  Words behind the end of a term, which the unblocker may read, may have any value.
- **Bytes of messages.** A byte is the value it is part of and its number in that value.
  A field that is read where another was stored, or half of it, is `garbage`; a byte
  of an earlier message is `old`.  The frames an endpoint sends have a buffer per kind in the
  code and one for all in `MessageCodec`, which allows more leftovers than there are.
- **Image of a term.** `TermImage` counts in `FRAME_ALIGNMENT` as well.  The network is the
  set of packets that were sent; each arrives never, once or often, in any order.  Each
  function has a thread of its own, since no caller is in the repository.
- **The kernel.** `Transports` has descriptors that are reused, the lowest free one first, ports that
  one socket or several with `SO_REUSEADDR` may be bound to, and epoll sets that a closed
  descriptor leaves.  The media classes take no locks around ports and lists: they belong
  to one thread, so a call is one step, and only datagrams arrive in between.
- **Properties with the type invariant inside.**  `SlotsAsExpected`, `ChainSound` and
  `RedeliveredUnchanged` contain the `TypeOK` of their module.
- **Calls that are rejected** (a record too long, a negative type) change nothing and are
  not steps.  A compare-and-set on a counter's value that succeeds is a `SetValue`.

## 3. Runs

All runs finish within four minutes with two workers.

| Run | Checks | Bounds, and why they are enough |
|---|---|---|
| `ring_safety` | `WritersApart`, `NoLengthLeft`, `HeadOnRecord`, `ImplementsChannel`, up to the first misread: claims stay apart, no length is left where one will be, head stands at a record, every claim is delivered once, in order, unchanged | two producers, 32 words, up to 7 records, of one length for one producer and another for the other, with bodies that look like lengths: the tail passes the end with padding and again reaches words of the first lap, so words are reused; the compare-and-set is lost and retried |
| `ring_faults` | `TypeOK`, `NoOverrun`, `HeadCountsDelivered`, `EveryClaimDelivered`, `RefusedOnlyWhenOccupied` with a producer that dies and a handler that throws | one producer, 16 words, 12 records without a body: several laps, drained and full, and nothing to misread; one crash and two throws at any step |
| `array_queue` | `SlotsAsExpected`, `LeaksOnlyWrapped`, `ImplementsChannel`, `EveryObjectReceived` | two slots, indices of 3 bits, 7 objects: both indices overflow |
| `linked_queue` | `ChainSound`, `NothingLeaks`, `ImplementsChannel`, `EveryValueReceived` | two producers, 4 nodes, 4 values: addresses are reused while a producer holds an old tail |
| `broadcast` | `RedeliveredUnchanged`, `RefusedOnlyWhenUnread`, `EveryMessageReceived`, `ImplementsChannel` | one receiver, 16 words, three lengths, 4 messages, one throw: wraps with and without padding |
| `counters` | `NoCollision`, `NothingInherited`, `MonitorSeesWholeCounter`, `NoSlotIsExcused` | two threads, two slots of 2 bytes, 4 allocations with keys and labels of 0 to 2 bytes: both slots are taken, freed and taken again while the monitor is between two reads |
| `log_buffer` | `ClaimsTile`, `TermsInStep`, `DeliveredUnlessTakenOver`, `CatchesUp`: two publishers and the driver rotate; a publisher dies before its header, before its commit or between the two steps of a rotation, or the driver takes a slow one for dead, at any step of the rest of its write | terms of 5 units, frames of 2, 4 claims, a window that both publishers may enter at once: two frames and padding that fill the first term, or a gap between two frames, then a publisher and the driver that rotate at the same time while the next term is claimed; that the partitions are used again is left to the theorems, which hold for any number of claims |
| `term_image` | `ReadsTheStream`, `GapsAreMissing`, `ScansEndOnFrames`, `CatchesUp`: the subscriber gets the stream without what was filled, whatever the network does | a term of 4 frames (`MCFrames`), the last of them padding; packets of up to 2 or 3 units, so that one holds a frame, two, or the header of the padding; `ScansEndOnFrames` looks at all terms of up to 4 frames with lengths up to 3 |
| `codec` | `ArgumentsArrive`, `ReadsInside`, `NothingStaleSent`: every method of both proxies, every control and data frame, one after the other | a scratch buffer of 74 bytes (the longest fixed part is 64); parts of 0, 1, 3, 4 and 50 bytes: empty, unaligned, aligned, and too long for the buffer; foreign lengths from -1 to 1000, with a message that is between 13 bytes too short and 9 too long |
| `transports` | `BoundPortsReserved`, `ReservationsBound`, `EventsFindTheirEntry`, `EveryDatagramRead` | three transports (one with two sockets, one of the control poller), three descriptors, so that an open may fail for want of one; two managed ports, one ephemeral; a threshold of one entry, so that the pollers change between polling directly and through epoll |

The runs that expect a violation show where the code does something else than a
comment, an assertion, a document or a test says:

| Run | Property | What happens |
|---|---|---|
| `ring_mixed_lengths` | `DeliveredInOrder` | `read` clears only the length word (`many_to_one_ring_buffer.h:179`).  With records of different lengths, a later lap finds a word of an old body where a claim that is not written yet has its length, and hands it to the handler as a record.  The comment at 176-178 says stale data is prevented. |
| `broadcast_receivers` | `EachReceivesAll` | All receivers store the one head (`broadcast_receiver.h:96`), so the fastest releases space that others have not read, and lapping is tested once per call (line 54): a slow receiver hands over the type of one message with the words of another.  `src/docs/phase2_teaching.md:118` gives the buffer to "all consumers", line 333 and the test with four receivers (`src/tests/concurrent/broadcast_test.cpp:129`) want each to receive all. |

The passing runs keep clear of other behaviour of the code that a user should know.
Where a comment or an assertion promises otherwise, it is quoted; nothing that we found
promises otherwise of the rest:

- A handler that throws leaves the ring's `read` before head is stored, although earlier
  records of the batch are cleared; the next `read` starts at a zero and waits there for
  ever.  `HeadCountsDelivered` says that this is the only way in which head and the
  messages delivered come to differ.
- The destructor of an array queue with an overflowed tail destroys none of the queued
  objects; `LeaksOnlyWrapped` says that this is the only leak.
- `broadcast` has one receiver; `broadcast_receivers` shows what happens with two.  A message of
  more than half the buffer may be refused for ever, as it fits at some tail positions only;
  `RefusedOnlyWhenUnread` is about shorter ones.
- `free` makes a counter's slot free before it zeroes the value, so the zero may wipe
  what the next owner has set; `NothingInherited` is what remains true.
- A monitor whose slot is freed and filled between its reads gets a mixture: the length of
  one key with bytes of another, or a label at the offset of the old key with the length of
  the new label, which may end behind the slot.  Nothing tells it so.  `MonitorSeesWholeCounter`
  says what it can rely on if it looks at the type id once more.
- `TermUnblocker` scans to the offset in the tail (`term_unblocker.h:120`), which is behind the
  end of the term when the last claim did not fit.  The lengths it then loads are those of the
  next term or the metadata, and what it finds there may make padding that is longer than the
  rest of the term.  The accessor forbids that: `unsafe_buffer.h:187` says "assert(offset >= 0 &&
  offset + 4 <= capacity_)", and the comment at 26-28 asks for offsets inside the buffer.  `CatchesUp`
  and `DeliveredUnlessTakenOver` excuse a run in which it has looked there (`past_end`).
- If a publisher dies with its claim unwritten and nothing behind it, `TermUnblocker` pads up to the
  tail, reports `UNBLOCKED_TO_END`, and `LogBufferUnblocker` rotates the log in the middle of the
  term (`log_buffer_unblocker.h:70-72`).  Nobody writes the rest of the term, and the subscriber
  stops there for ever.  `term_unblocker.h:18` says of that status "Unblocked to end of term", and
  24-25 "The unblocker converts it to padding so the log can progress": the log does, its
  subscriber does not.  `CatchesUp` excuses such a run (`to_tail`).
- A frame that the unblocker takes over has a positive length before it has the type of padding
  (`term_unblocker.h:100`), so that a subscriber may hand over an unfinished message; and a
  publisher that was only slow writes into the padding, or loses the message it commits.
  `DeliveredUnlessTakenOver` says that nothing else is lost or handed over uncommitted.
  A publisher so slow that its term was cleaned in the meantime writes a frame that is
  found when the partition is used again; this is excused as well (`late`).
- `LogBufferUnblocker` reads the term count and then the term id of the same partition
  (`log_buffer_unblocker.h:43` and 51).  If the log went on by three terms in between, it would
  rotate two terms ahead of the count.  What prevents it is that publishers stop at a limit that the
  driver moves, in the same thread as it unblocks: `UpdateLimit` models it so.  Publishers with an old term
  count can do the same if they are enough to fill a term, three of them with
  terms of one frame; the run has two, and terms in which two frames leave room.
- A publisher that dies between the compare-and-sets of `rotate_log` leaves a tail ahead
  of the term count.  Every later call returns false without storing the count: the log
  stops.  `TermsInStep` excuses this one death.
- If a packet is inserted between the look of `try_fill_gap` at its slot and the padding
  (`term_gap_filler.h:55`), the padding and the frame overlap.  The comment at 22-24 says "If any
  slot has been written to (data arrived concurrently), returns false without modifying the
  buffer", which holds only if both run in one thread.  `ReadsTheStream`, `GapsAreMissing` and
  `CatchesUp` of `TermImage` excuse such a run (`overlap`).
- `TermGapScanner::scan_for_gap` returns the end of the gap it reports, the doc of its return
  value speaks of the last contiguous frame; the model follows the code, and the properties
  look at what the handler is told.
- A port that is asked for by its number is not refused when it is taken
  (`wildcard_port_manager.h:52`), and `close` after an open that found no port frees the port of
  the open before (`udp_channel_transport.h:236`).  `BoundPortsReserved` excuses the ports to
  which this happened while another transport had them (`collided`).
- A port range may begin with 0.  The 0 is then handed out as a port of the range, the kernel
  chooses the port that is bound, and `free_managed_port` is asked to free that one: the 0 stays
  reserved, so it is handed out once.  `BoundPortsReserved` and `ReservationsBound` except
  the port 0 and what the kernel chose for it.
- `allocate` passes each slot once, so it may throw although a slot was freed behind its
  search; `NoSlotIsExcused` says that it has no other reason.
- A transport that is closed while it is registered makes a direct poll of the data poller
  throw before it comes to the entries behind; one that is opened again is
  not watched by epoll.  Both are left to the caller (`Deaf`, `reopened`).

`ring_safety` checks the ring under `UntilMisread` (as the constraint `NoMisread` of `Spec`, so that
TLC counts each action): no step is taken after the consumer stands before a word that is not 0 and was not stored as a length, which is
where `ring_mixed_lengths` begins to go wrong.  `broadcast` has one receiver.  Both
restrictions are needed, not chosen for convenience.

Deadlock is not checked in the queues, where a queue that was destroyed or has reached its
bound stops, in the log buffer, where all that was claimed has been read in the
end, and in the image of a term, which ends when it is read.  Everywhere else a reader or
poller goes on for ever, and deadlock is checked.

### Fairness

`ring_faults`, `array_queue`, `linked_queue` and `broadcast` assume weak fairness of
the steps of a call that is under way (a thread that is scheduled and alive
finishes its loop-free code) and of the consumer's polling loop (the driver's
and the client's duty cycle calls `read`, `receive` or `try_dequeue` for ever).
`log_buffer` assumes the same of publishers, of the subscriber, and of the driver, which
moves the limit and checks for blocked positions in its duty cycle.
`term_image` assumes it of the steps of insertion, gap scan, gap filling and reading, and
nothing of the publisher, the sender and the network: a packet may be lost for ever,
and then the gap is filled.  `transports` assumes it of each poller's poll.
No fairness is assumed of starting a `write`, of a crash, of a throw or of the destructor.  A lost
compare-and-set needs no strong fairness: it is lost only because another succeeded,
and the number of records is bounded.

## 4. Proofs

The theorems hold for every value of the constants under the assumptions the
modules name: `CapacityAssumption`, `MessageAssumption`, `BoundsAssumption` for the
ring; `CapacityAssumption` and `MessageAssumption` for the broadcast
buffer; `ThreadsAssumption` (finitely many), `AllocatorsAssumption`, `SlotsAssumption`,
`LengthsAssumption` (key and label fit in a slot) and `BoundsAssumption` for the counters; `CapacityAssumption` (a capacity is at
most a quarter of the index values, as for a positive power of two in an i32) and
`RawAssumption` for the array queue; `NodesAssumption` and `HeapAssumption` (finitely many
addresses) for the linked queue; `ThreadsAssumption`, `TermAssumption`,
`LengthsAssumption`, `IdAssumption` and `BoundsAssumption` for the log buffer;
`PortsAssumption` for the transports; `FramesAssumption` (frames of any lengths and types, one
behind the other) and `LimitsAssumption` for the image of a term; `SizesAssumption` for the
messages (an error frame without a message fits in the buffer it is written in, 40 bytes of 256 in the code).

**The ring** (`ManyToOneRingBuffer_proofs`).  For messages of any lengths `TypeCorrect`,
`InvCorrect`, `NeverOverrun` (`Spec => []NoOverrun`) and `DrainedRingAccepts`
(`Spec => RefusedOnlyWhenOccupied`) of every behaviour; and up to the first misread, also
for messages of any lengths, `ClearedInvCorrect`,
`WritersSeparate` (`UntilMisread => []WritersApart`), `LengthsCleared`
(`... []NoLengthLeft`), `HeadAtRecord` (`... []HeadOnRecord`),
`OrderKept` (`... []DeliveredInOrder`), `HeadIsCount`
(`... []HeadCountsDelivered`) and `RingIsChannel`
(`UntilMisread => ImplementsChannel`, the refinement).

`NoOverrun` is not inductive: whether a successful compare-and-set stays within
the ring depends on what the producer computed from an old tail and an old head.
The inductive invariant is `TypeOK /\ WriterInv /\ ReaderInv /\ NoOverrun`, where
`WriterInv` says what each producer *knows* at its step: the tail it loaded is not
ahead of the present one, and the claim it is about to make ends at most `Capacity`
behind the present head.  Both facts survive steps of others, as head and tail
only grow (`KnowsLasts`).  `ReaderInv`, that the consumer's local position is never before head, is
what makes head grow.  When the compare-and-set succeeds the loaded tail *is* the
tail, and the knowledge becomes `NoOverrun`.  Nothing is assumed of the contents
of the data region, so the result covers corrupted lengths, crashes and throws.
`DrainedRingAccepts` needs `AcceptedFits`: a claim with padding is shorter than two
records, and an accepted record is at most an eighth of the ring.

What is in the ring can be said only up to the first misread.  The code clears the length word
of a record and leaves its type and body, so a later lap may find one of those words where
the length of a claim will be, and `ring_mixed_lengths` shows a run in which that happens.  A
theorem cannot exclude it by an assumption on the messages, as clients write commands of many
lengths.  It excludes the step itself: `Misreads` holds when the consumer is about to
take for a length a word that is not 0 and was not stored as a length (`lengths`, a history
variable), and `UntilMisread` is `Spec` without the steps from such a state.  Nothing
is assumed of lengths, deaths or throws, and the theorems say that there is no other way in
which the ring goes wrong.

`ClearedInv` says that there is a position up to which everything has been consumed, such that
a length is either the one of a published record or of padding behind that position
(`DataInv`), and each published record behind it is as its producer wrote it.  Claims
follow one another without a hole (`ClaimsInv`), from that position to the tail they are at most
a ring long (`NoOverrun`), so no two of their words share an index
(`WordsApart`); hence a store of a producer disturbs no other claim.  What the consumer reads
is, without a misread, 0 or the length of the claim it stands at (`LengthAt`).  Once a
handler has thrown behind others of its batch, head stays behind the position for ever, since
what the consumer then finds is 0.

**The array queue** (`OneToOneConcurrentArrayQueue_proofs`).  `InvCorrect`, `SlotsSound`
(`Spec => []SlotsAsExpected`), `LeaksExplained` (`Spec => []LeaksOnlyWrapped`) and
`QueueIsChannel` (`Spec => ImplementsChannel`, the refinement).

The indices are machine integers that have lost how often they went round.  `Positions`
says that each is the i32 of a count that only grows, and that the counts are at most
`Capacity` apart; so the difference the code computes, also across the overflow,
is the difference of the counts.  `Contents` says that the slots hold exactly the
objects between the counts, which makes `Construct` find a raw slot and `Take` the
next object: `Reserve` and `Receive` of the channel.

**The linked queue** (`QueueAndCodec_proofs`, first part).  `InvCorrect`,
`ChainAlwaysSound` (`Spec => []ChainSound`), `DestructorFreesAll`
(`Spec => []NothingLeaks`) and `QueueIsChannel` (`Spec => ImplementsChannel`).

The chain from `head_` may be broken in many places at once, so the invariant does not
follow it.  A node is in the chain (`InChain`) if it is allocated and not still
held by a producer in front of its exchange; `ChainInv` gives each such node a
place of its own, from the number of values received (`head_`) to that of the values
sent (`tail_`), and says that a link that is there leads to the next place.
`ProducersSound` says that whoever owes a link holds two neighbours.  Places, unlike
addresses, are never used again: that is why a deleted and reallocated address
confuses nobody.  The consumer deletes a node with the least place and a link, so
neither `tail_` nor a producer can hold it.

`DestructorFreesAll` needs that every place has a node (`EveryPlaceTaken`) and that every
link that is missing is owed by a producer (`LinksOwed`): when the destructor runs nobody
owes one, so the chain it follows is unbroken.  That the recursive function which follows
it reaches all of them is shown by a least counterexample (`PlacesFit`, `ChainIsAll`).

**The broadcast buffer** (`Broadcast_proofs`).  For any number of receivers `TypeCorrect`;
with one receiver `InvCorrect`, `HandedOutAgain` (`Spec => []RedeliveredUnchanged`),
`AcceptedWhenRead` (`Spec => []RefusedOnlyWhenUnread`) and `BroadcastIsChannel`
(`Spec => ImplementsChannel`, the refinement), for every capacity and messages of any
lengths.

The hypothesis is `OneReceiver`.  All receivers store the one head, so with two the
faster one releases what the other has not read, and none of the four holds.

Unlike the ring, a read clears nothing here, and messages of several lengths are no
problem: a receiver never looks at a word beyond the tail it loaded.  The invariant says
that the records lie one behind another, or behind padding at the buffer's start
(`SentInv`); that everything which the head has not released is in the buffer as it was sent,
padding included (`DataInv`); what the transmitter has put so far of the record behind them
(`TransmitterInv`); and that the receiver stands where a record begins or ends (`ReaderInv`).
A word that is written belongs to a record less than `Capacity` ahead of the head, so its
index differs from those of all the records that are kept (`Untouched`).  After an exception
the receiver goes back to the head, and hence finds the same records (`HandledInv`).

For the refinement, `received` is what the handler took for the first time, defined by
positions.  `FirstTimeTaken` shows that this is a beginning of `sent`: first times are
ordered as the records are, and a set of numbers has only one increasing
enumeration (`OneEnumeration`, by a least counterexample).

**The counters** (`CountersManager_proofs`).  `TypeCorrect`, `InvCorrect`,
`IdsAreUnique` (`NoCollision`), `CountersStartFresh` (`NothingInherited`),
`MetadataIsWhole` (`MonitorSeesWholeCounter`) and `GivesUpWithReason`
(`NoSlotIsExcused`).

The invariant rests on one idea, that the type id decides who may write a slot:
a slot being filled is `NOT_FREE`, an owned one is positive (`SlotStates`), and no two
threads hold one (`HeldOnce`).  The number of an allocation is in one place (`Numbered`),
so a type id that was freed never returns.  `Metadata` then says which lengths and bytes
are in a slot while it is filled and once it is published, `Copied` carries that over to
what the monitor has read so far, with `Watched` for the numbers, and `Zeroed` says that the value is 0 just before the type id is published, by
whoever zeroed it last.  `Ahead`, that a search without an excuse has a free slot
in front of it, makes `NoSlotIsExcused` inductive.  `Budget` is only needed for the
bound in the types, and is the reason for `ThreadsAssumption`.

**The log buffer** (`LogBuffer_proofs`).  `InvCorrect`, `TypeCorrect` and
`ClaimsTileTerms` (`Spec => []ClaimsTile`), with any number of publishers that die, are
slow, and rotate with an old term count, and with the driver's unblocking;
`TermsStayInStep` (`Spec => []TermsInStep`) under the hypothesis `FewPublishers`; and
`CommittedIsDelivered` (`Spec => []DeliveredUnlessTakenOver`) under the hypothesis `RoomLeft`.

The term id of a partition only ever grows by the number of partitions
(`TermsGoRound`), because the second compare-and-set of a rotation expects the old tail
with the id it computed (`ThreadsSound`).  A claim lies in one term, before the tail of
its partition unless that has moved on (`ClaimsBeforeTails`), and each position before a
tail has one claim (`TailsTiled`); a new claim starts at the tail, so it overlaps none
and leaves no hole.  The contents of the frames play no part in this.

`FewPublishers` says that the publishers, with one frame of the longest length each, do not
overrun a term.  Without it the terms can get out of step: publishers that loaded a term
count before the log went round add to a term that is not yet active, and enough of them
fill it, and rotate it before it is active.  The hypothesis is met by any publication whose
messages are a fraction of a term, and by the run `log_buffer`; of terms of one frame that
several publishers share nothing is proved or checked.

The invariant (`StepInv`) says who may rotate.  A tail in a term that no publisher can enter
under the present limit (`Closed`) is moved only by those who loaded an old count, each once
(`NotFilled`), so a publisher that rotates is in an open term and rotates to the term after it
(`RotatesOpen`).  The driver loads a count and a tail at different times; either the limit,
which the driver itself moves and which therefore stays while it unblocks, keeps the log from
going round between them (`WithinRound`), or the partition it found is not that of the count,
and `rotate_log()` refuses (`WillBeRefused`).  So the expected tail of a compare-and-set is
always two terms behind, which is the case only in the partition after the active one; and
whoever is to store the count has stored the tail (`CountOwed`).

What is delivered depends on the frames' headers, and so `DeliveryInv` relates these to the claims.
It holds unless the driver has cleaned a term in which a slow publisher still writes, or has looked
behind the end of a term (`Excused`), and has four parts.

- `PlacesSound`: where everybody is.  The subscriber is at the beginning of a frame, at the tail or
  at the end of its term (`ReadPlace`, `Reaches`), the driver unblocks at a frame that is neither
  cleaned nor ahead of the subscriber (`DriverPlace`), and the partitions do not go round while
  either is there.
- `FramesSound`: what is in the headers.  A publisher writes at its own claim (`WritersSound`), all
  that is not the beginning of a frame is empty (`UnclaimedEmpty`), and a header whose length is
  positive is final, is that of data if and only if its claim was committed, and bears the
  claim's name (`HeaderSound`), unless the driver took the position over.
- `DriverPads`: the padding that the driver makes ends where a frame begins or at the tail.  So the
  subscriber, which goes on by lengths that it reads, never gets inside a frame.
- `ReadSound`: what the subscriber has passed is not written any more, and what was
  committed there was handed over (`PassedSound`), in the order of positions (`DeliveredSound`), from
  which it follows that nothing is handed over twice.

The part that is hard is which terms this can be said of (`Sound`).  One that was begun too early
will be cleaned before it is read (`Dirty`), which would wipe claims in it.  Such a
term has claims only if the driver has rotated to it out of the middle of the term before
(`UNBLOCKED_TO_END`), and then that term stays cut short (`Cut`) and the subscriber never gets to
its end (`DirtyBehindCut`).  A term remains cut because those who can still add to it loaded its count
earlier, each adds once, and together they do not reach the end: this is what `RoomLeft`
says, that the publishers with one frame of the longest length each leave room in a term.  It is
`FewPublishers` without the case that they fill a term exactly, and `log_buffer` is an instance.
`Onward` names what all steps but the moving of the limit leave as it is, so that
most of the invariant is proved once for all of them.

**The image of a term** (`TermImage_proofs`).  `InvCorrect`, `ReadsStream`
(`Spec => []ReadsTheStream`), `GapsMissing` (`Spec => []GapsAreMissing`) and
`ScansFindWholeFrames` (`Spec => []ScansEndOnFrames`), for any number of
frames of any lengths and types, any limits of the packets, and any payload, also one
that reads as a length; with a network that loses, repeats and reorders, and with insertion,
gap scan, gap filling and reading in threads of their own.  What is excused is `overlap`, a frame
that is inserted in a gap while that is being filled.

The subscriber, the gap scan and the places where gaps begin have this in common: they are
boundaries of frames that one comes to from the start of the image, going from length to length
(`Reached`).  Of two such places the first has a length (`ReachedBefore`), so a gap
begins at the last of them, and from one the length leads to the next (`ReachedNext`): a word of
payload is never taken for a length, because padding ends where a received frame starts
(`PadInv`).  A packet that is inserted has a free slot, so none of these places is behind the slot in it
(`SlotFree`), and the copy touches nothing that anyone has come to.  The padding of a gap could
still be overwritten by a packet that begins in the gap and goes on behind it.  No such packet
exists: the sender's own packets are apart, what is sent again lies within a
gap, that is between a place which is come to and the high mark (`PacketsInv`), and the high mark itself is
the end of a received packet (`IsMark`).  The filler looks at the words of a gap one by one
while others insert; `FillerInv` says that what it has passed is empty or belongs to data that
came later, which is what `overlap` excuses if it goes on.

What a packet has is found by a recursive scan.  `ScanFinds` says what it returns for every
term and limit: `ScanUnfolds` shows that a function with its recursion exists, from the end of the term
towards its start, and `EveryNumber` replaces an induction over the frames.

`ScansFindWholeFrames` compares this scan and `block_scan` with a definition by the frames that fit, in all
terms with as many frames as the publication has, of lengths up to any `ScanLength`, from any
frame, for any limit, and with a claimed frame behind the last or not.  `FirstBehind` names the first
frame that does not go in, because it is padding, or too long, or the end of the frames.  It
exists (`SomeFirstBehind`), the frames in front of it are those that the definition picks
(`FittingFrames`), both scans come to it from length to length (`ScanGoesOn`, `BlockGoesOn`), and what
they make of what is there is `PacketFound` and `BlockFound`.  `LaidTerm` says what
`TermOf` stores of frames that lie one behind the other, and `PlacedLaid` that `Placed`
lays them so.  The frames of the publication are such frames, which is why `FramesInOrder` is a case of `LaidInOrder`.

**Ports and pollers** (`Transports_proofs`).  `InvCorrect`, `PortsStayReserved`
(`Spec => []BoundPortsReserved`), `NoReservationLeaks` (`Spec => []ReservationsBound`),
`PollInvCorrect` and `EventsHaveEntries` (`Spec => []EventsFindTheirEntry`), for
any number of transports, ports, descriptors and pollers.

The reservations are compared with the sockets, so the invariant says which sockets a
transport has (`OwnedSockets`), that no two have one in common (`SocketsApart`), and that
two transports with one port are among those that `collided` names
(`SharedPortsCollided`).  A failed open, at whichever step, then takes back the
reservation it made and no other.

`PollInv` relates a poller's list of entries and its epoll set: who is watched under a
descriptor is listed and has that descriptor (`Watched`), and who is listed, and was not
reopened behind the poller's back, is listed once and watched (`Listed`).  So the pointer that
an event carries finds its entry, also when a descriptor was closed, taken by another
transport, and added again.

**The messages** (`QueueAndCodec_proofs`, second part).  `CodecInvariant`, `CodecReadsInside`
(`CodecSpec => []ReadsInside`), `CodecArgumentsArrive` (`CodecSpec => []ArgumentsArrive`) and
`CodecNothingStaleSent` (`CodecSpec => []NothingStaleSent`: the flags of `remove_publication` are
the one place where something of an earlier message leaves), for every method and every case, with
parts of any lengths, any bytes that an earlier message left in the buffer, and messages of other
processes of any length with any numbers in their length fields.  Where the run has five lengths of a
part and a few wrong ones, the theorems have all of them.

The argument follows a message.

- `Sound` says of a layout that its fields fill the bytes up to the first length, each byte once
  (`Tiled`, put together field by field), and where the lengths are.  It is shown for
  each flyweight, with the offsets of the code.
- `Written` says what a method leaves in the buffer: every field as stored, then each
  length, its part and its padding, one behind the other, and no byte that is old.  That stores do not
  overwrite each other is `PartAdded`, of one part, and `HasParts`, of all.  The flags of
  `remove_publication`, which are read back, get a case of their own.
- `LengthsReadBack` and `HandlerSees`: the adapter finds the lengths again, because each is where
  the one before says, and then reads each field where it was stored (`StoredAt`).
- `LooksInside` is about messages of anybody.  If the adapter's check accepts the lengths that it has read, then all
  it looks at is in front of the end; and it reads a second length only if that is inside.
- `Delivers` relates one method with one case, and `Conveys` the table of methods with the table of
  cases: each type that is sent has a case, with the same layout or one that begins
  like it, that gives the handler what the method was called with.  `MethodsConveyed` shows it for all
  commands, events and frames.

The invariant (`CodecInv`) then only has to say that what is on the wire is from a method, or else has no
arguments to compare (`InFlight`).  A reader who changes an offset, or the order in which two parts
are written, will find the lemma of that flyweight or that method unprovable.

`TypeOK` of the counters, of the log buffer and of the broadcast buffer is proved and not the
property of a run.

**Only model-checked**: liveness, which is outside the prover's reach.  Every safety invariant
and every action property that the runs check is proved as well.

## 5. Not modelled

Not modelled:

- The metadata of the CnC file (`cnc_file_descriptor.h`): the version is stored before the
  lengths with a plain store, but no reader that could wait for the version is in the
  repository; mapping and unmapping is the kernel's.
- Who answers a command.  Every `DriverProxy` numbers its commands from 1 and a
  response is matched by that number alone; the driver that would send it to every
  client is an empty directory.
- Reference counts, destinations and the maps of the endpoints: lists and counters of one
  thread, or under one mutex, without a step in between.  The endpoints also pass no
  port manager to their transports, so the managed ports of `Transports` are those of a
  `UdpChannelTransport` that is opened directly.  `remove_destination` destroys a transport that
  a poller may still hold; cancelling it before is left to the caller.
- The resolution entries of `protocol/*`, which nothing sends or reads; fragmented messages, which
  only a client would assemble; i32 term ids that overflow (`index_by_term`).
- URI and address parsing and the interface search (pure functions, reached by unit
  tests), the POSIX wrappers, clocks, and the empty directories.

## 6. Running

    tlc -workers 2 -config ring_safety.cfg MCManyToOneRingBuffer.tla
    tlapm CountersManager_proofs.tla

The proof modules are `ManyToOneRingBuffer_proofs`, `OneToOneConcurrentArrayQueue_proofs`,
`QueueAndCodec_proofs`, `Broadcast_proofs`, `CountersManager_proofs`,
`LogBuffer_proofs`, `TermImage_proofs` and `Transports_proofs`; each is checked by itself.

`PROJECT.json` names the module and the properties of every run, the lines each
definition models (`map`), a mutant for every property, the hazards and where each is
covered.
