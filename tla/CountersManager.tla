-------------------------- MODULE CountersManager ---------------------------
(***************************************************************************)
(* caeron/concurrent/counters_manager.h and atomic_counter.h: the counters *)
(* in shared memory, which several threads allocate, update and free while *)
(* a monitor reads them.                                                   *)
(*                                                                         *)
(* A slot has a type id, the lengths of a key and of a label, SlotSize     *)
(* bytes that the two share, and a value.  Allocations are numbered as     *)
(* they take a slot; the type id and the bytes that one writes are         *)
(* abstracted to its number, the lengths are kept.  Each action is one     *)
(* access to shared memory; a copy of bytes is one access for each of      *)
(* them, in any order.                                                     *)
(***************************************************************************)
EXTENDS Integers, FiniteSets

CONSTANTS
  Threads,         \* the threads that own counters
  Allocators,      \* those of them that allocate
  Slots,           \* max_counter_id_, the number of slots
  SlotSize,        \* bytes of a slot for key and label: metadata_slot_size_ - 12
  KeyLength,       \* for each allocation that takes a slot, the lengths it
  LabelLength,     \* is called with
  MaxAllocations,  \* bound: allocations that take a slot
  MaxValue         \* bound: what a counter is set or counted to

FREE == 0
NOT_FREE == -1

ASSUME ThreadsAssumption == IsFiniteSet(Threads)
ASSUME AllocatorsAssumption == Allocators \subseteq Threads
ASSUME SlotsAssumption == Slots \in Nat \ {0}
ASSUME BoundsAssumption == MaxAllocations \in Nat /\ MaxValue \in Nat

\* allocate() refuses lengths that are negative or do not fit in a slot.
ASSUME LengthsAssumption ==
  /\ SlotSize \in Nat
  /\ KeyLength \in [1 .. MaxAllocations -> Nat]
  /\ LabelLength \in [1 .. MaxAllocations -> Nat]
  /\ \A a \in 1 .. MaxAllocations : KeyLength[a] + LabelLength[a] <= SlotSize

VARIABLES
  type_id,         \* per slot, as published: FREE, NOT_FREE or an allocation
  key_length,      \* per slot
  label_length,    \* per slot
  text,            \* per slot, for each byte of keys and labels the allocation
                   \* that wrote it; 0 for none
  value,           \* per slot
  thread,          \* each thread in allocate() or free(): its step, the slot
                   \* it is at, its allocation and the bytes left to write
  monitor,         \* the monitor in forEach(): its step and slot, what it read
                   \* and the bytes left to read
  allocations,     \* history: allocations that took a slot so far
  owned,           \* history: the slots each thread has been given and not freed
  stored,          \* history: what the owner of a slot has made of its value
  excused          \* history: the allocators that may find no slot: when they began
                   \* all were taken, or another thread has taken one since

metadata == << key_length, label_length, text >>
slots == << type_id, metadata, value >>
history == << allocations, owned, stored, excused >>
vars == << slots, thread, monitor, history >>

CounterIds == 0 .. Slots - 1
Bytes == 0 .. SlotSize - 1
Idle == [pc |-> "idle", id |-> 0, allocation |-> 0, left |-> {}]
NotMonitoring ==
  [pc |-> "idle", id |-> 0, type |-> 0, key_length |-> 0, offset |-> 0,
   label_length |-> 0, left |-> {}, read |-> {}]

\* The bytes of a key or a label of some length that begins at an offset
BytesAt(offset, length) == offset .. offset + length - 1

\* t goes to a step of allocate() or free(), and back out of it.
Goto(t, pc, id, allocation) ==
  thread' = [thread EXCEPT ![t] = [pc |-> pc, id |-> id, allocation |-> allocation, left |-> {}]]
Copy(t, pc, bytes) == thread' = [thread EXCEPT ![t].pc = pc, ![t].left = bytes]
Return(t) == thread' = [thread EXCEPT ![t] = Idle]

\* A thread in find_free_counter_id()
Scanning(t) == thread[t].pc \in {"load", "cas"}

-----------------------------------------------------------------------------
(* allocate(), with arguments that it accepts.                             *)

\* Mutant: the search does not begin at the first slot.
AllocateFromSecond(t) ==
  /\ t \in Allocators
  /\ thread[t] = Idle
  /\ allocations + Cardinality({u \in Threads : Scanning(u)}) < MaxAllocations
  /\ Goto(t, "load", 1, 0)
  /\ excused' = IF \A id \in CounterIds : type_id[id] # FREE
                THEN excused \cup {t} ELSE excused \ {t}
  /\ UNCHANGED << slots, monitor, allocations, owned, stored >>

Allocate(t) ==
  /\ t \in Allocators
  /\ thread[t] = Idle
  /\ allocations + Cardinality({u \in Threads : Scanning(u)}) < MaxAllocations
  /\ Goto(t, "load", 0, 0)
  /\ excused' = IF \A id \in CounterIds : type_id[id] # FREE
                THEN excused \cup {t} ELSE excused \ {t}
  /\ UNCHANGED << slots, monitor, allocations, owned, stored >>

\* find_free_counter_id() looks at the next slot.
LoadTypeId(t) ==
  LET id == thread[t].id
  IN  /\ thread[t].pc = "load"
      /\ id < Slots
      /\ \/ type_id[id] = FREE /\ Goto(t, "cas", id, 0)
         \/ type_id[id] # FREE /\ Goto(t, "load", id + 1, 0)
      /\ UNCHANGED << slots, monitor, history >>

\* Mutant: the slot is taken without comparing what it holds.
TakeSlotUnchecked(t) ==
  LET id == thread[t].id
  IN  /\ thread[t].pc = "cas"
      /\ type_id' = [type_id EXCEPT ![id] = NOT_FREE]
      /\ allocations' = allocations + 1
      /\ Goto(t, "key_length", id, allocations + 1)
      /\ excused' = excused \cup {u \in Threads \ {t} : Scanning(u)}
      /\ UNCHANGED << metadata, value, monitor, owned, stored >>

\* Mutant: the type id is published when the slot is taken.
TakeSlotAndPublish(t) ==
  LET id == thread[t].id
  IN  /\ thread[t].pc = "cas"
      /\ type_id[id] = FREE
      /\ type_id' = [type_id EXCEPT ![id] = allocations + 1]
      /\ allocations' = allocations + 1
      /\ Goto(t, "key_length", id, allocations + 1)
      /\ excused' = excused \cup {u \in Threads \ {t} : Scanning(u)}
      /\ UNCHANGED << metadata, value, monitor, owned, stored >>

TakeSlot(t) ==
  LET id == thread[t].id
  IN  /\ thread[t].pc = "cas"
      /\ type_id[id] = FREE
      /\ type_id' = [type_id EXCEPT ![id] = NOT_FREE]
      /\ allocations' = allocations + 1
      /\ Goto(t, "key_length", id, allocations + 1)
      /\ excused' = excused \cup {u \in Threads \ {t} : Scanning(u)}
      /\ UNCHANGED << metadata, value, monitor, owned, stored >>

\* The compare-and-set fails: another thread took the slot.
LoseSlot(t) ==
  /\ thread[t].pc = "cas"
  /\ type_id[thread[t].id] # FREE
  /\ Goto(t, "load", thread[t].id + 1, 0)
  /\ UNCHANGED << slots, monitor, history >>

\* "no free counter slots available"
NoSlot(t) ==
  /\ thread[t].pc = "load"
  /\ thread[t].id = Slots
  /\ Return(t)
  /\ UNCHANGED << slots, monitor, history >>

WriteKeyLength(t) ==
  LET length == KeyLength[thread[t].allocation]
  IN  /\ thread[t].pc = "key_length"
      /\ key_length' = [key_length EXCEPT ![thread[t].id] = length]
      /\ Copy(t, "key", BytesAt(0, length))
      /\ UNCHANGED << type_id, label_length, text, value, monitor, history >>

\* One byte of the key, or of the label, is stored.
WriteByte(t) ==
  /\ thread[t].pc \in {"key", "label"}
  /\ \E byte \in thread[t].left :
       /\ text' = [text EXCEPT ![thread[t].id][byte] = thread[t].allocation]
       /\ Copy(t, thread[t].pc, thread[t].left \ {byte})
  /\ UNCHANGED << type_id, key_length, label_length, value, monitor, history >>

\* The label goes where the key ends.
WriteLabelLength(t) ==
  LET length == LabelLength[thread[t].allocation]
  IN  /\ thread[t].pc = "key"
      /\ thread[t].left = {}
      /\ label_length' = [label_length EXCEPT ![thread[t].id] = length]
      /\ Copy(t, "label", BytesAt(KeyLength[thread[t].allocation], length))
      /\ UNCHANGED << type_id, key_length, text, value, monitor, history >>

\* Mutant: the value is left to free().
KeepValue(t) ==
  /\ thread[t].pc = "label"
  /\ thread[t].left = {}
  /\ Copy(t, "publish", {})
  /\ UNCHANGED << slots, monitor, history >>

ZeroValue(t) ==
  /\ thread[t].pc = "label"
  /\ thread[t].left = {}
  /\ value' = [value EXCEPT ![thread[t].id] = 0]
  /\ Copy(t, "publish", {})
  /\ UNCHANGED << type_id, metadata, monitor, history >>

\* The type id is stored last, and the id is returned.
Publish(t) ==
  LET id == thread[t].id
  IN  /\ thread[t].pc = "publish"
      /\ type_id' = [type_id EXCEPT ![id] = thread[t].allocation]
      /\ owned' = [owned EXCEPT ![t] = @ \cup {id}]
      /\ stored' = [stored EXCEPT ![id] = 0]
      /\ Return(t)
      /\ UNCHANGED << metadata, value, monitor, allocations, excused >>

-----------------------------------------------------------------------------
(* What the owner of a counter does with it.                               *)

\* set_counter_value(), AtomicCounter::set() and set_ordered(); the step of a
\* compare_and_set() that succeeds is one of these, too.
SetValue(t, id) ==
  /\ thread[t] = Idle
  /\ id \in owned[t]
  /\ \E v \in 0 .. MaxValue :
       /\ value' = [value EXCEPT ![id] = v]
       /\ stored' = [stored EXCEPT ![id] = v]
  /\ UNCHANGED << type_id, metadata, thread, monitor, allocations, owned, excused >>

\* AtomicCounter::get_and_add(), get_and_increment() and increment_ordered()
GetAndAdd(t, id) ==
  /\ thread[t] = Idle
  /\ id \in owned[t]
  /\ \E increment \in 1 .. MaxValue - stored[id] :
       /\ value' = [value EXCEPT ![id] = @ + increment]
       /\ stored' = [stored EXCEPT ![id] = @ + increment]
  /\ UNCHANGED << type_id, metadata, thread, monitor, allocations, owned, excused >>

\* free(): the slot is free before its value is zeroed.
Free(t, id) ==
  /\ thread[t] = Idle
  /\ id \in owned[t]
  /\ owned' = [owned EXCEPT ![t] = @ \ {id}]
  /\ type_id' = [type_id EXCEPT ![id] = FREE]
  /\ Goto(t, "free", id, 0)
  /\ UNCHANGED << metadata, value, monitor, allocations, stored, excused >>

ZeroFreed(t) ==
  /\ thread[t].pc = "free"
  /\ value' = [value EXCEPT ![thread[t].id] = 0]
  /\ Return(t)
  /\ UNCHANGED << type_id, metadata, monitor, history >>

-----------------------------------------------------------------------------
(* The monitor: forEach() with a handler that reads the key and the label. *)

MonitorTypeId ==
  /\ monitor.pc = "idle"
  /\ monitor' = IF type_id[monitor.id] > 0
                THEN [monitor EXCEPT !.pc = "key_length", !.type = type_id[monitor.id]]
                ELSE [NotMonitoring EXCEPT !.id = (monitor.id + 1) % Slots]
  /\ UNCHANGED << slots, thread, history >>

\* get_key() loads the length ...
MonitorKeyLength ==
  LET length == key_length[monitor.id]
  IN  /\ monitor.pc = "key_length"
      /\ monitor' = [monitor EXCEPT !.pc = "key", !.key_length = length, !.left = BytesAt(0, length)]
      /\ UNCHANGED << slots, thread, history >>

\* ... and then the bytes, as get_label() does.  The length may be that of an
\* earlier allocation, so that a label is read past the end of the slot: what
\* is there is not this counter's.
MonitorByte ==
  /\ monitor.pc \in {"key", "label"}
  /\ \E byte \in monitor.left :
       LET found == IF byte \in Bytes THEN text[monitor.id][byte] ELSE 0
       IN  monitor' = [monitor EXCEPT !.left = @ \ {byte}, !.read = @ \cup {found}]
  /\ UNCHANGED << slots, thread, history >>

\* get_label() loads the length of the key once more ...
MonitorOffset ==
  /\ monitor.pc = "key"
  /\ monitor.left = {}
  /\ monitor' = [monitor EXCEPT !.pc = "label_length", !.offset = key_length[monitor.id]]
  /\ UNCHANGED << slots, thread, history >>

\* ... and that of the label.
MonitorLabelLength ==
  LET length == label_length[monitor.id]
  IN  /\ monitor.pc = "label_length"
      /\ monitor' = [monitor EXCEPT !.pc = "label", !.label_length = length,
                                    !.left = BytesAt(monitor.offset, length)]
      /\ UNCHANGED << slots, thread, history >>

\* The handler has the key and the label.
Seen == monitor.pc = "label" /\ monitor.left = {}

MonitorNext ==
  /\ Seen
  /\ monitor' = [NotMonitoring EXCEPT !.id = (monitor.id + 1) % Slots]
  /\ UNCHANGED << slots, thread, history >>

-----------------------------------------------------------------------------
Init ==
  /\ type_id = [id \in CounterIds |-> FREE]
  /\ key_length = [id \in CounterIds |-> 0]
  /\ label_length = [id \in CounterIds |-> 0]
  /\ text = [id \in CounterIds |-> [byte \in Bytes |-> 0]]
  /\ value = [id \in CounterIds |-> 0]
  /\ thread = [t \in Threads |-> Idle]
  /\ monitor = NotMonitoring
  /\ allocations = 0
  /\ owned = [t \in Threads |-> {}]
  /\ stored = [id \in CounterIds |-> 0]
  /\ excused = {}

AllocateStep(t) ==
  \/ Allocate(t)
  \/ LoadTypeId(t)
  \/ TakeSlot(t)
  \/ LoseSlot(t)
  \/ NoSlot(t)
  \/ WriteKeyLength(t)
  \/ WriteByte(t)
  \/ WriteLabelLength(t)
  \/ ZeroValue(t)
  \/ Publish(t)

OwnerStep(t) ==
  \/ \E id \in CounterIds : SetValue(t, id) \/ GetAndAdd(t, id) \/ Free(t, id)
  \/ ZeroFreed(t)

MonitorStep ==
  \/ MonitorTypeId
  \/ MonitorKeyLength
  \/ MonitorByte
  \/ MonitorOffset
  \/ MonitorLabelLength
  \/ MonitorNext

Next == (\E t \in Threads : AllocateStep(t) \/ OwnerStep(t)) \/ MonitorStep

Spec == Init /\ [][Next]_vars

-----------------------------------------------------------------------------
(* Properties.                                                             *)

Allocations == 1 .. MaxAllocations
Numbers == Allocations \cup {0}
Lengths == 0 .. SlotSize
ThreadState ==
  [pc : {"idle", "load", "cas", "key_length", "key", "label", "publish", "free"},
   id : 0 .. Slots, allocation : Numbers, left : SUBSET Bytes]
MonitorState ==
  [pc : {"idle", "key_length", "key", "label_length", "label"}, id : CounterIds,
   type : Numbers, key_length : Lengths, offset : Lengths, label_length : Lengths,
   left : SUBSET (0 .. 2 * SlotSize - 1), read : SUBSET Numbers]

TypeOK ==
  /\ type_id \in [CounterIds -> Allocations \cup {FREE, NOT_FREE}]
  /\ key_length \in [CounterIds -> Lengths]
  /\ label_length \in [CounterIds -> Lengths]
  /\ text \in [CounterIds -> [Bytes -> Numbers]]
  /\ value \in [CounterIds -> 0 .. MaxValue]
  /\ thread \in [Threads -> ThreadState]
  /\ monitor \in MonitorState
  /\ allocations \in Numbers
  /\ owned \in [Threads -> SUBSET CounterIds]
  /\ stored \in [CounterIds -> 0 .. MaxValue]
  /\ excused \subseteq Threads

\* The steps at which a thread fills the slot it took
Filling == {"key_length", "key", "label", "publish"}

\* The slots a thread is filling or has been given.
Holds(t) ==
  owned[t] \cup (IF thread[t].pc \in Filling THEN {thread[t].id} ELSE {})

\* No counter id is given to two threads, and none that is taken is free for
\* the next search.
NoCollision ==
  \A t \in Threads :
    /\ \A id \in Holds(t) : type_id[id] # FREE
    /\ \A u \in Threads \ {t} : Holds(t) \cap Holds(u) = {}

\* A counter never shows more than its owner has made of it, although free()
\* zeroes the value of a slot when another thread may own it already: what an
\* earlier owner counted is gone before the id is given out.
NothingInherited ==
  \A t \in Threads : \A id \in owned[t] : value[id] <= stored[id]

\* What the monitor reads after a type id, the lengths as well as the bytes of
\* the key and the label, belongs to the allocation with that type id unless the
\* slot has been freed since: the type id is published last.  A monitor that
\* finds the type id unchanged when it has read the rest can rely on it.
MonitorSeesWholeCounter ==
  Seen /\ type_id[monitor.id] = monitor.type =>
    /\ monitor.key_length = KeyLength[monitor.type]
    /\ monitor.offset = KeyLength[monitor.type]
    /\ monitor.label_length = LabelLength[monitor.type]
    /\ monitor.read \subseteq {monitor.type}

\* allocate() throws only if all slots were taken when it was called or another
\* thread took one during its search.
NoSlotIsExcused ==
  \A t \in Threads : thread[t].pc = "load" /\ thread[t].id = Slots => t \in excused
=============================================================================
