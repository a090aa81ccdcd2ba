----------------------- MODULE CountersManager_proofs -----------------------
(***************************************************************************)
(* What holds of the counters for every number of slots, threads and       *)
(* allocations: the types, that no counter id is given out twice, that a   *)
(* counter starts without the count of its predecessor, that the monitor   *)
(* reads complete metadata, and that allocate() throws only with reason.   *)
(***************************************************************************)
EXTENDS CountersManager, FiniteSetTheorems, TLAPS

\* The threads in find_free_counter_id()
Searchers == {u \in Threads : Scanning(u)}

\* t writes the metadata or the value of the slot it took.
Writing(t) == WriteKeyLength(t) \/ WriteByte(t) \/ WriteLabelLength(t) \/ ZeroValue(t)

\* The allocations that take a slot stay within the bound.
Budget == allocations + Cardinality(Searchers) <= MaxAllocations

\* A slot that is being filled is marked, one that is owned is published; a
\* thread past its search is at a slot.
SlotStates ==
  \A t \in Threads :
    /\ thread[t].pc \in Filling \cup {"cas", "free"} => thread[t].id \in CounterIds
    /\ thread[t].pc \in Filling => type_id[thread[t].id] = NOT_FREE
    /\ \A id \in owned[t] : type_id[id] > 0

\* No slot is held by two threads.
HeldOnce == \A t, u \in Threads : t # u => Holds(t) \cap Holds(u) = {}

\* The number of an allocation is in one place: with the thread that fills its
\* slot, or published as a type id.
Numbered ==
  /\ \A id \in CounterIds : type_id[id] <= allocations
  /\ \A t \in Threads : thread[t].pc \in Filling =>
       /\ thread[t].allocation \in 1 .. allocations
       /\ \A id \in CounterIds : type_id[id] # thread[t].allocation
       /\ \A u \in Threads \ {t} : thread[u].pc \in Filling =>
            thread[u].allocation # thread[t].allocation

\* A slot holds the first bytes of what allocation a writes, but for those left.
KeyWritten(id, a, left) ==
  /\ key_length[id] = KeyLength[a]
  /\ \A byte \in BytesAt(0, KeyLength[a]) \ left : text[id][byte] = a
LabelWritten(id, a, left) ==
  /\ label_length[id] = LabelLength[a]
  /\ \A byte \in BytesAt(KeyLength[a], LabelLength[a]) \ left : text[id][byte] = a
Complete(id, a) == KeyWritten(id, a, {}) /\ LabelWritten(id, a, {})

\* What is published is complete, and so is what a thread has written of a slot.
Metadata ==
  /\ \A id \in CounterIds : type_id[id] > 0 => Complete(id, type_id[id])
  /\ \A t \in Threads :
       LET id == thread[t].id
           mine == thread[t].allocation
           left == thread[t].left
       IN  /\ thread[t].pc = "key" => KeyWritten(id, mine, left)
           /\ thread[t].pc = "label" => KeyWritten(id, mine, {}) /\ LabelWritten(id, mine, left)
           /\ thread[t].pc = "publish" => Complete(id, mine)

\* No thread fills a slot for the allocation the monitor saw.
Watched ==
  monitor.pc # "idle" =>
    /\ monitor.type \in 1 .. allocations
    /\ \A t \in Threads : thread[t].pc \in Filling => thread[t].allocation # monitor.type

\* What the monitor has read of a slot that has not been freed belongs to it.
Copied ==
  LET a == monitor.type
  IN  /\ monitor.pc = "idle" => monitor.read = {}
      /\ monitor.pc # "idle" /\ type_id[monitor.id] = a =>
        /\ monitor.read \subseteq {a}
        /\ monitor.pc # "key_length" => monitor.key_length = KeyLength[a]
        /\ monitor.pc = "key" => monitor.left \subseteq BytesAt(0, KeyLength[a])
        /\ monitor.pc \in {"label_length", "label"} => monitor.offset = KeyLength[a]
        /\ monitor.pc = "label" =>
             /\ monitor.label_length = LabelLength[a]
             /\ monitor.left \subseteq BytesAt(KeyLength[a], LabelLength[a])

\* The value is zero when the type id is about to be published.
Zeroed == \A t \in Threads : thread[t].pc = "publish" => value[thread[t].id] = 0

\* A search that has no excuse still has a free slot ahead of it.
Ahead ==
  \A t \in Threads : Scanning(t) /\ t \notin excused =>
    \E id \in CounterIds : thread[t].id <= id /\ type_id[id] = FREE

Ownership == SlotStates /\ HeldOnce
Values == NothingInherited /\ Zeroed
Monitored == Numbered /\ Metadata /\ Watched /\ Copied

IInv == TypeOK /\ Budget /\ Ownership /\ Values /\ Monitored /\ Ahead

-----------------------------------------------------------------------------
(* The number of searchers.                                                *)

\* One thread begins its search.
LEMMA SearchBegins ==
  ASSUME NEW t \in Threads, ~ Scanning(t),
         \A u \in Threads \ {t} : Scanning(u)' <=> Scanning(u)
  PROVE  Cardinality(Searchers') <= Cardinality(Searchers) + 1
  <1>1. IsFiniteSet(Searchers)
    BY ThreadsAssumption, FS_Subset DEF Searchers
  <1>2. CASE Searchers' = Searchers \cup {t}
    <2>1. t \notin Searchers
      BY DEF Searchers
    <2>2. Cardinality(Searchers \cup {t}) = Cardinality(Searchers) + 1
      BY <1>1, <2>1, FS_AddElement
    <2>3. Cardinality(Searchers) \in Nat
      BY <1>1, FS_CardinalityType
    <2> QED
      BY <1>2, <2>2, <2>3
  <1>3. CASE Searchers' = Searchers
    BY <1>1, <1>3, FS_CardinalityType
  <1>4. Searchers' = Searchers \cup {t} \/ Searchers' = Searchers
    BY DEF Searchers
  <1> QED
    BY <1>2, <1>3, <1>4

\* One thread ends its search.
LEMMA SearchEnds ==
  ASSUME NEW t \in Threads, Scanning(t), ~ Scanning(t)',
         \A u \in Threads \ {t} : Scanning(u)' <=> Scanning(u)
  PROVE  /\ Cardinality(Searchers) \in Nat
         /\ Cardinality(Searchers') = Cardinality(Searchers) - 1
         /\ Cardinality(Searchers) >= 1
  <1>1. IsFiniteSet(Searchers)
    BY ThreadsAssumption, FS_Subset DEF Searchers
  <1>2. t \in Searchers
    BY DEF Searchers
  <1>3. Searchers' = Searchers \ {t}
    BY DEF Searchers
  <1>4. Cardinality(Searchers') = Cardinality(Searchers) - 1
    BY <1>1, <1>2, <1>3, FS_RemoveElement
  <1>5. Cardinality(Searchers) \in Nat /\ Cardinality(Searchers') \in Nat
    <2>1. IsFiniteSet(Searchers')
      BY <1>1, <1>3, FS_Subset
    <2> QED
      BY <1>1, <2>1, FS_CardinalityType
  <1> QED
    BY <1>4, <1>5

\* No thread begins or ends a search.
LEMMA SearchersStay ==
  ASSUME \A u \in Threads : Scanning(u)' <=> Scanning(u)
  PROVE  Searchers' = Searchers
  BY DEF Searchers

-----------------------------------------------------------------------------
(* Type correctness.                                                       *)

\* A thread goes to another step, the others stay where they are.
LEMMA Moves ==
  ASSUME TypeOK, NEW t \in Threads, NEW pc, NEW id, NEW allocation, Goto(t, pc, id, allocation)
  PROVE  /\ thread'[t].pc = pc /\ thread'[t].id = id /\ thread'[t].allocation = allocation
         /\ \A u \in Threads \ {t} : thread'[u] = thread[u]
         /\ [pc |-> pc, id |-> id, allocation |-> allocation, left |-> {}] \in ThreadState =>
              thread' \in [Threads -> ThreadState]
  BY DEF TypeOK, Goto

\* A thread goes on with the slot it took.
LEMMA Copies ==
  ASSUME TypeOK, NEW t \in Threads, NEW pc \in Filling, NEW bytes \in SUBSET Bytes,
         Copy(t, pc, bytes)
  PROVE  /\ thread'[t].pc = pc /\ thread'[t].left = bytes
         /\ thread'[t].id = thread[t].id /\ thread'[t].allocation = thread[t].allocation
         /\ \A u \in Threads \ {t} : thread'[u] = thread[u]
         /\ thread' \in [Threads -> ThreadState]
  <1>1. thread \in [Threads -> ThreadState] /\ thread[t] \in ThreadState
    BY DEF TypeOK
  <1>2. thread' = [thread EXCEPT ![t] = [thread[t] EXCEPT !.pc = pc, !.left = bytes]]
    BY <1>1 DEF Copy, ThreadState
  <1>3. [thread[t] EXCEPT !.pc = pc, !.left = bytes] \in ThreadState
    BY <1>1 DEF ThreadState, Filling
  <1> QED
    BY <1>1, <1>2, <1>3 DEF ThreadState

\* A thread leaves allocate() or free().
LEMMA Returns ==
  ASSUME TypeOK, NEW t \in Threads, Return(t)
  PROVE  /\ thread'[t] = Idle
         /\ \A u \in Threads \ {t} : thread'[u] = thread[u]
         /\ thread' \in [Threads -> ThreadState]
  <1>1. Idle \in ThreadState
    BY SlotsAssumption DEF Idle, ThreadState, Numbers
  <1> QED
    BY <1>1 DEF TypeOK, Return

\* What an allocation writes fits in a slot.
LEMMA Fits ==
  ASSUME NEW a \in 1 .. MaxAllocations
  PROVE  /\ KeyLength[a] \in Lengths /\ LabelLength[a] \in Lengths
         /\ BytesAt(0, KeyLength[a]) \in SUBSET Bytes
         /\ BytesAt(KeyLength[a], LabelLength[a]) \in SUBSET Bytes
  <1>1. /\ KeyLength[a] \in Nat /\ LabelLength[a] \in Nat /\ SlotSize \in Nat
        /\ KeyLength[a] + LabelLength[a] <= SlotSize
    BY LengthsAssumption
  <1> QED
    BY <1>1 DEF Lengths, Bytes, BytesAt

\* The allocation of a thread that fills a slot is one of those within the bound.
LEMMA Mine ==
  ASSUME TypeOK, Numbered, NEW t \in Threads, thread[t].pc \in Filling
  PROVE  thread[t].allocation \in 1 .. MaxAllocations
  BY BoundsAssumption DEF TypeOK, Numbered, Numbers, Allocations

\* Where a step takes its thread; the others stay where they are.
LEMMA Steps ==
  ASSUME TypeOK, Numbered, NEW t \in Threads
  PROVE  /\ LoadTypeId(t) => /\ thread[t].pc = "load" /\ thread[t].id < Slots
                             /\ \/ thread'[t].pc = "cas" /\ thread'[t].id = thread[t].id
                                \/ thread'[t].pc = "load" /\ thread'[t].id = thread[t].id + 1
         /\ TakeSlot(t) => /\ thread[t].pc = "cas" /\ thread'[t].pc = "key_length"
                           /\ thread'[t].id = thread[t].id
                           /\ thread'[t].allocation = allocations + 1
         /\ LoseSlot(t) => /\ thread[t].pc = "cas" /\ thread'[t].pc = "load"
                           /\ thread'[t].id = thread[t].id + 1
         /\ Writing(t) => /\ thread[t].pc \in Filling /\ thread'[t].pc \in Filling
                          /\ thread'[t].id = thread[t].id
                          /\ thread'[t].allocation = thread[t].allocation
                          /\ thread' \in [Threads -> ThreadState]
                          /\ thread'[t].pc = "publish" <=> ZeroValue(t)
         /\ LoadTypeId(t) \/ TakeSlot(t) \/ LoseSlot(t) \/ Writing(t) =>
              \A u \in Threads \ {t} : thread'[u] = thread[u]
  <1>1. CASE LoadTypeId(t)
    <2>1. thread[t].pc = "load" /\ thread[t].id < Slots
      BY <1>1 DEF LoadTypeId
    <2>2. Goto(t, "cas", thread[t].id, 0) \/ Goto(t, "load", thread[t].id + 1, 0)
      BY <1>1 DEF LoadTypeId
    <2>3. /\ \/ thread'[t].pc = "cas" /\ thread'[t].id = thread[t].id
             \/ thread'[t].pc = "load" /\ thread'[t].id = thread[t].id + 1
          /\ \A u \in Threads \ {t} : thread'[u] = thread[u]
      <3>1. CASE Goto(t, "cas", thread[t].id, 0)
        BY <3>1, Moves
      <3>2. CASE Goto(t, "load", thread[t].id + 1, 0)
        BY <3>2, Moves
      <3> QED
        BY <2>2, <3>1, <3>2
    <2> QED
      BY <2>1, <2>3 DEF TakeSlot, LoseSlot, Writing, WriteKeyLength, WriteByte, WriteLabelLength, ZeroValue
  <1>2. CASE TakeSlot(t)
    <2>1. thread[t].pc = "cas" /\ Goto(t, "key_length", thread[t].id, allocations + 1)
      BY <1>2 DEF TakeSlot
    <2>2. /\ thread'[t].pc = "key_length" /\ thread'[t].id = thread[t].id
          /\ thread'[t].allocation = allocations + 1
          /\ \A u \in Threads \ {t} : thread'[u] = thread[u]
      BY <2>1, Moves
    <2>3. ~ LoadTypeId(t) /\ ~ LoseSlot(t) /\ ~ Writing(t)
      BY <1>2, <2>1 DEF LoadTypeId, TakeSlot, LoseSlot,
               Writing, WriteKeyLength, WriteByte, WriteLabelLength, ZeroValue
    <2> QED
      BY <2>1, <2>2, <2>3
  <1>3. CASE LoseSlot(t)
    <2>1. thread[t].pc = "cas" /\ Goto(t, "load", thread[t].id + 1, 0)
      BY <1>3 DEF LoseSlot
    <2>2. /\ thread'[t].pc = "load" /\ thread'[t].id = thread[t].id + 1
          /\ \A u \in Threads \ {t} : thread'[u] = thread[u]
      BY <2>1 DEF Goto, TypeOK
    <2>3. ~ LoadTypeId(t) /\ ~ TakeSlot(t) /\ ~ Writing(t)
      BY <1>3, <2>1 DEF LoadTypeId, TakeSlot, LoseSlot,
               Writing, WriteKeyLength, WriteByte, WriteLabelLength, ZeroValue
    <2> QED
      BY <2>1, <2>2, <2>3
  <1>4. CASE Writing(t)
    <2>1. thread[t].pc \in {"key_length", "key", "label"}
      BY <1>4 DEF Writing, WriteKeyLength, WriteByte, WriteLabelLength, ZeroValue
    <2>2. PICK pc \in {"key", "label", "publish"}, bytes \in SUBSET Bytes :
            /\ Copy(t, pc, bytes)
            /\ pc = "publish" <=> ZeroValue(t)
      <3>1. thread[t] \in ThreadState
        BY DEF TypeOK
      <3>2. thread[t].left \in SUBSET Bytes /\ {} \in SUBSET Bytes
        BY <3>1 DEF ThreadState
      <3>3. thread[t].allocation \in 1 .. MaxAllocations
        BY <2>1, Mine DEF Filling
      <3>4. CASE WriteKeyLength(t)
        BY <3>3, <3>4, Fits DEF WriteKeyLength, ZeroValue
      <3>5. CASE WriteByte(t)
        <4>1. PICK byte \in thread[t].left : Copy(t, thread[t].pc, thread[t].left \ {byte})
          BY <3>5 DEF WriteByte
        <4>2. thread[t].pc \in {"key", "label"} /\ thread[t].left # {}
          BY <3>5, <4>1 DEF WriteByte
        <4>3. thread[t].left \ {byte} \in SUBSET Bytes /\ ~ ZeroValue(t)
          BY <3>2, <4>2 DEF ZeroValue
        <4> QED
          BY <4>1, <4>2, <4>3
      <3>6. CASE WriteLabelLength(t)
        BY <3>3, <3>6, Fits DEF WriteLabelLength, ZeroValue
      <3>7. CASE ZeroValue(t)
        BY <3>2, <3>7 DEF ZeroValue
      <3> QED
        BY <1>4, <3>4, <3>5, <3>6, <3>7 DEF Writing
    <2>3. ~ LoadTypeId(t) /\ ~ TakeSlot(t) /\ ~ LoseSlot(t)
      BY <1>4, <2>1 DEF LoadTypeId, TakeSlot, LoseSlot
    <2> QED
      BY <2>1, <2>2, <2>3, Copies DEF Filling
  <1> QED
    BY <1>1, <1>2, <1>3, <1>4

\* The counters as they are created satisfy the invariant.
LEMMA InvInit == Init => IInv
  <1> SUFFICES ASSUME Init
               PROVE  IInv
    OBVIOUS
  <1> USE SlotsAssumption, BoundsAssumption DEF Init, CounterIds, Idle, FREE, NOT_FREE
  <1>1. TypeOK
    <2>1. 0 \in Lengths /\ 0 \in Numbers /\ 0 \in 0 .. MaxValue /\ 0 \in 0 .. Slots
      BY LengthsAssumption DEF Lengths, Numbers
    <2>2. NotMonitoring \in MonitorState /\ Idle \in ThreadState
      BY <2>1 DEF NotMonitoring, MonitorState, ThreadState
    <2> QED
      BY <2>1, <2>2 DEF TypeOK
  <1>2. Budget
    <2>1. Searchers = {}
      BY DEF Searchers, Scanning
    <2> QED
      BY <2>1, FS_EmptySet DEF Budget
  <1>3. Ownership
    BY DEF Ownership, SlotStates, HeldOnce, Holds, Filling
  <1>4. Values /\ Monitored /\ Ahead
    BY DEF Values, NothingInherited, Zeroed, Monitored, Numbered, Metadata, Watched, Copied,
           NotMonitoring, Ahead, Scanning, Filling
  <1> QED
    BY <1>1, <1>2, <1>3, <1>4 DEF IInv

\* Every step keeps the types; that a slot can be taken within the bound and a
\* counter counted up within its own needs the rest of the invariant.
LEMMA TypeNext == IInv /\ [Next]_vars => TypeOK'
  <1> SUFFICES ASSUME IInv, [Next]_vars
               PROVE  TypeOK'
    OBVIOUS
  <1>t. TypeOK /\ SlotStates /\ NothingInherited /\ Budget /\ Numbered
    BY DEF IInv, Ownership, Values, Monitored
  <1>n. Slots \in Nat \ {0} /\ MaxAllocations \in Nat /\ MaxValue \in Nat
    BY SlotsAssumption, BoundsAssumption
  <1>m. ASSUME NEW t \in Threads, NEW pc, NEW id \in 0 .. Slots, NEW allocation \in Numbers,
               pc \in {"load", "cas", "key_length", "free"},
               Goto(t, pc, id, allocation)
        PROVE  thread' \in [Threads -> ThreadState]
    <2>1. [pc |-> pc, id |-> id, allocation |-> allocation, left |-> {}] \in ThreadState
      BY <1>m DEF ThreadState
    <2> QED
      BY <1>m, <1>t, <2>1, Moves
  <1>c. ASSUME NEW t \in Threads
        PROVE  thread[t].id \in 0 .. Slots /\ thread[t].allocation \in Numbers
    BY <1>t DEF TypeOK, ThreadState
  <1>z. 0 \in Numbers /\ 0 \in 0 .. Slots
    BY <1>n DEF Numbers
  <1>1. ASSUME NEW t \in Threads, Allocate(t)
        PROVE  TypeOK'
    BY <1>1, <1>t, <1>m, <1>z DEF Allocate, TypeOK, metadata, slots
  <1>2. ASSUME NEW t \in Threads, LoadTypeId(t)
        PROVE  TypeOK'
    <2>1. thread[t].id + 1 \in 0 .. Slots
      BY <1>2, <1>n, <1>c DEF LoadTypeId
    <2>2. thread' \in [Threads -> ThreadState]
      BY <1>2, <1>m, <1>z, <1>c, <2>1 DEF LoadTypeId
    <2> QED
      BY <1>2, <1>t, <2>2 DEF LoadTypeId, TypeOK, metadata, slots, history
  <1>3. ASSUME NEW t \in Threads, TakeSlot(t)
        PROVE  TypeOK'
    <2>1. allocations + 1 \in Numbers
      <3>1. Searchers # {} /\ IsFiniteSet(Searchers)
        BY <1>3, ThreadsAssumption, FS_Subset DEF Searchers, Scanning, TakeSlot
      <3>2. Cardinality(Searchers) \in Nat /\ Cardinality(Searchers) # 0
        BY <3>1, FS_EmptySet, FS_CardinalityType
      <3>3. allocations \in Nat
        BY <1>t DEF TypeOK, Numbers, Allocations
      <3> QED
        BY <1>t, <1>n, <3>2, <3>3 DEF Budget, Numbers, Allocations
    <2>2. thread' \in [Threads -> ThreadState]
      BY <1>3, <1>m, <1>c, <2>1 DEF TakeSlot
    <2> QED
      BY <1>3, <1>t, <2>1, <2>2 DEF TakeSlot, TypeOK, metadata
  <1>4. ASSUME NEW t \in Threads, LoseSlot(t)
        PROVE  TypeOK'
    <2>1. thread[t].id + 1 \in 0 .. Slots
      BY <1>4, <1>t, <1>n DEF LoseSlot, SlotStates, CounterIds
    <2>2. thread' \in [Threads -> ThreadState]
      BY <1>4, <1>m, <1>z, <2>1 DEF LoseSlot
    <2> QED
      BY <1>4, <1>t, <2>2 DEF LoseSlot, TypeOK, metadata, slots, history
  <1>5. ASSUME NEW t \in Threads, NoSlot(t)
        PROVE  TypeOK'
    BY <1>5, <1>t, Returns DEF NoSlot, TypeOK, metadata, slots, history
  <1>6. ASSUME NEW t \in Threads, Writing(t)
        PROVE  TypeOK'
    <2>1. thread' \in [Threads -> ThreadState] /\ thread[t].pc \in Filling
      BY <1>6, <1>t, Steps
    <2>2. thread[t].allocation \in 1 .. MaxAllocations
      BY <1>t, <2>1, Mine
    <2>3. CASE WriteKeyLength(t) \/ WriteLabelLength(t)
      BY <1>t, <2>1, <2>2, <2>3, Fits DEF WriteKeyLength, WriteLabelLength, TypeOK, metadata, history
    <2>4. CASE WriteByte(t)
      <3>1. PICK byte \in thread[t].left :
              text' = [text EXCEPT ![thread[t].id][byte] = thread[t].allocation]
        BY <2>4 DEF WriteByte
      <3>2. text' \in [CounterIds -> [Bytes -> Numbers]]
        <4>1. thread[t].allocation \in Numbers
          BY <1>c
        <4> QED
          BY <1>t, <3>1, <4>1 DEF TypeOK
      <3> QED
        BY <1>t, <2>1, <2>4, <3>2 DEF WriteByte, TypeOK, history
    <2>5. CASE ZeroValue(t)
      <3>1. 0 \in 0 .. MaxValue
        BY <1>n
      <3> QED
        BY <1>t, <2>1, <2>5, <3>1 DEF ZeroValue, TypeOK, metadata, history
    <2> QED
      BY <1>6, <2>3, <2>4, <2>5 DEF Writing
  <1>7. ASSUME NEW t \in Threads, Publish(t)
        PROVE  TypeOK'
    <2>1. thread[t].id \in CounterIds
      BY <1>7, <1>t DEF Publish, SlotStates, Filling
    <2>2. thread[t].allocation \in Allocations \cup {FREE, NOT_FREE}
      BY <1>c DEF Numbers, FREE
    <2>3. 0 \in 0 .. MaxValue
      BY <1>n
    <2> QED
      BY <1>7, <1>t, <2>1, <2>2, <2>3, Returns DEF Publish, TypeOK, metadata
  <1>8. ASSUME NEW t \in Threads, NEW id \in CounterIds, SetValue(t, id)
        PROVE  TypeOK'
    BY <1>8, <1>t DEF SetValue, TypeOK, metadata
  <1>9. ASSUME NEW t \in Threads, NEW id \in CounterIds, GetAndAdd(t, id)
        PROVE  TypeOK'
    <2>1. PICK increment \in 1 .. MaxValue - stored[id] :
            /\ value' = [value EXCEPT ![id] = value[id] + increment]
            /\ stored' = [stored EXCEPT ![id] = stored[id] + increment]
      BY <1>9 DEF GetAndAdd
    <2>2. value[id] <= stored[id] /\ value[id] \in Nat /\ stored[id] \in 0 .. MaxValue
      BY <1>9, <1>t DEF GetAndAdd, NothingInherited, TypeOK
    <2>3. value[id] + increment \in 0 .. MaxValue /\ stored[id] + increment \in 0 .. MaxValue
      BY <1>n, <2>1, <2>2
    <2> QED
      BY <1>9, <1>t, <2>1, <2>3 DEF GetAndAdd, TypeOK, metadata
  <1>10. ASSUME NEW t \in Threads, NEW id \in CounterIds, Free(t, id)
         PROVE  TypeOK'
    <2>1. id \in 0 .. Slots
      BY <1>n DEF CounterIds
    <2> QED
      BY <1>10, <1>t, <1>m, <1>z, <2>1 DEF Free, TypeOK, metadata
  <1>11. ASSUME NEW t \in Threads, ZeroFreed(t)
        PROVE  TypeOK'
    <2>1. 0 \in 0 .. MaxValue
      BY <1>n
    <2> QED
      BY <1>11, <1>t, <2>1, Returns DEF ZeroFreed, TypeOK, metadata, history
  <1>12. CASE MonitorTypeId \/ MonitorNext
    <2>1. (monitor.id + 1) % Slots \in CounterIds
      BY <1>t, <1>n DEF TypeOK, MonitorState, CounterIds
    <2>2. [NotMonitoring EXCEPT !.id = (monitor.id + 1) % Slots] \in MonitorState
      BY <2>1, <1>z, LengthsAssumption DEF NotMonitoring, MonitorState, Lengths
    <2>3. type_id[monitor.id] > 0 => type_id[monitor.id] \in Numbers
      BY <1>t DEF TypeOK, MonitorState, Numbers, FREE, NOT_FREE
    <2>4. monitor' \in MonitorState
      BY <1>12, <1>t, <2>2, <2>3 DEF MonitorTypeId, MonitorNext, MonitorState, TypeOK
    <2> QED
      BY <1>12, <1>t, <2>4 DEF MonitorTypeId, MonitorNext, TypeOK, metadata, slots, history
  <1>13. CASE MonitorKeyLength \/ MonitorByte \/ MonitorOffset \/ MonitorLabelLength
    <2>1. /\ monitor \in MonitorState
          /\ key_length[monitor.id] \in Lengths /\ label_length[monitor.id] \in Lengths
      BY <1>t DEF TypeOK, MonitorState
    <2>2. monitor' \in MonitorState
      <3>1. CASE MonitorKeyLength
        <4>1. BytesAt(0, key_length[monitor.id]) \subseteq 0 .. 2 * SlotSize - 1
          BY <2>1, LengthsAssumption DEF BytesAt, Lengths
        <4> QED
          BY <2>1, <3>1, <4>1 DEF MonitorKeyLength, MonitorState
      <3>2. CASE MonitorByte
        <4>1. PICK byte \in monitor.left :
                monitor' = [monitor EXCEPT !.left = @ \ {byte},
                              !.read = @ \cup {IF byte \in Bytes THEN text[monitor.id][byte] ELSE 0}]
          BY <3>2 DEF MonitorByte
        <4>2. (IF byte \in Bytes THEN text[monitor.id][byte] ELSE 0) \in Numbers
          BY <1>t, <1>z, <2>1 DEF TypeOK, MonitorState
        <4> QED
          BY <2>1, <4>1, <4>2 DEF MonitorState
      <3>3. CASE MonitorOffset
        BY <2>1, <3>3 DEF MonitorOffset, MonitorState
      <3>4. CASE MonitorLabelLength
        <4>1. BytesAt(monitor.offset, label_length[monitor.id]) \subseteq 0 .. 2 * SlotSize - 1
          BY <2>1, LengthsAssumption DEF BytesAt, Lengths, MonitorState
        <4> QED
          BY <2>1, <3>4, <4>1 DEF MonitorLabelLength, MonitorState
      <3> QED
        BY <1>13, <3>1, <3>2, <3>3, <3>4
    <2> QED
      BY <1>13, <1>t, <2>2
         DEF MonitorKeyLength, MonitorByte, MonitorOffset, MonitorLabelLength,
             TypeOK, metadata, slots, history
  <1>14. CASE UNCHANGED vars
    BY <1>14, <1>t DEF vars, slots, metadata, history, TypeOK
  <1> QED
    BY <1>1, <1>2, <1>3, <1>4, <1>5, <1>6, <1>7, <1>8, <1>9, <1>10, <1>11, <1>12, <1>13, <1>14
       DEF Next, AllocateStep, OwnerStep, MonitorStep, Writing
-----------------------------------------------------------------------------
(* The invariant.                                                          *)

\* The bound on the allocations covers those that still search.
LEMMA BudgetNext == IInv /\ TypeOK' /\ [Next]_vars => Budget'
  <1> SUFFICES ASSUME IInv, TypeOK', [Next]_vars
               PROVE  Budget'
    OBVIOUS
  <1>t. TypeOK /\ Numbered /\ Budget /\ MaxAllocations \in Nat /\ allocations \in Nat
    BY BoundsAssumption DEF IInv, Monitored, TypeOK, Numbers, Allocations
  <1>f. Cardinality(Searchers) \in Nat
    BY ThreadsAssumption, FS_Subset, FS_CardinalityType DEF Searchers
  <1>1. ASSUME NEW t \in Threads, Allocate(t)
        PROVE  Budget'
    <2>1. ~ Scanning(t) /\ allocations' = allocations
      BY <1>1 DEF Allocate, Scanning, Idle
    <2>2. \A u \in Threads \ {t} : Scanning(u)' <=> Scanning(u)
      BY <1>1, <1>t, Moves DEF Allocate, Scanning
    <2>3. Cardinality(Searchers') <= Cardinality(Searchers) + 1
      BY <2>1, <2>2, SearchBegins
    <2>4. allocations + Cardinality(Searchers) < MaxAllocations
      BY <1>1 DEF Allocate, Searchers
    <2>5. Cardinality(Searchers') \in Nat
      <3>1. IsFiniteSet(Searchers')
        BY ThreadsAssumption, FS_Subset DEF Searchers
      <3> QED
        BY <3>1, FS_CardinalityType
    <2> QED
      BY <1>t, <1>f, <2>1, <2>3, <2>4, <2>5 DEF Budget
  <1>2. ASSUME NEW t \in Threads, TakeSlot(t)
        PROVE  Budget'
    <2>1. Scanning(t) /\ ~ Scanning(t)' /\ allocations' = allocations + 1
      BY <1>2, <1>t, Steps DEF TakeSlot, Scanning
    <2>2. \A u \in Threads \ {t} : Scanning(u)' <=> Scanning(u)
      BY <1>2, <1>t, Steps DEF Scanning
    <2>3. Cardinality(Searchers') = Cardinality(Searchers) - 1
      BY <2>1, <2>2, SearchEnds
    <2> QED
      BY <1>t, <1>f, <2>1, <2>3 DEF Budget
  <1>3. ASSUME NEW t \in Threads, NoSlot(t)
        PROVE  Budget'
    <2>1. Scanning(t) /\ ~ Scanning(t)' /\ allocations' = allocations
      BY <1>3, <1>t, Returns DEF NoSlot, Scanning, Idle, history
    <2>2. \A u \in Threads \ {t} : Scanning(u)' <=> Scanning(u)
      BY <1>3, <1>t, Returns DEF NoSlot, Scanning
    <2>3. Cardinality(Searchers') = Cardinality(Searchers) - 1
      BY <2>1, <2>2, SearchEnds
    <2> QED
      BY <1>t, <1>f, <2>1, <2>3 DEF Budget
  <1>4. ASSUME allocations' = allocations, \A u \in Threads : Scanning(u)' <=> Scanning(u)
        PROVE  Budget'
    BY <1>4, <1>t, SearchersStay DEF Budget
  <1>5. ASSUME NEW t \in Threads, LoadTypeId(t) \/ LoseSlot(t)
        PROVE  Budget'
    <2>1. \A u \in Threads : Scanning(u)' <=> Scanning(u)
      BY <1>5, <1>t, Steps DEF Scanning
    <2> QED
      BY <1>4, <1>5, <2>1 DEF LoadTypeId, LoseSlot, history
  <1>6. ASSUME NEW t \in Threads, Writing(t)
        PROVE  Budget'
    <2>1. \A u \in Threads : Scanning(u)' <=> Scanning(u)
      BY <1>6, <1>t, Steps DEF Scanning, Filling
    <2> QED
      BY <1>4, <1>6, <2>1 DEF Writing, WriteKeyLength, WriteByte, WriteLabelLength, ZeroValue, history
  <1>7. ASSUME NEW t \in Threads, Publish(t) \/ ZeroFreed(t)
        PROVE  Budget'
    <2>1. \A u \in Threads : Scanning(u)' <=> Scanning(u)
      BY <1>7, <1>t, Returns DEF Publish, ZeroFreed, Scanning, Idle
    <2> QED
      BY <1>4, <1>7, <2>1 DEF Publish, ZeroFreed, history
  <1>8. ASSUME NEW t \in Threads, NEW id \in CounterIds,
               SetValue(t, id) \/ GetAndAdd(t, id) \/ Free(t, id)
        PROVE  Budget'
    <2>1. CASE Free(t, id)
      <3>1. thread[t].pc = "idle" /\ thread'[t].pc = "free" /\ \A u \in Threads \ {t} : thread'[u] = thread[u]
        <4>1. Goto(t, "free", id, 0) /\ thread[t].pc = "idle"
          BY <2>1 DEF Free, Idle
        <4> QED
          BY <1>t, <4>1, Moves
      <3>2. \A u \in Threads : Scanning(u)' <=> Scanning(u)
        BY <3>1 DEF Scanning
      <3> QED
        BY <1>4, <2>1, <3>2 DEF Free
    <2>2. CASE SetValue(t, id) \/ GetAndAdd(t, id)
      BY <1>4, <2>2 DEF SetValue, GetAndAdd, Scanning
    <2> QED
      BY <1>8, <2>1, <2>2
  <1>9. CASE MonitorStep \/ UNCHANGED vars
    BY <1>4, <1>9 DEF MonitorStep, MonitorTypeId, MonitorKeyLength, MonitorByte,
                      MonitorOffset, MonitorLabelLength, MonitorNext,
                      Scanning, vars, history
  <1> QED
    BY <1>1, <1>2, <1>3, <1>5, <1>6, <1>7, <1>8, <1>9 DEF Next, AllocateStep, OwnerStep, Writing

\* Taking, publishing and freeing a slot keep who holds it.
LEMMA OwnershipNext == IInv /\ TypeOK' /\ [Next]_vars => Ownership'
  <1> SUFFICES ASSUME IInv, TypeOK', [Next]_vars
               PROVE  SlotStates' /\ HeldOnce'
    BY DEF Ownership
  <1>t. TypeOK /\ Numbered /\ SlotStates /\ HeldOnce /\ Slots \in Nat \ {0}
    BY SlotsAssumption DEF IInv, Ownership, Monitored
  <1>u. /\ type_id \in [CounterIds -> Allocations \cup {FREE, NOT_FREE}]
        /\ owned \in [Threads -> SUBSET CounterIds]
    BY <1>t DEF TypeOK
  \* a step that changes neither the type ids nor who owns what
  <1>s. ASSUME type_id' = type_id, owned' = owned,
               \A t \in Threads :
                 /\ \/ thread'[t].pc \in Filling /\ thread[t].pc \in Filling
                    \/ thread'[t].pc \notin Filling /\ thread[t].pc \notin Filling
                 /\ thread'[t].pc \in Filling => thread'[t].id = thread[t].id
                 /\ thread'[t].pc \in {"cas", "free"} => thread'[t].id \in CounterIds
        PROVE  SlotStates' /\ HeldOnce'
    BY <1>s, <1>t DEF SlotStates, HeldOnce, Holds, Filling
  <1>1. ASSUME NEW t \in Threads, Allocate(t)
        PROVE  SlotStates' /\ HeldOnce'
    <2>1. thread[t].pc = "idle" /\ thread'[t].pc = "load" /\ \A u \in Threads \ {t} : thread'[u] = thread[u]
      <3>1. Goto(t, "load", 0, 0) /\ thread[t].pc = "idle"
        BY <1>1 DEF Allocate, Idle
      <3> QED
        BY <1>t, <3>1, Moves
    <2>2. type_id' = type_id /\ owned' = owned
      BY <1>1 DEF Allocate, slots
    <2> QED
      BY <1>s, <1>t, <2>1, <2>2 DEF SlotStates, Filling
  <1>2. ASSUME NEW t \in Threads, LoadTypeId(t)
        PROVE  SlotStates' /\ HeldOnce'
    <2>1. thread[t].id < Slots => thread[t].id \in CounterIds
      BY <1>t DEF TypeOK, ThreadState, CounterIds
    <2>2. type_id' = type_id /\ owned' = owned
      BY <1>2 DEF LoadTypeId, slots, history
    <2> QED
      BY <1>2, <1>s, <1>t, <2>1, <2>2, Steps DEF SlotStates, Filling
  <1>3. ASSUME NEW t \in Threads, LoseSlot(t) \/ NoSlot(t) \/ ZeroFreed(t)
        PROVE  SlotStates' /\ HeldOnce'
    <2>1. type_id' = type_id /\ owned' = owned
      BY <1>3 DEF LoseSlot, NoSlot, ZeroFreed, slots, history
    <2>2. /\ thread[t].pc \notin Filling
          /\ thread'[t].pc \in {"load", "idle"}
          /\ \A u \in Threads \ {t} : thread'[u] = thread[u]
      <3>1. CASE LoseSlot(t)
        BY <1>t, <3>1, Steps DEF Filling
      <3>2. CASE NoSlot(t) \/ ZeroFreed(t)
        BY <1>t, <3>2, Returns DEF NoSlot, ZeroFreed, Idle, Filling
      <3> QED
        BY <1>3, <3>1, <3>2
    <2> QED
      BY <1>s, <1>t, <2>1, <2>2 DEF SlotStates, Filling
  <1>4. ASSUME NEW t \in Threads, Writing(t)
        PROVE  SlotStates' /\ HeldOnce'
    <2>1. type_id' = type_id /\ owned' = owned
      BY <1>4 DEF Writing, WriteKeyLength, WriteByte, WriteLabelLength, ZeroValue, history
    <2> QED
      BY <1>4, <1>s, <1>t, <2>1, Steps DEF SlotStates, Filling
  <1>5. ASSUME NEW t \in Threads, TakeSlot(t)
        PROVE  SlotStates' /\ HeldOnce'
    <2> DEFINE id == thread[t].id
    <2>1. /\ id \in CounterIds /\ type_id[id] = FREE
          /\ type_id' = [type_id EXCEPT ![id] = NOT_FREE] /\ owned' = owned
          /\ thread[t].pc = "cas" /\ thread'[t].pc = "key_length" /\ thread'[t].id = id
          /\ \A u \in Threads \ {t} : thread'[u] = thread[u]
      BY <1>5, <1>t, Moves DEF TakeSlot, SlotStates
    <2>2. \A u \in Threads : id \notin Holds(u)
      BY <1>t, <2>1 DEF SlotStates, Holds, Filling, FREE, NOT_FREE
    <2>3. Holds(t)' = owned[t] \cup {id}
      BY <2>1 DEF Holds, Filling
    <2>4. \A u \in Threads \ {t} : Holds(u)' = Holds(u)
      BY <2>1 DEF Holds
    <2>5. owned[t] \subseteq Holds(t)
      BY DEF Holds
    <2>6. HeldOnce'
      BY <1>t, <2>2, <2>3, <2>4, <2>5 DEF HeldOnce
    <2>7. SlotStates'
      BY <1>t, <1>u, <2>1, <2>2 DEF SlotStates, Filling, Holds
    <2> QED
      BY <2>6, <2>7
  <1>6. ASSUME NEW t \in Threads, Publish(t)
        PROVE  SlotStates' /\ HeldOnce'
    <2> DEFINE id == thread[t].id
    <2>1. /\ id \in CounterIds
          /\ type_id' = [type_id EXCEPT ![id] = thread[t].allocation]
          /\ owned' = [owned EXCEPT ![t] = owned[t] \cup {id}]
          /\ thread[t].pc = "publish" /\ thread'[t] = Idle
          /\ \A u \in Threads \ {t} : thread'[u] = thread[u]
      BY <1>6, <1>t, Returns DEF Publish, SlotStates, Filling
    <2>2. thread[t].allocation > 0
      BY <1>t, <2>1 DEF Numbered, Filling
    <2>3. Holds(t)' = Holds(t)
      BY <1>u, <2>1 DEF Holds, Idle, Filling
    <2>4. \A u \in Threads \ {t} : Holds(u)' = Holds(u)
      BY <1>u, <2>1 DEF Holds
    <2>5. \A u \in Threads \ {t} : id \notin Holds(u)
      BY <1>t, <2>1 DEF HeldOnce, Holds, Filling
    <2>6. HeldOnce'
      BY <1>t, <2>3, <2>4 DEF HeldOnce
    <2>7. SlotStates'
      BY <1>t, <1>u, <2>1, <2>2, <2>5 DEF SlotStates, Filling, Holds, Idle
    <2> QED
      BY <2>6, <2>7
  <1>7. ASSUME NEW t \in Threads, NEW id \in CounterIds, SetValue(t, id) \/ GetAndAdd(t, id)
        PROVE  SlotStates' /\ HeldOnce'
    BY <1>7, <1>s, <1>t DEF SetValue, GetAndAdd, SlotStates, Filling
  <1>8. ASSUME NEW t \in Threads, NEW id \in CounterIds, Free(t, id)
        PROVE  SlotStates' /\ HeldOnce'
    <2>1. /\ id \in owned[t] /\ thread[t] = Idle
          /\ type_id' = [type_id EXCEPT ![id] = FREE]
          /\ owned' = [owned EXCEPT ![t] = owned[t] \ {id}]
          /\ thread'[t].pc = "free" /\ thread'[t].id = id
          /\ \A u \in Threads \ {t} : thread'[u] = thread[u]
      BY <1>8, <1>t, Moves DEF Free
    <2>2. Holds(t)' \subseteq Holds(t)
      BY <1>u, <2>1 DEF Holds
    <2>3. \A u \in Threads \ {t} : Holds(u)' = Holds(u)
      BY <1>u, <2>1 DEF Holds
    <2>4. \A u \in Threads \ {t} : id \notin Holds(u)
      BY <1>t, <2>1 DEF HeldOnce, Holds
    <2>5. HeldOnce'
      BY <1>t, <2>2, <2>3 DEF HeldOnce
    <2>6. SlotStates'
      BY <1>t, <1>u, <2>1, <2>4 DEF SlotStates, Filling, Holds
    <2> QED
      BY <2>5, <2>6
  <1>9. CASE MonitorStep \/ UNCHANGED vars
    BY <1>9, <1>s, <1>t DEF MonitorStep, MonitorTypeId, MonitorKeyLength, MonitorByte,
                      MonitorOffset, MonitorLabelLength, MonitorNext,
                            SlotStates, Filling, vars, slots, history
  <1> QED
    BY <1>1, <1>2, <1>3, <1>4, <1>5, <1>6, <1>7, <1>8, <1>9 DEF Next, AllocateStep, OwnerStep, Writing
\* A value is zero when its slot is published, and never ahead of its owner.
LEMMA ValuesNext == IInv /\ TypeOK' /\ [Next]_vars => Values'
  <1> SUFFICES ASSUME IInv, TypeOK', [Next]_vars
               PROVE  NothingInherited' /\ Zeroed'
    BY DEF Values
  <1>t. TypeOK /\ Numbered /\ SlotStates /\ HeldOnce /\ NothingInherited /\ Zeroed
    BY DEF IInv, Ownership, Values, Monitored
  <1>u. /\ value \in [CounterIds -> 0 .. MaxValue] /\ stored \in [CounterIds -> 0 .. MaxValue]
        /\ owned \in [Threads -> SUBSET CounterIds]
    BY <1>t DEF TypeOK
  <1>p. ASSUME NEW u \in Threads, thread[u].pc = "publish"
        PROVE  thread[u].id \in CounterIds /\ value[thread[u].id] = 0
    BY <1>t, <1>p DEF SlotStates, Filling, Zeroed
  \* the steps that leave the values and their owners alone
  <1>s. ASSUME value' = value, stored' = stored, \A t \in Threads : owned'[t] \subseteq owned[t],
               \A t \in Threads : thread'[t].pc = "publish" => thread'[t] = thread[t]
        PROVE  NothingInherited' /\ Zeroed'
    BY <1>s, <1>t DEF NothingInherited, Zeroed
  <1>1. ASSUME NEW t \in Threads, Allocate(t)
        PROVE  NothingInherited' /\ Zeroed'
    <2>1. Goto(t, "load", 0, 0) /\ value' = value /\ stored' = stored /\ owned' = owned
      BY <1>1 DEF Allocate, slots
    <2>2. thread'[t].pc = "load" /\ \A u \in Threads \ {t} : thread'[u] = thread[u]
      BY <1>t, <2>1, Moves
    <2> QED
      BY <1>s, <2>1, <2>2
  <1>2. ASSUME NEW t \in Threads,
               LoadTypeId(t) \/ TakeSlot(t) \/ LoseSlot(t) \/ (Writing(t) /\ ~ ZeroValue(t))
        PROVE  NothingInherited' /\ Zeroed'
    <2>1. value' = value /\ stored' = stored /\ owned' = owned
      BY <1>2 DEF LoadTypeId, TakeSlot, LoseSlot, Writing, WriteKeyLength, WriteByte, WriteLabelLength, ZeroValue,
             slots, history
    <2> QED
      BY <1>2, <1>s, <1>t, <2>1, Steps
  <1>3. ASSUME NEW t \in Threads, NoSlot(t)
        PROVE  NothingInherited' /\ Zeroed'
    <2>1. value' = value /\ stored' = stored /\ owned' = owned
      BY <1>3 DEF NoSlot, slots, history
    <2>2. thread'[t] = Idle /\ \A u \in Threads \ {t} : thread'[u] = thread[u]
      BY <1>3, <1>t, Returns DEF NoSlot
    <2> QED
      BY <1>s, <2>1, <2>2 DEF Idle
  \* the steps that store a zero
  <1>4. ASSUME NEW t \in Threads, ZeroValue(t) \/ ZeroFreed(t)
        PROVE  NothingInherited' /\ Zeroed'
    <2> DEFINE id == thread[t].id
    <2>1. value' = [value EXCEPT ![id] = 0] /\ stored' = stored /\ owned' = owned
      BY <1>4 DEF ZeroValue, ZeroFreed, history
    <2>2. /\ \A u \in Threads \ {t} : thread'[u] = thread[u]
          /\ thread'[t].pc = "publish" => thread'[t].id = id
      <3>1. CASE ZeroValue(t)
        BY <1>t, <3>1, Steps DEF Writing
      <3>2. CASE ZeroFreed(t)
        BY <1>t, <3>2, Returns DEF ZeroFreed, Idle
      <3> QED
        BY <1>4, <3>1, <3>2
    <2>3. id \in CounterIds
      BY <1>4, <1>t DEF ZeroValue, ZeroFreed, SlotStates, Filling
    <2>4. \A i \in CounterIds : value'[i] <= value[i] /\ value'[i] >= 0
      BY <1>u, <2>1
    <2>5. NothingInherited'
      BY <1>t, <1>u, <2>1, <2>3 DEF NothingInherited
    <2>6. Zeroed'
      BY <1>t, <1>u, <1>p, <2>1, <2>2, <2>3 DEF Zeroed
    <2> QED
      BY <2>5, <2>6
  <1>5. ASSUME NEW t \in Threads, Publish(t)
        PROVE  NothingInherited' /\ Zeroed'
    <2> DEFINE id == thread[t].id
    <2>1. /\ value' = value /\ stored' = [stored EXCEPT ![id] = 0]
          /\ owned' = [owned EXCEPT ![t] = owned[t] \cup {id}]
          /\ thread[t].pc = "publish"
      BY <1>5 DEF Publish
    <2>2. id \in CounterIds /\ value[id] = 0
      BY <1>p, <2>1
    <2>3. thread'[t] = Idle /\ \A u \in Threads \ {t} : thread'[u] = thread[u]
      BY <1>5, <1>t, Returns DEF Publish
    <2>4. NothingInherited'
      BY <1>t, <1>u, <2>1, <2>2 DEF NothingInherited
    <2>5. Zeroed'
      BY <1>t, <2>1, <2>3 DEF Zeroed, Idle
    <2> QED
      BY <2>4, <2>5
  \* the steps of an owner
  <1>6. ASSUME NEW t \in Threads, NEW id \in CounterIds, SetValue(t, id) \/ GetAndAdd(t, id)
        PROVE  NothingInherited' /\ Zeroed'
    <2>1. id \in owned[t] /\ thread[t] = Idle /\ thread' = thread /\ owned' = owned
      BY <1>6 DEF SetValue, GetAndAdd
    <2>2. PICK v \in Int, w \in Int :
            /\ value' = [value EXCEPT ![id] = v] /\ stored' = [stored EXCEPT ![id] = w]
            /\ v <= w
      <3>1. CASE SetValue(t, id)
        <4>1. PICK v \in 0 .. MaxValue :
                value' = [value EXCEPT ![id] = v] /\ stored' = [stored EXCEPT ![id] = v]
          BY <3>1 DEF SetValue
        <4>2. v \in Int /\ v <= v
          BY BoundsAssumption
        <4> QED
          BY <4>1, <4>2
      <3>2. CASE GetAndAdd(t, id)
        <4>1. value[id] <= stored[id] /\ value[id] \in Int /\ stored[id] \in Int
          BY <1>t, <1>u, <2>1, BoundsAssumption DEF NothingInherited
        <4>2. PICK n \in 1 .. MaxValue - stored[id] :
                /\ value' = [value EXCEPT ![id] = value[id] + n]
                /\ stored' = [stored EXCEPT ![id] = stored[id] + n]
          BY <3>2 DEF GetAndAdd
        <4>3. /\ value[id] + n \in Int /\ stored[id] + n \in Int
              /\ value[id] + n <= stored[id] + n
          BY <4>1, <4>2, BoundsAssumption
        <4> QED
          BY <4>2, <4>3
      <3> QED
        BY <1>6, <3>1, <3>2
    <2>3. NothingInherited'
      BY <1>t, <1>u, <2>1, <2>2 DEF NothingInherited
    <2>4. \A u \in Threads : thread[u].pc = "publish" => thread[u].id # id
      BY <1>t, <2>1 DEF HeldOnce, Holds, Idle, Filling
    <2>5. Zeroed'
      BY <1>t, <1>u, <1>p, <2>1, <2>2, <2>4 DEF Zeroed
    <2> QED
      BY <2>3, <2>5
  <1>7. ASSUME NEW t \in Threads, NEW id \in CounterIds, Free(t, id)
        PROVE  NothingInherited' /\ Zeroed'
    <2>1. /\ Goto(t, "free", id, 0) /\ value' = value /\ stored' = stored
          /\ owned' = [owned EXCEPT ![t] = owned[t] \ {id}]
      BY <1>7 DEF Free
    <2>2. thread'[t].pc = "free" /\ \A u \in Threads \ {t} : thread'[u] = thread[u]
      BY <1>t, <2>1, Moves
    <2>3. \A u \in Threads : owned'[u] \subseteq owned[u]
      BY <1>u, <2>1
    <2> QED
      BY <1>s, <2>1, <2>2, <2>3
  <1>8. CASE MonitorStep \/ UNCHANGED vars
    BY <1>8, <1>s DEF MonitorStep, MonitorTypeId, MonitorKeyLength, MonitorByte,
                      MonitorOffset, MonitorLabelLength, MonitorNext,
                      vars, slots, history
  <1> QED
    BY <1>1, <1>2, <1>3, <1>4, <1>5, <1>6, <1>7, <1>8 DEF Next, AllocateStep, OwnerStep, Writing

\* A search without an excuse keeps a free slot ahead of it.
LEMMA AheadNext == IInv /\ TypeOK' /\ [Next]_vars => Ahead'
  <1> SUFFICES ASSUME IInv, TypeOK', [Next]_vars
               PROVE  Ahead'
    OBVIOUS
  <1>t. TypeOK /\ Numbered /\ SlotStates /\ Ahead
    BY DEF IInv, Ownership, Monitored
  <1>u. /\ type_id \in [CounterIds -> Allocations \cup {FREE, NOT_FREE}]
        /\ CounterIds \subseteq Int
        /\ \A t \in Threads : thread[t].id \in Int
    BY <1>t, SlotsAssumption DEF TypeOK, CounterIds, ThreadState
  \* the steps after which no slot is less free and no search is farther
  <1>s. ASSUME \A id \in CounterIds : type_id[id] = FREE => type_id'[id] = FREE,
               excused' = excused,
               \A t \in Threads : Scanning(t)' => thread'[t] = thread[t]
        PROVE  Ahead'
    BY <1>s, <1>t DEF Ahead, Scanning
  <1>1. ASSUME NEW t \in Threads, Allocate(t)
        PROVE  Ahead'
    <2>1. /\ Goto(t, "load", 0, 0) /\ type_id' = type_id
          /\ t \in excused' \/ \E id \in CounterIds : type_id[id] = FREE
          /\ \A u \in Threads \ {t} : u \in excused' <=> u \in excused
      BY <1>1 DEF Allocate, slots
    <2>2. /\ thread'[t].id = 0
          /\ \A u \in Threads \ {t} : thread'[u] = thread[u]
      BY <1>t, <2>1, Moves
    <2>3. \A id \in CounterIds : 0 <= id
      BY SlotsAssumption DEF CounterIds
    <2> QED
      BY <1>t, <2>1, <2>2, <2>3 DEF Ahead, Scanning
  <1>2. ASSUME NEW t \in Threads, LoadTypeId(t) \/ LoseSlot(t)
        PROVE  Ahead'
    <2>1. /\ type_id' = type_id /\ excused' = excused
          /\ LoseSlot(t) => type_id[thread[t].id] # FREE
      BY <1>2 DEF LoadTypeId, LoseSlot, slots, history
    <2>2. thread'[t].id # thread[t].id => type_id[thread[t].id] # FREE
      <3>1. CASE LoadTypeId(t)
        <4>1. type_id[thread[t].id] = FREE => Goto(t, "cas", thread[t].id, 0)
          BY <3>1 DEF LoadTypeId
        <4> QED
          BY <1>t, <4>1, Moves
      <3> QED
        BY <1>2, <2>1, <3>1
    <2>3. /\ thread'[t].id \in {thread[t].id, thread[t].id + 1}
          /\ Scanning(t)
          /\ \A u \in Threads \ {t} : thread'[u] = thread[u]
      BY <1>2, <1>t, Steps DEF Scanning
    <2>4. ASSUME NEW u \in Threads, Scanning(u)', u \notin excused'
          PROVE  \E id \in CounterIds : thread'[u].id <= id /\ type_id[id] = FREE
      <3>1. CASE u = t
        <4>1. PICK id \in CounterIds : thread[t].id <= id /\ type_id[id] = FREE
          BY <1>t, <2>1, <2>3, <2>4, <3>1 DEF Ahead
        <4>2. thread'[t].id <= id
          BY <1>u, <2>2, <2>3, <4>1
        <4> QED
          BY <3>1, <4>1, <4>2
      <3>2. CASE u # t
        BY <1>t, <2>1, <2>3, <2>4, <3>2 DEF Ahead, Scanning
      <3> QED
        BY <3>1, <3>2
    <2> QED
      BY <2>1, <2>4 DEF Ahead
  <1>3. ASSUME NEW t \in Threads, TakeSlot(t)
        PROVE  Ahead'
    <2>1. excused' = excused \cup {u \in Threads \ {t} : Scanning(u)}
      BY <1>3 DEF TakeSlot
    <2>2. ~ Scanning(t)' /\ \A u \in Threads \ {t} : Scanning(u)' <=> Scanning(u)
      BY <1>3, <1>t, Steps DEF Scanning
    <2> QED
      BY <2>1, <2>2 DEF Ahead
  <1>4. ASSUME NEW t \in Threads, Writing(t)
        PROVE  Ahead'
    <2>1. type_id' = type_id /\ excused' = excused
      BY <1>4 DEF Writing, WriteKeyLength, WriteByte, WriteLabelLength, ZeroValue, history
    <2> QED
      BY <1>4, <1>s, <1>t, <2>1, Steps DEF Scanning, Filling
  <1>5. ASSUME NEW t \in Threads, NoSlot(t) \/ Publish(t) \/ ZeroFreed(t)
        PROVE  Ahead'
    <2>1. thread'[t] = Idle /\ \A u \in Threads \ {t} : thread'[u] = thread[u]
      BY <1>5, <1>t, Returns DEF NoSlot, Publish, ZeroFreed
    <2>2. Publish(t) => type_id[thread[t].id] # FREE
      BY <1>t DEF Publish, SlotStates, Filling, FREE, NOT_FREE
    <2>3. \A id \in CounterIds : type_id[id] = FREE => type_id'[id] = FREE
      <3>1. CASE Publish(t)
        BY <1>u, <2>2, <3>1 DEF Publish
      <3>2. CASE NoSlot(t) \/ ZeroFreed(t)
        BY <3>2 DEF NoSlot, ZeroFreed, slots
      <3> QED
        BY <1>5, <3>1, <3>2
    <2>4. excused' = excused
      BY <1>5 DEF NoSlot, Publish, ZeroFreed, history
    <2> QED
      BY <1>s, <2>1, <2>3, <2>4 DEF Scanning, Idle
  <1>6. ASSUME NEW t \in Threads, NEW id \in CounterIds, SetValue(t, id) \/ GetAndAdd(t, id)
        PROVE  Ahead'
    BY <1>6, <1>s DEF SetValue, GetAndAdd
  <1>7. ASSUME NEW t \in Threads, NEW id \in CounterIds, Free(t, id)
        PROVE  Ahead'
    <2>1. /\ Goto(t, "free", id, 0) /\ type_id' = [type_id EXCEPT ![id] = FREE]
          /\ excused' = excused
      BY <1>7 DEF Free
    <2>2. thread'[t].pc = "free" /\ \A u \in Threads \ {t} : thread'[u] = thread[u]
      BY <1>t, <2>1, Moves
    <2>3. \A i \in CounterIds : type_id[i] = FREE => type_id'[i] = FREE
      BY <1>u, <2>1
    <2> QED
      BY <1>s, <2>1, <2>2, <2>3 DEF Scanning
  <1>8. CASE MonitorStep \/ UNCHANGED vars
    BY <1>8, <1>s DEF MonitorStep, MonitorTypeId, MonitorKeyLength, MonitorByte,
                      MonitorOffset, MonitorLabelLength, MonitorNext,
                      vars, slots, history
  <1> QED
    BY <1>1, <1>2, <1>3, <1>4, <1>5, <1>6, <1>7, <1>8 DEF Next, AllocateStep, OwnerStep, Writing

\* Numbers are handed on: a new one with the slot, the old one to the type id.
LEMMA NumberedNext == IInv /\ TypeOK' /\ [Next]_vars => Numbered' /\ Watched'
  <1> SUFFICES ASSUME IInv, TypeOK', [Next]_vars
               PROVE  Numbered' /\ Watched'
    OBVIOUS
  <1>t. TypeOK /\ SlotStates /\ Numbered /\ Watched
    BY DEF IInv, Ownership, Monitored
  <1>u. /\ type_id \in [CounterIds -> Allocations \cup {FREE, NOT_FREE}]
        /\ monitor \in MonitorState /\ monitor.id \in CounterIds
        /\ allocations \in Nat
        /\ FREE = 0 /\ NOT_FREE = -1
    BY <1>t, BoundsAssumption DEF TypeOK, MonitorState, Numbers, Allocations, FREE, NOT_FREE
  \* the steps that hand on no number
  <1>s. ASSUME type_id' = type_id, allocations' = allocations, monitor' = monitor,
               \A t \in Threads : thread'[t].pc \in Filling =>
                 thread[t].pc \in Filling /\ thread'[t].allocation = thread[t].allocation
        PROVE  Numbered' /\ Watched'
    BY <1>s, <1>t DEF Numbered, Watched
  <1>1. ASSUME NEW t \in Threads, Allocate(t)
        PROVE  Numbered' /\ Watched'
    <2>1. /\ Goto(t, "load", 0, 0) /\ type_id' = type_id
          /\ allocations' = allocations /\ monitor' = monitor
      BY <1>1 DEF Allocate, slots
    <2>2. thread'[t].pc = "load" /\ \A u \in Threads \ {t} : thread'[u] = thread[u]
      BY <1>t, <2>1, Moves
    <2> QED
      BY <1>s, <2>1, <2>2 DEF Filling
  <1>2. ASSUME NEW t \in Threads, LoadTypeId(t) \/ LoseSlot(t) \/ Writing(t)
        PROVE  Numbered' /\ Watched'
    <2>1. type_id' = type_id /\ allocations' = allocations /\ monitor' = monitor
      BY <1>2 DEF LoadTypeId, LoseSlot, Writing, WriteKeyLength, WriteByte, WriteLabelLength,
                  ZeroValue, slots, history
    <2> QED
      BY <1>2, <1>s, <1>t, <2>1, Steps DEF Filling
  <1>3. ASSUME NEW t \in Threads, NoSlot(t) \/ ZeroFreed(t)
        PROVE  Numbered' /\ Watched'
    <2>1. type_id' = type_id /\ allocations' = allocations /\ monitor' = monitor
      BY <1>3 DEF NoSlot, ZeroFreed, slots, history
    <2>2. thread'[t] = Idle /\ \A u \in Threads \ {t} : thread'[u] = thread[u]
      BY <1>3, <1>t, Returns DEF NoSlot, ZeroFreed
    <2> QED
      BY <1>s, <2>1, <2>2 DEF Filling, Idle
  <1>4. ASSUME NEW t \in Threads, TakeSlot(t)
        PROVE  Numbered' /\ Watched'
    <2> DEFINE id == thread[t].id
    <2>1. /\ id \in CounterIds /\ type_id' = [type_id EXCEPT ![id] = NOT_FREE]
          /\ allocations' = allocations + 1 /\ monitor' = monitor
      BY <1>4, <1>t DEF TakeSlot, SlotStates
    <2>2. /\ thread'[t].pc = "key_length" /\ thread'[t].allocation = allocations + 1
          /\ \A u \in Threads \ {t} : thread'[u] = thread[u]
      BY <1>4, <1>t, Steps
    <2>3. \A i \in CounterIds : type_id'[i] = type_id[i] \/ type_id'[i] = NOT_FREE
      BY <1>u, <2>1
    <2>4. \A i \in CounterIds : type_id[i] <= allocations /\ type_id[i] \in Int
      BY <1>t, <1>u DEF Numbered, Allocations
    <2>5. \A i \in CounterIds : type_id'[i] <= allocations /\ type_id'[i] \in Int
      BY <1>u, <2>3, <2>4
    <2>6. \A u \in Threads \ {t} : thread[u].pc \in Filling => thread[u].allocation \in 1 .. allocations
      BY <1>t DEF Numbered
    <2>7. \A u \in Threads \ {t} : thread[u].pc \in Filling =>
            \A i \in CounterIds : type_id'[i] # thread[u].allocation
      <3>1. ASSUME NEW u \in Threads \ {t}, thread[u].pc \in Filling, NEW i \in CounterIds
            PROVE  type_id'[i] # thread[u].allocation
        <4>1. type_id[i] # thread[u].allocation /\ NOT_FREE # thread[u].allocation
          BY <1>t, <1>u, <2>6, <3>1 DEF Numbered
        <4> QED
          BY <2>3, <4>1
      <3> QED
        BY <3>1
    <2>8. Numbered'
      <3>1. \A i \in CounterIds : type_id'[i] <= allocations'
        BY <1>u, <2>1, <2>5
      <3>2. ASSUME NEW u \in Threads \ {t}, thread'[u].pc \in Filling
            PROVE  /\ thread'[u].allocation \in 1 .. allocations'
                   /\ thread'[u].allocation # allocations + 1
        BY <1>u, <2>1, <2>2, <2>6, <3>2
      <3>3. /\ thread'[t].allocation \in 1 .. allocations'
            /\ \A i \in CounterIds : type_id'[i] # thread'[t].allocation
        BY <1>u, <2>1, <2>2, <2>5
      <3>4. ASSUME NEW u \in Threads, NEW v \in Threads \ {u},
                   thread'[u].pc \in Filling, thread'[v].pc \in Filling
            PROVE  thread'[v].allocation # thread'[u].allocation
        BY <1>t, <2>2, <3>2, <3>4 DEF Numbered
      <3> QED
        BY <2>2, <2>7, <3>1, <3>2, <3>3, <3>4 DEF Numbered
    <2>9. Watched'
      BY <1>t, <1>u, <2>1, <2>2 DEF Watched
    <2> QED
      BY <2>8, <2>9
  <1>5. ASSUME NEW t \in Threads, Publish(t)
        PROVE  Numbered' /\ Watched'
    <2> DEFINE id == thread[t].id
               mine == thread[t].allocation
    <2>1. /\ thread[t].pc = "publish" /\ type_id' = [type_id EXCEPT ![id] = mine]
          /\ allocations' = allocations /\ monitor' = monitor
      BY <1>5 DEF Publish
    <2>2. thread'[t] = Idle /\ \A u \in Threads \ {t} : thread'[u] = thread[u]
      BY <1>5, <1>t, Returns DEF Publish
    <2>3. id \in CounterIds /\ mine \in 1 .. allocations
      BY <1>t, <2>1 DEF Numbered, SlotStates, Filling
    <2>4. type_id'[id] = mine /\ \A i \in CounterIds \ {id} : type_id'[i] = type_id[i]
      BY <1>u, <2>1, <2>3
    <2>5. \A u \in Threads \ {t} : thread[u].pc \in Filling => thread[u].allocation # mine
      BY <1>t, <2>1 DEF Numbered, Filling
    <2>6. Numbered'
      BY <1>t, <1>u, <2>1, <2>2, <2>3, <2>4, <2>5 DEF Numbered, Filling, Idle
    <2>7. Watched'
      BY <1>t, <2>1, <2>2 DEF Watched, Filling, Idle
    <2> QED
      BY <2>6, <2>7
  <1>6. ASSUME NEW t \in Threads, NEW id \in CounterIds, SetValue(t, id) \/ GetAndAdd(t, id)
        PROVE  Numbered' /\ Watched'
    BY <1>6, <1>s DEF SetValue, GetAndAdd
  <1>7. ASSUME NEW t \in Threads, NEW id \in CounterIds, Free(t, id)
        PROVE  Numbered' /\ Watched'
    <2>1. /\ Goto(t, "free", id, 0) /\ type_id' = [type_id EXCEPT ![id] = FREE]
          /\ allocations' = allocations /\ monitor' = monitor
      BY <1>7 DEF Free
    <2>2. thread'[t].pc = "free" /\ \A u \in Threads \ {t} : thread'[u] = thread[u]
      BY <1>t, <2>1, Moves
    <2>3. type_id'[id] = 0 /\ \A i \in CounterIds \ {id} : type_id'[i] = type_id[i]
      BY <1>u, <2>1
    <2>4. Numbered'
      BY <1>t, <1>u, <2>1, <2>2, <2>3 DEF Numbered, Filling
    <2>5. Watched'
      BY <1>t, <2>1, <2>2 DEF Watched, Filling
    <2> QED
      BY <2>4, <2>5
  <1>8. CASE MonitorStep
    <2>1. type_id' = type_id /\ allocations' = allocations /\ thread' = thread
      BY <1>8 DEF MonitorStep, MonitorTypeId, MonitorKeyLength, MonitorByte, MonitorOffset,
                  MonitorLabelLength, MonitorNext, slots, history
    <2>2. Numbered'
      BY <1>t, <2>1 DEF Numbered
    <2>3. \/ monitor'.pc = "idle"
          \/ monitor.pc # "idle" /\ monitor'.type = monitor.type
          \/ monitor'.type = type_id[monitor.id] /\ type_id[monitor.id] > 0
      BY <1>8, <1>u DEF MonitorStep, MonitorTypeId, MonitorKeyLength, MonitorByte, MonitorOffset,
                  MonitorLabelLength, MonitorNext, NotMonitoring, MonitorState
    <2>4. type_id[monitor.id] > 0 =>
            /\ type_id[monitor.id] \in 1 .. allocations
            /\ \A t \in Threads : thread[t].pc \in Filling => thread[t].allocation # type_id[monitor.id]
      BY <1>t, <1>u DEF Numbered, Allocations
    <2>5. Watched'
      BY <1>t, <2>1, <2>3, <2>4 DEF Watched
    <2> QED
      BY <2>2, <2>5
  <1>9. CASE UNCHANGED vars
    BY <1>9, <1>s DEF vars, slots, history
  <1> QED
    BY <1>1, <1>2, <1>3, <1>4, <1>5, <1>6, <1>7, <1>8, <1>9 DEF Next, AllocateStep, OwnerStep, Writing

\* Each slot keeps what was written to it until another thread has taken it.
LEMMA MetadataNext == IInv /\ TypeOK' /\ [Next]_vars => Metadata'
  <1> SUFFICES ASSUME IInv, TypeOK', [Next]_vars
               PROVE  Metadata'
    OBVIOUS
  <1>t. TypeOK /\ SlotStates /\ HeldOnce /\ Numbered /\ Metadata
    BY DEF IInv, Ownership, Monitored
  <1>u. /\ type_id \in [CounterIds -> Allocations \cup {FREE, NOT_FREE}]
        /\ key_length \in [CounterIds -> Lengths] /\ label_length \in [CounterIds -> Lengths]
        /\ text \in [CounterIds -> [Bytes -> Numbers]]
        /\ FREE = 0 /\ NOT_FREE = -1
    BY <1>t DEF TypeOK, FREE, NOT_FREE
  \* the steps that write and publish nothing
  <1>s. ASSUME metadata' = metadata,
               \A id \in CounterIds : type_id'[id] > 0 => type_id'[id] = type_id[id],
               \A t \in Threads : thread'[t].pc \in {"key", "label", "publish"} => thread'[t] = thread[t]
        PROVE  Metadata'
    BY <1>s DEF IInv, Monitored, Metadata, KeyWritten, LabelWritten, Complete, metadata
  <1>1. ASSUME NEW t \in Threads, Allocate(t)
        PROVE  Metadata'
    <2>1. Goto(t, "load", 0, 0) /\ type_id' = type_id /\ metadata' = metadata
      BY <1>1 DEF Allocate, slots
    <2>2. thread'[t].pc = "load" /\ \A u \in Threads \ {t} : thread'[u] = thread[u]
      BY <1>t, <2>1, Moves
    <2> QED
      BY <1>s, <2>1, <2>2
  <1>2. ASSUME NEW t \in Threads, LoadTypeId(t) \/ LoseSlot(t)
        PROVE  Metadata'
    <2>1. type_id' = type_id /\ metadata' = metadata
      BY <1>2 DEF LoadTypeId, LoseSlot, slots
    <2>2. thread'[t].pc \in {"cas", "load"} /\ \A u \in Threads \ {t} : thread'[u] = thread[u]
      BY <1>2, <1>t, Steps
    <2> QED
      BY <1>s, <2>1, <2>2
  <1>3. ASSUME NEW t \in Threads, NoSlot(t) \/ ZeroFreed(t)
        PROVE  Metadata'
    <2>1. type_id' = type_id /\ metadata' = metadata
      BY <1>3 DEF NoSlot, ZeroFreed, slots
    <2>2. thread'[t] = Idle /\ \A u \in Threads \ {t} : thread'[u] = thread[u]
      BY <1>3, <1>t, Returns DEF NoSlot, ZeroFreed
    <2> QED
      BY <1>s, <2>1, <2>2 DEF Idle
  <1>4. ASSUME NEW t \in Threads, TakeSlot(t)
        PROVE  Metadata'
    <2>1. metadata' = metadata /\ type_id' = [type_id EXCEPT ![thread[t].id] = NOT_FREE]
      BY <1>4 DEF TakeSlot
    <2>2. thread'[t].pc = "key_length" /\ \A u \in Threads \ {t} : thread'[u] = thread[u]
      BY <1>4, <1>t, Steps
    <2>3. \A i \in CounterIds : type_id'[i] = type_id[i] \/ type_id'[i] = -1
      BY <1>u, <2>1
    <2> QED
      BY <1>s, <2>1, <2>2, <2>3
  <1>5. ASSUME NEW t \in Threads, Writing(t)
        PROVE  Metadata'
    <2> DEFINE id == thread[t].id
               mine == thread[t].allocation
    <2>1. /\ thread[t].pc \in Filling /\ thread'[t].id = id /\ thread'[t].allocation = mine
          /\ \A u \in Threads \ {t} : thread'[u] = thread[u]
      BY <1>5, <1>t, Steps
    <2>2. /\ id \in CounterIds /\ type_id[id] = NOT_FREE /\ type_id' = type_id
          /\ \A u \in Threads \ {t} : thread[u].pc \in Filling => thread[u].id # id
      BY <1>5, <1>t, <2>1 DEF SlotStates, HeldOnce, Holds, Writing, WriteKeyLength, WriteByte,
                              WriteLabelLength, ZeroValue
    <2>3. \A i \in CounterIds \ {id} :
            key_length'[i] = key_length[i] /\ label_length'[i] = label_length[i] /\ text'[i] = text[i]
      BY <1>5, <1>u, <2>2 DEF Writing, WriteKeyLength, WriteByte, WriteLabelLength, ZeroValue, metadata
    <2>4. \A i \in CounterIds : type_id'[i] > 0 => Complete(i, type_id[i])'
      <3>1. ASSUME NEW i \in CounterIds, type_id'[i] > 0
            PROVE  i # id /\ Complete(i, type_id[i])
        BY <1>t, <1>u, <2>2, <3>1 DEF Metadata
      <3> QED
        BY <2>2, <2>3, <3>1 DEF Complete, KeyWritten, LabelWritten
    <2>5. ASSUME NEW u \in Threads \ {t}
          PROVE  /\ thread'[u].pc = "key" => KeyWritten(thread[u].id, thread[u].allocation, thread[u].left)'
                 /\ thread'[u].pc = "label" =>
                      /\ KeyWritten(thread[u].id, thread[u].allocation, {})'
                      /\ LabelWritten(thread[u].id, thread[u].allocation, thread[u].left)'
                 /\ thread'[u].pc = "publish" => Complete(thread[u].id, thread[u].allocation)'
      <3>1. thread'[u] = thread[u]
        BY <2>1
      <3>2. thread[u].pc \in Filling => thread[u].id \in CounterIds \ {id}
        BY <1>t, <2>2 DEF SlotStates
      <3> QED
        BY <1>t, <2>3, <3>1, <3>2 DEF Metadata, Filling, Complete, KeyWritten, LabelWritten
    <2>6. mine \in 1 .. MaxAllocations
      BY <1>t, <2>1, Mine
    <2>7. /\ thread'[t].pc = "key" => KeyWritten(id, mine, thread[t].left)'
          /\ thread'[t].pc = "label" =>
               /\ KeyWritten(id, mine, {})'
               /\ LabelWritten(id, mine, thread[t].left)'
          /\ thread'[t].pc = "publish" => Complete(id, mine)'
      <3> DEFINE left == thread[t].left
      <3>1. left \in SUBSET Bytes
        BY <1>t DEF TypeOK, ThreadState
      <3>2. CASE WriteKeyLength(t)
        <4>1. Copy(t, "key", BytesAt(0, KeyLength[mine])) /\ key_length' = [key_length EXCEPT ![id] = KeyLength[mine]]
          BY <3>2 DEF WriteKeyLength
        <4>2. thread'[t].pc = "key" /\ thread'[t].left = BytesAt(0, KeyLength[mine])
          BY <1>t, <2>6, <4>1, Fits, Copies DEF Filling
        <4>3. key_length'[id] = KeyLength[mine]
          BY <1>u, <2>2, <4>1
        <4> QED
          BY <2>1, <4>2, <4>3 DEF KeyWritten
      <3>3. CASE WriteByte(t)
        <4>1. PICK byte \in left : /\ text' = [text EXCEPT ![id][byte] = mine]
                                   /\ Copy(t, thread[t].pc, left \ {byte})
          BY <3>3 DEF WriteByte
        <4>2. /\ thread[t].pc \in {"key", "label"} /\ thread'[t].pc = thread[t].pc
              /\ thread'[t].left = left \ {byte}
          BY <1>t, <3>1, <3>3, <4>1, Copies DEF WriteByte, Filling
        <4>3. key_length' = key_length /\ label_length' = label_length
          BY <3>3 DEF WriteByte
        <4>4. text'[id][byte] = mine /\ \A b \in Bytes \ {byte} : text'[id][b] = text[id][b]
          BY <1>u, <2>2, <3>1, <4>1
        <4>5. BytesAt(0, KeyLength[mine]) \subseteq Bytes /\ BytesAt(KeyLength[mine], LabelLength[mine]) \subseteq Bytes
          BY <2>6, Fits
        <4>6. CASE thread[t].pc = "key"
          <5>1. KeyWritten(id, mine, left)
            BY <1>t, <4>6 DEF Metadata
          <5>2. KeyWritten(id, mine, left)'
            BY <2>1, <4>2, <4>3, <4>4, <4>5, <5>1 DEF KeyWritten
          <5> QED
            BY <4>2, <4>6, <5>2
        <4>7. CASE thread[t].pc = "label"
          <5>1. KeyWritten(id, mine, {}) /\ LabelWritten(id, mine, left)
            BY <1>t, <4>7 DEF Metadata
          <5>2. KeyWritten(id, mine, {})'
            BY <2>1, <4>3, <4>4, <4>5, <5>1 DEF KeyWritten
          <5>3. LabelWritten(id, mine, left)'
            BY <2>1, <4>2, <4>3, <4>4, <4>5, <5>1 DEF LabelWritten
          <5> QED
            BY <4>2, <4>7, <5>2, <5>3
        <4> QED
          BY <4>2, <4>6, <4>7
      <3>4. CASE WriteLabelLength(t)
        <4>1. /\ Copy(t, "label", BytesAt(KeyLength[mine], LabelLength[mine]))
              /\ label_length' = [label_length EXCEPT ![id] = LabelLength[mine]]
              /\ thread[t].pc = "key" /\ left = {} /\ text' = text /\ key_length' = key_length
          BY <3>4 DEF WriteLabelLength
        <4>2. thread'[t].pc = "label" /\ thread'[t].left = BytesAt(KeyLength[mine], LabelLength[mine])
          BY <1>t, <2>6, <4>1, Fits, Copies DEF Filling
        <4>3. label_length'[id] = LabelLength[mine] /\ KeyWritten(id, mine, {})
          BY <1>t, <1>u, <2>2, <4>1 DEF Metadata
        <4> QED
          BY <2>1, <4>1, <4>2, <4>3 DEF KeyWritten, LabelWritten
      <3>5. CASE ZeroValue(t)
        <4>1. Copy(t, "publish", {}) /\ thread[t].pc = "label" /\ left = {} /\ metadata' = metadata
          BY <3>5 DEF ZeroValue
        <4>2. thread'[t].pc = "publish"
          BY <1>t, <4>1, Copies DEF Filling
        <4>3. Complete(id, mine)
          BY <1>t, <4>1 DEF Metadata, Complete
        <4> QED
          BY <2>1, <4>1, <4>2, <4>3 DEF Complete, KeyWritten, LabelWritten, metadata
      <3> QED
        BY <1>5, <3>2, <3>3, <3>4, <3>5 DEF Writing
    <2> QED
      BY <2>1, <2>4, <2>5, <2>7 DEF Metadata, Complete, KeyWritten, LabelWritten
  <1>6. ASSUME NEW t \in Threads, Publish(t)
        PROVE  Metadata'
    <2> DEFINE id == thread[t].id
               mine == thread[t].allocation
    <2>1. /\ thread[t].pc = "publish" /\ type_id' = [type_id EXCEPT ![id] = mine] /\ metadata' = metadata
      BY <1>6 DEF Publish
    <2>2. thread'[t] = Idle /\ \A u \in Threads \ {t} : thread'[u] = thread[u]
      BY <1>6, <1>t, Returns DEF Publish
    <2>3. id \in CounterIds /\ Complete(id, mine)
      BY <1>t, <2>1 DEF Metadata, SlotStates, Filling
    <2>4. type_id'[id] = mine /\ \A i \in CounterIds \ {id} : type_id'[i] = type_id[i]
      BY <1>u, <2>1, <2>3
    <2> QED
      <3>1. \A i \in CounterIds : type_id'[i] > 0 => Complete(i, type_id'[i])
        BY <1>t, <2>3, <2>4 DEF Metadata
      <3>2. \A i \in CounterIds : type_id'[i] > 0 => Complete(i, type_id[i])'
        BY <2>1, <3>1 DEF Complete, KeyWritten, LabelWritten, metadata
      <3> QED
        <4>1. ASSUME NEW u \in Threads, u # t
              PROVE  /\ thread'[u].pc = "key" =>
                          KeyWritten(thread[u].id, thread[u].allocation, thread[u].left)'
                     /\ thread'[u].pc = "label" =>
                          /\ KeyWritten(thread[u].id, thread[u].allocation, {})'
                          /\ LabelWritten(thread[u].id, thread[u].allocation, thread[u].left)'
                     /\ thread'[u].pc = "publish" => Complete(thread[u].id, thread[u].allocation)'
          <5>1. thread'[u] = thread[u]
            BY <2>2, <4>1
          <5>2. /\ thread[u].pc = "key" =>
                     KeyWritten(thread[u].id, thread[u].allocation, thread[u].left)
                /\ thread[u].pc = "label" =>
                     /\ KeyWritten(thread[u].id, thread[u].allocation, {})
                     /\ LabelWritten(thread[u].id, thread[u].allocation, thread[u].left)
                /\ thread[u].pc = "publish" => Complete(thread[u].id, thread[u].allocation)
            BY <1>t, <4>1 DEF Metadata
          <5> QED
            BY <2>1, <5>1, <5>2 DEF Complete, KeyWritten, LabelWritten, metadata
        <4>2. thread'[t].pc = "idle"
          BY <2>2 DEF Idle
        <4> QED
          BY <3>2, <4>1, <4>2 DEF Metadata
  <1>7. ASSUME NEW t \in Threads, NEW id \in CounterIds, SetValue(t, id) \/ GetAndAdd(t, id)
        PROVE  Metadata'
    BY <1>7, <1>s DEF SetValue, GetAndAdd
  <1>8. ASSUME NEW t \in Threads, NEW id \in CounterIds, Free(t, id)
        PROVE  Metadata'
    <2>1. Goto(t, "free", id, 0) /\ type_id' = [type_id EXCEPT ![id] = FREE] /\ metadata' = metadata
      BY <1>8 DEF Free
    <2>2. thread'[t].pc = "free" /\ \A u \in Threads \ {t} : thread'[u] = thread[u]
      BY <1>t, <2>1, Moves
    <2>3. \A i \in CounterIds : type_id'[i] = type_id[i] \/ type_id'[i] = 0
      BY <1>u, <2>1
    <2> QED
      BY <1>s, <2>1, <2>2, <2>3
  <1>9. CASE MonitorStep \/ UNCHANGED vars
    BY <1>9, <1>s DEF MonitorStep, MonitorTypeId, MonitorKeyLength, MonitorByte, MonitorOffset,
                      MonitorLabelLength, MonitorNext, vars, slots
  <1> QED
    BY <1>1, <1>2, <1>3, <1>4, <1>5, <1>6, <1>7, <1>8, <1>9 DEF Next, AllocateStep, OwnerStep, Writing

\* What the monitor reads while the slot is not freed is the allocation's.
LEMMA CopiedNext == IInv /\ TypeOK' /\ [Next]_vars => Copied'
  <1> SUFFICES ASSUME IInv, TypeOK', [Next]_vars
               PROVE  Copied'
    OBVIOUS
  <1>t. TypeOK /\ SlotStates /\ Numbered /\ Metadata /\ Watched /\ Copied
    BY DEF IInv, Ownership, Monitored
  <1>u. /\ type_id \in [CounterIds -> Allocations \cup {FREE, NOT_FREE}]
        /\ monitor \in MonitorState /\ monitor.id \in CounterIds
        /\ FREE = 0 /\ NOT_FREE = -1
    BY <1>t DEF TypeOK, MonitorState, FREE, NOT_FREE
  \* the steps of the threads, which never bring back the type id the monitor saw
  <1>s. ASSUME monitor' = monitor,
               monitor.pc # "idle" /\ type_id'[monitor.id] = monitor.type =>
                 type_id[monitor.id] = monitor.type
        PROVE  Copied'
    BY <1>s, <1>t DEF Copied
  <1>1. ASSUME NEW t \in Threads, Allocate(t) \/ LoadTypeId(t) \/ LoseSlot(t) \/ NoSlot(t) \/ ZeroFreed(t) \/ Writing(t)
        PROVE  Copied'
    BY <1>1, <1>s DEF Allocate, LoadTypeId, LoseSlot, NoSlot, ZeroFreed, Writing, WriteKeyLength,
                      WriteByte, WriteLabelLength, ZeroValue, slots
  <1>2. ASSUME NEW t \in Threads, TakeSlot(t)
        PROVE  Copied'
    <2>1. /\ monitor' = monitor /\ type_id' = [type_id EXCEPT ![thread[t].id] = NOT_FREE]
      BY <1>2 DEF TakeSlot
    <2>2. type_id'[monitor.id] = type_id[monitor.id] \/ type_id'[monitor.id] = -1
      BY <1>u, <2>1
    <2>3. monitor.pc # "idle" => monitor.type # -1
      BY <1>t DEF Watched
    <2> QED
      BY <1>s, <2>1, <2>2, <2>3
  <1>3. ASSUME NEW t \in Threads, Publish(t)
        PROVE  Copied'
    <2>1. /\ monitor' = monitor /\ type_id' = [type_id EXCEPT ![thread[t].id] = thread[t].allocation]
          /\ thread[t].pc = "publish"
      BY <1>3 DEF Publish
    <2>2. type_id'[monitor.id] = type_id[monitor.id] \/ type_id'[monitor.id] = thread[t].allocation
      BY <1>u, <2>1
    <2>3. monitor.pc # "idle" => monitor.type # thread[t].allocation
      BY <1>t, <2>1 DEF Watched, Filling
    <2> QED
      BY <1>s, <2>1, <2>2, <2>3
  <1>4. ASSUME NEW t \in Threads, NEW id \in CounterIds, SetValue(t, id) \/ GetAndAdd(t, id)
        PROVE  Copied'
    BY <1>4, <1>s DEF SetValue, GetAndAdd
  <1>5. ASSUME NEW t \in Threads, NEW id \in CounterIds, Free(t, id)
        PROVE  Copied'
    <2>1. monitor' = monitor /\ type_id' = [type_id EXCEPT ![id] = FREE]
      BY <1>5 DEF Free
    <2>2. type_id'[monitor.id] = type_id[monitor.id] \/ type_id'[monitor.id] = 0
      BY <1>u, <2>1
    <2>3. monitor.pc # "idle" => monitor.type # 0
      BY <1>t DEF Watched
    <2> QED
      BY <1>s, <2>1, <2>2, <2>3
  \* the steps of the monitor
  <1>c. ASSUME monitor.pc # "idle", type_id[monitor.id] = monitor.type
        PROVE  /\ key_length[monitor.id] = KeyLength[monitor.type]
               /\ label_length[monitor.id] = LabelLength[monitor.type]
               /\ \A byte \in BytesAt(0, KeyLength[monitor.type]) : text[monitor.id][byte] = monitor.type
               /\ \A byte \in BytesAt(KeyLength[monitor.type], LabelLength[monitor.type]) :
                    text[monitor.id][byte] = monitor.type
               /\ BytesAt(0, KeyLength[monitor.type]) \subseteq Bytes
               /\ BytesAt(KeyLength[monitor.type], LabelLength[monitor.type]) \subseteq Bytes
    <2>1. type_id[monitor.id] > 0
      BY <1>t, <1>c DEF Watched
    <2>2. Complete(monitor.id, monitor.type)
      BY <1>t, <1>u, <1>c, <2>1 DEF Metadata
    <2>3. monitor.type \in 1 .. MaxAllocations
      <3>1. monitor.type \in Numbers
        BY <1>u DEF MonitorState
      <3> QED
        BY <1>c, <2>1, <3>1 DEF Numbers, Allocations
    <2> QED
      BY <2>2, <2>3, Fits DEF Complete, KeyWritten, LabelWritten
  <1>6. CASE MonitorTypeId
    <2>1. CASE type_id[monitor.id] > 0
      BY <1>6, <1>t, <1>u, <2>1 DEF MonitorTypeId, Copied, MonitorState
    <2>2. CASE ~ type_id[monitor.id] > 0
      BY <1>6, <2>2 DEF MonitorTypeId, Copied, NotMonitoring
    <2> QED
      BY <2>1, <2>2
  <1>7. CASE MonitorNext
    BY <1>7 DEF MonitorNext, Copied, NotMonitoring
  <1>8. CASE MonitorKeyLength \/ MonitorByte \/ MonitorOffset \/ MonitorLabelLength
    <2>1. /\ monitor.pc # "idle" /\ monitor'.pc # "idle" /\ type_id' = type_id
          /\ monitor'.id = monitor.id /\ monitor'.type = monitor.type
      BY <1>8, <1>u DEF MonitorKeyLength, MonitorByte, MonitorOffset, MonitorLabelLength, slots, MonitorState
    <2> SUFFICES ASSUME type_id[monitor.id] = monitor.type
                 PROVE  Copied'
      BY <2>1 DEF Copied
    <2>2. CASE MonitorKeyLength
      BY <1>t, <1>u, <1>c, <2>1, <2>2 DEF MonitorKeyLength, Copied, MonitorState
    <2>3. CASE MonitorByte
      <3>1. PICK byte \in monitor.left :
              monitor' = [monitor EXCEPT !.left = @ \ {byte},
                            !.read = @ \cup {IF byte \in Bytes THEN text[monitor.id][byte] ELSE 0}]
        BY <2>3 DEF MonitorByte
      <3>2. (IF byte \in Bytes THEN text[monitor.id][byte] ELSE 0) = monitor.type
        BY <1>t, <1>c, <2>1, <2>3 DEF MonitorByte, Copied
      <3>3. monitor'.left \subseteq monitor.left /\ monitor'.read = monitor.read \cup {monitor.type}
        BY <1>u, <3>1, <3>2 DEF MonitorState
      <3>4. /\ monitor'.pc = monitor.pc /\ monitor'.key_length = monitor.key_length
            /\ monitor'.offset = monitor.offset /\ monitor'.label_length = monitor.label_length
        BY <1>u, <3>1 DEF MonitorState
      <3> QED
        BY <1>t, <2>1, <3>3, <3>4 DEF Copied
    <2>4. CASE MonitorOffset
      BY <1>t, <1>u, <1>c, <2>1, <2>4 DEF MonitorOffset, Copied, MonitorState
    <2>5. CASE MonitorLabelLength
      BY <1>t, <1>u, <1>c, <2>1, <2>5 DEF MonitorLabelLength, Copied, MonitorState
    <2> QED
      BY <1>8, <2>2, <2>3, <2>4, <2>5
  <1>9. CASE UNCHANGED vars
    BY <1>9, <1>s DEF vars, slots
  <1> QED
    BY <1>1, <1>2, <1>3, <1>4, <1>5, <1>6, <1>7, <1>8, <1>9
       DEF Next, AllocateStep, OwnerStep, MonitorStep, Writing

-----------------------------------------------------------------------------
(* Theorems.                                                               *)

\* The invariant holds of every reachable state: who may write a slot, and whose
\* what it holds is, is decided by its type id.
THEOREM InvCorrect == Spec => []IInv
  <1>1. IInv /\ [Next]_vars => IInv'
    BY TypeNext, BudgetNext, OwnershipNext, ValuesNext, NumberedNext, MetadataNext, CopiedNext,
       AheadNext DEF IInv, Monitored
  <1> QED
    BY <1>1, InvInit, PTL DEF Spec

\* The variables have their types in every reachable state.
THEOREM TypeCorrect == Spec => []TypeOK
  <1>1. IInv => TypeOK
    BY DEF IInv
  <1> QED
    BY <1>1, InvCorrect, PTL

\* No two threads are ever given the same counter id.
THEOREM IdsAreUnique == Spec => []NoCollision
  <1>1. IInv => NoCollision
    BY DEF IInv, Ownership, SlotStates, HeldOnce, NoCollision, Holds, Filling, FREE, NOT_FREE
  <1> QED
    BY <1>1, InvCorrect, PTL

\* No counter ever shows more than its owner has made of it, although free()
\* zeroes the value of a slot that may have been given out again.
THEOREM CountersStartFresh == Spec => []NothingInherited
  <1>1. IInv => NothingInherited
    BY DEF IInv, Values
  <1> QED
    BY <1>1, InvCorrect, PTL

\* The lengths and the bytes the monitor reads after a type id are those of one
\* allocation, as long as the slot has not been freed.
THEOREM MetadataIsWhole == Spec => []MonitorSeesWholeCounter
  <1>1. IInv => MonitorSeesWholeCounter
    BY DEF IInv, Monitored, Copied, MonitorSeesWholeCounter, Seen
  <1> QED
    BY <1>1, InvCorrect, PTL

\* allocate() gives up only when all slots were taken or one was lost to
\* another thread.
THEOREM GivesUpWithReason == Spec => []NoSlotIsExcused
  <1>1. IInv => NoSlotIsExcused
    <2> SUFFICES ASSUME IInv, NEW t \in Threads, thread[t].pc = "load", thread[t].id = Slots,
                        t \notin excused
                 PROVE  FALSE
      BY DEF NoSlotIsExcused
    <2>1. PICK id \in CounterIds : Slots <= id
      BY DEF IInv, Ahead, Scanning
    <2> QED
      BY <2>1, SlotsAssumption DEF CounterIds
  <1> QED
    BY <1>1, InvCorrect, PTL
=============================================================================
