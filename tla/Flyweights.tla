----------------------------- MODULE Flyweights -----------------------------
(***************************************************************************)
(* The messages between the clients and the media driver: where every      *)
(* flyweight of src/src/caeron/command keeps its fields, and how a field   *)
(* is stored in and read from a buffer.  A byte is the value it is a part  *)
(* of and its number in that value, so a field that is read where another  *)
(* one was stored, or where an earlier message left its bytes, does not    *)
(* come out as the value that belongs there.                               *)
(***************************************************************************)
EXTENDS Integers, Sequences, FiniteSets, TLC

\* What f has and, apart from that, what g has: what TLC's own operator for this
\* does, in a form that the prover reads.
f ++ g == [x \in DOMAIN f \cup DOMAIN g |-> IF x \in DOMAIN f THEN f[x] ELSE g[x]]

Value(arg, num) == [arg |-> arg, num |-> num]
Byte(value, k) ==
    [value |-> value, k |-> IF value.arg \in {"zero", "old"} THEN 0 ELSE k]
Zero == Byte(Value("zero", 0), 0)
Old  == Byte(Value("old", 0), 0)   \* what an earlier message left behind

Put(buffer, offset, size, value) ==
    [i \in DOMAIN buffer |->
        IF i \in offset .. offset + size - 1 THEN Byte(value, i - offset) ELSE buffer[i]]

Inside(buffer, offset, size) == \A i \in offset .. offset + size - 1 : i \in DOMAIN buffer

Get(buffer, offset, size) ==
    IF size = 0 THEN Value("empty", 0)
    ELSE IF /\ Inside(buffer, offset, size)
            /\ \A k \in 0 .. size - 1 :
                  buffer[offset + k] = Byte(buffer[offset].value, k)
         THEN buffer[offset].value
         ELSE Value("garbage", 0)

SIZE_OF_INT == 4
Align(n, alignment) == ((n + alignment - 1) \div alignment) * alignment

-----------------------------------------------------------------------------
(* A layout: the fixed fields, the least length, and the variable parts,    *)
(* each a length field followed by its bytes.  The first length field is at *)
(* "from", the next one behind the aligned bytes of the part before it.     *)

I64(name, offset) == [name |-> name, offset |-> offset, size |-> 8]
I32(name, offset) == [name |-> name, offset |-> offset, size |-> 4]
I16(name, offset) == [name |-> name, offset |-> offset, size |-> 2]

Fixed(fields, minimum) ==
    [fields |-> fields, minimum |-> minimum, parts |-> <<>>, from |-> minimum,
     alignment |-> 1]
Variable(fields, parts, from) ==
    [fields |-> fields, minimum |-> from + SIZE_OF_INT, parts |-> parts,
     from |-> from, alignment |-> 1]

Names(layout) == {f.name : f \in layout.fields}
FieldOf(layout, name) == CHOOSE f \in layout.fields : f.name = name

\* The offset of the length field of the i-th part, for parts of these lengths.
LengthOffset(layout, lengths, i) ==
    IF i = 1 THEN layout.from
    ELSE layout.from + SIZE_OF_INT + Align(lengths[1], layout.alignment)

ComputeLength(layout, lengths) ==
    IF layout.parts = <<>> THEN layout.minimum
    ELSE LET n == Len(layout.parts)
         IN  LengthOffset(layout, lengths, n) + SIZE_OF_INT + lengths[n]

\* set_channel(), set_key_buffer(), set_label() and the like: the length, the
\* bytes, and zeroes up to the next length field.
\* Mutant: the bytes of the padding are left as they were.
SetPartUnpadded(buffer, layout, lengths, i) ==
    LET at == LengthOffset(layout, lengths, i)
    IN  Put(Put(buffer, at, SIZE_OF_INT, Value("length", lengths[i])),
            at + SIZE_OF_INT, lengths[i], Value(layout.parts[i], lengths[i]))
SetPart(buffer, layout, lengths, i) ==
    LET at  == LengthOffset(layout, lengths, i)
        end == at + SIZE_OF_INT + lengths[i]
        padding == IF i = Len(lengths) THEN 0
                   ELSE Align(lengths[i], layout.alignment) - lengths[i]
    IN  Put(Put(Put(buffer, at, SIZE_OF_INT, Value("length", lengths[i])),
                at + SIZE_OF_INT, lengths[i], Value(layout.parts[i], lengths[i])),
            end, padding, Zero.value)

SetParts(buffer, layout, lengths) ==
    CASE Len(lengths) = 0 -> buffer
      [] Len(lengths) = 1 -> SetPart(buffer, layout, lengths, 1)
      [] Len(lengths) = 2 ->
            SetPart(SetPart(buffer, layout, lengths, 1), layout, lengths, 2)

\* RemovePublicationFlyweight::set_revoke() keeps the other bits of the flags
\* it finds in the buffer; bit 0 is FLAG_REVOKE.
\* Mutant: the flag is set, and never cleared.
SetRevokeOnly(flags, revoke) == IF revoke THEN (flags \div 2) * 2 + 1 ELSE flags
SetRevoke(flags, revoke) == (flags \div 2) * 2 + IF revoke THEN 1 ELSE 0

REMOVE_PUBLICATION_LENGTH == 32
REMOVE_PUBLICATION_LEGACY_LENGTH == 24

-----------------------------------------------------------------------------
(* Commands, from a client to the driver.                                   *)

CorrelatedMessageFlyweight ==
    Fixed({I64("client_id", 0), I64("correlation_id", 8)}, 16)

Correlated == CorrelatedMessageFlyweight.fields

RemoveMessageFlyweight == Fixed(Correlated \cup {I64("registration_id", 16)}, 24)
RemoveCounterFlyweight == RemoveMessageFlyweight
RemoveSubscriptionFlyweight == Fixed(Correlated \cup {I64("registration_id", 16)}, 24)
RemovePublicationFlyweight ==
    Fixed(Correlated \cup {I64("registration_id", 16)}, REMOVE_PUBLICATION_LEGACY_LENGTH)
GetNextAvailableSessionIdMessageFlyweight ==
    Fixed(Correlated \cup {I32("stream_id", 16)}, 20)
DestinationByIdMessageFlyweight ==
    Fixed(Correlated \cup {I64("resource_registration_id", 16),
                           I64("destination_registration_id", 24)}, 32)
PublicationMessageFlyweight ==
    Variable(Correlated \cup {I32("stream_id", 16)}, <<"channel">>, 20)
SubscriptionMessageFlyweight ==
    Variable(Correlated \cup {I64("registration_correlation_id", 16), I32("stream_id", 24)},
             <<"channel">>, 28)
DestinationMessageFlyweight ==
    Variable(Correlated \cup {I64("registration_correlation_id", 16)}, <<"channel">>, 24)
TerminateDriverFlyweight == Variable(Correlated, <<"token">>, 16)
RejectImageFlyweight ==
    Variable(Correlated \cup {I64("image_correlation_id", 16), I64("position", 24)},
             <<"reason">>, 32)
CounterMessageFlyweight ==
    Variable(Correlated \cup {I32("type_id", 16)}, <<"key", "label">>, 20)
StaticCounterMessageFlyweight ==
    [Variable(Correlated \cup {I64("registration_id", 16), I32("type_id", 24)},
              <<"key", "label">>, 28)
        EXCEPT !.minimum = 36, !.alignment = SIZE_OF_INT]

-----------------------------------------------------------------------------
(* Responses and events, from the driver to every client.                   *)

ErrorResponseFlyweight ==
    Variable({I64("correlation_id", 0), I32("error_code", 8)}, <<"error_message">>, 12)
OperationSucceededFlyweight == Fixed({I64("correlation_id", 0)}, 8)
SubscriptionReadyFlyweight ==
    Fixed({I64("correlation_id", 0), I32("channel_status_counter_id", 8)}, 12)
CounterUpdateFlyweight == Fixed({I64("correlation_id", 0), I32("counter_id", 8)}, 12)
StaticCounterFlyweight == Fixed({I64("correlation_id", 0), I32("counter_id", 8)}, 12)
NextAvailableSessionIdFlyweight ==
    Fixed({I64("correlation_id", 0), I32("session_id", 8)}, 12)
ClientTimeoutFlyweight == Fixed({I64("client_id", 0)}, 8)
ImageMessageFlyweight ==
    Fixed({I64("correlation_id", 0), I64("subscription_registration_id", 8),
           I32("stream_id", 16)}, 20)
PublicationBuffersReadyFlyweight ==
    Variable({I64("correlation_id", 0), I64("registration_id", 8), I32("session_id", 16),
              I32("stream_id", 20), I32("position_counter_id", 24),
              I32("channel_status_counter_id", 28)}, <<"log_file_name">>, 32)
ImageBuffersReadyFlyweight ==
    Variable({I64("correlation_id", 0), I32("session_id", 8), I32("stream_id", 12),
              I64("subscription_registration_id", 16), I32("position_counter_id", 24)},
             <<"log_file_name", "source_identity">>, 28)
PublicationErrorFrameFlyweight ==
    Variable({I64("registration_id", 0), I64("destination_registration_id", 8),
              I32("session_id", 16), I32("stream_id", 20), I64("receiver_id", 24),
              I64("group_tag", 32), I16("address_type", 40), I16("udp_port", 42),
              [name |-> "address", offset |-> 44, size |-> 16],
              I32("error_code", 60)}, <<"error_message">>, 64)
=============================================================================
