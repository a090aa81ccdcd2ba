---------------------------- MODULE MessageCodec ----------------------------
(***************************************************************************)
(* How a message gets from the arguments of a method to the arguments of   *)
(* the handler at its other end, on each side where the driver talks:      *)
(* commands (DriverProxy to ClientCommandAdapter), events (ClientProxy to  *)
(* DriverEventsAdapter), the control frames of a ReceiveChannelEndpoint    *)
(* (to a SendChannelEndpoint) and the frames of a sender (to a             *)
(* ReceiveChannelEndpoint).  Messages are written one after the other into *)
(* a buffer that is never cleared, and whoever reads one checks its        *)
(* lengths first: other clients may be older or faulty, and so may be what *)
(* comes from the network.                                                 *)
(*                                                                         *)
(* What carries a message between the two (ManyToOneRingBuffer, Broadcast, *)
(* Transports) does not change it, so one message is in flight here.       *)
(***************************************************************************)
EXTENDS FrameFlyweights, FiniteSetsExt

CONSTANTS
    ScratchSize,     \* SCRATCH_BUFFER_SIZE
    PartLengths,     \* the lengths of channels, keys, labels and other parts
    ForeignLengths,  \* what a message of another client may hold as a length
    ForeignExtra     \* and by how much it is longer than the least length

\* An error frame has room in its buffer even without a message.
ASSUME SizesAssumption ==
    /\ ScratchSize \in Nat
    /\ ScratchSize >= ErrorFlyweight.minimum
    /\ PartLengths \subseteq Nat
    /\ ForeignLengths \subseteq Int
    /\ ForeignExtra \subseteq Int

VARIABLES
    side,      \* which of the four this is; they share no state
    scratch,   \* the scratch buffer of the one who writes
    wire,      \* the message in flight
    outcome    \* what the adapter, or the proxy that throws, is doing

codec == <<side, scratch, wire, outcome>>

Sides == {"commands", "events", "control", "data"}
Frames == side \in {"control", "data"}
None == [kind |-> "none"]

-----------------------------------------------------------------------------
(* The methods of the proxies: the type and the layout of the message and   *)
(* the argument that is stored in each field, by default the one of the     *)
(* field's name.                                                            *)

Method(type, layout, stored) ==
    [type |-> type, layout |-> layout,
     stored |-> [f \in Names(layout) |-> IF f \in DOMAIN stored THEN stored[f] ELSE f]]
AsNamed == [client_id |-> "client_id"]
Uncorrelated == [correlation_id |-> "null"]   \* NULL_VALUE

PublicationCommands ==
    {Method("ADD_PUBLICATION", PublicationMessageFlyweight, AsNamed),
     Method("ADD_EXCLUSIVE_PUBLICATION", PublicationMessageFlyweight, AsNamed),
     Method("REMOVE_PUBLICATION", RemovePublicationFlyweight, AsNamed)}

SubscriptionCommands ==
    {Method("ADD_SUBSCRIPTION", SubscriptionMessageFlyweight,
            [registration_correlation_id |-> "null"]),
     Method("REMOVE_SUBSCRIPTION", RemoveSubscriptionFlyweight, AsNamed)}

DestinationCommands ==
    {Method(type, DestinationMessageFlyweight,
            [registration_correlation_id |-> "registration_id"])
        : type \in {"ADD_DESTINATION", "REMOVE_DESTINATION",
                    "ADD_RCV_DESTINATION", "REMOVE_RCV_DESTINATION"}}
    \cup {Method("REMOVE_DESTINATION_BY_ID", DestinationByIdMessageFlyweight, AsNamed)}

CounterCommands ==
    {Method("ADD_COUNTER", CounterMessageFlyweight, AsNamed),
     Method("REMOVE_COUNTER", RemoveCounterFlyweight, AsNamed)}

StaticCounterCommands ==
    {Method("ADD_STATIC_COUNTER", StaticCounterMessageFlyweight, AsNamed)}

LifecycleCommands ==
    {Method("CLIENT_CLOSE", CorrelatedMessageFlyweight, Uncorrelated),
     Method("TERMINATE_DRIVER", TerminateDriverFlyweight, Uncorrelated),
     Method("REJECT_IMAGE", RejectImageFlyweight, AsNamed)}

SessionCommands ==
    {Method("GET_NEXT_AVAILABLE_SESSION_ID",
            GetNextAvailableSessionIdMessageFlyweight, AsNamed),
     Method("CLIENT_KEEPALIVE", CorrelatedMessageFlyweight, Uncorrelated)}

Commands == PublicationCommands \cup SubscriptionCommands \cup DestinationCommands
            \cup CounterCommands \cup StaticCounterCommands
            \cup LifecycleCommands \cup SessionCommands

ReadyEvents ==
    {Method("ON_ERROR", ErrorResponseFlyweight, AsNamed),
     Method("ON_PUBLICATION_READY", PublicationBuffersReadyFlyweight, AsNamed),
     Method("ON_EXCLUSIVE_PUBLICATION_READY", PublicationBuffersReadyFlyweight, AsNamed),
     Method("ON_SUBSCRIPTION_READY", SubscriptionReadyFlyweight, AsNamed),
     Method("ON_OPERATION_SUCCESS", OperationSucceededFlyweight, AsNamed)}

ImageEvents ==
    {Method("ON_AVAILABLE_IMAGE", ImageBuffersReadyFlyweight, AsNamed),
     Method("ON_UNAVAILABLE_IMAGE", ImageMessageFlyweight, [stream_id |-> "zero"])}

CounterEvents ==
    {Method("ON_COUNTER_READY", CounterUpdateFlyweight, AsNamed),
     Method("ON_UNAVAILABLE_COUNTER", CounterUpdateFlyweight,
            [correlation_id |-> "registration_id"]),
     Method("ON_CLIENT_TIMEOUT", ClientTimeoutFlyweight, AsNamed),
     Method("ON_STATIC_COUNTER", StaticCounterFlyweight, AsNamed),
     Method("ON_NEXT_AVAILABLE_SESSION_ID", NextAvailableSessionIdFlyweight, AsNamed)}

\* Without an address the sixteen bytes are set to zero.
PublicationErrors ==
    {Method("ON_PUBLICATION_ERROR", PublicationErrorFrameFlyweight, [address |-> a])
        : a \in {"address", "zero"}}

Events == ReadyEvents \cup ImageEvents \cup CounterEvents \cup PublicationErrors

\* send_status_message() and its like.  The version is 0, the bits of the flags are
\* those of the argument and, of a round trip, whether it is a reply.
ControlFrames ==
    LET plain == [version |-> "zero", flags |-> "zero"]
    IN  {Method("SM", layout, [version |-> "zero"])
           : layout \in {StatusMessageFlyweight, GroupedStatusMessage}}
        \cup {Method("NAK", NakFlyweight, plain),
              Method("RTTM", RttMeasurementFlyweight, [plain EXCEPT !.flags = "is_reply"]),
              Method("ERR", ErrorFlyweight, [group_tag |-> "zero"] ++ plain),
              Method("RSP_SETUP", ResponseSetupFlyweight, plain)}

\* What a sender writes, with the flyweights.
DataFrames ==
    {Method("DATA", DataHeaderFlyweight, [version |-> "zero"]),
     Method("SETUP", SetupFlyweight, [version |-> "zero"]),
     Method("RTTM", RttMeasurementFlyweight, [version |-> "zero", flags |-> "is_reply"])}

Methods == CASE side = "commands" -> Commands [] side = "events" -> Events
             [] side = "control" -> ControlFrames [] side = "data" -> DataFrames

-----------------------------------------------------------------------------
(* The cases of the adapters: the parameters of the handler and the field   *)
(* or the part that each is read from, and whether an error of the command  *)
(* (or the filter of the event) uses the correlation id of the message.     *)

Same(names) == [n \in names |-> n]
Case(layout, read, correlated) ==
    [layout |-> layout, read |-> read, correlated |-> correlated]

PublicationCases == [
    ADD_PUBLICATION |-> Case(PublicationMessageFlyweight,
        Same({"channel", "stream_id", "correlation_id", "client_id"}), TRUE),
    ADD_EXCLUSIVE_PUBLICATION |-> Case(PublicationMessageFlyweight,
        Same({"channel", "stream_id", "correlation_id", "client_id"}), TRUE),
    REMOVE_PUBLICATION |-> Case(RemovePublicationFlyweight,
        Same({"registration_id", "correlation_id"}), TRUE)]

SubscriptionCases == [
    ADD_SUBSCRIPTION |-> Case(SubscriptionMessageFlyweight,
        Same({"channel", "stream_id", "correlation_id", "client_id"}), TRUE),
    REMOVE_SUBSCRIPTION |-> Case(RemoveSubscriptionFlyweight,
        Same({"registration_id", "correlation_id"}), TRUE)]

DestinationCases ==
    [type \in {"ADD_DESTINATION", "REMOVE_DESTINATION",
               "ADD_RCV_DESTINATION", "REMOVE_RCV_DESTINATION"} |->
        Case(DestinationMessageFlyweight,
             Same({"channel", "correlation_id"})
                ++ [registration_id |-> "registration_correlation_id"], TRUE)]

ClientCases == [
    CLIENT_KEEPALIVE |-> Case(CorrelatedMessageFlyweight, Same({"client_id"}), FALSE),
    CLIENT_CLOSE |-> Case(CorrelatedMessageFlyweight, Same({"client_id"}), FALSE)]

CounterCases == [
    ADD_COUNTER |-> Case(CounterMessageFlyweight,
        Same({"type_id", "key", "label", "correlation_id", "client_id"}), TRUE),
    REMOVE_COUNTER |-> Case(RemoveCounterFlyweight,
        Same({"registration_id", "correlation_id"}), TRUE),
    TERMINATE_DRIVER |-> Case(TerminateDriverFlyweight, Same({"token"}), FALSE),
    ADD_STATIC_COUNTER |-> Case(StaticCounterMessageFlyweight,
        Same({"type_id", "key", "label", "registration_id", "correlation_id",
              "client_id"}), TRUE)]

ImageCases == [
    REJECT_IMAGE |-> Case(RejectImageFlyweight,
        Same({"correlation_id", "image_correlation_id", "position", "reason"}), TRUE),
    REMOVE_DESTINATION_BY_ID |-> Case(DestinationByIdMessageFlyweight,
        Same({"resource_registration_id", "destination_registration_id",
              "correlation_id"}), TRUE),
    GET_NEXT_AVAILABLE_SESSION_ID |->
        Case(GetNextAvailableSessionIdMessageFlyweight,
             Same({"correlation_id", "stream_id"}), TRUE)]

CommandCases == PublicationCases ++ SubscriptionCases ++ DestinationCases
                ++ ClientCases ++ CounterCases ++ ImageCases

ReadyCases == [
    ON_ERROR |-> Case(ErrorResponseFlyweight,
        Same({"correlation_id", "error_code", "error_message"}), FALSE),
    ON_AVAILABLE_IMAGE |-> Case(ImageBuffersReadyFlyweight,
        Same({"correlation_id", "subscription_registration_id", "session_id",
              "position_counter_id", "log_file_name", "source_identity"}), FALSE)]
    ++ [type \in {"ON_PUBLICATION_READY", "ON_EXCLUSIVE_PUBLICATION_READY"} |->
        Case(PublicationBuffersReadyFlyweight,
             Same({"correlation_id", "registration_id", "stream_id", "session_id",
                   "position_counter_id", "channel_status_counter_id",
                   "log_file_name"}), TRUE)]

AnswerCases == [
    ON_SUBSCRIPTION_READY |-> Case(SubscriptionReadyFlyweight,
        Same({"correlation_id", "channel_status_counter_id"}), TRUE),
    ON_OPERATION_SUCCESS |-> Case(OperationSucceededFlyweight,
        Same({"correlation_id"}), TRUE),
    ON_UNAVAILABLE_IMAGE |-> Case(ImageMessageFlyweight,
        Same({"correlation_id", "subscription_registration_id"}), FALSE),
    ON_COUNTER_READY |-> Case(CounterUpdateFlyweight,
        Same({"correlation_id", "counter_id"}), TRUE),
    ON_UNAVAILABLE_COUNTER |-> Case(CounterUpdateFlyweight,
        [registration_id |-> "correlation_id", counter_id |-> "counter_id"], FALSE),
    ON_CLIENT_TIMEOUT |-> Case(ClientTimeoutFlyweight, Same({"client_id"}), TRUE)]

LateCases == [
    ON_STATIC_COUNTER |-> Case(StaticCounterFlyweight,
        Same({"correlation_id", "counter_id"}), TRUE),
    ON_PUBLICATION_ERROR |-> Case(PublicationErrorFrameFlyweight,
        Same(Names(PublicationErrorFrameFlyweight) \cup {"error_message"}), FALSE),
    ON_NEXT_AVAILABLE_SESSION_ID |-> Case(NextAvailableSessionIdFlyweight,
        Same({"correlation_id", "session_id"}), TRUE)]

EventCases == ReadyCases ++ AnswerCases ++ LateCases

\* dispatch_control_frame() looks at the ids only, and for a publication that has
\* them; of the rest of each frame it wants to be there what its type has at least.
ControlCases ==
    [type \in {"SM", "NAK", "RTTM", "ERR", "RSP_SETUP"} |->
        LET least == [SM |-> 36, NAK |-> 28, RTTM |-> 40, ERR |-> 40, RSP_SETUP |-> 20]
        IN  Case(Fixed(ControlFields, least[type]), Same({"session_id", "stream_id"}), TRUE)]

\* parse_data_header(), parse_setup_header() and parse_rtt_measurement().
DataCases == [
    DATA |-> Case(DataHeaderFlyweight,
        Same({"frame_length", "flags", "term_offset", "session_id", "stream_id",
              "term_id"}), FALSE),
    SETUP |-> Case(SetupFlyweight,
        Same({"session_id", "stream_id", "initial_term_id", "active_term_id",
              "term_length", "mtu_length", "ttl"}), FALSE),
    RTTM |-> Case(RttMeasurementFlyweight,
        Same({"session_id", "stream_id", "echo_timestamp", "reception_delta",
              "receiver_id"}) ++ [is_reply |-> "flags"], FALSE)]

Cases == CASE side = "commands" -> CommandCases [] side = "events" -> EventCases
           [] side = "control" -> ControlCases [] side = "data" -> DataCases

-----------------------------------------------------------------------------
(* Writing a message.                                                       *)

StoreFields(buffer, method) ==
    [i \in DOMAIN buffer |->
        LET at == {f \in method.layout.fields : i \in f.offset .. f.offset + f.size - 1}
        IN  IF at = {} THEN buffer[i]
            ELSE LET f == CHOOSE f \in at : TRUE
                 IN  Byte(Value(method.stored[f.name], 0), i - f.offset)]

RemovesPublication(type) == type = "REMOVE_PUBLICATION"

\* An error message that is too long for its buffer is cut off.
Truncated(method, lengths) ==
    [i \in DOMAIN lengths |->
        IF Frames THEN Min({lengths[i], ScratchSize - method.layout.minimum}) ELSE lengths[i]]

MessageLength(method, lengths) ==
    IF RemovesPublication(method.type) THEN REMOVE_PUBLICATION_LENGTH
    ELSE ComputeLength(method.layout, lengths)

\* Where the flags of remove_publication are, and which bytes of them an earlier
\* message has left something in.
FlagBytes == REMOVE_PUBLICATION_LEGACY_LENGTH .. REMOVE_PUBLICATION_LENGTH - 1
FlagsLeft(buffer) == {i \in FlagBytes : buffer[i] # Zero}

\* What the flags may hold before the method stores its own: bit 0, and bit 1 for
\* the 63 others.
StaleFlags(buffer) == IF FlagsLeft(buffer) = {} THEN {0} ELSE 0 .. 3

\* The flags of remove_publication are read, one bit of them is changed and they
\* are stored again: where an earlier message left something, 63 bits of it stay.
Encode(buffer, method, lengths, flags, revoke) ==
    LET stored == SetParts(StoreFields(buffer, method), method.layout, lengths)
    IN  IF RemovesPublication(method.type)
        THEN Put(stored, REMOVE_PUBLICATION_LEGACY_LENGTH, 8,
                 Value(IF FlagsLeft(buffer) = {} THEN "flags" ELSE "old",
                       SetRevoke(flags, revoke)))
        ELSE IF Frames
        THEN Put(stored, 0, SIZE_OF_INT,
                 Value("frame_length", ComputeLength(method.layout, lengths)))
        ELSE stored

\* After the message is gone its bytes are those of an earlier message.
Aged(buffer) == [i \in DOMAIN buffer |-> IF buffer[i] = Zero THEN Zero ELSE Old]

\* The arguments as the handler should see them.
Arguments(method, lengths, revoke) ==
    [a \in {method.stored[f] : f \in Names(method.layout)} |->
        Value(a, IF a = "frame_length" THEN ComputeLength(method.layout, lengths) ELSE 0)]
    ++ [revoke |-> Value("revoke", IF revoke THEN 1 ELSE 0)]
    ++ [a \in {method.layout.parts[i] : i \in DOMAIN lengths} |->
          LET i == CHOOSE i \in DOMAIN lengths : method.layout.parts[i] = a
          IN  IF lengths[i] = 0 THEN Value("empty", 0) ELSE Value(a, lengths[i])]

Message(type, bytes, arguments) ==
    [kind |-> "message", type |-> type, bytes |-> bytes, arguments |-> arguments]

\* A method of a proxy: the id is taken, the length is compared with the
\* scratch buffer, the fields are stored and the message is offered to the
\* ring (which may be full: the method throws, the scratch buffer stays
\* written) or to the broadcast buffer (which may refuse: nobody is told).  A frame
\* may be lost, as may the exception that tells of it.
Send ==
    /\ wire = None /\ outcome = None
    /\ \E method \in Methods, revoke \in BOOLEAN :
       \E asked \in [DOMAIN method.layout.parts -> PartLengths],
          flags \in StaleFlags(scratch) :
       LET lengths == Truncated(method, asked)
           n       == MessageLength(method, lengths)
           written == Encode(scratch, method, lengths, flags, revoke)
           message == Message(method.type, [i \in 0 .. n - 1 |-> written[i]],
                              Arguments(method, lengths, revoke))
       IN  /\ RemovesPublication(method.type) \/ (~revoke /\ flags = 0)
           /\ IF n > ScratchSize
              THEN /\ outcome' = [kind |-> "thrown"]
                   /\ UNCHANGED <<scratch, wire>>
              ELSE /\ scratch' = Aged(written)
                   /\ \/ /\ wire' = message
                         /\ UNCHANGED outcome
                      \/ /\ outcome' = [kind |-> "thrown"]
                         /\ UNCHANGED wire
    /\ UNCHANGED side

\* A message that another client or another driver wrote: any type, a length
\* around the least one of its type, and any numbers as lengths inside.  In a frame
\* the first word is the length it claims to have, and the version may be another.
ForeignBytes(layout, n, lengths) ==
    LET blank  == [i \in 0 .. n - 1 |-> Byte(Value("foreign", 0), i)]
        stored == [f \in Names(layout) |-> f]
        fields == StoreFields(blank, [layout |-> layout, stored |-> stored])
        first  == IF lengths = <<>> THEN fields
                  ELSE Put(fields, layout.from, SIZE_OF_INT, Value("length", lengths[1]))
    IN  IF Len(lengths) < 2 \/ lengths[1] < 0 THEN first
        ELSE Put(first, LengthOffset(layout, lengths, 2), SIZE_OF_INT,
                 Value("length", lengths[2]))

ForeignFrame(layout, n, claimed, version) ==
    Put(Put(ForeignBytes(layout, n, <<>>), 0, SIZE_OF_INT, Value("frame_length", claimed)),
        4, 1, IF version = CURRENT_VERSION THEN Value("zero", 0) ELSE Value("version", version))

Foreign ==
    /\ wire = None /\ outcome = None
    /\ \/ wire' = Message("UNKNOWN", <<>>, None)
       \/ \E type \in DOMAIN Cases, extra \in ForeignExtra :
             LET layout == Cases[type].layout
                 n == layout.minimum + extra
             IN  IF Frames
                 THEN \E claimed \in ForeignLengths \cup {n - 1, n, n + 1}, version \in 0 .. 1 :
                        wire' = Message(type, ForeignFrame(layout, n, claimed, version), None)
                 ELSE \E lengths \in [DOMAIN layout.parts -> ForeignLengths] :
                        wire' = Message(type, ForeignBytes(layout, n, lengths), None)
    /\ UNCHANGED <<side, scratch, outcome>>

-----------------------------------------------------------------------------
(* Reading a message.                                                       *)

NumberAt(bytes, offset) == Get(bytes, offset, SIZE_OF_INT).num

\* The i-th part and what has to follow it end inside the message.
\* Mutant: the room for the next length field is not counted.
PartEndsInside(layout, lengths, i, n) ==
    lengths[i] \in 0 .. n - LengthOffset(layout, lengths, i) - SIZE_OF_INT
PartFits(layout, lengths, i, n) ==
    LET room == n - LengthOffset(layout, lengths, i) - SIZE_OF_INT
    IN  /\ lengths[i] >= 0
        /\ IF i < Len(layout.parts)
           THEN Align(lengths[i], layout.alignment) + SIZE_OF_INT <= room
           ELSE lengths[i] <= room

\* The length fields that are read, one after the other.
LengthsRead(layout, bytes, n) ==
    IF n < layout.minimum \/ layout.parts = <<>> THEN <<>>
    ELSE LET first == <<NumberAt(bytes, layout.from)>>
         IN  IF Len(layout.parts) = 1 \/ ~PartFits(layout, first, 1, n) THEN first
             ELSE Append(first, NumberAt(bytes, LengthOffset(layout, first, 2)))

\* is_valid_frame(): a claimed length of 0 is a heartbeat.
ValidFrame(bytes, n) ==
    /\ n >= HEADER_LENGTH
    /\ Get(bytes, 4, 1).num = CURRENT_VERSION
    /\ NumberAt(bytes, 0) \in {0} \cup HEADER_LENGTH .. n

Accepted(layout, lengths, n) ==
    /\ n >= layout.minimum
    /\ Len(lengths) = Len(layout.parts)
    /\ \A i \in DOMAIN lengths : PartFits(layout, lengths, i, n)

PartNumber(layout, name) == {i \in DOMAIN layout.parts : layout.parts[i] = name}

\* Where a field or a part begins and how long it is.
Extent(layout, lengths, name) ==
    IF PartNumber(layout, name) = {}
    THEN LET f == FieldOf(layout, name) IN <<f.offset, f.size>>
    ELSE LET i == CHOOSE i \in PartNumber(layout, name) : TRUE
         IN  <<LengthOffset(layout, lengths, i) + SIZE_OF_INT, lengths[i]>>

\* RemovePublicationFlyweight::revoke(message_length)
Revoke(bytes, n) ==
    Value("revoke", IF n < REMOVE_PUBLICATION_LENGTH THEN 0
                    ELSE Get(bytes, REMOVE_PUBLICATION_LEGACY_LENGTH, 8).num % 2)

HandlerArguments(type, case, lengths, bytes, n) ==
    [p \in DOMAIN case.read |->
        LET e == Extent(case.layout, lengths, case.read[p]) IN Get(bytes, e[1], e[2])]
    ++ IF RemovesPublication(type) THEN [revoke |-> Revoke(bytes, n)]
       ELSE [a \in {} |-> None]

\* The type and the ids are read before the length of their type is known.
HeaderRead(n) == {h \in {HEADER_LENGTH} \cup (IF side = "control" THEN {16} ELSE {}) : n >= h}

\* One past the last byte that is looked at.
ReadUpTo(type, case, lengths, n, accepted) ==
    Max({0} \cup {LengthOffset(case.layout, lengths, i) + SIZE_OF_INT : i \in DOMAIN lengths}
        \cup (IF accepted
              THEN {LET e == Extent(case.layout, lengths, case.read[p]) IN e[1] + e[2]
                      : p \in DOMAIN case.read}
              ELSE {})
        \cup (IF RemovesPublication(type) /\ n >= REMOVE_PUBLICATION_LENGTH
              THEN {REMOVE_PUBLICATION_LENGTH} ELSE {})
        \cup (IF Frames THEN HeaderRead(n) ELSE {}))

\* dispatch() of ClientCommandAdapter and of DriverEventsAdapter.  A message
\* that does not fit is answered by the driver with MALFORMED_COMMAND, and
\* dropped by a client; a handler of the driver may throw, which is answered
\* with GENERIC; an answer to a command that the client is not waiting for is
\* dropped.  Frames that are not valid, or too short for their type, are dropped, and
\* those for which there is no publication.
Dispatch ==
    /\ wire # None /\ wire.type \in DOMAIN Cases
    /\ LET case     == Cases[wire.type]
           n        == Cardinality(DOMAIN wire.bytes)
           lengths  == LengthsRead(case.layout, wire.bytes, n)
           accepted == /\ Frames => ValidFrame(wire.bytes, n)
                       /\ Accepted(case.layout, lengths, n)
           seen     == [upto |-> ReadUpTo(wire.type, case, lengths, n, accepted),
                        length |-> n, sent |-> wire.arguments]
       IN  \/ /\ accepted
              /\ outcome' = [kind |-> "handled", seen |-> seen,
                   read |-> HandlerArguments(wire.type, case, lengths, wire.bytes, n)]
           \/ /\ ~accepted
              /\ outcome' = [kind |-> IF side = "commands" THEN "malformed" ELSE "dropped", seen |-> seen]
           \/ /\ accepted
              /\ side # "commands" => case.correlated
              /\ outcome' = [kind |-> IF side = "commands" THEN "generic" ELSE "filtered", seen |-> seen]
    /\ wire' = None
    /\ UNCHANGED <<side, scratch>>

\* Any other type is answered by the driver with UNKNOWN_COMMAND for the
\* correlation id 0, and ignored by the others.
DispatchUnknown ==
    /\ wire # None /\ wire.type \notin DOMAIN Cases
    /\ outcome' = [kind |-> IF side = "commands" THEN "unknown" ELSE "ignored",
                   seen |-> [upto |-> 0, length |-> Cardinality(DOMAIN wire.bytes),
                             sent |-> wire.arguments]]
    /\ wire' = None
    /\ UNCHANGED <<side, scratch>>

\* The method, the handler or the error callback returns.
Return ==
    /\ outcome # None
    /\ outcome' = None
    /\ UNCHANGED <<side, scratch, wire>>

CodecInit ==
    /\ side \in Sides
    /\ scratch = [i \in 0 .. ScratchSize - 1 |-> Zero]
    /\ wire = None
    /\ outcome = None

CodecNext ==
    \/ Send
    \/ Foreign
    \/ Dispatch
    \/ DispatchUnknown
    \/ Return

CodecSpec == CodecInit /\ [][CodecNext]_codec

-----------------------------------------------------------------------------
(* Properties.                                                              *)

\* A message of a proxy is never refused, and its handler gets exactly the
\* arguments of the method: no field is read where another was stored, and
\* nothing of an earlier, longer message shows through - neither behind a part
\* without bytes nor in the flags of remove_publication, which are read back
\* from the scratch buffer.
ArgumentsArrive ==
    outcome.kind \in {"handled", "malformed", "dropped", "unknown", "ignored"} /\ outcome.seen.sent # None =>
        /\ outcome.kind = "handled"
        /\ \A p \in DOMAIN outcome.read :
              outcome.read[p] = IF p = "address" /\ "zero" \in DOMAIN outcome.seen.sent
                                THEN Zero.value ELSE outcome.seen.sent[p]

\* Whatever lengths a message holds, the adapters never look at a byte behind
\* its end, where the ring or the broadcast buffer has the next record.
ReadsInside == outcome.kind \notin {"none", "thrown"} => outcome.seen.upto <= outcome.seen.length

\* What is in a byte, or some bits of it, an earlier message has left there.
Stale(byte) == byte.value.arg = "old"

\* What an earlier message left in the scratch buffer leaves the process in one
\* place only, the eight bytes of the flags of remove_publication: set_revoke()
\* keeps 63 bits of them.  In every other byte of every message, the zeroes
\* behind a part among them, nothing stale is sent.
NothingStaleSent ==
    wire # None =>
        \A i \in DOMAIN wire.bytes :
            Stale(wire.bytes[i]) => RemovesPublication(wire.type) /\ i \in FlagBytes
=============================================================================
