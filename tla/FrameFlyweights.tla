-------------------------- MODULE FrameFlyweights ---------------------------
(***************************************************************************)
(* The frames between media drivers: where the flyweights of               *)
(* src/src/caeron/protocol keep their fields.  Everything on the network   *)
(* is little-endian, and so is every machine here.                         *)
(***************************************************************************)
EXTENDS Flyweights

U8(name, offset) == [name |-> name, offset |-> offset, size |-> 1]

HEADER_LENGTH == 8
CURRENT_VERSION == 0

HeaderFlyweight ==
    {I32("frame_length", 0), U8("version", 4), U8("flags", 5), I16("type", 6)}

-----------------------------------------------------------------------------
(* From a sender to the receivers.                                          *)

DataHeaderFlyweight ==
    Fixed(HeaderFlyweight \cup
          {I32("term_offset", 8), I32("session_id", 12), I32("stream_id", 16),
           I32("term_id", 20), I64("reserved_value", 24)}, 32)
SetupFlyweight ==
    Fixed(HeaderFlyweight \cup
          {I32("term_offset", 8), I32("session_id", 12), I32("stream_id", 16),
           I32("initial_term_id", 20), I32("active_term_id", 24),
           I32("term_length", 28), I32("mtu_length", 32), I32("ttl", 36)}, 40)

-----------------------------------------------------------------------------
(* From a receiver to the senders; round trips are measured both ways.      *)

ControlFields == HeaderFlyweight \cup {I32("session_id", 8), I32("stream_id", 12)}

StatusMessageFlyweight ==
    Fixed(ControlFields \cup
          {I32("consumption_term_id", 16), I32("consumption_term_offset", 20),
           I32("receiver_window", 24), I64("receiver_id", 28)}, 36)
GroupedStatusMessage ==
    Fixed(StatusMessageFlyweight.fields \cup {I64("group_tag", 36)}, 44)
NakFlyweight ==
    Fixed(ControlFields \cup
          {I32("term_id", 16), I32("term_offset", 20), I32("length", 24)}, 28)
RttMeasurementFlyweight ==
    Fixed(ControlFields \cup
          {I64("echo_timestamp", 16), I64("reception_delta", 24), I64("receiver_id", 32)}, 40)
ErrorFlyweight ==
    Variable(ControlFields \cup
             {I64("receiver_id", 16), I64("group_tag", 24), I32("error_code", 32)},
             <<"error_message">>, 36)
ResponseSetupFlyweight ==
    Fixed(ControlFields \cup {I32("response_session_id", 16)}, 20)
=============================================================================
