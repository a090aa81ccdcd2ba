----------------------------- MODULE TermImage ------------------------------
(***************************************************************************)
(* One term of a publication on its way to a subscriber on another host.   *)
(* TermScanner cuts the term into packets, the network loses, repeats and  *)
(* reorders them, TermRebuilder inserts what arrives into the subscriber's *)
(* image of the term, TermGapScanner finds what is missing, which is sent  *)
(* again or, by TermGapFiller, replaced by padding, and TermReader reads   *)
(* the image.  Who calls these functions is not in the repository: each    *)
(* has a thread of its own here.                                           *)
(*                                                                         *)
(* Offsets and lengths count FRAME_ALIGNMENT bytes, the size of a header.  *)
(***************************************************************************)
EXTENDS Integers, SequencesExt, FiniteSetsExt

CONSTANTS
    Frames,       \* the frames of the term, in order: [offset, length, type]
    MaxLengths,   \* the limits that a packet may have
    PayloadWord,  \* what a payload has where a frame could have its length
    ScanLength    \* ScansEndOnFrames looks at terms with frames up to this length

End(frame) == frame.offset + frame.length

\* Where the next frame begins.
EndOf(frames) == IF frames = <<>> THEN 0 ELSE End(Last(frames))

ASSUME FramesAssumption ==
    /\ Frames \in Seq([offset : Nat, length : Nat \ {0}, type : {"DATA", "PAD"}])
    /\ \A i \in DOMAIN Frames :
         Frames[i].offset = IF i = 1 THEN 0 ELSE End(Frames[i - 1])

ASSUME LimitsAssumption ==
    /\ MaxLengths \subseteq Nat
    /\ PayloadWord \in Int
    /\ ScanLength \in Nat

VARIABLES
    published,    \* how many frames of the publication are committed by now
    sender,       \* the offset up to which the publication was sent
    network,      \* the packets that were sent: each arrives never, once or again and again
    image,        \* the term of the image
    receiver,     \* insert(): its step and the packet
    high_mark,    \* the end of what was received so far
    scanner,      \* scan_for_gap(): its step and its variables
    gap,          \* what the GapHandler was told last
    filler,       \* try_fill_gap(): its step and its variables
    subscriber,   \* read(): its step and its variables
    received,     \* history: the frames that were inserted
    filled,       \* history: the offsets where gaps were filled
    delivered,    \* history: the frames that were handed over, 0 for anything else
    overlap       \* history: a gap was filled while data was inserted in it

history == <<received, filled, delivered, overlap>>
vars == <<published, sender, network, image, receiver, high_mark, scanner, gap,
          filler, subscriber, history>>

-----------------------------------------------------------------------------
(* The frames of the term.                                                  *)

\* The type of a word that was never written is 0, that of padding.
Empty == [length |-> 0, type |-> "PAD", frame |-> 0]
DefaultHeader == [length |-> 0, type |-> "DATA", frame |-> 0]

\* A term with some frames at its start: what is stored at each offset, and which
\* frame that belongs to.
TermOf(frames, capacity) ==
    [offset \in 0 .. capacity - 1 |->
       LET at == {i \in DOMAIN frames : offset \in frames[i].offset .. End(frames[i]) - 1}
           i  == CHOOSE i \in at : TRUE
       IN  IF at = {} THEN Empty
           ELSE IF offset = frames[i].offset
           THEN [length |-> frames[i].length, type |-> frames[i].type, frame |-> i]
           ELSE [length |-> PayloadWord, type |-> "DATA", frame |-> i]]

TermLength == EndOf(Frames)
Offsets == 0 .. TermLength - 1
Contents == TermOf(Frames, TermLength)

NoGap == [offset |-> 0, length |-> 0, found |-> {}]
Span(offset, length) == offset .. offset + length - 1
Overlapping(packet, g) == Span(packet.offset, packet.length) \cap Span(g.offset, g.length) # {}

FrameLength(term, offset) == IF offset \in DOMAIN term THEN term[offset].length ELSE 0

-----------------------------------------------------------------------------
(* The scans of the publication's term.                                     *)

\* How many bytes a packet from this offset can have, and how much padding
\* comes behind them; negative if the first frame is too long.
scan_for_availability(term, offset, max_length) ==
    LET scan[at \in Nat] ==
          LET length == FrameLength(term, at)
              available == at - offset
              Stop(needed) ==
                [available |-> IF available = 0 THEN -needed ELSE available, padding |-> 0]
          IN  IF length <= 0
              THEN [available |-> available, padding |-> 0]
              ELSE IF term[at].type = "PAD"
              THEN IF available + 1 > max_length THEN Stop(1)
                   ELSE [available |-> available + 1, padding |-> length - 1]
              ELSE IF available + length > max_length THEN Stop(length)
              ELSE scan[at + length]
    IN  scan[offset]

\* Mutant: padding at the start counts in full.
block_scan_whole_padding(term, term_offset, limit_offset) ==
    LET scan[at \in Nat] ==
          LET length == FrameLength(term, at)
          IN  IF at >= limit_offset \/ length <= 0 THEN at
              ELSE IF term[at].type = "PAD" /\ at # term_offset THEN at
              ELSE IF at + length > limit_offset THEN at
              ELSE scan[at + length]
    IN  scan[term_offset]

\* The end of the whole frames between two offsets.
block_scan(term, term_offset, limit_offset) ==
    LET scan[at \in Nat] ==
          LET length == FrameLength(term, at)
          IN  IF at >= limit_offset \/ length <= 0 THEN at
              ELSE IF term[at].type = "PAD"
              THEN IF at = term_offset THEN at + 1 ELSE at
              ELSE IF at + length > limit_offset THEN at
              ELSE scan[at + length]
    IN  scan[term_offset]

\* The publication's term with its first n frames.
Publication == [n \in 0 .. Len(Frames) |-> TermOf(SubSeq(Frames, 1, n), TermLength)]

Packet(offset, available) == [offset |-> offset, length |-> available]

\* The sender sends what the scan finds and goes on behind it.
Send(max_length) ==
    LET found == scan_for_availability(Publication[published], sender, max_length)
    IN  /\ found.available > 0
        /\ network' = network \cup {Packet(sender, found.available)}
        /\ sender' = sender + found.available + found.padding
        /\ UNCHANGED <<published, image, receiver, high_mark, scanner, gap, filler,
                       subscriber, history>>

\* The gap is reported back and sent again.
Resend(max_length) ==
    LET limit == IF gap.length < max_length THEN gap.length ELSE max_length
        found == scan_for_availability(Publication[published], gap.offset, limit)
    IN  /\ gap # NoGap
        /\ found.available > 0
        /\ network' = network \cup {Packet(gap.offset, found.available)}
        /\ UNCHANGED <<published, sender, image, receiver, high_mark, scanner, gap,
                       filler, subscriber, history>>

-----------------------------------------------------------------------------
(* The receiver: TermRebuilder::insert().                                   *)

Idle == [pc |-> "idle", offset |-> 0, length |-> 0]
Goto(thread, pc) == [thread EXCEPT !.pc = pc]

FramesIn(span) == {i \in DOMAIN Frames : Frames[i].offset \in Span(span.offset, span.length)}

\* A packet arrives.  It is skipped if its slot is taken.
Insert(packet) ==
    /\ receiver.pc = "idle"
    /\ packet \in network
    /\ \/ /\ image[packet.offset].length # 0
          /\ high_mark' = Max({high_mark, packet.offset + packet.length})
          /\ UNCHANGED <<receiver, overlap>>
       \/ /\ image[packet.offset].length = 0
          /\ receiver' = [pc |-> "copy", offset |-> packet.offset, length |-> packet.length]
          /\ overlap' = (overlap \/ (filler.pc \in {"type", "length"}
                                     /\ Overlapping(packet, filler)))
          /\ UNCHANGED high_mark
    /\ UNCHANGED <<published, sender, network, image, scanner, gap, filler, subscriber,
                   received, filled, delivered>>

\* The payload, with all frames but the first, and the header of the first up to
\* its length.
CopyPacket ==
    /\ receiver.pc = "copy"
    /\ receiver' = Goto(receiver, "publish")
    /\ image' = [offset \in Offsets |->
                   IF offset \notin Span(receiver.offset, receiver.length) THEN image[offset]
                   ELSE IF offset # receiver.offset THEN Contents[offset]
                   ELSE [Contents[offset] EXCEPT !.length = image[offset].length]]
    /\ UNCHANGED <<published, sender, network, high_mark, scanner, gap, filler,
                   subscriber, history>>

PublishLength ==
    /\ receiver.pc = "publish"
    /\ receiver' = Idle
    /\ image' = [image EXCEPT ![receiver.offset].length = Contents[receiver.offset].length]
    /\ high_mark' = Max({high_mark, receiver.offset + receiver.length})
    /\ received' = received \cup FramesIn(receiver)
    /\ UNCHANGED <<published, sender, network, scanner, gap, filler, subscriber,
                   filled, delivered, overlap>>

-----------------------------------------------------------------------------
(* The loss detection: TermGapScanner::scan_for_gap(), from where the       *)
(* subscriber is to the end of what was received.                           *)

Scan ==
    /\ scanner.pc = "idle"
    /\ subscriber.offset < high_mark
    /\ scanner' = [pc |-> "contiguous", offset |-> subscriber.offset, begin |-> 0,
                   limit |-> high_mark, received |-> received]
    /\ UNCHANGED <<published, sender, network, image, receiver, high_mark, gap, filler,
                   subscriber, history>>

\* Phase 1: the frames without a gap.
WalkFrames ==
    LET length == image[scanner.offset].length
    IN  /\ scanner.pc = "contiguous"
        /\ scanner' =
             IF scanner.offset >= scanner.limit
             THEN Goto(scanner, "idle")
             ELSE IF length <= 0
             THEN [scanner EXCEPT !.pc = "gap", !.begin = scanner.offset]
             ELSE [scanner EXCEPT !.offset = scanner.offset + length]
        /\ UNCHANGED <<published, sender, network, image, receiver, high_mark, gap,
                       filler, subscriber, history>>

\* Mutant: the gap ends at the limit only.
WalkGapToLimit ==
    LET length == scanner.offset - scanner.begin
    IN  /\ scanner.pc = "gap"
        /\ \/ /\ scanner.offset < scanner.limit
              /\ scanner' = [scanner EXCEPT !.offset = scanner.offset + 1]
              /\ UNCHANGED gap
           \/ /\ scanner.offset >= scanner.limit
              /\ scanner' = Goto(scanner, "idle")
              /\ gap' = IF length > 0
                        THEN [offset |-> scanner.begin, length |-> length,
                              found |-> scanner.received]
                        ELSE gap
        /\ UNCHANGED <<published, sender, network, image, receiver, high_mark, filler,
                       subscriber, history>>

\* Phase 2: to the next word that is not zero, or the limit.
WalkGap ==
    LET length == scanner.offset - scanner.begin
    IN  /\ scanner.pc = "gap"
        /\ \/ /\ scanner.offset < scanner.limit
              /\ image[scanner.offset].length = 0
              /\ scanner' = [scanner EXCEPT !.offset = scanner.offset + 1]
              /\ UNCHANGED gap
           \/ /\ scanner.offset >= scanner.limit \/ image[scanner.offset].length # 0
              /\ scanner' = Goto(scanner, "idle")
              /\ gap' = IF length > 0
                        THEN [offset |-> scanner.begin, length |-> length,
                              found |-> scanner.received]
                        ELSE gap
        /\ UNCHANGED <<published, sender, network, image, receiver, high_mark, filler,
                       subscriber, history>>

-----------------------------------------------------------------------------
(* TermGapFiller::try_fill_gap().                                           *)

\* Mutant: the check starts behind the gap.
FillFromBehind ==
    /\ filler.pc = "idle"
    /\ gap # NoGap
    /\ filler' = [pc |-> "check", offset |-> gap.offset, length |-> gap.length,
                  at |-> gap.offset + gap.length, received |-> received]
    /\ gap' = NoGap
    /\ UNCHANGED <<published, sender, network, image, receiver, high_mark, scanner,
                   subscriber, history>>

\* The data did not arrive in time.
Fill ==
    /\ filler.pc = "idle"
    /\ gap # NoGap
    /\ filler' = [pc |-> "check", offset |-> gap.offset, length |-> gap.length,
                  at |-> gap.offset + gap.length - 1, received |-> received]
    /\ gap' = NoGap
    /\ UNCHANGED <<published, sender, network, image, receiver, high_mark, scanner,
                   subscriber, history>>

\* Mutant: the first slot only is checked.
CheckFirstEmpty ==
    /\ filler.pc = "check"
    /\ filler' = Goto(filler, IF image[filler.offset].length # 0 THEN "idle" ELSE "header")
    /\ UNCHANGED <<published, sender, network, image, receiver, high_mark, scanner, gap,
                   subscriber, history>>

\* From the end of the gap to its start; data that arrived stops the filling.
CheckEmpty ==
    /\ filler.pc = "check"
    /\ filler' = IF FrameLength(image, filler.at) # 0 THEN Goto(filler, "idle")
                 ELSE IF filler.at = filler.offset THEN Goto(filler, "header")
                 ELSE [filler EXCEPT !.at = filler.at - 1]
    /\ UNCHANGED <<published, sender, network, image, receiver, high_mark, scanner, gap,
                   subscriber, history>>

ApplyDefaultHeader ==
    LET late == \/ receiver.pc # "idle" /\ Overlapping(receiver, filler)
                \/ FramesIn(filler) \cap (received \ filler.received) # {}
    IN  /\ filler.pc = "header"
        /\ filler' = Goto(filler, "type")
        /\ image' = [image EXCEPT ![filler.offset] = DefaultHeader]
        /\ overlap' = (overlap \/ late)
        /\ UNCHANGED <<published, sender, network, receiver, high_mark, scanner, gap,
                       subscriber, received, filled, delivered>>

\* The type, the term offset and the term id.
PadType ==
    /\ filler.pc = "type"
    /\ filler' = Goto(filler, "length")
    /\ image' = [image EXCEPT ![filler.offset].type = "PAD"]
    /\ UNCHANGED <<published, sender, network, receiver, high_mark, scanner, gap,
                   subscriber, history>>

PadLength ==
    /\ filler.pc = "length"
    /\ filler' = Goto(filler, "idle")
    /\ image' = [image EXCEPT ![filler.offset].length = filler.length]
    /\ filled' = filled \cup Span(filler.offset, filler.length)
    /\ UNCHANGED <<published, sender, network, receiver, high_mark, scanner, gap,
                   subscriber, received, delivered, overlap>>

-----------------------------------------------------------------------------
(* The subscriber: TermReader::read().                                      *)

\* The length of the next frame; read() returns where there is none.
ReadLength ==
    /\ subscriber.pc = "idle"
    /\ subscriber.offset < TermLength
    /\ image[subscriber.offset].length > 0
    /\ subscriber' = [subscriber EXCEPT !.pc = "type",
                                        !.length = image[subscriber.offset].length]
    /\ UNCHANGED <<published, sender, network, image, receiver, high_mark, scanner, gap,
                   filler, history>>

\* The frame whose header and payload this is.
FrameRead(offset, length) ==
    LET i == image[offset].frame
        whole == /\ i > 0 /\ offset = Frames[i].offset /\ length = Frames[i].length
                 /\ \A at \in Span(offset, length) : image[at].frame = i
    IN  IF whole THEN i ELSE 0

\* Padding is skipped, anything else is handed over.
ReadFrame ==
    LET offset == subscriber.offset
    IN  /\ subscriber.pc = "type"
        /\ subscriber' = [Idle EXCEPT !.offset = offset + subscriber.length]
        /\ delivered' = IF image[offset].type = "PAD" THEN delivered
                        ELSE Append(delivered, FrameRead(offset, subscriber.length))
        /\ UNCHANGED <<published, sender, network, image, receiver, high_mark, scanner,
                       gap, filler, received, filled, overlap>>

-----------------------------------------------------------------------------
Init ==
    /\ published \in 0 .. Len(Frames)
    /\ sender = 0
    /\ network = {}
    /\ image = [offset \in Offsets |-> Empty]
    /\ receiver = Idle
    /\ high_mark = 0
    /\ scanner = [pc |-> "idle", offset |-> 0, begin |-> 0, limit |-> 0, received |-> {}]
    /\ gap = NoGap
    /\ filler = [pc |-> "idle", offset |-> 0, length |-> 0, at |-> 0, received |-> {}]
    /\ subscriber = Idle
    /\ received = {}
    /\ filled = {}
    /\ delivered = <<>>
    /\ overlap = FALSE

InsertStep == CopyPacket \/ PublishLength
ScanStep == Scan \/ WalkFrames \/ WalkGap
FillStep == Fill \/ CheckEmpty \/ ApplyDefaultHeader \/ PadType \/ PadLength
ReadStep == ReadLength \/ ReadFrame

\* Nothing is promised, and a run ends, when data was inserted in a gap while it
\* was being filled.
Next ==
    /\ ~overlap
    /\ \/ \E max_length \in MaxLengths : Send(max_length) \/ Resend(max_length)
       \/ \E packet \in network : Insert(packet)
       \/ InsertStep
       \/ ScanStep
       \/ FillStep
       \/ ReadStep

Spec == Init /\ [][Next]_vars

\* Calls that have begun are finished, losses are looked for and what stays
\* missing is filled in the end, and the subscriber polls.  Nothing is assumed of
\* the publisher, the sender and the network.
Fairness == WF_vars(InsertStep) /\ WF_vars(ScanStep) /\ WF_vars(FillStep) /\ WF_vars(ReadStep)

FairSpec == Spec /\ Fairness

-----------------------------------------------------------------------------
(* Properties.                                                              *)

\* The subscriber is handed the stream: every data frame it has passed, once, in
\* order, whole and with the payload of its own, except the frames that a filled
\* gap has replaced.  Unless data was inserted in a gap while it was being filled,
\* which nothing in the code prevents if two threads do it.
ReadsTheStream ==
    LET passed == {i \in DOMAIN Frames : /\ Frames[i].type = "DATA"
                                         /\ Frames[i].offset < subscriber.offset
                                         /\ Frames[i].offset \notin filled}
    IN  \/ overlap
        \/ /\ Range(delivered) = passed
           /\ \A j, k \in DOMAIN delivered : j < k => delivered[j] < delivered[k]

\* What was received when the scan began is no gap: it is not asked for again,
\* and not filled.  A gap starts where a frame does, so that it can be asked for.
GapsAreMissing ==
    gap # NoGap /\ ~overlap =>
        /\ \A i \in gap.found : Frames[i].offset \notin Span(gap.offset, gap.length)
        /\ \E i \in DOMAIN Frames : Frames[i].offset = gap.offset

\* From any frame and for any limit: a packet holds the frames that fit, of
\* padding at its end the header only; a block ends in front of padding, unless it
\* starts there.  A frame that is claimed and not committed ends both.
ScansAre(frames, claimed) ==
    LET end == EndOf(frames)
        term == [TermOf(frames, end + 1) EXCEPT ![end].length = claimed]
    IN  \A i \in DOMAIN frames, limit \in 1 .. end + 1 :
          LET offset == frames[i].offset
              scan == scan_for_availability(term, offset, limit)
              fit == {j \in i .. Len(frames) : /\ \A k \in i .. j : frames[k].type = "DATA"
                                               /\ End(frames[j]) - offset <= limit}
              next == Max({i - 1} \cup fit) + 1
              data == IF fit = {} THEN 0 ELSE End(frames[next - 1]) - offset
              pads == next <= Len(frames) /\ frames[next].type = "PAD" /\ data < limit
          IN  /\ pads => /\ scan.available = data + 1
                         /\ scan.padding = frames[next].length - 1
              /\ ~pads => /\ IF data = 0 THEN scan.available < 0 ELSE scan.available = data
                          /\ scan.padding = 0
              /\ block_scan(term, offset, offset + limit) =
                   offset + IF frames[i].type = "PAD" THEN 1 ELSE data

\* Frames of these lengths and types, one behind the other.
Placed(shapes) ==
    LET at[i \in DOMAIN shapes] == IF i = 1 THEN 0 ELSE at[i - 1] + shapes[i - 1].length
    IN  [i \in DOMAIN shapes |->
           [offset |-> at[i], length |-> shapes[i].length, type |-> shapes[i].type]]

SoundCounts ==
    {n \in 0 .. Len(Frames) :
       \A shapes \in TupleOf([length : 1 .. ScanLength, type : {"DATA", "PAD"}], n),
          claimed \in {0, -1} : ScansAre(Placed(shapes), claimed)}

\* In every term with as many frames as the publication has, the scans of the
\* sender and of the archive find whole frames, and all that fit.
ScansEndOnFrames == published \in SoundCounts

\* Whatever is lost, the subscriber comes to the end of what was received: gaps
\* are filled by data or by padding.
CatchesUp == []<>(subscriber.offset >= high_mark \/ overlap)
=============================================================================
