-------------------------- MODULE TermImage_proofs --------------------------
(***************************************************************************)
(* The term and its image for frames of any number, lengths and types, any *)
(* limits of the packets and any payload: the subscriber reads the stream, *)
(* what the scanner reports as a gap is one, and the scans of the sender   *)
(* and of the archive find whole frames.                                   *)
(*                                                                         *)
(* Behind the first two is where a reader can come to when it goes from    *)
(* one length to the next: padding and gaps begin only there, and no       *)
(* packet with a free slot goes over such a place.                         *)
(***************************************************************************)
EXTENDS TermImage, NaturalsInduction, WellFoundedInduction, TLAPS

\* Where a frame starts and ends, and where it ends in a packet: of padding only the
\* header is sent.
Start(i) == Frames[i].offset
Finish(i) == End(Frames[i])
WireEnd(i) == IF Frames[i].type = "PAD" THEN Start(i) + 1 ELSE Finish(i)

Boundaries == {Start(i) : i \in DOMAIN Frames} \cup {TermLength}

-----------------------------------------------------------------------------
(* The frames of the term.                                                 *)

\* A set of numbers that has 0, and the next of each, has all.
LEMMA EveryNumber ==
  ASSUME NEW S, 0 \in S, \A n \in Nat : n \in S => n + 1 \in S
  PROVE  \A n \in Nat : n \in S
<1>1. SUFFICES ASSUME NEW d \in Nat, d \notin S PROVE FALSE
  OBVIOUS
<1> DEFINE D == {n \in Nat : n \notin S}
<1>2. D \in SUBSET Nat /\ D # {}
  BY <1>1
<1> HIDE DEF D
<1>3. PICK k \in D : \A n \in D : ~ (<< n, k >> \in OpToRel(<, Nat))
  BY <1>2, NatLessThanWellFounded, WFMin
<1>4. k \in Nat /\ k \notin S
  BY <1>3 DEF D
<1>5. k - 1 \in Nat
  BY <1>4
<1>6. k - 1 \notin S
  BY <1>4, <1>5
<1>7. k - 1 \in D
  BY <1>5, <1>6 DEF D
<1>8. << k - 1, k >> \in OpToRel(<, Nat)
  BY <1>4, <1>5 DEF OpToRel
<1> QED BY <1>3, <1>7, <1>8

\* Frames that lie one behind the other from the start of a term.
Laid(frames, n) ==
  /\ n \in Nat
  /\ frames \in [1 .. n -> [offset : Nat, length : Nat \ {0}, type : {"DATA", "PAD"}]]
  /\ \A i \in 1 .. n : frames[i].offset = IF i = 1 THEN 0 ELSE End(frames[i - 1])

\* One of them.
LEMMA LaidFrame ==
  ASSUME NEW frames, NEW n, Laid(frames, n), NEW i \in 1 .. n
  PROVE  /\ n \in Nat /\ i \in Nat \ {0} /\ i <= n
         /\ frames[i].offset \in Nat /\ frames[i].length \in Nat \ {0}
         /\ frames[i].type \in {"DATA", "PAD"}
         /\ End(frames[i]) \in Nat /\ End(frames[i]) = frames[i].offset + frames[i].length
         /\ i < n => i + 1 \in 1 .. n /\ frames[i + 1].offset = End(frames[i])
<1>1. n \in Nat /\ i \in Nat \ {0} /\ i <= n
  BY DEF Laid
<1>2. frames[i] \in [offset : Nat, length : Nat \ {0}, type : {"DATA", "PAD"}]
  BY DEF Laid
<1>3. End(frames[i]) \in Nat /\ End(frames[i]) = frames[i].offset + frames[i].length
  BY <1>2 DEF End
<1>4. ASSUME i < n PROVE i + 1 \in 1 .. n /\ frames[i + 1].offset = End(frames[i])
  <2>1. PICK j \in 1 .. n : j = i + 1
    BY <1>1, <1>4
  <2>2. j # 1 /\ j - 1 = i
    BY <1>1, <2>1
  <2> QED BY <2>1, <2>2 DEF Laid
<1> QED BY <1>1, <1>2, <1>3, <1>4

\* They are apart.
LEMMA LaidInOrder ==
  ASSUME NEW frames, NEW n, Laid(frames, n), NEW i \in 1 .. n, NEW j \in 1 .. n, i < j
  PROVE  End(frames[i]) <= frames[j].offset
<1> DEFINE S == {d \in Nat : i + 1 + d \in 1 .. n => End(frames[i]) <= frames[i + 1 + d].offset}
<1>1. i \in Nat \ {0} /\ j \in Nat /\ n \in Nat /\ End(frames[i]) \in Nat
  BY LaidFrame
<1>2. 0 \in S
  <2>1. SUFFICES ASSUME i + 1 \in 1 .. n PROVE End(frames[i]) <= frames[i + 1].offset
    BY <1>1
  <2>2. i < n
    BY <1>1, <2>1
  <2>3. frames[i + 1].offset = End(frames[i])
    BY <2>2, LaidFrame
  <2> QED BY <1>1, <2>3
<1>3. ASSUME NEW d \in Nat, d \in S PROVE d + 1 \in S
  <2>1. SUFFICES ASSUME i + 1 + (d + 1) \in 1 .. n
                 PROVE  End(frames[i]) <= frames[i + 1 + (d + 1)].offset
    OBVIOUS
  <2>2. PICK k \in 1 .. n : k = i + 1 + d /\ k < n /\ k + 1 = i + 1 + (d + 1)
    BY <1>1, <2>1
  <2>3. End(frames[i]) <= frames[k].offset
    BY <1>3, <2>2
  <2>4. /\ frames[k].offset \in Nat /\ frames[k].length \in Nat
        /\ End(frames[k]) = frames[k].offset + frames[k].length
        /\ frames[k + 1].offset = End(frames[k])
    BY <2>2, LaidFrame
  <2>5. PICK a \in Nat, b \in Nat, l \in Nat :
          a = End(frames[i]) /\ b = frames[k].offset /\ l = frames[k].length
    BY <1>1, <2>4
  <2>6. a <= b /\ frames[k + 1].offset = b + l
    BY <2>3, <2>4, <2>5
  <2>7. End(frames[i]) <= frames[k + 1].offset
    BY <2>5, <2>6
  <2> QED BY <2>2, <2>7
<1> HIDE DEF S
<1>4. \A d \in Nat : d \in S
  BY <1>2, <1>3, EveryNumber
<1>5. j - i - 1 \in Nat /\ i + 1 + (j - i - 1) = j
  BY <1>1
<1> QED BY <1>4, <1>5 DEF S

\* The frames end where the last one does.
LEMMA LaidEnd ==
  ASSUME NEW frames, NEW n, Laid(frames, n), n # 0
  PROVE  /\ n \in 1 .. n /\ EndOf(frames) = End(frames[n]) /\ EndOf(frames) \in Nat
         /\ Len(frames) = n /\ DOMAIN frames = 1 .. n
         /\ \A i \in 1 .. n : End(frames[i]) <= EndOf(frames)
<1>1. n \in 1 .. n /\ n \in Nat
  BY DEF Laid
<1>2. PICK F : F = [offset : Nat, length : Nat \ {0}, type : {"DATA", "PAD"}]
  OBVIOUS
<1>3. frames \in [1 .. n -> F]
  BY <1>2 DEF Laid
<1>4. Len(frames) = n /\ DOMAIN frames = 1 .. n /\ frames # << >>
  BY <1>1, <1>3
<1>5. EndOf(frames) = End(frames[n])
  BY <1>4 DEF EndOf, Last
<1>6. End(frames[n]) \in Nat
  BY <1>1, LaidFrame
<1>7. ASSUME NEW i \in 1 .. n PROVE End(frames[i]) <= End(frames[n])
  <2>1. CASE i = n
    BY <1>6, <2>1
  <2>2. CASE i < n
    <3>1. End(frames[i]) <= frames[n].offset
      BY <1>1, <2>2, LaidInOrder
    <3>2. /\ frames[n].offset \in Nat /\ frames[n].length \in Nat /\ End(frames[i]) \in Nat
          /\ End(frames[n]) = frames[n].offset + frames[n].length
      BY <1>1, LaidFrame
    <3>3. PICK a \in Nat, b \in Nat, l \in Nat :
            a = End(frames[i]) /\ b = frames[n].offset /\ l = frames[n].length
      BY <3>2
    <3>4. a <= b + l
      BY <3>1, <3>3
    <3> QED BY <3>2, <3>3, <3>4
  <2> QED BY <1>1, <2>1, <2>2
<1> QED BY <1>1, <1>4, <1>5, <1>6, <1>7

\* What FramesAssumption says of one frame.
LEMMA FrameTypes ==
  ASSUME NEW i \in DOMAIN Frames
  PROVE  /\ i \in 1 .. Len(Frames) /\ Len(Frames) \in Nat
         /\ Start(i) \in Nat /\ Frames[i].length \in Nat \ {0}
         /\ Frames[i].type \in {"DATA", "PAD"}
         /\ Finish(i) \in Nat /\ Finish(i) = Start(i) + Frames[i].length
         /\ WireEnd(i) \in Nat /\ Start(i) < WireEnd(i) /\ WireEnd(i) <= Finish(i)
<1>1. PICK S : S = [offset : Nat, length : Nat \ {0}, type : {"DATA", "PAD"}]
  OBVIOUS
<1>2. Frames \in Seq(S)
  BY <1>1, FramesAssumption
<1>3. i \in 1 .. Len(Frames) /\ Len(Frames) \in Nat /\ Frames[i] \in S
  BY <1>2
<1>4. Start(i) \in Nat /\ Frames[i].length \in Nat \ {0} /\ Frames[i].type \in {"DATA", "PAD"}
  BY <1>1, <1>3 DEF Start
<1>5. PICK s \in Nat, l \in Nat \ {0} : s = Start(i) /\ l = Frames[i].length
  BY <1>4
<1>6. Finish(i) = s + l
  BY <1>5 DEF Finish, End, Start
<1>7. WireEnd(i) \in Nat /\ s < WireEnd(i) /\ WireEnd(i) <= s + l
  BY <1>4, <1>5, <1>6 DEF WireEnd
<1> QED BY <1>3, <1>4, <1>5, <1>6, <1>7

\* The numbers of the frames.
LEMMA FrameNumbers == DOMAIN Frames = 1 .. Len(Frames) /\ Len(Frames) \in Nat
  BY FramesAssumption

\* Each frame begins where the one before it ends.
LEMMA FrameNext ==
  ASSUME NEW i \in DOMAIN Frames
  PROVE  /\ i = 1 => Start(i) = 0
         /\ i # 1 => i - 1 \in DOMAIN Frames /\ Start(i) = Finish(i - 1)
<1>1. Frames[i].offset = IF i = 1 THEN 0 ELSE End(Frames[i - 1])
  BY FramesAssumption
<1> QED BY <1>1, FrameNumbers DEF Start, Finish

\* And so they are apart.
LEMMA FramesInOrder ==
  ASSUME NEW i \in DOMAIN Frames, NEW j \in DOMAIN Frames, i < j
  PROVE  Finish(i) <= Start(j)
<1>1. DOMAIN Frames = 1 .. Len(Frames) /\ Len(Frames) \in Nat
  BY FrameNumbers
<1>2. PICK F : F = [offset : Nat, length : Nat \ {0}, type : {"DATA", "PAD"}]
  OBVIOUS
<1>3. Frames \in [1 .. Len(Frames) -> F]
  <2>1. Frames \in Seq(F)
    BY <1>2, FramesAssumption
  <2> QED BY <2>1
<1>4. Laid(Frames, Len(Frames))
  <2>1. \A k \in 1 .. Len(Frames) : Frames[k].offset = IF k = 1 THEN 0 ELSE End(Frames[k - 1])
    BY <1>1, FramesAssumption
  <2> QED BY <1>1, <1>2, <1>3, <2>1 DEF Laid
<1>5. End(Frames[i]) <= Frames[j].offset
  <2>1. PICK n : n = Len(Frames)
    OBVIOUS
  <2>2. Laid(Frames, n) /\ i \in 1 .. n /\ j \in 1 .. n
    BY <1>1, <1>4, <2>1
  <2> QED BY <2>2, LaidInOrder
<1> QED BY <1>5 DEF Start, Finish

\* The frames of a lower and a higher start.
LEMMA StartsInOrder ==
  ASSUME NEW i \in DOMAIN Frames, NEW j \in DOMAIN Frames, Start(i) < Finish(j)
  PROVE  i <= j
<1>1. i \in Nat /\ j \in Nat /\ Start(i) \in Nat /\ Finish(j) \in Nat
  BY FrameTypes
<1>2. ~ (j < i)
  BY <1>1, FramesInOrder
<1> QED BY <1>1, <1>2

\* Where one frame starts no other does.
LEMMA StartOfOne ==
  ASSUME NEW i \in DOMAIN Frames, NEW j \in DOMAIN Frames, Start(i) = Start(j)
  PROVE  i = j
<1>1. /\ i \in Nat /\ j \in Nat /\ Start(i) \in Nat /\ Start(j) \in Nat /\ Finish(i) \in Nat
      /\ Finish(j) \in Nat /\ Start(i) < Finish(i) /\ Start(j) < Finish(j)
  BY FrameTypes
<1>2. Start(i) < Finish(j) /\ Start(j) < Finish(i)
  BY <1>1
<1>3. i <= j /\ j <= i
  BY <1>2, StartsInOrder
<1> QED BY <1>1, <1>3

\* The term ends with its last frame.
LEMMA TermEnd ==
  /\ TermLength \in Nat
  /\ Len(Frames) = 0 => TermLength = 0
  /\ Len(Frames) # 0 => Len(Frames) \in DOMAIN Frames /\ TermLength = Finish(Len(Frames))
  /\ \A i \in DOMAIN Frames : Finish(i) <= TermLength
<1>1. CASE Frames = << >>
  <2>1. TermLength = 0
    BY <1>1 DEF TermLength, EndOf
  <2>2. Len(Frames) = 0
    BY <1>1
  <2> QED BY <2>1, <2>2, FrameNumbers
<1>2. CASE Frames # << >>
  <2>1. Len(Frames) # 0
    BY <1>2, FramesAssumption
  <2>2. Len(Frames) \in DOMAIN Frames
    BY <2>1, FrameNumbers
  <2>3. TermLength = Finish(Len(Frames))
    BY <1>2 DEF TermLength, EndOf, Last, Finish
  <2>4. TermLength \in Nat
    BY <2>2, <2>3, FrameTypes
  <2>5. ASSUME NEW i \in DOMAIN Frames PROVE Finish(i) <= TermLength
    <3>1. i \in Nat /\ i <= Len(Frames) /\ Len(Frames) \in Nat /\ Finish(i) \in Nat
      BY FrameTypes
    <3>2. CASE i = Len(Frames)
      BY <2>3, <2>4, <3>2
    <3>3. CASE i < Len(Frames)
      <4>1. Finish(i) <= Start(Len(Frames))
        BY <2>2, <3>3, FramesInOrder
      <4>2. Start(Len(Frames)) \in Nat /\ Start(Len(Frames)) <= Finish(Len(Frames))
        BY <2>2, FrameTypes
      <4> QED BY <2>3, <2>4, <3>1, <4>1, <4>2
    <3> QED BY <3>1, <3>2, <3>3
  <2> QED BY <2>1, <2>2, <2>3, <2>4, <2>5
<1> QED BY <1>1, <1>2

\* Every offset of the term belongs to a frame.
LEMMA TermCovered ==
  ASSUME NEW at \in Offsets
  PROVE  \E i \in DOMAIN Frames : Start(i) <= at /\ at < Finish(i)
<1> DEFINE Belongs(o) == \E i \in DOMAIN Frames : Start(i) <= o /\ o < Finish(i)
<1> DEFINE S == {o \in Nat : o < TermLength => Belongs(o)}
<1>1. 0 \in S
  <2>1. SUFFICES ASSUME 0 < TermLength PROVE Belongs(0)
    OBVIOUS
  <2>2. Len(Frames) # 0
    BY <2>1, TermEnd
  <2>3. PICK i \in DOMAIN Frames : i = 1
    BY <2>2, FrameNumbers
  <2>4. Start(i) = 0 /\ 0 < Finish(i)
    BY <2>3, FrameNext, FrameTypes
  <2> QED BY <2>4
<1>2. ASSUME NEW o \in Nat, o \in S PROVE o + 1 \in S
  <2>1. SUFFICES ASSUME o + 1 < TermLength PROVE Belongs(o + 1)
    OBVIOUS
  <2>2. o < TermLength
    BY <2>1, TermEnd
  <2>3. PICK i \in DOMAIN Frames : Start(i) <= o /\ o < Finish(i)
    BY <1>2, <2>2
  <2>4. /\ i \in 1 .. Len(Frames) /\ Len(Frames) \in Nat /\ Start(i) \in Nat /\ Finish(i) \in Nat
    BY FrameTypes
  <2>5. CASE o + 1 < Finish(i)
    BY <2>3, <2>4, <2>5
  <2>6. CASE o + 1 = Finish(i)
    <3>1. i # Len(Frames)
      BY <2>1, <2>4, <2>6, TermEnd
    <3>2. PICK j \in DOMAIN Frames : j = i + 1
      BY <2>4, <3>1, FrameNumbers
    <3>3. j # 1 /\ j - 1 = i
      BY <2>4, <3>2
    <3>4. Start(j) = o + 1
      BY <2>6, <3>3, FrameNext
    <3>5. Start(j) < Finish(j) /\ Start(j) \in Nat
      BY FrameTypes
    <3> QED BY <3>4, <3>5
  <2> QED BY <2>3, <2>4, <2>5, <2>6
<1> HIDE DEF S
<1>3. \A o \in Nat : o \in S
  BY <1>1, <1>2, EveryNumber
<1>4. at \in Nat /\ at < TermLength
  BY TermEnd DEF Offsets
<1> QED BY <1>3, <1>4 DEF S

\* What a frame has at an offset.
Word(i, offset) ==
  IF offset = Start(i)
  THEN [length |-> Frames[i].length, type |-> Frames[i].type, frame |-> i]
  ELSE [length |-> PayloadWord, type |-> "DATA", frame |-> i]

\* A term has the words of the frames that are in it, and nothing else.
LEMMA TermWords ==
  ASSUME NEW frames, DOMAIN frames \subseteq DOMAIN Frames,
         \A i \in DOMAIN frames : frames[i] = Frames[i],
         NEW i \in DOMAIN Frames, NEW at \in Nat, Start(i) <= at, at < Finish(i)
  PROVE  /\ at \in Offsets
         /\ TermOf(frames, TermLength)[at] = IF i \in DOMAIN frames THEN Word(i, at) ELSE Empty
<1>1. at \in Offsets
  <2>1. Finish(i) <= TermLength /\ TermLength \in Nat /\ Finish(i) \in Nat
    BY TermEnd, FrameTypes
  <2> QED BY <2>1 DEF Offsets
<1>2. at \in 0 .. TermLength - 1
  BY <1>1 DEF Offsets
<1>3. ASSUME NEW j \in DOMAIN frames
      PROVE  at \in frames[j].offset .. End(frames[j]) - 1 <=> j = i
  <2>1. j \in DOMAIN Frames /\ frames[j] = Frames[j]
    OBVIOUS
  <2>2. /\ Start(i) \in Nat /\ Start(j) \in Nat /\ Finish(i) \in Nat /\ Finish(j) \in Nat
        /\ i \in Nat /\ j \in Nat
    BY <2>1, FrameTypes
  <2>3. at \in frames[j].offset .. End(frames[j]) - 1 <=> Start(j) <= at /\ at < Finish(j)
    <3>1. frames[j].offset = Start(j) /\ End(frames[j]) = Finish(j)
      BY <2>1 DEF Start, Finish
    <3> QED BY <2>2, <3>1
  <2>4. ASSUME Start(j) <= at, at < Finish(j) PROVE j = i
    <3>1. Start(i) < Finish(j) /\ Start(j) < Finish(i)
      BY <2>2, <2>4
    <3>2. i <= j /\ j <= i
      BY <2>1, <3>1, StartsInOrder
    <3> QED BY <2>2, <3>2
  <2> QED BY <2>2, <2>3, <2>4
<1> DEFINE owners == {j \in DOMAIN frames : at \in frames[j].offset .. End(frames[j]) - 1}
<1>4. TermOf(frames, TermLength)[at] =
        IF owners = {} THEN Empty
        ELSE IF at = frames[CHOOSE j \in owners : TRUE].offset
        THEN [length |-> frames[CHOOSE j \in owners : TRUE].length,
              type |-> frames[CHOOSE j \in owners : TRUE].type,
              frame |-> CHOOSE j \in owners : TRUE]
        ELSE [length |-> PayloadWord, type |-> "DATA", frame |-> CHOOSE j \in owners : TRUE]
  BY <1>2 DEF TermOf
<1>5. owners = IF i \in DOMAIN frames THEN {i} ELSE {}
  BY <1>3
<1> HIDE DEF owners
<1>6. CASE i \in DOMAIN frames
  <2>1. owners # {} /\ (CHOOSE j \in owners : TRUE) = i /\ frames[i] = Frames[i]
    BY <1>5, <1>6
  <2> QED BY <1>1, <1>4, <1>6, <2>1 DEF Word, Start
<1>7. CASE i \notin DOMAIN frames
  BY <1>1, <1>4, <1>5, <1>7
<1> QED BY <1>6, <1>7

\* The term of the publication, of which some frames are committed, and the whole term.
LEMMA WordsOf ==
  ASSUME NEW i \in DOMAIN Frames, NEW at \in Nat, Start(i) <= at, at < Finish(i),
         NEW n \in 0 .. Len(Frames)
  PROVE  /\ at \in Offsets
         /\ Contents[at] = Word(i, at)
         /\ Publication[n][at] = IF i <= n THEN Word(i, at) ELSE Empty
<1>1. Contents[at] = Word(i, at) /\ at \in Offsets
  BY TermWords DEF Contents
<1>2. PICK S : Frames \in Seq(S)
  BY FramesAssumption
<1>3. PICK frames : frames = SubSeq(Frames, 1, n)
  OBVIOUS
<1>4. DOMAIN frames = 1 .. n /\ \A j \in 1 .. n : frames[j] = Frames[j]
  <2>1. n \in Nat /\ n <= Len(Frames) /\ Len(Frames) \in Nat
    BY FrameNumbers
  <2> QED BY <1>2, <1>3, <2>1
<1>5. DOMAIN frames \subseteq DOMAIN Frames
  BY <1>4, FrameNumbers
<1>6. i \in DOMAIN frames <=> i <= n
  BY <1>4, FrameTypes
<1>7. TermOf(frames, TermLength)[at] = IF i \in DOMAIN frames THEN Word(i, at) ELSE Empty
  BY <1>4, <1>5, TermWords
<1>8. Publication[n] = TermOf(frames, TermLength)
  BY <1>3 DEF Publication
<1> QED BY <1>1, <1>6, <1>7, <1>8

\* The ends of frames are boundaries, and no frame has one inside.
LEMMA BoundaryFacts ==
  /\ \A x \in Boundaries : x \in Nat /\ x <= TermLength
  /\ \A x \in Boundaries : x < TermLength => \E i \in DOMAIN Frames : x = Start(i)
  /\ \A x \in Boundaries, i \in DOMAIN Frames : Start(i) < x => Finish(i) <= x
  /\ \A i \in DOMAIN Frames : Start(i) \in Boundaries /\ Finish(i) \in Boundaries
<1>1. ASSUME NEW x \in Boundaries PROVE x \in Nat /\ x <= TermLength
  <2>1. CASE x = TermLength
    BY <2>1, TermEnd
  <2>2. CASE \E i \in DOMAIN Frames : x = Start(i)
    <3>1. PICK i \in DOMAIN Frames : x = Start(i)
      BY <2>2
    <3>2. /\ Start(i) \in Nat /\ Finish(i) \in Nat /\ Start(i) < Finish(i)
          /\ Finish(i) <= TermLength /\ TermLength \in Nat
      BY FrameTypes, TermEnd
    <3> QED BY <3>1, <3>2
  <2> QED BY <2>1, <2>2 DEF Boundaries
<1>2. ASSUME NEW x \in Boundaries, x < TermLength PROVE \E i \in DOMAIN Frames : x = Start(i)
  BY <1>1, <1>2, TermEnd DEF Boundaries
<1>3. ASSUME NEW x \in Boundaries, NEW i \in DOMAIN Frames, Start(i) < x PROVE Finish(i) <= x
  <2>1. CASE x = TermLength
    BY <2>1, TermEnd
  <2>2. CASE x # TermLength
    <3>1. PICK j \in DOMAIN Frames : x = Start(j)
      BY <2>2 DEF Boundaries
    <3>2. i \in Nat /\ j \in Nat /\ Start(i) \in Nat /\ Start(j) \in Nat /\ Finish(j) \in Nat
          /\ Start(j) < Finish(j)
      BY FrameTypes
    <3>3. i <= j /\ i # j
      BY <1>3, <3>1, <3>2, StartsInOrder
    <3> QED BY <3>1, <3>2, <3>3, FramesInOrder
  <2> QED BY <2>1, <2>2
<1>4. ASSUME NEW i \in DOMAIN Frames PROVE Start(i) \in Boundaries /\ Finish(i) \in Boundaries
  <2>1. CASE i = Len(Frames)
    <3>1. Len(Frames) # 0
      BY <2>1, FrameTypes
    <3> QED BY <2>1, <3>1, TermEnd DEF Boundaries
  <2>2. CASE i # Len(Frames)
    <3>1. i \in 1 .. Len(Frames) /\ Len(Frames) \in Nat
      BY FrameTypes
    <3>2. PICK j \in DOMAIN Frames : j = i + 1
      BY <2>2, <3>1, FrameNumbers
    <3>3. j # 1 /\ j - 1 = i
      BY <3>1, <3>2
    <3>4. Start(j) = Finish(i)
      BY <3>3, FrameNext
    <3> QED BY <3>4 DEF Boundaries
  <2> QED BY <2>1, <2>2
<1> QED BY <1>1, <1>2, <1>3, <1>4

-----------------------------------------------------------------------------
(* The scan for what a packet can have.                                    *)

\* One call of the scan, which is [scan] behind the frame.
ScanBody(term, offset, max_length, scan, at) ==
  LET length == FrameLength(term, at)
      available == at - offset
      stopped(needed) ==
        [available |-> IF available = 0 THEN - needed ELSE available, padding |-> 0]
  IN  IF length <= 0
      THEN [available |-> available, padding |-> 0]
      ELSE IF term[at].type = "PAD"
      THEN IF available + 1 > max_length THEN stopped(1)
           ELSE [available |-> available + 1, padding |-> length - 1]
      ELSE IF available + length > max_length THEN stopped(length)
      ELSE scan[at + length]

\* The lengths of frames in the term of the publication.
LEMMA PublicationLengths ==
  ASSUME NEW n \in 0 .. Len(Frames)
  PROVE  /\ \A at \in Nat : FrameLength(Publication[n], at) \in Int
         /\ \A at \in Nat : at >= TermLength => FrameLength(Publication[n], at) = 0
         /\ \A i \in DOMAIN Frames :
              /\ FrameLength(Publication[n], Start(i)) = IF i <= n THEN Frames[i].length ELSE 0
              /\ i <= n => Publication[n][Start(i)].type = Frames[i].type
<1>1. DOMAIN Publication[n] = Offsets
  BY DEF Publication, TermOf, Offsets
<1>2. ASSUME NEW at \in Nat, at >= TermLength PROVE FrameLength(Publication[n], at) = 0
  BY <1>1, <1>2, TermEnd DEF FrameLength, Offsets
<1>3. ASSUME NEW i \in DOMAIN Frames, NEW at \in Nat, Start(i) <= at, at < Finish(i)
      PROVE  FrameLength(Publication[n], at) = IF i <= n THEN Word(i, at).length ELSE 0
  BY <1>1, <1>3, WordsOf DEF FrameLength, Empty
<1>4. ASSUME NEW at \in Nat, at < TermLength PROVE FrameLength(Publication[n], at) \in Int
  <2>1. PICK i \in DOMAIN Frames : Start(i) <= at /\ at < Finish(i)
    BY <1>4, TermEnd, TermCovered DEF Offsets
  <2>2. Word(i, at).length \in Int
    BY FrameTypes, LimitsAssumption DEF Word
  <2> QED BY <1>3, <2>1, <2>2
<1>5. ASSUME NEW i \in DOMAIN Frames
      PROVE  /\ FrameLength(Publication[n], Start(i)) = IF i <= n THEN Frames[i].length ELSE 0
             /\ i <= n => Publication[n][Start(i)].type = Frames[i].type
  <2>1. Start(i) \in Nat /\ Finish(i) \in Nat /\ Start(i) <= Start(i) /\ Start(i) < Finish(i)
    BY FrameTypes
  <2>2. Word(i, Start(i)).length = Frames[i].length /\ Word(i, Start(i)).type = Frames[i].type
    BY DEF Word
  <2>3. Publication[n][Start(i)] = IF i <= n THEN Word(i, Start(i)) ELSE Empty
    BY <2>1, WordsOf
  <2> QED BY <1>3, <2>1, <2>2, <2>3
<1>6. \A at \in Nat : FrameLength(Publication[n], at) \in Int
  BY <1>2, <1>4, TermEnd
<1> QED BY <1>2, <1>5, <1>6

\* A term in which nothing is committed from some bound on.
Scannable(term, bound) ==
  /\ \A at \in Nat : FrameLength(term, at) \in Int
  /\ \A at \in Nat : at >= bound => FrameLength(term, at) <= 0

\* The scan is what its definition says: each call goes on behind its frame, and there
\* is nothing behind the bound.
LEMMA ScanUnfolds ==
  ASSUME NEW term, NEW bound \in Nat, Scannable(term, bound),
         NEW offset \in Nat, NEW max_length \in Nat
  PROVE  \E scan :
           /\ scan_for_availability(term, offset, max_length) = scan[offset]
           /\ \A at \in Nat :
                scan[at] = ScanBody(term, offset, max_length, scan, at)
<1>2. /\ \A at \in Nat : FrameLength(term, at) \in Int
      /\ \A at \in Nat : at >= bound => FrameLength(term, at) <= 0
  BY DEF Scannable
<1> DEFINE IsScan(f) == f = [at \in Nat |-> ScanBody(term, offset, max_length, f, at)]
<1> DEFINE ScansFrom(f, least) ==
             /\ f = [at \in Nat |-> f[at]]
             /\ \A at \in Nat :
                  at >= least => f[at] = ScanBody(term, offset, max_length, f, at)
<1> DEFINE S == {d \in Nat : \E f : ScansFrom(f, bound - d)}
<1>3. 0 \in S
  <2> DEFINE f == [at \in Nat |-> [available |-> at - offset, padding |-> 0]]
  <2>1. ASSUME NEW at \in Nat, at >= bound - 0
        PROVE  f[at] = ScanBody(term, offset, max_length, f, at)
    <3>1. FrameLength(term, at) <= 0
      BY <1>2, <2>1
    <3>2. ScanBody(term, offset, max_length, f, at) = [available |-> at - offset, padding |-> 0]
      BY <3>1 DEF ScanBody
    <3> QED BY <3>2
  <2>2. f = [at \in Nat |-> f[at]]
    OBVIOUS
  <2>3. ScansFrom(f, bound - 0)
    BY <2>1, <2>2
  <2> QED BY <2>3
<1>4. ASSUME NEW d \in Nat, d \in S PROVE d + 1 \in S
  <2>1. PICK f : ScansFrom(f, bound - d)
    BY <1>4
  <2>2. PICK least \in Int : least = bound - (d + 1) /\ bound - d = least + 1
    OBVIOUS
  <2> DEFINE g == [at \in Nat |->
                     IF at = least THEN ScanBody(term, offset, max_length, f, at)
                     ELSE f[at]]
  <2>3. \A at \in Nat :
          g[at] = IF at = least THEN ScanBody(term, offset, max_length, f, at)
                             ELSE f[at]
    OBVIOUS
  <2>4. g = [at \in Nat |-> g[at]]
    OBVIOUS
  <2> HIDE DEF g
  <2>5. ASSUME NEW at \in Nat, at >= least
        PROVE  ScanBody(term, offset, max_length, g, at) = ScanBody(term, offset, max_length, f, at)
    <3>1. PICK length \in Int : length = FrameLength(term, at)
      BY <1>2
    <3>2. ASSUME length > 0 PROVE g[at + length] = f[at + length]
      <4>1. at + length \in Nat /\ at + length # least
        BY <2>5, <3>2
      <4> QED BY <2>3, <4>1
    <3>3. CASE length <= 0
      BY <3>1, <3>3 DEF ScanBody
    <3>4. CASE length > 0
      BY <3>1, <3>2, <3>4 DEF ScanBody
    <3> QED BY <3>3, <3>4
  <2>6. ASSUME NEW at \in Nat, at >= least
        PROVE  g[at] = ScanBody(term, offset, max_length, g, at)
    <3>1. CASE at = least
      BY <2>3, <2>5, <3>1
    <3>2. CASE at # least
      <4>1. at >= bound - d
        BY <2>2, <2>6, <3>2
      <4>2. f[at] = ScanBody(term, offset, max_length, f, at)
        BY <2>1, <4>1
      <4> QED BY <2>3, <2>5, <2>6, <3>2, <4>2
    <3> QED BY <3>1, <3>2
  <2>7. ScansFrom(g, bound - (d + 1))
    BY <2>2, <2>4, <2>6
  <2> QED BY <2>7
<1> HIDE DEF S
<1>5. \A d \in Nat : d \in S
  BY <1>3, <1>4, EveryNumber
<1>6. PICK f : ScansFrom(f, 0)
  <2>1. bound \in S /\ bound - bound = 0
    BY <1>5
  <2> QED BY <2>1 DEF S
<1>7. IsScan(f)
  <2>1. \A at \in Nat : f[at] = ScanBody(term, offset, max_length, f, at)
    BY <1>6
  <2>2. f = [at \in Nat |-> f[at]]
    BY <1>6
  <2> QED BY <2>1, <2>2
<1>8. PICK scan : scan = CHOOSE h : IsScan(h)
  OBVIOUS
<1>9. IsScan(scan)
  BY <1>7, <1>8
<1>10. scan_for_availability(term, offset, max_length) = scan[offset]
  BY <1>8 DEF scan_for_availability, ScanBody
<1>11. \A at \in Nat : scan[at] = ScanBody(term, offset, max_length, scan, at)
  BY <1>9
<1> QED BY <1>10, <1>11

\* Nothing of the frame at an offset, or all that can be sent of some frames from there.
NothingMore(found, offset, at) ==
  /\ found.padding = 0
  /\ at = offset => ~ (found.available > 0)
  /\ at # offset => found.available = at - offset

UpTo(found, offset, j) ==
  /\ found.available = WireEnd(j) - offset
  /\ found.padding = Finish(j) - WireEnd(j)

\* From a boundary the scan finds whole frames, as many as the limit allows: of padding
\* at their end the header, and the rest of it as what to skip.
LEMMA ScanFinds ==
  ASSUME NEW n \in 0 .. Len(Frames), NEW offset \in Boundaries, NEW max_length \in Nat,
         scan_for_availability(Publication[n], offset, max_length).available > 0
  PROVE  LET found == scan_for_availability(Publication[n], offset, max_length)
         IN  /\ found.available <= max_length
             /\ \E i, j \in DOMAIN Frames : offset = Start(i) /\ i <= j /\ UpTo(found, offset, j)
<1>1. offset \in Nat
  BY BoundaryFacts
<1>2. PICK term : term = Publication[n]
  OBVIOUS
<1>3. PICK scan :
        /\ scan_for_availability(term, offset, max_length) = scan[offset]
        /\ \A at \in Nat : scan[at] = ScanBody(term, offset, max_length, scan, at)
  <2>1. Scannable(term, TermLength)
    BY <1>2, PublicationLengths DEF Scannable
  <2> QED BY <1>1, <2>1, TermEnd, ScanUnfolds
<1>4. /\ \A at \in Nat : at >= TermLength => FrameLength(term, at) = 0
      /\ \A i \in DOMAIN Frames :
           /\ FrameLength(term, Start(i)) = IF i <= n THEN Frames[i].length ELSE 0
           /\ i <= n => term[Start(i)].type = Frames[i].type
  BY <1>2, PublicationLengths
<1> DEFINE Good(x, i) ==
             \/ NothingMore(scan[x], offset, x)
             \/ /\ scan[x].available <= max_length
                /\ \E j \in DOMAIN Frames : i <= j /\ UpTo(scan[x], offset, j)
<1>5. ASSUME NEW x \in Nat, FrameLength(term, x) <= 0 PROVE NothingMore(scan[x], offset, x)
  <2>1. scan[x] = [available |-> x - offset, padding |-> 0]
    BY <1>3, <1>5 DEF ScanBody
  <2> QED BY <1>1, <2>1 DEF NothingMore
<1> DEFINE S == {d \in Nat : \A i \in DOMAIN Frames :
                   i + d >= Len(Frames) /\ offset <= Start(i) => Good(Start(i), i)}
<1>6. ASSUME NEW i \in DOMAIN Frames, offset <= Start(i),
             Finish(i) # TermLength => /\ i + 1 \in DOMAIN Frames /\ Finish(i) = Start(i + 1)
                                       /\ Good(Start(i + 1), i + 1)
      PROVE  Good(Start(i), i)
  <2>1. PICK x \in Nat, l \in Nat \ {0} : x = Start(i) /\ l = Frames[i].length /\ Finish(i) = x + l
    BY FrameTypes
  <2>2. /\ i \in Nat /\ i <= i /\ offset <= x /\ Finish(i) <= TermLength /\ TermLength \in Nat
        /\ Frames[i].type \in {"DATA", "PAD"}
    BY <1>6, <2>1, FrameTypes, TermEnd
  <2>3. CASE i > n
    <3>1. FrameLength(term, x) = 0
      BY <1>4, <2>1, <2>2, <2>3
    <3> QED BY <1>5, <2>1, <3>1
  <2>4. CASE i <= n
    <3>1. FrameLength(term, x) = l /\ term[x].type = Frames[i].type
      BY <1>4, <2>1, <2>4
    <3>2. scan[x] = ScanBody(term, offset, max_length, scan, x)
      BY <1>3
    <3>3. CASE Frames[i].type = "PAD" /\ x - offset + 1 <= max_length
      <4>1. scan[x] = [available |-> x - offset + 1, padding |-> l - 1]
        BY <1>1, <3>1, <3>3, <3>2 DEF ScanBody
      <4>2. WireEnd(i) = x + 1
        BY <2>1, <3>3 DEF WireEnd
      <4>3. UpTo(scan[x], offset, i)
        <5>1. scan[x].available = x - offset + 1 /\ scan[x].padding = l - 1
          BY <4>1
        <5>2. PICK end, wire : end = Finish(i) /\ wire = WireEnd(i)
          OBVIOUS
        <5>3. end = x + l /\ wire = x + 1
          BY <2>1, <4>2, <5>2
        <5>4. offset \in Nat
          BY <1>1
        <5>5. wire - offset = x - offset + 1 /\ end - wire = l - 1
          BY <5>3, <5>4
        <5> QED BY <5>1, <5>2, <5>5 DEF UpTo
      <4> QED BY <2>1, <2>2, <3>3, <4>1, <4>3
    <3>4. CASE Frames[i].type = "PAD" /\ ~ (x - offset + 1 <= max_length)
      <4>1. scan[x] = [available |-> IF x - offset = 0 THEN - 1 ELSE x - offset, padding |-> 0]
        BY <1>1, <3>1, <3>4, <3>2 DEF ScanBody
      <4>2. NothingMore(scan[x], offset, x)
        BY <1>1, <2>1, <4>1 DEF NothingMore
      <4> QED BY <2>1, <4>2
    <3>5. CASE Frames[i].type = "DATA" /\ ~ (x - offset + l <= max_length)
      <4>1. scan[x] = [available |-> IF x - offset = 0 THEN - l ELSE x - offset, padding |-> 0]
        BY <1>1, <3>1, <3>5, <3>2 DEF ScanBody
      <4>2. NothingMore(scan[x], offset, x)
        BY <1>1, <2>1, <4>1 DEF NothingMore
      <4> QED BY <2>1, <4>2
    <3>6. CASE Frames[i].type = "DATA" /\ x - offset + l <= max_length
      <4>1. PICK y \in Nat : y = x + l
        OBVIOUS
      <4>2. scan[x] = scan[y]
        BY <1>1, <3>1, <3>6, <3>2, <4>1 DEF ScanBody
      <4>3. WireEnd(i) = y /\ Finish(i) = y
        BY <2>1, <3>6, <4>1 DEF WireEnd
      <4>4. ASSUME NothingMore(scan[y], offset, y) PROVE Good(x, i)
        <5>1. y # offset
          BY <1>1, <2>1, <2>2, <4>1
        <5>2. scan[x].available = y - offset /\ scan[x].padding = 0
          BY <4>2, <4>4, <5>1 DEF NothingMore
        <5>3. UpTo(scan[x], offset, i)
          BY <4>3, <5>2 DEF UpTo
        <5>4. scan[x].available <= max_length
          BY <1>1, <2>1, <3>6, <4>1, <5>2
        <5> QED BY <2>2, <5>3, <5>4
      <4>5. CASE y = TermLength
        <5>1. FrameLength(term, y) = 0
          BY <1>4, <2>2, <4>5
        <5>2. NothingMore(scan[y], offset, y)
          BY <1>5, <5>1
        <5> QED BY <2>1, <4>4, <5>2
      <4>6. CASE y # TermLength
        <5>1. i + 1 \in DOMAIN Frames /\ y = Start(i + 1) /\ Good(y, i + 1)
          BY <1>6, <4>3, <4>6
        <5>2. CASE NothingMore(scan[y], offset, y)
          BY <2>1, <4>4, <5>2
        <5>3. CASE /\ scan[y].available <= max_length
                   /\ \E j \in DOMAIN Frames : i + 1 <= j /\ UpTo(scan[y], offset, j)
          <6>1. PICK j \in DOMAIN Frames : i + 1 <= j /\ UpTo(scan[y], offset, j)
            BY <5>3
          <6>2. i <= j
            BY <2>2, <6>1, FrameTypes
          <6>3. scan[x].available <= max_length /\ UpTo(scan[x], offset, j)
            BY <4>2, <5>3, <6>1
          <6> QED BY <2>1, <6>1, <6>2, <6>3
        <5> QED BY <5>1, <5>2, <5>3
      <4> QED BY <4>5, <4>6
    <3> QED BY <2>2, <3>3, <3>4, <3>5, <3>6
  <2> QED BY <2>2, <2>3, <2>4, FrameNumbers
<1>7. ASSUME NEW i \in DOMAIN Frames
      PROVE  /\ i = Len(Frames) => Finish(i) = TermLength
             /\ i # Len(Frames) => i + 1 \in DOMAIN Frames /\ Finish(i) = Start(i + 1)
  <2>1. i \in 1 .. Len(Frames) /\ Len(Frames) \in Nat
    BY FrameTypes
  <2>2. i = Len(Frames) => Finish(i) = TermLength
    BY <2>1, TermEnd
  <2>3. ASSUME i # Len(Frames) PROVE i + 1 \in DOMAIN Frames /\ Finish(i) = Start(i + 1)
    <3>1. PICK j \in DOMAIN Frames : j = i + 1
      BY <2>1, <2>3, FrameNumbers
    <3>2. j # 1 /\ j - 1 = i
      BY <2>1, <3>1
    <3> QED BY <3>1, <3>2, FrameNext
  <2> QED BY <2>2, <2>3
<1> HIDE DEF Good
<1>8. 0 \in S
  <2>1. SUFFICES ASSUME NEW i \in DOMAIN Frames, i + 0 >= Len(Frames), offset <= Start(i)
                 PROVE Good(Start(i), i)
    OBVIOUS
  <2>2. i = Len(Frames)
    BY <2>1, FrameTypes
  <2>3. Finish(i) = TermLength
    BY <1>7, <2>2
  <2> QED BY <1>6, <2>1, <2>3
<1>9. ASSUME NEW d \in Nat, d \in S PROVE d + 1 \in S
  <2>1. SUFFICES ASSUME NEW i \in DOMAIN Frames, i + (d + 1) >= Len(Frames), offset <= Start(i)
                 PROVE Good(Start(i), i)
    OBVIOUS
  <2>2. ASSUME Finish(i) # TermLength
        PROVE  i + 1 \in DOMAIN Frames /\ Finish(i) = Start(i + 1) /\ Good(Start(i + 1), i + 1)
    <3>1. i + 1 \in DOMAIN Frames /\ Finish(i) = Start(i + 1)
      BY <1>7, <2>2
    <3>2. (i + 1) + d >= Len(Frames)
      BY <2>1, FrameTypes
    <3>3. offset <= Start(i + 1)
      BY <1>1, <2>1, <3>1, FrameTypes
    <3>4. Good(Start(i + 1), i + 1)
      BY <1>9, <3>1, <3>2, <3>3
    <3> QED BY <3>1, <3>4
  <2> QED BY <1>6, <2>1, <2>2
<1> HIDE DEF S
<1>10. \A d \in Nat : d \in S
  BY <1>8, <1>9, EveryNumber
<1>11. scan[offset].available > 0
  BY <1>2, <1>3
<1>12. ~ NothingMore(scan[offset], offset, offset)
  BY <1>11 DEF NothingMore
<1>13. offset # TermLength
  <2>1. SUFFICES ASSUME offset = TermLength PROVE FALSE
    OBVIOUS
  <2>2. FrameLength(term, offset) = 0
    BY <1>1, <1>4, <2>1
  <2> QED BY <1>1, <1>5, <1>12, <2>2
<1>14. PICK i \in DOMAIN Frames : offset = Start(i)
  BY <1>13 DEF Boundaries
<1>15. Good(offset, i)
  <2>1. Len(Frames) \in S /\ i + Len(Frames) >= Len(Frames) /\ offset <= Start(i)
    BY <1>1, <1>10, <1>14, FrameTypes
  <2> QED BY <1>14, <2>1 DEF S
<1>16. /\ scan[offset].available <= max_length
       /\ \E j \in DOMAIN Frames : i <= j /\ UpTo(scan[offset], offset, j)
  BY <1>12, <1>15 DEF Good
<1> QED BY <1>2, <1>3, <1>14, <1>16

-----------------------------------------------------------------------------
(* The invariant.  Its parts say of which variables they speak.            *)

Words == [length : Int, type : {"DATA", "PAD"}, frame : Nat]

\* The types of the variables.
TypesInv ==
  /\ published \in 0 .. Len(Frames)
  /\ sender \in Boundaries
  /\ network \subseteq [offset : Nat, length : Nat]
  /\ image \in [Offsets -> Words]
  /\ receiver \in [pc : {"idle", "copy", "publish"}, offset : Nat, length : Nat]
  /\ high_mark \in Nat
  /\ scanner \in [pc : {"idle", "contiguous", "gap"}, offset : Nat, begin : Nat, limit : Nat,
                  received : SUBSET DOMAIN Frames]
  /\ gap \in [offset : Nat, length : Nat, found : SUBSET DOMAIN Frames]
  /\ filler \in [pc : {"idle", "check", "header", "type", "length"}, offset : Nat, length : Nat,
                 at : Int, received : SUBSET DOMAIN Frames]
  /\ subscriber \in [pc : {"idle", "type"}, offset : Nat, length : Nat]
  /\ received \subseteq DOMAIN Frames
  /\ delivered \in Seq(Nat)

\* Padding that the filler has written, and what it covers.
IsPad(img, b) == img[b].frame = 0 /\ img[b].length # 0

Covered(img, offset) ==
  \E b \in Offsets : IsPad(img, b) /\ b < offset /\ offset < b + img[b].length

\* Whoever goes through the image from its start comes to this boundary.
Reached(img, x) ==
  /\ x \in Boundaries
  /\ ~ Covered(img, x)
  /\ \A i \in DOMAIN Frames :
       Start(i) < x => img[Start(i)].length # 0 \/ Covered(img, Start(i))

\* The frame was inserted, or all of it but the length of the packet's first frame.
Arrived(rec, got, i) == i \in got \/ (rec.pc = "publish" /\ i \in FramesIn(rec))

Whole(img, i) ==
  \A offset \in Nat : Start(i) <= offset /\ offset < WireEnd(i) => img[offset] = Contents[offset]

\* At the start of a frame there is nothing, padding, or the whole frame.
HeadersInv(img, rec, got) ==
  \A i \in DOMAIN Frames :
    \/ img[Start(i)].length = 0
    \/ IsPad(img, Start(i))
    \/ Whole(img, i) /\ Arrived(rec, got, i)

\* In it there is something if it has arrived.
PayloadsInv(img, rec, got) ==
  \A i \in DOMAIN Frames, offset \in Nat :
    Start(i) < offset /\ offset < Finish(i) /\ img[offset].length # 0 => Arrived(rec, got, i)

\* A frame was received with all its packet, below the high mark, and stays.
ReceivedInv(img, net, got, mark) ==
  \A i \in got :
    /\ img[Start(i)].length # 0
    /\ Start(i) < mark
    /\ \E p \in net : i \in FramesIn(p) /\ FramesIn(p) \subseteq got

PacketEnd(p) == p.offset + p.length

\* Padding starts where the readers come to, and ends at a received frame; no packet
\* starts in it and goes beyond it.
PadInv(img, net, got, b) ==
  /\ img[b].length > 0 /\ img[b].type = "PAD"
  /\ Reached(img, b)
  /\ \E i \in got : Start(i) = b + img[b].length
  /\ \A p \in net :
       b < p.offset /\ p.offset < b + img[b].length => PacketEnd(p) <= b + img[b].length

PadsInv(img, net, got) == \A b \in Offsets : IsPad(img, b) => PadInv(img, net, got, b)

FilledInv(img, fil) ==
  \A i \in DOMAIN Frames :
    Start(i) \in fil <=> IsPad(img, Start(i)) \/ Covered(img, Start(i))

\* A packet that fills a gap starts where the readers come to, below the high mark.
\* Those that the sender sends one after the other are apart.
Asked(img, mark, p) == Reached(img, p.offset) /\ PacketEnd(p) <= mark

Apart(p, q) == PacketEnd(p) <= q.offset \/ PacketEnd(q) <= p.offset

PacketInv(snd, mark, p) ==
  /\ \E i, j \in DOMAIN Frames : i <= j /\ p.offset = Start(i) /\ PacketEnd(p) = WireEnd(j)
  /\ PacketEnd(p) <= snd
  /\ PacketEnd(p) <= mark \/ mark <= p.offset

PacketsInv(img, net, snd, mark) ==
  /\ \A p \in net : PacketInv(snd, mark, p)
  /\ \A p, q \in net : Asked(img, mark, p) \/ Asked(img, mark, q) \/ p = q \/ Apart(p, q)

\* The high mark is the end of a received frame.
IsMark(mark, got) == mark = 0 \/ \E i \in got : WireEnd(i) = mark

MarkInv(snd, mark, got) == mark <= snd /\ IsMark(mark, got)

\* The slot of the packet that is being inserted is free.
ReceiverInv(img, net, rec) ==
  rec.pc # "idle" =>
    /\ Packet(rec.offset, rec.length) \in net
    /\ img[rec.offset].length = 0
    /\ rec.pc = "publish" =>
         /\ \A offset \in Nat :
              rec.offset < offset /\ offset < PacketEnd(rec) => img[offset] = Contents[offset]
         /\ img[rec.offset] = [Contents[rec.offset] EXCEPT !.length = 0]

\* In the gap there is something, or will be.
Spoiled(img, rec, g) ==
  \/ \E i \in FramesIn(g) : img[Start(i)].length # 0
  \/ rec.pc # "idle" /\ rec.offset \in Span(g.offset, g.length)

\* A gap starts where the readers come to and, unless something is in it, ends at a
\* received frame.
GapOK(img, mark, rec, got, g) ==
  /\ g.length > 0 /\ Reached(img, g.offset) /\ g.offset + g.length <= mark
  /\ Spoiled(img, rec, g) \/ \E i \in got : Start(i) = g.offset + g.length

ScannerInv(img, mark, got, scan) ==
  /\ scan.pc # "idle" =>
       /\ IsMark(scan.limit, scan.received)
       /\ scan.limit <= mark
       /\ scan.received \subseteq got
  /\ scan.pc = "contiguous" => Reached(img, scan.offset)
  /\ scan.pc = "gap" =>
       /\ Reached(img, scan.begin) /\ scan.begin < scan.limit
       /\ scan.begin <= scan.offset /\ scan.offset <= scan.limit
       /\ \A i \in scan.received : scan.begin <= Start(i) => scan.offset <= Start(i)

GapInv(img, mark, rec, got, g) ==
  g # NoGap =>
    /\ GapOK(img, mark, rec, got, g)
    /\ \A i \in g.found : Start(i) \notin Span(g.offset, g.length)

\* Until the filler writes, what it has looked at is empty, or the data is late;
\* then nothing arrives in the gap any more.
FillerInv(img, mark, rec, got, f) ==
  /\ f.pc \in {"check", "header"} => GapOK(img, mark, rec, got, f)
  /\ f.pc = "check" =>
       /\ f.offset <= f.at /\ f.at < f.offset + f.length /\ f.received \subseteq got
       /\ \A i \in FramesIn(f) \cap f.received : Start(i) <= f.at
  /\ f.pc = "header" => FramesIn(f) \cap f.received = {} /\ ~ IsPad(img, f.offset)
  /\ f.pc \in {"type", "length"} =>
       /\ f.length > 0 /\ Reached(img, f.offset)
       /\ \E i \in got : Start(i) = f.offset + f.length
       /\ FramesIn(f) \cap got = {}
       /\ rec.pc # "idle" => ~ Overlapping(rec, f)
       /\ img[f.offset] = IF f.pc = "type" THEN DefaultHeader ELSE Empty

\* The subscriber comes from frame to frame.
SubscriberInv(img, sub) ==
  /\ Reached(img, sub.offset)
  /\ sub.pc = "type" =>
       sub.offset \in Offsets /\ sub.length > 0 /\ img[sub.offset].length = sub.length

Passed(sub, fil) ==
  {i \in DOMAIN Frames : Frames[i].type = "DATA" /\ Start(i) < sub.offset /\ Start(i) \notin fil}

DeliveredInv(sub, fil, del) ==
  /\ Range(del) = Passed(sub, fil)
  /\ \A j, k \in DOMAIN del : j < k => del[j] < del[k]

ImageInv ==
  /\ HeadersInv(image, receiver, received)
  /\ PayloadsInv(image, receiver, received)
  /\ ReceivedInv(image, network, received, high_mark)
  /\ PadsInv(image, network, received)
  /\ FilledInv(image, filled)
  /\ PacketsInv(image, network, sender, high_mark)
  /\ MarkInv(sender, high_mark, received)

ThreadsInv ==
  /\ ReceiverInv(image, network, receiver)
  /\ ScannerInv(image, high_mark, received, scanner)
  /\ GapInv(image, high_mark, receiver, received, gap)
  /\ FillerInv(image, high_mark, receiver, received, filler)
  /\ SubscriberInv(image, subscriber)
  /\ DeliveredInv(subscriber, filled, delivered)

\* A run ends with data inserted in a gap while it was being filled: nothing is said
\* of what it leaves.
IInv == ~ overlap => TypesInv /\ ImageInv /\ ThreadsInv

-----------------------------------------------------------------------------
(* Going through an image.                                                 *)

\* A frame starts in the term.
LEMMA StartOffset ==
  ASSUME NEW i \in DOMAIN Frames
  PROVE  Start(i) \in Offsets /\ Start(i) \in Nat /\ Start(i) < TermLength
<1>1. /\ Start(i) \in Nat /\ Finish(i) \in Nat /\ Start(i) < Finish(i) /\ Finish(i) <= TermLength
      /\ TermLength \in Nat
  BY FrameTypes, TermEnd
<1> QED BY <1>1 DEF Offsets

\* Of two boundaries that the readers come to, something is at the first.
LEMMA ReachedBefore ==
  ASSUME NEW img, NEW x, NEW y, Reached(img, x), Reached(img, y), x < y
  PROVE  \E i \in DOMAIN Frames : x = Start(i) /\ img[x].length # 0
<1>1. x \in Boundaries /\ y \in Boundaries /\ x \in Nat /\ y \in Nat /\ y <= TermLength
  BY BoundaryFacts DEF Reached
<1>2. x < TermLength
  BY <1>1, TermEnd
<1>3. PICK i \in DOMAIN Frames : x = Start(i)
  BY <1>1, <1>2, BoundaryFacts
<1>4. img[Start(i)].length # 0 \/ Covered(img, Start(i))
  BY <1>3 DEF Reached
<1> QED BY <1>3, <1>4 DEF Reached

\* Frames are added only, and padding stays as it is.
Steady(img, new) ==
  /\ \A i \in DOMAIN Frames : img[Start(i)].length # 0 => new[Start(i)].length # 0
  /\ \A b \in Offsets :
       /\ IsPad(new, b) <=> IsPad(img, b)
       /\ IsPad(img, b) => new[b] = img[b]

\* Then the readers still come to what they came to.
LEMMA SteadyStays ==
  ASSUME NEW img, NEW new, Steady(img, new)
  PROVE  /\ \A x : Covered(new, x) <=> Covered(img, x)
         /\ \A x : Reached(img, x) => Reached(new, x)
<1>1. ASSUME NEW x PROVE Covered(new, x) <=> Covered(img, x)
  BY DEF Steady, Covered
<1> QED BY <1>1 DEF Reached, Steady

\* What the invariant says of padding, packets and the scanner is then kept,
LEMMA SteadyKeeps ==
  ASSUME NEW img, NEW new, Steady(img, new), NEW got, got \subseteq DOMAIN Frames,
         NEW net, NEW snd, NEW mark, NEW fil, NEW scan
  PROVE  /\ ReceivedInv(img, net, got, mark) => ReceivedInv(new, net, got, mark)
         /\ PadsInv(img, net, got) => PadsInv(new, net, got)
         /\ FilledInv(img, fil) => FilledInv(new, fil)
         /\ PacketsInv(img, net, snd, mark) => PacketsInv(new, net, snd, mark)
         /\ ScannerInv(img, mark, got, scan) => ScannerInv(new, mark, got, scan)
<1>1. /\ \A x : Covered(new, x) <=> Covered(img, x)
      /\ \A x : Reached(img, x) => Reached(new, x)
  BY SteadyStays
<1>2. ASSUME ReceivedInv(img, net, got, mark) PROVE ReceivedInv(new, net, got, mark)
  BY <1>2 DEF ReceivedInv, Steady
<1>3. ASSUME PadsInv(img, net, got) PROVE PadsInv(new, net, got)
  <2>1. SUFFICES ASSUME NEW b \in Offsets, IsPad(new, b) PROVE PadInv(new, net, got, b)
    BY DEF PadsInv
  <2>2. IsPad(img, b) /\ new[b] = img[b]
    BY <2>1 DEF Steady
  <2>3. PadInv(img, net, got, b)
    BY <1>3, <2>2 DEF PadsInv
  <2> QED BY <1>1, <2>2, <2>3 DEF PadInv
<1>4. ASSUME FilledInv(img, fil) PROVE FilledInv(new, fil)
  BY <1>1, <1>4, StartOffset DEF FilledInv, Steady
<1>5. ASSUME PacketsInv(img, net, snd, mark) PROVE PacketsInv(new, net, snd, mark)
  BY <1>1, <1>5 DEF PacketsInv, Asked
<1>6. ASSUME ScannerInv(img, mark, got, scan) PROVE ScannerInv(new, mark, got, scan)
  BY <1>1, <1>6 DEF ScannerInv
<1> QED BY <1>2, <1>3, <1>4, <1>5, <1>6

\* and of gaps, with more that was received.
LEMMA GapStays ==
  ASSUME NEW img, NEW new, Steady(img, new), NEW g, g.offset + g.length \in Nat,
         NEW mark \in Nat, NEW higher \in Nat, mark <= higher,
         NEW got, NEW more, got \subseteq more, NEW rec, NEW next,
         Spoiled(img, rec, g) => Spoiled(new, next, g),
         GapOK(img, mark, rec, got, g)
  PROVE  GapOK(new, higher, next, more, g)
  BY SteadyStays DEF GapOK

\* The same if padding is written where the readers come to and nothing was.
LEMMA PaddingStays ==
  ASSUME NEW img, NEW new, NEW b \in Offsets, NEW length \in Nat \ {0},
         Reached(img, b), img[b].length = 0,
         IsPad(new, b), new[b].length = length,
         \A offset \in Offsets : offset # b => new[offset] = img[offset]
  PROVE  /\ \A x : Covered(new, x) <=> Covered(img, x) \/ (b < x /\ x < b + length)
         /\ \A x : Reached(img, x) => Reached(new, x)
<1>1. ~ IsPad(img, b)
  BY DEF IsPad
<1>2. ASSUME NEW offset \in Offsets, offset # b
      PROVE  (IsPad(new, offset) <=> IsPad(img, offset)) /\ new[offset].length = img[offset].length
  BY <1>2 DEF IsPad
<1>3. ASSUME NEW x PROVE Covered(new, x) <=> Covered(img, x) \/ (b < x /\ x < b + length)
  BY <1>1, <1>2 DEF Covered
<1>4. ASSUME NEW x, Reached(img, x) PROVE Reached(new, x)
  <2>1. x \in Boundaries /\ x \in Nat
    BY <1>4, BoundaryFacts DEF Reached
  <2>2. b \in Nat
    BY TermEnd DEF Offsets
  <2>3. ~ (b < x)
    BY <1>4, ReachedBefore
  <2>4. ~ Covered(new, x)
    BY <1>3, <1>4, <2>3 DEF Reached
  <2>5. ASSUME NEW i \in DOMAIN Frames, Start(i) < x
        PROVE  new[Start(i)].length # 0 \/ Covered(new, Start(i))
    <3>1. Start(i) \in Offsets
      BY StartOffset
    <3>2. img[Start(i)].length # 0 \/ Covered(img, Start(i))
      BY <1>4, <2>5 DEF Reached
    <3>3. Start(i) # b
      BY <2>3, <2>5
    <3> QED BY <1>2, <1>3, <3>1, <3>2, <3>3
  <2> QED BY <2>1, <2>4, <2>5 DEF Reached
<1> QED BY <1>3, <1>4

\* From where a reader is, the length there takes it to the next such boundary: behind
\* padding, or behind a frame that has arrived.
LEMMA ReachedNext ==
  ASSUME NEW img \in [Offsets -> Words], NEW rec, NEW got, NEW net, got \subseteq DOMAIN Frames,
         HeadersInv(img, rec, got), PadsInv(img, net, got),
         NEW x, Reached(img, x), x < TermLength, img[x].length # 0
  PROVE  /\ img[x].length \in Nat \ {0}
         /\ Reached(img, x + img[x].length)
         /\ \/ IsPad(img, x)
            \/ \E i \in DOMAIN Frames : /\ x = Start(i) /\ x + img[x].length = Finish(i)
                                        /\ img[x].length = Frames[i].length
                                        /\ ~ IsPad(img, x) /\ Whole(img, i)
<1>1. x \in Boundaries /\ x \in Nat
  BY BoundaryFacts DEF Reached
<1>2. PICK k \in DOMAIN Frames : x = Start(k)
  BY <1>1, BoundaryFacts
<1>3. x \in Offsets
  BY <1>2, StartOffset
<1>4. ASSUME NEW y \in Boundaries, x < y,
             \A i \in DOMAIN Frames : Start(i) < y => \/ Start(i) < x \/ Start(i) = x
                                                      \/ Covered(img, Start(i)),
             ~ Covered(img, y)
      PROVE  Reached(img, y)
  BY <1>4 DEF Reached
<1>5. CASE IsPad(img, x)
  <2>1. PICK l \in Int : l = img[x].length
    BY <1>3 DEF Words
  <2>2. /\ l > 0
        /\ \E i \in got : Start(i) = x + l
    BY <1>3, <1>5, <2>1 DEF PadsInv, PadInv
  <2>3. x + l \in Boundaries
    BY <2>2, BoundaryFacts
  <2>4. ASSUME NEW i \in DOMAIN Frames, Start(i) < x + l
        PROVE  Start(i) < x \/ Start(i) = x \/ Covered(img, Start(i))
    <3>1. Start(i) \in Nat
      BY FrameTypes
    <3>2. CASE x < Start(i)
      BY <1>3, <1>5, <2>1, <2>4, <3>2 DEF Covered
    <3> QED BY <1>1, <3>1, <3>2
  <2>5. ~ Covered(img, x + l)
    <3>1. SUFFICES ASSUME NEW b \in Offsets, IsPad(img, b), b < x + l, x + l < b + img[b].length
                   PROVE FALSE
      BY DEF Covered
    <3>2. Reached(img, b) /\ img[b].length \in Int /\ b \in Nat
      BY <3>1, TermEnd DEF PadsInv, PadInv, Words, Offsets
    <3>3. b # x
      BY <1>1, <2>1, <3>1
    <3>4. CASE b < x
      <4>1. Covered(img, x)
        BY <1>1, <2>2, <3>1, <3>2, <3>4 DEF Covered
      <4> QED BY <4>1 DEF Reached
    <3>5. CASE x < b
      <4>1. Covered(img, b)
        BY <1>3, <1>5, <2>1, <3>1, <3>5 DEF Covered
      <4> QED BY <3>2, <4>1 DEF Reached
    <3> QED BY <1>1, <3>2, <3>3, <3>4, <3>5
  <2>6. Reached(img, x + l)
    BY <1>1, <1>4, <2>2, <2>3, <2>4, <2>5
  <2> QED BY <1>5, <2>1, <2>2, <2>6
<1>6. CASE ~ IsPad(img, x)
  <2>1. Whole(img, k)
    BY <1>2, <1>6 DEF HeadersInv
  <2>2. /\ k \in DOMAIN Frames /\ Frames[k].length \in Nat \ {0} /\ Finish(k) = x + Frames[k].length
        /\ Finish(k) \in Nat /\ x < WireEnd(k) /\ WireEnd(k) <= Finish(k) /\ WireEnd(k) \in Nat
    BY <1>2, FrameTypes
  <2>3. img[x] = Contents[x]
    BY <1>1, <1>2, <2>1, <2>2 DEF Whole
  <2>4. Contents[x] = Word(k, x)
    BY <1>1, <1>2, <2>2, FrameNumbers, WordsOf
  <2>5. img[x].length = Frames[k].length
    BY <1>2, <2>3, <2>4 DEF Word
  <2>6. ASSUME NEW i \in DOMAIN Frames, Start(i) < Finish(k)
        PROVE  Start(i) < x \/ Start(i) = x \/ Covered(img, Start(i))
    <3>1. i <= k /\ i \in Nat /\ k \in Nat /\ Start(i) \in Nat /\ Finish(i) \in Nat
          /\ Start(i) < Finish(i)
      BY <2>6, StartsInOrder, FrameTypes
    <3>2. CASE i < k
      BY <1>1, <1>2, <3>1, <3>2, FramesInOrder
    <3> QED BY <1>2, <3>1, <3>2
  <2>7. ~ Covered(img, Finish(k))
    <3>1. SUFFICES ASSUME NEW b \in Offsets, IsPad(img, b), b < Finish(k),
                          Finish(k) < b + img[b].length
                   PROVE FALSE
      BY DEF Covered
    <3>2. Reached(img, b) /\ img[b].length \in Int /\ b \in Nat
      BY <3>1, TermEnd DEF PadsInv, PadInv, Words, Offsets
    <3>3. b # x
      BY <1>6, <3>1
    <3>4. CASE b < x
      <4>1. Covered(img, x)
        BY <1>1, <2>2, <3>1, <3>2, <3>4 DEF Covered
      <4> QED BY <4>1 DEF Reached
    <3>5. CASE x < b
      <4>1. Finish(k) <= b
        BY <1>2, <3>2, <3>5, BoundaryFacts DEF Reached
      <4> QED BY <2>2, <3>1, <3>2, <4>1
    <3> QED BY <1>1, <3>2, <3>3, <3>4, <3>5
  <2>8. x < Finish(k) /\ Finish(k) \in Boundaries
    BY <1>1, <2>2, BoundaryFacts
  <2>9. Reached(img, Finish(k))
    BY <1>4, <2>6, <2>7, <2>8
  <2> QED BY <1>2, <1>6, <2>1, <2>2, <2>5, <2>9
<1> QED BY <1>5, <1>6

\* The frames of a packet, or of a gap.
LEMMA InSpan ==
  ASSUME NEW p, p.offset \in Nat, p.length \in Nat
  PROVE  /\ PacketEnd(p) \in Nat
         /\ \A offset \in Nat :
              offset \in Span(p.offset, p.length) <=> p.offset <= offset /\ offset < PacketEnd(p)
         /\ \A i \in DOMAIN Frames : i \in FramesIn(p) <=> p.offset <= Start(i) /\ Start(i) < PacketEnd(p)
         /\ FramesIn(p) \subseteq DOMAIN Frames
<1>1. PICK o \in Nat, l \in Nat : o = p.offset /\ l = p.length
  OBVIOUS
<1>2. \A offset \in Nat : offset \in Span(p.offset, p.length) <=> o <= offset /\ offset < o + l
  BY <1>1 DEF Span
<1>3. PacketEnd(p) = o + l /\ o + l \in Nat
  BY <1>1 DEF PacketEnd
<1>4. ASSUME NEW i \in DOMAIN Frames
      PROVE  i \in FramesIn(p) <=> Start(i) \in Span(p.offset, p.length)
  BY DEF FramesIn, Start
<1>5. \A i \in DOMAIN Frames : Start(i) \in Nat
  BY FrameTypes
<1> QED BY <1>1, <1>2, <1>3, <1>4, <1>5 DEF FramesIn

\* A packet begins with a frame and has what can be sent of all of its own.
LEMMA PacketFrames ==
  ASSUME NEW p \in [offset : Nat, length : Nat], NEW snd, NEW mark, PacketInv(snd, mark, p)
  PROVE  /\ p.offset \in Nat /\ PacketEnd(p) \in Nat /\ p.offset < PacketEnd(p)
         /\ p.offset < TermLength /\ PacketEnd(p) <= TermLength
         /\ \E i \in FramesIn(p) : p.offset = Start(i)
         /\ \E j \in FramesIn(p) : PacketEnd(p) = WireEnd(j)
         /\ \A i \in FramesIn(p) : WireEnd(i) <= PacketEnd(p)
<1>1. p.offset \in Nat /\ p.length \in Nat /\ PacketEnd(p) \in Nat
  BY DEF PacketEnd
<1>2. PICK i, j \in DOMAIN Frames : i <= j /\ p.offset = Start(i) /\ PacketEnd(p) = WireEnd(j)
  BY DEF PacketInv
<1>3. /\ i \in Nat /\ Start(i) \in Nat /\ Finish(i) \in Nat /\ Start(i) < Finish(i)
      /\ j \in Nat /\ Start(j) \in Nat /\ WireEnd(j) \in Nat /\ Finish(j) \in Nat
      /\ Start(j) < WireEnd(j) /\ WireEnd(j) <= Finish(j) /\ Finish(j) <= TermLength
      /\ TermLength \in Nat
  <2>1. i \in Nat /\ Start(i) \in Nat /\ Finish(i) \in Nat /\ Start(i) < WireEnd(i)
        /\ WireEnd(i) <= Finish(i) /\ WireEnd(i) \in Nat
    BY FrameTypes
  <2>2. /\ j \in Nat /\ Start(j) \in Nat /\ WireEnd(j) \in Nat /\ Finish(j) \in Nat
        /\ Start(j) < WireEnd(j) /\ WireEnd(j) <= Finish(j)
    BY FrameTypes
  <2>3. Finish(j) <= TermLength /\ TermLength \in Nat
    BY TermEnd
  <2> QED BY <2>1, <2>2, <2>3
<1>4. Start(i) <= Start(j)
  <2>1. i = j \/ Finish(i) <= Start(j)
    BY <1>2, <1>3, FramesInOrder
  <2> QED BY <1>3, <2>1
<1>5. i \in FramesIn(p) /\ j \in FramesIn(p)
  BY <1>1, <1>2, <1>3, <1>4, InSpan
<1>6. ASSUME NEW k \in FramesIn(p) PROVE WireEnd(k) <= PacketEnd(p)
  <2>1. k \in DOMAIN Frames /\ Start(k) < PacketEnd(p)
    BY <1>1, InSpan
  <2>2. /\ k \in Nat /\ Start(k) \in Nat /\ WireEnd(k) \in Nat /\ Finish(k) \in Nat
        /\ WireEnd(k) <= Finish(k)
    BY <2>1, FrameTypes
  <2>3. k <= j
    BY <1>2, <1>3, <2>1, <2>2, StartsInOrder
  <2>4. k = j \/ Finish(k) <= Start(j)
    BY <1>3, <2>1, <2>2, <2>3, FramesInOrder
  <2> QED BY <1>2, <1>3, <2>2, <2>4
<1>7. p.offset < PacketEnd(p) /\ p.offset < TermLength /\ PacketEnd(p) <= TermLength
  BY <1>1, <1>2, <1>3, <1>4
<1> QED BY <1>1, <1>2, <1>5, <1>6, <1>7

\* The packet that is being inserted is one of them, and its slot is free.
LEMMA PacketInserted ==
  ASSUME TypesInv, ImageInv, ThreadsInv, receiver.pc # "idle"
  PROVE  /\ receiver.offset \in Nat /\ receiver.length \in Nat /\ PacketEnd(receiver) \in Nat
         /\ receiver.offset < PacketEnd(receiver) /\ PacketEnd(receiver) <= TermLength
         /\ receiver.offset \in Offsets /\ image[receiver.offset].length = 0
         /\ PacketInv(sender, high_mark, receiver)
         /\ \E p \in network : /\ p.offset = receiver.offset /\ p.length = receiver.length
                               /\ PacketEnd(p) = PacketEnd(receiver)
                               /\ FramesIn(p) = FramesIn(receiver)
         /\ \E i \in FramesIn(receiver) : receiver.offset = Start(i)
         /\ \E j \in FramesIn(receiver) : PacketEnd(receiver) = WireEnd(j)
         /\ \A i \in FramesIn(receiver) : WireEnd(i) <= PacketEnd(receiver)
<1>1. PICK p : p = Packet(receiver.offset, receiver.length)
  OBVIOUS
<1>2. /\ p \in network /\ p.offset = receiver.offset /\ p.length = receiver.length
      /\ image[receiver.offset].length = 0
  BY <1>1 DEF ThreadsInv, ReceiverInv, Packet
<1>3. p \in [offset : Nat, length : Nat] /\ PacketInv(sender, high_mark, p)
  BY <1>2 DEF TypesInv, ImageInv, PacketsInv
<1>4. /\ p.offset \in Nat /\ PacketEnd(p) \in Nat /\ p.offset < PacketEnd(p)
      /\ p.offset < TermLength /\ PacketEnd(p) <= TermLength
      /\ \E i \in FramesIn(p) : p.offset = Start(i)
      /\ \E j \in FramesIn(p) : PacketEnd(p) = WireEnd(j)
      /\ \A i \in FramesIn(p) : WireEnd(i) <= PacketEnd(p)
  BY <1>3, PacketFrames
<1>5. PacketEnd(p) = PacketEnd(receiver) /\ FramesIn(p) = FramesIn(receiver)
  BY <1>2 DEF PacketEnd, FramesIn
<1>6. PacketInv(sender, high_mark, receiver)
  BY <1>2, <1>3, <1>5 DEF PacketInv
<1>7. receiver.offset \in Offsets
  BY <1>2, <1>4, TermEnd DEF Offsets
<1>8. receiver.length \in Nat
  BY <1>2, <1>3
<1> QED BY <1>2, <1>4, <1>5, <1>6, <1>7, <1>8

\* The invariant holds of an empty image.
LEMMA InitHolds == ASSUME Init PROVE IInv
<1> USE DEF Init, Idle, NoGap
<1>2. 0 \in Boundaries
  <2>1. CASE Len(Frames) = 0
    BY <2>1, TermEnd DEF Boundaries
  <2>2. CASE Len(Frames) # 0
    <3>1. PICK i \in DOMAIN Frames : i = 1
      BY <2>2, FrameNumbers
    <3>2. Start(i) = 0
      BY <3>1, FrameNext
    <3> QED BY <3>2 DEF Boundaries
  <2> QED BY <2>1, <2>2
<1>3. image \in [Offsets -> Words] /\ \A o \in Offsets : image[o].length = 0 /\ ~ IsPad(image, o)
  BY DEF Empty, Words, IsPad
<1>4. TypesInv
  BY <1>2, <1>3, FrameNumbers DEF TypesInv
<1>5. \A x : ~ Covered(image, x)
  BY <1>3 DEF Covered
<1>6. Reached(image, 0)
  BY <1>2, <1>5, FrameTypes DEF Reached
<1>7. HeadersInv(image, receiver, received)
  BY <1>3, StartOffset DEF HeadersInv
<1>8. PayloadsInv(image, receiver, received)
  <2>1. ASSUME NEW i \in DOMAIN Frames, NEW o \in Nat, Start(i) < o, o < Finish(i)
        PROVE  image[o].length = 0
    <3>1. o \in Offsets
      BY <2>1, FrameTypes, TermEnd DEF Offsets
    <3> QED BY <1>3, <3>1
  <2> QED BY <2>1 DEF PayloadsInv
<1>9. ReceivedInv(image, network, received, high_mark)
  BY DEF ReceivedInv
<1>10. PadsInv(image, network, received)
  BY <1>3 DEF PadsInv
<1>11. FilledInv(image, filled)
  BY <1>3, <1>5, StartOffset DEF FilledInv
<1>12. PacketsInv(image, network, sender, high_mark)
  BY DEF PacketsInv
<1>13. MarkInv(sender, high_mark, received)
  BY DEF MarkInv, IsMark
<1>14. ReceiverInv(image, network, receiver)
  BY DEF ReceiverInv
<1>15. ScannerInv(image, high_mark, received, scanner)
  BY DEF ScannerInv
<1>16. GapInv(image, high_mark, receiver, received, gap)
  BY DEF GapInv
<1>17. FillerInv(image, high_mark, receiver, received, filler)
  BY DEF FillerInv
<1>18. SubscriberInv(image, subscriber)
  BY <1>6 DEF SubscriberInv
<1>19. DeliveredInv(subscriber, filled, delivered)
  <2>1. Passed(subscriber, filled) = {}
    BY FrameTypes DEF Passed
  <2>2. Range(delivered) = {} /\ DOMAIN delivered = {}
    BY DEF Range
  <2> QED BY <2>1, <2>2 DEF DeliveredInv
<1> QED
  BY <1>4, <1>7, <1>8, <1>9, <1>10, <1>11, <1>12, <1>13, <1>14, <1>15, <1>16, <1>17, <1>18, <1>19
     DEF IInv, ImageInv, ThreadsInv

-----------------------------------------------------------------------------
(* The subscriber.                                                         *)

\* The next step of an increasing sequence.
LEMMA AppendNext ==
  ASSUME NEW del \in Seq(Nat), NEW n \in Nat, NEW new, new = Append(del, n),
         \A k \in Range(del) : k < n,
         \A j, k \in DOMAIN del : j < k => del[j] < del[k]
  PROVE  /\ new \in Seq(Nat)
         /\ Range(new) = Range(del) \cup {n}
         /\ \A j, k \in DOMAIN new : j < k => new[j] < new[k]
<1>1. PICK l \in Nat : l = Len(del) /\ DOMAIN del = 1 .. l
  OBVIOUS
<1>2. new \in Seq(Nat) /\ DOMAIN new = 1 .. l + 1 /\ new[l + 1] = n
  BY <1>1
<1>3. \A j \in 1 .. l : new[j] = del[j] /\ new[j] \in Range(del)
  BY <1>1 DEF Range
<1>4. Range(new) = Range(del) \cup {n}
  <2>1. ASSUME NEW m PROVE m \in Range(new) <=> m \in Range(del) \/ m = n
    <3>1. m \in Range(new) <=> \E j \in 1 .. l + 1 : new[j] = m
      BY <1>2 DEF Range
    <3>2. m \in Range(del) <=> \E j \in 1 .. l : del[j] = m
      BY <1>1 DEF Range
    <3> QED BY <1>2, <1>3, <3>1, <3>2
  <2> QED BY <2>1
<1>5. ASSUME NEW j \in DOMAIN new, NEW k \in DOMAIN new, j < k PROVE new[j] < new[k]
  <2>1. j \in 1 .. l
    BY <1>2, <1>5
  <2>2. CASE k \in 1 .. l
    BY <1>1, <1>3, <1>5, <2>1, <2>2
  <2>3. CASE k = l + 1
    BY <1>2, <1>3, <2>1, <2>3
  <2> QED BY <1>2, <2>2, <2>3
<1> QED BY <1>2, <1>4, <1>5

\* What a reader passes with padding: no data but what was filled.
LEMMA PassedPadding ==
  ASSUME NEW sub, NEW new, NEW fil, sub.offset \in Nat, new.offset \in Nat, sub.offset < new.offset,
         \A i \in DOMAIN Frames : sub.offset <= Start(i) /\ Start(i) < new.offset =>
           Frames[i].type # "DATA" \/ Start(i) \in fil
  PROVE  Passed(new, fil) = Passed(sub, fil)
<1>1. \A i \in DOMAIN Frames : Start(i) \in Nat
  BY FrameTypes
<1>2. \A i \in Passed(new, fil) \cup Passed(sub, fil) : i \in DOMAIN Frames
  BY DEF Passed
<1>3. \A i \in DOMAIN Frames : i \in Passed(new, fil) <=> i \in Passed(sub, fil)
  BY <1>1 DEF Passed
<1> QED BY <1>2, <1>3

\* And with a data frame.
LEMMA PassedFrame ==
  ASSUME NEW sub, NEW new, NEW fil, sub.offset \in Nat, new.offset \in Nat, sub.offset < new.offset,
         NEW i \in DOMAIN Frames, Start(i) = sub.offset, Finish(i) = new.offset,
         Frames[i].type = "DATA", Start(i) \notin fil
  PROVE  Passed(new, fil) = Passed(sub, fil) \cup {i}
<1>1. \A k \in DOMAIN Frames : Start(k) \in Nat
  BY FrameTypes
<1>2. \A k \in Passed(new, fil) \cup Passed(sub, fil) : k \in DOMAIN Frames
  BY DEF Passed
<1>3. ASSUME NEW k \in DOMAIN Frames
      PROVE  k \in Passed(new, fil) <=> k \in Passed(sub, fil) \/ k = i
  <2>1. CASE k = i
    BY <2>1 DEF Passed
  <2>2. CASE k # i
    <3>1. ~ (sub.offset <= Start(k) /\ Start(k) < new.offset)
      <4>1. SUFFICES ASSUME sub.offset <= Start(k), Start(k) < new.offset PROVE FALSE
        OBVIOUS
      <4>2. /\ i \in Nat /\ k \in Nat /\ Start(i) \in Nat /\ Start(k) \in Nat
            /\ Finish(k) \in Nat /\ Start(k) < Finish(k)
        BY FrameTypes
      <4>3. k <= i /\ i <= k
        BY <4>1, <4>2, StartsInOrder
      <4> QED BY <2>2, <4>2, <4>3
    <3>2. Start(k) < new.offset <=> Start(k) < sub.offset
      BY <1>1, <3>1
    <3> QED BY <2>2, <3>2, Zenon DEF Passed
  <2> QED BY <2>1, <2>2
<1> QED BY <1>2, <1>3

\* The length of a frame that was read does not change (see the steps of the others).
LEMMA ReadLengthHolds ==
  ASSUME TypesInv, ImageInv, ThreadsInv, ReadLength
  PROVE  TypesInv' /\ ImageInv' /\ ThreadsInv'
<1>1. /\ subscriber.offset < TermLength /\ image[subscriber.offset].length > 0
      /\ subscriber' = [subscriber EXCEPT !.pc = "type", !.length = image[subscriber.offset].length]
  BY DEF ReadLength
<1>2. subscriber \in [pc : {"idle", "type"}, offset : Nat, length : Nat]
  BY DEF TypesInv
<1>3. subscriber.offset \in Offsets
  BY <1>1, <1>2, TermEnd DEF Offsets
<1>4. image[subscriber.offset].length \in Nat
  <2>1. image \in [Offsets -> Words]
    BY DEF TypesInv
  <2>2. image[subscriber.offset].length \in Int
    BY <1>3, <2>1 DEF Words
  <2> QED BY <1>1, <2>2
<1>5. /\ subscriber' \in [pc : {"idle", "type"}, offset : Nat, length : Nat]
      /\ subscriber'.offset = subscriber.offset /\ subscriber'.pc = "type"
      /\ subscriber'.length = image[subscriber.offset].length
  BY <1>1, <1>2, <1>4
<1>6. TypesInv'
  BY <1>5 DEF TypesInv, ReadLength, history
<1>7. ImageInv'
  BY DEF ImageInv, ReadLength, history
<1>8. SubscriberInv(image, subscriber')
  BY <1>1, <1>3, <1>5 DEF ThreadsInv, SubscriberInv
<1>9. DeliveredInv(subscriber', filled, delivered)
  BY <1>5 DEF ThreadsInv, DeliveredInv, Passed
<1>10. ThreadsInv'
  BY <1>8, <1>9 DEF ThreadsInv, ReadLength, history
<1> QED BY <1>6, <1>7, <1>10

\* A data frame is handed over whole, with its own payload.
LEMMA ReadFrameHolds ==
  ASSUME TypesInv, ImageInv, ThreadsInv, ReadFrame
  PROVE  TypesInv' /\ ImageInv' /\ ThreadsInv'
<1>1. PICK o, l : o = subscriber.offset /\ l = subscriber.length
  OBVIOUS
<1>2. /\ o \in Offsets /\ o \in Nat /\ o < TermLength /\ l \in Nat \ {0} /\ image[o].length = l
      /\ Reached(image, o)
  <2>1. o \in Offsets /\ l > 0 /\ image[o].length = l /\ Reached(image, o)
    BY <1>1 DEF ThreadsInv, SubscriberInv, ReadFrame
  <2>2. l \in Nat
    BY <1>1 DEF TypesInv
  <2>3. o \in Nat /\ o < TermLength
    BY <2>1, TermEnd DEF Offsets
  <2> QED BY <2>1, <2>2, <2>3
<1>3. /\ subscriber' = [Idle EXCEPT !.offset = o + l]
      /\ delivered' = IF image[o].type = "PAD" THEN delivered
                      ELSE Append(delivered, FrameRead(o, l))
  BY <1>1 DEF ReadFrame
<1>4. /\ subscriber' \in [pc : {"idle", "type"}, offset : Nat, length : Nat]
      /\ subscriber'.offset = o + l /\ subscriber'.pc = "idle"
  BY <1>2, <1>3 DEF Idle
<1>5. /\ image \in [Offsets -> Words] /\ received \subseteq DOMAIN Frames
      /\ delivered \in Seq(Nat)
  BY DEF TypesInv
<1>6. /\ HeadersInv(image, receiver, received) /\ PadsInv(image, network, received)
      /\ FilledInv(image, filled)
  BY DEF ImageInv
<1>7. /\ Reached(image, o + l)
      /\ \/ IsPad(image, o)
         \/ \E i \in DOMAIN Frames : /\ o = Start(i) /\ o + l = Finish(i) /\ l = Frames[i].length
                                     /\ ~ IsPad(image, o) /\ Whole(image, i)
  BY <1>2, <1>5, <1>6, ReachedNext
<1>8. SubscriberInv(image, subscriber')
  BY <1>4, <1>7 DEF SubscriberInv
<1>9. /\ Range(delivered) = Passed(subscriber, filled)
      /\ \A j, k \in DOMAIN delivered : j < k => delivered[j] < delivered[k]
  BY DEF ThreadsInv, DeliveredInv
<1>10. subscriber.offset \in Nat /\ subscriber'.offset \in Nat /\ subscriber.offset < subscriber'.offset
  BY <1>1, <1>2, <1>4
<1>11. ASSUME IsPad(image, o)
       PROVE  delivered' \in Seq(Nat) /\ DeliveredInv(subscriber', filled, delivered')
  <2>1. image[o].type = "PAD"
    BY <1>2, <1>6, <1>11 DEF PadsInv, PadInv
  <2>2. delivered' = delivered
    BY <1>3, <2>1
  <2>3. ASSUME NEW i \in DOMAIN Frames, o <= Start(i), Start(i) < o + l PROVE Start(i) \in filled
    <3>1. Start(i) \in Nat
      BY FrameTypes
    <3>2. Start(i) = o \/ Covered(image, Start(i))
      BY <1>2, <1>11, <2>3, <3>1 DEF Covered
    <3> QED BY <1>6, <1>11, <3>2 DEF FilledInv
  <2>4. Passed(subscriber', filled) = Passed(subscriber, filled)
    BY <1>1, <1>4, <1>10, <2>3, PassedPadding
  <2> QED BY <1>5, <1>9, <2>2, <2>4 DEF DeliveredInv
<1>12. ASSUME NEW i \in DOMAIN Frames, o = Start(i), o + l = Finish(i), l = Frames[i].length,
              ~ IsPad(image, o), Whole(image, i)
       PROVE  delivered' \in Seq(Nat) /\ DeliveredInv(subscriber', filled, delivered')
  <2>1. /\ i \in Nat \ {0} /\ Finish(i) \in Nat /\ WireEnd(i) \in Nat /\ o < WireEnd(i)
        /\ WireEnd(i) <= Finish(i) /\ Frames[i].type \in {"DATA", "PAD"}
        /\ Frames[i].type = "DATA" => WireEnd(i) = Finish(i)
    BY <1>12, FrameTypes DEF WireEnd
  <2>2. ASSUME NEW at \in Nat, o <= at, at < WireEnd(i) PROVE image[at] = Word(i, at)
    <3>1. Contents[at] = Word(i, at)
      BY <1>2, <1>12, <2>1, <2>2, FrameNumbers, WordsOf
    <3>2. image[at] = Contents[at]
      BY <1>12, <2>2 DEF Whole
    <3> QED BY <3>1, <3>2
  <2>3. image[o].type = Frames[i].type
    BY <1>2, <1>12, <2>1, <2>2 DEF Word
  <2>4. ASSUME Frames[i].type = "PAD"
        PROVE  delivered' = delivered /\ Passed(subscriber', filled) = Passed(subscriber, filled)
    <3>1. ASSUME NEW k \in DOMAIN Frames, o <= Start(k), Start(k) < o + l
          PROVE  Frames[k].type # "DATA"
      <4>1. /\ k \in Nat /\ Start(k) \in Nat /\ Finish(k) \in Nat /\ Start(k) < Finish(k)
        BY FrameTypes
      <4>2. k <= i /\ i <= k
        BY <1>2, <1>12, <2>1, <3>1, <4>1, StartsInOrder
      <4>3. k = i
        BY <2>1, <4>1, <4>2
      <4> QED BY <2>4, <4>3
    <3>2. Passed(subscriber', filled) = Passed(subscriber, filled)
      BY <1>1, <1>4, <1>10, <3>1, PassedPadding
    <3> QED BY <1>3, <2>3, <2>4, <3>2
  <2>5. ASSUME Frames[i].type = "DATA"
        PROVE  delivered' \in Seq(Nat) /\ DeliveredInv(subscriber', filled, delivered')
    <3>1. \A at \in Span(o, l) : image[at].frame = i
      <4>1. SUFFICES ASSUME NEW at \in Span(o, l) PROVE image[at].frame = i
        OBVIOUS
      <4>2. at \in Nat /\ o <= at /\ at < WireEnd(i)
        BY <1>2, <1>12, <2>1, <2>5 DEF Span
      <4> QED BY <2>2, <4>2 DEF Word
    <3>2. image[o].frame = i
      BY <1>2, <2>1, <2>2 DEF Word
    <3>3. FrameRead(o, l) = i
      BY <1>12, <2>1, <3>1, <3>2 DEF FrameRead, Start
    <3>4. delivered' = Append(delivered, i)
      BY <1>3, <2>3, <2>5, <3>3
    <3>5. o \notin filled
      BY <1>2, <1>6, <1>12 DEF FilledInv, Reached
    <3>6. Passed(subscriber', filled) = Passed(subscriber, filled) \cup {i}
      <4>1. Start(i) = subscriber.offset /\ Finish(i) = subscriber'.offset /\ Start(i) \notin filled
        BY <1>1, <1>4, <1>12, <3>5
      <4> QED BY <1>10, <2>5, <4>1, PassedFrame
    <3>7. ASSUME NEW k \in Range(delivered) PROVE k < i
      <4>1. k \in DOMAIN Frames /\ Start(k) < o
        BY <1>1, <1>9 DEF Passed
      <4>2. k \in Nat /\ Start(k) \in Nat
        BY <4>1, FrameTypes
      <4>3. Start(k) < Finish(i) /\ k # i
        BY <1>2, <1>12, <2>1, <4>1, <4>2
      <4>4. k <= i
        BY <4>1, <4>3, StartsInOrder
      <4> QED BY <2>1, <4>2, <4>3, <4>4
    <3>8. /\ delivered' \in Seq(Nat)
          /\ Range(delivered') = Range(delivered) \cup {i}
          /\ \A j, k \in DOMAIN delivered' : j < k => delivered'[j] < delivered'[k]
      BY <1>5, <1>9, <2>1, <3>4, <3>7, AppendNext
    <3> QED BY <1>9, <3>6, <3>8 DEF DeliveredInv
  <2> QED BY <1>5, <1>9, <2>1, <2>4, <2>5 DEF DeliveredInv
<1>13. delivered' \in Seq(Nat) /\ DeliveredInv(subscriber', filled, delivered')
  BY <1>7, <1>11, <1>12
<1>14. TypesInv'
  BY <1>4, <1>13 DEF TypesInv, ReadFrame, history
<1>15. ImageInv'
  BY DEF ImageInv, ReadFrame, history
<1>16. ThreadsInv'
  BY <1>8, <1>13 DEF ThreadsInv, ReadFrame, history
<1> QED BY <1>14, <1>15, <1>16

-----------------------------------------------------------------------------
(* The sender.                                                             *)

\* A packet more: it is asked for, or behind all others, and does not start in padding.
LEMMA PacketAdded ==
  ASSUME NEW img \in [Offsets -> Words], NEW rec, NEW net, NEW got, NEW mark, NEW snd \in Nat,
         NEW new \in Nat, NEW p,
         ReceivedInv(img, net, got, mark), PadsInv(img, net, got), PacketsInv(img, net, snd, mark),
         ReceiverInv(img, net, rec), net \subseteq [offset : Nat, length : Nat],
         p \in [offset : Nat, length : Nat], snd <= new, PacketInv(new, mark, p),
         Asked(img, mark, p) \/ p.offset = snd,
         ~ Covered(img, p.offset)
  PROVE  /\ ReceivedInv(img, net \cup {p}, got, mark)
         /\ PadsInv(img, net \cup {p}, got)
         /\ PacketsInv(img, net \cup {p}, new, mark)
         /\ ReceiverInv(img, net \cup {p}, rec)
<1>1. ReceivedInv(img, net \cup {p}, got, mark)
  BY DEF ReceivedInv
<1>2. ReceiverInv(img, net \cup {p}, rec)
  BY DEF ReceiverInv
<1>3. ASSUME NEW b \in Offsets, IsPad(img, b) PROVE PadInv(img, net \cup {p}, got, b)
  <2>1. PadInv(img, net, got, b)
    BY <1>3 DEF PadsInv
  <2>2. ~ (b < p.offset /\ p.offset < b + img[b].length)
    BY <1>3 DEF Covered
  <2> QED BY <2>1, <2>2 DEF PadInv
<1>4. ASSUME NEW q \in net
      PROVE  /\ PacketInv(new, mark, q)
             /\ Asked(img, mark, p) \/ (Apart(p, q) /\ Apart(q, p))
  <2>1. PacketInv(snd, mark, q) /\ q \in [offset : Nat, length : Nat]
    BY DEF PacketsInv
  <2>2. PacketEnd(q) \in Nat /\ PacketEnd(q) <= snd
    BY <2>1 DEF PacketInv, PacketEnd
  <2>3. PacketInv(new, mark, q)
    BY <2>1, <2>2 DEF PacketInv
  <2> QED BY <2>2, <2>3 DEF Apart
<1>5. PacketsInv(img, net \cup {p}, new, mark)
  <2>1. ASSUME NEW q \in net \cup {p}, NEW r \in net \cup {p}
        PROVE  Asked(img, mark, q) \/ Asked(img, mark, r) \/ q = r \/ Apart(q, r)
    <3>1. CASE q \in net /\ r \in net
      BY <3>1 DEF PacketsInv
    <3>2. CASE q = p /\ r \in net
      BY <1>4, <3>2
    <3>3. CASE q \in net /\ r = p
      BY <1>4, <3>3
    <3> QED BY <3>1, <3>2, <3>3
  <2> QED BY <1>4, <2>1 DEF PacketsInv
<1> QED BY <1>1, <1>2, <1>3, <1>5 DEF PadsInv

\* The sender goes on behind what it sends, which is behind all that was received.
LEMMA SendHolds ==
  ASSUME TypesInv, ImageInv, ThreadsInv, NEW max_length \in MaxLengths, Send(max_length)
  PROVE  TypesInv' /\ ImageInv' /\ ThreadsInv'
<1>1. PICK found : found = scan_for_availability(Publication[published], sender, max_length)
  OBVIOUS
<1>2. /\ found.available > 0
      /\ network' = network \cup {Packet(sender, found.available)}
      /\ sender' = sender + found.available + found.padding
  BY <1>1 DEF Send
<1>3. /\ published \in 0 .. Len(Frames) /\ sender \in Boundaries /\ sender \in Nat
      /\ image \in [Offsets -> Words] /\ network \subseteq [offset : Nat, length : Nat]
      /\ high_mark \in Nat /\ received \subseteq DOMAIN Frames
  BY BoundaryFacts DEF TypesInv
<1>4. max_length \in Nat
  BY LimitsAssumption
<1>5. PICK i, j \in DOMAIN Frames : sender = Start(i) /\ i <= j /\ UpTo(found, sender, j)
  BY <1>1, <1>2, <1>3, <1>4, ScanFinds
<1>6. /\ WireEnd(j) \in Nat /\ Finish(j) \in Nat /\ WireEnd(j) <= Finish(j)
      /\ Finish(j) \in Boundaries
  BY FrameTypes, BoundaryFacts
<1>7. found.available = WireEnd(j) - sender /\ found.padding = Finish(j) - WireEnd(j)
  BY <1>5 DEF UpTo
<1>8. sender' = Finish(j) /\ sender' \in Nat
  BY <1>2, <1>3, <1>6, <1>7
<1>9. PICK p : p = Packet(sender, found.available)
  OBVIOUS
<1>10. /\ p \in [offset : Nat, length : Nat] /\ p.offset = sender /\ PacketEnd(p) = WireEnd(j)
       /\ sender <= WireEnd(j)
  <2>1. found.available \in Nat /\ sender + found.available = WireEnd(j) /\ sender <= WireEnd(j)
    BY <1>2, <1>3, <1>6, <1>7
  <2> QED BY <1>3, <1>9, <2>1 DEF Packet, PacketEnd
<1>11. high_mark <= sender
  BY DEF ImageInv, MarkInv
<1>12. PacketInv(sender', high_mark, p)
  BY <1>5, <1>6, <1>8, <1>10, <1>11 DEF PacketInv
<1>13. ~ Covered(image, p.offset)
  <2>1. SUFFICES ASSUME NEW b \in Offsets, IsPad(image, b), sender < b + image[b].length PROVE FALSE
    BY <1>10 DEF Covered
  <2>2. PICK k \in received : Start(k) = b + image[b].length
    BY <2>1 DEF ImageInv, PadsInv, PadInv
  <2>3. Start(k) < high_mark
    BY DEF ImageInv, ReceivedInv
  <2>4. Start(k) \in Nat
    BY <1>3, FrameTypes
  <2> QED BY <1>3, <1>11, <2>1, <2>2, <2>3, <2>4
<1>14. sender <= sender'
  BY <1>3, <1>6, <1>8, <1>10
<1>15. /\ ReceivedInv(image, network', received, high_mark)
       /\ PadsInv(image, network', received)
       /\ PacketsInv(image, network', sender', high_mark)
       /\ ReceiverInv(image, network', receiver)
  <2>1. /\ ReceivedInv(image, network, received, high_mark) /\ PadsInv(image, network, received)
        /\ PacketsInv(image, network, sender, high_mark) /\ ReceiverInv(image, network, receiver)
    BY DEF ImageInv, ThreadsInv
  <2>2. network' = network \cup {p}
    BY <1>2, <1>9
  <2> QED BY <1>3, <1>8, <1>10, <1>12, <1>13, <1>14, <2>1, <2>2, PacketAdded
<1>16. MarkInv(sender', high_mark, received)
  BY <1>3, <1>8, <1>11, <1>14 DEF ImageInv, MarkInv
<1>17. TypesInv'
  <2>1. network' \subseteq [offset : Nat, length : Nat]
    BY <1>2, <1>3, <1>9, <1>10
  <2> QED BY <1>6, <1>8, <2>1 DEF TypesInv, Send, history
<1>18. ImageInv'
  BY <1>15, <1>16 DEF ImageInv, Send, history
<1>19. ThreadsInv'
  BY <1>15 DEF ThreadsInv, Send, history
<1> QED BY <1>17, <1>18, <1>19

\* What is sent again is within the gap, which is below the high mark.
LEMMA ResendHolds ==
  ASSUME TypesInv, ImageInv, ThreadsInv, NEW max_length \in MaxLengths, Resend(max_length)
  PROVE  TypesInv' /\ ImageInv' /\ ThreadsInv'
<1>1. PICK limit : limit = IF gap.length < max_length THEN gap.length ELSE max_length
  OBVIOUS
<1>2. PICK found : found = scan_for_availability(Publication[published], gap.offset, limit)
  OBVIOUS
<1>3. /\ gap # NoGap /\ found.available > 0
      /\ network' = network \cup {Packet(gap.offset, found.available)}
  BY <1>1, <1>2 DEF Resend
<1>4. /\ published \in 0 .. Len(Frames) /\ sender \in Nat /\ gap.offset \in Nat /\ gap.length \in Nat
      /\ image \in [Offsets -> Words] /\ network \subseteq [offset : Nat, length : Nat]
      /\ high_mark \in Nat
  BY BoundaryFacts DEF TypesInv
<1>5. max_length \in Nat
  BY LimitsAssumption
<1>6. limit \in Nat /\ limit <= gap.length
  BY <1>1, <1>4, <1>5
<1>7. Reached(image, gap.offset) /\ gap.offset + gap.length <= high_mark
  BY <1>3 DEF ThreadsInv, GapInv, GapOK
<1>8. gap.offset \in Boundaries
  BY <1>7 DEF Reached
<1>9. found.available <= limit
  BY <1>2, <1>3, <1>4, <1>6, <1>8, ScanFinds
<1>10. PICK i, j \in DOMAIN Frames : gap.offset = Start(i) /\ i <= j /\ UpTo(found, gap.offset, j)
  BY <1>2, <1>3, <1>4, <1>6, <1>8, ScanFinds
<1>11. WireEnd(j) \in Nat /\ found.available = WireEnd(j) - gap.offset
  BY <1>10, FrameTypes DEF UpTo
<1>12. PICK p : p = Packet(gap.offset, found.available)
  OBVIOUS
<1>13. /\ p \in [offset : Nat, length : Nat] /\ p.offset = gap.offset /\ PacketEnd(p) = WireEnd(j)
       /\ WireEnd(j) <= gap.offset + gap.length
  <2>1. PICK o, l, available, end : /\ o = gap.offset /\ l = gap.length
                                    /\ available = found.available /\ end = WireEnd(j)
    OBVIOUS
  <2>2. /\ o \in Nat /\ l \in Nat /\ end \in Nat /\ available = end - o /\ available > 0
        /\ available <= l
    BY <1>3, <1>4, <1>6, <1>9, <1>11, <2>1
  <2>3. available \in Nat /\ o + available = end /\ end <= o + l
    BY <2>2
  <2>4. p = [offset |-> o, length |-> available]
    BY <1>12, <2>1 DEF Packet
  <2> QED BY <2>1, <2>2, <2>3, <2>4 DEF PacketEnd
<1>14. high_mark <= sender
  BY DEF ImageInv, MarkInv
<1>15. PacketEnd(p) <= high_mark /\ PacketEnd(p) <= sender
  BY <1>4, <1>7, <1>11, <1>13, <1>14
<1>16. PacketInv(sender, high_mark, p)
  BY <1>10, <1>13, <1>15 DEF PacketInv
<1>17. Asked(image, high_mark, p) /\ ~ Covered(image, p.offset)
  BY <1>7, <1>13, <1>15 DEF Asked, Reached
<1>18. /\ ReceivedInv(image, network', received, high_mark)
       /\ PadsInv(image, network', received)
       /\ PacketsInv(image, network', sender, high_mark)
       /\ ReceiverInv(image, network', receiver)
  <2>1. /\ ReceivedInv(image, network, received, high_mark) /\ PadsInv(image, network, received)
        /\ PacketsInv(image, network, sender, high_mark) /\ ReceiverInv(image, network, receiver)
    BY DEF ImageInv, ThreadsInv
  <2>2. network' = network \cup {p} /\ sender <= sender
    BY <1>3, <1>4, <1>12
  <2> QED BY <1>4, <1>13, <1>16, <1>17, <2>1, <2>2, PacketAdded
<1>19. TypesInv'
  <2>1. network' \subseteq [offset : Nat, length : Nat]
    BY <1>3, <1>4, <1>12, <1>13
  <2> QED BY <2>1 DEF TypesInv, Resend, history
<1>20. ImageInv'
  BY <1>18 DEF ImageInv, Resend, history
<1>21. ThreadsInv'
  BY <1>18 DEF ThreadsInv, Resend, history
<1> QED BY <1>19, <1>20, <1>21

-----------------------------------------------------------------------------
(* The scanner.                                                            *)

\* The high mark is in the term.
LEMMA MarkInTerm ==
  ASSUME TypesInv, ImageInv
  PROVE  high_mark \in Nat /\ high_mark <= TermLength /\ TermLength \in Nat
<1>1. sender \in Nat /\ sender <= TermLength /\ high_mark \in Nat
  BY BoundaryFacts DEF TypesInv
<1> QED BY <1>1, TermEnd DEF ImageInv, MarkInv

\* A word that is not empty, some way behind a boundary that the readers come to, is
\* the start of a received frame, or else something else is there or will be.
LEMMA GapEnds ==
  ASSUME TypesInv, ImageInv, ThreadsInv,
         NEW g \in [offset : Nat, length : Nat \ {0}, found : SUBSET DOMAIN Frames],
         Reached(image, g.offset), NEW o \in Offsets, o = g.offset + g.length, image[o].length # 0
  PROVE  Spoiled(image, receiver, g) \/ \E i \in received : Start(i) = o
<1>1. /\ g.offset \in Nat /\ g.length \in Nat \ {0} /\ o \in Nat /\ g.offset < o /\ PacketEnd(g) = o
      /\ g.offset \in Boundaries /\ o < TermLength
  BY TermEnd DEF Reached, Offsets, PacketEnd
<1>2. PICK k \in DOMAIN Frames : Start(k) <= o /\ o < Finish(k)
  BY TermCovered
<1>3. Start(k) \in Nat /\ Finish(k) \in Nat
  BY FrameTypes
<1>4. g.offset <= Start(k)
  <2>1. ~ (Start(k) < g.offset)
    BY <1>1, <1>2, <1>3, BoundaryFacts
  <2> QED BY <1>1, <1>3, <2>1
<1>5. \A i \in DOMAIN Frames : i \in FramesIn(g) <=> g.offset <= Start(i) /\ Start(i) < o
  BY <1>1, InSpan
<1>6. PICK i \in DOMAIN Frames : Start(i) = g.offset
  <2>1. g.offset < TermLength
    BY <1>1, TermEnd
  <2>2. \E i \in DOMAIN Frames : g.offset = Start(i)
    BY <1>1, <2>1, BoundaryFacts
  <2> QED BY <2>2
<1>7. ASSUME image[g.offset].length # 0 PROVE Spoiled(image, receiver, g)
  <2>1. i \in FramesIn(g)
    BY <1>1, <1>5, <1>6
  <2> QED BY <1>6, <1>7, <2>1 DEF Spoiled
<1>8. CASE Start(k) = o /\ IsPad(image, o)
  <2>1. Reached(image, o)
    BY <1>8 DEF ImageInv, PadsInv, PadInv
  <2>2. image[g.offset].length # 0
    BY <1>1, <2>1, ReachedBefore
  <2> QED BY <1>7, <2>2
<1>9. CASE ~ (Start(k) = o /\ IsPad(image, o))
  <2>1. Arrived(receiver, received, k)
    <3>1. CASE Start(k) = o
      BY <1>9, <3>1 DEF ImageInv, HeadersInv
    <3>2. CASE Start(k) < o
      BY <1>1, <1>2, <3>2 DEF ImageInv, PayloadsInv
    <3> QED BY <1>1, <1>2, <1>3, <3>1, <3>2
  <2>2. CASE k \in received
    <3>1. image[Start(k)].length # 0
      BY <2>2 DEF ImageInv, ReceivedInv
    <3>2. CASE Start(k) < o
      <4>1. k \in FramesIn(g)
        BY <1>4, <1>5, <3>2
      <4> QED BY <3>1, <4>1 DEF Spoiled
    <3> QED BY <1>1, <1>2, <1>3, <2>2, <3>2
  <2>3. CASE receiver.pc = "publish" /\ k \in FramesIn(receiver)
    <3>1. /\ receiver.offset \in Nat /\ receiver.length \in Nat
          /\ image[receiver.offset].length = 0
      BY <2>3 DEF TypesInv, ThreadsInv, ReceiverInv
    <3>2. receiver.offset <= Start(k) /\ Start(k) < PacketEnd(receiver) /\ PacketEnd(receiver) \in Nat
      BY <2>3, <3>1, InSpan
    <3>3. receiver.offset < o
      BY <1>1, <1>2, <1>3, <3>1, <3>2
    <3>4. CASE g.offset <= receiver.offset
      <4>1. receiver.offset \in Span(g.offset, g.length)
        BY <1>1, <3>1, <3>3, <3>4, InSpan
      <4> QED BY <2>3, <4>1 DEF Spoiled
    <3>5. CASE receiver.offset < g.offset
      <4>1. image[g.offset] = Contents[g.offset]
        BY <1>1, <1>3, <1>4, <2>3, <3>2, <3>5 DEF ThreadsInv, ReceiverInv
      <4>2. Start(i) < Finish(i) /\ Frames[i].length \in Nat \ {0} /\ Finish(i) \in Nat
        BY FrameTypes
      <4>3. Contents[g.offset] = Word(i, g.offset)
        BY <1>1, <1>6, <4>2, FrameNumbers, WordsOf
      <4>4. image[g.offset].length # 0
        BY <1>6, <4>1, <4>2, <4>3 DEF Word
      <4> QED BY <1>7, <4>4
    <3> QED BY <1>1, <3>1, <3>4, <3>5
  <2> QED BY <2>1, <2>2, <2>3 DEF Arrived
<1> QED BY <1>8, <1>9

\* The scan starts where the subscriber is.
LEMMA ScanHolds ==
  ASSUME TypesInv, ImageInv, ThreadsInv, Scan
  PROVE  TypesInv' /\ ImageInv' /\ ThreadsInv'
<1>1. scanner' = [pc |-> "contiguous", offset |-> subscriber.offset, begin |-> 0,
                  limit |-> high_mark, received |-> received]
  BY DEF Scan
<1>2. high_mark \in Nat /\ subscriber.offset \in Nat /\ received \subseteq DOMAIN Frames
  BY DEF TypesInv
<1>3. TypesInv'
  <2>1. scanner' \in [pc : {"idle", "contiguous", "gap"}, offset : Nat, begin : Nat, limit : Nat,
                      received : SUBSET DOMAIN Frames]
    BY <1>1, <1>2
  <2> QED BY <2>1 DEF TypesInv, Scan, history
<1>4. ScannerInv(image, high_mark, received, scanner')
  <2>1. IsMark(high_mark, received) /\ Reached(image, subscriber.offset)
    BY DEF ImageInv, MarkInv, ThreadsInv, SubscriberInv
  <2> QED BY <1>1, <1>2, <2>1 DEF ScannerInv
<1>5. ImageInv'
  BY DEF ImageInv, Scan, history
<1>6. ThreadsInv'
  BY <1>4 DEF ThreadsInv, Scan, history
<1> QED BY <1>3, <1>5, <1>6

\* It goes from frame to frame ...
LEMMA WalkFramesHolds ==
  ASSUME TypesInv, ImageInv, ThreadsInv, WalkFrames
  PROVE  TypesInv' /\ ImageInv' /\ ThreadsInv'
<1>1. PICK o, n : o = scanner.offset /\ n = image[o].length
  OBVIOUS
<1>2. /\ scanner.pc = "contiguous"
      /\ scanner' = IF o >= scanner.limit THEN Goto(scanner, "idle")
                    ELSE IF n <= 0 THEN [scanner EXCEPT !.pc = "gap", !.begin = o]
                    ELSE [scanner EXCEPT !.offset = o + n]
  BY <1>1 DEF WalkFrames
<1>3. scanner \in [pc : {"idle", "contiguous", "gap"}, offset : Nat, begin : Nat, limit : Nat,
                   received : SUBSET DOMAIN Frames]
  BY DEF TypesInv
<1>4. /\ o \in Nat /\ Reached(image, o) /\ IsMark(scanner.limit, scanner.received)
      /\ scanner.limit \in Nat /\ scanner.limit <= high_mark /\ scanner.received \subseteq received
  BY <1>1, <1>2, <1>3 DEF ThreadsInv, ScannerInv
<1>5. /\ scanner' \in [pc : {"idle", "contiguous", "gap"}, offset : Nat, begin : Nat, limit : Nat,
                       received : SUBSET DOMAIN Frames]
      /\ ScannerInv(image, high_mark, received, scanner')
  <2>1. CASE o >= scanner.limit
    <3>1. scanner' = [scanner EXCEPT !.pc = "idle"]
      BY <1>2, <2>1 DEF Goto
    <3> QED BY <1>3, <3>1 DEF ScannerInv
  <2>2. CASE ~ (o >= scanner.limit)
    <3>1. o < TermLength /\ o < scanner.limit
      BY <1>4, <2>2, MarkInTerm
    <3>2. o \in Offsets
      BY <1>4, <3>1, TermEnd DEF Offsets
    <3>3. n \in Int
      BY <1>1, <3>2 DEF TypesInv, Words
    <3>4. CASE n <= 0
      <4>1. scanner' = [scanner EXCEPT !.pc = "gap", !.begin = o]
        BY <1>2, <2>2, <3>4
      <4>2. /\ scanner' \in [pc : {"idle", "contiguous", "gap"}, offset : Nat, begin : Nat,
                             limit : Nat, received : SUBSET DOMAIN Frames]
            /\ scanner'.pc = "gap" /\ scanner'.begin = o /\ scanner'.offset = o
            /\ scanner'.limit = scanner.limit /\ scanner'.received = scanner.received
        BY <1>1, <1>3, <1>4, <4>1
      <4> QED BY <1>4, <3>1, <4>2 DEF ScannerInv
    <3>5. CASE n > 0
      <4>1. scanner' = [scanner EXCEPT !.offset = o + n]
        BY <1>2, <2>2, <3>3, <3>5
      <4>2. /\ scanner' \in [pc : {"idle", "contiguous", "gap"}, offset : Nat, begin : Nat,
                             limit : Nat, received : SUBSET DOMAIN Frames]
            /\ scanner'.pc = "contiguous" /\ scanner'.offset = o + n
            /\ scanner'.limit = scanner.limit /\ scanner'.received = scanner.received
        BY <1>2, <1>3, <1>4, <3>3, <3>5, <4>1
      <4>3. Reached(image, o + n)
        <5>1. /\ image \in [Offsets -> Words] /\ received \subseteq DOMAIN Frames
              /\ HeadersInv(image, receiver, received) /\ PadsInv(image, network, received)
          BY DEF TypesInv, ImageInv
        <5>2. image[o].length # 0
          BY <1>1, <3>3, <3>5
        <5> QED BY <1>1, <1>4, <3>1, <5>1, <5>2, ReachedNext
      <4> QED BY <1>4, <4>2, <4>3 DEF ScannerInv
    <3> QED BY <3>3, <3>4, <3>5
  <2> QED BY <2>1, <2>2
<1>6. TypesInv'
  BY <1>5 DEF TypesInv, WalkFrames, history
<1>7. ImageInv'
  BY DEF ImageInv, WalkFrames, history
<1>8. ThreadsInv'
  BY <1>5 DEF ThreadsInv, WalkFrames, history
<1> QED BY <1>6, <1>7, <1>8

\* ... and over the gap, which has no frame that was received when the scan began.
LEMMA WalkGapHolds ==
  ASSUME TypesInv, ImageInv, ThreadsInv, WalkGap
  PROVE  TypesInv' /\ ImageInv' /\ ThreadsInv'
<1>1. PICK o, b, limit : o = scanner.offset /\ b = scanner.begin /\ limit = scanner.limit
  OBVIOUS
<1>2. scanner \in [pc : {"idle", "contiguous", "gap"}, offset : Nat, begin : Nat, limit : Nat,
                   received : SUBSET DOMAIN Frames]
  BY DEF TypesInv
<1>3. scanner.pc = "gap"
  BY DEF WalkGap
<1>4. /\ o \in Nat /\ b \in Nat /\ limit \in Nat /\ b < limit /\ b <= o /\ o <= limit
      /\ limit <= high_mark /\ Reached(image, b) /\ scanner.received \subseteq received
      /\ scanner.received \subseteq DOMAIN Frames /\ IsMark(limit, scanner.received)
      /\ \A i \in scanner.received : b <= Start(i) => o <= Start(i)
  BY <1>1, <1>2, <1>3 DEF ThreadsInv, ScannerInv
<1>5. high_mark \in Nat /\ high_mark <= TermLength /\ TermLength \in Nat
  BY MarkInTerm
<1>6. /\ scanner' \in [pc : {"idle", "contiguous", "gap"}, offset : Nat, begin : Nat, limit : Nat,
                       received : SUBSET DOMAIN Frames]
      /\ ScannerInv(image, high_mark, received, scanner')
      /\ gap' \in [offset : Nat, length : Nat, found : SUBSET DOMAIN Frames]
      /\ GapInv(image, high_mark, receiver, received, gap')
  <2>1. CASE /\ o < limit /\ image[o].length = 0
             /\ scanner' = [scanner EXCEPT !.offset = o + 1] /\ UNCHANGED gap
    <3>1. /\ scanner' \in [pc : {"idle", "contiguous", "gap"}, offset : Nat, begin : Nat,
                           limit : Nat, received : SUBSET DOMAIN Frames]
          /\ scanner'.pc = "gap" /\ scanner'.begin = b /\ scanner'.offset = o + 1
          /\ scanner'.limit = limit /\ scanner'.received = scanner.received
      BY <1>1, <1>2, <1>3, <1>4, <2>1
    <3>2. ASSUME NEW i \in scanner.received, b <= Start(i) PROVE o + 1 <= Start(i)
      <4>1. image[Start(i)].length # 0
        BY <1>4 DEF ImageInv, ReceivedInv
      <4>2. o <= Start(i) /\ o # Start(i) /\ Start(i) \in Nat
        BY <1>4, <2>1, <3>2, <4>1, FrameTypes
      <4> QED BY <1>4, <4>2
    <3>3. ScannerInv(image, high_mark, received, scanner')
      BY <1>4, <2>1, <3>1, <3>2 DEF ScannerInv
    <3> QED BY <2>1, <3>1, <3>3 DEF TypesInv, ThreadsInv
  <2>2. CASE /\ o >= limit \/ image[o].length # 0
             /\ scanner' = Goto(scanner, "idle")
             /\ gap' = IF o - b > 0 THEN [offset |-> b, length |-> o - b, found |-> scanner.received]
                       ELSE gap
    <3>1. scanner' = [scanner EXCEPT !.pc = "idle"]
      BY <2>2 DEF Goto
    <3>2. /\ scanner' \in [pc : {"idle", "contiguous", "gap"}, offset : Nat, begin : Nat,
                           limit : Nat, received : SUBSET DOMAIN Frames]
          /\ ScannerInv(image, high_mark, received, scanner')
      BY <1>2, <3>1 DEF ScannerInv
    <3>3. CASE ~ (o - b > 0)
      BY <2>2, <3>2, <3>3 DEF TypesInv, ThreadsInv
    <3>4. CASE o - b > 0
      <4>1. PICK g : g = [offset |-> b, length |-> o - b, found |-> scanner.received]
        OBVIOUS
      <4>2. /\ gap' = g /\ g \in [offset : Nat, length : Nat \ {0}, found : SUBSET DOMAIN Frames]
            /\ g.offset = b /\ g.length = o - b /\ g.found = scanner.received
            /\ g.offset + g.length = o
        BY <1>4, <2>2, <3>4, <4>1
      <4>3. Spoiled(image, receiver, g) \/ \E i \in received : Start(i) = o
        <5>1. CASE o >= limit
          <6>1. o = limit /\ limit # 0
            BY <1>4, <5>1
          <6>2. PICK i \in scanner.received : WireEnd(i) = o
            BY <1>4, <6>1 DEF IsMark
          <6>3. /\ i \in DOMAIN Frames /\ Start(i) \in Nat /\ Finish(i) \in Nat /\ Start(i) < o
                /\ o <= Finish(i)
            BY <1>4, <6>2, FrameTypes
          <6>4. Start(i) < b
            BY <1>4, <6>3
          <6>5. Finish(i) <= b
            BY <1>4, <6>3, <6>4, BoundaryFacts DEF Reached
          <6> QED BY <1>4, <3>4, <6>3, <6>5
        <5>2. CASE o < limit
          <6>1. o \in Offsets
            BY <1>4, <1>5, <5>2 DEF Offsets
          <6>2. image[o].length # 0
            BY <1>4, <2>2, <5>2
          <6> QED BY <1>4, <4>2, <6>1, <6>2, GapEnds
        <5> QED BY <1>4, <5>1, <5>2
      <4>4. GapOK(image, high_mark, receiver, received, g)
        BY <1>4, <1>5, <4>2, <4>3 DEF GapOK
      <4>5. \A i \in g.found : Start(i) \notin Span(g.offset, g.length)
        <5>1. SUFFICES ASSUME NEW i \in scanner.received PROVE Start(i) \notin Span(b, o - b)
          BY <4>2
        <5>2. Start(i) \in Nat /\ (b <= Start(i) => o <= Start(i))
          BY <1>4, FrameTypes
        <5> QED BY <1>4, <5>2 DEF Span
      <4>6. GapInv(image, high_mark, receiver, received, gap')
        BY <4>2, <4>4, <4>5 DEF GapInv
      <4>7. gap' \in [offset : Nat, length : Nat, found : SUBSET DOMAIN Frames]
        BY <4>2
      <4> QED BY <3>2, <4>6, <4>7
    <3> QED BY <3>3, <3>4
  <2> QED BY <1>1, <2>1, <2>2 DEF WalkGap
<1>7. TypesInv'
  BY <1>6 DEF TypesInv, WalkGap, history
<1>8. ImageInv'
  BY DEF ImageInv, WalkGap, history
<1>9. ThreadsInv'
  BY <1>6 DEF ThreadsInv, WalkGap, history
<1> QED BY <1>7, <1>8, <1>9

-----------------------------------------------------------------------------
(* The filler.                                                             *)

\* It takes the gap over ...
LEMMA FillHolds ==
  ASSUME TypesInv, ImageInv, ThreadsInv, Fill
  PROVE  TypesInv' /\ ImageInv' /\ ThreadsInv'
<1>1. PICK f : f = [pc |-> "check", offset |-> gap.offset, length |-> gap.length,
                    at |-> gap.offset + gap.length - 1, received |-> received]
  OBVIOUS
<1>2. filler' = f /\ gap' = NoGap /\ gap # NoGap
  BY <1>1 DEF Fill
<1>3. /\ gap.offset \in Nat /\ gap.length \in Nat /\ received \subseteq DOMAIN Frames
      /\ NoGap \in [offset : Nat, length : Nat, found : SUBSET DOMAIN Frames]
  BY DEF TypesInv, NoGap
<1>4. GapOK(image, high_mark, receiver, received, gap)
  BY <1>2 DEF ThreadsInv, GapInv
<1>5. /\ f.pc = "check" /\ f.offset = gap.offset /\ f.length = gap.length
      /\ f.at = gap.offset + gap.length - 1 /\ f.received = received
      /\ f \in [pc : {"idle", "check", "header", "type", "length"}, offset : Nat, length : Nat,
                at : Int, received : SUBSET DOMAIN Frames]
  BY <1>1, <1>3
<1>6. TypesInv'
  BY <1>2, <1>3, <1>5 DEF TypesInv, Fill, history
<1>7. GapOK(image, high_mark, receiver, received, f)
  BY <1>4, <1>5 DEF GapOK, Spoiled, FramesIn
<1>8. f.length > 0
  BY <1>4, <1>5 DEF GapOK
<1>9. ASSUME NEW i \in FramesIn(f) PROVE Start(i) <= f.at
  <2>1. Start(i) \in Nat /\ Start(i) < f.offset + f.length
    BY <1>3, <1>5, InSpan, FrameTypes DEF PacketEnd
  <2> QED BY <1>3, <1>5, <2>1
<1>10. FillerInv(image, high_mark, receiver, received, f)
  BY <1>3, <1>5, <1>7, <1>8, <1>9 DEF FillerInv
<1>11. GapInv(image, high_mark, receiver, received, NoGap)
  BY DEF GapInv
<1>12. ImageInv'
  BY DEF ImageInv, Fill, history
<1>13. ThreadsInv'
  BY <1>2, <1>10, <1>11 DEF ThreadsInv, Fill, history
<1> QED BY <1>6, <1>12, <1>13

\* ... looks at every word of it, where a received frame would be seen ...
LEMMA CheckEmptyHolds ==
  ASSUME TypesInv, ImageInv, ThreadsInv, CheckEmpty
  PROVE  TypesInv' /\ ImageInv' /\ ThreadsInv'
<1>1. PICK at, b : at = filler.at /\ b = filler.offset
  OBVIOUS
<1>2. /\ filler.pc = "check"
      /\ filler' = IF FrameLength(image, at) # 0 THEN [filler EXCEPT !.pc = "idle"]
                   ELSE IF at = b THEN [filler EXCEPT !.pc = "header"]
                   ELSE [filler EXCEPT !.at = at - 1]
  BY <1>1 DEF CheckEmpty, Goto
<1>3. filler \in [pc : {"idle", "check", "header", "type", "length"}, offset : Nat, length : Nat,
                  at : Int, received : SUBSET DOMAIN Frames]
  BY DEF TypesInv
<1>4. /\ GapOK(image, high_mark, receiver, received, filler)
      /\ b <= at /\ at < b + filler.length /\ filler.received \subseteq received
      /\ \A i \in FramesIn(filler) \cap filler.received : Start(i) <= at
  BY <1>1, <1>2 DEF ThreadsInv, FillerInv
<1>5. b \in Nat /\ at \in Nat /\ at \in Offsets
  <2>1. b \in Nat /\ at \in Nat /\ b + filler.length \in Nat
    BY <1>1, <1>3, <1>4
  <2>2. b + filler.length <= high_mark
    BY <1>1, <1>4 DEF GapOK
  <2> QED BY <1>4, <2>1, <2>2, MarkInTerm DEF Offsets
<1>6. PICK f : f = filler'
  OBVIOUS
<1>7. /\ f \in [pc : {"idle", "check", "header", "type", "length"}, offset : Nat, length : Nat,
                at : Int, received : SUBSET DOMAIN Frames]
      /\ f.offset = b /\ f.length = filler.length /\ f.received = filler.received
      /\ f.pc = IF FrameLength(image, at) # 0 THEN "idle" ELSE IF at = b THEN "header" ELSE "check"
      /\ f.pc = "check" => f.at = at - 1
  BY <1>1, <1>2, <1>3, <1>5, <1>6
<1>8. FillerInv(image, high_mark, receiver, received, f)
  <2>1. CASE f.pc = "idle"
    BY <2>1 DEF FillerInv
  <2>2. CASE f.pc # "idle"
    <3>1. image[at].length = 0
      BY <1>5, <1>7, <2>2 DEF TypesInv, FrameLength
    <3>2. FramesIn(f) = FramesIn(filler) /\ GapOK(image, high_mark, receiver, received, f)
      BY <1>1, <1>4, <1>7 DEF GapOK, Spoiled, FramesIn
    <3>3. ASSUME NEW i \in FramesIn(f) \cap f.received
          PROVE  Start(i) \in Nat /\ b <= Start(i) /\ Start(i) <= at - 1
      <4>1. i \in received /\ i \in DOMAIN Frames /\ Start(i) <= at
        BY <1>3, <1>4, <1>7, <3>2, <3>3 DEF FramesIn
      <4>2. image[Start(i)].length # 0
        BY <4>1 DEF ImageInv, ReceivedInv
      <4>3. Start(i) \in Nat /\ b <= Start(i)
        BY <1>7, <4>1, InSpan, FrameTypes
      <4> QED BY <1>5, <3>1, <4>1, <4>2, <4>3
    <3>4. CASE f.pc = "header"
      <4>1. at = b
        BY <1>7, <3>4
      <4>2. FramesIn(f) \cap f.received = {}
        BY <1>5, <3>3, <4>1
      <4>3. ~ IsPad(image, f.offset)
        BY <1>7, <3>1, <4>1 DEF IsPad
      <4> QED BY <3>2, <3>4, <4>2, <4>3 DEF FillerInv
    <3>5. CASE f.pc = "check"
      <4>1. f.at = at - 1 /\ at # b
        BY <1>7, <3>5
      <4>2. f.offset <= f.at /\ f.at < f.offset + f.length /\ f.received \subseteq received
        BY <1>3, <1>4, <1>5, <1>7, <4>1
      <4> QED BY <3>2, <3>3, <3>5, <4>1, <4>2 DEF FillerInv
    <3> QED BY <1>7, <2>2, <3>4, <3>5
  <2> QED BY <2>1, <2>2
<1>9. TypesInv'
  BY <1>6, <1>7 DEF TypesInv, CheckEmpty, history
<1>10. ImageInv'
  BY DEF ImageInv, CheckEmpty, history
<1>11. ThreadsInv'
  BY <1>6, <1>8 DEF ThreadsInv, CheckEmpty, history
<1> QED BY <1>9, <1>10, <1>11

\* ... and where nothing is found, and nothing arrives, nothing is, and the gap ends at a
\* frame.
LEMMA GapEmpty ==
  ASSUME TypesInv, ImageInv, ThreadsInv, filler.pc = "header",
         FramesIn(filler) \cap (received \ filler.received) = {},
         ~ (receiver.pc # "idle" /\ Overlapping(receiver, filler))
  PROVE  /\ filler.offset \in Offsets /\ filler.offset \in Nat /\ filler.length \in Nat \ {0}
         /\ \A i \in FramesIn(filler) : image[Start(i)].length = 0
         /\ image[filler.offset].length = 0
         /\ FramesIn(filler) \cap received = {}
         /\ receiver.pc # "idle" => receiver.offset # filler.offset
         /\ \E i \in received : Start(i) = filler.offset + filler.length
<1>1. PICK b, l, e : b = filler.offset /\ l = filler.length /\ e = b + l
  OBVIOUS
<1>2. /\ GapOK(image, high_mark, receiver, received, filler)
      /\ FramesIn(filler) \cap filler.received = {} /\ ~ IsPad(image, b)
  BY <1>1 DEF ThreadsInv, FillerInv
<1>3. b \in Nat /\ l \in Nat /\ filler.offset \in Nat /\ filler.length \in Nat
  BY <1>1 DEF TypesInv
<1>4. l > 0 /\ Reached(image, b) /\ e <= high_mark /\ e \in Nat /\ b < e
  BY <1>1, <1>2, <1>3 DEF GapOK
<1>5. b < TermLength /\ b \in Offsets
  BY <1>3, <1>4, MarkInTerm DEF Offsets
<1>6. PICK k \in DOMAIN Frames : Start(k) = b
  BY <1>4, <1>5, BoundaryFacts DEF Reached
<1>7. /\ \A i \in DOMAIN Frames : i \in FramesIn(filler) <=> b <= Start(i) /\ Start(i) < e
      /\ \A offset \in Nat : offset \in Span(filler.offset, filler.length) <=> b <= offset /\ offset < e
      /\ FramesIn(filler) \subseteq DOMAIN Frames
  BY <1>1, <1>3, InSpan DEF PacketEnd
<1>8. FramesIn(filler) \cap received = {}
  BY <1>2
<1>9. receiver.offset \in Nat /\ receiver.length \in Nat
  BY DEF TypesInv
<1>10. ASSUME NEW at \in Nat, receiver.pc # "idle", b <= at, at < e
       PROVE  ~ (receiver.offset <= at /\ at < PacketEnd(receiver))
  BY <1>7, <1>9, <1>10, InSpan DEF Overlapping
<1>11. receiver.pc # "idle" => receiver.offset < PacketEnd(receiver)
  BY PacketInserted
<1>12. ASSUME NEW i \in FramesIn(filler) PROVE ~ Arrived(receiver, received, i)
  <2>1. i \in DOMAIN Frames /\ Start(i) \in Nat /\ b <= Start(i) /\ Start(i) < e
    BY <1>7, FrameTypes
  <2>2. receiver.pc # "idle" => i \notin FramesIn(receiver)
    BY <1>9, <1>10, <2>1, InSpan
  <2> QED BY <1>8, <2>2 DEF Arrived
<1>13. k \in FramesIn(filler)
  BY <1>3, <1>4, <1>6, <1>7
<1>14. image[b].length = 0
  BY <1>2, <1>6, <1>12, <1>13 DEF ImageInv, HeadersInv
<1>15. ASSUME NEW i \in FramesIn(filler) PROVE image[Start(i)].length = 0
  <2>1. i \in DOMAIN Frames /\ Start(i) \in Nat /\ b <= Start(i) /\ Start(i) \in Offsets
    BY <1>7, StartOffset
  <2>2. ~ IsPad(image, Start(i))
    <3>1. SUFFICES ASSUME IsPad(image, Start(i)) PROVE FALSE
      OBVIOUS
    <3>2. Reached(image, Start(i))
      BY <2>1, <3>1 DEF ImageInv, PadsInv, PadInv
    <3>3. b < Start(i)
      BY <1>2, <1>3, <2>1, <3>1
    <3> QED BY <1>4, <1>14, <3>2, <3>3, ReachedBefore
  <2> QED BY <1>12, <2>1, <2>2 DEF ImageInv, HeadersInv
<1>16. receiver.pc # "idle" => ~ (b <= receiver.offset /\ receiver.offset < e)
  BY <1>9, <1>10, <1>11
<1>17. ~ Spoiled(image, receiver, filler)
  BY <1>7, <1>9, <1>15, <1>16 DEF Spoiled
<1>18. \E i \in received : Start(i) = e
  BY <1>1, <1>2, <1>17 DEF GapOK
<1> QED BY <1>1, <1>3, <1>4, <1>5, <1>8, <1>14, <1>15, <1>16, <1>18

\* A word at a boundary that is not in the packet that is being inserted: frames are
\* not touched if it becomes empty, or padding.
LEMMA WordHolds ==
  ASSUME TypesInv, ImageInv, ThreadsInv, NEW new \in [Offsets -> Words], NEW b \in Offsets,
         b \in Boundaries, new[b].length = 0 \/ IsPad(new, b),
         \A offset \in Offsets : offset # b => new[offset] = image[offset],
         receiver.pc # "idle" => ~ (receiver.offset <= b /\ b < PacketEnd(receiver))
  PROVE  /\ HeadersInv(new, receiver, received)
         /\ PayloadsInv(new, receiver, received)
         /\ ReceiverInv(new, network, receiver)
<1>1. b \in Nat /\ b \in Boundaries
  BY TermEnd DEF Offsets
<1>2. ASSUME NEW i \in DOMAIN Frames, Start(i) # b, Whole(image, i) PROVE Whole(new, i)
  <2>1. SUFFICES ASSUME NEW at \in Nat, Start(i) <= at, at < WireEnd(i) PROVE new[at] = Contents[at]
    BY DEF Whole
  <2>2. /\ Start(i) \in Nat /\ Finish(i) \in Nat /\ WireEnd(i) \in Nat /\ WireEnd(i) <= Finish(i)
    BY FrameTypes
  <2>3. at < Finish(i) /\ at \in Offsets
    BY <2>1, <2>2, WordsOf, FrameNumbers
  <2>4. ~ (Start(i) < b) \/ Finish(i) <= b
    BY <1>1, BoundaryFacts
  <2>5. at # b
    BY <1>1, <1>2, <2>1, <2>2, <2>3, <2>4
  <2> QED BY <1>2, <2>1, <2>3, <2>5 DEF Whole
<1>3. HeadersInv(new, receiver, received)
  <2>1. SUFFICES ASSUME NEW i \in DOMAIN Frames, new[Start(i)].length # 0, ~ IsPad(new, Start(i))
                 PROVE  Whole(new, i) /\ Arrived(receiver, received, i)
    BY DEF HeadersInv
  <2>2. Start(i) # b /\ new[Start(i)] = image[Start(i)]
    BY <2>1, StartOffset
  <2>3. Whole(image, i) /\ Arrived(receiver, received, i)
    BY <2>1, <2>2 DEF ImageInv, HeadersInv, IsPad
  <2> QED BY <1>2, <2>2, <2>3
<1>4. PayloadsInv(new, receiver, received)
  <2>1. SUFFICES ASSUME NEW i \in DOMAIN Frames, NEW at \in Nat, Start(i) < at, at < Finish(i),
                        new[at].length # 0
                 PROVE  Arrived(receiver, received, i)
    BY DEF PayloadsInv
  <2>2. at \in Offsets /\ Finish(i) \in Nat
    BY <2>1, FrameTypes, TermEnd DEF Offsets
  <2>3. at # b
    BY <1>1, <2>1, <2>2, BoundaryFacts
  <2> QED BY <2>1, <2>2, <2>3 DEF ImageInv, PayloadsInv
<1>5. ReceiverInv(new, network, receiver)
  <2>1. SUFFICES ASSUME receiver.pc # "idle" PROVE ReceiverInv(new, network, receiver)
    BY DEF ReceiverInv
  <2>2. /\ receiver.offset \in Nat /\ receiver.offset < PacketEnd(receiver)
        /\ PacketEnd(receiver) <= TermLength /\ PacketEnd(receiver) \in Nat
        /\ image[receiver.offset].length = 0
    BY <2>1, PacketInserted
  <2>4. ASSUME NEW at \in Nat, receiver.offset <= at, at < PacketEnd(receiver)
        PROVE  new[at] = image[at]
    <3>1. at \in Offsets
      BY <2>2, <2>4, TermEnd DEF Offsets
    <3> QED BY <2>1, <2>4, <3>1
  <2>5. new[receiver.offset] = image[receiver.offset]
    BY <2>2, <2>4
  <2>6. ASSUME receiver.pc = "publish", NEW at \in Nat, receiver.offset < at, at < PacketEnd(receiver)
        PROVE  new[at] = Contents[at]
    BY <2>2, <2>4, <2>6 DEF ThreadsInv, ReceiverInv
  <2> QED BY <2>1, <2>2, <2>5, <2>6 DEF ThreadsInv, ReceiverInv
<1> QED BY <1>3, <1>4, <1>5

\* An empty word where the readers come to may become another, in the image of a gap
\* that nothing arrives in.
LEMMA EmptyWordHolds ==
  ASSUME TypesInv, ImageInv, ThreadsInv, NEW new \in [Offsets -> Words], NEW b \in Offsets,
         Reached(image, b), image[b].length = 0, new[b].length = 0,
         \A offset \in Offsets : offset # b => new[offset] = image[offset],
         receiver.pc # "idle" => ~ (receiver.offset <= b /\ b < PacketEnd(receiver))
  PROVE  /\ Steady(image, new)
         /\ HeadersInv(new, receiver, received)
         /\ PayloadsInv(new, receiver, received)
         /\ ReceivedInv(new, network, received, high_mark)
         /\ PadsInv(new, network, received)
         /\ FilledInv(new, filled)
         /\ PacketsInv(new, network, sender, high_mark)
         /\ ReceiverInv(new, network, receiver)
         /\ ScannerInv(new, high_mark, received, scanner)
         /\ GapInv(new, high_mark, receiver, received, gap)
         /\ SubscriberInv(new, subscriber)
<1>1. Steady(image, new)
  BY StartOffset DEF Steady, IsPad
<1>2. /\ HeadersInv(new, receiver, received)
      /\ PayloadsInv(new, receiver, received)
      /\ ReceiverInv(new, network, receiver)
  BY WordHolds DEF Reached
<1>3. /\ ReceivedInv(new, network, received, high_mark)
      /\ PadsInv(new, network, received)
      /\ FilledInv(new, filled)
      /\ PacketsInv(new, network, sender, high_mark)
      /\ ScannerInv(new, high_mark, received, scanner)
  <2>1. received \subseteq DOMAIN Frames
    BY DEF TypesInv
  <2> QED BY <1>1, <2>1, SteadyKeeps DEF ImageInv, ThreadsInv
<1>4. GapInv(new, high_mark, receiver, received, gap)
  <2>1. SUFFICES ASSUME gap # NoGap, GapOK(image, high_mark, receiver, received, gap)
                 PROVE  GapOK(new, high_mark, receiver, received, gap)
    BY DEF ThreadsInv, GapInv
  <2>2. gap.offset \in Nat /\ gap.length \in Nat /\ high_mark \in Nat
    BY DEF TypesInv
  <2>3. /\ gap.offset + gap.length \in Nat /\ high_mark <= high_mark /\ received \subseteq received
    BY <2>2
  <2>4. Spoiled(image, receiver, gap) => Spoiled(new, receiver, gap)
    BY <1>1 DEF Spoiled, Steady, FramesIn
  <2> QED BY <1>1, <2>1, <2>2, <2>3, <2>4, GapStays
<1>5. SubscriberInv(new, subscriber)
  BY <1>1, SteadyStays DEF ThreadsInv, SubscriberInv
<1> QED BY <1>1, <1>2, <1>3, <1>4, <1>5

\* Then it writes a header over the empty word, which nobody notices, ...
LEMMA DefaultHeaderHolds ==
  ASSUME TypesInv, ImageInv, ThreadsInv, ApplyDefaultHeader, ~ overlap'
  PROVE  TypesInv' /\ ImageInv' /\ ThreadsInv'
<1>1. PICK b : b = filler.offset
  OBVIOUS
<1>2. /\ filler.pc = "header"
      /\ filler' = [filler EXCEPT !.pc = "type"]
      /\ image' = [image EXCEPT ![b] = DefaultHeader]
      /\ FramesIn(filler) \cap (received \ filler.received) = {}
      /\ ~ (receiver.pc # "idle" /\ Overlapping(receiver, filler))
  BY <1>1 DEF ApplyDefaultHeader, Goto
<1>3. /\ b \in Offsets /\ b \in Nat /\ filler.length \in Nat \ {0} /\ image[b].length = 0
      /\ FramesIn(filler) \cap received = {}
      /\ \E i \in received : Start(i) = filler.offset + filler.length
  BY <1>1, <1>2, GapEmpty
<1>4. PICK new : new = [image EXCEPT ![b] = DefaultHeader]
  OBVIOUS
<1>5. /\ new \in [Offsets -> Words] /\ new[b] = DefaultHeader /\ new[b].length = 0
      /\ \A offset \in Offsets : offset # b => new[offset] = image[offset]
  BY <1>3, <1>4 DEF TypesInv, Words, DefaultHeader
<1>6. Reached(image, b)
  BY <1>1, <1>2 DEF ThreadsInv, FillerInv, GapOK
<1>7. receiver.pc # "idle" => ~ (receiver.offset <= b /\ b < PacketEnd(receiver))
  <2>1. b \in Span(filler.offset, filler.length)
    BY <1>1, <1>3, InSpan DEF PacketEnd
  <2>2. receiver.offset \in Nat /\ receiver.length \in Nat
    BY DEF TypesInv
  <2> QED BY <1>2, <1>3, <2>1, <2>2, InSpan DEF Overlapping
<1>8. /\ Steady(image, new)
      /\ HeadersInv(new, receiver, received)
      /\ PayloadsInv(new, receiver, received)
      /\ ReceivedInv(new, network, received, high_mark)
      /\ PadsInv(new, network, received)
      /\ FilledInv(new, filled)
      /\ PacketsInv(new, network, sender, high_mark)
      /\ ReceiverInv(new, network, receiver)
      /\ ScannerInv(new, high_mark, received, scanner)
      /\ GapInv(new, high_mark, receiver, received, gap)
      /\ SubscriberInv(new, subscriber)
  BY <1>3, <1>5, <1>6, <1>7, EmptyWordHolds
<1>9. Reached(new, b)
  BY <1>6, <1>8, SteadyStays
<1>10. PICK f : f = filler'
  OBVIOUS
<1>11. /\ f \in [pc : {"idle", "check", "header", "type", "length"}, offset : Nat, length : Nat,
                 at : Int, received : SUBSET DOMAIN Frames]
       /\ f.pc = "type" /\ f.offset = b /\ f.length = filler.length
  BY <1>1, <1>2, <1>10 DEF TypesInv
<1>12. FramesIn(f) = FramesIn(filler) /\ (Overlapping(receiver, f) <=> Overlapping(receiver, filler))
  BY <1>1, <1>11 DEF FramesIn, Overlapping
<1>13. FillerInv(new, high_mark, receiver, received, f)
  BY <1>1, <1>2, <1>3, <1>5, <1>9, <1>11, <1>12 DEF FillerInv
<1>14. TypesInv'
  BY <1>2, <1>4, <1>5, <1>10, <1>11 DEF TypesInv, ApplyDefaultHeader
<1>15. ImageInv'
  BY <1>2, <1>4, <1>8 DEF ImageInv, ApplyDefaultHeader
<1>16. ThreadsInv'
  BY <1>2, <1>4, <1>8, <1>10, <1>13 DEF ThreadsInv, ApplyDefaultHeader
<1> QED BY <1>14, <1>15, <1>16

\* ... the type ...
LEMMA PadTypeHolds ==
  ASSUME TypesInv, ImageInv, ThreadsInv, PadType
  PROVE  TypesInv' /\ ImageInv' /\ ThreadsInv'
<1>1. PICK b : b = filler.offset
  OBVIOUS
<1>2. /\ filler.pc = "type"
      /\ filler' = [filler EXCEPT !.pc = "length"]
      /\ image' = [image EXCEPT ![b].type = "PAD"]
  BY <1>1 DEF PadType, Goto
<1>3. /\ filler.length > 0 /\ Reached(image, b)
      /\ \E i \in received : Start(i) = filler.offset + filler.length
      /\ FramesIn(filler) \cap received = {}
      /\ receiver.pc # "idle" => ~ Overlapping(receiver, filler)
      /\ image[b] = DefaultHeader
  BY <1>1, <1>2 DEF ThreadsInv, FillerInv
<1>4. b \in Nat /\ filler.offset \in Nat /\ filler.length \in Nat /\ received \subseteq DOMAIN Frames
  BY <1>1 DEF TypesInv
<1>5. b \in Offsets
  <2>1. PICK i \in DOMAIN Frames : Start(i) = b + filler.length
    BY <1>1, <1>3, <1>4
  <2>2. b < TermLength
    BY <1>3, <1>4, <2>1, StartOffset, TermEnd
  <2> QED BY <1>4, <2>2, TermEnd DEF Offsets
<1>6. PICK new : new = [image EXCEPT ![b].type = "PAD"]
  OBVIOUS
<1>7. /\ new \in [Offsets -> Words] /\ new[b] = Empty /\ new[b].length = 0 /\ image[b].length = 0
      /\ \A offset \in Offsets : offset # b => new[offset] = image[offset]
  <2>1. image \in [Offsets -> Words]
    BY DEF TypesInv
  <2>2. new[b] = [image[b] EXCEPT !.type = "PAD"]
    BY <1>5, <1>6, <2>1
  <2>3. new[b] = Empty /\ Empty \in Words /\ Empty.length = 0 /\ image[b].length = 0
    BY <1>3, <2>2 DEF Words, DefaultHeader, Empty
  <2>4. \A offset \in Offsets : offset # b => new[offset] = image[offset]
    BY <1>5, <1>6, <2>1
  <2>5. new = [offset \in Offsets |-> new[offset]]
    BY <1>6, <2>1
  <2> QED BY <2>1, <2>3, <2>4, <2>5
<1>8. receiver.pc # "idle" => ~ (receiver.offset <= b /\ b < PacketEnd(receiver))
  <2>1. b \in Span(filler.offset, filler.length)
    BY <1>1, <1>3, <1>4, InSpan DEF PacketEnd
  <2>2. receiver.offset \in Nat /\ receiver.length \in Nat
    BY DEF TypesInv
  <2> QED BY <1>3, <1>4, <2>1, <2>2, InSpan DEF Overlapping
<1>9. /\ Steady(image, new)
      /\ HeadersInv(new, receiver, received)
      /\ PayloadsInv(new, receiver, received)
      /\ ReceivedInv(new, network, received, high_mark)
      /\ PadsInv(new, network, received)
      /\ FilledInv(new, filled)
      /\ PacketsInv(new, network, sender, high_mark)
      /\ ReceiverInv(new, network, receiver)
      /\ ScannerInv(new, high_mark, received, scanner)
      /\ GapInv(new, high_mark, receiver, received, gap)
      /\ SubscriberInv(new, subscriber)
  BY <1>3, <1>5, <1>7, <1>8, EmptyWordHolds
<1>10. Reached(new, b)
  BY <1>3, <1>9, SteadyStays
<1>11. PICK f : f = filler'
  OBVIOUS
<1>12. /\ f \in [pc : {"idle", "check", "header", "type", "length"}, offset : Nat, length : Nat,
                 at : Int, received : SUBSET DOMAIN Frames]
       /\ f.pc = "length" /\ f.offset = b /\ f.length = filler.length
  BY <1>1, <1>2, <1>11 DEF TypesInv
<1>13. FramesIn(f) = FramesIn(filler) /\ (Overlapping(receiver, f) <=> Overlapping(receiver, filler))
  BY <1>1, <1>12 DEF FramesIn, Overlapping
<1>14. FillerInv(new, high_mark, receiver, received, f)
  BY <1>1, <1>3, <1>7, <1>10, <1>12, <1>13 DEF FillerInv
<1>15. TypesInv'
  BY <1>2, <1>6, <1>7, <1>11, <1>12 DEF TypesInv, PadType, history
<1>16. ImageInv'
  BY <1>2, <1>6, <1>9 DEF ImageInv, PadType, history
<1>17. ThreadsInv'
  BY <1>2, <1>6, <1>9, <1>11, <1>14 DEF ThreadsInv, PadType, history
<1> QED BY <1>15, <1>16, <1>17

\* ... and the length, which makes it padding: then it reaches from where the readers
\* come to, to a received frame, and no packet in it goes on behind it.
LEMMA PadLengthHolds ==
  ASSUME TypesInv, ImageInv, ThreadsInv, PadLength
  PROVE  TypesInv' /\ ImageInv' /\ ThreadsInv'
<1>1. PICK b, l, e : b = filler.offset /\ l = filler.length /\ e = b + l
  OBVIOUS
<1>2. /\ filler.pc = "length"
      /\ filler' = [filler EXCEPT !.pc = "idle"]
      /\ image' = [image EXCEPT ![b].length = l]
      /\ filled' = filled \cup Span(b, l)
  BY <1>1 DEF PadLength, Goto
<1>3. /\ l > 0 /\ Reached(image, b)
      /\ \E i \in received : Start(i) = e
      /\ FramesIn(filler) \cap received = {}
      /\ receiver.pc # "idle" => ~ Overlapping(receiver, filler)
      /\ image[b] = Empty
  BY <1>1, <1>2 DEF ThreadsInv, FillerInv
<1>4. /\ b \in Nat /\ l \in Nat \ {0} /\ e \in Nat /\ b < e
      /\ filler.offset \in Nat /\ filler.length \in Nat /\ received \subseteq DOMAIN Frames
  <2>1. filler.offset \in Nat /\ filler.length \in Nat /\ received \subseteq DOMAIN Frames
    BY DEF TypesInv
  <2> QED BY <1>1, <1>3, <2>1
<1>5. b \in Offsets
  <2>1. PICK i \in DOMAIN Frames : Start(i) = e
    BY <1>3, <1>4
  <2>2. b < TermLength
    BY <1>4, <2>1, StartOffset, TermEnd
  <2> QED BY <1>4, <2>2, TermEnd DEF Offsets
<1>6. PICK new : new = [image EXCEPT ![b].length = l]
  OBVIOUS
<1>7. /\ new \in [Offsets -> Words] /\ new[b] = [length |-> l, type |-> "PAD", frame |-> 0]
      /\ image[b].length = 0
      /\ \A offset \in Offsets : offset # b => new[offset] = image[offset]
  <2>1. image \in [Offsets -> Words]
    BY DEF TypesInv
  <2>2. new[b] = [image[b] EXCEPT !.length = l]
    BY <1>5, <1>6, <2>1
  <2>3. /\ new[b] = [length |-> l, type |-> "PAD", frame |-> 0]
        /\ new[b] \in Words /\ image[b].length = 0
    BY <1>3, <1>4, <2>2 DEF Words, Empty
  <2>4. \A offset \in Offsets : offset # b => new[offset] = image[offset]
    BY <1>5, <1>6, <2>1
  <2>5. new = [offset \in Offsets |-> new[offset]]
    BY <1>6, <2>1
  <2> QED BY <2>1, <2>3, <2>4, <2>5
<1>8. IsPad(new, b) /\ new[b].length = l /\ ~ IsPad(image, b)
  BY <1>4, <1>7 DEF IsPad
<1>9. /\ \A x : Covered(new, x) <=> Covered(image, x) \/ (b < x /\ x < e)
      /\ \A x : Reached(image, x) => Reached(new, x)
  BY <1>1, <1>3, <1>4, <1>5, <1>7, <1>8, PaddingStays
<1>10. \A x : Reached(image, x) => ~ (b < x)
  BY <1>3, <1>7, ReachedBefore
<1>11. /\ \A offset \in Nat : offset \in Span(b, l) <=> b <= offset /\ offset < e
       /\ \A i \in DOMAIN Frames : i \in FramesIn(filler) <=> b <= Start(i) /\ Start(i) < e
  BY <1>1, <1>4, InSpan DEF PacketEnd
<1>12. receiver.pc # "idle" => ~ (receiver.offset <= b /\ b < PacketEnd(receiver))
  <2>1. b \in Span(filler.offset, filler.length)
    BY <1>1, <1>4, <1>11
  <2>2. receiver.offset \in Nat /\ receiver.length \in Nat
    BY DEF TypesInv
  <2> QED BY <1>3, <1>4, <2>1, <2>2, InSpan DEF Overlapping
<1>13. /\ HeadersInv(new, receiver, received)
       /\ PayloadsInv(new, receiver, received)
       /\ ReceiverInv(new, network, receiver)
  BY <1>3, <1>5, <1>7, <1>8, <1>12, WordHolds DEF Reached
<1>14. \A offset \in Offsets : image[offset].length # 0 => new[offset] = image[offset]
  BY <1>7
<1>15. ReceivedInv(new, network, received, high_mark)
  BY <1>4, <1>14, StartOffset DEF ImageInv, ReceivedInv
<1>16. ASSUME NEW p \in network, b < p.offset, p.offset < e PROVE PacketEnd(p) <= e
  <2>1. SUFFICES ASSUME ~ (PacketEnd(p) <= e) PROVE FALSE
    OBVIOUS
  <2>2. PICK k \in received : Start(k) = e
    BY <1>3
  <2>3. PICK q \in network : k \in FramesIn(q) /\ FramesIn(q) \subseteq received
    BY <2>2 DEF ImageInv, ReceivedInv
  <2>4. /\ p \in [offset : Nat, length : Nat] /\ q \in [offset : Nat, length : Nat]
        /\ PacketInv(sender, high_mark, p) /\ PacketInv(sender, high_mark, q)
    BY DEF TypesInv, ImageInv, PacketsInv
  <2>5. /\ p.offset \in Nat /\ PacketEnd(p) \in Nat /\ q.offset \in Nat /\ PacketEnd(q) \in Nat
        /\ \E i \in FramesIn(p) : p.offset = Start(i)
    BY <2>4, PacketFrames
  <2>6. q.offset <= e /\ e < PacketEnd(q)
    BY <1>4, <2>2, <2>3, <2>4, InSpan
  <2>7. ~ Asked(image, high_mark, p)
    BY <1>10, <1>16 DEF Asked
  <2>8. ~ Asked(image, high_mark, q)
    <3>1. SUFFICES ASSUME Reached(image, q.offset) PROVE FALSE
      BY DEF Asked
    <3>2. q.offset <= b
      BY <1>4, <1>10, <2>5, <3>1
    <3>3. PICK i \in DOMAIN Frames : Start(i) = b
      <4>1. b < TermLength /\ b \in Boundaries
        BY <1>3, <1>5, TermEnd DEF Offsets, Reached
      <4>2. \E i \in DOMAIN Frames : b = Start(i)
        BY <4>1, BoundaryFacts
      <4> QED BY <4>2
    <3>4. i \in FramesIn(q)
      BY <1>4, <2>4, <2>5, <2>6, <3>2, <3>3, InSpan
    <3>5. i \in FramesIn(filler)
      BY <1>4, <1>11, <3>3
    <3> QED BY <1>3, <2>3, <3>4, <3>5
  <2>9. p # q
    <3>1. SUFFICES ASSUME p = q PROVE FALSE
      OBVIOUS
    <3>2. PICK i \in FramesIn(p) : p.offset = Start(i)
      BY <2>5
    <3>3. i \in received /\ i \in DOMAIN Frames
      BY <1>4, <2>3, <3>1, <3>2
    <3>4. i \in FramesIn(filler)
      BY <1>4, <1>11, <1>16, <2>5, <3>2, <3>3
    <3> QED BY <1>3, <3>3, <3>4
  <2>10. Apart(p, q)
    BY <2>7, <2>8, <2>9 DEF ImageInv, PacketsInv
  <2> QED BY <1>4, <1>16, <2>1, <2>5, <2>6, <2>10 DEF Apart
<1>17. PadsInv(new, network, received)
  <2>1. PadInv(new, network, received, b)
    <3>1. Reached(new, b)
      BY <1>3, <1>9
    <3> QED BY <1>1, <1>3, <1>7, <1>16, <3>1 DEF PadInv
  <2>2. ASSUME NEW c \in Offsets, c # b, IsPad(new, c) PROVE PadInv(new, network, received, c)
    <3>1. new[c] = image[c]
      BY <1>7, <2>2
    <3>2. PadInv(image, network, received, c)
      BY <2>2, <3>1 DEF ImageInv, PadsInv, IsPad
    <3> QED BY <1>9, <3>1, <3>2 DEF PadInv
  <2> QED BY <2>1, <2>2 DEF PadsInv
<1>18. FilledInv(new, filled')
  <2>1. SUFFICES ASSUME NEW i \in DOMAIN Frames
                 PROVE  Start(i) \in filled' <=> IsPad(new, Start(i)) \/ Covered(new, Start(i))
    BY DEF FilledInv
  <2>2. Start(i) \in Nat /\ Start(i) \in Offsets
    BY StartOffset
  <2>3. Start(i) \in filled <=> IsPad(image, Start(i)) \/ Covered(image, Start(i))
    BY DEF ImageInv, FilledInv
  <2>4. Start(i) \in Span(b, l) <=> Start(i) = b \/ (b < Start(i) /\ Start(i) < e)
    BY <1>4, <1>11, <2>2
  <2>5. IsPad(new, Start(i)) <=> Start(i) = b \/ IsPad(image, Start(i))
    BY <1>7, <1>8, <2>2 DEF IsPad
  <2> QED BY <1>2, <1>9, <2>3, <2>4, <2>5, Zenon
<1>19. PacketsInv(new, network, sender, high_mark)
  BY <1>9 DEF ImageInv, PacketsInv, Asked
<1>20. ScannerInv(new, high_mark, received, scanner)
  BY <1>9 DEF ThreadsInv, ScannerInv
<1>21. GapInv(new, high_mark, receiver, received, gap)
  <2>1. Spoiled(image, receiver, gap) => Spoiled(new, receiver, gap)
    BY <1>14, StartOffset DEF Spoiled, FramesIn
  <2> QED BY <1>9, <2>1 DEF ThreadsInv, GapInv, GapOK
<1>22. SubscriberInv(new, subscriber)
  BY <1>9, <1>14 DEF ThreadsInv, SubscriberInv
<1>23. DeliveredInv(subscriber, filled', delivered)
  <2>1. Reached(image, subscriber.offset) /\ subscriber.offset \in Nat
    BY DEF ThreadsInv, SubscriberInv, TypesInv
  <2>2. subscriber.offset <= b
    BY <1>4, <1>10, <2>1
  <2>3. ASSUME NEW i \in DOMAIN Frames, Start(i) < subscriber.offset
        PROVE  Start(i) \in filled' <=> Start(i) \in filled
    BY <1>2, <1>4, <1>11, <2>1, <2>2, <2>3, FrameTypes
  <2>4. Passed(subscriber, filled') = Passed(subscriber, filled)
    BY <2>3 DEF Passed
  <2> QED BY <2>4 DEF ThreadsInv, DeliveredInv
<1>24. PICK f : f = filler'
  OBVIOUS
<1>25. /\ f \in [pc : {"idle", "check", "header", "type", "length"}, offset : Nat, length : Nat,
                 at : Int, received : SUBSET DOMAIN Frames]
       /\ f.pc = "idle"
  BY <1>2, <1>24 DEF TypesInv
<1>26. FillerInv(new, high_mark, receiver, received, f)
  BY <1>25 DEF FillerInv
<1>27. TypesInv'
  BY <1>2, <1>6, <1>7, <1>24, <1>25 DEF TypesInv, PadLength
<1>28. ImageInv'
  BY <1>2, <1>6, <1>13, <1>15, <1>17, <1>18, <1>19 DEF ImageInv, PadLength
<1>29. ThreadsInv'
  BY <1>2, <1>6, <1>13, <1>20, <1>21, <1>22, <1>23, <1>24, <1>26 DEF ThreadsInv, PadLength
<1> QED BY <1>27, <1>28, <1>29

-----------------------------------------------------------------------------
(* The receiver.                                                           *)

\* The greater of two numbers.
LEMMA MaxOfTwo ==
  ASSUME NEW a \in Nat, NEW b \in Nat
  PROVE  Max({a, b}) = IF a >= b THEN a ELSE b
<1>1. PICK m : m = IF a >= b THEN a ELSE b
  OBVIOUS
<1>2. m \in {a, b} /\ \A y \in {a, b} : m >= y
  BY <1>1
<1>3. \A x \in {a, b} : (\A y \in {a, b} : x >= y) => x = m
  BY <1>1
<1> QED BY <1>1, <1>2, <1>3 DEF Max

\* What the whole term has: words, and at the start of a frame its length.
LEMMA ContentsWords ==
  /\ Contents \in [Offsets -> Words]
  /\ \A i \in DOMAIN Frames : Contents[Start(i)].length # 0 /\ Contents[Start(i)].frame = i
  /\ \A at \in Offsets : Contents[at].frame # 0
<1>1. ASSUME NEW at \in Offsets PROVE Contents[at] \in Words /\ Contents[at].frame # 0
  <2>1. PICK i \in DOMAIN Frames : Start(i) <= at /\ at < Finish(i)
    BY TermCovered
  <2>2. at \in Nat /\ Contents[at] = Word(i, at)
    BY <2>1, WordsOf, FrameNumbers, TermEnd DEF Offsets
  <2>3. /\ i \in Nat \ {0} /\ Frames[i].length \in Int /\ Frames[i].type \in {"DATA", "PAD"}
        /\ PayloadWord \in Int
    BY FrameTypes, LimitsAssumption
  <2> QED BY <2>2, <2>3 DEF Word, Words
<1>2. Contents = [at \in Offsets |-> Contents[at]]
  BY DEF Contents, TermOf, Offsets
<1>3. ASSUME NEW i \in DOMAIN Frames
      PROVE  Contents[Start(i)].length # 0 /\ Contents[Start(i)].frame = i
  <2>1. Contents[Start(i)] = Word(i, Start(i)) /\ Frames[i].length \in Nat \ {0}
    BY WordsOf, FrameTypes, FrameNumbers
  <2> QED BY <2>1 DEF Word
<1> QED BY <1>1, <1>2, <1>3

\* Behind the free slot of a packet and in the packet there is nowhere that the readers
\* come to.
LEMMA SlotFree ==
  ASSUME TypesInv, ImageInv, ThreadsInv, receiver.pc # "idle",
         NEW x, Reached(image, x), receiver.offset < x, x < PacketEnd(receiver)
  PROVE  FALSE
<1>1. PICK o, e : o = receiver.offset /\ e = PacketEnd(receiver)
  OBVIOUS
<1>2. /\ o \in Nat /\ e \in Nat /\ image[o].length = 0
      /\ \E p \in network : p.offset = o /\ PacketEnd(p) = e
      /\ \E i \in FramesIn(receiver) : Start(i) = o
  BY <1>1, PacketInserted
<1>3. PICK k \in DOMAIN Frames : Start(k) = o
  BY <1>2 DEF FramesIn
<1>4. x \in Nat
  BY BoundaryFacts DEF Reached
<1>5. ~ Reached(image, o)
  BY <1>1, <1>2, ReachedBefore
<1>6. \A i \in DOMAIN Frames : Start(i) < o => image[Start(i)].length # 0 \/ Covered(image, Start(i))
  BY <1>1, <1>2, <1>4, FrameTypes DEF Reached
<1>7. Covered(image, o)
  BY <1>3, <1>5, <1>6, BoundaryFacts DEF Reached
<1>8. PICK b \in Offsets : IsPad(image, b) /\ b < o /\ o < b + image[b].length
  BY <1>7 DEF Covered
<1>9. b \in Nat /\ image[b].length \in Int
  BY TermEnd DEF Offsets, TypesInv, Words
<1>10. e <= b + image[b].length
  BY <1>2, <1>8 DEF ImageInv, PadsInv, PadInv
<1>11. b < x /\ x < b + image[b].length
  BY <1>1, <1>2, <1>4, <1>8, <1>9, <1>10
<1>12. Covered(image, x)
  BY <1>8, <1>11 DEF Covered
<1> QED BY <1>12 DEF Reached

\* A packet is skipped where something is, which is below the high mark, or inserted
\* where nothing is filled.
LEMMA InsertHolds ==
  ASSUME TypesInv, ImageInv, ThreadsInv, NEW packet \in network, Insert(packet), ~ overlap'
  PROVE  TypesInv' /\ ImageInv' /\ ThreadsInv'
<1>1. receiver.pc = "idle"
  BY DEF Insert
<1>2. packet \in [offset : Nat, length : Nat] /\ PacketInv(sender, high_mark, packet)
  BY DEF TypesInv, ImageInv, PacketsInv
<1>3. PICK o, e : o = packet.offset /\ e = PacketEnd(packet)
  OBVIOUS
<1>4. /\ o \in Nat /\ e \in Nat /\ o < e /\ high_mark \in Nat
      /\ e <= high_mark \/ high_mark <= o
      /\ \E i \in FramesIn(packet) : o = Start(i)
  BY <1>2, <1>3, PacketFrames DEF TypesInv, PacketInv
<1>5. CASE /\ image[o].length # 0
           /\ high_mark' = Max({high_mark, e})
           /\ UNCHANGED <<receiver, overlap>>
  <2>1. PICK i \in DOMAIN Frames : o = Start(i)
    BY <1>4 DEF FramesIn
  <2>2. ASSUME high_mark <= o PROVE FALSE
    <3>1. ASSUME NEW k \in received
          PROVE  Start(k) < high_mark /\ k \in DOMAIN Frames /\ Start(k) \in Nat
      BY FrameTypes DEF ImageInv, ReceivedInv, TypesInv
    <3>2. CASE IsPad(image, o)
      <4>1. PadInv(image, network, received, o)
        BY <2>1, <3>2, StartOffset DEF ImageInv, PadsInv
      <4>2. image[o].length \in Int
        BY <2>1, StartOffset DEF TypesInv, Words
      <4>3. PICK k \in received : Start(k) = o + image[o].length
        BY <4>1 DEF PadInv
      <4>4. image[o].length > 0
        BY <4>1 DEF PadInv
      <4> QED BY <1>4, <2>2, <3>1, <4>2, <4>3, <4>4
    <3>3. CASE ~ IsPad(image, o)
      <4>1. Arrived(receiver, received, i)
        BY <1>5, <2>1, <3>3 DEF ImageInv, HeadersInv
      <4>2. i \in received
        BY <1>1, <4>1 DEF Arrived
      <4> QED BY <1>4, <2>1, <2>2, <3>1, <4>2
    <3> QED BY <3>2, <3>3
  <2>3. high_mark' = high_mark
    BY <1>4, <1>5, <2>2, MaxOfTwo
  <2>4. TypesInv'
    BY <1>5, <2>3 DEF TypesInv, Insert
  <2>5. ImageInv'
    BY <1>5, <2>3 DEF ImageInv, Insert
  <2>6. ThreadsInv'
    BY <1>5, <2>3 DEF ThreadsInv, Insert
  <2> QED BY <2>4, <2>5, <2>6
<1>6. CASE /\ image[o].length = 0
           /\ receiver' = [pc |-> "copy", offset |-> o, length |-> packet.length]
           /\ overlap' = (overlap \/ (filler.pc \in {"type", "length"} /\ Overlapping(packet, filler)))
           /\ UNCHANGED high_mark
  <2>1. PICK next : next = [pc |-> "copy", offset |-> o, length |-> packet.length]
    OBVIOUS
  <2>2. /\ next.pc = "copy" /\ next.offset = o /\ next.length = packet.length /\ receiver' = next
        /\ next \in [pc : {"idle", "copy", "publish"}, offset : Nat, length : Nat]
    BY <1>2, <1>3, <1>6, <2>1
  <2>3. \A i : Arrived(next, received, i) <=> Arrived(receiver, received, i)
    BY <1>1, <2>2 DEF Arrived
  <2>4. HeadersInv(image, next, received) /\ PayloadsInv(image, next, received)
    BY <2>3 DEF ImageInv, HeadersInv, PayloadsInv
  <2>5. ReceiverInv(image, network, next)
    <3>1. Packet(next.offset, next.length) = packet
      BY <1>2, <1>3, <2>2 DEF Packet
    <3> QED BY <1>6, <2>2, <3>1 DEF ReceiverInv
  <2>6. \A g : Spoiled(image, receiver, g) => Spoiled(image, next, g)
    BY <1>1 DEF Spoiled
  <2>7. GapInv(image, high_mark, next, received, gap)
    BY <2>6 DEF ThreadsInv, GapInv, GapOK
  <2>8. FillerInv(image, high_mark, next, received, filler)
    <3>1. filler.pc \in {"check", "header"} => GapOK(image, high_mark, next, received, filler)
      BY <2>6 DEF ThreadsInv, FillerInv, GapOK
    <3>2. filler.pc \in {"type", "length"} => ~ Overlapping(next, filler)
      BY <1>3, <1>6, <2>2 DEF Overlapping
    <3> QED BY <3>1, <3>2 DEF ThreadsInv, FillerInv
  <2>9. TypesInv'
    BY <1>6, <2>2 DEF TypesInv, Insert
  <2>10. ImageInv'
    BY <1>6, <2>2, <2>4 DEF ImageInv, Insert
  <2>11. ThreadsInv'
    BY <1>6, <2>2, <2>5, <2>7, <2>8 DEF ThreadsInv, Insert
  <2> QED BY <2>9, <2>10, <2>11
<1> QED BY <1>3, <1>5, <1>6 DEF Insert, PacketEnd

\* The copy of the packet touches nothing that anybody has come to.
LEMMA CopyHolds ==
  ASSUME TypesInv, ImageInv, ThreadsInv, CopyPacket
  PROVE  TypesInv' /\ ImageInv' /\ ThreadsInv'
<1>1. PICK o, e : o = receiver.offset /\ e = PacketEnd(receiver)
  OBVIOUS
<1>2. receiver.pc = "copy"
  BY DEF CopyPacket
<1>3. /\ o \in Nat /\ e \in Nat /\ o < e /\ e <= TermLength /\ o \in Offsets
      /\ receiver.length \in Nat /\ image[o].length = 0
      /\ \E i \in FramesIn(receiver) : o = Start(i)
      /\ \A i \in FramesIn(receiver) : WireEnd(i) <= e
  BY <1>1, <1>2, PacketInserted
<1>4. /\ \A at \in Nat : at \in Span(receiver.offset, receiver.length) <=> o <= at /\ at < e
      /\ \A i \in DOMAIN Frames : i \in FramesIn(receiver) <=> o <= Start(i) /\ Start(i) < e
  BY <1>1, <1>3, InSpan
<1>5. PICK new : new = image'
  OBVIOUS
<1>6. new = [at \in Offsets |->
               IF at \notin Span(receiver.offset, receiver.length) THEN image[at]
               ELSE IF at # o THEN Contents[at]
               ELSE [Contents[at] EXCEPT !.length = image[at].length]]
  BY <1>1, <1>5 DEF CopyPacket
<1>7. Offsets \subseteq Nat
  BY TermEnd DEF Offsets
<1>8. /\ \A at \in Offsets : ~ (o <= at /\ at < e) => new[at] = image[at]
      /\ \A at \in Offsets : o < at /\ at < e => new[at] = Contents[at]
      /\ new[o] = [Contents[o] EXCEPT !.length = 0]
  <2>1. ASSUME NEW at \in Offsets, ~ (o <= at /\ at < e) PROVE new[at] = image[at]
    <3>1. at \notin Span(receiver.offset, receiver.length)
      BY <1>4, <1>7, <2>1
    <3> QED BY <1>6, <3>1
  <2>2. ASSUME NEW at \in Offsets, o < at, at < e PROVE new[at] = Contents[at]
    <3>1. at \in Span(receiver.offset, receiver.length) /\ at # o
      BY <1>3, <1>4, <1>7, <2>2
    <3> QED BY <1>6, <3>1
  <2>3. new[o] = [Contents[o] EXCEPT !.length = 0]
    <3>1. o \in Span(receiver.offset, receiver.length)
      BY <1>3, <1>4
    <3>2. new[o] = [Contents[o] EXCEPT !.length = image[o].length]
      BY <1>3, <1>6, <3>1
    <3> QED BY <1>3, <3>2
  <2> QED BY <2>1, <2>2, <2>3
<1>9. Contents \in [Offsets -> Words] /\ \A at \in Offsets : Contents[at].frame # 0
  BY ContentsWords
<1>10. new \in [Offsets -> Words] /\ new[o].length = 0
  <2>1. new[o] \in Words /\ new[o].length = 0
    BY <1>3, <1>8, <1>9 DEF Words
  <2>2. ASSUME NEW at \in Offsets PROVE new[at] \in Words
    <3>1. image[at] \in Words /\ Contents[at] \in Words /\ at \in Nat
      BY <1>7, <1>9 DEF TypesInv
    <3>2. at = o \/ (o < at /\ at < e) \/ ~ (o <= at /\ at < e)
      BY <1>3, <3>1
    <3> QED BY <1>8, <2>1, <3>1, <3>2
  <2>3. new = [at \in Offsets |-> new[at]]
    BY <1>6
  <2> QED BY <2>1, <2>2, <2>3
<1>11. ASSUME NEW x, Reached(image, x) PROVE ~ (o < x /\ x < e)
  BY <1>1, <1>2, <1>11, SlotFree
<1>12. Steady(image, new)
  <2>1. ASSUME NEW i \in DOMAIN Frames, image[Start(i)].length # 0 PROVE new[Start(i)].length # 0
    <3>1. Start(i) \in Offsets /\ Start(i) \in Nat /\ Start(i) # o
      BY <1>3, <2>1, StartOffset
    <3> QED BY <1>3, <1>8, <2>1, <3>1, ContentsWords
  <2>2. ASSUME NEW b \in Offsets
        PROVE  (IsPad(new, b) <=> IsPad(image, b)) /\ (IsPad(image, b) => new[b] = image[b])
    <3>1. CASE b = o
      BY <1>3, <1>10, <3>1 DEF IsPad
    <3>2. CASE ~ (o <= b /\ b < e)
      BY <1>8, <3>2 DEF IsPad
    <3>3. CASE o < b /\ b < e
      <4>1. ~ IsPad(image, b)
        BY <1>11, <3>3 DEF ImageInv, PadsInv, PadInv
      <4>2. ~ IsPad(new, b)
        BY <1>8, <1>9, <3>3 DEF IsPad
      <4> QED BY <4>1, <4>2
    <3> QED BY <1>3, <1>7, <3>1, <3>2, <3>3
  <2> QED BY <2>1, <2>2 DEF Steady
<1>13. PICK next : next = receiver'
  OBVIOUS
<1>14. /\ next \in [pc : {"idle", "copy", "publish"}, offset : Nat, length : Nat]
       /\ next.pc = "publish" /\ next.offset = o /\ next.length = receiver.length
       /\ PacketEnd(next) = e /\ FramesIn(next) = FramesIn(receiver)
  <2>1. next = [receiver EXCEPT !.pc = "publish"]
    BY <1>13 DEF CopyPacket, Goto
  <2>2. /\ next \in [pc : {"idle", "copy", "publish"}, offset : Nat, length : Nat]
        /\ next.pc = "publish" /\ next.offset = o /\ next.length = receiver.length
    BY <1>1, <2>1 DEF TypesInv
  <2> QED BY <1>1, <2>2 DEF PacketEnd, FramesIn
<1>15. PICK k \in DOMAIN Frames : Start(k) = o
  BY <1>3 DEF FramesIn
<1>16. ASSUME NEW i \in DOMAIN Frames, Start(i) < o PROVE Finish(i) <= o
  BY <1>15, <1>16, BoundaryFacts
<1>17. ASSUME NEW i \in DOMAIN Frames, Whole(image, i), Start(i) # o PROVE Whole(new, i)
  <2>1. SUFFICES ASSUME NEW at \in Nat, Start(i) <= at, at < WireEnd(i) PROVE new[at] = Contents[at]
    BY DEF Whole
  <2>2. /\ Start(i) \in Nat /\ Finish(i) \in Nat /\ WireEnd(i) \in Nat /\ WireEnd(i) <= Finish(i)
    BY FrameTypes
  <2>3. at < Finish(i) /\ at \in Offsets
    BY <2>1, <2>2, WordsOf, FrameNumbers
  <2>4. at # o
    BY <1>3, <1>16, <1>17, <2>1, <2>2, <2>3
  <2>5. image[at] = Contents[at]
    BY <1>17, <2>1 DEF Whole
  <2> QED BY <1>3, <1>8, <2>3, <2>4, <2>5
<1>18. HeadersInv(new, next, received)
  <2>1. SUFFICES ASSUME NEW i \in DOMAIN Frames, new[Start(i)].length # 0, ~ IsPad(new, Start(i))
                 PROVE  Whole(new, i) /\ Arrived(next, received, i)
    BY DEF HeadersInv
  <2>2. Start(i) \in Offsets /\ Start(i) \in Nat /\ Start(i) # o
    BY <1>10, <2>1, StartOffset
  <2>3. CASE o < Start(i) /\ Start(i) < e
    <3>1. i \in FramesIn(receiver)
      BY <1>3, <1>4, <2>2, <2>3
    <3>2. WireEnd(i) <= e /\ WireEnd(i) \in Nat
      BY <1>3, <3>1, FrameTypes
    <3>3. ASSUME NEW at \in Nat, Start(i) <= at, at < WireEnd(i) PROVE new[at] = Contents[at]
      <4>1. o < at /\ at < e /\ at \in Offsets
        BY <1>3, <2>2, <2>3, <3>2, <3>3, TermEnd DEF Offsets
      <4> QED BY <1>8, <4>1
    <3> QED BY <1>14, <3>1, <3>3 DEF Whole, Arrived
  <2>4. CASE ~ (o < Start(i) /\ Start(i) < e)
    <3>1. new[Start(i)] = image[Start(i)]
      BY <1>3, <1>8, <2>2, <2>4
    <3>2. Whole(image, i) /\ Arrived(receiver, received, i)
      BY <2>1, <3>1 DEF ImageInv, HeadersInv, IsPad
    <3>3. i \in received
      BY <1>2, <3>2 DEF Arrived
    <3> QED BY <1>17, <2>2, <3>2, <3>3 DEF Arrived
  <2> QED BY <2>3, <2>4
<1>19. PayloadsInv(new, next, received)
  <2>1. SUFFICES ASSUME NEW i \in DOMAIN Frames, NEW at \in Nat, Start(i) < at, at < Finish(i),
                        new[at].length # 0
                 PROVE  Arrived(next, received, i)
    BY DEF PayloadsInv
  <2>2. at \in Offsets /\ Start(i) \in Nat /\ Finish(i) \in Nat
    BY <2>1, FrameTypes, TermEnd DEF Offsets
  <2>3. CASE o <= at /\ at < e
    <3>1. o <= Start(i)
      BY <1>3, <1>16, <2>1, <2>2, <2>3
    <3>2. i \in FramesIn(receiver)
      BY <1>3, <1>4, <2>1, <2>2, <2>3, <3>1
    <3> QED BY <1>14, <3>2 DEF Arrived
  <2>4. CASE ~ (o <= at /\ at < e)
    <3>1. Arrived(receiver, received, i)
      BY <1>8, <2>1, <2>2, <2>4 DEF ImageInv, PayloadsInv
    <3> QED BY <1>2, <3>1 DEF Arrived
  <2> QED BY <2>3, <2>4
<1>20. received \subseteq DOMAIN Frames
  BY DEF TypesInv
<1>21. /\ ReceivedInv(new, network, received, high_mark)
       /\ PadsInv(new, network, received)
       /\ FilledInv(new, filled)
       /\ PacketsInv(new, network, sender, high_mark)
       /\ ScannerInv(new, high_mark, received, scanner)
  BY <1>12, <1>20, SteadyKeeps DEF ImageInv, ThreadsInv
<1>22. ReceiverInv(new, network, next)
  <2>1. Packet(next.offset, next.length) \in network
    BY <1>1, <1>2, <1>14 DEF ThreadsInv, ReceiverInv
  <2>2. ASSUME NEW at \in Nat, o < at, at < e PROVE new[at] = Contents[at]
    <3>1. at \in Offsets
      BY <1>3, <2>2, TermEnd DEF Offsets
    <3> QED BY <1>8, <2>2, <3>1
  <2> QED BY <1>8, <1>10, <1>14, <2>1, <2>2 DEF ReceiverInv
<1>23. ASSUME NEW g, g.offset + g.length \in Nat, GapOK(image, high_mark, receiver, received, g)
       PROVE  GapOK(new, high_mark, next, received, g)
  <2>1. Spoiled(image, receiver, g) => Spoiled(new, next, g)
    BY <1>1, <1>12, <1>14 DEF Spoiled, Steady, FramesIn
  <2>2. high_mark \in Nat /\ high_mark <= high_mark /\ received \subseteq received
    BY DEF TypesInv
  <2> QED BY <1>12, <1>23, <2>1, <2>2, GapStays
<1>24. GapInv(new, high_mark, next, received, gap)
  <2>1. gap.offset \in Nat /\ gap.length \in Nat
    BY DEF TypesInv
  <2>2. gap.offset + gap.length \in Nat
    BY <2>1
  <2> QED BY <1>23, <2>2 DEF ThreadsInv, GapInv
<1>25. FillerInv(new, high_mark, next, received, filler)
  <2>1. filler.offset \in Nat /\ filler.length \in Nat
    BY DEF TypesInv
  <2>2. filler.pc \in {"check", "header"} => GapOK(new, high_mark, next, received, filler)
    BY <1>23, <2>1 DEF ThreadsInv, FillerInv
  <2>3. ASSUME filler.pc = "header" PROVE ~ IsPad(new, filler.offset)
    <3>1. filler.offset \in Offsets
      <4>1. filler.length > 0 /\ filler.offset + filler.length <= high_mark
        BY <2>3 DEF ThreadsInv, FillerInv, GapOK
      <4> QED BY <2>1, <4>1, MarkInTerm DEF Offsets
    <3> QED BY <1>12, <2>3, <3>1 DEF ThreadsInv, FillerInv, Steady
  <2>4. ASSUME filler.pc \in {"type", "length"}
        PROVE  /\ ~ Overlapping(next, filler)
               /\ Reached(new, filler.offset)
               /\ new[filler.offset] = image[filler.offset]
    <3>1. /\ filler.length > 0 /\ Reached(image, filler.offset) /\ ~ Overlapping(receiver, filler)
          /\ \E i \in received : Start(i) = filler.offset + filler.length
      BY <1>2, <2>4 DEF ThreadsInv, FillerInv
    <3>2. filler.offset \in Span(filler.offset, filler.length)
      BY <2>1, <3>1 DEF Span
    <3>3. ~ (o <= filler.offset /\ filler.offset < e)
      BY <1>4, <2>1, <3>1, <3>2 DEF Overlapping
    <3>4. filler.offset \in Offsets
      <4>1. PICK i \in DOMAIN Frames : Start(i) = filler.offset + filler.length
        BY <1>20, <3>1
      <4> QED BY <2>1, <3>1, <4>1, StartOffset, TermEnd DEF Offsets
    <3> QED BY <1>1, <1>8, <1>12, <1>14, <3>1, <3>3, <3>4, SteadyStays DEF Overlapping
  <2> QED BY <2>2, <2>3, <2>4 DEF ThreadsInv, FillerInv
<1>26. SubscriberInv(new, subscriber)
  <2>1. Reached(image, subscriber.offset) /\ subscriber.offset \in Nat
    BY DEF ThreadsInv, SubscriberInv, TypesInv
  <2>2. ASSUME subscriber.pc = "type" PROVE new[subscriber.offset] = image[subscriber.offset]
    <3>1. subscriber.offset \in Offsets /\ subscriber.offset # o
      BY <1>3, <2>2 DEF ThreadsInv, SubscriberInv
    <3>2. ~ (o < subscriber.offset /\ subscriber.offset < e)
      BY <1>11, <2>1
    <3> QED BY <1>3, <1>8, <2>1, <3>1, <3>2
  <2> QED BY <1>12, <2>1, <2>2, SteadyStays DEF ThreadsInv, SubscriberInv
<1>27. TypesInv'
  BY <1>5, <1>10, <1>13, <1>14 DEF TypesInv, CopyPacket, history
<1>28. ImageInv'
  BY <1>5, <1>13, <1>18, <1>19, <1>21 DEF ImageInv, CopyPacket, history
<1>29. ThreadsInv'
  BY <1>5, <1>13, <1>21, <1>22, <1>24, <1>25, <1>26 DEF ThreadsInv, CopyPacket, history
<1> QED BY <1>27, <1>28, <1>29

\* With the length of its first frame the whole packet is received, and the high mark
\* is its end, or stays behind it.
LEMMA PublishHolds ==
  ASSUME TypesInv, ImageInv, ThreadsInv, PublishLength
  PROVE  TypesInv' /\ ImageInv' /\ ThreadsInv'
<1>1. PICK o, e : o = receiver.offset /\ e = PacketEnd(receiver)
  OBVIOUS
<1>2. receiver.pc = "publish"
  BY DEF PublishLength
<1>3. /\ o \in Nat /\ e \in Nat /\ o < e /\ e <= TermLength /\ o \in Offsets
      /\ receiver.length \in Nat /\ image[o].length = 0
      /\ PacketInv(sender, high_mark, receiver)
      /\ \E p \in network : p.offset = o /\ PacketEnd(p) = e /\ FramesIn(p) = FramesIn(receiver)
      /\ \E i \in FramesIn(receiver) : o = Start(i)
      /\ \E j \in FramesIn(receiver) : WireEnd(j) = e
      /\ \A i \in FramesIn(receiver) : WireEnd(i) <= e
  BY <1>1, <1>2, PacketInserted
<1>4. /\ \A at \in Nat : at \in Span(receiver.offset, receiver.length) <=> o <= at /\ at < e
      /\ \A i \in DOMAIN Frames : i \in FramesIn(receiver) <=> o <= Start(i) /\ Start(i) < e
      /\ FramesIn(receiver) \subseteq DOMAIN Frames
  BY <1>1, <1>3, InSpan
<1>5. PICK new, next, more, higher :
        /\ new = [image EXCEPT ![o].length = Contents[o].length]
        /\ next = Idle /\ more = received \cup FramesIn(receiver)
        /\ higher = Max({high_mark, e})
  OBVIOUS
<1>6. image' = new /\ receiver' = next /\ received' = more /\ high_mark' = higher
  BY <1>1, <1>5 DEF PublishLength, PacketEnd
<1>7. /\ image \in [Offsets -> Words] /\ received \subseteq DOMAIN Frames /\ high_mark \in Nat
      /\ network \subseteq [offset : Nat, length : Nat]
  BY DEF TypesInv
<1>8. /\ Contents \in [Offsets -> Words] /\ \A at \in Offsets : Contents[at].frame # 0
      /\ \A i \in DOMAIN Frames : Contents[Start(i)].length # 0
  BY ContentsWords
<1>9. /\ \A at \in Nat : o < at /\ at < e => image[at] = Contents[at]
      /\ image[o] = [Contents[o] EXCEPT !.length = 0]
  BY <1>1, <1>2 DEF ThreadsInv, ReceiverInv
<1>10. /\ new \in [Offsets -> Words]
       /\ \A at \in Offsets : at # o => new[at] = image[at]
       /\ new[o] = Contents[o]
  <2>1. Contents[o].length \in Int /\ Contents[o] \in Words
    BY <1>3, <1>8 DEF Words
  <2>2. new[o] = [image[o] EXCEPT !.length = Contents[o].length]
    BY <1>3, <1>5, <1>7
  <2>3. new[o] = Contents[o]
    BY <1>9, <2>1, <2>2 DEF Words
  <2> QED BY <1>3, <1>5, <1>7, <2>1, <2>3 DEF Words
<1>11. ASSUME NEW at \in Nat, o <= at, at < e PROVE new[at] = Contents[at]
  <2>1. at \in Offsets
    BY <1>3, <1>11, TermEnd DEF Offsets
  <2> QED BY <1>3, <1>9, <1>10, <1>11, <2>1
<1>12. PICK k \in DOMAIN Frames : Start(k) = o
  BY <1>3 DEF FramesIn
<1>13. new[o].length # 0 /\ ~ IsPad(new, o) /\ ~ IsPad(image, o)
  BY <1>3, <1>8, <1>10, <1>12 DEF IsPad
<1>14. Steady(image, new)
  <2>1. ASSUME NEW i \in DOMAIN Frames, image[Start(i)].length # 0 PROVE new[Start(i)].length # 0
    BY <1>10, <1>13, <2>1, StartOffset
  <2>2. ASSUME NEW b \in Offsets
        PROVE  (IsPad(new, b) <=> IsPad(image, b)) /\ (IsPad(image, b) => new[b] = image[b])
    BY <1>10, <1>13 DEF IsPad
  <2> QED BY <2>1, <2>2 DEF Steady
<1>15. /\ more \subseteq DOMAIN Frames /\ received \subseteq more /\ FramesIn(receiver) \subseteq more
       /\ next.pc = "idle" /\ next \in [pc : {"idle", "copy", "publish"}, offset : Nat, length : Nat]
       /\ higher = (IF high_mark >= e THEN high_mark ELSE e)
       /\ higher \in Nat /\ high_mark <= higher /\ e <= higher
  BY <1>3, <1>4, <1>5, <1>7, MaxOfTwo DEF Idle
<1>16. ASSUME NEW i \in DOMAIN Frames, Start(i) < o PROVE Finish(i) <= o
  BY <1>12, <1>16, BoundaryFacts
<1>17. \A i : Arrived(receiver, received, i) => i \in more
  BY <1>5 DEF Arrived
<1>18. HeadersInv(new, next, more)
  <2>1. SUFFICES ASSUME NEW i \in DOMAIN Frames, new[Start(i)].length # 0, ~ IsPad(new, Start(i))
                 PROVE  Whole(new, i) /\ i \in more
    BY DEF HeadersInv, Arrived
  <2>2. Start(i) \in Offsets /\ Start(i) \in Nat
    BY StartOffset
  <2>3. CASE Start(i) = o
    <3>1. i \in FramesIn(receiver)
      BY <1>3, <1>4, <2>3
    <3>2. WireEnd(i) <= e /\ WireEnd(i) \in Nat
      BY <1>3, <3>1, FrameTypes
    <3> QED BY <1>3, <1>11, <1>15, <2>3, <3>1, <3>2 DEF Whole
  <2>4. CASE Start(i) # o
    <3>1. Whole(image, i) /\ Arrived(receiver, received, i)
      BY <1>10, <2>1, <2>2, <2>4 DEF ImageInv, HeadersInv, IsPad
    <3>2. ASSUME NEW at \in Nat, Start(i) <= at, at < WireEnd(i) PROVE new[at] = Contents[at]
      <4>1. at < Finish(i)
        BY <3>2, FrameTypes
      <4>2. at \in Offsets
        BY <3>2, <4>1, WordsOf, FrameNumbers
      <4> QED BY <1>10, <3>1, <3>2, <4>2 DEF Whole
    <3> QED BY <1>17, <3>1, <3>2 DEF Whole
  <2> QED BY <2>3, <2>4
<1>19. PayloadsInv(new, next, more)
  <2>1. SUFFICES ASSUME NEW i \in DOMAIN Frames, NEW at \in Nat, Start(i) < at, at < Finish(i),
                        new[at].length # 0
                 PROVE  i \in more
    BY DEF PayloadsInv, Arrived
  <2>2. at \in Offsets /\ Start(i) \in Nat /\ Finish(i) \in Nat
    BY <2>1, FrameTypes, TermEnd DEF Offsets
  <2>3. at # o
    BY <1>3, <1>16, <2>1, <2>2
  <2> QED BY <1>10, <1>17, <2>1, <2>2, <2>3 DEF ImageInv, PayloadsInv
<1>20. /\ ReceivedInv(new, network, received, high_mark)
       /\ PadsInv(new, network, received)
       /\ FilledInv(new, filled)
       /\ PacketsInv(new, network, sender, high_mark)
       /\ ScannerInv(new, high_mark, received, scanner)
  BY <1>7, <1>14, SteadyKeeps DEF ImageInv, ThreadsInv
<1>21. ReceivedInv(new, network, more, higher)
  <2>1. ASSUME NEW i \in received
        PROVE  /\ new[Start(i)].length # 0 /\ Start(i) < higher
               /\ \E p \in network : i \in FramesIn(p) /\ FramesIn(p) \subseteq more
    <3>1. Start(i) \in Nat
      BY <1>7, FrameTypes
    <3> QED BY <1>7, <1>15, <1>20, <3>1 DEF ReceivedInv
  <2>2. ASSUME NEW i \in FramesIn(receiver)
        PROVE  /\ new[Start(i)].length # 0 /\ Start(i) < higher
               /\ \E p \in network : i \in FramesIn(p) /\ FramesIn(p) \subseteq more
    <3>1. i \in DOMAIN Frames /\ Start(i) \in Nat /\ o <= Start(i) /\ Start(i) < e
      BY <1>4, FrameTypes
    <3>2. new[Start(i)].length # 0
      BY <1>8, <1>11, <3>1
    <3>3. Start(i) < higher
      BY <1>3, <1>15, <3>1
    <3> QED BY <1>3, <1>15, <3>2, <3>3
  <2> QED BY <1>5, <2>1, <2>2 DEF ReceivedInv
<1>22. PadsInv(new, network, more)
  BY <1>15, <1>20 DEF PadsInv, PadInv
<1>23. PacketsInv(new, network, sender, higher)
  <2>1. PICK p \in network : p.offset = o /\ PacketEnd(p) = e
    BY <1>3
  <2>2. ASSUME NEW q \in network PROVE PacketInv(sender, higher, q)
    <3>1. PacketInv(sender, high_mark, q) /\ PacketEnd(q) \in Nat /\ q.offset \in Nat
      BY <1>7, <1>20, PacketFrames DEF PacketsInv
    <3>2. PacketEnd(q) <= higher \/ higher <= q.offset
      <4>1. CASE higher = high_mark
        BY <3>1, <4>1 DEF PacketInv
      <4>2. CASE higher # high_mark
        <5>1. higher = e /\ high_mark < e
          BY <1>3, <1>7, <1>15, <4>2
        <5>2. CASE PacketEnd(q) <= high_mark
          BY <1>7, <1>15, <3>1, <5>2
        <5>3. CASE ~ (PacketEnd(q) <= high_mark)
          <6>1. ~ Asked(new, high_mark, q) /\ ~ Asked(new, high_mark, p)
            BY <1>3, <1>7, <2>1, <5>1, <5>3 DEF Asked
          <6>2. p = q \/ Apart(p, q)
            BY <1>20, <6>1 DEF PacketsInv
          <6> QED BY <1>3, <2>1, <3>1, <5>1, <6>2 DEF Apart
        <5> QED BY <5>2, <5>3
      <4> QED BY <4>1, <4>2
    <3> QED BY <3>1, <3>2 DEF PacketInv
  <2>3. ASSUME NEW q \in network, Asked(new, high_mark, q) PROVE Asked(new, higher, q)
    <3>1. PacketEnd(q) \in Nat
      BY <1>7, <1>20, PacketFrames DEF PacketsInv
    <3> QED BY <1>7, <1>15, <2>3, <3>1 DEF Asked
  <2> QED BY <1>20, <2>2, <2>3 DEF PacketsInv
<1>24. MarkInv(sender, higher, more)
  <2>1. sender \in Nat
    BY BoundaryFacts DEF TypesInv
  <2>2. higher <= sender
    BY <1>1, <1>3, <1>7, <1>15, <2>1 DEF ImageInv, MarkInv, PacketInv
  <2>3. IsMark(higher, more)
    <3>1. CASE higher = high_mark
      BY <1>15, <3>1 DEF ImageInv, MarkInv, IsMark
    <3>2. CASE higher = e
      BY <1>3, <1>15, <3>2 DEF IsMark
    <3> QED BY <1>15, <3>1, <3>2
  <2> QED BY <2>2, <2>3 DEF MarkInv
<1>25. ReceiverInv(new, network, next)
  BY <1>15 DEF ReceiverInv
<1>26. ScannerInv(new, higher, more, scanner)
  <2>1. scanner.limit \in Nat
    BY DEF TypesInv
  <2> QED BY <1>7, <1>15, <1>20, <2>1 DEF ScannerInv
<1>27. ASSUME NEW g, g.offset \in Nat, g.length \in Nat,
              GapOK(image, high_mark, receiver, received, g)
       PROVE  GapOK(new, higher, next, more, g)
  <2>1. ASSUME Spoiled(image, receiver, g) PROVE Spoiled(new, next, g)
    <3>1. CASE \E i \in FramesIn(g) : image[Start(i)].length # 0
      BY <1>14, <3>1 DEF Spoiled, Steady, FramesIn
    <3>2. CASE receiver.offset \in Span(g.offset, g.length)
      <4>1. k \in FramesIn(g)
        BY <1>1, <1>3, <1>12, <1>27, <3>2, InSpan
      <4> QED BY <1>12, <1>13, <4>1 DEF Spoiled
    <3> QED BY <2>1, <3>1, <3>2 DEF Spoiled
  <2>2. g.offset + g.length \in Nat
    BY <1>27
  <2> QED BY <1>7, <1>14, <1>15, <1>27, <2>1, <2>2, GapStays
<1>28. GapInv(new, higher, next, more, gap)
  <2>1. gap.offset \in Nat /\ gap.length \in Nat
    BY DEF TypesInv
  <2> QED BY <1>27, <2>1 DEF ThreadsInv, GapInv
<1>29. FillerInv(new, higher, next, more, filler)
  <2>1. filler.offset \in Nat /\ filler.length \in Nat
    BY DEF TypesInv
  <2>2. filler.pc \in {"check", "header"} => GapOK(new, higher, next, more, filler)
    BY <1>27, <2>1 DEF ThreadsInv, FillerInv
  <2>3. filler.pc = "check" => filler.received \subseteq more
    BY <1>15 DEF ThreadsInv, FillerInv
  <2>4. ASSUME filler.pc = "header" PROVE ~ IsPad(new, filler.offset)
    <3>1. filler.offset \in Offsets
      <4>1. filler.length > 0 /\ filler.offset + filler.length <= high_mark
        BY <2>4 DEF ThreadsInv, FillerInv, GapOK
      <4> QED BY <2>1, <4>1, MarkInTerm DEF Offsets
    <3> QED BY <1>14, <2>4, <3>1 DEF ThreadsInv, FillerInv, Steady
  <2>5. ASSUME filler.pc \in {"type", "length"}
        PROVE  /\ Reached(new, filler.offset)
               /\ FramesIn(filler) \cap more = {}
               /\ \E i \in more : Start(i) = filler.offset + filler.length
               /\ new[filler.offset] = image[filler.offset]
    <3>1. /\ filler.length > 0 /\ Reached(image, filler.offset) /\ ~ Overlapping(receiver, filler)
          /\ FramesIn(filler) \cap received = {}
          /\ \E i \in received : Start(i) = filler.offset + filler.length
      BY <1>2, <2>5 DEF ThreadsInv, FillerInv
    <3>2. FramesIn(filler) \cap FramesIn(receiver) = {}
      BY <3>1 DEF FramesIn, Overlapping
    <3>3. /\ filler.offset \in Span(filler.offset, filler.length)
          /\ o \in Span(receiver.offset, receiver.length)
      BY <1>3, <1>4, <2>1, <3>1 DEF Span
    <3>4. filler.offset # o
      BY <3>1, <3>3 DEF Overlapping
    <3>5. filler.offset \in Offsets
      <4>1. PICK i \in DOMAIN Frames : Start(i) = filler.offset + filler.length
        BY <1>7, <3>1
      <4> QED BY <2>1, <3>1, <4>1, StartOffset, TermEnd DEF Offsets
    <3> QED BY <1>5, <1>10, <1>14, <1>15, <3>1, <3>2, <3>4, <3>5, SteadyStays
  <2> QED BY <1>15, <2>2, <2>3, <2>4, <2>5 DEF ThreadsInv, FillerInv
<1>30. SubscriberInv(new, subscriber)
  <2>1. ASSUME subscriber.pc = "type" PROVE new[subscriber.offset] = image[subscriber.offset]
    <3>1. subscriber.offset \in Offsets /\ subscriber.offset # o
      BY <1>3, <2>1 DEF ThreadsInv, SubscriberInv
    <3> QED BY <1>10, <3>1
  <2> QED BY <1>14, <2>1, SteadyStays DEF ThreadsInv, SubscriberInv
<1>31. TypesInv'
  BY <1>6, <1>10, <1>15 DEF TypesInv, PublishLength
<1>32. ImageInv'
  BY <1>6, <1>18, <1>19, <1>20, <1>21, <1>22, <1>23, <1>24 DEF ImageInv, PublishLength
<1>33. ThreadsInv'
  BY <1>6, <1>25, <1>26, <1>28, <1>29, <1>30 DEF ThreadsInv, PublishLength
<1> QED BY <1>31, <1>32, <1>33

-----------------------------------------------------------------------------
(* The theorems.                                                           *)

\* Every step keeps the invariant.
LEMMA StepHolds == ASSUME IInv, [Next]_vars PROVE IInv'
<1>1. CASE UNCHANGED vars
  BY <1>1 DEF IInv, TypesInv, ImageInv, ThreadsInv, vars, history
<1>2. CASE Next
  <2>1. ~ overlap
    BY <1>2 DEF Next
  <2>2. TypesInv /\ ImageInv /\ ThreadsInv
    BY <2>1 DEF IInv
  <2>3. SUFFICES ASSUME ~ overlap' PROVE TypesInv' /\ ImageInv' /\ ThreadsInv'
    BY DEF IInv
  <2>4. CASE \E max_length \in MaxLengths : Send(max_length) \/ Resend(max_length)
    BY <2>2, <2>4, SendHolds, ResendHolds
  <2>5. CASE \E packet \in network : Insert(packet)
    BY <2>2, <2>3, <2>5, InsertHolds
  <2>6. CASE InsertStep
    BY <2>2, <2>6, CopyHolds, PublishHolds DEF InsertStep
  <2>7. CASE ScanStep
    BY <2>2, <2>7, ScanHolds, WalkFramesHolds, WalkGapHolds DEF ScanStep
  <2>8. CASE FillStep
    BY <2>2, <2>3, <2>8, FillHolds, CheckEmptyHolds, DefaultHeaderHolds, PadTypeHolds, PadLengthHolds
       DEF FillStep
  <2>9. CASE ReadStep
    BY <2>2, <2>9, ReadLengthHolds, ReadFrameHolds DEF ReadStep
  <2> QED BY <1>2, <2>4, <2>5, <2>6, <2>7, <2>8, <2>9 DEF Next
<1> QED BY <1>1, <1>2

-----------------------------------------------------------------------------
(* What the scans find in a term of any frames.                             *)

\* One call of the scan for a block, which is [scan] behind the frame.
BlockBody(term, offset, limit, scan, at) ==
  LET length == FrameLength(term, at)
  IN  IF at >= limit \/ length <= 0 THEN at
      ELSE IF term[at].type = "PAD"
      THEN IF at = offset THEN at + 1 ELSE at
      ELSE IF at + length > limit THEN at
      ELSE scan[at + length]

\* The scan for a block is what its definition says, too.
LEMMA BlockUnfolds ==
  ASSUME NEW term, NEW bound \in Nat, Scannable(term, bound),
         NEW offset \in Nat, NEW limit \in Nat
  PROVE  \E scan :
           /\ block_scan(term, offset, limit) = scan[offset]
           /\ \A at \in Nat :
                scan[at] = BlockBody(term, offset, limit, scan, at)
<1>2. /\ \A at \in Nat : FrameLength(term, at) \in Int
      /\ \A at \in Nat : at >= bound => FrameLength(term, at) <= 0
  BY DEF Scannable
<1> DEFINE IsScan(f) == f = [at \in Nat |-> BlockBody(term, offset, limit, f, at)]
<1> DEFINE ScansFrom(f, least) ==
             /\ f = [at \in Nat |-> f[at]]
             /\ \A at \in Nat :
                  at >= least => f[at] = BlockBody(term, offset, limit, f, at)
<1> DEFINE S == {d \in Nat : \E f : ScansFrom(f, bound - d)}
<1>3. 0 \in S
  <2> DEFINE f == [at \in Nat |-> at]
  <2>1. ASSUME NEW at \in Nat, at >= bound - 0
        PROVE  f[at] = BlockBody(term, offset, limit, f, at)
    <3>1. FrameLength(term, at) <= 0
      BY <1>2, <2>1
    <3>2. BlockBody(term, offset, limit, f, at) = at
      BY <3>1 DEF BlockBody
    <3> QED BY <3>2
  <2>2. f = [at \in Nat |-> f[at]]
    OBVIOUS
  <2>3. ScansFrom(f, bound - 0)
    BY <2>1, <2>2
  <2> QED BY <2>3
<1>4. ASSUME NEW d \in Nat, d \in S PROVE d + 1 \in S
  <2>1. PICK f : ScansFrom(f, bound - d)
    BY <1>4
  <2>2. PICK least \in Int : least = bound - (d + 1) /\ bound - d = least + 1
    OBVIOUS
  <2> DEFINE g == [at \in Nat |->
                     IF at = least THEN BlockBody(term, offset, limit, f, at)
                     ELSE f[at]]
  <2>3. \A at \in Nat :
          g[at] = IF at = least THEN BlockBody(term, offset, limit, f, at)
                             ELSE f[at]
    OBVIOUS
  <2>4. g = [at \in Nat |-> g[at]]
    OBVIOUS
  <2> HIDE DEF g
  <2>5. ASSUME NEW at \in Nat, at >= least
        PROVE  BlockBody(term, offset, limit, g, at) = BlockBody(term, offset, limit, f, at)
    <3>1. PICK length \in Int : length = FrameLength(term, at)
      BY <1>2
    <3>2. ASSUME length > 0 PROVE g[at + length] = f[at + length]
      <4>1. at + length \in Nat /\ at + length # least
        BY <2>5, <3>2
      <4> QED BY <2>3, <4>1
    <3>3. CASE length <= 0
      BY <3>1, <3>3 DEF BlockBody
    <3>4. CASE length > 0
      BY <3>1, <3>2, <3>4 DEF BlockBody
    <3> QED BY <3>3, <3>4
  <2>6. ASSUME NEW at \in Nat, at >= least
        PROVE  g[at] = BlockBody(term, offset, limit, g, at)
    <3>1. CASE at = least
      BY <2>3, <2>5, <3>1
    <3>2. CASE at # least
      <4>1. at >= bound - d
        BY <2>2, <2>6, <3>2
      <4>2. f[at] = BlockBody(term, offset, limit, f, at)
        BY <2>1, <4>1
      <4> QED BY <2>3, <2>5, <2>6, <3>2, <4>2
    <3> QED BY <3>1, <3>2
  <2>7. ScansFrom(g, bound - (d + 1))
    BY <2>2, <2>4, <2>6
  <2> QED BY <2>7
<1> HIDE DEF S
<1>5. \A d \in Nat : d \in S
  BY <1>3, <1>4, EveryNumber
<1>6. PICK f : ScansFrom(f, 0)
  <2>1. bound \in S /\ bound - bound = 0
    BY <1>5
  <2> QED BY <2>1 DEF S
<1>7. IsScan(f)
  <2>1. \A at \in Nat : f[at] = BlockBody(term, offset, limit, f, at)
    BY <1>6
  <2>2. f = [at \in Nat |-> f[at]]
    BY <1>6
  <2> QED BY <2>1, <2>2
<1>8. PICK scan : scan = CHOOSE h : IsScan(h)
  OBVIOUS
<1>9. IsScan(scan)
  BY <1>7, <1>8
<1>10. block_scan(term, offset, limit) = scan[offset]
  BY <1>8 DEF block_scan, BlockBody
<1>11. \A at \in Nat : scan[at] = BlockBody(term, offset, limit, scan, at)
  BY <1>9
<1> QED BY <1>10, <1>11

\* A term with a length at the start of each frame, and nothing committed behind them.
TermWith(term, frames, n) ==
  /\ \A at \in Nat : FrameLength(term, at) \in Int
  /\ \A at \in Nat : at >= EndOf(frames) => FrameLength(term, at) <= 0
  /\ \A i \in 1 .. n : /\ FrameLength(term, frames[i].offset) = frames[i].length
                       /\ term[frames[i].offset].type = frames[i].type

\* Which TermOf makes of them, also when the frame behind them is claimed.
LEMMA LaidTerm ==
  ASSUME NEW frames, NEW n, Laid(frames, n), n # 0, NEW claimed \in {0, -1}
  PROVE  TermWith([TermOf(frames, EndOf(frames) + 1) EXCEPT ![EndOf(frames)].length = claimed],
                  frames, n)
<1> DEFINE end == EndOf(frames)
           plain == TermOf(frames, end + 1)
           term == [plain EXCEPT ![end].length = claimed]
           owners(at) == {i \in DOMAIN frames : at \in frames[i].offset .. End(frames[i]) - 1}
           owner(at) == CHOOSE i \in owners(at) : TRUE
<1>1. /\ end \in Nat /\ DOMAIN frames = 1 .. n
      /\ \A i \in 1 .. n : End(frames[i]) <= end
  BY LaidEnd
<1>2. \A at : at \in 0 .. (end + 1) - 1 <=> at \in 0 .. end
  BY <1>1
<1>3. /\ DOMAIN plain = 0 .. end
      /\ \A at \in 0 .. end :
           plain[at] = IF owners(at) = {} THEN Empty
                       ELSE IF at = frames[owner(at)].offset
                       THEN [length |-> frames[owner(at)].length,
                             type |-> frames[owner(at)].type, frame |-> owner(at)]
                       ELSE [length |-> PayloadWord, type |-> "DATA", frame |-> owner(at)]
  <2>1. DOMAIN plain = 0 .. end
    <3>1. DOMAIN plain = 0 .. (end + 1) - 1
      BY DEF TermOf
    <3> HIDE DEF plain, end
    <3> QED BY <1>2, <3>1
  <2>2. ASSUME NEW at \in 0 .. end
        PROVE  plain[at] = IF owners(at) = {} THEN Empty
                           ELSE IF at = frames[owner(at)].offset
                           THEN [length |-> frames[owner(at)].length,
                                 type |-> frames[owner(at)].type, frame |-> owner(at)]
                           ELSE [length |-> PayloadWord, type |-> "DATA", frame |-> owner(at)]
    <3>1. at \in 0 .. (end + 1) - 1
      BY <1>2
    <3> HIDE DEF end
    <3> QED BY <3>1 DEF TermOf
  <2> HIDE DEF plain, end, owners, owner
  <2> QED BY <2>1, <2>2
<1> HIDE DEF plain, end
<1>4. owners(end) = {}
  <2>1. SUFFICES ASSUME NEW i \in 1 .. n, end \in frames[i].offset .. End(frames[i]) - 1
                 PROVE  FALSE
    BY <1>1
  <2>2. frames[i].offset \in Nat /\ End(frames[i]) \in Nat /\ End(frames[i]) <= end
    BY <1>1, LaidFrame
  <2> QED BY <1>1, <2>1, <2>2
<1>5. plain[end] = Empty /\ end \in 0 .. end
  BY <1>1, <1>3, <1>4
<1>6. /\ DOMAIN term = 0 .. end /\ term[end].length = claimed
      /\ \A at \in 0 .. end : at # end => term[at] = plain[at]
  BY <1>3, <1>5 DEF Empty
<1> HIDE DEF term
<1>7. ASSUME NEW i \in 1 .. n
      PROVE  /\ frames[i].offset \in 0 .. end /\ frames[i].offset # end
             /\ plain[frames[i].offset].length = frames[i].length
             /\ plain[frames[i].offset].type = frames[i].type
  <2> DEFINE at == frames[i].offset
  <2>1. /\ at \in Nat /\ End(frames[i]) \in Nat /\ at < End(frames[i]) /\ End(frames[i]) <= end
    BY <1>1, LaidFrame
  <2>2. at \in 0 .. end /\ at # end
    BY <1>1, <2>1
  <2>3. ASSUME NEW j \in 1 .. n, at \in frames[j].offset .. End(frames[j]) - 1 PROVE j = i
    <3>1. /\ frames[j].offset \in Nat /\ End(frames[j]) \in Nat /\ i \in Nat /\ j \in Nat
      BY LaidFrame
    <3>2. frames[j].offset <= at /\ at < End(frames[j])
      BY <2>1, <2>3, <3>1
    <3>3. j < i => End(frames[j]) <= at
      BY LaidInOrder
    <3>4. i < j => End(frames[i]) <= frames[j].offset
      BY LaidInOrder
    <3> HIDE DEF at
    <3> QED BY <2>1, <3>1, <3>2, <3>3, <3>4
  <2>4. at \in frames[i].offset .. End(frames[i]) - 1
    BY <2>1
  <2>5. owners(at) = {i}
    BY <1>1, <2>3, <2>4
  <2>6. owner(at) = i /\ owners(at) # {}
    BY <2>5
  <2> HIDE DEF owners, owner
  <2>7. plain[at] = [length |-> frames[i].length, type |-> frames[i].type, frame |-> i]
    BY <1>3, <2>2, <2>6
  <2> QED BY <2>2, <2>7
<1>8. ASSUME NEW i \in 1 .. n
      PROVE  /\ FrameLength(term, frames[i].offset) = frames[i].length
             /\ term[frames[i].offset].type = frames[i].type
  BY <1>6, <1>7 DEF FrameLength
<1>9. ASSUME NEW at \in Nat, at >= end PROVE FrameLength(term, at) <= 0 /\ FrameLength(term, at) \in Int
  <2>1. CASE at = end
    BY <1>5, <1>6, <2>1 DEF FrameLength
  <2>2. CASE at # end
    <3>1. at \notin 0 .. end
      BY <1>1, <1>9, <2>2
    <3> QED BY <1>6, <3>1 DEF FrameLength
  <2> QED BY <2>1, <2>2
<1>10. ASSUME NEW at \in Nat, at < end PROVE FrameLength(term, at) \in Int
  <2>1. at \in 0 .. end /\ at # end
    BY <1>1, <1>10
  <2>2. FrameLength(term, at) = plain[at].length
    BY <1>6, <2>1 DEF FrameLength
  <2>3. CASE owners(at) = {}
    <3>1. plain[at] = Empty
      BY <1>3, <2>1, <2>3
    <3> QED BY <2>2, <3>1 DEF Empty
  <2>4. CASE owners(at) # {}
    <3>1. owner(at) \in 1 .. n
      BY <1>1, <2>4
    <3>2. frames[owner(at)].length \in Int
      BY <3>1, LaidFrame
    <3> HIDE DEF owners, owner
    <3>3. plain[at].length \in {frames[owner(at)].length, PayloadWord}
      BY <1>3, <2>1, <2>4
    <3> QED BY <2>2, <3>2, <3>3, LimitsAssumption
  <2> QED BY <2>3, <2>4
<1>11. \A at \in Nat : at < end \/ at >= end
  BY <1>1
<1>12. TermWith(term, frames, n)
  BY <1>8, <1>9, <1>10, <1>11 DEF TermWith, end
<1> QED BY <1>12 DEF term, plain, end

\* Where the frame with this number begins, or the one behind the last would.
PlaceOf(frames, n, k) == IF k = n + 1 THEN EndOf(frames) ELSE frames[k].offset

\* The frame from which another does not go into a packet of whole frames.
FrameFits(frames, i, limit, k) ==
  frames[k].type = "DATA" /\ End(frames[k]) - frames[i].offset <= limit

FirstBehind(frames, n, i, limit, m) ==
  /\ m \in i .. n + 1
  /\ \A k \in i .. m - 1 : FrameFits(frames, i, limit, k)
  /\ m <= n => ~ FrameFits(frames, i, limit, m)

\* One frame's end is where the next begins.
LEMMA PlaceNext ==
  ASSUME NEW frames, NEW n, Laid(frames, n), NEW k \in 1 .. n
  PROVE  /\ PlaceOf(frames, n, k) = frames[k].offset
         /\ PlaceOf(frames, n, k + 1) = End(frames[k])
<1>1. n \in Nat /\ k \in Nat \ {0} /\ k <= n /\ n # 0
  BY LaidFrame
<1>2. PlaceOf(frames, n, k) = frames[k].offset
  BY <1>1 DEF PlaceOf
<1>3. CASE k = n
  BY <1>3, <1>1, LaidEnd DEF PlaceOf
<1>4. CASE k < n
  <2>1. frames[k + 1].offset = End(frames[k])
    BY <1>4, LaidFrame
  <2>2. k + 1 # n + 1
    BY <1>1, <1>4
  <2>3. PlaceOf(frames, n, k + 1) = frames[k + 1].offset
    BY <2>2 DEF PlaceOf
  <2> QED BY <1>2, <2>1, <2>3
<1> QED BY <1>1, <1>2, <1>3, <1>4

\* There is such a frame, or such an end.
LEMMA SomeFirstBehind ==
  ASSUME NEW frames, NEW n \in Nat, NEW i \in 1 .. n, NEW limit
  PROVE  \E m : FirstBehind(frames, n, i, limit, m)
<1>1. SUFFICES ASSUME \A m : ~ FirstBehind(frames, n, i, limit, m) PROVE FALSE
  OBVIOUS
<1> DEFINE S == {d \in Nat : i + d <= n + 1 =>
                               \A k \in i .. i + d - 1 : FrameFits(frames, i, limit, k)}
<1>2. 0 \in S
  OBVIOUS
<1>3. ASSUME NEW d \in Nat, d \in S PROVE d + 1 \in S
  <2>1. SUFFICES ASSUME i + (d + 1) <= n + 1, NEW k \in i .. i + (d + 1) - 1
                 PROVE  FrameFits(frames, i, limit, k)
    OBVIOUS
  <2>2. \A h \in i .. i + d - 1 : FrameFits(frames, i, limit, h)
    BY <1>3, <2>1
  <2>3. i + d \in i .. n + 1 /\ i + d <= n
    BY <2>1
  <2>4. FrameFits(frames, i, limit, i + d)
    BY <1>1, <2>2, <2>3 DEF FirstBehind
  <2>5. k = i + d \/ k \in i .. i + d - 1
    BY <2>1
  <2> QED BY <2>2, <2>4, <2>5
<1> HIDE DEF S
<1>4. \A d \in Nat : d \in S
  BY <1>2, <1>3, EveryNumber
<1>5. n + 1 - i \in Nat /\ i + (n + 1 - i) = n + 1
  OBVIOUS
<1>6. \A k \in i .. (n + 1) - 1 : FrameFits(frames, i, limit, k)
  <2>1. n + 1 - i \in S
    BY <1>4, <1>5
  <2> QED BY <1>5, <2>1 DEF S
<1>7. FirstBehind(frames, n, i, limit, n + 1)
  <2>1. n + 1 \in i .. n + 1 /\ ~ (n + 1 <= n)
    OBVIOUS
  <2> QED BY <1>6, <2>1 DEF FirstBehind
<1> QED BY <1>1, <1>7

\* The frames in front of it are those that fit, each with all before it.
LEMMA FittingFrames ==
  ASSUME NEW frames, NEW n, Laid(frames, n), NEW i \in 1 .. n, NEW limit \in Nat, NEW m,
         FirstBehind(frames, n, i, limit, m)
  PROVE  LET fit == {j \in i .. n : /\ \A k \in i .. j : frames[k].type = "DATA"
                                    /\ End(frames[j]) - frames[i].offset <= limit}
         IN  /\ fit = i .. m - 1
             /\ Max({i - 1} \cup fit) + 1 = m
<1> DEFINE fit == {j \in i .. n : /\ \A k \in i .. j : frames[k].type = "DATA"
                                  /\ End(frames[j]) - frames[i].offset <= limit}
<1>1. n \in Nat /\ i \in Nat \ {0} /\ m \in i .. n + 1
  BY DEF Laid, FirstBehind
<1>2. ASSUME NEW j \in i .. m - 1 PROVE j \in fit
  <2>1. j \in i .. n /\ \A k \in i .. j : k \in i .. m - 1
    BY <1>1
  <2> QED BY <2>1 DEF FirstBehind, FrameFits
<1>3. ASSUME NEW j \in fit PROVE j \in i .. m - 1
  <2>1. SUFFICES ASSUME m <= j PROVE FALSE
    BY <1>1
  <2>2. m \in 1 .. n /\ m <= n /\ j \in 1 .. n /\ m \in i .. j
    BY <1>1, <2>1
  <2>3. frames[m].type = "DATA"
    BY <2>2
  <2>4. End(frames[m]) <= End(frames[j])
    <3>1. CASE m = j
      BY <2>2, <3>1, LaidFrame
    <3>2. CASE m < j
      <4>1. End(frames[m]) <= frames[j].offset
        BY <2>2, <3>2, LaidInOrder
      <4>2. PICK a \in Nat, b \in Nat, l \in Nat :
              a = End(frames[m]) /\ b = frames[j].offset /\ l = frames[j].length
        BY <2>2, LaidFrame
      <4>3. End(frames[j]) = b + l /\ a <= b
        BY <2>2, <4>1, <4>2, LaidFrame
      <4> QED BY <4>2, <4>3
    <3> QED BY <2>2, <3>1, <3>2
  <2>5. PICK a \in Nat, b \in Nat, o \in Nat :
          a = End(frames[m]) /\ b = End(frames[j]) /\ o = frames[i].offset
    BY <2>2, LaidFrame
  <2>6. a - o <= limit
    BY <2>4, <2>5
  <2> QED BY <2>2, <2>3, <2>5, <2>6 DEF FirstBehind, FrameFits
<1> HIDE DEF fit
<1>4. fit = i .. m - 1
  <2>1. fit \subseteq i .. n
    BY DEF fit
  <2> QED BY <1>2, <1>3
<1>5. Max({i - 1} \cup fit) = m - 1
  <2> DEFINE A == {i - 1} \cup (i .. m - 1)
  <2>1. m - 1 \in A /\ \A y \in A : y \in Int /\ m - 1 >= y
    BY <1>1
  <2> HIDE DEF A
  <2>2. \A x \in A : (\A y \in A : x >= y) => x = m - 1
    BY <2>1
  <2>3. Max(A) = m - 1
    BY <2>1, <2>2 DEF Max
  <2> QED BY <1>4, <2>3 DEF A
<1> QED BY <1>1, <1>4, <1>5 DEF fit

\* The way to it goes from frame to frame.
WayTo(frames, n, i, limit, m) ==
  \A k \in i .. m - 1 :
    \E at, length \in Nat :
      /\ k \in 1 .. n /\ length # 0
      /\ at = frames[k].offset /\ length = frames[k].length /\ frames[k].type = "DATA"
      /\ PlaceOf(frames, n, k) = at /\ PlaceOf(frames, n, k + 1) = at + length
      /\ at >= frames[i].offset /\ at + length - frames[i].offset <= limit

LEMMA FirstBehindPlace ==
  ASSUME NEW frames, NEW n, Laid(frames, n), NEW i \in 1 .. n, NEW limit \in Nat, NEW m,
         FirstBehind(frames, n, i, limit, m)
  PROVE  /\ WayTo(frames, n, i, limit, m)
         /\ PlaceOf(frames, n, i) = frames[i].offset
         /\ PlaceOf(frames, n, m) \in Nat
         /\ PlaceOf(frames, n, m) >= frames[i].offset
         /\ PlaceOf(frames, n, m) = frames[i].offset <=> m = i
         /\ PlaceOf(frames, n, m) - frames[i].offset <= limit
         /\ m # i => m - 1 \in 1 .. n /\ PlaceOf(frames, n, m) = End(frames[m - 1])
<1>1. n \in Nat /\ i \in Nat \ {0} /\ i <= n /\ m \in i .. n + 1
  BY DEF Laid, FirstBehind
<1>2. PICK offset \in Nat : offset = frames[i].offset
  BY LaidFrame
<1>3. ASSUME NEW k \in i .. m - 1
      PROVE  \E at, length \in Nat :
               /\ k \in 1 .. n /\ length # 0
               /\ at = frames[k].offset /\ length = frames[k].length /\ frames[k].type = "DATA"
               /\ PlaceOf(frames, n, k) = at /\ PlaceOf(frames, n, k + 1) = at + length
               /\ at >= offset /\ at + length - offset <= limit
  <2>1. k \in 1 .. n
    BY <1>1
  <2>2. PICK at \in Nat : at = frames[k].offset
    BY <2>1, LaidFrame
  <2>3. PICK length \in Nat : length = frames[k].length /\ length # 0 /\ End(frames[k]) = at + length
    BY <2>1, <2>2, LaidFrame
  <2>4. PlaceOf(frames, n, k) = at /\ PlaceOf(frames, n, k + 1) = at + length
    BY <2>1, <2>2, <2>3, PlaceNext
  <2>5. at + length - offset <= limit /\ frames[k].type = "DATA"
    BY <1>2, <2>3 DEF FirstBehind, FrameFits
  <2>6. at >= offset
    <3>1. CASE k = i
      BY <1>2, <2>2, <3>1
    <3>2. CASE i < k
      <4>1. End(frames[i]) <= at
        BY <2>1, <2>2, <3>2, LaidInOrder
      <4>2. PICK l \in Nat : End(frames[i]) = offset + l
        BY <1>2, LaidFrame
      <4> QED BY <1>2, <2>2, <4>1, <4>2
    <3> QED BY <1>1, <3>1, <3>2
  <2> QED BY <2>1, <2>2, <2>3, <2>4, <2>5, <2>6
<1>4. WayTo(frames, n, i, limit, m)
  BY <1>2, <1>3 DEF WayTo
<1>5. PlaceOf(frames, n, i) = offset
  BY <1>2, PlaceNext
<1>6. CASE m = i
  BY <1>2, <1>4, <1>5, <1>6
<1>7. CASE m # i
  <2>1. m - 1 \in i .. m - 1 /\ (m - 1) + 1 = m
    BY <1>1, <1>7
  <2>2. PICK at \in Nat, length \in Nat :
          /\ m - 1 \in 1 .. n /\ length # 0
          /\ at = frames[m - 1].offset /\ length = frames[m - 1].length
          /\ PlaceOf(frames, n, m) = at + length
          /\ at >= offset /\ at + length - offset <= limit
    BY <1>3, <2>1
  <2>3. End(frames[m - 1]) = at + length
    BY <2>2, LaidFrame
  <2> QED BY <1>2, <1>4, <1>5, <1>7, <2>2, <2>3
<1> QED BY <1>6, <1>7

\* What is at the place where the scans come to.
LEMMA LengthBehind ==
  ASSUME NEW frames, NEW n, Laid(frames, n), NEW i \in 1 .. n, NEW limit \in Nat, NEW m,
         FirstBehind(frames, n, i, limit, m), NEW term, TermWith(term, frames, n)
  PROVE  LET place == PlaceOf(frames, n, m)
         IN  /\ m = n + 1 => FrameLength(term, place) <= 0 /\ FrameLength(term, place) \in Int
             /\ m # n + 1 =>
                  /\ m \in 1 .. n /\ place = frames[m].offset
                  /\ FrameLength(term, place) = frames[m].length
                  /\ frames[m].length \in Nat \ {0}
                  /\ term[place].type = frames[m].type
                  /\ frames[m].type \in {"DATA", "PAD"}
                  /\ frames[m].type = "DATA" => place + frames[m].length - frames[i].offset > limit
<1>1. n \in Nat /\ i \in Nat \ {0} /\ i <= n /\ m \in i .. n + 1 /\ n # 0
  BY DEF Laid, FirstBehind
<1>2. ASSUME m = n + 1
      PROVE  /\ FrameLength(term, PlaceOf(frames, n, m)) <= 0
             /\ FrameLength(term, PlaceOf(frames, n, m)) \in Int
  <2>1. PlaceOf(frames, n, m) = EndOf(frames)
    BY <1>2 DEF PlaceOf
  <2>2. EndOf(frames) \in Nat
    BY <1>1, LaidEnd
  <2>3. EndOf(frames) >= EndOf(frames)
    BY <2>2
  <2> QED BY <2>1, <2>2, <2>3 DEF TermWith
<1>3. ASSUME m # n + 1
      PROVE  /\ m \in 1 .. n /\ PlaceOf(frames, n, m) = frames[m].offset
             /\ FrameLength(term, frames[m].offset) = frames[m].length
             /\ frames[m].length \in Nat \ {0}
             /\ term[frames[m].offset].type = frames[m].type
             /\ frames[m].type \in {"DATA", "PAD"}
             /\ frames[m].type = "DATA" =>
                  frames[m].offset + frames[m].length - frames[i].offset > limit
  <2>1. m \in 1 .. n /\ m <= n
    BY <1>1, <1>3
  <2>2. PICK at \in Nat, length \in Nat \ {0}, offset \in Nat :
          /\ at = frames[m].offset /\ length = frames[m].length /\ offset = frames[i].offset
          /\ End(frames[m]) = at + length /\ frames[m].type \in {"DATA", "PAD"}
    BY <2>1, LaidFrame
  <2>3. ASSUME frames[m].type = "DATA" PROVE at + length - offset > limit
    <3>1. ~ (at + length - offset <= limit)
      BY <2>1, <2>2, <2>3 DEF FirstBehind, FrameFits
    <3> QED BY <2>2, <3>1
  <2>4. PlaceOf(frames, n, m) = frames[m].offset
    BY <1>3 DEF PlaceOf
  <2> QED BY <2>1, <2>2, <2>3, <2>4 DEF TermWith
<1> QED BY <1>2, <1>3

\* All data in front of it fits, and so the sender's scan comes to it.
LEMMA ScanGoesOn ==
  ASSUME NEW frames, NEW n, Laid(frames, n), NEW i \in 1 .. n, NEW limit \in Nat, NEW m,
         FirstBehind(frames, n, i, limit, m), NEW term, TermWith(term, frames, n), NEW scan,
         \A at \in Nat : scan[at] = ScanBody(term, frames[i].offset, limit, scan, at)
  PROVE  scan[frames[i].offset] = scan[PlaceOf(frames, n, m)]
<1> DEFINE S == {d \in Nat : i + d <= m =>
                   scan[frames[i].offset] = scan[PlaceOf(frames, n, i + d)]}
<1>1. /\ WayTo(frames, n, i, limit, m) /\ PlaceOf(frames, n, i) = frames[i].offset
      /\ n \in Nat /\ i \in Nat /\ m \in i .. n + 1
  <2>1. WayTo(frames, n, i, limit, m) /\ PlaceOf(frames, n, i) = frames[i].offset
    BY FirstBehindPlace
  <2>2. n \in Nat /\ i \in Nat /\ m \in i .. n + 1
    BY DEF Laid, FirstBehind
  <2> QED BY <2>1, <2>2
<1>2. 0 \in S
  BY <1>1
<1>3. ASSUME NEW d \in Nat, d \in S PROVE d + 1 \in S
  <2>1. SUFFICES ASSUME i + (d + 1) <= m
                 PROVE  scan[frames[i].offset] = scan[PlaceOf(frames, n, i + (d + 1))]
    OBVIOUS
  <2>2. i + d \in i .. m - 1 /\ (i + d) + 1 = i + (d + 1) /\ i + d <= m
    BY <1>1, <2>1
  <2>3. PICK at \in Nat, length \in Nat :
          /\ i + d \in 1 .. n /\ length # 0
          /\ at = frames[i + d].offset /\ length = frames[i + d].length
          /\ frames[i + d].type = "DATA"
          /\ PlaceOf(frames, n, i + d) = at /\ PlaceOf(frames, n, i + (d + 1)) = at + length
          /\ at >= frames[i].offset /\ at + length - frames[i].offset <= limit
    BY <1>1, <2>2 DEF WayTo
  <2>4. FrameLength(term, at) = length /\ term[at].type = "DATA"
    BY <2>3 DEF TermWith
  <2>5. scan[frames[i].offset] = scan[at]
    BY <1>3, <2>2, <2>3
  <2>6. scan[at] = ScanBody(term, frames[i].offset, limit, scan, at)
    OBVIOUS
  <2>7. PICK offset \in Nat : offset = frames[i].offset
    BY LaidFrame
  <2>8. scan[at] = scan[at + length]
    <3>1. ~ (length <= 0) /\ ~ (at - offset + length > limit)
      BY <2>3, <2>7
    <3> QED BY <2>4, <2>6, <2>7, <3>1 DEF ScanBody
  <2> QED BY <2>3, <2>5, <2>8
<1> HIDE DEF S
<1>4. \A d \in Nat : d \in S
  BY <1>2, <1>3, EveryNumber
<1>5. m - i \in S /\ i + (m - i) = m /\ i + (m - i) <= m
  BY <1>1, <1>4
<1> QED BY <1>5 DEF S

\* The packet that the sender's scan finds: the data that fits, and the header of padding
\* behind it if that fits as well.
LEMMA PacketFound ==
  ASSUME NEW frames, NEW n, Laid(frames, n), NEW i \in 1 .. n, NEW limit \in Nat, limit # 0,
         NEW m, FirstBehind(frames, n, i, limit, m), NEW term, TermWith(term, frames, n)
  PROVE  LET offset == frames[i].offset
             found == scan_for_availability(term, offset, limit)
             data == PlaceOf(frames, n, m) - offset
             pads == m <= n /\ frames[m].type = "PAD" /\ data < limit
         IN  /\ pads => found.available = data + 1 /\ found.padding = frames[m].length - 1
             /\ ~pads => /\ IF data = 0 THEN found.available < 0 ELSE found.available = data
                         /\ found.padding = 0
<1>1. PICK offset \in Nat : offset = frames[i].offset
  BY LaidFrame
<1>2. PICK place \in Nat :
        /\ place = PlaceOf(frames, n, m) /\ place >= offset /\ place - offset <= limit
        /\ place = offset <=> m = i
  BY <1>1, FirstBehindPlace
<1>3. EndOf(frames) \in Nat /\ n \in Nat /\ i \in Nat /\ i <= n /\ m \in i .. n + 1
  <2>1. n \in Nat /\ i \in Nat /\ i <= n /\ m \in i .. n + 1 /\ n # 0
    BY DEF Laid, FirstBehind
  <2>2. EndOf(frames) \in Nat
    BY <2>1, LaidEnd
  <2> QED BY <2>1, <2>2
<1>4. PICK scan :
        /\ scan_for_availability(term, offset, limit) = scan[offset]
        /\ \A at \in Nat : scan[at] = ScanBody(term, offset, limit, scan, at)
  <2>1. Scannable(term, EndOf(frames))
    BY DEF Scannable, TermWith
  <2> QED BY <1>3, <2>1, ScanUnfolds
<1>5. scan[offset] = scan[place]
  BY <1>1, <1>2, <1>4, ScanGoesOn
<1>6. scan[place] = ScanBody(term, offset, limit, scan, place)
  BY <1>4
<1> DEFINE data == place - offset
           found == scan_for_availability(term, offset, limit)
           length == FrameLength(term, place)
<1>7. data \in Nat /\ data <= limit /\ (data = 0 <=> m = i) /\ found = scan[place]
  BY <1>2, <1>4, <1>5
<1>8. CASE m = n + 1
  <2>1. length <= 0
    BY <1>2, <1>8, LengthBehind
  <2>2. found = [available |-> data, padding |-> 0]
    BY <1>6, <1>7, <2>1 DEF ScanBody
  <2>3. data # 0 /\ ~ (m <= n)
    BY <1>3, <1>7, <1>8
  <2> QED BY <1>1, <1>2, <2>2, <2>3
<1>9. CASE m # n + 1
  <2>1. PICK l \in Nat \ {0} :
          /\ l = frames[m].length /\ length = l /\ term[place].type = frames[m].type
          /\ frames[m].type \in {"DATA", "PAD"} /\ m <= n
          /\ frames[m].type = "DATA" => place + l - offset > limit
    BY <1>1, <1>2, <1>3, <1>9, LengthBehind
  <2>2. ~ (length <= 0)
    BY <2>1
  <2>3. CASE frames[m].type = "PAD" /\ data < limit
    <3>1. ~ (data + 1 > limit)
      BY <1>7, <2>3
    <3>2. found = [available |-> data + 1, padding |-> l - 1]
      BY <1>6, <1>7, <2>1, <2>2, <2>3, <3>1 DEF ScanBody
    <3> QED BY <1>1, <1>2, <2>1, <2>3, <3>2
  <2>4. CASE frames[m].type = "PAD" /\ ~ (data < limit)
    <3>1. data + 1 > limit /\ data # 0
      BY <1>7, <2>4
    <3>2. found = [available |-> data, padding |-> 0]
      BY <1>6, <1>7, <2>1, <2>2, <2>4, <3>1 DEF ScanBody
    <3> QED BY <1>1, <1>2, <2>4, <3>1, <3>2
  <2>5. CASE frames[m].type = "DATA"
    <3>1. data + l > limit
      BY <1>2, <2>1, <2>5
    <3>2. found = [available |-> IF data = 0 THEN - l ELSE data, padding |-> 0]
      BY <1>6, <1>7, <2>1, <2>2, <2>5, <3>1 DEF ScanBody
    <3>3. - l < 0
      OBVIOUS
    <3> QED BY <1>1, <1>2, <2>5, <3>2, <3>3
  <2> QED BY <2>1, <2>3, <2>4, <2>5
<1> QED BY <1>8, <1>9

\* And the scan for a block comes to it.
LEMMA BlockGoesOn ==
  ASSUME NEW frames, NEW n, Laid(frames, n), NEW i \in 1 .. n, NEW limit \in Nat, NEW m,
         FirstBehind(frames, n, i, limit, m), NEW term, TermWith(term, frames, n), NEW scan,
         \A at \in Nat :
           scan[at] = BlockBody(term, frames[i].offset, frames[i].offset + limit, scan, at)
  PROVE  scan[frames[i].offset] = scan[PlaceOf(frames, n, m)]
<1> DEFINE S == {d \in Nat : i + d <= m =>
                   scan[frames[i].offset] = scan[PlaceOf(frames, n, i + d)]}
<1>1. /\ WayTo(frames, n, i, limit, m) /\ PlaceOf(frames, n, i) = frames[i].offset
      /\ n \in Nat /\ i \in Nat /\ m \in i .. n + 1
  <2>1. WayTo(frames, n, i, limit, m) /\ PlaceOf(frames, n, i) = frames[i].offset
    BY FirstBehindPlace
  <2>2. n \in Nat /\ i \in Nat /\ m \in i .. n + 1
    BY DEF Laid, FirstBehind
  <2> QED BY <2>1, <2>2
<1>2. 0 \in S
  BY <1>1
<1>3. ASSUME NEW d \in Nat, d \in S PROVE d + 1 \in S
  <2>1. SUFFICES ASSUME i + (d + 1) <= m
                 PROVE  scan[frames[i].offset] = scan[PlaceOf(frames, n, i + (d + 1))]
    OBVIOUS
  <2>2. i + d \in i .. m - 1 /\ (i + d) + 1 = i + (d + 1) /\ i + d <= m
    BY <1>1, <2>1
  <2>3. PICK at \in Nat, length \in Nat :
          /\ i + d \in 1 .. n /\ length # 0
          /\ at = frames[i + d].offset /\ length = frames[i + d].length
          /\ frames[i + d].type = "DATA"
          /\ PlaceOf(frames, n, i + d) = at /\ PlaceOf(frames, n, i + (d + 1)) = at + length
          /\ at >= frames[i].offset /\ at + length - frames[i].offset <= limit
    BY <1>1, <2>2 DEF WayTo
  <2>4. FrameLength(term, at) = length /\ term[at].type = "DATA"
    BY <2>3 DEF TermWith
  <2>5. scan[frames[i].offset] = scan[at]
    BY <1>3, <2>2, <2>3
  <2>6. PICK offset \in Nat : offset = frames[i].offset
    BY LaidFrame
  <2>7. scan[at] = BlockBody(term, offset, offset + limit, scan, at)
    BY <2>6
  <2>8. scan[at] = scan[at + length]
    <3>1. ~ (at >= offset + limit) /\ ~ (length <= 0) /\ ~ (at + length > offset + limit)
      BY <2>3, <2>6
    <3> QED BY <2>4, <2>7, <3>1 DEF BlockBody
  <2> QED BY <2>3, <2>5, <2>8
<1> HIDE DEF S
<1>4. \A d \in Nat : d \in S
  BY <1>2, <1>3, EveryNumber
<1>5. m - i \in S /\ i + (m - i) = m /\ i + (m - i) <= m
  BY <1>1, <1>4
<1> QED BY <1>5 DEF S

\* The block ends behind the data that fits, or behind the header of padding that it
\* begins with.
LEMMA BlockFound ==
  ASSUME NEW frames, NEW n, Laid(frames, n), NEW i \in 1 .. n, NEW limit \in Nat, limit # 0,
         NEW m, FirstBehind(frames, n, i, limit, m), NEW term, TermWith(term, frames, n)
  PROVE  block_scan(term, frames[i].offset, frames[i].offset + limit) =
           frames[i].offset + IF frames[i].type = "PAD" THEN 1
                              ELSE PlaceOf(frames, n, m) - frames[i].offset
<1>1. PICK offset \in Nat : offset = frames[i].offset
  BY LaidFrame
<1>2. PICK place \in Nat :
        /\ place = PlaceOf(frames, n, m) /\ place >= offset /\ place - offset <= limit
        /\ place = offset <=> m = i
  BY <1>1, FirstBehindPlace
<1>3. EndOf(frames) \in Nat /\ n \in Nat /\ i \in Nat /\ i <= n /\ m \in i .. n + 1
  <2>1. n \in Nat /\ i \in Nat /\ i <= n /\ m \in i .. n + 1 /\ n # 0
    BY DEF Laid, FirstBehind
  <2>2. EndOf(frames) \in Nat
    BY <2>1, LaidEnd
  <2> QED BY <2>1, <2>2
<1>4. PICK end \in Nat : end = offset + limit
  OBVIOUS
<1>5. PICK scan :
        /\ block_scan(term, offset, end) = scan[offset]
        /\ \A at \in Nat : scan[at] = BlockBody(term, offset, end, scan, at)
  <2>1. Scannable(term, EndOf(frames))
    BY DEF Scannable, TermWith
  <2> QED BY <1>3, <2>1, BlockUnfolds
<1>6. block_scan(term, offset, end) = scan[place]
  <2>1. scan[frames[i].offset] = scan[PlaceOf(frames, n, m)]
    BY <1>1, <1>4, <1>5, BlockGoesOn
  <2> QED BY <1>1, <1>2, <1>5, <2>1
<1>7. scan[place] = BlockBody(term, offset, end, scan, place)
  BY <1>5
<1>8. frames[i].type = "PAD" => m = i
  <2>1. SUFFICES ASSUME frames[i].type = "PAD", m # i PROVE FALSE
    OBVIOUS
  <2>2. i \in i .. m - 1
    BY <1>3, <2>1
  <2>3. frames[i].type = "DATA"
    BY <2>2 DEF FirstBehind, FrameFits
  <2> QED BY <2>1, <2>3
<1>9. scan[place] = IF frames[i].type = "PAD" THEN offset + 1 ELSE place
  <2>1. CASE m = n + 1
    <3>1. FrameLength(term, place) <= 0
      BY <1>2, <2>1, LengthBehind
    <3>2. scan[place] = place
      BY <1>7, <3>1 DEF BlockBody
    <3>3. m # i
      BY <1>3, <2>1
    <3> QED BY <1>8, <3>2, <3>3
  <2>2. CASE m # n + 1
    <3>1. PICK l \in Nat \ {0} :
            /\ l = frames[m].length /\ FrameLength(term, place) = l
            /\ term[place].type = frames[m].type
            /\ frames[m].type \in {"DATA", "PAD"}
            /\ frames[m].type = "DATA" => place + l - offset > limit
      BY <1>1, <1>2, <1>3, <2>2, LengthBehind
    <3>2. CASE frames[m].type = "DATA"
      <4>1. place + l > end
        BY <1>2, <1>4, <3>1, <3>2
      <4>2. scan[place] = place
        BY <1>7, <3>1, <3>2, <4>1 DEF BlockBody
      <4>3. frames[i].type # "PAD"
        BY <1>8, <3>2
      <4> QED BY <4>2, <4>3
    <3>3. CASE frames[m].type = "PAD" /\ m = i
      <4>1. place = offset /\ ~ (place >= end) /\ ~ (l <= 0)
        BY <1>2, <1>4, <3>1, <3>3
      <4>2. scan[place] = place + 1
        BY <1>7, <3>1, <3>3, <4>1 DEF BlockBody
      <4> QED BY <3>3, <4>1, <4>2
    <3>4. CASE frames[m].type = "PAD" /\ m # i
      <4>1. place # offset
        BY <1>2, <3>4
      <4>2. scan[place] = place
        BY <1>7, <3>1, <3>4, <4>1 DEF BlockBody
      <4> QED BY <1>8, <3>4, <4>2
    <3> QED BY <3>1, <3>2, <3>3, <3>4
  <2> QED BY <2>1, <2>2
<1>10. CASE frames[i].type = "PAD"
  BY <1>1, <1>4, <1>6, <1>9, <1>10
<1>11. CASE frames[i].type # "PAD"
  <2>1. block_scan(term, offset, end) = place /\ place = offset + (place - offset)
    BY <1>2, <1>6, <1>9, <1>11
  <2> QED BY <1>1, <1>2, <1>4, <1>11, <2>1
<1> QED BY <1>10, <1>11

\* What the scans find in a term with such frames is what ScansAre says.
LEMMA LaidScans ==
  ASSUME NEW frames, NEW n, Laid(frames, n), NEW claimed \in {0, -1}
  PROVE  ScansAre(frames, claimed)
<1> DEFINE end == EndOf(frames)
           term == [TermOf(frames, end + 1) EXCEPT ![end].length = claimed]
           fit(i, limit) ==
             {j \in i .. Len(frames) : /\ \A k \in i .. j : frames[k].type = "DATA"
                                       /\ End(frames[j]) - frames[i].offset <= limit}
           next(i, limit) == Max({i - 1} \cup fit(i, limit)) + 1
           data(i, limit) == IF fit(i, limit) = {} THEN 0
                             ELSE End(frames[next(i, limit) - 1]) - frames[i].offset
           pads(i, limit) ==
             next(i, limit) <= Len(frames) /\ frames[next(i, limit)].type = "PAD" /\
             data(i, limit) < limit
           Found(i, limit) ==
             LET offset == frames[i].offset
                 scan == scan_for_availability(term, offset, limit)
             IN  /\ pads(i, limit) => /\ scan.available = data(i, limit) + 1
                                      /\ scan.padding = frames[next(i, limit)].length - 1
                 /\ ~pads(i, limit) =>
                      /\ IF data(i, limit) = 0 THEN scan.available < 0
                         ELSE scan.available = data(i, limit)
                      /\ scan.padding = 0
                 /\ block_scan(term, offset, offset + limit) =
                      offset + IF frames[i].type = "PAD" THEN 1 ELSE data(i, limit)
<1>1. ASSUME NEW i \in DOMAIN frames, NEW limit \in 1 .. end + 1 PROVE Found(i, limit)
  <2>1. n \in Nat /\ i \in 1 .. n /\ DOMAIN frames = 1 .. n /\ n # 0
    BY DEF Laid
  <2>2. Len(frames) = n /\ end \in Nat
    BY <2>1, LaidEnd
  <2>3. limit \in Nat /\ limit # 0
    BY <2>2
  <2>4. TermWith(term, frames, n)
    BY <2>1, LaidTerm
  <2>5. PICK m : FirstBehind(frames, n, i, limit, m)
    BY <2>1, SomeFirstBehind
  <2>6. m \in i .. n + 1
    BY <2>5 DEF FirstBehind
  <2> HIDE DEF term, end
  <2>7. fit(i, limit) = i .. m - 1 /\ next(i, limit) = m
    BY <2>1, <2>2, <2>3, <2>5, FittingFrames
  <2>8. PICK offset \in Nat : offset = frames[i].offset
    BY <2>1, LaidFrame
  <2>9. PICK place \in Nat :
          /\ place = PlaceOf(frames, n, m) /\ (place = offset <=> m = i)
          /\ m # i => place = End(frames[m - 1])
    BY <2>1, <2>3, <2>5, <2>8, FirstBehindPlace
  <2> HIDE DEF fit, next
  <2>10. data(i, limit) = place - offset
    <3>1. CASE m = i
      <4>1. fit(i, limit) = {}
        BY <2>1, <2>7, <3>1
      <4>2. place - offset = 0
        BY <2>9, <3>1
      <4> QED BY <4>1, <4>2
    <3>2. CASE m # i
      <4>1. i \in i .. m - 1
        BY <2>1, <2>6, <3>2
      <4>2. fit(i, limit) # {}
        BY <2>7, <4>1
      <4> QED BY <2>7, <2>8, <2>9, <3>2, <4>2
    <3> QED BY <3>1, <3>2
  <2> HIDE DEF data
  <2>11. pads(i, limit) <=> m <= n /\ frames[m].type = "PAD" /\ place - offset < limit
    BY <2>2, <2>7, <2>10
  <2> HIDE DEF pads
  <2>12. PICK scan : scan = scan_for_availability(term, offset, limit)
    OBVIOUS
  <2>13. /\ pads(i, limit) => /\ scan.available = data(i, limit) + 1
                              /\ scan.padding = frames[next(i, limit)].length - 1
         /\ ~pads(i, limit) => /\ IF data(i, limit) = 0 THEN scan.available < 0
                                  ELSE scan.available = data(i, limit)
                               /\ scan.padding = 0
    <3>1. LET pad == m <= n /\ frames[m].type = "PAD" /\ place - offset < limit
          IN  /\ pad => /\ scan.available = (place - offset) + 1
                        /\ scan.padding = frames[m].length - 1
              /\ ~pad => /\ IF place - offset = 0 THEN scan.available < 0
                            ELSE scan.available = place - offset
                         /\ scan.padding = 0
      BY <2>1, <2>3, <2>4, <2>5, <2>8, <2>9, <2>12, PacketFound
    <3> QED BY <2>7, <2>10, <2>11, <3>1
  <2>14. block_scan(term, frames[i].offset, frames[i].offset + limit) =
           frames[i].offset + IF frames[i].type = "PAD" THEN 1 ELSE data(i, limit)
    BY <2>1, <2>3, <2>4, <2>5, <2>8, <2>9, <2>10, BlockFound
  <2> QED BY <2>8, <2>12, <2>13, <2>14
<1>2. \A i \in DOMAIN frames, limit \in 1 .. end + 1 : Found(i, limit)
  <2> HIDE DEF Found, end
  <2> QED BY <1>1
<1> QED BY <1>2, Zenon DEF ScansAre

-----------------------------------------------------------------------------
(* Frames of any lengths and types, one behind the other.                   *)

\* The sum that Placed begins each frame with exists, for any shapes.
LEMMA PlacedUnfolds ==
  ASSUME NEW shapes, NEW n \in Nat,
         shapes \in [1 .. n -> [length : 1 .. ScanLength, type : {"DATA", "PAD"}]]
  PROVE  \E at \in [1 .. n -> Nat] :
           /\ Placed(shapes) = [i \in 1 .. n |-> [offset |-> at[i], length |-> shapes[i].length,
                                                  type |-> shapes[i].type]]
           /\ \A i \in 1 .. n : at[i] = IF i = 1 THEN 0 ELSE at[i - 1] + shapes[i - 1].length
<1>1. DOMAIN shapes = 1 .. n /\ ScanLength \in Nat
  BY LimitsAssumption
<1>2. ASSUME NEW i \in 1 .. n
      PROVE  shapes[i].length \in Nat
  BY <1>1
<1> DEFINE Sum(f, i) == IF i = 1 THEN 0 ELSE f[i - 1] + shapes[i - 1].length
           IsSum(f) == f = [i \in 1 .. n |-> Sum(f, i)]
           SumsTo(f, m) == /\ f \in [1 .. n -> Nat]
                           /\ \A i \in 1 .. n : i <= m => f[i] = Sum(f, i)
           S == {m \in Nat : \E f : SumsTo(f, m)}
<1>3. 0 \in S
  <2> DEFINE f == [i \in 1 .. n |-> 0]
  <2>1. SumsTo(f, 0)
    OBVIOUS
  <2> QED BY <2>1
<1>4. ASSUME NEW m \in Nat, m \in S PROVE m + 1 \in S
  <2>1. PICK f : SumsTo(f, m)
    BY <1>4
  <2> DEFINE g == [i \in 1 .. n |-> IF i = m + 1 THEN Sum(f, i) ELSE f[i]]
  <2>2. \A i \in 1 .. n : g[i] = IF i = m + 1 THEN Sum(f, i) ELSE f[i]
    OBVIOUS
  <2>3. g \in [1 .. n -> Nat]
    <3>1. ASSUME NEW i \in 1 .. n PROVE Sum(f, i) \in Nat
      <4>1. CASE i = 1
        BY <4>1
      <4>2. CASE i # 1
        <5>1. i - 1 \in 1 .. n
          BY <4>2
        <5>2. f[i - 1] \in Nat /\ shapes[i - 1].length \in Nat
          BY <1>2, <2>1, <5>1
        <5> QED BY <4>2, <5>2
      <4> QED BY <4>1, <4>2
    <3>2. \A i \in 1 .. n : f[i] \in Nat
      BY <2>1
    <3> HIDE DEF Sum
    <3> QED BY <3>1, <3>2
  <2> HIDE DEF g
  <2>4. ASSUME NEW i \in 1 .. n, i <= m + 1 PROVE g[i] = Sum(g, i)
    <3>1. Sum(g, i) = Sum(f, i)
      <4>1. CASE i = 1
        BY <4>1
      <4>2. CASE i # 1
        <5>1. i - 1 \in 1 .. n /\ i - 1 # m + 1
          BY <2>4, <4>2
        <5>2. g[i - 1] = f[i - 1]
          BY <2>2, <5>1
        <5> QED BY <4>2, <5>2
      <4> QED BY <4>1, <4>2
    <3>2. CASE i = m + 1
      BY <2>2, <3>1, <3>2
    <3>3. CASE i # m + 1
      <4>1. i <= m
        BY <2>4, <3>3
      <4>2. f[i] = Sum(f, i)
        BY <2>1, <4>1
      <4> HIDE DEF Sum
      <4> QED BY <2>2, <3>1, <3>3, <4>2
    <3> QED BY <3>2, <3>3
  <2>5. SumsTo(g, m + 1)
    BY <2>3, <2>4
  <2> QED BY <2>5
<1> HIDE DEF S
<1>5. \A m \in Nat : m \in S
  BY <1>3, <1>4, EveryNumber
<1>6. PICK f : SumsTo(f, n)
  BY <1>5 DEF S
<1>7. IsSum(f)
  <2>1. f = [i \in 1 .. n |-> f[i]]
    BY <1>6
  <2>2. \A i \in 1 .. n : f[i] = Sum(f, i)
    BY <1>6
  <2> HIDE DEF Sum
  <2> QED BY <2>1, <2>2
<1> DEFINE at == CHOOSE g : IsSum(g)
<1>8. IsSum(at)
  BY <1>7
<1>9. Placed(shapes) = [i \in 1 .. n |-> [offset |-> at[i], length |-> shapes[i].length,
                                          type |-> shapes[i].type]]
  BY <1>1 DEF Placed
<1> HIDE DEF at
<1>10. \A i \in 1 .. n : at[i] = Sum(at, i)
  <2>1. at = [i \in 1 .. n |-> Sum(at, i)]
    BY <1>8
  <2> HIDE DEF Sum
  <2> QED BY <2>1
<1>11. \A i \in 1 .. n : at[i] \in Nat
  <2> DEFINE N == {d \in Nat : d + 1 \in 1 .. n => at[d + 1] \in Nat}
  <2>1. 0 \in N
    <3>1. 1 \in 1 .. n => at[1] = Sum(at, 1)
      BY <1>10
    <3> QED BY <3>1
  <2>2. ASSUME NEW d \in Nat, d \in N PROVE d + 1 \in N
    <3>1. SUFFICES ASSUME (d + 1) + 1 \in 1 .. n PROVE at[(d + 1) + 1] \in Nat
      OBVIOUS
    <3>2. d + 1 \in 1 .. n /\ (d + 1) + 1 # 1 /\ ((d + 1) + 1) - 1 = d + 1
      BY <3>1
    <3>3. at[d + 1] \in Nat /\ shapes[d + 1].length \in Nat
      BY <1>2, <2>2, <3>2
    <3>4. at[(d + 1) + 1] = at[d + 1] + shapes[d + 1].length
      BY <1>10, <3>1, <3>2
    <3> QED BY <3>3, <3>4
  <2> HIDE DEF N
  <2>3. \A d \in Nat : d \in N
    BY <2>1, <2>2, EveryNumber
  <2>4. ASSUME NEW i \in 1 .. n PROVE at[i] \in Nat
    <3>1. i - 1 \in N /\ (i - 1) + 1 = i
      BY <2>3
    <3> QED BY <3>1 DEF N
  <2> QED BY <2>4
<1>12. at = [i \in 1 .. n |-> at[i]]
  <2>1. at = [i \in 1 .. n |-> Sum(at, i)]
    BY <1>8
  <2> HIDE DEF Sum
  <2> QED BY <2>1
<1>13. at \in [1 .. n -> Nat]
  BY <1>11, <1>12
<1> QED BY <1>9, <1>10, <1>13

\* The frames of any shapes lie one behind the other.
LEMMA PlacedLaid ==
  ASSUME NEW shapes, NEW n \in Nat,
         shapes \in [1 .. n -> [length : 1 .. ScanLength, type : {"DATA", "PAD"}]]
  PROVE  Laid(Placed(shapes), n)
<1>1. PICK at \in [1 .. n -> Nat] :
        /\ Placed(shapes) = [i \in 1 .. n |-> [offset |-> at[i], length |-> shapes[i].length,
                                               type |-> shapes[i].type]]
        /\ \A i \in 1 .. n : at[i] = IF i = 1 THEN 0 ELSE at[i - 1] + shapes[i - 1].length
  BY PlacedUnfolds
<1>2. PICK frames : frames = Placed(shapes)
  OBVIOUS
<1>3. ASSUME NEW i \in 1 .. n
      PROVE  /\ frames[i] = [offset |-> at[i], length |-> shapes[i].length,
                             type |-> shapes[i].type]
             /\ frames[i] \in [offset : Nat, length : Nat \ {0}, type : {"DATA", "PAD"}]
             /\ frames[i].offset = at[i] /\ End(frames[i]) = at[i] + shapes[i].length
  <2>1. frames[i] = [offset |-> at[i], length |-> shapes[i].length, type |-> shapes[i].type]
    BY <1>1, <1>2
  <2>2. at[i] \in Nat
    BY <1>1
  <2>3. shapes[i] \in [length : 1 .. ScanLength, type : {"DATA", "PAD"}]
    OBVIOUS
  <2>4. shapes[i].length \in Nat \ {0} /\ shapes[i].type \in {"DATA", "PAD"}
    BY <2>3, LimitsAssumption
  <2> QED BY <2>1, <2>2, <2>4 DEF End
<1>4. frames = [i \in 1 .. n |-> frames[i]]
  BY <1>1, <1>2
<1>5. PICK F : F = [offset : Nat, length : Nat \ {0}, type : {"DATA", "PAD"}]
  OBVIOUS
<1>6. frames \in [1 .. n -> F]
  BY <1>3, <1>4, <1>5
<1>7. ASSUME NEW i \in 1 .. n
      PROVE  frames[i].offset = IF i = 1 THEN 0 ELSE End(frames[i - 1])
  <2>1. CASE i = 1
    BY <1>1, <1>3, <2>1
  <2>2. CASE i # 1
    <3>1. i - 1 \in 1 .. n
      BY <2>2
    <3>2. End(frames[i - 1]) = at[i - 1] + shapes[i - 1].length
      BY <1>3, <3>1
    <3>3. frames[i].offset = at[i] /\ at[i] = at[i - 1] + shapes[i - 1].length
      BY <1>1, <1>3, <2>2
    <3> QED BY <2>2, <3>2, <3>3
  <2> QED BY <2>1, <2>2
<1> QED BY <1>2, <1>5, <1>6, <1>7 DEF Laid

\* The publication has as many frames as it has, and no number of frames is unsound.
LEMMA CountIsSound == ASSUME published \in 0 .. Len(Frames) PROVE ScansEndOnFrames
<1>1. ASSUME NEW shapes \in TupleOf([length : 1 .. ScanLength, type : {"DATA", "PAD"}], published),
             NEW claimed \in {0, -1}
      PROVE  ScansAre(Placed(shapes), claimed)
  <2>1. published \in Nat
    OBVIOUS
  <2>2. shapes \in [1 .. published -> [length : 1 .. ScanLength, type : {"DATA", "PAD"}]]
    BY DEF TupleOf
  <2>3. Laid(Placed(shapes), published)
    BY <2>1, <2>2, PlacedLaid
  <2> QED BY <2>3, LaidScans
<1> QED BY <1>1 DEF ScansEndOnFrames, SoundCounts

-----------------------------------------------------------------------------
(* The theorems.                                                           *)

\* The invariant holds of every state.
THEOREM InvCorrect == Spec => []IInv
<1>1. Init => IInv
  BY InitHolds
<1>2. IInv /\ [Next]_vars => IInv'
  BY StepHolds
<1> QED BY <1>1, <1>2, PTL DEF Spec

\* The subscriber is handed the stream (DeliveredInv).
LEMMA IInvReadsTheStream == ASSUME IInv PROVE ReadsTheStream
<1>1. SUFFICES ASSUME ~ overlap PROVE /\ Range(delivered) = Passed(subscriber, filled)
                                      /\ \A j, k \in DOMAIN delivered :
                                           j < k => delivered[j] < delivered[k]
  BY DEF ReadsTheStream, Passed, Start
<1> QED BY <1>1 DEF IInv, ThreadsInv, DeliveredInv

\* A gap is where nothing was received, and starts with a frame (GapInv).
LEMMA IInvGapsAreMissing == ASSUME IInv PROVE GapsAreMissing
<1>1. SUFFICES ASSUME gap # NoGap, ~ overlap
               PROVE  /\ \A i \in gap.found : Frames[i].offset \notin Span(gap.offset, gap.length)
                      /\ \E i \in DOMAIN Frames : Frames[i].offset = gap.offset
  BY DEF GapsAreMissing
<1>2. TypesInv /\ ImageInv /\ ThreadsInv
  BY <1>1 DEF IInv
<1>3. /\ gap.length > 0 /\ Reached(image, gap.offset) /\ gap.offset + gap.length <= high_mark
      /\ \A i \in gap.found : Start(i) \notin Span(gap.offset, gap.length)
  BY <1>1, <1>2 DEF ThreadsInv, GapInv, GapOK
<1>4. gap.offset \in Nat /\ gap.length \in Nat
  BY <1>2 DEF TypesInv
<1>5. gap.offset < TermLength /\ gap.offset \in Boundaries
  BY <1>2, <1>3, <1>4, MarkInTerm DEF Reached
<1>6. \E i \in DOMAIN Frames : gap.offset = Start(i)
  BY <1>5, BoundaryFacts
<1> QED BY <1>3, <1>6 DEF Start

\* For every term, every limit of the packets and whatever the payload looks like, and
\* whatever is lost, repeated or reordered: the subscriber is handed every data frame
\* that it has passed, once, in order, whole and with its own payload, except those that
\* padding has replaced.
THEOREM ReadsStream == Spec => []ReadsTheStream
<1>1. IInv => ReadsTheStream
  BY IInvReadsTheStream
<1> QED BY <1>1, InvCorrect, PTL

\* And no gap that is reported has a frame that was received before the scan for it
\* began; it starts where a frame does, so that the sender can send it again.
THEOREM GapsMissing == Spec => []GapsAreMissing
<1>1. IInv => GapsAreMissing
  BY IInvGapsAreMissing
<1> QED BY <1>1, InvCorrect, PTL

\* What the sender's scan and the archive's find: whole frames and all that fit, in
\* every term with as many frames as the publication has committed.
THEOREM ScansFindWholeFrames == Spec => []ScansEndOnFrames
<1> DEFINE Count == published \in 0 .. Len(Frames)
<1>1. Init => Count
  BY DEF Init
<1>2. Count /\ [Next]_vars => Count'
  BY DEF Next, vars, Send, Resend, Insert, InsertStep, CopyPacket, PublishLength, ScanStep,
         Scan, WalkFrames, WalkGap, FillStep, Fill, CheckEmpty, ApplyDefaultHeader, PadType,
         PadLength, ReadStep, ReadLength, ReadFrame
<1>3. Count => ScansEndOnFrames
  BY CountIsSound
<1> HIDE DEF Count
<1> QED BY <1>1, <1>2, <1>3, PTL DEF Spec
=============================================================================
