-------------------------- MODULE FrameLinkProofs --------------------------
(***************************************************************************)
(* What the reader gives its caller at the end of a faulty line, for any   *)
(* number of frames of any lengths and any number of faults.               *)
(*                                                                         *)
(* Three things are kept.  What the region holds was sent after everything *)
(* that was delivered, so deliveries ascend.  The region of a garbled      *)
(* frame is never, and never becomes, that frame's.  And a region that is  *)
(* not what was sent of the current frame costs at most one Error more.    *)
(***************************************************************************)
EXTENDS FrameLink, TLAPS

\* What the reader holds of frame f after n of its bytes, if nothing went wrong.
Prefix(f, n) == [k \in 1 .. n |-> <<f, k>>]

TypeInv ==
    /\ region \in Seq(Byte \ {Delimiter}) /\ overflow \in BOOLEAN
    /\ current \in 1 .. Len(FrameLength) + 1
    /\ position \in Nat \ {0}
    /\ position > 1 => Sending /\ position <= FrameLength[current] + 1
    /\ delivered \in Seq(Frames)
    /\ errors \in Nat /\ faults \in Nat /\ splits \in Nat

Sent(f, j) == f < current \/ (f = current /\ j < position)

\* Noise, or a byte that was sent and is newer than what was delivered.
News(byte) ==
    \/ byte = Junk
    \/ \E f \in Frames : \E j \in 1 .. FrameLength[f] :
          byte = <<f, j>> /\ Sent(f, j) /\ \A d \in Delivered : d < f

RegionIsNews == \A k \in 1 .. Len(region) : News(region[k])

DeliveredInOrder ==
    /\ \A m, n \in 1 .. Len(delivered) : m < n => delivered[m] < delivered[n]
    /\ \A d \in Delivered : d < current \/ (d = current /\ AtDelimiter)

\* The region is what was sent of f so far, all of it if f is not the current frame.
OnTrack(f) ==
    ~overflow /\ region = Prefix(f, IF f = current THEN position - 1 ELSE FrameLength[f])

GarbledIsLost ==
    /\ garbled \subseteq Frames
    /\ \A f \in garbled : f < current \/ (f = current /\ position > 1)
    /\ \A f \in garbled : ~OnTrack(f)
    /\ Delivered \cap garbled = {}

\* An undamaged frame arrives as it is sent.
CurrentArrives ==
    Sending /\ current \notin damaged /\ current - 1 \notin unclosed => OnTrack(current)

\* The region is in order, or has been closed already.
InOrder ==
    ~overflow /\ (region = Prefix(current, position - 1) \/ (region = <<>> /\ Sending /\ AtDelimiter))

\* The Errors to come, if there are no more faults.
Pending == IF InOrder THEN 0 ELSE 1

IInv ==
    /\ TypeInv
    /\ RegionIsNews /\ DeliveredInOrder
    /\ GarbledIsLost
    /\ CurrentArrives /\ OnlyDamagedFramesLost
    /\ errors + Pending <= faults + splits

-----------------------------------------------------------------------------
(* A frame has a length, from one byte to the whole buffer.                *)
LEMMA Lengths == \A f \in Frames : FrameLength[f] \in 1 .. RegionCap
BY FrameLinkAssumption DEF Frames

(* What a frame is made of.                                                *)
LEMMA PrefixLaws ==
    ASSUME NEW f, NEW n \in Nat
    PROVE  /\ Prefix(f, n) \in Seq({<<f, k>> : k \in 1 .. n}) /\ Len(Prefix(f, n)) = n
           /\ \A k \in 1 .. n : Prefix(f, n)[k] = <<f, k>>
           /\ Prefix(f, 0) = <<>>
           /\ Append(Prefix(f, n), <<f, n + 1>>) = Prefix(f, n + 1)
<1>1. Prefix(f, n) \in Seq({<<f, k>> : k \in 1 .. n}) /\ Len(Prefix(f, n)) = n
    BY DEF Prefix
<1>2. \A k \in 1 .. n : Prefix(f, n)[k] = <<f, k>>
    BY DEF Prefix
<1>3. Prefix(f, 0) = <<>>
    BY DEF Prefix
<1>4. Append(Prefix(f, n), <<f, n + 1>>) = Prefix(f, n + 1)
    BY <1>1 DEF Prefix
<1> QED BY <1>1, <1>2, <1>3, <1>4

(* The bytes of a frame are data.                                          *)
LEMMA FrameBytes ==
    \A f \in Frames : \A k \in 1 .. FrameLength[f] : <<f, k>> \in Byte \ {Delimiter, Junk}
BY Lengths, FrameLinkAssumption DEF DataByte, Byte

(* A frame's region is all of it.                                          *)
LEMMA WholeFrame ==
    ASSUME NEW f \in Frames
    PROVE  /\ RegionOf(f) = Prefix(f, FrameLength[f])
           /\ Len(RegionOf(f)) = FrameLength[f]
           /\ \A k \in 1 .. FrameLength[f] : RegionOf(f)[k] = <<f, k>>
BY Lengths DEF RegionOf, Prefix

(* The decoder gives the frame whose region it is, and no other.           *)
LEMMA DecodesTheFrame ==
    ASSUME NEW f \in Frames
    PROVE  DecodeRegion(RegionOf(f)) = [status |-> "Ok", frame |-> f]
<1>1. RegionOf(f)[1][1] = f
    BY WholeFrame, Lengths
<1> QED BY <1>1 DEF DecodeRegion

-----------------------------------------------------------------------------
\* What a byte that is no delimiter does.
Taken(byte) ==
    /\ \/ Len(region) < RegionCap /\ region' = Append(region, byte) /\ overflow' = overflow
       \/ Len(region) >= RegionCap /\ region' = region /\ overflow' = TRUE
    /\ delivered' = delivered /\ errors' = errors

Whole(f) == ~overflow /\ region = RegionOf(f)

\* What a delimiter does.
Closed ==
    /\ region' = <<>> /\ overflow' = FALSE
    /\ \/ \E f \in Frames : Whole(f) /\ delivered' = Append(delivered, f) /\ errors' = errors
       \/ delivered' = delivered /\ errors' = errors /\ region = <<>> /\ ~overflow
       \/ delivered' = delivered /\ errors' = errors + 1
             /\ (overflow \/ region # <<>>) /\ \A f \in Frames : ~Whole(f)

(* A byte that is no delimiter is added, or is one too many.               *)
LEMMA DataIsTaken ==
    ASSUME NEW byte, byte # Delimiter, Receive(byte)
    PROVE  Taken(byte)
<1>1. Reader!Accumulate(byte) \/ Reader!Overflow(byte)
    BY DEF Receive, Reader!Push, Reader!SkipEmpty, Reader!CloseOverflowed, Reader!CloseRegion
<1>2. event' = "NeedMore"
    BY <1>1 DEF Reader!Accumulate, Reader!Overflow
<1>3. delivered' = delivered /\ errors' = errors
    BY <1>2 DEF Receive
<1> QED BY <1>1, <1>3 DEF Taken, Reader!Accumulate, Reader!Overflow

(* A delimiter gives a frame, or one Error, or does nothing.               *)
LEMMA DelimiterCloses ==
    ASSUME TypeInv, Receive(Delimiter)
    PROVE  Closed
<1>1. CASE Reader!SkipEmpty(Delimiter)
  <2>1. delivered' = delivered /\ errors' = errors
      BY <1>1 DEF Receive, Reader!SkipEmpty
  <2> QED BY <1>1, <2>1 DEF Closed, Reader!SkipEmpty, TypeInv
<1>2. CASE Reader!CloseOverflowed(Delimiter)
  <2>1. delivered' = delivered /\ errors' = errors + 1
      BY <1>2 DEF Receive, Reader!CloseOverflowed
  <2> QED BY <1>2, <2>1 DEF Closed, Reader!CloseOverflowed, Reader!StartRegion, Whole
<1>3. CASE Reader!CloseRegion(Delimiter)
  <2>1. region' = <<>> /\ overflow' = FALSE /\ ~overflow /\ region # <<>>
      BY <1>3 DEF Reader!CloseRegion, Reader!StartRegion
  <2>2. ASSUME NEW f \in Frames, region = RegionOf(f) PROVE Closed
    <3>1. event' = "FrameReady" /\ frame' = f
        BY <1>3, <2>2, DecodesTheFrame DEF Reader!CloseRegion
    <3> QED BY <2>1, <2>2, <3>1 DEF Receive, Closed, Whole
  <2>3. ASSUME \A f \in Frames : region # RegionOf(f) PROVE Closed
    <3>1. DecodeRegion(region).status = "CrcMismatch"
        BY <2>3 DEF DecodeRegion
    <3>2. event' = "Error"
        BY <1>3, <3>1 DEF Reader!CloseRegion
    <3> QED BY <2>1, <2>3, <3>2 DEF Receive, Closed, Whole
  <2> QED BY <2>2, <2>3
<1> QED BY <1>1, <1>2, <1>3
    DEF Receive, Reader!Push, Reader!Accumulate, Reader!Overflow

(* A closed region that was the whole of a frame gave that frame.          *)
LEMMA WholeIsDelivered ==
    ASSUME Closed, NEW f \in Frames, Whole(f)
    PROVE  delivered' = Append(delivered, f) /\ errors' = errors
<1>1. Len(region) = FrameLength[f] /\ region[1] = <<f, 1>> /\ Len(region) # 0
    BY WholeFrame, Lengths DEF Whole
<1>2. region # <<>>
    BY <1>1
<1>3. PICK g \in Frames : Whole(g) /\ delivered' = Append(delivered, g) /\ errors' = errors
    BY <1>2 DEF Closed
<1>4. region[1] = <<g, 1>>
    BY <1>3, WholeFrame, Lengths DEF Whole
<1> QED BY <1>1, <1>3, <1>4

-----------------------------------------------------------------------------
\* What a step does to the reader and its caller.
Kept == UNCHANGED <<region, overflow, delivered, errors>>
Cleared == region' = <<>> /\ overflow' = FALSE /\ UNCHANGED <<delivered, errors>>
Wasted == Closed \/ Taken(Junk) \/ Cleared
NextTaken == ~AtDelimiter /\ Taken(<<current, position>>)

(* The byte of a frame that is on its way is a data byte.                  *)
LEMMA NextIsData ==
    ASSUME TypeInv, Sending, ~AtDelimiter
    PROVE  /\ NextByte = <<current, position>> /\ position \in 1 .. FrameLength[current]
           /\ NextByte # Delimiter /\ NextByte \in Byte \ {Delimiter}
<1>1. FrameLength[current] \in Nat /\ position \in 1 .. FrameLength[current]
    BY Lengths DEF TypeInv, Sending, AtDelimiter
<1> QED BY <1>1, FrameBytes DEF NextByte, Sending

(* At the delimiter all of the frame has been sent.                        *)
LEMMA AllSent ==
    ASSUME TypeInv, Sending, AtDelimiter
    PROVE  position = FrameLength[current] + 1 /\ position > 1 /\ position - 1 = FrameLength[current]
BY Lengths DEF TypeInv, Sending, AtDelimiter

(* A transmitted byte is taken, or closes the region.                      *)
LEMMA TransmitReceives ==
    ASSUME TypeInv, Transmit
    PROVE  NextTaken \/ (AtDelimiter /\ Closed)
<1>1. CASE ~AtDelimiter
    BY <1>1, NextIsData, DataIsTaken DEF Transmit, NextTaken
<1>2. CASE AtDelimiter
    BY <1>2, DelimiterCloses DEF Transmit, NextByte
<1> QED BY <1>1, <1>2

(* A byte the line made up closes the region or spoils it.                 *)
LEMMA NoiseIsWasted ==
    ASSUME TypeInv, NEW byte \in {Delimiter, Junk}, Receive(byte)
    PROVE  Closed \/ Taken(Junk)
BY DelimiterCloses, DataIsTaken, FrameLinkAssumption

(* So does every step of the line.                                         *)
LEMMA StepOutcome ==
    ASSUME TypeInv, Next
    PROVE  /\ Sending
           /\ \/ Advance /\ (NextTaken \/ Kept \/ Wasted)
              \/ UNCHANGED senderVars /\ Wasted
<1>1. CASE Transmit
    BY <1>1, TransmitReceives DEF Transmit, Wasted
<1>2. CASE Drop
    BY <1>2 DEF Drop, ReceiveNothing, readerVars, Kept
<1>3. CASE Corrupt
    BY <1>3, NoiseIsWasted DEF Corrupt, Wasted
<1>4. CASE Insert
    BY <1>4, NoiseIsWasted DEF Insert, Wasted
<1>5. CASE Restart
    BY <1>5 DEF Restart, Reader!Reset, Reader!StartRegion, Cleared, Wasted
<1> QED BY <1>1, <1>2, <1>3, <1>4, <1>5 DEF Next

(* The sender moves on within its frame, or to the next one.               *)
LEMMA SenderMoves ==
    ASSUME TypeInv, Sending, Advance
    PROVE  /\ AtDelimiter => current' = current + 1 /\ position' = 1
           /\ ~AtDelimiter => current' = current /\ position' = position + 1
           /\ current' \in 1 .. Len(FrameLength) + 1 /\ position' \in Nat \ {0}
           /\ position' > 1 => Sending' /\ position' <= FrameLength[current'] + 1
<1>1. current \in 1 .. Len(FrameLength) /\ Len(FrameLength) \in Nat /\ FrameLength[current] \in Nat
    BY Lengths, FrameLinkAssumption DEF Sending, Frames
<1>2. CASE AtDelimiter
    BY <1>1, <1>2 DEF Advance, TypeInv
<1>3. CASE ~AtDelimiter
    BY <1>1, <1>3 DEF Advance, TypeInv, AtDelimiter, Sending, Frames
<1> QED BY <1>2, <1>3

(* The variables keep their types.                                         *)
LEMMA TypeStep ==
    ASSUME TypeInv, Next
    PROVE  TypeInv'
<1>1. Sending /\ (Advance \/ UNCHANGED senderVars)
    BY StepOutcome
<1>2. /\ current' \in 1 .. Len(FrameLength) + 1 /\ position' \in Nat \ {0}
      /\ position' > 1 => Sending' /\ position' <= FrameLength[current'] + 1
    BY <1>1, SenderMoves DEF TypeInv, senderVars, Sending
<1>3. faults' \in Nat /\ splits' \in Nat
    BY DEF Next, Transmit, Drop, Corrupt, Insert, Restart, Fault, Split, historyVars, TypeInv
<1>4. NextTaken \/ Kept \/ Closed \/ Taken(Junk) \/ Cleared
    BY StepOutcome DEF Wasted
<1>5. ASSUME NEW byte \in Byte \ {Delimiter}, Taken(byte)
      PROVE  region' \in Seq(Byte \ {Delimiter}) /\ overflow' \in BOOLEAN
  <2> DEFINE Data == Byte \ {Delimiter}
  <2>1. region \in Seq(Data) /\ byte \in Data
      BY <1>5 DEF TypeInv
  <2> HIDE DEF Data
  <2>2. region' \in Seq(Data)
      BY <1>5, <2>1 DEF Taken
  <2>3. overflow' \in BOOLEAN
      BY <1>5 DEF Taken, TypeInv
  <2> QED BY <2>2, <2>3 DEF Data
<1>6. region' \in Seq(Byte \ {Delimiter}) /\ overflow' \in BOOLEAN
  <2>1. CASE NextTaken
    <3>1. <<current, position>> \in Byte \ {Delimiter}
        BY <1>1, <2>1, NextIsData DEF NextTaken
    <3> QED BY <2>1, <3>1, <1>5 DEF NextTaken
  <2>2. CASE Taken(Junk)
      BY <2>2, <1>5, FrameLinkAssumption DEF Byte
  <2>3. CASE Kept
      BY <2>3 DEF Kept, TypeInv
  <2>4. CASE Closed \/ Cleared
    <3>1. region' = <<>> /\ overflow' = FALSE
        BY <2>4 DEF Closed, Cleared
    <3>2. overflow' \in BOOLEAN
        BY <3>1
    <3>3. region' \in Seq(Byte \ {Delimiter})
        BY <3>1
    <3> QED BY <3>2, <3>3
  <2> QED BY <1>4, <2>1, <2>2, <2>3, <2>4
<1>7. delivered' \in Seq(Frames) /\ errors' \in Nat
  <2>1. \/ delivered' = delivered
        \/ \E f \in Frames : delivered' = Append(delivered, f)
      BY <1>4 DEF NextTaken, Taken, Kept, Closed, Cleared
  <2>2. errors' = errors \/ errors' = errors + 1
      BY <1>4 DEF NextTaken, Taken, Kept, Closed, Cleared
  <2>3. delivered' \in Seq(Frames)
      BY <2>1 DEF TypeInv
  <2> QED BY <2>2, <2>3 DEF TypeInv
<1> QED BY <1>2, <1>3, <1>6, <1>7 DEF TypeInv

-----------------------------------------------------------------------------
(* What has been sent stays sent.                                          *)
LEMMA SentGrows ==
    ASSUME TypeInv, Next, NEW f \in Frames, NEW j \in 1 .. FrameLength[f], Sent(f, j)
    PROVE  Sent(f, j)'
<1>1. f \in Nat /\ FrameLength[f] \in Nat /\ current \in Nat /\ position \in Nat /\ Sending
    BY Lengths, StepOutcome DEF Frames, TypeInv
<1>2. CASE UNCHANGED senderVars
    BY <1>2 DEF senderVars, Sent
<1>3. CASE Advance /\ AtDelimiter
  <2>1. current' = current + 1
      BY <1>3 DEF Advance
  <2> QED BY <1>1, <2>1 DEF Sent
<1>4. CASE Advance /\ ~AtDelimiter
  <2>1. current' = current /\ position' = position + 1
      BY <1>4 DEF Advance
  <2> QED BY <1>1, <2>1 DEF Sent
<1> QED BY <1>2, <1>3, <1>4, StepOutcome

(* A byte just sent is the newest there is.                                *)
LEMMA NextIsNews ==
    ASSUME TypeInv, DeliveredInOrder, Sending, Advance, NextTaken,
           NEW byte, byte = <<current, position>>
    PROVE  News(byte)'
<1>1. ~AtDelimiter /\ Delivered' = Delivered
    BY DEF NextTaken, Taken, Delivered
<1> PICK f \in Frames, j \in Nat : f = current /\ j = position
    BY DEF Sending, TypeInv
<1>2. j \in 1 .. FrameLength[f] /\ byte = <<f, j>>
    BY <1>1, NextIsData
<1>3. current' = f /\ position' = j + 1
    BY <1>1 DEF Advance
<1>4. Sent(f, j)'
    BY <1>3 DEF Sent
<1>5. \A d \in Delivered : d < f
    BY <1>1 DEF DeliveredInOrder
<1> QED BY <1>1, <1>2, <1>4, <1>5 DEF News

(* News stays news until the next delivery.                                *)
LEMMA NewsStays ==
    ASSUME TypeInv, Next, delivered' = delivered, NEW byte, News(byte)
    PROVE  News(byte)'
<1>1. Delivered' = Delivered
    BY DEF Delivered
<1>2. ASSUME byte # Junk PROVE News(byte)'
  <2> PICK f \in Frames : \E j \in 1 .. FrameLength[f] :
               byte = <<f, j>> /\ Sent(f, j) /\ \A d \in Delivered : d < f
      BY <1>2 DEF News
  <2> PICK j \in 1 .. FrameLength[f] :
               byte = <<f, j>> /\ Sent(f, j) /\ \A d \in Delivered : d < f
      OBVIOUS
  <2>1. Sent(f, j)'
      BY SentGrows
  <2> QED BY <1>1, <2>1 DEF News
<1> QED BY <1>2 DEF News

(* What is in the region after a step is still newer than what was         *)
(* delivered.                                                              *)
LEMMA NewsStep ==
    ASSUME TypeInv, RegionIsNews, DeliveredInOrder, Next
    PROVE  RegionIsNews'
<1>1. CASE Closed \/ Cleared
    BY <1>1 DEF Closed, Cleared, RegionIsNews
<1>2. CASE Kept
  <2>1. delivered' = delivered /\ region' = region
      BY <1>2 DEF Kept
  <2>2. ASSUME NEW k \in 1 .. Len(region'), NEW byte, byte = region'[k] PROVE News(byte)'
      BY <2>1, <2>2, NewsStays DEF RegionIsNews
  <2> QED BY <2>2 DEF RegionIsNews
<1>3. ASSUME NEW last, Taken(last), News(last)' PROVE RegionIsNews'
  <2>1. delivered' = delivered /\ (region' = region \/ region' = Append(region, last))
      BY <1>3 DEF Taken
  <2>2. ASSUME NEW k \in 1 .. Len(region'), NEW byte, byte = region'[k] PROVE News(byte)'
    <3>1. byte = last \/ (k \in 1 .. Len(region) /\ byte = region[k])
        BY <2>1, <2>2 DEF TypeInv
    <3>2. CASE byte = last
        BY <1>3, <3>2
    <3>3. CASE k \in 1 .. Len(region) /\ byte = region[k]
        BY <2>1, <3>3, NewsStays DEF RegionIsNews
    <3> QED BY <3>1, <3>2, <3>3
  <2> QED BY <2>2 DEF RegionIsNews
<1>4. CASE Taken(Junk)
  <2>1. News(Junk)'
      BY DEF News
  <2> QED BY <1>3, <1>4, <2>1
<1>5. CASE NextTaken /\ Advance
  <2>1. PICK last : last = <<current, position>>
      OBVIOUS
  <2>2. News(last)'
      BY <1>5, <2>1, NextIsNews, StepOutcome
  <2> QED BY <1>3, <1>5, <2>1, <2>2 DEF NextTaken
<1> QED BY <1>1, <1>2, <1>4, <1>5, StepOutcome DEF Wasted

(* A frame whose region is complete is newer than all that was delivered,  *)
(* and all of it has been sent.                                            *)
LEMMA WholeIsNews ==
    ASSUME TypeInv, RegionIsNews, NEW f \in Frames, Whole(f)
    PROVE  /\ \A d \in Delivered : d < f
           /\ f < current \/ (f = current /\ Sending /\ AtDelimiter)
<1>1. FrameLength[f] \in 1 .. RegionCap /\ Len(region) = FrameLength[f]
    BY Lengths, WholeFrame DEF Whole
<1>2. FrameLength[f] \in 1 .. Len(region) /\ region[FrameLength[f]] = <<f, FrameLength[f]>>
    BY <1>1, WholeFrame DEF Whole
<1>3. region[FrameLength[f]] # Junk
    BY <1>1, <1>2, FrameBytes
<1> PICK g \in Frames : \E j \in 1 .. FrameLength[g] :
        region[FrameLength[f]] = <<g, j>> /\ Sent(g, j) /\ \A d \in Delivered : d < g
    BY <1>2, <1>3 DEF RegionIsNews, News
<1>4. PICK j \in 1 .. FrameLength[g] :
          region[FrameLength[f]] = <<g, j>> /\ Sent(g, j) /\ \A d \in Delivered : d < g
    OBVIOUS
<1>5. g = f /\ j = FrameLength[f]
    BY <1>2, <1>4
<1> QED BY <1>4, <1>5 DEF Sent, AtDelimiter, Sending, TypeInv

(* A delivery adds its frame to what was delivered.                        *)
LEMMA DeliveredGrows ==
    ASSUME TypeInv, Next
    PROVE  \/ delivered' = delivered /\ Delivered' = Delivered
           \/ \E f \in Frames : /\ Whole(f) /\ delivered' = Append(delivered, f)
                                /\ Delivered' = Delivered \cup {f} /\ Closed
<1>1. CASE delivered' = delivered
    BY <1>1 DEF Delivered
<1>2. ASSUME NEW f \in Frames, Whole(f), delivered' = Append(delivered, f), Closed
      PROVE  Delivered' = Delivered \cup {f}
  <2>1. /\ Len(delivered') = Len(delivered) + 1 /\ delivered'[Len(delivered) + 1] = f
        /\ \A n \in 1 .. Len(delivered) : delivered'[n] = delivered[n]
        /\ Len(delivered) \in Nat
      BY <1>2 DEF TypeInv
  <2>2. \A x : x \in Delivered' <=> \E n \in 1 .. Len(delivered) + 1 : x = delivered'[n]
      BY <2>1 DEF Delivered
  <2>3. \A x : x \in Delivered <=> \E n \in 1 .. Len(delivered) : x = delivered[n]
      BY DEF Delivered
  <2>4. \A n \in 1 .. Len(delivered) + 1 : n \in 1 .. Len(delivered) \/ n = Len(delivered) + 1
      BY <2>1
  <2>5. ASSUME NEW x \in Delivered' PROVE x \in Delivered \cup {f}
      BY <2>1, <2>2, <2>3, <2>4
  <2>6. ASSUME NEW x \in Delivered \cup {f} PROVE x \in Delivered'
    <3>1. Len(delivered) + 1 \in 1 .. Len(delivered) + 1
        BY <2>1
    <3>2. \A n \in 1 .. Len(delivered) : n \in 1 .. Len(delivered) + 1
        BY <2>1
    <3> QED BY <2>1, <2>2, <2>3, <3>1, <3>2
  <2> QED BY <2>5, <2>6
<1> QED BY <1>1, <1>2, StepOutcome DEF Wasted, NextTaken, Taken, Kept, Cleared, Closed

(* Deliveries ascend.                                                      *)
LEMMA OrderStep ==
    ASSUME TypeInv, RegionIsNews, DeliveredInOrder, Next
    PROVE  DeliveredInOrder'
<1>1. Sending /\ (Advance \/ UNCHANGED senderVars) /\ current \in Nat
    BY StepOutcome DEF TypeInv
<1>2. ASSUME NEW d \in Nat, d < current \/ (d = current /\ AtDelimiter)
      PROVE  (d < current \/ (d = current /\ AtDelimiter))'
    BY <1>1, <1>2, SenderMoves DEF senderVars, AtDelimiter
<1>3. Delivered \subseteq Nat /\ Frames \subseteq Nat
    BY DEF TypeInv, Delivered, Frames
<1>4. CASE delivered' = delivered /\ Delivered' = Delivered
    BY <1>2, <1>3, <1>4 DEF DeliveredInOrder
<1>5. ASSUME NEW f \in Frames, Whole(f), delivered' = Append(delivered, f), Delivered' = Delivered \cup {f}
      PROVE  DeliveredInOrder'
  <2>1. /\ \A d \in Delivered : d < f
        /\ f < current \/ (f = current /\ AtDelimiter)
      BY <1>5, WholeIsNews
  <2>2. \A d \in Delivered' : (d < current \/ (d = current /\ AtDelimiter))'
      BY <1>2, <1>3, <1>5, <2>1 DEF DeliveredInOrder
  <2>3. /\ Len(delivered') = Len(delivered) + 1 /\ delivered'[Len(delivered) + 1] = f
        /\ \A n \in 1 .. Len(delivered) : delivered'[n] = delivered[n]
        /\ Len(delivered) \in Nat
      BY <1>5 DEF TypeInv
  <2>4. ASSUME NEW m \in 1 .. Len(delivered'), NEW n \in 1 .. Len(delivered'), m < n
        PROVE  delivered'[m] < delivered'[n]
    <3>1. m \in 1 .. Len(delivered) /\ (n \in 1 .. Len(delivered) \/ n = Len(delivered) + 1)
        BY <2>3, <2>4
    <3>2. delivered[m] \in Delivered
        BY <3>1 DEF Delivered
    <3> QED BY <2>1, <2>3, <2>4, <3>1, <3>2 DEF DeliveredInOrder
  <2> QED BY <2>2, <2>4 DEF DeliveredInOrder
<1> QED BY <1>4, <1>5, DeliveredGrows

-----------------------------------------------------------------------------
\* How much of frame f has been sent, if any of it has.
SentOf(f) == IF f = current THEN position - 1 ELSE FrameLength[f]

\* Some of frame f has been sent.
Begun(f) == f < current \/ (f = current /\ position > 1)

(* What has been sent of a frame that has begun.                           *)
LEMMA BegunIsSent == TypeInv => \A f \in Frames : Begun(f) => SentOf(f) \in 1 .. FrameLength[f]
BY Lengths DEF SentOf, Begun, TypeInv, Frames

(* The same of the next state.                                             *)
LEMMA BegunIsSentNext ==
    (TypeInv => \A f \in Frames : Begun(f) => SentOf(f) \in 1 .. FrameLength[f])'
BY BegunIsSent, PTL

(* A region that ends in noise, or is empty, is on no track that has       *)
(* begun.                                                                  *)
LEMMA TrackEnds ==
    ASSUME NEW f \in Frames, NEW n \in 1 .. FrameLength[f], NEW s \in Seq(Byte), NEW byte,
           Prefix(f, n) = <<>> \/ Prefix(f, n) = Append(s, byte)
    PROVE  byte = <<f, n>> /\ s = Prefix(f, n - 1) /\ byte # Junk
<1>0. n \in Nat \ {0} /\ n \in 1 .. n
    BY Lengths
<1>1. Len(Prefix(f, n)) = n /\ Prefix(f, n)[n] = <<f, n>>
    BY <1>0, PrefixLaws
<1>2. Prefix(f, n) # <<>>
    BY <1>0, <1>1
<1>3. /\ Len(Append(s, byte)) = Len(s) + 1 /\ Append(s, byte)[Len(s) + 1] = byte
      /\ \A k \in 1 .. Len(s) : Append(s, byte)[k] = s[k]
    OBVIOUS
<1>4. Len(s) = n - 1 /\ byte = <<f, n>>
  <2>1. n = Len(s) + 1 /\ Len(s) \in Nat
      BY <1>1, <1>2, <1>3
  <2>2. byte = Prefix(f, n)[n]
      BY <1>2, <1>3, <2>1
  <2> QED BY <1>1, <2>1, <2>2
<1>5. n - 1 \in Nat /\ \A k \in 1 .. n - 1 : k \in 1 .. n
    BY <1>0
<1>6. /\ Prefix(f, n - 1) \in Seq({<<f, k>> : k \in 1 .. n - 1}) /\ Len(Prefix(f, n - 1)) = n - 1
      /\ \A k \in 1 .. n - 1 : Prefix(f, n - 1)[k] = <<f, k>> /\ Prefix(f, n)[k] = <<f, k>>
    BY <1>5 DEF Prefix
<1>7. \A k \in 1 .. n - 1 : s[k] = Prefix(f, n - 1)[k]
    BY <1>2, <1>3, <1>4, <1>6
<1>8. s = Prefix(f, n - 1)
    BY <1>4, <1>6, <1>7
<1> QED BY <1>4, <1>8, FrameBytes

(* No frame that has begun is on track after noise, a delimiter or a       *)
(* restart.                                                                *)
LEMMA WastedIsOffTrack ==
    ASSUME TypeInv, TypeInv', Wasted, NEW f \in Frames, Begun(f)'
    PROVE  ~OnTrack(f)'
<1> SUFFICES ASSUME OnTrack(f)' PROVE FALSE
    OBVIOUS
<1> PICK n : n = SentOf(f)'
    OBVIOUS
<1>1. n \in 1 .. FrameLength[f]
    BY BegunIsSentNext
<1>2. ~overflow' /\ region' = Prefix(f, n)
    BY DEF OnTrack, SentOf
<1>3. region' = <<>> \/ region' = Append(region, Junk)
    BY <1>2 DEF Wasted, Closed, Cleared, Taken
<1>4. region \in Seq(Byte)
    BY DEF TypeInv
<1> QED BY <1>1, <1>2, <1>3, <1>4, TrackEnds

(* Nor is the current frame, once a byte of it was lost.                   *)
LEMMA LostByte ==
    ASSUME TypeInv, TypeInv', RegionIsNews, Sending, Advance, ~AtDelimiter, Kept,
           NEW f \in Frames, f = current
    PROVE  ~OnTrack(f)'
<1> SUFFICES ASSUME OnTrack(f)' PROVE FALSE
    OBVIOUS
<1> PICK n \in Nat : n = position
    BY DEF TypeInv
<1>1. n \in 1 .. FrameLength[f] /\ n \in 1 .. n
    BY NextIsData DEF TypeInv
<1>2. current' = f /\ position' = n + 1
    BY DEF Advance
<1>3. region = Prefix(f, n)
    BY <1>2 DEF OnTrack, Kept
<1>4. Len(region) = n /\ region[n] = <<f, n>>
    BY <1>1, <1>3, PrefixLaws
<1>5. News(region[n])
    BY <1>1, <1>4 DEF RegionIsNews
<1>6. <<f, n>> # Junk
    BY <1>1, FrameBytes
<1>7. Sent(f, n)
    BY <1>4, <1>5, <1>6 DEF News
<1> QED BY <1>7 DEF Sent, TypeInv

(* Nor does a frame get back on track when a byte is sent, or lost.        *)
LEMMA OffTrackStays ==
    ASSUME TypeInv, TypeInv', RegionIsNews, Sending, Advance, NextTaken \/ Kept,
           NEW f \in Frames, Begun(f), OnTrack(f)'
    PROVE  OnTrack(f)
<1> PICK n : n = SentOf(f)'
    OBVIOUS
<1>1. ~overflow' /\ region' = Prefix(f, n)
    BY DEF OnTrack, SentOf
<1>2. f \in Nat /\ current \in Nat /\ FrameLength[f] \in Nat /\ position \in Nat
    BY Lengths DEF TypeInv, Frames
<1>3. Begun(f)'
    BY <1>2, SenderMoves DEF Begun
<1>4. n \in 1 .. FrameLength[f]
    BY <1>3, BegunIsSentNext
<1>5. f # current => n = SentOf(f)
  <2>1. f # current => f # current'
      BY <1>2, SenderMoves DEF Begun
  <2> QED BY <2>1 DEF SentOf
<1>6. f = current /\ AtDelimiter => n = SentOf(f)
    BY <1>2, SenderMoves, AllSent DEF SentOf
<1>7. f = current /\ ~AtDelimiter => n - 1 = SentOf(f)
    BY <1>2, SenderMoves DEF SentOf
<1>8. CASE Kept
  <2>1. ~overflow /\ region = Prefix(f, n)
      BY <1>1, <1>8 DEF Kept
  <2>2. f = current => AtDelimiter
      BY <1>8, LostByte
  <2> QED BY <1>5, <1>6, <2>1, <2>2 DEF OnTrack, SentOf
<1>9. CASE NextTaken
  <2>1. ~AtDelimiter /\ ~overflow /\ region' = Append(region, <<current, position>>)
      BY <1>1, <1>9 DEF NextTaken, Taken
  <2> PICK byte : byte = <<current, position>>
      OBVIOUS
  <2>2. region \in Seq(Byte) /\ Prefix(f, n) = Append(region, byte)
      BY <1>1, <2>1 DEF TypeInv
  <2>3. byte = <<f, n>> /\ region = Prefix(f, n - 1)
      BY <1>4, <2>2, TrackEnds
  <2> QED BY <1>7, <2>1, <2>3 DEF OnTrack, SentOf
<1> QED BY <1>8, <1>9

-----------------------------------------------------------------------------
(* A frame that was delivered was on track.                                *)
LEMMA WholeIsOnTrack ==
    ASSUME TypeInv, RegionIsNews, NEW f \in Frames, Whole(f)
    PROVE  OnTrack(f) /\ (f = current => AtDelimiter)
<1>1. f < current \/ (f = current /\ Sending /\ AtDelimiter)
    BY WholeIsNews
<1>2. f = current => AtDelimiter /\ position - 1 = FrameLength[f]
    BY <1>1, AllSent DEF TypeInv, Frames
<1>3. ~overflow /\ region = Prefix(f, FrameLength[f])
    BY WholeFrame DEF Whole
<1> QED BY <1>2, <1>3 DEF OnTrack

(* What a step may add to the garbled frames.                              *)
LEMMA NewlyGarbled ==
    ASSUME TypeInv, RegionIsNews, Next
    PROVE  \/ garbled' = garbled
           \/ /\ garbled' = garbled \cup {current} /\ current \notin Delivered
              /\ delivered' = delivered \/ ~AtDelimiter
              /\ \/ Advance /\ ~AtDelimiter /\ (Kept \/ Wasted)
                 \/ UNCHANGED senderVars /\ position > 1 /\ Wasted
<1>1. CASE Transmit
    BY <1>1 DEF Transmit, historyVars
<1>2. CASE Drop
    BY <1>2 DEF Drop, Fault, ReceiveNothing, readerVars, Kept
<1>3. CASE Corrupt
    BY <1>3, NoiseIsWasted DEF Corrupt, Fault, Wasted
<1>4. CASE Insert
  <2>1. ASSUME Receive(Delimiter), Fault(position > 1, position > 1 /\ ~AtDelimiter)
        PROVE  Wasted /\ (garbled' = garbled \/ (/\ garbled' = garbled \cup {current} /\ current \notin Delivered
                                                  /\ ~AtDelimiter /\ position > 1))
      BY <2>1, DelimiterCloses DEF Fault, Wasted
  <2>2. ASSUME Receive(Junk), Fault(TRUE, position > 1)
        PROVE  /\ Wasted /\ delivered' = delivered
               /\ garbled' = garbled \/ (/\ garbled' = garbled \cup {current} /\ current \notin Delivered
                                         /\ position > 1)
    <3>1. Taken(Junk)
        BY <2>2, DataIsTaken, FrameLinkAssumption
    <3> QED BY <2>2, <3>1 DEF Fault, Wasted, Taken
  <2> QED BY <1>4, <2>1, <2>2 DEF Insert
<1>5. CASE Restart
  <2>1. Cleared
      BY <1>5 DEF Restart, Reader!Reset, Reader!StartRegion, Cleared
  <2> QED BY <1>5, <2>1 DEF Restart, Fault, Wasted, Cleared
<1> QED BY <1>1, <1>2, <1>3, <1>4, <1>5 DEF Next

(* Garbled frames stay lost.                                               *)
LEMMA GarbledStep ==
    ASSUME TypeInv, TypeInv', RegionIsNews, DeliveredInOrder, GarbledIsLost, Next
    PROVE  GarbledIsLost'
<1>1. Sending /\ current \in Frames /\ current \in Nat
    BY StepOutcome DEF TypeInv, Sending
<1>2. (Advance /\ (NextTaken \/ Kept \/ Wasted)) \/ (UNCHANGED senderVars /\ Wasted)
    BY StepOutcome
<1>3. garbled' \subseteq garbled \cup {current} /\ garbled' \subseteq Frames
    BY <1>1, NewlyGarbled DEF GarbledIsLost
<1>4. ASSUME NEW f \in Frames, Begun(f) PROVE Begun(f)'
    BY <1>1, <1>2, <1>4, SenderMoves DEF Begun, senderVars, Frames, TypeInv
<1>5. ASSUME NEW f \in garbled PROVE Begun(f)' /\ ~OnTrack(f)'
  <2>1. f \in Frames /\ Begun(f) /\ ~OnTrack(f)
      BY DEF GarbledIsLost, Begun
  <2>2. Begun(f)'
      BY <1>4, <2>1
  <2>3. CASE Wasted
      BY <2>1, <2>2, <2>3, WastedIsOffTrack
  <2>4. CASE Advance /\ (NextTaken \/ Kept)
      BY <1>1, <2>1, <2>2, <2>4, OffTrackStays
  <2> QED BY <1>2, <2>2, <2>3, <2>4
<1>6. ASSUME NEW f, f = current, garbled' # garbled PROVE Begun(f)' /\ ~OnTrack(f)'
  <2>1. \/ Advance /\ ~AtDelimiter /\ (Kept \/ Wasted)
        \/ UNCHANGED senderVars /\ position > 1 /\ Wasted
      BY <1>6, NewlyGarbled
  <2>2. Begun(f)'
      BY <1>1, <1>6, <2>1, SenderMoves DEF Begun, senderVars, TypeInv
  <2>3. CASE Wasted
      BY <1>1, <1>6, <2>2, <2>3, WastedIsOffTrack
  <2>4. CASE Advance /\ ~AtDelimiter /\ Kept
    <3>1. f \in Frames
        BY <1>1, <1>6
    <3>2. ~OnTrack(f)'
        BY <1>1, <1>6, <2>4, <3>1, LostByte
    <3> QED BY <2>2, <3>2
  <2> QED BY <2>1, <2>2, <2>3, <2>4
<1>7. \A f \in garbled' : Begun(f)' /\ ~OnTrack(f)'
    BY <1>3, <1>5, <1>6
<1>8. ASSUME NEW f \in garbled PROVE f \notin Delivered'
  <2>1. f \notin Delivered /\ ~OnTrack(f)
      BY DEF GarbledIsLost
  <2>2. \A g \in Frames : Whole(g) => g # f
      BY <2>1, WholeIsOnTrack
  <2> QED BY <2>1, <2>2, DeliveredGrows
<1>9. ASSUME garbled' # garbled PROVE current \notin Delivered'
  <2>1. current \notin Delivered /\ (delivered' = delivered \/ ~AtDelimiter)
      BY <1>9, NewlyGarbled
  <2>2. \A g \in Frames : Whole(g) => g # current \/ AtDelimiter
      BY WholeIsOnTrack
  <2>3. CASE delivered' = delivered
      BY <2>1, <2>3 DEF Delivered
  <2>4. CASE ~AtDelimiter
      BY <2>1, <2>2, <2>4, DeliveredGrows
  <2> QED BY <2>1, <2>3, <2>4
<1>10. Delivered' \cap garbled' = {}
    BY <1>3, <1>8, <1>9
<1> QED BY <1>3, <1>7, <1>10 DEF GarbledIsLost, Begun

-----------------------------------------------------------------------------
(* A frame on track stays on track while its bytes are taken.              *)
LEMMA TrackAdvances ==
    ASSUME TypeInv, Sending, Advance, NextTaken, region = Prefix(current, position - 1), ~overflow
    PROVE  region' = Prefix(current', position' - 1) /\ ~overflow'
<1> PICK n \in Nat : n = position - 1
    BY DEF TypeInv
<1>1. position = n + 1 /\ n + 1 \in 1 .. FrameLength[current] /\ FrameLength[current] \in 1 .. RegionCap
    BY NextIsData, Lengths DEF NextTaken, TypeInv, Sending
<1>2. Len(region) = n
    BY PrefixLaws
<1>3. region' = Append(region, <<current, n + 1>>) /\ overflow' = overflow
    BY <1>1, <1>2, FrameLinkAssumption DEF NextTaken, Taken
<1>4. region' = Prefix(current, n + 1)
    BY <1>3, PrefixLaws
<1>5. current' = current /\ position' - 1 = n + 1
    BY <1>1 DEF Advance, NextTaken
<1> QED BY <1>3, <1>4, <1>5

(* The first byte of a frame finds an empty region on track.               *)
LEMMA EmptyIsOnTrack ==
    ASSUME region' = <<>>, overflow' = FALSE, position' = 1
    PROVE  region' = Prefix(current', position' - 1) /\ ~overflow'
<1>1. \A f : Prefix(f, 0) = <<>>
    BY PrefixLaws
<1>2. position' - 1 = 0
    OBVIOUS
<1> QED BY <1>1, <1>2

(* A frame on track to its end is the whole of its region.                 *)
LEMMA TrackIsWhole ==
    ASSUME TypeInv, Sending, AtDelimiter, region = Prefix(current, position - 1), ~overflow
    PROVE  Whole(current)
BY AllSent, WholeFrame DEF Whole, Sending

(* An undamaged frame stays on track.                                      *)
LEMMA ArrivesStep ==
    ASSUME TypeInv, CurrentArrives, Next
    PROVE  CurrentArrives'
<1> SUFFICES ASSUME (Sending /\ current \notin damaged /\ current - 1 \notin unclosed)'
             PROVE  region' = Prefix(current', position' - 1) /\ ~overflow'
    BY DEF CurrentArrives, OnTrack
<1>0. current \in Nat /\ position \in Nat \ {0}
    BY DEF TypeInv
<1>1. CASE Transmit /\ AtDelimiter
  <2>1. Closed /\ position' = 1
      BY <1>1, TransmitReceives DEF Transmit, Advance, NextTaken
  <2> QED BY <2>1, EmptyIsOnTrack DEF Closed
<1>2. CASE Transmit /\ ~AtDelimiter
  <2>1. current' = current /\ damaged' = damaged /\ unclosed' = unclosed /\ Sending /\ Advance /\ NextTaken
      BY <1>2, TransmitReceives DEF Transmit, Advance, historyVars
  <2>2. OnTrack(current)
      BY <2>1 DEF CurrentArrives
  <2> QED BY <2>1, <2>2, TrackAdvances DEF OnTrack
<1>3. CASE Drop \/ Corrupt
  <2>1. Advance /\ damaged' = damaged \cup {current} /\ MarkUnclosed
      BY <1>3 DEF Drop, Corrupt, Fault
  <2>2. AtDelimiter => current' - 1 \in unclosed'
      BY <1>0, <2>1 DEF Advance, MarkUnclosed
  <2>3. ~AtDelimiter => current' \in damaged'
      BY <2>1 DEF Advance
  <2> QED BY <2>2, <2>3
<1>4. CASE Insert
  <2>1. current' = current /\ position' = position
      BY <1>4 DEF Insert, senderVars
  <2>2. Receive(Delimiter) /\ position = 1
      BY <1>0, <1>4, <2>1 DEF Insert, Fault
  <2> QED BY <2>1, <2>2, DelimiterCloses, EmptyIsOnTrack DEF Closed
<1>5. CASE Restart
  <2>1. current' = current /\ position' = position /\ region' = <<>> /\ overflow' = FALSE
      BY <1>5 DEF Restart, senderVars, Reader!Reset, Reader!StartRegion
  <2>2. position = 1
      BY <1>0, <1>5, <2>1 DEF Restart, Fault
  <2> QED BY <2>1, <2>2, EmptyIsOnTrack
<1> QED BY <1>1, <1>2, <1>3, <1>4, <1>5 DEF Next

(* A frame that is sent to its end undamaged is delivered.                 *)
LEMMA LostStep ==
    ASSUME TypeInv, CurrentArrives, OnlyDamagedFramesLost, Next
    PROVE  OnlyDamagedFramesLost'
<1> SUFFICES ASSUME NEW f \in Frames, f < current', f \notin Delivered'
             PROVE  f \in damaged' \/ f - 1 \in unclosed'
    BY DEF OnlyDamagedFramesLost
<1>1. damaged \subseteq damaged' /\ unclosed \subseteq unclosed'
    BY DEF Next, Transmit, Drop, Corrupt, Insert, Restart, Fault, MarkUnclosed, historyVars
<1>2. f \notin Delivered
    BY DeliveredGrows
<1>3. CASE f < current
    BY <1>1, <1>2, <1>3 DEF OnlyDamagedFramesLost
<1>4. CASE ~(f < current)
  <2>1. Sending /\ Advance /\ AtDelimiter /\ f = current
    <3>1. current' # current
        BY <1>4
    <3>2. Sending /\ Advance /\ AtDelimiter /\ current' = current + 1
        BY <3>1, StepOutcome DEF Advance, senderVars
    <3> QED BY <1>4, <3>2 DEF TypeInv, Frames
  <2>2. CASE Transmit
    <3>1. damaged' = damaged /\ unclosed' = unclosed /\ Closed
        BY <2>1, <2>2, TransmitReceives DEF Transmit, historyVars, NextTaken
    <3>2. ASSUME f \notin damaged, f - 1 \notin unclosed PROVE FALSE
      <4>1. OnTrack(current)
          BY <2>1, <3>2 DEF CurrentArrives
      <4>2. Whole(f)
          BY <2>1, <4>1, TrackIsWhole DEF OnTrack
      <4>3. delivered' = Append(delivered, f)
          BY <3>1, <4>2, WholeIsDelivered
      <4>4. Len(delivered') \in 1 .. Len(delivered') /\ delivered'[Len(delivered')] = f
          BY <4>3 DEF TypeInv
      <4> QED BY <4>4 DEF Delivered
    <3> QED BY <3>1, <3>2
  <2>3. CASE Drop \/ Corrupt
      BY <2>1, <2>3 DEF Drop, Corrupt, Fault
  <2>4. ~Insert /\ ~Restart
      BY <1>4 DEF Insert, Restart, senderVars
  <2> QED BY <2>2, <2>3, <2>4 DEF Next
<1> QED BY <1>3, <1>4

(* A fault costs one Error, at some later delimiter; the delimiter that    *)
(* the line makes up costs another at once; sending costs none.            *)
LEMMA ErrorsStep ==
    ASSUME TypeInv, errors + Pending <= faults + splits, Next
    PROVE  (errors + Pending <= faults + splits)'
<1>0. /\ errors \in Nat /\ faults \in Nat /\ splits \in Nat /\ Sending
      /\ Pending \in {0, 1} /\ Pending' \in {0, 1}
    BY StepOutcome DEF TypeInv, Pending
<1>1. errors' \in {errors, errors + 1}
    BY StepOutcome DEF Wasted, NextTaken, Taken, Kept, Cleared, Closed
<1>2. CASE Transmit
  <2>1. faults' = faults /\ splits' = splits /\ Advance
      BY <1>2 DEF Transmit, historyVars
  <2>2. CASE NextTaken
    <3>1. errors' = errors
        BY <2>2 DEF NextTaken, Taken
    <3>2. InOrder => InOrder'
        BY <1>0, <2>1, <2>2, TrackAdvances DEF InOrder, NextTaken
    <3> QED BY <1>0, <2>1, <3>1, <3>2 DEF Pending
  <2>3. CASE AtDelimiter /\ Closed
    <3>1. InOrder'
        BY <2>1, <2>3, EmptyIsOnTrack DEF InOrder, Closed, Advance
    <3>2. InOrder => errors' = errors
      <4>1. ASSUME region = Prefix(current, position - 1), ~overflow PROVE errors' = errors
          BY <1>0, <2>3, <4>1, TrackIsWhole, WholeIsDelivered DEF Sending
      <4>2. ASSUME region = <<>>, ~overflow PROVE errors' = errors
          BY <2>3, <4>2 DEF Closed
      <4> QED BY <4>1, <4>2 DEF InOrder
    <3>3. Pending' = 0 /\ (errors' = errors \/ (errors' = errors + 1 /\ Pending = 1))
        BY <1>1, <3>1, <3>2 DEF Pending
    <3> QED BY <1>0, <2>1, <3>3
  <2> QED BY <1>2, <2>2, <2>3, TransmitReceives
<1>3. ASSUME faults' = faults + 1, splits' = splits, errors' = errors
      PROVE  (errors + Pending <= faults + splits)'
  <2> DEFINE p == Pending
             q == Pending'
  <2>1. p \in {0, 1} /\ q \in {0, 1} /\ errors + p <= faults + splits
      BY <1>0
  <2> HIDE DEF p, q
  <2>2. errors + q <= (faults + 1) + splits
      BY <1>0, <2>1
  <2> QED BY <1>3, <2>2 DEF q
<1>4. ASSUME faults' = faults + 1, splits' = splits + 1
      PROVE  (errors + Pending <= faults + splits)'
  <2> DEFINE p == Pending
             q == Pending'
             e == errors'
  <2>1. /\ p \in {0, 1} /\ q \in {0, 1} /\ errors + p <= faults + splits
        /\ e = errors \/ e = errors + 1
      BY <1>0, <1>1
  <2> HIDE DEF p, q, e
  <2>2. e + q <= (faults + 1) + (splits + 1)
      BY <1>0, <2>1
  <2> QED BY <1>4, <2>2 DEF q, e
<1>5. ASSUME Receive(Junk) PROVE errors' = errors
    BY <1>5, DataIsTaken, FrameLinkAssumption DEF Taken
<1>6. CASE Drop
    BY <1>3, <1>6 DEF Drop, Fault, ReceiveNothing
<1>7. CASE Corrupt
  <2>1. PICK byte \in {Delimiter, Junk} : Receive(byte) /\ Split(byte)
      BY <1>7 DEF Corrupt
  <2>2. faults' = faults + 1
      BY <1>7 DEF Corrupt, Fault
  <2> QED BY <1>3, <1>4, <1>5, <2>1, <2>2, FrameLinkAssumption DEF Split
<1>8. CASE Insert
  <2>1. PICK byte \in {Delimiter, Junk} : Receive(byte) /\ Split(byte)
      BY <1>8 DEF Insert
  <2>2. faults' = faults + 1
      BY <1>8 DEF Insert, Fault
  <2> QED BY <1>3, <1>4, <1>5, <2>1, <2>2, FrameLinkAssumption DEF Split
<1>9. CASE Restart
    BY <1>3, <1>9 DEF Restart, Fault
<1> QED BY <1>2, <1>6, <1>7, <1>8, <1>9 DEF Next

-----------------------------------------------------------------------------
(* A line begins with an empty reader and the first byte of the first      *)
(* frame.                                                                  *)
LEMMA InitIInv == Init => IInv
<1> SUFFICES ASSUME Init PROVE IInv
    OBVIOUS
<1>1. /\ region = <<>> /\ overflow = FALSE /\ current = 1 /\ position = 1 /\ delivered = <<>>
      /\ errors = 0 /\ faults = 0 /\ splits = 0 /\ garbled = {} /\ damaged = {} /\ unclosed = {}
    BY DEF Init, Reader!Init
<1>2. Delivered = {}
    BY <1>1 DEF Delivered
<1>3. TypeInv
  <2>1. region \in Seq(Byte \ {Delimiter}) /\ delivered \in Seq(Frames)
      BY <1>1
  <2>2. current \in 1 .. Len(FrameLength) + 1
      BY <1>1, FrameLinkAssumption
  <2>3. overflow \in BOOLEAN
      BY <1>1
  <2> QED BY <1>1, <2>1, <2>2, <2>3 DEF TypeInv
<1>4. RegionIsNews /\ DeliveredInOrder /\ GarbledIsLost
    BY <1>1, <1>2 DEF RegionIsNews, DeliveredInOrder, GarbledIsLost
<1>5. region = Prefix(current, position - 1) /\ ~overflow
  <2>1. \A f : Prefix(f, 0) = <<>>
      BY PrefixLaws
  <2>2. position - 1 = 0
      BY <1>1
  <2> QED BY <1>1, <2>1, <2>2
<1>6. CurrentArrives /\ InOrder
    BY <1>5 DEF CurrentArrives, OnTrack, InOrder
<1>7. OnlyDamagedFramesLost
    BY <1>1 DEF OnlyDamagedFramesLost, Frames
<1> QED BY <1>1, <1>3, <1>4, <1>6, <1>7 DEF IInv, Pending

(* Every step keeps the invariant.                                         *)
LEMMA StepIInv == IInv /\ [Next]_vars => IInv'
<1>1. ASSUME IInv, Next PROVE IInv'
    BY <1>1, TypeStep, NewsStep, OrderStep, GarbledStep, ArrivesStep, LostStep, ErrorsStep DEF IInv
<1>2. ASSUME IInv, UNCHANGED vars PROVE IInv'
  <2> USE <1>2 DEF IInv, vars, readerVars, senderVars, historyVars
  <2>1. TypeInv'
      BY DEF TypeInv, Sending
  <2>2. RegionIsNews' /\ DeliveredInOrder'
    <3>1. Delivered' = Delivered
        BY DEF Delivered
    <3>2. \A byte : News(byte) => News(byte)'
        BY <3>1 DEF News, Sent
    <3>3. RegionIsNews'
        BY <3>2 DEF RegionIsNews
    <3>4. AtDelimiter' <=> AtDelimiter
        BY DEF AtDelimiter
    <3>5. DeliveredInOrder'
        BY <3>1, <3>4 DEF DeliveredInOrder
    <3> QED BY <3>3, <3>5
  <2>3. GarbledIsLost' /\ CurrentArrives' /\ OnlyDamagedFramesLost'
      BY DEF GarbledIsLost, CurrentArrives, OnlyDamagedFramesLost, OnTrack, Sending, Delivered
  <2>4. (errors + Pending <= faults + splits)'
      BY DEF Pending, InOrder, Sending, AtDelimiter
  <2> QED BY <2>1, <2>2, <2>3, <2>4
<1> QED BY <1>1, <1>2

(* The invariant holds in every reachable state.                           *)
LEMMA Inductive == Spec => []IInv
BY InitIInv, StepIInv, PTL DEF Spec

(* Whatever the line drops, corrupts and inserts, and however often the    *)
(* reader restarts, FrameReader::push gives its caller frames that were    *)
(* sent, in the order they were sent, none twice and none damaged inside.  *)
THEOREM SentFramesOnly == Spec => []DeliveredAsSent
<1>1. IInv => DeliveredAsSent
    BY DEF IInv, DeliveredAsSent, DeliveredInOrder, GarbledIsLost
<1> QED BY Inductive, <1>1, PTL

(* The reader resynchronises: a frame sent to its end is delivered unless  *)
(* a fault hit its own bytes or the delimiter before it.                   *)
THEOREM Resynchronises == Spec => []OnlyDamagedFramesLost
<1>1. IInv => OnlyDamagedFramesLost
    BY DEF IInv
<1> QED BY Inductive, <1>1, PTL

(* Every fault costs at most one Error event, and one more if it was a     *)
(* delimiter that the line made up.                                        *)
THEOREM FewErrors == Spec => []ErrorsBounded
<1>1. IInv => ErrorsBounded
    BY DEF IInv, ErrorsBounded, Pending, TypeInv
<1> QED BY Inductive, <1>1, PTL

=============================================================================
