-------------------------- MODULE EncoderStageProofs --------------------------
(***************************************************************************)
(* What is proved of EncoderStage for any capacities of the encoders, any  *)
(* number of frames and any number of changes of the resolution.           *)
(*                                                                         *)
(* The argument looks at each stream as one line of packets: those the     *)
(* clients got, the one its receiver holds, those in its encoder.  A step  *)
(* leaves the line as it is, puts one packet behind it, cuts off its end   *)
(* (the encoder is reopened), or loses a frame that never got there.       *)
(***************************************************************************)
EXTENDS EncoderStage, FiniteSetTheorems, TLAPS

WirePacket == [frame : Nat, generation : Nat, byte : {0, 1}]

\* A packet as consume_packet sends it.
Wire(p) == [frame      |-> p.frame,
            generation |-> p.generation,
            byte       |-> FirstByte(p)]

\* How many packets of a stream have left its encoder.
Taken(s) == Len(delivered[s]) + IF recv_pc[s] = "consume" THEN 1 ELSE 0

Line == [s \in Streams |->
  [k \in 1..Taken(s) + Len(encoder[s]) |->
     CASE k <= Len(delivered[s]) -> delivered[s][k]
       [] k > Taken(s) -> Wire(encoder[s][k - Taken(s)])
       [] OTHER -> Wire(pkt[s])]]

-----------------------------------------------------------------------------
(* The parts of the inductive invariant *)

\* The two calls of change_resolution follow each other, and the sender takes
\* no frame behind the bound.
Progress ==
  /\ generation["scene"] =
       generation["depth"] + IF reopen_pc = "depth" THEN 1 ELSE 0
  /\ reopen_pc = "scene" => generation["scene"] < MaxReopens
  /\ send_pc \in {"scene", "depth"} => frames < MaxFrames

\* Frames are in the order in which the sender took them.
Increasing(line) ==
  \A i, j \in 1..Len(line) : i < j => line[i].frame < line[j].frame

\* Every frame that was offered is in the line, unless it was lost.
Covers(line, offered, gone) ==
  /\ gone \subseteq 0..offered - 1
  /\ \A k \in 1..Len(line) : line[k].frame \in 0..offered - 1
                             /\ line[k].frame \notin gone
  /\ \A i \in 0..offered - 1 :
       i \notin gone => \E k \in 1..Len(line) : line[k].frame = i

\* A packet of a newer encoder than the packet before is marked.
KeysMarked(line) ==
  \A k \in 1..Len(line) :
    LET before == IF k = 1 THEN -1 ELSE line[k - 1].generation
    IN /\ before <= line[k].generation
       /\ before < line[k].generation => line[k].byte = 0

LastGeneration(line) == IF Len(line) = 0 THEN -1 ELSE line[Len(line)].generation

\* The last two say that no packet is newer than the encoder, and that an
\* encoder with no packet in the line is fresh: it starts with a key frame.
LineInv(s) == /\ Increasing(Line[s])
              /\ Covers(Line[s], Offered[s], lost[s])
              /\ KeysMarked(Line[s])
              /\ \A k \in 1..Len(Line[s]) : Line[s][k].generation <= generation[s]
              /\ LastGeneration(Line[s]) < generation[s] => fresh[s] = TRUE

EncoderInv == TypeOK /\ Progress /\ \A s \in Streams : LineInv(s)

-----------------------------------------------------------------------------
(* Lines that grow and lines that are cut *)

\* A line stays in order if a newer packet joins it.
LEMMA GrowIncreasing ==
  ASSUME NEW line \in Seq(WirePacket), NEW w \in WirePacket, Increasing(line),
         \A k \in 1..Len(line) : line[k].frame < w.frame
  PROVE  Increasing(Append(line, w))
BY DEF Increasing

\* The frame that joins a line is the one that was offered.
LEMMA GrowCovers ==
  ASSUME NEW line \in Seq(WirePacket), NEW w \in WirePacket,
         NEW offered \in Nat, NEW gone, Covers(line, offered, gone),
         w.frame = offered
  PROVE  Covers(Append(line, w), offered + 1, gone)
<1> DEFINE longer == Append(line, w)
<1>1. /\ Len(longer) = Len(line) + 1 /\ Len(line) \in Nat
      /\ longer[Len(line) + 1] = w
      /\ \A k \in 1..Len(line) : longer[k] = line[k]
  OBVIOUS
<1> HIDE DEF longer
<1>2. \A k \in 1..Len(longer) : longer[k].frame \in 0..offered
                                /\ longer[k].frame \notin gone
  BY <1>1 DEF Covers
<1>3. ASSUME NEW i \in 0..offered, i \notin gone
      PROVE  \E k \in 1..Len(longer) : longer[k].frame = i
  <2>1. CASE i = offered
    BY <1>1, <2>1
  <2>2. CASE i \in 0..offered - 1
    <3>1. PICK k \in 1..Len(line) : line[k].frame = i
      BY <1>3, <2>2 DEF Covers
    <3>2. QED
      BY <1>1, <3>1
  <2>3. QED
    BY <2>1, <2>2
<1>4. gone \subseteq 0..(offered + 1) - 1 /\ (offered + 1) - 1 = offered
  BY DEF Covers
<1>5. QED
  BY <1>2, <1>3, <1>4 DEF Covers, longer

\* A line stays marked if the first packet of a new encoder is a key frame.
LEMMA GrowKeys ==
  ASSUME NEW line \in Seq(WirePacket), NEW w \in WirePacket, KeysMarked(line),
         \A k \in 1..Len(line) : line[k].generation <= w.generation,
         LastGeneration(line) < w.generation => w.byte = 0
  PROVE  /\ KeysMarked(Append(line, w))
         /\ LastGeneration(Append(line, w)) = w.generation
         /\ \A k \in 1..Len(Append(line, w)) :
              Append(line, w)[k].generation <= w.generation
<1> DEFINE longer == Append(line, w)
<1>1. /\ Len(longer) = Len(line) + 1 /\ Len(line) \in Nat
      /\ longer[Len(line) + 1] = w
      /\ \A k \in 1..Len(line) : longer[k] = line[k]
  OBVIOUS
<1>2. w.generation \in Nat
  BY DEF WirePacket
<1> HIDE DEF longer
<1>3. LastGeneration(longer) = w.generation
  BY <1>1 DEF LastGeneration
<1>4. \A k \in 1..Len(longer) : longer[k].generation <= w.generation
  BY <1>1, <1>2
<1>5. KeysMarked(longer)
  <2>1. ASSUME NEW k \in 1..Len(line)
        PROVE  /\ longer[k] = line[k]
               /\ k # 1 => longer[k - 1] = line[k - 1]
    BY <1>1
  <2>2. CASE Len(line) = 0
    BY <1>1, <1>2, <2>2 DEF KeysMarked, LastGeneration
  <2>3. CASE Len(line) # 0
    <3>1. longer[(Len(line) + 1) - 1] = line[Len(line)]
          /\ Len(line) \in 1..Len(line)
      BY <1>1, <2>3
    <3>2. QED
      BY <1>1, <2>1, <2>3, <3>1, SMTT(30) DEF KeysMarked, LastGeneration
  <2>4. QED
    BY <2>2, <2>3
<1>6. QED
  BY <1>3, <1>4, <1>5 DEF longer

\* A frame that does not get into the line.
LEMMA MissedCovers ==
  ASSUME NEW line \in Seq(WirePacket), NEW offered \in Nat, NEW gone,
         Covers(line, offered, gone)
  PROVE  Covers(line, offered + 1, gone \cup {offered})
<1>1. (offered + 1) - 1 = offered
  OBVIOUS
<1>2. QED
  BY <1>1 DEF Covers

\* What is left of a line that is cut is in order.
LEMMA CutIncreasing ==
  ASSUME NEW line \in Seq(WirePacket), NEW n \in 0..Len(line), Increasing(line)
  PROVE  Increasing(SubSeq(line, 1, n))
BY DEF Increasing

\* The frames behind the first n packets.
CutOff(cut, line, n) ==
  \A i : i \in cut <=> \E k \in n + 1..Len(line) : i = line[k].frame

\* A line that is cut has lost the frames that are cut off.
LEMMA CutCovers ==
  ASSUME NEW line \in Seq(WirePacket), NEW n \in 0..Len(line),
         NEW offered \in Nat, NEW gone, NEW cut, Increasing(line),
         Covers(line, offered, gone), CutOff(cut, line, n)
  PROVE  Covers(SubSeq(line, 1, n), offered, gone \cup cut)
<1> DEFINE short == SubSeq(line, 1, n)
<1>1. /\ Len(short) = n /\ Len(line) \in Nat /\ n \in Nat
      /\ \A k \in 1..n : short[k] = line[k]
  OBVIOUS
<1>2. cut \subseteq 0..offered - 1
  BY <1>1 DEF Covers, CutOff
<1>3. ASSUME NEW k \in 1..n
      PROVE  line[k].frame \notin cut
  <2> SUFFICES ASSUME NEW j \in n + 1..Len(line),
                      line[j].frame = line[k].frame
               PROVE  FALSE
    BY DEF CutOff
  <2>1. k \in 1..Len(line) /\ j \in 1..Len(line) /\ k < j
    BY <1>1
  <2>2. line[k] \in WirePacket /\ line[k].frame < line[j].frame
    BY <2>1 DEF Increasing
  <2>3. QED
    BY <2>2 DEF WirePacket
<1>4. ASSUME NEW i \in 0..offered - 1, i \notin gone, i \notin cut
      PROVE  \E k \in 1..n : short[k].frame = i
  <2>1. PICK k \in 1..Len(line) : line[k].frame = i
    BY <1>4 DEF Covers
  <2>2. k \in 1..n
    BY <1>1, <1>4, <2>1 DEF CutOff
  <2>3. QED
    BY <1>1, <2>1, <2>2
<1> HIDE DEF short
<1>5. Covers(short, offered, gone \cup cut)
  <2>1. ASSUME NEW k \in 1..n
        PROVE  short[k].frame \in 0..offered - 1 /\ short[k].frame \notin gone
    <3>1. k \in 1..Len(line) /\ short[k] = line[k]
      BY <1>1
    <3>2. QED
      BY <3>1 DEF Covers
  <2>2. gone \subseteq 0..offered - 1
    BY DEF Covers
  <2>3. QED
    BY <1>1, <1>2, <1>3, <1>4, <2>1, <2>2 DEF Covers
<1>6. QED
  BY <1>5 DEF short

\* What is left of a line that is cut is marked.
LEMMA CutKeys ==
  ASSUME NEW line \in Seq(WirePacket), NEW n \in 0..Len(line),
         NEW gen \in Nat, KeysMarked(line),
         \A k \in 1..Len(line) : line[k].generation <= gen
  PROVE  /\ KeysMarked(SubSeq(line, 1, n))
         /\ \A k \in 1..n : SubSeq(line, 1, n)[k].generation <= gen
         /\ Len(SubSeq(line, 1, n)) = n
<1> DEFINE short == SubSeq(line, 1, n)
<1>1. /\ Len(short) = n /\ Len(line) \in Nat /\ n \in Nat
      /\ \A k \in 1..n : short[k] = line[k]
  OBVIOUS
<1> HIDE DEF short
<1>2. ASSUME NEW k \in 1..n
      PROVE  /\ k \in 1..Len(line) /\ short[k] = line[k]
             /\ k # 1 => short[k - 1] = line[k - 1]
  BY <1>1
<1>3. KeysMarked(short)
  BY <1>1, <1>2 DEF KeysMarked
<1>4. QED
  BY <1>1, <1>2, <1>3 DEF short

-----------------------------------------------------------------------------
(* What the steps do to a line *)

\* What consume_packet makes of a packet.
LEMMA WireIsTyped ==
  ASSUME NEW p \in Packet
  PROVE  Wire(p) \in WirePacket
BY DEF Wire, FirstByte, Packet, WirePacket

\* Where the packets of a line are.
LineFacts ==
  /\ Line \in [Streams -> Seq(WirePacket)]
  /\ \A s \in Streams :
       /\ Taken(s) \in Nat /\ Len(delivered[s]) <= Taken(s)
       /\ Len(Line[s]) = Taken(s) + Len(encoder[s])
       /\ \A k \in 1..Len(delivered[s]) : Line[s][k] = delivered[s][k]
       /\ recv_pc[s] = "consume" => Line[s][Taken(s)] = Wire(pkt[s])
       /\ \A i \in 1..Len(encoder[s]) :
            Line[s][Taken(s) + i] = Wire(encoder[s][i])

\* A line is made of its three parts, one after the other.
LEMMA LineLayout == TypeOK => LineFacts
<1> SUFFICES ASSUME TypeOK, NEW s \in Streams
             PROVE  /\ Line[s] \in Seq(WirePacket)
                    /\ Taken(s) \in Nat /\ Len(delivered[s]) <= Taken(s)
                    /\ Len(Line[s]) = Taken(s) + Len(encoder[s])
                    /\ \A k \in 1..Len(delivered[s]) :
                         Line[s][k] = delivered[s][k]
                    /\ recv_pc[s] = "consume" =>
                         Line[s][Taken(s)] = Wire(pkt[s])
                    /\ \A i \in 1..Len(encoder[s]) :
                         Line[s][Taken(s) + i] = Wire(encoder[s][i])
  BY DEF Line, LineFacts
<1> DEFINE n == Taken(s) + Len(encoder[s])
<1>0. delivered[s] \in Seq(WirePacket)
  BY DEF TypeOK, WirePacket
<1>1. /\ Len(encoder[s]) \in Nat /\ Taken(s) \in Nat /\ n \in Nat
      /\ Len(delivered[s]) \in Nat /\ Len(delivered[s]) <= Taken(s)
      /\ recv_pc[s] = "consume" => Taken(s) = Len(delivered[s]) + 1
  BY DEF TypeOK, Taken
<1>2. DOMAIN Line[s] = 1..n /\ Line[s] = [k \in 1..n |-> Line[s][k]]
  BY DEF Line
<1>3. \A k \in 1..Len(delivered[s]) : Line[s][k] = delivered[s][k]
  BY <1>1 DEF Line
<1>4. \A k \in Len(delivered[s]) + 1..Taken(s) : Line[s][k] = Wire(pkt[s])
  BY <1>1 DEF Line
<1>5. ASSUME NEW k \in Taken(s) + 1..n
      PROVE  /\ Line[s][k] = Wire(encoder[s][k - Taken(s)])
             /\ encoder[s][k - Taken(s)] \in Packet
  <2>1. Line[s][k] = Wire(encoder[s][k - Taken(s)])
    BY <1>1 DEF Line
  <2>2. QED
    BY <1>1, <2>1 DEF TypeOK
<1>6. ASSUME NEW k \in 1..n
      PROVE  Line[s][k] \in WirePacket
  <2>1. CASE k \in 1..Len(delivered[s])
    BY <1>0, <1>3, <2>1
  <2>2. CASE k \in Len(delivered[s]) + 1..Taken(s)
    BY <1>4, <2>2, WireIsTyped DEF TypeOK
  <2>3. CASE k \in Taken(s) + 1..n
    BY <1>5, <2>3, WireIsTyped
  <2>4. QED
    BY <1>1, <2>1, <2>2, <2>3
<1>7. Line[s] \in [1..n -> WirePacket]
  BY <1>2, <1>6
<1>8. Line[s] \in Seq(WirePacket) /\ Len(Line[s]) = n
  BY <1>1, <1>7
<1>9. ASSUME NEW i \in 1..Len(encoder[s])
      PROVE  Line[s][Taken(s) + i] = Wire(encoder[s][i])
  <2>1. Taken(s) + i \in Taken(s) + 1..n /\ (Taken(s) + i) - Taken(s) = i
    BY <1>1
  <2>2. QED
    BY <1>5, <2>1
<1>10. recv_pc[s] = "consume" => Line[s][Taken(s)] = Wire(pkt[s])
  BY <1>1, <1>4
<1>11. QED
  BY <1>1, <1>3, <1>8, <1>9, <1>10

\* The frames offered to an encoder are counted.
LEMMA OfferedType ==
  ASSUME TypeOK, Progress
  PROVE  /\ Offered \in [Streams -> Nat]
         /\ \A s \in Streams : Offered[s] <= MaxFrames
BY EncoderAssumption DEF TypeOK, Progress, Offered, Streams

\* The types and the order of the calls are kept.
LEMMA ProgressStep ==
  ASSUME EncoderInv, [Next]_vars
  PROVE  TypeOK' /\ Progress'
<1> USE EncoderAssumption DEF sendVars, encoderVars, recvVars, Progress, Streams
<1>0. TypeOK /\ Progress /\ LineFacts
  BY LineLayout DEF EncoderInv
<1>1. CASE TakeFrame \/ SenderExit \/ ChangeResolution \/ RequestShutdown
           \/ UNCHANGED vars
  BY <1>0, <1>1 DEF TakeFrame, SenderExit, ChangeResolution, RequestShutdown,
                    vars, TypeOK, Capacity
<1>2. ASSUME NEW s \in Streams, FeedEncoder(s)
      PROVE  TypeOK' /\ Progress'
  <2>1. PICK key \in BOOLEAN :
          encoder' = [encoder EXCEPT ![s] = Append(@, [frame |-> frames,
                          generation |-> generation[s], key |-> key])]
    BY <1>2 DEF FeedEncoder
  <2> DEFINE p == [frame |-> frames, generation |-> generation[s], key |-> key]
  <2>2. p \in Packet
    BY <1>0 DEF TypeOK, Packet
  <2>3. /\ encoder' \in [Streams -> Seq(Packet)]
        /\ \A r \in Streams : Len(encoder'[r]) <= Capacity(r)
    <3> HIDE DEF p
    <3>1. encoder' = [encoder EXCEPT ![s] = Append(@, p)]
      BY <2>1 DEF p
    <3>2. encoder[s] \in Seq(Packet) /\ Len(encoder[s]) < Capacity(s)
      BY <1>0, <1>2 DEF TypeOK, FeedEncoder, Full, Capacity
    <3>3. Append(encoder[s], p) \in Seq(Packet)
          /\ Len(Append(encoder[s], p)) <= Capacity(s)
      BY <2>2, <3>2 DEF Capacity
    <3>4. QED
      BY <1>0, <3>1, <3>3 DEF TypeOK
  <2>4. QED
    <3>1. NextEncoder(s) /\ fresh' = [fresh EXCEPT ![s] = FALSE]
          /\ lost' = lost
      BY <1>2 DEF FeedEncoder
    <3>2. (\A r \in Streams : Len(encoder[r]) <= Capacity(r))'
      BY <2>3 DEF Capacity
    <3>3. /\ send_pc' \in {"get", "scene", "depth", "exited"}
          /\ frames' \in 0..MaxFrames
          /\ UNCHANGED <<shutdown_requested, generation, reopen_pc, recvVars>>
          /\ Progress'
      BY <1>0, <3>1, SMTT(30) DEF TypeOK, NextEncoder
    <3>4. QED
      BY <1>0, <2>3, <3>1, <3>2, <3>3 DEF TypeOK
<1>3. ASSUME NEW s \in Streams, FeedRefused(s) \/ FeedFails(s)
      PROVE  TypeOK' /\ Progress'
  <2>0. LoseFrame(s) /\ NextEncoder(s)
    BY <1>3 DEF FeedRefused, FeedFails, LoseFrame
  <2>1. UNCHANGED <<encoder, generation, fresh, reopen_pc, recv_pc, pkt, delivered,
                    failed, shutdown_requested>>
    BY <2>0 DEF LoseFrame, NextEncoder
  <2>2. /\ send_pc' \in {"get", "scene", "depth", "exited"}
        /\ frames' \in 0..MaxFrames /\ Progress'
    BY <1>0, <2>0 DEF TypeOK, NextEncoder
  <2>3. lost' \in [Streams -> SUBSET (0..MaxFrames)]
    BY <1>0, <2>0 DEF TypeOK, LoseFrame
  <2>4. QED
    BY <1>0, <2>1, <2>2, <2>3 DEF TypeOK, Capacity
<1>4. ASSUME NEW s \in Streams, Receive(s)
      PROVE  TypeOK' /\ Progress'
  <2>1. /\ Head(encoder[s]) \in Packet
        /\ Tail(encoder[s]) \in Seq(Packet)
        /\ Len(Tail(encoder[s])) <= Capacity(s)
    <3>1. encoder[s] \in Seq(Packet) /\ encoder[s] # <<>>
      BY <1>0, <1>4, EncoderAssumption DEF TypeOK, Receive, HasPacket
    <3>2. Len(encoder[s]) <= Capacity(s) /\ Capacity(s) \in Nat
      BY <1>0, EncoderAssumption DEF TypeOK, Capacity
    <3>3. QED
      BY <3>1, <3>2
  <2>2. QED
    BY <1>0, <1>4, <2>1 DEF TypeOK, Receive, RecvAt, Capacity
<1>5. ASSUME NEW s \in Streams, TestShutdown(s) \/ ReceiveAgain(s)
                                \/ ReceiveFails(s)
      PROVE  TypeOK' /\ Progress'
  <2>1. PICK to \in {"test", "receive", "exited"} :
             recv_pc' = [recv_pc EXCEPT ![s] = to]
    BY <1>5 DEF TestShutdown, ReceiveAgain, ReceiveFails, RecvAt
  <2>2. recv_pc' \in [Streams -> {"test", "receive", "consume", "exited"}]
    BY <1>0, <2>1 DEF TypeOK
  <2>3. failed' \in {failed, failed \cup {s}}
    BY <1>5 DEF TestShutdown, ReceiveAgain, ReceiveFails
  <2>4. UNCHANGED <<send_pc, frames, encoder, generation, fresh, reopen_pc, lost,
                    pkt, delivered>>
    BY <1>5 DEF TestShutdown, ReceiveAgain, ReceiveFails, RecvAt
  <2>5. shutdown_requested' \in BOOLEAN
    BY <1>0, <1>5 DEF TypeOK, TestShutdown, ReceiveAgain, ReceiveFails
  <2>6. QED
    BY <1>0, <2>2, <2>3, <2>4, <2>5 DEF TypeOK, Capacity
<1>6. ASSUME NEW s \in Streams, ConsumePacket(s)
      PROVE  TypeOK' /\ Progress'
  <2>1. Wire(pkt[s]) \in WirePacket
    BY <1>0, WireIsTyped DEF TypeOK
  <2>2. delivered' = [delivered EXCEPT ![s] = Append(@, Wire(pkt[s]))]
    BY <1>6 DEF ConsumePacket, Wire
  <2>3. delivered' \in [Streams -> Seq(WirePacket)]
    BY <1>0, <2>1, <2>2 DEF TypeOK, WirePacket
  <2>4. NoPacket \in Packet
    BY DEF NoPacket, Packet
  <2>5. QED
    BY <1>0, <1>6, <2>3, <2>4
    DEF TypeOK, ConsumePacket, RecvAt, Capacity, WirePacket
<1>7. ASSUME NEW s \in Streams, Reopen(s)
      PROVE  TypeOK' /\ Progress'
  <2>1. \A i \in 1..Len(encoder[s]) : encoder[s][i].frame \in 0..MaxFrames
    <3> SUFFICES ASSUME NEW i \in 1..Len(encoder[s])
                 PROVE  encoder[s][i].frame \in 0..MaxFrames
      OBVIOUS
    <3>1. Taken(s) + i \in 1..Len(Line[s])
      <4>1. /\ Len(encoder[s]) \in Nat /\ Taken(s) \in Nat
            /\ Len(Line[s]) = Taken(s) + Len(encoder[s])
        BY <1>0, SMTT(30) DEF LineFacts, TypeOK
      <4>2. QED
        BY <4>1
    <3>2. Line[s][Taken(s) + i].frame \in 0..Offered[s] - 1
      BY <3>1 DEF EncoderInv, LineInv, Covers
    <3>3. Line[s][Taken(s) + i].frame = encoder[s][i].frame
      <4>1. Line[s][Taken(s) + i] = Wire(encoder[s][i])
        BY <1>0 DEF LineFacts
      <4>2. QED
        BY <4>1 DEF Wire
    <3>4. QED
      BY <1>0, <3>2, <3>3, OfferedType
  <2>2. {p.frame : p \in ToSet(encoder[s])} \subseteq 0..MaxFrames
    BY <1>0, <2>1 DEF ToSet, TypeOK
  <2>3. lost' \in [Streams -> SUBSET (0..MaxFrames)]
    BY <1>0, <1>7, <2>2 DEF TypeOK, Reopen
  <2>4. generation[s] < MaxReopens
    BY <1>0, <1>7 DEF TypeOK, Reopen
  <2>5. QED
    <3>1. /\ encoder' = [encoder EXCEPT ![s] = <<>>]
          /\ generation' = [generation EXCEPT ![s] = @ + 1]
          /\ fresh' = [fresh EXCEPT ![s] = TRUE]
          /\ reopen_pc' \in {"idle", "scene", "depth"}
          /\ UNCHANGED <<shutdown_requested, send_pc, frames, recv_pc, pkt, delivered,
                         failed>>
      BY <1>7 DEF Reopen, recvVars, sendVars
    <3>2. generation' \in [Streams -> 0..MaxReopens]
      BY <1>0, <2>4, <3>1, EncoderAssumption DEF TypeOK
    <3>3. encoder' \in [Streams -> Seq(Packet)]
      BY <1>0, <3>1 DEF TypeOK
    <3>4. \A r \in Streams : Len(encoder'[r]) <= Capacity(r)
      BY <1>0, <3>1, EncoderAssumption DEF TypeOK, Capacity
    <3>5. fresh' \in [Streams -> BOOLEAN]
      BY <1>0, <3>1 DEF TypeOK
    <3>6. (\A r \in Streams : Len(encoder[r]) <= Capacity(r))'
      BY <3>4 DEF Capacity
    <3>7. Progress'
      <4>1. generation["scene"] \in Nat /\ generation["depth"] \in Nat
        BY <1>0 DEF TypeOK
      <4>2. CASE s = "scene"
        BY <1>0, <1>7, <3>1, <4>1, <4>2 DEF Reopen, TypeOK
      <4>3. CASE s = "depth"
        BY <1>0, <1>7, <3>1, <4>1, <4>3 DEF Reopen, TypeOK
      <4>4. QED
        BY <4>2, <4>3
    <3>8. TypeOK'
      BY <1>0, <2>3, <3>1, <3>2, <3>3, <3>5, <3>6 DEF TypeOK
    <3>9. QED
      BY <3>7, <3>8
<1>8. QED
  BY <1>1, <1>2, <1>3, <1>4, <1>5, <1>6, <1>7
  DEF Next, Sender, Receiver, Terminated

\* Two lines with the same packets at the same places.
LEMMA SameLine ==
  ASSUME NEW a \in Seq(WirePacket), NEW b \in Seq(WirePacket), Len(a) = Len(b),
         \A k \in 1..Len(a) : a[k] = b[k]
  PROVE  a = b
OBVIOUS

LineKept(s) == /\ Line'[s] = Line[s]
               /\ Offered'[s] = Offered[s] /\ lost'[s] = lost[s]
               /\ generation'[s] = generation[s] /\ fresh'[s] = fresh[s]

LineFed(s) == /\ \E w \in WirePacket : /\ Line'[s] = Append(Line[s], w)
                                       /\ w.frame = Offered[s]
                                       /\ w.generation = generation[s]
                                       /\ fresh[s] = TRUE => w.byte = 0
              /\ Offered'[s] = Offered[s] + 1 /\ lost'[s] = lost[s]
              /\ generation'[s] = generation[s]

LineMissed(s) == /\ Line'[s] = Line[s]
                 /\ Offered'[s] = Offered[s] + 1
                 /\ lost'[s] = lost[s] \cup {Offered[s]}
                 /\ generation'[s] = generation[s] /\ fresh'[s] = fresh[s]

LineCut(s) == /\ \E n \in 0..Len(Line[s]) :
                   /\ Line'[s] = SubSeq(Line[s], 1, n)
                   /\ lost'[s] = lost[s] \cup
                        {Line[s][k].frame : k \in n + 1..Len(Line[s])}
              /\ Offered'[s] = Offered[s]
              /\ generation'[s] = generation[s] + 1 /\ fresh'[s] = TRUE

LineStep(s) == LineKept(s) \/ LineFed(s) \/ LineMissed(s) \/ LineCut(s)

\* Whatever a step does to a line, it stays as it should be.
LEMMA LineInvStep ==
  ASSUME EncoderInv, TypeOK', Progress', NEW s \in Streams, LineStep(s)
  PROVE  LineInv(s)'
<1>0. /\ Line[s] \in Seq(WirePacket) /\ Offered[s] \in Nat
      /\ generation[s] \in Nat /\ LineInv(s)
  <2>1. TypeOK /\ LineFacts /\ Offered \in [Streams -> Nat] /\ LineInv(s)
    BY LineLayout, OfferedType DEF EncoderInv
  <2>2. generation[s] \in Nat
    BY <2>1, EncoderAssumption DEF TypeOK
  <2>3. Line[s] \in Seq(WirePacket)
    BY <2>1 DEF LineFacts
  <2>4. QED
    BY <2>1, <2>2, <2>3
<1>n. PICK line \in Seq(WirePacket) : line = Line[s]
  BY <1>0
<1>m. PICK next : next = Line'[s]
  OBVIOUS
<1>a. /\ Increasing(line)
      /\ Covers(line, Offered[s], lost[s])
      /\ KeysMarked(line)
      /\ \A k \in 1..Len(line) : line[k].generation <= generation[s]
      /\ LastGeneration(line) < generation[s] => fresh[s] = TRUE
  BY <1>0, <1>n DEF LineInv
<1>b. SUFFICES /\ Increasing(next)
               /\ Covers(next, Offered'[s], lost'[s])
               /\ KeysMarked(next)
               /\ \A k \in 1..Len(next) : next[k].generation <= generation'[s]
               /\ LastGeneration(next) < generation'[s] => fresh'[s] = TRUE
  BY <1>m DEF LineInv
<1>1. CASE LineKept(s)
  BY <1>a, <1>1, <1>n, <1>m DEF LineKept
<1>2. CASE LineFed(s)
  <2>1. PICK w \in WirePacket : /\ next = Append(line, w)
                                /\ w.frame = Offered[s]
                                /\ w.generation = generation[s]
                                /\ fresh[s] = TRUE => w.byte = 0
    BY <1>2, <1>n, <1>m DEF LineFed
  <2>2. \A k \in 1..Len(line) : line[k].frame < w.frame
    BY <1>0, <1>a, <2>1 DEF Covers
  <2>3. Increasing(next)
    BY <1>a, <2>1, <2>2, GrowIncreasing
  <2>4. Covers(next, Offered[s] + 1, lost[s])
    BY <1>0, <1>a, <2>1, GrowCovers
  <2>5. /\ KeysMarked(next)
        /\ LastGeneration(next) = w.generation
        /\ \A k \in 1..Len(next) : next[k].generation <= w.generation
    <3>1. LastGeneration(line) < w.generation => w.byte = 0
      BY <1>a, <2>1
    <3>2. \A k \in 1..Len(line) : line[k].generation <= w.generation
      BY <1>a, <2>1
    <3>3. QED
      BY <1>a, <2>1, <3>1, <3>2, GrowKeys
  <2>6. QED
    BY <1>0, <1>2, <2>1, <2>3, <2>4, <2>5, <1>n, <1>m DEF LineFed
<1>3. CASE LineMissed(s)
  BY <1>0, <1>a, <1>3, MissedCovers, <1>n, <1>m DEF LineMissed
<1>4. CASE LineCut(s)
  <2>1. PICK n \in 0..Len(line) :
          /\ next = SubSeq(line, 1, n)
          /\ lost'[s] = lost[s] \cup {line[k].frame : k \in n + 1..Len(line)}
    BY <1>4, <1>n, <1>m DEF LineCut
  <2>2. Increasing(next)
    BY <1>a, <2>1, CutIncreasing
  <2>3. Covers(next, Offered[s], lost'[s])
    <3>1. PICK cut : cut = {line[k].frame : k \in n + 1..Len(line)}
      OBVIOUS
    <3>2. CutOff(cut, line, n)
      BY <3>1 DEF CutOff
    <3>3. lost'[s] = lost[s] \cup cut
      BY <2>1, <3>1
    <3>4. QED
      BY <1>0, <1>a, <2>1, <3>2, <3>3, CutCovers, SMTT(30)
  <2>4. /\ KeysMarked(next)
        /\ \A k \in 1..Len(next) : next[k].generation <= generation[s]
    BY <1>0, <1>a, <2>1, CutKeys
  <2>5. \A k \in 1..Len(next) : next[k].generation \in Nat
    <3>1. next \in Seq(WirePacket)
      BY <2>1
    <3>2. \A k \in 1..Len(next) : next[k] \in WirePacket
      BY <3>1
    <3>3. QED
      BY <3>2 DEF WirePacket
  <2>6. QED
    BY <1>0, <1>4, <2>2, <2>3, <2>4, <2>5, <1>n, <1>m DEF LineCut
<1>5. QED
  BY <1>1, <1>2, <1>3, <1>4 DEF LineStep

\* The frames a stream was offered change only when send_frame() returns.
LEMMA OfferedStep ==
  ASSUME TypeOK, NEW r \in Streams, NextEncoder(r), NEW s \in Streams
  PROVE  /\ s = r => Offered[s] = frames /\ Offered'[s] = Offered[s] + 1
         /\ s # r => Offered'[s] = Offered[s]
<1>1. CASE r = "scene"
  <2>1. send_pc = "scene" /\ send_pc' = "depth" /\ frames' = frames
    BY <1>1 DEF NextEncoder
  <2>2. QED
    BY <1>1, <2>1 DEF Offered
<1>2. CASE r = "depth"
  BY <1>2 DEF TypeOK, NextEncoder, Offered, Streams
<1>3. QED
  BY <1>1, <1>2 DEF Streams

\* A step that feeds no encoder offers no frame.
LEMMA OfferedKept ==
  ASSUME NEW s \in Streams, frames' = frames,
         send_pc = "depth" <=> send_pc' = "depth"
  PROVE  Offered'[s] = Offered[s]
BY DEF Offered

\* The three parts of a line.
LEMMA LinePoint ==
  ASSUME TypeOK, LineFacts, NEW s \in Streams, NEW k \in 1..Len(Line[s])
  PROVE  \/ k \in 1..Len(delivered[s])
         \/ recv_pc[s] = "consume" /\ k = Taken(s) /\ k = Len(delivered[s]) + 1
         \/ k > Taken(s) /\ k - Taken(s) \in 1..Len(encoder[s])
<1>1. /\ Taken(s) \in Nat /\ Len(encoder[s]) \in Nat
      /\ Len(Line[s]) = Taken(s) + Len(encoder[s])
      /\ Len(delivered[s]) \in Nat
  BY DEF LineFacts, TypeOK
<1> DEFINE n == Taken(s)
           d == Len(delivered[s])
           e == Len(encoder[s])
<1>5. k \in Nat /\ k >= 1 /\ k <= n + e /\ n \in Nat /\ e \in Nat /\ d \in Nat
  BY <1>1
<1>6. k > n => k - n \in 1..e
  <2> HIDE DEF n, e, d
  <2> QED BY <1>5
<1>2. CASE recv_pc[s] = "consume"
  <2>1. Taken(s) = Len(delivered[s]) + 1
    BY <1>2 DEF Taken
  <2>2. QED
    BY <1>2, <1>5, <1>6, <2>1
<1>3. CASE recv_pc[s] # "consume"
  <2>1. Taken(s) = Len(delivered[s])
    BY <1>1, <1>3 DEF Taken
  <2>2. QED
    BY <1>5, <1>6, <2>1
<1>4. QED
  BY <1>2, <1>3

\* The line of a stream none of whose packets moves.
LEMMA LineUntouched ==
  ASSUME TypeOK, LineFacts, LineFacts', NEW s \in Streams,
         delivered'[s] = delivered[s], encoder'[s] = encoder[s],
         pkt'[s] = pkt[s],
         recv_pc'[s] = "consume" <=> recv_pc[s] = "consume"
  PROVE  Line'[s] = Line[s]
<1>1. Taken(s)' = Taken(s)
  BY DEF Taken
<1>2. /\ Line[s] \in Seq(WirePacket) /\ Line'[s] \in Seq(WirePacket)
      /\ Len(Line[s]) = Len(Line'[s])
  BY <1>1 DEF LineFacts
<1>3. ASSUME NEW k \in 1..Len(Line[s])
      PROVE  Line[s][k] = Line'[s][k]
  <2>1. CASE k \in 1..Len(delivered[s])
    <3>1. Line[s][k] = delivered[s][k]
      BY <2>1 DEF LineFacts
    <3>2. k \in 1..Len(delivered'[s]) /\ delivered'[s][k] = delivered[s][k]
      BY <2>1
    <3>3. Line'[s][k] = delivered'[s][k]
      BY <3>2 DEF LineFacts
    <3>4. QED
      BY <3>1, <3>2, <3>3
  <2>2. CASE recv_pc[s] = "consume" /\ k = Taken(s)
    <3>1. Line[s][Taken(s)] = Wire(pkt[s])
      BY <2>2 DEF LineFacts
    <3>2. Line'[s][Taken(s)'] = Wire(pkt'[s])
      BY <2>2 DEF LineFacts, Wire, FirstByte
    <3>3. QED
      BY <1>1, <2>2, <3>1, <3>2
  <2>3. CASE k > Taken(s) /\ k - Taken(s) \in 1..Len(encoder[s])
    <3>1. PICK i \in 1..Len(encoder[s]) : i = k - Taken(s)
      BY <2>3
    <3>2. k = Taken(s) + i
      BY <2>3, <3>1 DEF LineFacts
    <3>3. Line[s][Taken(s) + i] = Wire(encoder[s][i])
      BY DEF LineFacts
    <3>4. Line'[s][Taken(s)' + i] = Wire(encoder'[s][i])
      BY <3>2 DEF LineFacts, Wire, FirstByte
    <3>5. QED
      BY <1>1, <3>2, <3>3, <3>4
  <2>4. QED
    BY <2>1, <2>2, <2>3, LinePoint
<1>4. QED
  BY <1>2, <1>3, SameLine

\* send_frame adds a packet at the end of the line.
LEMMA FeedLine ==
  ASSUME TypeOK, LineFacts, LineFacts', NEW s \in Streams, FeedEncoder(s)
  PROVE  LineFed(s)
<1>1. PICK key \in IF fresh[s] THEN {TRUE} ELSE BOOLEAN :
        encoder' = [encoder EXCEPT ![s] = Append(@, [frame |-> frames,
                        generation |-> generation[s], key |-> key])]
  BY DEF FeedEncoder
<1>2. PICK p \in Packet : p = [frame |-> frames, generation |-> generation[s],
                              key |-> key]
  <2>1. key \in BOOLEAN
    BY <1>1
  <2>2. QED
    <3>1. frames \in Nat /\ generation[s] \in Nat
      BY DEF TypeOK
    <3>2. QED
      BY <2>1, <3>1 DEF Packet
<1>3. encoder'[s] = Append(encoder[s], p) /\ encoder[s] \in Seq(Packet)
  BY <1>1, <1>2 DEF TypeOK
<1>4. UNCHANGED <<delivered, pkt, recv_pc, generation>> /\ NextEncoder(s)
  BY DEF FeedEncoder, NextEncoder, recvVars
<1>5. Taken(s)' = Taken(s)
  BY <1>4 DEF Taken
<1>6. /\ Taken(s) \in Nat
      /\ Line[s] \in Seq(WirePacket) /\ Line'[s] \in Seq(WirePacket)
      /\ Len(Line[s]) = Taken(s) + Len(encoder[s])
      /\ Len(Line'[s]) = Taken(s) + Len(encoder[s]) + 1
  <2>1. Len(encoder'[s]) = Len(encoder[s]) + 1 /\ Len(encoder[s]) \in Nat
    BY <1>3
  <2>2. /\ Taken(s) \in Nat
        /\ Line[s] \in Seq(WirePacket) /\ Line'[s] \in Seq(WirePacket)
        /\ Len(Line[s]) = Taken(s) + Len(encoder[s])
        /\ Len(Line'[s]) = Taken(s)' + Len(encoder'[s])
    BY DEF LineFacts
  <2>3. QED
    BY <1>5, <2>1, <2>2
<1>7. Line'[s][Len(Line[s]) + 1] = Wire(p)
  <2>1. Len(encoder[s]) + 1 \in 1..Len(encoder'[s])
        /\ encoder'[s][Len(encoder[s]) + 1] = p
    BY <1>3
  <2>2. Line'[s][Taken(s)' + (Len(encoder[s]) + 1)] = Wire(p)'
    BY <2>1 DEF LineFacts, Wire, FirstByte
  <2>3. QED
    BY <1>3, <1>5, <1>6, <2>2 DEF Wire, FirstByte
<1>8. ASSUME NEW k \in 1..Len(Line[s])
      PROVE  Line'[s][k] = Line[s][k]
  <2>1. CASE k \in 1..Len(delivered[s])
    BY <1>4, <2>1 DEF LineFacts
  <2>2. CASE recv_pc[s] = "consume" /\ k = Taken(s)
    <3>1. Line[s][Taken(s)] = Wire(pkt[s])
      BY <2>2 DEF LineFacts
    <3>2. recv_pc'[s] = "consume" /\ pkt'[s] = pkt[s]
      BY <1>4, <2>2
    <3>3. Line'[s][Taken(s)'] = Wire(pkt'[s])
      BY <3>2 DEF LineFacts, Wire, FirstByte
    <3>4. QED
      BY <1>5, <2>2, <3>1, <3>2, <3>3
  <2>3. CASE k > Taken(s) /\ k - Taken(s) \in 1..Len(encoder[s])
    <3>1. PICK i \in 1..Len(encoder[s]) : i = k - Taken(s)
      BY <2>3
    <3>2. i \in 1..Len(encoder'[s]) /\ encoder'[s][i] = encoder[s][i]
          /\ k = Taken(s) + i
      BY <1>3, <1>6, <3>1
    <3>3. Line[s][Taken(s) + i] = Wire(encoder[s][i])
      BY DEF LineFacts
    <3>4. Line'[s][Taken(s)' + i] = Wire(encoder'[s][i])
      BY <3>2 DEF LineFacts, Wire, FirstByte
    <3>5. QED
      BY <1>5, <3>2, <3>3, <3>4
  <2>4. QED
    BY <2>1, <2>2, <2>3, LinePoint
<1>9. Line'[s] = Append(Line[s], Wire(p))
  <2>1. Wire(p) \in WirePacket
    BY WireIsTyped
  <2>2. PICK w \in WirePacket : w = Wire(p)
    BY <2>1
  <2>6. Append(Line[s], w) \in Seq(WirePacket)
    BY <1>6
  <2>3. PICK longer \in Seq(WirePacket) : longer = Append(Line[s], w)
    BY <2>6
  <2>4. Len(longer) = Len(Line'[s]) /\ \A k \in 1..Len(longer) :
                                          longer[k] = Line'[s][k]
    BY <1>6, <1>7, <1>8, <2>2, <2>3
  <2>5. QED
    BY <1>6, <2>2, <2>3, <2>4, SameLine
<1>10. /\ Offered[s] = frames /\ Offered'[s] = Offered[s] + 1
       /\ lost'[s] = lost[s]
  BY <1>4, OfferedStep DEF FeedEncoder
<1>11. fresh[s] = TRUE => Wire(p).byte = 0
  BY <1>1, <1>2 DEF Wire, FirstByte
<1>12. /\ Wire(p) \in WirePacket /\ Wire(p).frame = frames
       /\ Wire(p).generation = generation[s]
  BY <1>2, WireIsTyped DEF Wire
<1>13. QED
  BY <1>4, <1>9, <1>10, <1>11, <1>12 DEF LineFed

\* A packet that leaves its encoder keeps its place in the line.
LEMMA ReceiveLine ==
  ASSUME TypeOK, LineFacts, LineFacts', NEW s \in Streams, Receive(s)
  PROVE  Line'[s] = Line[s]
<1>0. encoder[s] \in Seq(Packet) /\ encoder[s] # <<>>
  BY EncoderAssumption DEF TypeOK, Receive, HasPacket
<1>1. /\ encoder'[s] = Tail(encoder[s]) /\ pkt'[s] = Head(encoder[s])
      /\ delivered' = delivered
      /\ recv_pc[s] = "receive" /\ recv_pc'[s] = "consume"
  BY DEF TypeOK, Receive, RecvAt
<1>2. /\ Len(encoder[s]) \in Nat /\ Len(encoder[s]) >= 1
      /\ Len(encoder'[s]) = Len(encoder[s]) - 1 /\ pkt'[s] = encoder[s][1]
      /\ \A i \in 1..Len(encoder'[s]) : encoder'[s][i] = encoder[s][i + 1]
  BY <1>0, <1>1
<1>3. Len(delivered[s]) \in Nat
  BY DEF TypeOK
<1>4. Taken(s) = Len(delivered[s]) /\ Taken(s)' = Taken(s) + 1
  BY <1>1, <1>3 DEF Taken
<1>5. /\ Line[s] \in Seq(WirePacket) /\ Line'[s] \in Seq(WirePacket)
      /\ Len(Line[s]) = Taken(s) + Len(encoder[s])
      /\ Len(Line'[s]) = Taken(s)' + Len(encoder'[s])
  BY DEF LineFacts
<1>9. Taken(s) \in Nat
  BY DEF LineFacts
<1>6. Len(Line[s]) = Len(Line'[s])
  <2>1. Len(Line'[s]) = (Taken(s) + 1) + (Len(encoder[s]) - 1)
    BY <1>2, <1>4, <1>5
  <2>2. QED
    BY <1>2, <1>5, <1>9, <2>1
<1>7. ASSUME NEW k \in 1..Len(Line[s])
      PROVE  Line[s][k] = Line'[s][k]
  <2>1. CASE k \in 1..Len(delivered[s])
    BY <1>1, <2>1 DEF LineFacts
  <2>2. CASE k > Taken(s) /\ k - Taken(s) \in 1..Len(encoder[s])
    <3>1. PICK i \in 1..Len(encoder[s]) : i = k - Taken(s)
      BY <2>2
    <3>2. k = Taken(s) + i
      BY <1>3, <1>4, <3>1
    <3>3. Line[s][Taken(s) + i] = Wire(encoder[s][i])
      BY DEF LineFacts
    <3>4. CASE i = 1
      <4>1. Line'[s][Taken(s)'] = Wire(pkt'[s])
        BY <1>1 DEF LineFacts, Wire, FirstByte
      <4>2. QED
        BY <1>2, <1>4, <3>2, <3>3, <3>4, <4>1
    <3>5. CASE i # 1
      <4>1. PICK j \in 1..Len(encoder'[s]) : i = j + 1
        <5>1. i - 1 \in 1..Len(encoder'[s]) /\ i = (i - 1) + 1
          BY <1>2, <3>5
        <5>2. QED
          BY <5>1
      <4>2. Line'[s][Taken(s)' + j] = Wire(encoder'[s][j])
        BY DEF LineFacts, Wire, FirstByte
      <4>3. Taken(s)' + j = k
        <5>1. Taken(s)' + j = (Taken(s) + 1) + j
          BY <1>4
        <5>2. QED
          BY <1>9, <3>2, <4>1, <5>1
      <4>4. encoder'[s][j] = encoder[s][i]
        BY <1>2, <4>1
      <4>5. QED
        BY <3>2, <3>3, <4>2, <4>3, <4>4
    <3>6. QED
      BY <3>4, <3>5
  <2>3. QED
    BY <1>1, <2>1, <2>2, LinePoint
<1>8. QED
  BY <1>5, <1>6, <1>7, SameLine

\* consume_packet moves the first packet that was not delivered yet.
LEMMA ConsumeLine ==
  ASSUME TypeOK, LineFacts, LineFacts', NEW s \in Streams, ConsumePacket(s)
  PROVE  /\ Line'[s] = Line[s]
         /\ delivered' = [delivered EXCEPT ![s] = Append(@, Line[s][Taken(s)])]
         /\ Taken(s) = Len(delivered[s]) + 1 /\ Taken(s) <= Len(Line[s])
<1>1. /\ encoder' = encoder /\ recv_pc[s] = "consume" /\ recv_pc'[s] = "test"
      /\ delivered' = [delivered EXCEPT ![s] = Append(@, Wire(pkt[s]))]
  BY DEF TypeOK, ConsumePacket, RecvAt, Wire
<1>2. Line[s][Taken(s)] = Wire(pkt[s])
  BY <1>1 DEF LineFacts
<1>3. Len(delivered[s]) \in Nat /\ Len(encoder[s]) \in Nat
  BY DEF TypeOK
<1>4. PICK w \in WirePacket : w = Wire(pkt[s])
  BY WireIsTyped DEF TypeOK
<1>5. delivered[s] \in Seq(WirePacket) /\ delivered'[s] = Append(delivered[s], w)
  BY <1>1, <1>4 DEF TypeOK, WirePacket
<1>6. /\ Len(delivered'[s]) = Len(delivered[s]) + 1
      /\ \A k \in 1..Len(delivered[s]) : delivered'[s][k] = delivered[s][k]
      /\ delivered'[s][Len(delivered[s]) + 1] = w
  BY <1>5
<1>7. Taken(s) = Len(delivered[s]) + 1 /\ Taken(s)' = Taken(s)
  BY <1>1, <1>3, <1>6 DEF Taken
<1>8. /\ Line[s] \in Seq(WirePacket) /\ Line'[s] \in Seq(WirePacket)
      /\ Len(Line[s]) = Taken(s) + Len(encoder[s])
      /\ Len(Line'[s]) = Taken(s)' + Len(encoder'[s])
  BY DEF LineFacts
<1>9. ASSUME NEW k \in 1..Len(Line[s])
      PROVE  Line[s][k] = Line'[s][k]
  <2>1. CASE k \in 1..Len(delivered[s])
    <3>1. k \in 1..Len(delivered'[s])
      BY <1>3, <1>6, <2>1
    <3>2. Line[s][k] = delivered[s][k] /\ Line'[s][k] = delivered'[s][k]
      BY <2>1, <3>1 DEF LineFacts
    <3>3. QED
      BY <1>6, <2>1, <3>2
  <2>2. CASE k = Len(delivered[s]) + 1
    <3>1. k \in 1..Len(delivered'[s])
      BY <1>3, <1>6, <2>2
    <3>2. Line'[s][k] = delivered'[s][k]
      BY <3>1 DEF LineFacts
    <3>3. QED
      BY <1>2, <1>4, <1>6, <1>7, <2>2, <3>2
  <2>3. CASE k > Taken(s) /\ k - Taken(s) \in 1..Len(encoder[s])
    <3>1. PICK i \in 1..Len(encoder[s]) : i = k - Taken(s)
      BY <2>3
    <3>2. k = Taken(s) + i
      <4>1. Taken(s) \in Nat
        BY DEF LineFacts
      <4>2. QED
        BY <3>1, <4>1
    <3>3. Line[s][Taken(s) + i] = Wire(encoder[s][i])
      BY DEF LineFacts
    <3>4. Line'[s][Taken(s)' + i] = Wire(encoder'[s][i])
      BY <1>1 DEF LineFacts, Wire, FirstByte
    <3>5. QED
      BY <1>1, <1>7, <3>2, <3>3, <3>4
  <2>4. QED
    BY <2>1, <2>2, <2>3, LinePoint
<1>10. Line'[s] = Line[s]
  BY <1>1, <1>7, <1>8, <1>9, SameLine
<1>11. QED
  <2>1. delivered' = [delivered EXCEPT ![s] = Append(@, Line[s][Taken(s)])]
    BY <1>1, <1>2
  <2>2. Taken(s) <= Len(Line[s])
    <3>1. Taken(s) \in Nat
      BY DEF LineFacts
    <3>2. QED
      BY <1>3, <1>8, <3>1
  <2>3. QED
    BY <1>7, <1>10, <2>1, <2>2

\* change_resolution cuts off the packets the encoder held.
LEMMA ReopenLine ==
  ASSUME TypeOK, LineFacts, LineFacts', NEW s \in Streams, Reopen(s)
  PROVE  LineCut(s)
<1>1. /\ encoder'[s] = <<>> /\ UNCHANGED <<delivered, recv_pc, pkt>>
      /\ lost'[s] = lost[s] \cup {p.frame : p \in ToSet(encoder[s])}
      /\ generation'[s] = generation[s] + 1 /\ fresh'[s] = TRUE
  BY DEF TypeOK, Reopen, recvVars
<1>2. Taken(s)' = Taken(s)
  BY <1>1 DEF Taken
<1>3. /\ Line[s] \in Seq(WirePacket) /\ Line'[s] \in Seq(WirePacket)
      /\ Taken(s) \in Nat /\ Len(encoder[s]) \in Nat
      /\ Len(Line[s]) = Taken(s) + Len(encoder[s])
      /\ Len(Line'[s]) = Taken(s)
  <2>1. Len(encoder'[s]) = 0
    BY <1>1
  <2>2. QED
    BY <1>2, <2>1 DEF LineFacts, TypeOK
<1>4. PICK n \in 0..Len(Line[s]) : n = Taken(s)
  BY <1>3
<1>5. ASSUME NEW k \in 1..n
      PROVE  Line'[s][k] = Line[s][k]
  <2>1. CASE k \in 1..Len(delivered[s])
    BY <1>1, <2>1 DEF LineFacts
  <2>2. CASE recv_pc[s] = "consume" /\ k = Taken(s)
    <3>1. Line[s][Taken(s)] = Wire(pkt[s])
      BY <2>2 DEF LineFacts
    <3>2. Line'[s][Taken(s)'] = Wire(pkt'[s])
      BY <1>1, <2>2 DEF LineFacts, Wire, FirstByte
    <3>3. QED
      BY <1>1, <1>2, <2>2, <3>1, <3>2
  <2>3. QED
    BY <1>3, <1>4, <2>1, <2>2, LinePoint
<1>6. Line'[s] = SubSeq(Line[s], 1, n)
  <2>1. PICK short \in Seq(WirePacket) : short = SubSeq(Line[s], 1, n)
    <3>1. SubSeq(Line[s], 1, n) \in Seq(WirePacket)
      BY <1>3, <1>4
    <3>2. QED
      BY <3>1
  <2>2. Len(short) = Len(Line'[s]) /\ \A k \in 1..Len(short) :
                                         short[k] = Line'[s][k]
    BY <1>3, <1>4, <1>5, <2>1
  <2>3. QED
    BY <1>3, <2>1, <2>2, SameLine
<1>7. {p.frame : p \in ToSet(encoder[s])}
        = {Line[s][k].frame : k \in n + 1..Len(Line[s])}
  <2>1. ASSUME NEW i \in 1..Len(encoder[s])
        PROVE  Line[s][n + i].frame = encoder[s][i].frame
    <3>1. Line[s][n + i] = Wire(encoder[s][i])
      BY <1>4 DEF LineFacts
    <3>2. QED
      BY <3>1 DEF Wire
  <2>2. DOMAIN encoder[s] = 1..Len(encoder[s])
    BY DEF TypeOK
  <2>3. ASSUME NEW f \in {p.frame : p \in ToSet(encoder[s])}
        PROVE  \E k \in n + 1..Len(Line[s]) : f = Line[s][k].frame
    <3>1. PICK i \in 1..Len(encoder[s]) : f = encoder[s][i].frame
      BY <2>2 DEF ToSet
    <3>2. n + i \in n + 1..Len(Line[s])
      BY <1>3, <1>4
    <3>3. QED
      BY <2>1, <3>1, <3>2
  <2>4. ASSUME NEW k \in n + 1..Len(Line[s])
        PROVE  Line[s][k].frame \in {p.frame : p \in ToSet(encoder[s])}
    <3>1. PICK i \in 1..Len(encoder[s]) : k = n + i
      <4>1. k - n \in 1..Len(encoder[s]) /\ k = n + (k - n)
        BY <1>3, <1>4
      <4>2. QED
        BY <4>1
    <3>2. encoder[s][i] \in ToSet(encoder[s])
      BY <2>2 DEF ToSet
    <3>3. QED
      BY <2>1, <3>1, <3>2
  <2>5. QED
    BY <2>3, <2>4
<1>8. Offered'[s] = Offered[s]
  BY OfferedKept DEF Reopen, sendVars
<1>9. QED
  BY <1>1, <1>6, <1>7, <1>8 DEF LineCut

\* Every step does one of the four things to each of the two lines.
LEMMA NextIsLineStep ==
  ASSUME TypeOK, LineFacts, LineFacts', [Next]_vars, NEW s \in Streams
  PROVE  LineStep(s)
<1> USE DEF sendVars, encoderVars, recvVars
<1> SUFFICES ASSUME ~LineFed(s), ~LineMissed(s), ~LineCut(s)
             PROVE  LineKept(s)
  BY DEF LineStep
<1>1. CASE TakeFrame \/ SenderExit \/ ChangeResolution \/ RequestShutdown
           \/ UNCHANGED vars
  <2>1. /\ UNCHANGED <<encoder, pkt, recv_pc, delivered, lost, generation, fresh>>
        /\ frames' = frames /\ (send_pc = "depth" <=> send_pc' = "depth")
    BY <1>1 DEF TakeFrame, SenderExit, ChangeResolution, RequestShutdown, vars
  <2>2. QED
    BY <2>1, LineUntouched, OfferedKept DEF LineKept
<1>2. ASSUME NEW r \in Streams, FeedEncoder(r)
      PROVE  LineKept(s)
  <2>1. r # s
    BY <1>2, FeedLine
  <2>2. /\ encoder'[s] = encoder[s] /\ fresh'[s] = fresh[s] /\ NextEncoder(r)
        /\ UNCHANGED <<delivered, pkt, recv_pc, generation, lost>>
    BY <1>2, <2>1 DEF FeedEncoder, NextEncoder, TypeOK
  <2>3. Line'[s] = Line[s]
    BY <2>2, LineUntouched
  <2>4. Offered'[s] = Offered[s]
    BY <2>1, <2>2, OfferedStep
  <2>5. QED
    BY <2>2, <2>3, <2>4 DEF LineKept
<1>3. ASSUME NEW r \in Streams, FeedRefused(r) \/ FeedFails(r)
      PROVE  LineKept(s)
  <2>1. /\ NextEncoder(r) /\ lost' = [lost EXCEPT ![r] = @ \cup {frames}]
        /\ UNCHANGED <<encoder, fresh, delivered, pkt, recv_pc, generation>>
    BY <1>3 DEF FeedRefused, FeedFails, LoseFrame, NextEncoder
  <2>2. Line'[s] = Line[s]
    BY <2>1, LineUntouched
  <2>3. CASE r = s
    <3>1. Offered[s] = frames /\ Offered'[s] = Offered[s] + 1
      BY <2>1, <2>3, OfferedStep
    <3>2. lost'[s] = lost[s] \cup {Offered[s]}
      BY <2>1, <2>3, <3>1 DEF TypeOK
    <3>3. QED
      BY <2>1, <2>2, <3>1, <3>2 DEF LineMissed
  <2>4. CASE r # s
    <3>1. Offered'[s] = Offered[s]
      BY <2>1, <2>4, OfferedStep
    <3>2. lost'[s] = lost[s]
      BY <2>1, <2>4 DEF TypeOK
    <3>3. QED
      BY <2>1, <2>2, <3>1, <3>2 DEF LineKept
  <2>5. QED
    BY <2>3, <2>4
<1>4. ASSUME NEW r \in Streams, Receiver(r)
      PROVE  LineKept(s)
  <2>1. UNCHANGED <<send_pc, frames, lost, generation, fresh>>
    BY <1>4 DEF Receiver, TestShutdown, Receive, ReceiveAgain, ReceiveFails,
                ConsumePacket, RecvAt
  <2>2. Offered'[s] = Offered[s]
    BY <2>1, OfferedKept
  <2>3. Line'[s] = Line[s]
    <3>1. CASE r # s
      <4>1. /\ delivered'[s] = delivered[s] /\ encoder'[s] = encoder[s]
            /\ pkt'[s] = pkt[s] /\ recv_pc'[s] = recv_pc[s]
        BY <1>4, <3>1 DEF Receiver, TestShutdown, Receive, ReceiveAgain,
                          ReceiveFails, ConsumePacket, RecvAt, TypeOK
      <4>2. QED
        BY <4>1, LineUntouched
    <3>2. CASE TestShutdown(s) \/ ReceiveAgain(s) \/ ReceiveFails(s)
      <4>1. /\ UNCHANGED <<delivered, encoder, pkt>>
            /\ recv_pc[s] # "consume" /\ recv_pc'[s] # "consume"
        BY <3>2 DEF TestShutdown, ReceiveAgain, ReceiveFails, RecvAt, TypeOK
      <4>2. QED
        BY <4>1, LineUntouched
    <3>3. QED
      BY <1>4, <3>1, <3>2, ReceiveLine, ConsumeLine DEF Receiver
  <2>4. QED
    BY <2>1, <2>2, <2>3 DEF LineKept
<1>5. ASSUME NEW r \in Streams, Reopen(r)
      PROVE  LineKept(s)
  <2>1. r # s
    BY <1>5, ReopenLine
  <2>2. /\ encoder'[s] = encoder[s] /\ fresh'[s] = fresh[s]
        /\ generation'[s] = generation[s] /\ lost'[s] = lost[s]
        /\ UNCHANGED <<delivered, pkt, recv_pc, send_pc, frames>>
    BY <1>5, <2>1 DEF Reopen, TypeOK
  <2>3. QED
    BY <2>2, LineUntouched, OfferedKept DEF LineKept
<1>6. QED
  BY <1>1, <1>2, <1>3, <1>4, <1>5 DEF Next, Sender, Terminated

\* Every step keeps the invariant.
LEMMA InvStep == EncoderInv /\ [Next]_vars => EncoderInv'
<1> SUFFICES ASSUME EncoderInv, [Next]_vars
             PROVE  EncoderInv'
  OBVIOUS
<1>1. TypeOK' /\ Progress'
  BY ProgressStep
<1>2. TypeOK /\ LineFacts
  BY LineLayout DEF EncoderInv
<1>3. LineFacts'
  BY <1>1, LineLayout, PTL
<1>4. ASSUME NEW s \in Streams
      PROVE  LineInv(s)'
  BY <1>1, <1>2, <1>3, NextIsLineStep, LineInvStep
<1>5. QED
  BY <1>1, <1>4 DEF EncoderInv

\* The invariant holds before any frame is offered.
LEMMA InitInv == Init => EncoderInv
<1> SUFFICES ASSUME Init
             PROVE  EncoderInv
  OBVIOUS
<1>1. NoPacket \in Packet
  BY DEF NoPacket, Packet
<1>2. TypeOK /\ Progress
  <2>1. /\ encoder \in [Streams -> Seq(Packet)]
        /\ \A s \in Streams : Len(encoder[s]) <= Capacity(s)
        /\ delivered \in
             [Streams -> Seq([frame : Nat, generation : Nat, byte : {0, 1}])]
    BY EncoderAssumption DEF Init, Capacity
  <2>2. pkt \in [Streams -> Packet]
    BY <1>1 DEF Init
  <2>5. /\ generation \in [Streams -> 0..MaxReopens]
        /\ frames \in 0..MaxFrames
        /\ lost \in [Streams -> SUBSET (0..MaxFrames)]
        /\ failed \subseteq Streams
        /\ fresh \in [Streams -> BOOLEAN]
        /\ recv_pc \in [Streams -> {"test", "receive", "consume", "exited"}]
    BY EncoderAssumption DEF Init
  <2>3. TypeOK
    BY <2>1, <2>2, <2>5 DEF Init, TypeOK
  <2>4. QED
    BY <2>3 DEF Init, Progress, Streams
<1>3. ASSUME NEW s \in Streams
      PROVE  LineInv(s)
  <2>1. LineFacts
    BY <1>2, LineLayout
  <2>2. Taken(s) = 0 /\ Len(encoder[s]) = 0
    BY DEF Init, Taken
  <2>3. Len(Line[s]) = 0
    BY <2>1, <2>2 DEF LineFacts
  <2>4. Offered[s] = 0 /\ lost[s] = {} /\ generation[s] = 0 /\ fresh[s] = TRUE
    BY DEF Init, Offered
  <2>5. QED
    BY <2>3, <2>4 DEF LineInv, Increasing, Covers, KeysMarked, LastGeneration
<1>4. QED
  BY <1>2, <1>3 DEF EncoderInv

\* The inductive invariant holds in every reachable state.
LEMMA InvAlways == Spec => []EncoderInv
BY InitInv, InvStep, PTL DEF Spec

\* The variables have their types, and no encoder is ever given more frames than
\* it takes before it answers EAGAIN (send_frame).
THEOREM TypeCorrect == Spec => []TypeOK
BY InvAlways, PTL DEF EncoderInv

-----------------------------------------------------------------------------
(* What the clients see *)

\* What was delivered is the beginning of the line.
LEMMA DeliveredIsLine ==
  ASSUME TypeOK, NEW s \in Streams, NEW k \in 1..Len(delivered[s])
  PROVE  k \in 1..Len(Line[s]) /\ delivered[s][k] = Line[s][k]
<1>1. LineFacts
  BY LineLayout
<1>2. /\ Taken(s) \in Nat /\ Len(encoder[s]) \in Nat /\ Len(delivered[s]) \in Nat
      /\ Len(delivered[s]) <= Taken(s)
      /\ Len(Line[s]) = Taken(s) + Len(encoder[s])
      /\ delivered[s][k] = Line[s][k]
  BY <1>1, SMTT(30) DEF LineFacts, TypeOK
<1>3. QED
  BY <1>2

\* However often the encoders are reopened, and whatever they refuse, the first
\* packet of a new encoder that reaches the clients carries the mark of a key
\* frame, and no packet of an older encoder follows it (consume_packet).
THEOREM KeyFramesComeFirst == Spec => []NewEncoderStartsWithKey
<1>1. EncoderInv => NewEncoderStartsWithKey
  <2> SUFFICES ASSUME EncoderInv, NEW s \in Streams,
                      NEW k \in 1..Len(delivered[s])
               PROVE  LET before == IF k = 1 THEN -1
                                    ELSE delivered[s][k - 1].generation
                      IN /\ before <= delivered[s][k].generation
                         /\ before < delivered[s][k].generation =>
                              delivered[s][k].byte = 0
    BY DEF NewEncoderStartsWithKey
  <2>1. k \in 1..Len(Line[s]) /\ delivered[s][k] = Line[s][k]
    BY DeliveredIsLine DEF EncoderInv
  <2>2. KeysMarked(Line[s])
    BY DEF EncoderInv, LineInv
  <2>3. CASE k = 1
    BY <2>1, <2>2, <2>3 DEF KeysMarked
  <2>4. CASE k # 1
    <3>1. k - 1 \in 1..Len(delivered[s])
      BY <2>4 DEF EncoderInv, TypeOK
    <3>2. delivered[s][k - 1] = Line[s][k - 1]
      BY <3>1, DeliveredIsLine DEF EncoderInv
    <3>3. QED
      BY <2>1, <2>2, <2>4, <3>2 DEF KeysMarked
  <2>5. QED
    BY <2>3, <2>4
<1>2. QED
  BY <1>1, InvAlways, PTL

\* The packet in place k comes behind k - 1 others: all the frames below its own
\* that were not lost.
Below(line, k, gone) == (0..line[k].frame - 1) \ gone

\* A packet has as many packets before it as older frames were not lost.
LEMMA Rank ==
  ASSUME NEW line \in Seq(WirePacket), NEW offered \in Nat, NEW gone,
         Increasing(line), Covers(line, offered, gone),
         NEW k \in 1..Len(line)
  PROVE  /\ IsFiniteSet(Below(line, k, gone))
         /\ Cardinality(Below(line, k, gone)) = k - 1
<1> DEFINE low == (0..line[k].frame - 1) \ gone
           f == [j \in 1..k - 1 |-> line[j].frame]
<1>1. \A j \in 1..Len(line) : line[j].frame \in Nat
  <2>1. \A j \in 1..Len(line) : line[j] \in WirePacket
    OBVIOUS
  <2>2. QED
    BY <2>1 DEF WirePacket
<1>2. k - 1 \in Nat /\ \A j \in 1..k - 1 : j \in 1..Len(line) /\ j < k
  OBVIOUS
<1>3. \A j \in 1..k - 1 : line[j].frame \in low
  BY <1>1, <1>2 DEF Increasing, Covers
<1>4. ASSUME NEW i \in low
      PROVE  \E j \in 1..k - 1 : line[j].frame = i
  <2>1. i \in 0..offered - 1 /\ i \notin gone /\ i < line[k].frame
    BY <1>1 DEF Covers
  <2>2. PICK j \in 1..Len(line) : line[j].frame = i
    BY <2>1 DEF Covers
  <2>3. ~(k <= j)
    BY <1>1, <2>1, <2>2 DEF Increasing
  <2>4. QED
    BY <2>2, <2>3
<1>5. \A a, b \in 1..k - 1 : line[a].frame = line[b].frame => a = b
  BY <1>1, <1>2 DEF Increasing
<1> HIDE DEF low
<1>6. f \in Bijection(1..k - 1, low)
  <2>1. f \in [1..k - 1 -> low]
    BY <1>3
  <2>2. \A a, b \in 1..k - 1 : f[a] = f[b] => a = b
    BY <1>5
  <2>3. \A i \in low : \E j \in 1..k - 1 : f[j] = i
    BY <1>4
  <2>4. QED
    BY <2>1, <2>2, <2>3 DEF Bijection, Injection, Surjection, IsInjective
<1>7. IsFiniteSet(1..k - 1) /\ Cardinality(1..k - 1) = k - 1
  BY <1>2, FS_Interval
<1>8. ExistsBijection(1..k - 1, low)
  BY <1>6 DEF ExistsBijection
<1>9. IsFiniteSet(low) /\ Cardinality(low) = Cardinality(1..k - 1)
  BY <1>7, <1>8, FS_Bijection
<1>10. QED
  BY <1>7, <1>9 DEF low, Below

\* So two lines that lost the same frames agree wherever both have a packet.
LEMMA LinesAgree ==
  ASSUME NEW a \in Seq(WirePacket), NEW b \in Seq(WirePacket),
         NEW oa \in Nat, NEW ob \in Nat, NEW gone,
         Increasing(a), Covers(a, oa, gone),
         Increasing(b), Covers(b, ob, gone),
         NEW k \in 1..Len(a), k \in 1..Len(b)
  PROVE  ~(a[k].frame < b[k].frame)
<1> SUFFICES ASSUME a[k].frame < b[k].frame
             PROVE  FALSE
  OBVIOUS
<1> DEFINE lowA == Below(a, k, gone)
           lowB == Below(b, k, gone)
<1>1. a[k].frame \in Nat /\ b[k].frame \in Nat /\ a[k].frame \notin gone
  <2>1. a[k] \in WirePacket /\ b[k] \in WirePacket
    OBVIOUS
  <2>2. QED
    BY <2>1 DEF Covers, WirePacket
<1>2. IsFiniteSet(lowB) /\ Cardinality(lowB) = k - 1
  BY Rank
<1>3. Cardinality(lowA) = k - 1
  BY Rank
<1>4. lowA \in SUBSET lowB /\ a[k].frame \in lowB /\ a[k].frame \notin lowA
  BY <1>1, SMTT(30) DEF Below
<1>5. QED
  BY <1>2, <1>3, <1>4, FS_Subset

\* Lines that have lost the same frames agree wherever both were delivered.
LEMMA StreamedAgree ==
  ASSUME EncoderInv, lost["scene"] = lost["depth"],
         NEW k \in 1..Len(delivered["scene"]), k \in 1..Len(delivered["depth"])
  PROVE  Streamed["scene"][k] = Streamed["depth"][k]
<1>1. "scene" \in Streams /\ "depth" \in Streams
  BY DEF Streams
<1>2. TypeOK /\ LineFacts /\ Offered \in [Streams -> Nat]
  BY LineLayout, OfferedType DEF EncoderInv
<1>3. PICK a \in Seq(WirePacket) : a = Line["scene"]
  BY <1>1, <1>2 DEF LineFacts
<1>4. PICK b \in Seq(WirePacket) : b = Line["depth"]
  BY <1>1, <1>2 DEF LineFacts
<1>5. k \in 1..Len(a) /\ k \in 1..Len(b)
  BY <1>1, <1>2, <1>3, <1>4, DeliveredIsLine
<1>6. /\ Streamed["scene"][k] = a[k].frame
      /\ Streamed["depth"][k] = b[k].frame
  BY <1>1, <1>2, <1>3, <1>4, DeliveredIsLine DEF Streamed
<1>7. PICK oa \in Nat : oa = Offered["scene"]
  BY <1>1, <1>2
<1>8. PICK ob \in Nat : ob = Offered["depth"]
  BY <1>1, <1>2
<1>9. PICK gone : gone = lost["scene"]
  OBVIOUS
<1>10. /\ Increasing(a) /\ Covers(a, oa, gone)
       /\ Increasing(b) /\ Covers(b, ob, gone)
  BY <1>1, <1>3, <1>4, <1>7, <1>8, <1>9 DEF EncoderInv, LineInv
<1>11. ~(a[k].frame < b[k].frame) /\ ~(b[k].frame < a[k].frame)
  BY <1>5, <1>10, LinesAgree
<1>12. a[k].frame \in Nat /\ b[k].frame \in Nat
  <2>1. a[k] \in WirePacket /\ b[k] \in WirePacket
    BY <1>5
  <2>2. QED
    BY <2>1 DEF WirePacket
<1>13. QED
  BY <1>6, <1>11, <1>12

\* While the two encoders of a view have lost the same frames, the packets sent
\* to the clients of one are the first packets sent to the clients of the other,
\* frame by frame (send_frame_thread, receive_packet_handler).
THEOREM SceneAndDepthInStep == Spec => []StreamsInStep
<1>1. EncoderInv => StreamsInStep
  <2> SUFFICES ASSUME EncoderInv, lost["scene"] = lost["depth"]
               PROVE  \/ IsPrefix(Streamed["scene"], Streamed["depth"])
                      \/ IsPrefix(Streamed["depth"], Streamed["scene"])
    BY DEF StreamsInStep
  <2> DEFINE a == Streamed["scene"]
             b == Streamed["depth"]
  <2>1. /\ Len(delivered["scene"]) \in Nat /\ Len(delivered["depth"]) \in Nat
        /\ a = [k \in 1..Len(delivered["scene"]) |-> a[k]]
        /\ b = [k \in 1..Len(delivered["depth"]) |-> b[k]]
        /\ Len(a) = Len(delivered["scene"]) /\ Len(b) = Len(delivered["depth"])
    BY DEF EncoderInv, TypeOK, Streamed, Streams
  <2>6. a \in Seq(Nat) /\ b \in Seq(Nat)
    <3>5. delivered \in [Streams -> Seq(WirePacket)]
      BY DEF EncoderInv, TypeOK, WirePacket
    <3>1. \A s \in Streams : \A k \in 1..Len(delivered[s]) :
            delivered[s][k] \in WirePacket
      BY <3>5
    <3>2. \A s \in Streams : \A k \in 1..Len(delivered[s]) :
            delivered[s][k].frame \in Nat
      BY <3>1 DEF WirePacket
    <3>3. /\ \A k \in 1..Len(delivered["scene"]) : a[k] \in Nat
          /\ \A k \in 1..Len(delivered["depth"]) : b[k] \in Nat
      BY <3>2 DEF Streamed, Streams
    <3> HIDE DEF a, b
    <3>4. /\ a \in [1..Len(delivered["scene"]) -> Nat]
          /\ b \in [1..Len(delivered["depth"]) -> Nat]
      BY <2>1, <3>3
    <3>6. QED
      BY <2>1, <3>4
  <2>2. \A k \in 1..Len(a) : k \in 1..Len(b) => a[k] = b[k]
    BY <2>1, StreamedAgree
  <2> HIDE DEF a, b
  <2>3. CASE Len(a) <= Len(b)
    <3>1. SubSeq(a, 1, Len(a)) = SubSeq(b, 1, Len(a))
      BY <2>2, <2>3, <2>6
    <3>2. QED
      BY <2>3, <3>1 DEF IsPrefix, a, b
  <2>4. CASE Len(b) <= Len(a)
    <3>1. SubSeq(b, 1, Len(b)) = SubSeq(a, 1, Len(b))
      BY <2>2, <2>4, <2>6
    <3>2. QED
      BY <2>4, <3>1 DEF IsPrefix, a, b
  <2>5. QED
    BY <2>1, <2>3, <2>4
<1>2. QED
  BY <1>1, InvAlways, PTL

-----------------------------------------------------------------------------
(* The refinement *)

\* Every step is one of FrameStream or leaves its variables alone.
LEMMA StreamStep ==
  EncoderInv /\ LineFacts' /\ [Next]_vars
    => [Stream!StreamNext]_(Stream!streamVars)
<1> SUFFICES ASSUME EncoderInv, LineFacts', [Next]_vars
             PROVE  [Stream!StreamNext]_(Stream!streamVars)
  OBVIOUS
<1> USE DEF sendVars, encoderVars, recvVars
<1>0. TypeOK /\ LineFacts /\ Progress /\ Offered \in [Streams -> Nat]
  BY LineLayout, OfferedType DEF EncoderInv
<1>1. ASSUME NEW s \in Streams, FeedEncoder(s) \/ FeedRefused(s) \/ FeedFails(s)
      PROVE  Stream!StreamNext
  <2>1. NextEncoder(s) /\ UNCHANGED delivered
    BY <1>1 DEF FeedEncoder, FeedRefused, FeedFails, LoseFrame, NextEncoder
  <2>2. Offered' = [Offered EXCEPT ![s] = @ + 1]
    <3>1. \A r \in Streams : Offered'[r] = IF r = s THEN Offered[r] + 1
                                                     ELSE Offered[r]
      BY <1>0, <2>1, OfferedStep
    <3>2. Offered' = [r \in Streams |-> Offered'[r]]
      BY DEF Offered
    <3>3. QED
      BY <1>0, <3>1, <3>2
  <2>3. Streamed' = Streamed
    BY <2>1 DEF Streamed
  <2>4. Stream!Issue(s)
    BY <2>2, <2>3 DEF Stream!Issue
  <2>5. QED
    BY <2>4 DEF Stream!StreamNext
<1>2. ASSUME NEW s \in Streams, ConsumePacket(s)
      PROVE  Stream!StreamNext
  <2>1. /\ delivered' = [delivered EXCEPT ![s] = Append(@, Line[s][Taken(s)])]
        /\ Taken(s) = Len(delivered[s]) + 1 /\ Taken(s) <= Len(Line[s])
    BY <1>0, <1>2, ConsumeLine
  <2>2. PICK i : i = Line[s][Taken(s)].frame
    OBVIOUS
  <2>3. Len(delivered[s]) \in Nat /\ Taken(s) \in 1..Len(Line[s])
    BY <1>0, <2>1 DEF TypeOK, LineFacts
  <2>4. i \in 0..Offered[s] - 1
    BY <2>2, <2>3 DEF EncoderInv, LineInv, Covers
  <2>5. \A k \in 1..Len(delivered[s]) : Streamed[s][k] < i
    <3> SUFFICES ASSUME NEW k \in 1..Len(delivered[s])
                 PROVE  Streamed[s][k] < i
      OBVIOUS
    <3>1. k \in 1..Len(Line[s]) /\ delivered[s][k] = Line[s][k]
      BY <1>0, DeliveredIsLine
    <3>2. Line[s][k].frame < Line[s][Taken(s)].frame
      <4>1. k < Taken(s)
        BY <2>1, <2>3
      <4>2. Increasing(Line[s])
        BY DEF EncoderInv, LineInv
      <4>3. QED
        BY <2>3, <3>1, <4>1, <4>2 DEF Increasing
    <3>3. QED
      BY <2>2, <3>1, <3>2 DEF Streamed
  <2>6. /\ Len(Streamed[s]) = Len(delivered[s])
        /\ Streamed' = [Streamed EXCEPT ![s] = Append(@, i)]
    <3>1. PICK w : w = Line[s][Taken(s)]
      OBVIOUS
    <3>2. /\ Len(delivered'[s]) = Len(delivered[s]) + 1
          /\ delivered'[s][Len(delivered[s]) + 1] = w
          /\ \A k \in 1..Len(delivered[s]) : delivered'[s][k] = delivered[s][k]
          /\ \A r \in Streams : r # s => delivered'[r] = delivered[r]
      <4>1. w \in WirePacket /\ delivered[s] \in Seq(WirePacket)
        <5>1. Line[s] \in Seq(WirePacket)
          BY <1>0 DEF LineFacts
        <5>2. QED
          <6>1. w \in WirePacket
            BY <2>3, <3>1, <5>1
          <6>2. delivered[s] \in Seq(WirePacket)
            BY <1>0 DEF TypeOK, WirePacket
          <6>3. QED
            BY <6>1, <6>2
      <4>2. delivered'[s] = Append(delivered[s], w)
        BY <1>0, <2>1, <3>1 DEF TypeOK
      <4>3. QED
        BY <1>0, <2>1, <4>1, <4>2 DEF TypeOK
    <3>3. \A r \in Streams : r # s => Streamed'[r] = Streamed[r]
      BY <3>2 DEF Streamed
    <3>4. Streamed[s] = [k \in 1..Len(delivered[s]) |-> delivered[s][k].frame]
      BY DEF Streamed
    <3>5. Len(Streamed[s]) = Len(delivered[s])
      BY <2>3, <3>4
    <3>6. Streamed'[s] = [k \in 1..Len(delivered[s]) + 1 |->
                           delivered'[s][k].frame]
      BY <3>2 DEF Streamed
    <3>7. Append(Streamed[s], i) = Streamed'[s]
      <4>1. i \in Nat
        BY <2>4
      <4>2. \A k \in 1..Len(delivered[s]) : delivered[s][k].frame \in Nat
        <5>1. delivered[s] \in Seq(WirePacket)
          BY <1>0 DEF TypeOK, WirePacket
        <5>2. \A k \in 1..Len(delivered[s]) : delivered[s][k] \in WirePacket
          BY <5>1
        <5>3. QED
          BY <5>2 DEF WirePacket
      <4>3. Streamed[s] \in [1..Len(delivered[s]) -> Nat]
        BY <3>4, <4>2
      <4>4. Streamed[s] \in Seq(Nat)
        BY <2>3, <4>3
      <4>5. \A k \in 1..Len(delivered[s]) + 1 : delivered'[s][k].frame \in Nat
        <5> SUFFICES ASSUME NEW k \in 1..Len(delivered[s]) + 1
                     PROVE  delivered'[s][k].frame \in Nat
          OBVIOUS
        <5>1. CASE k = Len(delivered[s]) + 1
          BY <2>2, <3>1, <3>2, <4>1, <5>1
        <5>2. CASE k \in 1..Len(delivered[s])
          BY <3>2, <4>2, <5>2
        <5>3. QED
          BY <2>3, <5>1, <5>2
      <4>6. Streamed'[s] \in [1..Len(delivered[s]) + 1 -> Nat]
        BY <3>6, <4>5
      <4>7. Streamed'[s] \in Seq(Nat) /\ Len(Streamed'[s]) = Len(delivered[s]) + 1
        BY <2>3, <4>6, SMTT(30)
      <4>8. Streamed'[s][Len(delivered[s]) + 1] = i
        BY <2>2, <2>3, <3>1, <3>2, <3>6
      <4>9. \A k \in 1..Len(delivered[s]) : Streamed'[s][k] = Streamed[s][k]
        BY <2>3, <3>2, <3>4, <3>6
      <4>10. QED
        <5>1. PICK x \in Seq(Nat) : x = Streamed[s]
          BY <4>4
        <5>2. PICK y \in Seq(Nat) : y = Streamed'[s]
          BY <4>7
        <5>3. /\ Len(y) = Len(x) + 1 /\ y[Len(x) + 1] = i
              /\ \A k \in 1..Len(x) : y[k] = x[k]
          BY <3>5, <4>7, <4>8, <4>9, <5>1, <5>2
        <5>4. Append(x, i) = y
          BY <4>1, <5>3
        <5>5. QED
          BY <5>1, <5>2, <5>4
    <3>8. QED
      <4>1. /\ Streamed = [r \in Streams |-> Streamed[r]]
            /\ Streamed' = [r \in Streams |-> Streamed'[r]]
        BY DEF Streamed
      <4>2. QED
        BY <3>3, <3>5, <3>7, <4>1
  <2>7. Offered' = Offered
    BY <1>2 DEF ConsumePacket, RecvAt, Offered
  <2>8. Stream!Encode(s, i)
    BY <1>0, <2>4, <2>5, <2>6, <2>7 DEF Stream!Encode
  <2>9. i \in 0..Offered[s]
    BY <1>0, <2>4
  <2>10. QED
    BY <2>8, <2>9 DEF Stream!StreamNext
<1>3. CASE TakeFrame \/ SenderExit \/ ChangeResolution \/ RequestShutdown
           \/ UNCHANGED vars
  BY <1>3 DEF TakeFrame, SenderExit, ChangeResolution, RequestShutdown, vars,
              Stream!streamVars, Offered, Streamed
<1>4. ASSUME NEW s \in Streams, Reopen(s) \/ TestShutdown(s) \/ Receive(s)
                                \/ ReceiveAgain(s) \/ ReceiveFails(s)
      PROVE  UNCHANGED Stream!streamVars
  BY <1>4 DEF Reopen, TestShutdown, Receive, ReceiveAgain, ReceiveFails, RecvAt,
              Stream!streamVars, Offered, Streamed
<1>5. QED
  BY <1>1, <1>2, <1>3, <1>4 DEF Next, Sender, Receiver, Terminated

\* Every step of the encoder stage is a step of FrameStream or a stutter: each
\* client stream carries frames that were offered to its encoder, in their order
\* and each at most once, whatever the encoders refuse and however they are
\* reopened in between.
THEOREM StageImplementsStream == Spec => ImplementsFrameStream
<1>1. Init => Stream!StreamInit
  BY DEF Init, Stream!StreamInit, Offered, Streamed
<1>2. QED
  BY <1>1, StreamStep, InvAlways, LineLayout, PTL
  DEF Spec, ImplementsFrameStream, Stream!StreamSpec, EncoderInv
=============================================================================
