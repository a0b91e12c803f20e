---------------------------- MODULE EncoderStage ----------------------------
(***************************************************************************)
(* From the frames of one view to the packets its clients get.  The        *)
(* send_frame_thread feeds each frame to the scene and then to the depth   *)
(* encoder; a receive_packet_thread per encoder takes packets out and      *)
(* gives them to its PacketStreamServer; the CameraControlServer's thread  *)
(* reopens both encoders when the resolution changes.                      *)
(*                                                                         *)
(* Steps.  send_frame, receive_packet and change_resolution hold           *)
(* m_codec_context_mutex throughout (their wait has the predicate true),   *)
(* so each is one step.  get_delete is FramePipeline's matter: here a      *)
(* frame is there or not, and frames are numbered as the sender takes them.*)
(*                                                                         *)
(* libavcodec is external: an encoder takes as many frames as its capacity *)
(* before it answers EAGAIN, gives one packet per frame in order, keeps    *)
(* the last Delay frames until newer ones come (nobody flushes it), and    *)
(* the first packet after it was opened is a key frame.                    *)
(***************************************************************************)
EXTENDS Integers, Sequences, SequencesExt

CONSTANTS SceneCapacity, DepthCapacity,
          Delay,           \* frames x264 keeps: 0 for the tune zerolatency
          MaxFrames,       \* bound: frames the sender takes
          MaxReopens       \* bound: changes of the resolution

ASSUME EncoderAssumption == /\ Delay \in Nat
                            /\ SceneCapacity \in Nat /\ SceneCapacity > Delay
                            /\ DepthCapacity \in Nat /\ DepthCapacity > Delay
                            /\ MaxFrames \in Nat
                            /\ MaxReopens \in Nat

VARIABLES
  shutdown_requested,
  send_pc,        \* where send_frame_thread is
  frames,         \* frames it has finished with
  encoder,        \* packets each encoder holds
  generation,     \* how often each encoder was reopened
  fresh,          \* nothing was encoded since the encoder was opened
  reopen_pc,      \* the encoder change_resolution is called for next
  recv_pc,        \* where each receive_packet_thread is
  pkt,            \* its AVPacket
  delivered,      \* history: what consume_packet sent to the clients
  lost,           \* history: frames an encoder refused or threw away
  failed          \* history: receivers that met an encoder error

sendVars == <<send_pc, frames>>
encoderVars == <<encoder, generation, fresh>>
recvVars == <<recv_pc, pkt, delivered, failed>>
vars == <<shutdown_requested, send_pc, frames, encoder, generation, fresh,
          reopen_pc, recv_pc, pkt, delivered, lost, failed>>

Streams == {"scene", "depth"}

Packet == [frame : Nat, generation : Nat, key : BOOLEAN]
NoPacket == [frame |-> 0, generation |-> 0, key |-> FALSE]

Init ==
  /\ shutdown_requested = FALSE
  /\ send_pc = "get"
  /\ frames = 0
  /\ encoder = [s \in Streams |-> <<>>]
  /\ generation = [s \in Streams |-> 0]
  /\ fresh = [s \in Streams |-> TRUE]
  /\ reopen_pc = "idle"
  /\ recv_pc = [s \in Streams |-> "test"]
  /\ pkt = [s \in Streams |-> NoPacket]
  /\ delivered = [s \in Streams |-> <<>>]
  /\ lost = [s \in Streams |-> {}]
  /\ failed = {}

-----------------------------------------------------------------------------
(* send_frame_thread *)

\* get_delete() has a frame.
TakeFrame ==
  /\ send_pc = "get"
  /\ frames < MaxFrames
  /\ send_pc' = "scene"
  /\ UNCHANGED <<shutdown_requested, frames, encoderVars, reopen_pc, recvVars,
                 lost>>

\* get_delete() times out and the loop ends.
SenderExit ==
  /\ send_pc = "get"
  /\ shutdown_requested
  /\ send_pc' = "exited"
  /\ UNCHANGED <<shutdown_requested, frames, encoderVars, reopen_pc, recvVars,
                 lost>>

Capacity(s) == IF s = "scene" THEN SceneCapacity ELSE DepthCapacity

Full(s) == Len(encoder[s]) >= Capacity(s)

\* The scene encoder is followed by the depth encoder, that by the next frame.
NextEncoder(s) ==
  /\ send_pc = s
  /\ send_pc' = CASE s = "scene" -> "depth"
                  [] s = "depth" /\ shutdown_requested -> "exited"
                  [] OTHER -> "get"
  /\ frames' = IF s = "depth" THEN frames + 1 ELSE frames
  /\ UNCHANGED <<shutdown_requested, generation, reopen_pc, recvVars>>

\* Mutant of FeedEncoder: frames are queued without a limit.
FeedEncoderQueues(s) ==
  /\ \E key \in IF fresh[s] THEN {TRUE} ELSE BOOLEAN :
       encoder' = [encoder EXCEPT ![s] = Append(@, [frame |-> frames,
                          generation |-> generation[s], key |-> key])]
  /\ fresh' = [fresh EXCEPT ![s] = FALSE]
  /\ NextEncoder(s)
  /\ UNCHANGED lost

\* send_frame(): the encoder takes the frame.
FeedEncoder(s) ==
  /\ ~Full(s)
  /\ \E key \in IF fresh[s] THEN {TRUE} ELSE BOOLEAN :
       encoder' = [encoder EXCEPT ![s] = Append(@, [frame |-> frames,
                          generation |-> generation[s], key |-> key])]
  /\ fresh' = [fresh EXCEPT ![s] = FALSE]
  /\ NextEncoder(s)
  /\ UNCHANGED lost

\* Mutant of FeedRefused: a frame the depth encoder refuses is sent again, to
\* both encoders.
FeedBothAgain(s) ==
  /\ Full(s)
  /\ send_pc = s
  /\ send_pc' = "scene"
  /\ UNCHANGED <<shutdown_requested, frames, encoderVars, reopen_pc, recvVars,
                 lost>>

LoseFrame(s) == /\ lost' = [lost EXCEPT ![s] = @ \cup {frames}]
                /\ NextEncoder(s)
                /\ UNCHANGED <<encoder, fresh>>

\* send_frame(): EAGAIN.  The frame is not sent again.
FeedRefused(s) == Full(s) /\ LoseFrame(s)

\* send_frame(): EINVAL, ENOMEM, AVERROR_EOF.  Each case constructs an
\* exception and does not throw it.
FeedFails(s) == ~Full(s) /\ LoseFrame(s)

Sender == \/ TakeFrame \/ SenderExit
          \/ \E s \in Streams : FeedEncoder(s) \/ FeedRefused(s) \/ FeedFails(s)

-----------------------------------------------------------------------------
(* receive_packet_thread and receive_packet_handler *)

RecvAt(s, from, to) == /\ recv_pc[s] = from
                       /\ recv_pc' = [recv_pc EXCEPT ![s] = to]
                       /\ UNCHANGED <<sendVars, generation, fresh, reopen_pc,
                                      lost>>

\* The tests of shutdown_requested in both loops.
TestShutdown(s) ==
  /\ RecvAt(s, "test", IF shutdown_requested THEN "exited" ELSE "receive")
  /\ UNCHANGED <<shutdown_requested, encoder, pkt, delivered, failed>>

\* The encoder has a packet ready: the frames behind it are enough.
HasPacket(s) == Len(encoder[s]) > Delay

\* Mutant of Receive: avcodec_receive_packet is called until the encoder has
\* no more, and the last packet stays in pkt.
ReceiveDrains(s) ==
  LET k == Len(encoder[s]) - Delay IN
  /\ HasPacket(s)
  /\ RecvAt(s, "receive", "consume")
  /\ pkt' = [pkt EXCEPT ![s] = encoder[s][k]]
  /\ encoder' = [encoder EXCEPT ![s] = SubSeq(@, k + 1, Len(@))]
  /\ UNCHANGED <<shutdown_requested, delivered, failed>>

\* receive_packet() returns 0.
Receive(s) ==
  /\ HasPacket(s)
  /\ RecvAt(s, "receive", "consume")
  /\ pkt' = [pkt EXCEPT ![s] = Head(encoder[s])]
  /\ encoder' = [encoder EXCEPT ![s] = Tail(@)]
  /\ UNCHANGED <<shutdown_requested, delivered, failed>>

\* Mutant of ReceiveAgain: EAGAIN is handled like LockTimeout, by break.
ReceiveAgainBreaks(s) ==
  /\ ~HasPacket(s)
  /\ RecvAt(s, "receive", "exited")
  /\ UNCHANGED <<shutdown_requested, encoder, pkt, delivered, failed>>

\* receive_packet() returns EAGAIN.
ReceiveAgain(s) ==
  /\ ~HasPacket(s)
  /\ RecvAt(s, "receive", "test")
  /\ UNCHANGED <<shutdown_requested, encoder, pkt, delivered, failed>>

\* Mutant of ReceiveFails: only this thread ends.
ReceiveFailsAlone(s) ==
  /\ RecvAt(s, "receive", "exited")
  /\ failed' = failed \cup {s}
  /\ UNCHANGED <<shutdown_requested, encoder, pkt, delivered>>

\* receive_packet() returns another error: the program is to end.
ReceiveFails(s) ==
  /\ RecvAt(s, "receive", "test")
  /\ shutdown_requested' = TRUE
  /\ failed' = failed \cup {s}
  /\ UNCHANGED <<encoder, pkt, delivered>>

\* Mutant of FirstByte: the values are swapped.
FirstByteSwapped(p) == IF p.key THEN 1 ELSE 0

\* pkt->data[0], which tells the client a key frame from others.
FirstByte(p) == IF p.key THEN 0 ELSE 1

\* PacketStreamServer::consume_packet
ConsumePacket(s) ==
  /\ RecvAt(s, "consume", "test")
  /\ delivered' = [delivered EXCEPT ![s] = Append(@,
                     [frame      |-> pkt[s].frame,
                      generation |-> pkt[s].generation,
                      byte       |-> FirstByte(pkt[s])])]
  /\ pkt' = [pkt EXCEPT ![s] = NoPacket]
  /\ UNCHANGED <<shutdown_requested, encoder, failed>>

Receiver(s) == \/ TestShutdown(s) \/ Receive(s) \/ ReceiveAgain(s)
               \/ ReceiveFails(s) \/ ConsumePacket(s)

-----------------------------------------------------------------------------
(* CameraManager::set_camera_* on the thread of the CameraControlServer *)

ChangeResolution ==
  /\ reopen_pc = "idle"
  /\ generation["scene"] < MaxReopens
  /\ reopen_pc' = "scene"
  /\ UNCHANGED <<shutdown_requested, sendVars, encoderVars, recvVars, lost>>

\* change_resolution(): avcodec_free_context drops what the encoder holds.
Reopen(s) ==
  /\ reopen_pc = s
  /\ reopen_pc' = IF s = "scene" THEN "depth" ELSE "idle"
  /\ lost' = [lost EXCEPT ![s] = @ \cup {p.frame : p \in ToSet(encoder[s])}]
  /\ encoder' = [encoder EXCEPT ![s] = <<>>]
  /\ generation' = [generation EXCEPT ![s] = @ + 1]
  /\ fresh' = [fresh EXCEPT ![s] = TRUE]
  /\ UNCHANGED <<shutdown_requested, sendVars, recvVars>>

-----------------------------------------------------------------------------
\* signal_handler
RequestShutdown ==
  /\ ~shutdown_requested
  /\ shutdown_requested' = TRUE
  /\ UNCHANGED <<sendVars, encoderVars, reopen_pc, recvVars, lost>>

AllExited == send_pc = "exited" /\ \A s \in Streams : recv_pc[s] = "exited"

Terminated == AllExited /\ UNCHANGED vars

Next == \/ Sender
        \/ \E s \in Streams : Receiver(s) \/ Reopen(s)
        \/ ChangeResolution
        \/ RequestShutdown
        \/ Terminated

Spec == Init /\ [][Next]_vars

\* The threads keep running; all their calls return.
FairSpec == /\ Spec
            /\ WF_vars(Sender)
            /\ \A s \in Streams : WF_vars(Receiver(s))

-----------------------------------------------------------------------------
(* Properties *)

\* Types, and that no encoder holds more than its capacity.
TypeOK ==
  /\ shutdown_requested \in BOOLEAN
  /\ send_pc \in {"get", "scene", "depth", "exited"}
  /\ frames \in 0..MaxFrames
  /\ encoder \in [Streams -> Seq(Packet)]
  /\ \A s \in Streams : Len(encoder[s]) <= Capacity(s)
  /\ generation \in [Streams -> 0..MaxReopens]
  /\ fresh \in [Streams -> BOOLEAN]
  /\ reopen_pc \in {"idle", "scene", "depth"}
  /\ recv_pc \in [Streams -> {"test", "receive", "consume", "exited"}]
  /\ pkt \in [Streams -> Packet]
  /\ delivered \in
       [Streams -> Seq([frame : Nat, generation : Nat, byte : {0, 1}])]
  /\ lost \in [Streams -> SUBSET (0..MaxFrames)]
  /\ failed \subseteq Streams

\* Frames that were offered to the encoder of a stream.
Offered == [s \in Streams |->
              IF s = "scene" /\ send_pc = "depth" THEN frames + 1 ELSE frames]

Streamed == [s \in Streams |-> [k \in 1..Len(delivered[s]) |-> delivered[s][k].frame]]

Stream == INSTANCE FrameStream
            WITH Eyes <- Streams, issued <- Offered, stream <- Streamed

\* The packets of each stream reach the clients in the order of their frames,
\* none twice, although encoders are reopened and refuse frames in between.
ImplementsFrameStream == Stream!StreamSpec

\* Scene and depth get out of step only by frames that one encoder lost and the
\* other did not: while they have lost the same frames, one stream is the
\* beginning of the other (send_frame_thread, receive_packet_handler).
StreamsInStep ==
  lost["scene"] = lost["depth"] =>
    \/ IsPrefix(Streamed["scene"], Streamed["depth"])
    \/ IsPrefix(Streamed["depth"], Streamed["scene"])

\* After a change of resolution the first packet a client sees of the new
\* encoder is marked as a key frame, and packets of an old encoder never come
\* behind those of a new one (consume_packet, codec_ctx_init).
NewEncoderStartsWithKey ==
  \A s \in Streams : \A k \in 1..Len(delivered[s]) :
    LET before == IF k = 1 THEN -1 ELSE delivered[s][k - 1].generation
    IN /\ before <= delivered[s][k].generation
       /\ before < delivered[s][k].generation => delivered[s][k].byte = 0

\* Frame i is in the encoder with at least Delay frames behind it.
Followed(s, i) == \E k \in 1..Len(encoder[s]) - Delay : encoder[s][k].frame = i

\* A frame an encoder has taken, and Delay frames after it, is streamed unless
\* its encoder is reopened or the program ends: the sleeping receiver always
\* comes back for it.  With a tune other than zerolatency the last frames before
\* a pause stay in the encoder.
AcceptedIsStreamed ==
  \A s \in Streams : \A i \in 0..MaxFrames - Delay - 1 :
    Followed(s, i)
      ~> \/ \E k \in 1..Len(delivered[s]) : delivered[s][k].frame = i
         \/ i \in lost[s]
         \/ shutdown_requested

\* An encoder error one receiver meets ends all three threads of the view
\* (receive_packet_thread sets shutdown_requested).
ErrorEndsAll == failed # {} ~> AllExited
=============================================================================
