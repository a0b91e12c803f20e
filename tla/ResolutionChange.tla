-------------------------- MODULE ResolutionChange --------------------------
(***************************************************************************)
(* Changing the resolution of a view while its frames are under way.       *)
(*                                                                         *)
(* Per view there are two AVCodecContextManagers, for the scene and for    *)
(* the depth stream, each with a CodecInitInfo and the encoder that was    *)
(* opened from it.  The thread of the CameraControlServer handles one      *)
(* camera message after the other: CameraManager compares the resolution   *)
(* with the stored camera, reopens both encoders and stores the camera.    *)
(* Meanwhile client threads copy the stored camera into requests and size  *)
(* the frames they receive by the CodecInitInfo, and the send_frame_thread *)
(* of each view feeds those frames to the encoders.                        *)
(*                                                                         *)
(* Steps.  change_resolution holds both mutexes of its manager, so nobody  *)
(* feeds the encoder meanwhile.  CodecInfoProvider copies the info before  *)
(* it takes the shared lock, and m_camera_left and m_camera_right have no  *)
(* lock at all: these are data races, so each field is read and written in *)
(* a step of its own.  Storing a camera is protobuf's assignment, which    *)
(* clears the message and then merges the new fields.                      *)
(*                                                                         *)
(* FramePipeline says in which order frames reach the sender; here they    *)
(* only wait in a line per view.                                           *)
(***************************************************************************)
EXTENDS Integers, Sequences, FiniteSets

CONSTANTS Clients,         \* the renderers, one client thread each
          Dims,            \* widths and heights a camera message may carry
          DefaultWidth,    \* --width and --height
          DefaultHeight,
          IntLimit,        \* 2^31: an int is below it, an unsigned below twice
          MaxDim,          \* largest width or height an encoder takes
          MaxPixels,       \* largest picture an encoder takes
          MaxMessages,     \* bound: camera messages
          MaxUnderWay      \* bound: frames requested and not yet encoded

ASSUME ResolutionAssumption ==
  /\ IsFiniteSet(Clients)
  /\ IntLimit \in Nat \ {0} /\ MaxPixels \in Nat
  /\ MaxDim \in Nat /\ MaxDim < IntLimit
  /\ Dims \subseteq 0..2 * IntLimit - 1
  /\ DefaultWidth \in 1..MaxDim /\ DefaultWidth % 2 = 0
  /\ DefaultHeight \in 1..MaxDim /\ DefaultHeight % 2 = 0
  /\ DefaultWidth * DefaultHeight <= MaxPixels
  /\ MaxMessages \in Nat
  /\ MaxUnderWay \in Nat \ {0}

VARIABLES
  crashed,        \* an exception left a handler thread: std::terminate
  camera,         \* resolution stored in m_camera_left, m_camera_right
  info,           \* CodecInitInfo of each codec
  encoder,        \* resolution each encoder was opened with
  locked,         \* codecs whose mutexes change_resolution holds
  messages,       \* m_message_count: camera messages received
  ws_pc,          \* where the thread of the CameraControlServer is
  ws_eye,         \* view of the message it handles
  ws_camera,      \* resolution of that message
  ws_stream,      \* the codec it is at: scene first, then depth
  client_pc,      \* where each client thread is
  client_eye,     \* view it requested
  client_stream,  \* converted frame it is sizing: scene first, then depth
  client_frame,   \* the RenderedFrame it builds
  requested,      \* resolution of its last FrameRequest
  ready,          \* frames on their way to the sender of each view
  send_pc,        \* where each send_frame_thread is
  send_frame,     \* the frame it holds
  fed             \* history: the last frame fed to an encoder

wsLocals == <<ws_eye, ws_camera, ws_stream>>
cameraVars == <<crashed, camera, info, encoder, locked, messages, ws_pc,
                ws_eye, ws_camera, ws_stream>>
clientVars == <<client_pc, client_eye, client_stream, requested>>
sendVars == <<send_pc, fed>>
vars == <<crashed, camera, info, encoder, locked, messages, ws_pc, ws_eye,
          ws_camera, ws_stream, client_pc, client_eye, client_stream, client_frame,
          requested, ready, send_pc, send_frame, fed>>

Eyes == {"left", "right"}
Streams == {"scene", "depth"}
Codecs == Streams \X Eyes

Sizes == {0, DefaultWidth, DefaultHeight} \cup Dims \cup {d - 1 : d \in Dims \ {0}}
Resolution == [w : Sizes, h : Sizes]
Default == [w |-> DefaultWidth, h |-> DefaultHeight]
Empty == [w |-> 0, h |-> 0]

\* The sizes of the two converted frames.  quiet is history: no camera message
\* was handled since the frame was built.
Frame == [scene : Resolution, depth : Resolution, quiet : BOOLEAN]
NoFrame == [scene |-> Default, depth |-> Default, quiet |-> TRUE]

Init ==
  /\ crashed = FALSE
  /\ camera = [e \in Eyes |-> Default]
  /\ info = [k \in Codecs |-> Default]
  /\ encoder = [k \in Codecs |-> Default]
  /\ locked = {}
  /\ messages = 0
  /\ ws_pc = "idle"
  /\ ws_eye = "left"
  /\ ws_camera = Default
  /\ ws_stream = "scene"
  /\ client_pc = [c \in Clients |-> "request"]
  /\ client_eye = [c \in Clients |-> "left"]
  /\ client_stream = [c \in Clients |-> "scene"]
  /\ client_frame = [c \in Clients |-> NoFrame]
  /\ requested = [c \in Clients |-> Default]
  /\ ready = [e \in Eyes |-> <<>>]
  /\ send_pc = [e \in Eyes |-> "get"]
  /\ send_frame = [e \in Eyes |-> NoFrame]
  /\ fed = [codec |-> <<"scene", "left">>, frame |-> Default,
            encoder |-> Default, quiet |-> TRUE]

-----------------------------------------------------------------------------
(* CameraControlServer::message_handler and CameraManager::set_camera_* *)

\* Mutant of Even: odd sizes are rounded up.
EvenUp(r) == [w |-> r.w + (r.w % 2), h |-> r.h + (r.h % 2)]

\* "Resolution must be divisible by 2."
Even(r) == [w |-> r.w - (r.w % 2), h |-> r.h - (r.h % 2)]

\* Mutant of SetCamera: the resolution is not rounded.
SetCameraOdd(e, r) ==
  /\ ws_eye' = e
  /\ ws_camera' = r
  /\ ws_stream' = "scene"
  /\ ws_pc' = IF camera[e] = r THEN "clear" ELSE "lock"

\* set_camera_left(r), set_camera_right(r) up to the first change_resolution.
SetCamera(e, r) ==
  /\ ws_eye' = e
  /\ ws_camera' = IF camera[e] = r THEN r ELSE Even(r)
  /\ ws_stream' = "scene"
  /\ ws_pc' = IF camera[e] = r THEN "clear" ELSE "lock"

Disturbed(f) == [f EXCEPT !.quiet = FALSE]

\* A camera message arrives and parses.
ReceiveCamera(e, r) ==
  /\ ~crashed
  /\ ws_pc = "idle"
  /\ messages < MaxMessages
  /\ messages' = messages + 1
  /\ SetCamera(e, r)
  /\ client_frame' = [c \in Clients |-> Disturbed(client_frame[c])]
  /\ ready' = [f \in Eyes |-> [i \in 1..Len(ready[f]) |-> Disturbed(ready[f][i])]]
  /\ send_frame' = [f \in Eyes |-> Disturbed(send_frame[f])]
  /\ UNCHANGED <<crashed, camera, info, encoder, locked, clientVars, sendVars>>

WsCodec == <<ws_stream, ws_eye>>

WsAt(from, to) == /\ ~crashed
                  /\ ws_pc = from
                  /\ ws_pc' = to
                  /\ UNCHANGED <<messages, clientVars, client_frame, ready,
                                 sendVars, send_frame>>

\* change_resolution: std::scoped_lock on both mutexes.
LockCodec == /\ WsAt("lock", "width")
             /\ locked' = locked \cup {WsCodec}
             /\ UNCHANGED <<crashed, camera, info, encoder, wsLocals>>

WriteWidth == /\ WsAt("width", "height")
              /\ info' = [info EXCEPT ![WsCodec].w = ws_camera.w]
              /\ UNCHANGED <<crashed, camera, encoder, locked, wsLocals>>

WriteHeight == /\ WsAt("height", "open")
               /\ info' = [info EXCEPT ![WsCodec].h = ws_camera.h]
               /\ UNCHANGED <<crashed, camera, encoder, locked, wsLocals>>

\* m_ctx->width = m_info.width: from unsigned to int.
ToInt(n) == IF n < IntLimit THEN n ELSE n - 2 * IntLimit

\* avcodec_open2 accepts the resolution: libavcodec limits the picture, libx264
\* each side, and with two chroma planes of half the size both are even.
Opens(r) ==
  LET w == ToInt(r.w)
      h == ToInt(r.h)
  IN /\ w \in 1..MaxDim /\ w % 2 = 0
     /\ h \in 1..MaxDim /\ h % 2 = 0
     /\ w * h <= MaxPixels

\* Mutant of OpenCodec: only the scene encoder is reopened.
OpenSceneOnly ==
  /\ Opens(info[WsCodec])
  /\ WsAt("open", "clear")
  /\ ws_stream' = ws_stream
  /\ encoder' = [encoder EXCEPT ![WsCodec] = info[WsCodec]]
  /\ locked' = locked \ {WsCodec}
  /\ UNCHANGED <<crashed, camera, info, ws_eye, ws_camera>>

\* Mutant of OpenCodec: codec_ctx_init returns if the codec is open.
OpenCodecOnce ==
  /\ Opens(info[WsCodec])
  /\ WsAt("open", IF ws_stream = "scene" THEN "lock" ELSE "clear")
  /\ ws_stream' = "depth"
  /\ locked' = locked \ {WsCodec}
  /\ UNCHANGED <<crashed, camera, info, encoder, ws_eye, ws_camera>>

\* codec_ctx_init and the end of change_resolution.  A size that opens is the
\* same as an int.
OpenCodec ==
  /\ Opens(info[WsCodec])
  /\ WsAt("open", IF ws_stream = "scene" THEN "lock" ELSE "clear")
  /\ ws_stream' = "depth"
  /\ encoder' = [encoder EXCEPT ![WsCodec] = info[WsCodec]]
  /\ locked' = locked \ {WsCodec}
  /\ UNCHANGED <<crashed, camera, info, ws_eye, ws_camera>>

\* codec_ctx_init throws; nothing on the thread of the server catches it.
OpenCodecFails ==
  /\ ~Opens(info[WsCodec])
  /\ WsAt("open", "idle")
  /\ crashed' = TRUE
  /\ UNCHANGED <<camera, info, encoder, locked, wsLocals>>

\* m_camera_left = camera, m_camera_right = camera.
ClearCamera == /\ WsAt("clear", "store_width")
               /\ camera' = [camera EXCEPT ![ws_eye] = Empty]
               /\ UNCHANGED <<crashed, info, encoder, locked, wsLocals>>

StoreWidth == /\ WsAt("store_width", "store_height")
              /\ camera' = [camera EXCEPT ![ws_eye].w = ws_camera.w]
              /\ UNCHANGED <<crashed, info, encoder, locked, wsLocals>>

StoreHeight == /\ WsAt("store_height", "idle")
               /\ camera' = [camera EXCEPT ![ws_eye].h = ws_camera.h]
               /\ ws_eye' = "left" /\ ws_camera' = Default /\ ws_stream' = "scene"
               /\ UNCHANGED <<crashed, info, encoder, locked>>

CameraControl ==
  \/ \E e \in Eyes, w, h \in Dims : ReceiveCamera(e, [w |-> w, h |-> h])
  \/ LockCodec \/ WriteWidth \/ WriteHeight \/ OpenCodec \/ OpenCodecFails
  \/ ClearCamera \/ StoreWidth \/ StoreHeight

-----------------------------------------------------------------------------
(* socket_client_thread: the request and the sizes of its answer *)

ClientAt(c, from, to) == /\ ~crashed
                         /\ client_pc[c] = from
                         /\ client_pc' = [client_pc EXCEPT ![c] = to]
                         /\ UNCHANGED <<cameraVars, sendVars, send_frame>>

UnderWay == Cardinality({c \in Clients : client_pc[c] # "request"})
            + Cardinality({e \in Eyes : send_pc[e] # "get"})
            + Len(ready["left"]) + Len(ready["right"])

\* req.mutable_camera()->CopyFrom(cameramgr->get_camera_*())
RequestFrame(c) ==
  /\ UnderWay < MaxUnderWay
  /\ ClientAt(c, "request", "width")
  /\ \E e \in Eyes :
       /\ client_eye' = [client_eye EXCEPT ![c] = e]
       /\ requested' = [requested EXCEPT ![c] = camera[e]]
  /\ client_stream' = [client_stream EXCEPT ![c] = "scene"]
  /\ UNCHANGED <<client_frame, ready>>

\* The client threads were given the codecs of the left view only.
SizingCodec(c) == <<client_stream[c], "left">>

\* CodecInfoProvider copies CodecInitInfo, field by field.
CopyWidth(c) ==
  LET s == client_stream[c] IN
  /\ ClientAt(c, "width", "height")
  /\ client_frame' = [client_frame EXCEPT
       ![c][s].w = info[SizingCodec(c)].w,
       ![c].quiet = IF s = "scene" THEN ws_pc = "idle" ELSE @]
  /\ UNCHANGED <<client_eye, client_stream, requested, ready>>

CopyHeight(c) ==
  /\ ClientAt(c, "height", "lock")
  /\ client_frame' = [client_frame EXCEPT
       ![c][client_stream[c]].h = info[SizingCodec(c)].h]
  /\ UNCHANGED <<client_eye, client_stream, requested, ready>>

\* Only now is the shared lock taken; FrameContext reads the copy.
LockSceneInfo(c) ==
  /\ SizingCodec(c) \notin locked
  /\ client_stream[c] = "scene"
  /\ ClientAt(c, "lock", "width")
  /\ client_stream' = [client_stream EXCEPT ![c] = "depth"]
  /\ UNCHANGED <<client_eye, client_frame, requested, ready>>

\* The same for the depth frame, which completes the RenderedFrame.
LockDepthInfo(c) ==
  LET e == client_eye[c] IN
  /\ SizingCodec(c) \notin locked
  /\ client_stream[c] = "depth"
  /\ ClientAt(c, "lock", "request")
  /\ ready' = [ready EXCEPT ![e] = Append(@, client_frame[c])]
  /\ client_frame' = [client_frame EXCEPT ![c] = NoFrame]
  /\ client_eye' = [client_eye EXCEPT ![c] = "left"]
  /\ requested' = [requested EXCEPT ![c] = Default]
  /\ UNCHANGED client_stream

Client(c) == \/ RequestFrame(c) \/ CopyWidth(c) \/ CopyHeight(c)
             \/ LockSceneInfo(c) \/ LockDepthInfo(c)

-----------------------------------------------------------------------------
(* send_frame_thread *)

TakeFrame(e) ==
  /\ ~crashed
  /\ send_pc[e] = "get"
  /\ ready[e] # <<>>
  /\ send_frame' = [send_frame EXCEPT ![e] = Head(ready[e])]
  /\ ready' = [ready EXCEPT ![e] = Tail(@)]
  /\ send_pc' = [send_pc EXCEPT ![e] = "scene"]
  /\ UNCHANGED <<cameraVars, clientVars, client_frame, fed>>

\* AVCodecContextManager::send_frame on the scene, then on the depth encoder.
FeedEncoder(e) ==
  LET s == send_pc[e]
      k == <<s, e>>
  IN /\ ~crashed
     /\ s \in Streams
     /\ k \notin locked
     /\ fed' = [codec   |-> k,
                frame   |-> send_frame[e][s],
                encoder |-> encoder[k],
                quiet   |-> send_frame[e].quiet]
     /\ send_pc' = [send_pc EXCEPT ![e] = IF s = "scene" THEN "depth" ELSE "get"]
     /\ send_frame' = [send_frame EXCEPT ![e] = IF s = "scene" THEN @ ELSE NoFrame]
     /\ UNCHANGED <<cameraVars, clientVars, client_frame, ready>>

Send(e) == TakeFrame(e) \/ FeedEncoder(e)

-----------------------------------------------------------------------------
Terminated == crashed /\ UNCHANGED vars

Next == \/ CameraControl
        \/ \E c \in Clients : Client(c)
        \/ \E e \in Eyes : Send(e)
        \/ Terminated

Spec == Init /\ [][Next]_vars

-----------------------------------------------------------------------------
(* Properties *)

\* Types; every size is one a message carried, or that rounded down.
TypeOK ==
  /\ crashed \in BOOLEAN
  /\ camera \in [Eyes -> Resolution]
  /\ info \in [Codecs -> Resolution]
  /\ encoder \in [Codecs -> Resolution]
  /\ locked \subseteq Codecs
  /\ messages \in 0..MaxMessages
  /\ ws_pc \in {"idle", "lock", "width", "height", "open", "clear",
                "store_width", "store_height"}
  /\ ws_eye \in Eyes
  /\ ws_camera \in Resolution
  /\ ws_stream \in Streams
  /\ client_pc \in [Clients -> {"request", "width", "height", "lock"}]
  /\ client_eye \in [Clients -> Eyes]
  /\ client_stream \in [Clients -> Streams]
  /\ client_frame \in [Clients -> Frame]
  /\ requested \in [Clients -> Resolution]
  /\ ready \in [Eyes -> Seq(Frame)]
  /\ send_pc \in [Eyes -> {"get"} \cup Streams]
  /\ send_frame \in [Eyes -> Frame]
  /\ fed \in [codec : Codecs, frame : Resolution, encoder : Resolution,
              quiet : BOOLEAN]

\* Between two camera messages the five copies of a view's resolution are the
\* same: the stored camera, the CodecInitInfo of its scene and its depth
\* encoder, and what both encoders were opened with (set_camera_left,
\* set_camera_right, change_resolution).
ViewIsConsistent ==
  ws_pc = "idle" /\ ~crashed =>
    \A e \in Eyes : \A s \in Streams :
      info[<<s, e>>] = camera[e] /\ encoder[<<s, e>>] = camera[e]

\* No encoder is opened with this resolution: nothing of it was left after the
\* rounding, or it is too large.
Unusable(r) == \/ r.w = 0 \/ r.h = 0
               \/ r.w > MaxDim \/ r.h > MaxDim \/ r.w * r.h > MaxPixels

\* A camera message ends the program only by a resolution that is too large or
\* empty after rounding: an odd size does not, and no unsigned size is taken
\* for another one as an int (set_camera_*, codec_ctx_init).
OnlyUnusableCrashes == crashed => Unusable(ws_camera)

\* The last frame fed to an encoder of view e had the resolution of the encoder.
Fits(e) == fed.codec \in Streams \X {e} => fed.frame = fed.encoder

\* A frame of the left view during whose way from RenderedFrame to the encoder
\* no camera message is handled has the resolution both encoders expect,
\* whatever messages came before.
LeftQuietFramesFit == fed.quiet => Fits("left")

\* type_managers.h 99-104: with the shared lock a reader does not "feed the
\* encoder with incorrectly configured data".  Stated of the left view.
LeftFramesFit == Fits("left")

\* The same of the right view, between camera messages: "This information is
\* used to provide current configuration state of the encoder to the program"
\* (type_managers.h 71-73).
RightQuietFramesFit == fed.quiet => Fits("right")

\* camera_manager.h 11-13: CameraManager "accepts a user position converted to
\* a camera matrix, stores it internally, and provides it when a FrameRequest
\* is generated".
RequestHasStoredCamera ==
  \A c \in Clients : requested[c].w > 0 /\ requested[c].h > 0
=============================================================================
