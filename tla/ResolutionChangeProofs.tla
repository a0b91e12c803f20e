------------------------ MODULE ResolutionChangeProofs ------------------------
(***************************************************************************)
(* What is proved of ResolutionChange for any number of renderers, any     *)
(* sizes in the camera messages and any number of messages and of frames   *)
(* under way.                                                              *)
(***************************************************************************)
EXTENDS ResolutionChange, TLAPS

-----------------------------------------------------------------------------
(* The inductive invariant *)

\* The codec of stream s of view e has been given resolution r.
Reopened(s, e, r) == info[<<s, e>>] = r /\ encoder[<<s, e>>] = r

\* The five copies of the resolution of a view.
Agrees(e) == \A s \in Streams : Reopened(s, e, camera[e])

\* How far set_camera_left or set_camera_right is with the view of its message;
\* the other view keeps its resolution.
HandlerProgress ==
  ~crashed =>
    /\ \A e \in Eyes : ws_pc = "idle" \/ e # ws_eye => Agrees(e)
    /\ ws_pc \in {"lock", "width", "height", "open"} =>
         /\ ws_camera.w % 2 = 0 /\ ws_camera.h % 2 = 0
         /\ ws_stream = "depth" => Reopened("scene", ws_eye, ws_camera)
    /\ ws_pc \in {"height", "open"} => info[WsCodec].w = ws_camera.w
    /\ ws_pc = "open" => info[WsCodec].h = ws_camera.h
    /\ ws_pc \in {"clear", "store_width", "store_height"} =>
         \A s \in Streams : Reopened(s, ws_eye, ws_camera)
    /\ ws_pc = "store_height" => camera[ws_eye].w = ws_camera.w

\* A frame that is quiet was sized by the camera of the left view, and no camera
\* message is being handled.
QuietFits(f) ==
  f.quiet => /\ ws_pc = "idle"
             /\ f.scene = camera["left"] /\ f.depth = camera["left"]

\* The same of the frame a client thread is sizing, as far as it has got.
ClientProgress ==
  \A c \in Clients :
    client_pc[c] # "request" /\ client_frame[c].quiet =>
      /\ client_stream[c] = "depth" \/ client_pc[c] # "width" =>
           /\ ws_pc = "idle"
           /\ client_frame[c].scene.w = camera["left"].w
      /\ client_stream[c] = "depth" \/ client_pc[c] = "lock" =>
           client_frame[c].scene.h = camera["left"].h
      /\ client_stream[c] = "depth" /\ client_pc[c] # "width" =>
           client_frame[c].depth.w = camera["left"].w
      /\ client_stream[c] = "depth" /\ client_pc[c] = "lock" =>
           client_frame[c].depth.h = camera["left"].h

QueuedProgress ==
  \A e \in Eyes : /\ \A i \in 1..Len(ready[e]) : QuietFits(ready[e][i])
                  /\ send_pc[e] # "get" => QuietFits(send_frame[e])

ResolutionInv == /\ TypeOK /\ HandlerProgress /\ ClientProgress /\ QueuedProgress
                 /\ OnlyUnusableCrashes /\ LeftQuietFramesFit

-----------------------------------------------------------------------------
(* Sizes and frames *)

\* Rounding down to an even number.
LEMMA EvenNumber ==
  ASSUME NEW d \in Nat
  PROVE  /\ d % 2 \in {0, 1}
         /\ (d - (d % 2)) % 2 = 0
         /\ d - (d % 2) = d \/ (d # 0 /\ d - (d % 2) = d - 1)
OBVIOUS

\* Every size is a natural number, among them those of the default.
LEMMA SizesAreNat ==
  /\ Sizes \subseteq Nat /\ 0 \in Sizes /\ Dims \subseteq Sizes
  /\ DefaultWidth \in Sizes /\ DefaultHeight \in Sizes
  /\ \A d \in Dims : d - (d % 2) \in Sizes
<1>1. Sizes \subseteq Nat
  <2>1. \A d \in Dims \ {0} : d - 1 \in Nat
    BY ResolutionAssumption
  <2>2. \A x \in {d - 1 : d \in Dims \ {0}} : x \in Nat
    BY <2>1
  <2>3. {0, DefaultWidth, DefaultHeight} \cup Dims \subseteq Nat
    BY ResolutionAssumption
  <2>4. QED
    BY <2>2, <2>3 DEF Sizes
<1>2. ASSUME NEW d \in Dims PROVE d - (d % 2) \in Sizes
  <2>1. d \in Nat
    BY ResolutionAssumption
  <2>2. QED
    BY <2>1, EvenNumber DEF Sizes
<1>3. QED
  BY <1>1, <1>2 DEF Sizes

\* The fixed resolutions are resolutions, and what Even makes of a message's.
LEMMA Resolutions ==
  /\ Default \in Resolution /\ Empty \in Resolution
  /\ \A w, h \in Dims : /\ [w |-> w, h |-> h] \in Resolution
                       /\ Even([w |-> w, h |-> h]) \in Resolution
BY SizesAreNat DEF Default, Empty, Resolution, Even

\* A resolution is its width and its height.
LEMMA ResolutionFields ==
  ASSUME NEW r \in Resolution, NEW q \in Resolution
  PROVE  /\ r.w \in Sizes /\ r.h \in Sizes
         /\ \A x \in Sizes : [r EXCEPT !.w = x] \in Resolution
         /\ \A x \in Sizes : [r EXCEPT !.h = x] \in Resolution
         /\ r.w = q.w /\ r.h = q.h => r = q
BY DEF Resolution

\* A disturbed frame has its sizes.
LEMMA DisturbedFrame ==
  ASSUME NEW f \in Frame
  PROVE  Disturbed(f) \in Frame /\ ~Disturbed(f).quiet
BY DEF Frame, Disturbed

\* A client thread copies the width of a codec into its frame.
LEMMA CopiedWidth ==
  ASSUME TypeOK, NEW c \in Clients, CopyWidth(c), NEW x, x = info[SizingCodec(c)].w
  PROVE  /\ client_frame' \in [Clients -> Frame]
         /\ \A d \in Clients : d # c => client_frame'[d] = client_frame[d]
         /\ client_stream[c] = "scene" =>
              /\ client_frame'[c].quiet = (ws_pc = "idle")
              /\ client_frame'[c].scene.w = x
         /\ client_stream[c] = "depth" =>
              /\ client_frame'[c].quiet = client_frame[c].quiet
              /\ client_frame'[c].scene = client_frame[c].scene
              /\ client_frame'[c].depth.w = x
<1> DEFINE s == client_stream[c]
<1>1. /\ client_frame[c] \in Frame /\ s \in Streams
      /\ info[SizingCodec(c)] \in Resolution
  BY DEF TypeOK, SizingCodec, Codecs, Eyes
<1>2. x \in Sizes
  BY <1>1, ResolutionFields
<1>3. PICK q \in BOOLEAN :
             q = IF s = "scene" THEN ws_pc = "idle" ELSE client_frame[c].quiet
  BY <1>1 DEF Frame
<1>4. PICK g : g = [client_frame[c] EXCEPT ![s].w = x, !.quiet = q]
  OBVIOUS
<1>5. client_frame' = [client_frame EXCEPT ![c] = g]
  BY <1>3, <1>4 DEF CopyWidth
<1>6. g \in Frame
  BY <1>1, <1>2, <1>4 DEF Frame, Streams, Resolution
<1>7. /\ s = "scene" => g.quiet = q /\ g.scene.w = x
      /\ s = "depth" => g.quiet = q /\ g.scene = client_frame[c].scene /\ g.depth.w = x
  BY <1>1, <1>2, <1>4 DEF Frame, Streams, Resolution
<1>8. client_frame'[c] = g /\ \A d \in Clients : d # c => client_frame'[d] = client_frame[d]
  BY <1>5 DEF TypeOK
<1>9. client_frame' \in [Clients -> Frame]
  BY <1>5, <1>6 DEF TypeOK
<1>10. QED
  BY <1>3, <1>7, <1>8, <1>9

\* A client thread copies the height of a codec into its frame.
LEMMA CopiedHeight ==
  ASSUME TypeOK, NEW c \in Clients, CopyHeight(c), NEW x, x = info[SizingCodec(c)].h
  PROVE  /\ client_frame' \in [Clients -> Frame]
         /\ \A d \in Clients : d # c => client_frame'[d] = client_frame[d]
         /\ client_frame'[c].quiet = client_frame[c].quiet
         /\ client_stream[c] = "scene" =>
              /\ client_frame'[c].scene.w = client_frame[c].scene.w
              /\ client_frame'[c].scene.h = x
         /\ client_stream[c] = "depth" =>
              /\ client_frame'[c].scene = client_frame[c].scene
              /\ client_frame'[c].depth.w = client_frame[c].depth.w
              /\ client_frame'[c].depth.h = x
<1> DEFINE s == client_stream[c]
<1>1. /\ client_frame[c] \in Frame /\ s \in Streams
      /\ info[SizingCodec(c)] \in Resolution
  BY DEF TypeOK, SizingCodec, Codecs, Eyes
<1>2. x \in Sizes
  BY <1>1, ResolutionFields
<1>3. PICK g : g = [client_frame[c] EXCEPT ![s].h = x]
  OBVIOUS
<1>4. client_frame' = [client_frame EXCEPT ![c] = g]
  BY <1>3 DEF CopyHeight
<1>5. g \in Frame
  BY <1>1, <1>2, <1>3 DEF Frame, Streams, Resolution
<1>6. /\ g.quiet = client_frame[c].quiet
      /\ s = "scene" => g.scene.w = client_frame[c].scene.w /\ g.scene.h = x
      /\ s = "depth" => /\ g.scene = client_frame[c].scene
                        /\ g.depth.w = client_frame[c].depth.w /\ g.depth.h = x
  BY <1>1, <1>2, <1>3 DEF Frame, Streams, Resolution
<1>7. client_frame'[c] = g /\ \A d \in Clients : d # c => client_frame'[d] = client_frame[d]
  BY <1>4 DEF TypeOK
<1>8. client_frame' \in [Clients -> Frame]
  BY <1>4, <1>5 DEF TypeOK
<1>9. QED
  BY <1>6, <1>7, <1>8

-----------------------------------------------------------------------------
(* Type correctness *)

\* The views begin with the default resolution.
LEMMA InitTypeOK == Init => TypeOK
<1> SUFFICES ASSUME Init PROVE TypeOK
  OBVIOUS
<1>1. NoFrame \in Frame
  BY Resolutions DEF NoFrame, Frame
<1>2. /\ camera \in [Eyes -> Resolution] /\ info \in [Codecs -> Resolution]
      /\ encoder \in [Codecs -> Resolution] /\ ws_camera \in Resolution
      /\ requested \in [Clients -> Resolution]
  BY Resolutions DEF Init
<1>3. /\ client_frame \in [Clients -> Frame] /\ send_frame \in [Eyes -> Frame]
      /\ ready \in [Eyes -> Seq(Frame)]
  BY <1>1 DEF Init
<1>4. /\ crashed \in BOOLEAN /\ locked \subseteq Codecs
      /\ ws_pc = "idle" /\ ws_eye \in Eyes /\ ws_stream \in Streams
  BY DEF Init, Eyes, Streams
<1>5. /\ client_pc \in [Clients -> {"request", "width", "height", "lock"}]
      /\ client_eye \in [Clients -> Eyes] /\ client_stream \in [Clients -> Streams]
      /\ send_pc \in [Eyes -> {"get"} \cup Streams]
  BY DEF Init, Eyes, Streams
<1>6. fed \in [codec : Codecs, frame : Resolution, encoder : Resolution,
              quiet : BOOLEAN]
  BY Resolutions DEF Init, Codecs, Eyes, Streams
<1>7. messages \in 0..MaxMessages
  BY ResolutionAssumption DEF Init
<1>8. QED
  BY <1>2, <1>3, <1>4, <1>5, <1>6, <1>7 DEF TypeOK

\* A camera message disturbs the frames under way and keeps their number.
LEMMA ReceiveCameraTypeOK ==
  ASSUME TypeOK, NEW e \in Eyes, NEW w \in Dims, NEW h \in Dims,
         ReceiveCamera(e, [w |-> w, h |-> h])
  PROVE  TypeOK'
<1> DEFINE r == [w |-> w, h |-> h]
<1>1. /\ client_frame' \in [Clients -> Frame] /\ send_frame' \in [Eyes -> Frame]
  BY DisturbedFrame DEF ReceiveCamera, TypeOK
<1>2. ready' \in [Eyes -> Seq(Frame)]
  <2>1. ASSUME NEW f \in Eyes
        PROVE  [i \in 1..Len(ready[f]) |-> Disturbed(ready[f][i])] \in Seq(Frame)
    <3>1. ready[f] \in Seq(Frame)
      BY DEF TypeOK
    <3>2. \A i \in 1..Len(ready[f]) : Disturbed(ready[f][i]) \in Frame
      BY <3>1, DisturbedFrame
    <3>3. Len(ready[f]) \in Nat
      BY <3>1
    <3>4. QED
      BY <3>2, <3>3
  <2>2. QED
    BY <2>1 DEF ReceiveCamera
<1>3. r \in Resolution /\ Even(r) \in Resolution
  BY Resolutions
<1>4. ws_camera' \in Resolution
  BY <1>3 DEF ReceiveCamera, SetCamera
<1>5. /\ ws_eye' \in Eyes /\ ws_stream' \in Streams /\ ws_pc' \in {"clear", "lock"}
      /\ messages' \in 0..MaxMessages
  BY ResolutionAssumption DEF ReceiveCamera, SetCamera, Streams, TypeOK
<1>6. UNCHANGED <<crashed, camera, info, encoder, locked, client_pc, client_eye,
                  client_stream, requested, send_pc, fed>>
  BY DEF ReceiveCamera, clientVars, sendVars
<1>7. QED
  BY <1>1, <1>2, <1>4, <1>5, <1>6 DEF TypeOK

\* change_resolution and the assignment of the camera set one field at a time.
LEMMA CameraControlTypeOK ==
  ASSUME TypeOK, CameraControl
  PROVE  TypeOK'
<1>1. WsCodec \in Codecs /\ ws_camera.w \in Sizes /\ ws_camera.h \in Sizes
  BY ResolutionFields DEF TypeOK, WsCodec, Codecs
<1> USE DEF TypeOK, WsAt, wsLocals, clientVars, sendVars
<1>2. CASE LockCodec
  BY <1>1, <1>2 DEF LockCodec
<1>3. CASE WriteWidth
  <2>1. info' \in [Codecs -> Resolution]
    BY <1>1, <1>3, ResolutionFields DEF WriteWidth
  <2>2. QED
    BY <1>3, <2>1 DEF WriteWidth
<1>4. CASE WriteHeight
  <2>1. info' \in [Codecs -> Resolution]
    BY <1>1, <1>4, ResolutionFields DEF WriteHeight
  <2>2. QED
    BY <1>4, <2>1 DEF WriteHeight
<1>5. CASE OpenCodec
  BY <1>1, <1>5 DEF OpenCodec, Streams
<1>6. CASE OpenCodecFails
  BY <1>6 DEF OpenCodecFails
<1>7. CASE ClearCamera
  BY <1>7, Resolutions DEF ClearCamera
<1>8. CASE StoreWidth
  <2>1. camera' \in [Eyes -> Resolution]
    BY <1>1, <1>8, ResolutionFields DEF StoreWidth
  <2>2. QED
    BY <1>8, <2>1 DEF StoreWidth
<1>9. CASE StoreHeight
  <2>1. camera' \in [Eyes -> Resolution]
    BY <1>1, <1>9, ResolutionFields DEF StoreHeight
  <2>2. QED
    BY <1>9, <2>1, Resolutions DEF StoreHeight, Eyes, Streams
<1>10. QED
  BY <1>2, <1>3, <1>4, <1>5, <1>6, <1>7, <1>8, <1>9, ReceiveCameraTypeOK
  DEF CameraControl

\* A client thread fills in the sizes of its frame.
LEMMA ClientTypeOK ==
  ASSUME TypeOK, NEW c \in Clients, Client(c)
  PROVE  TypeOK'
<1>1. /\ client_frame[c] \in Frame /\ client_stream[c] \in Streams
      /\ SizingCodec(c) \in Codecs /\ client_eye[c] \in Eyes
  BY DEF TypeOK, SizingCodec, Codecs, Eyes
<1>2. info[SizingCodec(c)].w \in Sizes /\ info[SizingCodec(c)].h \in Sizes
  BY <1>1, ResolutionFields DEF TypeOK
<1> USE DEF TypeOK, ClientAt, cameraVars, sendVars
<1>3. CASE RequestFrame(c)
  BY <1>3 DEF RequestFrame, Streams
<1>4. CASE CopyWidth(c)
  BY <1>4, CopiedWidth DEF CopyWidth
<1>5. CASE CopyHeight(c)
  BY <1>5, CopiedHeight DEF CopyHeight
<1>6. CASE LockSceneInfo(c)
  BY <1>6 DEF LockSceneInfo, Streams
<1>7. CASE LockDepthInfo(c)
  <2>1. ready' \in [Eyes -> Seq(Frame)]
    BY <1>1, <1>7 DEF LockDepthInfo
  <2>2. NoFrame \in Frame
    BY Resolutions DEF NoFrame, Frame
  <2>3. client_frame' \in [Clients -> Frame]
    BY <1>7, <2>2 DEF LockDepthInfo
  <2>4. requested' \in [Clients -> Resolution] /\ client_eye' \in [Clients -> Eyes]
    BY <1>7, Resolutions DEF LockDepthInfo, Eyes
  <2>5. QED
    BY <1>7, <2>1, <2>3, <2>4 DEF LockDepthInfo
<1>8. QED
  BY <1>3, <1>4, <1>5, <1>6, <1>7 DEF Client

\* A send thread takes the frames out of its line and feeds them.
LEMMA SendTypeOK ==
  ASSUME TypeOK, NEW e \in Eyes, Send(e)
  PROVE  TypeOK'
<1> USE DEF TypeOK, cameraVars, clientVars
<1>1. CASE TakeFrame(e)
  <2>1. ready[e] \in Seq(Frame) /\ ready[e] # <<>>
    BY <1>1 DEF TakeFrame
  <2>2. Head(ready[e]) \in Frame /\ Tail(ready[e]) \in Seq(Frame)
    BY <2>1
  <2>3. QED
    BY <1>1, <2>2 DEF TakeFrame, Streams
<1>2. CASE FeedEncoder(e)
  <2> DEFINE s == send_pc[e]
  <2>1. s \in Streams /\ <<s, e>> \in Codecs /\ send_frame[e] \in Frame
    BY <1>2 DEF FeedEncoder, Codecs
  <2>2. /\ send_frame[e][s] \in Resolution /\ send_frame[e].quiet \in BOOLEAN
        /\ encoder[<<s, e>>] \in Resolution
    BY <2>1 DEF Frame, Streams
  <2>3. fed' \in [codec : Codecs, frame : Resolution, encoder : Resolution,
                 quiet : BOOLEAN]
    BY <1>2, <2>1, <2>2 DEF FeedEncoder
  <2>4. NoFrame \in Frame
    BY Resolutions DEF NoFrame, Frame
  <2>5. send_frame' \in [Eyes -> Frame] /\ send_pc' \in [Eyes -> {"get"} \cup Streams]
    BY <1>2, <2>1, <2>4 DEF FeedEncoder, Streams
  <2>6. QED
    BY <1>2, <2>3, <2>5 DEF FeedEncoder
<1>3. QED
  BY <1>1, <1>2 DEF Send

\* Every step keeps the types.
LEMMA NextTypeOK ==
  ASSUME TypeOK, [Next]_vars
  PROVE  TypeOK'
<1>1. CASE UNCHANGED vars
  BY <1>1 DEF vars, TypeOK
<1>2. QED
  BY <1>1, CameraControlTypeOK, ClientTypeOK, SendTypeOK DEF Next, Terminated

\* Every width and height anywhere in a view is a default, one that a message
\* carried, or that rounded down; the torn reads and writes of the cameras and
\* of CodecInitInfo make no other.
THEOREM TypeCorrect == Spec => []TypeOK
<1>1. TypeOK /\ [Next]_vars => TypeOK'
  BY NextTypeOK
<1>2. QED
  BY InitTypeOK, <1>1, PTL DEF Spec

-----------------------------------------------------------------------------
(* The thread of the CameraControlServer *)

\* The codec of the message is one of the codecs, told apart from the others by
\* its stream and its view.
LEMMA WsCodecIsCodec ==
  ASSUME TypeOK
  PROVE  /\ WsCodec \in Codecs
         /\ \A s \in Streams, e \in Eyes :
              /\ <<s, e>> \in Codecs
              /\ <<s, e>> = WsCodec <=> s = ws_stream /\ e = ws_eye
BY DEF TypeOK, WsCodec, Codecs

\* While a message is handled no frame under way is quiet, so it may change
\* resolutions.
LEMMA HandlerKeepsFrames ==
  ASSUME ResolutionInv, ws_pc # "idle",
         UNCHANGED <<clientVars, client_frame, ready, sendVars, send_frame>>
  PROVE  ClientProgress' /\ QueuedProgress' /\ LeftQuietFramesFit'
<1> USE DEF ResolutionInv, clientVars, sendVars
<1>1. ClientProgress'
  BY DEF ClientProgress
<1>2. QueuedProgress'
  BY DEF QueuedProgress, QuietFits
<1>3. LeftQuietFramesFit'
  BY DEF LeftQuietFramesFit, Fits
<1>4. QED
  BY <1>1, <1>2, <1>3

\* A message that changes the resolution is rounded; one that does not is only
\* stored.  It disturbs every frame under way.
LEMMA ReceiveCameraKeeps ==
  ASSUME ResolutionInv, TypeOK', NEW e \in Eyes, NEW w \in Dims, NEW h \in Dims,
         ReceiveCamera(e, [w |-> w, h |-> h])
  PROVE  ResolutionInv'
<1> USE DEF ResolutionInv
<1> DEFINE r == [w |-> w, h |-> h]
<1>1. /\ ~crashed /\ ws_pc = "idle" /\ ws_eye' = e /\ ws_stream' = "scene"
      /\ UNCHANGED <<crashed, camera, info, encoder, client_pc, client_stream,
                     send_pc, fed>>
  BY DEF ReceiveCamera, SetCamera, clientVars, sendVars
<1>2. \A x \in Eyes : Agrees(x)
  BY <1>1 DEF HandlerProgress
<1>3. HandlerProgress'
  <2>1. CASE camera[e] = r
    <3>1. ws_pc' = "clear" /\ ws_camera' = r
      BY <2>1 DEF ReceiveCamera, SetCamera
    <3>2. QED
      BY <1>1, <1>2, <2>1, <3>1 DEF HandlerProgress, Agrees, Reopened
  <2>2. CASE camera[e] # r
    <3>1. ws_pc' = "lock" /\ ws_camera' = Even(r)
      BY <2>2 DEF ReceiveCamera, SetCamera
    <3>2. w \in Nat /\ h \in Nat
      BY ResolutionAssumption
    <3>3. ws_camera'.w % 2 = 0 /\ ws_camera'.h % 2 = 0
      BY <3>1, <3>2, EvenNumber DEF Even
    <3>4. QED
      BY <1>1, <1>2, <3>1, <3>3 DEF HandlerProgress, Agrees, Reopened
  <2>3. QED
    BY <2>1, <2>2
<1>4. ClientProgress'
  <2>1. \A c \in Clients : ~client_frame'[c].quiet
    BY DisturbedFrame DEF ReceiveCamera, TypeOK
  <2>2. QED
    BY <2>1 DEF ClientProgress
<1>5. QueuedProgress'
  <2>1. \A x \in Eyes : ~send_frame'[x].quiet
    BY DisturbedFrame DEF ReceiveCamera, TypeOK
  <2>2. ASSUME NEW x \in Eyes, NEW i \in 1..Len(ready'[x])
        PROVE  ~ready'[x][i].quiet
    <3>1. ready[x] \in Seq(Frame)
      BY DEF TypeOK
    <3>2. ready'[x] = [j \in 1..Len(ready[x]) |-> Disturbed(ready[x][j])]
      BY DEF ReceiveCamera
    <3>3. Len(ready'[x]) = Len(ready[x])
      BY <3>1, <3>2
    <3>4. i \in 1..Len(ready[x]) /\ ready[x][i] \in Frame
      BY <2>2, <3>1, <3>3
    <3>5. QED
      BY <3>2, <3>4, DisturbedFrame
  <2>3. QED
    BY <2>1, <2>2 DEF QueuedProgress, QuietFits
<1>6. OnlyUnusableCrashes' /\ LeftQuietFramesFit'
  BY <1>1 DEF OnlyUnusableCrashes, LeftQuietFramesFit, Fits
<1>7. QED
  BY <1>3, <1>4, <1>5, <1>6

\* change_resolution takes its locks.
LEMMA LockCodecKeeps ==
  ASSUME ResolutionInv, TypeOK', LockCodec
  PROVE  ResolutionInv'
<1> USE DEF ResolutionInv, LockCodec, WsAt, wsLocals
<1>1. HandlerProgress'
  BY DEF HandlerProgress, Agrees, Reopened, WsCodec
<1>2. OnlyUnusableCrashes'
  BY DEF OnlyUnusableCrashes
<1>3. QED
  BY <1>1, <1>2, HandlerKeepsFrames

\* change_resolution writes the width; the other codecs keep theirs.
LEMMA WriteWidthKeeps ==
  ASSUME ResolutionInv, TypeOK', WriteWidth
  PROVE  ResolutionInv'
<1> USE DEF ResolutionInv
<1>1. /\ ~crashed /\ ws_pc = "width" /\ ws_pc' = "height"
      /\ UNCHANGED <<crashed, camera, encoder, ws_eye, ws_camera, ws_stream>>
  BY DEF WriteWidth, WsAt, wsLocals
<1>2. /\ info'[WsCodec].w = ws_camera.w
      /\ \A k \in Codecs : k # WsCodec => info'[k] = info[k]
  BY WsCodecIsCodec DEF WriteWidth, TypeOK, Resolution
<1>3. /\ \A e \in Eyes : e # ws_eye => Agrees(e)
      /\ ws_camera.w % 2 = 0 /\ ws_camera.h % 2 = 0
      /\ ws_stream = "depth" => Reopened("scene", ws_eye, ws_camera)
  BY <1>1 DEF HandlerProgress
<1>4. \A e \in Eyes : e # ws_eye => Agrees(e)'
  BY <1>1, <1>2, <1>3, WsCodecIsCodec DEF Agrees, Reopened
<1>5. ws_stream = "depth" => Reopened("scene", ws_eye, ws_camera)'
  BY <1>1, <1>2, <1>3, WsCodecIsCodec DEF Reopened, Streams, TypeOK
<1>6. HandlerProgress'
  BY <1>1, <1>2, <1>3, <1>4, <1>5 DEF HandlerProgress, WsCodec
<1>7. OnlyUnusableCrashes'
  BY <1>1 DEF OnlyUnusableCrashes
<1>8. QED
  BY <1>6, <1>7, HandlerKeepsFrames DEF WriteWidth, WsAt

\* Then the height.
LEMMA WriteHeightKeeps ==
  ASSUME ResolutionInv, TypeOK', WriteHeight
  PROVE  ResolutionInv'
<1> USE DEF ResolutionInv
<1>1. /\ ~crashed /\ ws_pc = "height" /\ ws_pc' = "open"
      /\ UNCHANGED <<crashed, camera, encoder, ws_eye, ws_camera, ws_stream>>
  BY DEF WriteHeight, WsAt, wsLocals
<1>2. /\ info'[WsCodec].h = ws_camera.h /\ info'[WsCodec].w = info[WsCodec].w
      /\ \A k \in Codecs : k # WsCodec => info'[k] = info[k]
  BY WsCodecIsCodec DEF WriteHeight, TypeOK, Resolution
<1>3. /\ \A e \in Eyes : e # ws_eye => Agrees(e)
      /\ ws_camera.w % 2 = 0 /\ ws_camera.h % 2 = 0
      /\ info[WsCodec].w = ws_camera.w
      /\ ws_stream = "depth" => Reopened("scene", ws_eye, ws_camera)
  BY <1>1 DEF HandlerProgress
<1>4. \A e \in Eyes : e # ws_eye => Agrees(e)'
  BY <1>1, <1>2, <1>3, WsCodecIsCodec DEF Agrees, Reopened
<1>5. ws_stream = "depth" => Reopened("scene", ws_eye, ws_camera)'
  BY <1>1, <1>2, <1>3, WsCodecIsCodec DEF Reopened, Streams, TypeOK
<1>6. HandlerProgress'
  BY <1>1, <1>2, <1>3, <1>4, <1>5 DEF HandlerProgress, WsCodec
<1>7. OnlyUnusableCrashes'
  BY <1>1 DEF OnlyUnusableCrashes
<1>8. QED
  BY <1>6, <1>7, HandlerKeepsFrames DEF WriteHeight, WsAt

\* The encoder is reopened with what was written; after the scene comes the
\* depth, and then both have the resolution of the message.
LEMMA OpenCodecKeeps ==
  ASSUME ResolutionInv, TypeOK', OpenCodec
  PROVE  ResolutionInv'
<1> USE DEF ResolutionInv
<1>1. /\ ~crashed /\ ws_pc = "open" /\ ws_stream' = "depth"
      /\ ws_pc' = IF ws_stream = "scene" THEN "lock" ELSE "clear"
      /\ UNCHANGED <<crashed, camera, info, ws_eye, ws_camera>>
  BY DEF OpenCodec, WsAt
<1>2. /\ encoder'[WsCodec] = info[WsCodec]
      /\ \A k \in Codecs : k # WsCodec => encoder'[k] = encoder[k]
  BY WsCodecIsCodec DEF OpenCodec, TypeOK
<1>3. /\ \A e \in Eyes : e # ws_eye => Agrees(e)
      /\ ws_camera.w % 2 = 0 /\ ws_camera.h % 2 = 0
      /\ info[WsCodec].w = ws_camera.w /\ info[WsCodec].h = ws_camera.h
      /\ ws_stream = "depth" => Reopened("scene", ws_eye, ws_camera)
  BY <1>1 DEF HandlerProgress
<1>4. info[WsCodec] = ws_camera
  BY <1>3, WsCodecIsCodec, ResolutionFields DEF TypeOK
<1>5. \A e \in Eyes : e # ws_eye => Agrees(e)'
  BY <1>1, <1>2, <1>3, WsCodecIsCodec DEF Agrees, Reopened
<1>6. CASE ws_stream = "scene"
  <2>1. Reopened("scene", ws_eye, ws_camera)'
    BY <1>1, <1>2, <1>4, <1>6 DEF Reopened, WsCodec
  <2>2. HandlerProgress'
    BY <1>1, <1>3, <1>5, <1>6, <2>1 DEF HandlerProgress
  <2>3. QED
    BY <1>1, <2>2, HandlerKeepsFrames DEF OpenCodec, WsAt, OnlyUnusableCrashes
<1>7. CASE ws_stream = "depth"
  <2>1. Reopened("depth", ws_eye, ws_camera)'
    BY <1>1, <1>2, <1>4, <1>7 DEF Reopened, WsCodec
  <2>2. Reopened("scene", ws_eye, ws_camera)'
    BY <1>1, <1>2, <1>3, <1>7, WsCodecIsCodec DEF Reopened, Streams, TypeOK
  <2>3. HandlerProgress'
    BY <1>1, <1>3, <1>5, <1>7, <2>1, <2>2 DEF HandlerProgress, Streams
  <2>4. QED
    BY <1>1, <2>3, HandlerKeepsFrames DEF OpenCodec, WsAt, OnlyUnusableCrashes
<1>8. QED
  BY <1>6, <1>7 DEF TypeOK, Streams

\* An encoder that does not open with even sizes was given unusable ones: up to
\* MaxDim an unsigned is the same number as an int.
LEMMA EvenUnlessUnusable ==
  ASSUME NEW r, r.w \in Nat, r.h \in Nat, r.w % 2 = 0, r.h % 2 = 0, ~Opens(r)
  PROVE  Unusable(r)
<1> SUFFICES ASSUME ~Unusable(r) PROVE FALSE
  OBVIOUS
<1>1. r.w \in 1..MaxDim /\ r.h \in 1..MaxDim
  BY ResolutionAssumption DEF Unusable
<1>2. ToInt(r.w) = r.w /\ ToInt(r.h) = r.h
  BY <1>1, ResolutionAssumption DEF ToInt
<1>3. r.w * r.h \in Nat
  OBVIOUS
<1>4. r.w * r.h <= MaxPixels
  BY <1>3, ResolutionAssumption DEF Unusable
<1>5. QED
  BY <1>1, <1>2, <1>4 DEF Opens

\* codec_ctx_init throws only for what no encoder is opened with, because both
\* sizes are even.
LEMMA OpenCodecFailsKeeps ==
  ASSUME ResolutionInv, TypeOK', OpenCodecFails
  PROVE  ResolutionInv'
<1> USE DEF ResolutionInv
<1>1. ~crashed /\ ws_pc = "open" /\ crashed' = TRUE /\ ws_camera' = ws_camera
  BY DEF OpenCodecFails, WsAt, wsLocals
<1>2. /\ info[WsCodec].w = ws_camera.w /\ info[WsCodec].h = ws_camera.h
      /\ ws_camera.w % 2 = 0 /\ ws_camera.h % 2 = 0
  BY <1>1 DEF HandlerProgress
<1>3. ~Opens(ws_camera)
  BY <1>2 DEF OpenCodecFails, Opens
<1>4. ws_camera.w \in Nat /\ ws_camera.h \in Nat
  BY ResolutionFields, SizesAreNat DEF TypeOK
<1>5. OnlyUnusableCrashes'
  <2>1. Unusable(ws_camera)
    BY <1>2, <1>3, <1>4, EvenUnlessUnusable
  <2>2. QED
    BY <1>1, <2>1 DEF OnlyUnusableCrashes, Unusable
<1>6. HandlerProgress'
  BY <1>1 DEF HandlerProgress
<1>7. QED
  BY <1>1, <1>5, <1>6, HandlerKeepsFrames DEF OpenCodecFails, WsAt

\* The stored camera is cleared, then filled in: at the end it is the message's.
LEMMA StoreCameraKeeps ==
  ASSUME ResolutionInv, TypeOK', ClearCamera \/ StoreWidth \/ StoreHeight
  PROVE  ResolutionInv'
<1> USE DEF ResolutionInv
<1>1. /\ ~crashed /\ ws_pc \in {"clear", "store_width", "store_height"}
      /\ UNCHANGED <<crashed, info, encoder>>
      /\ UNCHANGED <<clientVars, client_frame, ready, sendVars, send_frame>>
  BY DEF ClearCamera, StoreWidth, StoreHeight, WsAt
<1>2. /\ \A e \in Eyes : e # ws_eye => Agrees(e)
      /\ \A s \in Streams : Reopened(s, ws_eye, ws_camera)
  BY <1>1 DEF HandlerProgress
<1>3. \A e \in Eyes : e # ws_eye => camera'[e] = camera[e]
  BY DEF ClearCamera, StoreWidth, StoreHeight, TypeOK
<1>4. \A e \in Eyes : e # ws_eye => Agrees(e)'
  BY <1>1, <1>2, <1>3 DEF Agrees, Reopened
<1>5. HandlerProgress'
  <2>1. CASE ClearCamera
    BY <1>1, <1>2, <1>4, <2>1 DEF ClearCamera, WsAt, wsLocals, HandlerProgress, Reopened
  <2>2. CASE StoreWidth
    <3>1. camera'[ws_eye].w = ws_camera.w
      BY <2>2 DEF StoreWidth, TypeOK, Resolution
    <3>2. QED
      BY <1>1, <1>2, <1>4, <2>2, <3>1
      DEF StoreWidth, WsAt, wsLocals, HandlerProgress, Reopened
  <2>3. CASE StoreHeight
    <3>1. camera[ws_eye].w = ws_camera.w
      BY <1>1, <2>3 DEF StoreHeight, WsAt, HandlerProgress
    <3>2. camera'[ws_eye].w = ws_camera.w /\ camera'[ws_eye].h = ws_camera.h
      BY <2>3, <3>1 DEF StoreHeight, TypeOK, Resolution
    <3>3. camera'[ws_eye] = ws_camera
      BY <3>2, ResolutionFields DEF TypeOK
    <3>4. \A s \in Streams : /\ info'[<<s, ws_eye>>] = camera'[ws_eye]
                           /\ encoder'[<<s, ws_eye>>] = camera'[ws_eye]
      BY <1>1, <1>2, <3>3 DEF Reopened
    <3>5. \A e \in Eyes : Agrees(e)'
      BY <1>4, <3>4 DEF Agrees, Reopened
    <3>6. QED
      BY <2>3, <3>5 DEF StoreHeight, WsAt, HandlerProgress
  <2>4. QED
    BY <2>1, <2>2, <2>3
<1>6. QED
  BY <1>1, <1>5, HandlerKeepsFrames DEF OnlyUnusableCrashes

-----------------------------------------------------------------------------
(* The client and the send threads *)

\* They read the cameras and the codecs and change none of them.
LEMMA CamerasStay ==
  ASSUME ResolutionInv, UNCHANGED cameraVars
  PROVE  HandlerProgress' /\ OnlyUnusableCrashes'
<1> USE DEF ResolutionInv, cameraVars
<1>1. HandlerProgress'
  BY DEF HandlerProgress, Agrees, Reopened, WsCodec
<1>2. OnlyUnusableCrashes'
  BY DEF OnlyUnusableCrashes
<1>3. QED
  BY <1>1, <1>2

\* Between two messages the left codecs, by which frames are sized, have the
\* resolution of the left camera.
LEMMA LeftAgrees ==
  ASSUME ResolutionInv, ~crashed, ws_pc = "idle", NEW s \in Streams
  PROVE  info[<<s, "left">>] = camera["left"] /\ encoder[<<s, "left">>] = camera["left"]
BY DEF ResolutionInv, HandlerProgress, Agrees, Reopened, Eyes

\* A frame that is complete when it joins its line fits if it is quiet.
LEMMA LockDepthInfoKeeps ==
  ASSUME ResolutionInv, TypeOK', NEW c \in Clients, LockDepthInfo(c)
  PROVE  QueuedProgress'
<1> USE DEF ResolutionInv
<1>1. /\ client_pc[c] = "lock" /\ client_stream[c] = "depth"
      /\ UNCHANGED <<ws_pc, camera, send_pc, send_frame>>
  BY DEF LockDepthInfo, ClientAt, cameraVars, sendVars
<1>2. client_frame[c] \in Frame /\ client_eye[c] \in Eyes /\ camera["left"] \in Resolution
  BY DEF TypeOK, Eyes
<1>3. QuietFits(client_frame[c])
  <2>1. SUFFICES ASSUME client_frame[c].quiet
                 PROVE  /\ ws_pc = "idle"
                        /\ client_frame[c].scene = camera["left"]
                        /\ client_frame[c].depth = camera["left"]
    BY DEF QuietFits
  <2>2. /\ ws_pc = "idle"
        /\ client_frame[c].scene.w = camera["left"].w
        /\ client_frame[c].scene.h = camera["left"].h
        /\ client_frame[c].depth.w = camera["left"].w
        /\ client_frame[c].depth.h = camera["left"].h
    BY <1>1, <2>1 DEF ClientProgress
  <2>3. client_frame[c].scene \in Resolution /\ client_frame[c].depth \in Resolution
    BY <1>2 DEF Frame
  <2>4. QED
    BY <1>2, <2>2, <2>3, ResolutionFields
<1>4. ASSUME NEW e \in Eyes, NEW i \in 1..Len(ready'[e])
      PROVE  QuietFits(ready'[e][i])
  <2>1. ready[e] \in Seq(Frame)
    BY DEF TypeOK
  <2>2. ready'[e] = IF e = client_eye[c] THEN Append(ready[e], client_frame[c]) ELSE ready[e]
    BY <1>2 DEF LockDepthInfo, TypeOK
  <2>3. \/ i \in 1..Len(ready[e]) /\ ready'[e][i] = ready[e][i]
        \/ ready'[e][i] = client_frame[c]
    BY <1>2, <1>4, <2>1, <2>2
  <2>4. QED
    BY <1>3, <2>3 DEF QueuedProgress
<1>5. QED
  BY <1>1, <1>4 DEF QueuedProgress, QuietFits

\* A client thread sizes its frame by the left codecs, and the frame stays quiet
\* only while these agree with the left camera.
LEMMA ClientKeeps ==
  ASSUME ResolutionInv, TypeOK', NEW c \in Clients, Client(c)
  PROVE  ResolutionInv'
<1> USE DEF ResolutionInv
<1>1. /\ ~crashed /\ UNCHANGED <<cameraVars, sendVars, send_frame>>
  BY DEF Client, RequestFrame, CopyWidth, CopyHeight, LockSceneInfo, LockDepthInfo,
     ClientAt
<1>2. HandlerProgress' /\ OnlyUnusableCrashes'
  BY <1>1, CamerasStay
<1>3. LeftQuietFramesFit'
  BY <1>1 DEF LeftQuietFramesFit, Fits, sendVars
<1>4. UNCHANGED <<ws_pc, camera, info, send_pc>>
  BY <1>1 DEF cameraVars, sendVars
<1>5. client_stream[c] \in Streams
  BY DEF TypeOK
<1>6. ready' = ready => QueuedProgress'
  BY <1>1, <1>4 DEF QueuedProgress, QuietFits
<1>7. CASE RequestFrame(c)
  <2>1. /\ client_frame' = client_frame /\ ready' = ready
        /\ client_pc'[c] = "width" /\ client_stream'[c] = "scene"
        /\ \A d \in Clients : d # c => /\ client_pc'[d] = client_pc[d]
                                      /\ client_stream'[d] = client_stream[d]
    BY <1>7 DEF RequestFrame, ClientAt, TypeOK
  <2>2. ClientProgress'
    BY <1>4, <2>1 DEF ClientProgress
  <2>3. QED
    BY <1>2, <1>3, <1>6, <2>1, <2>2
<1>8. CASE CopyWidth(c)
  <2>1. /\ client_pc[c] = "width" /\ client_pc'[c] = "height" /\ ready' = ready
        /\ client_stream' = client_stream
        /\ \A d \in Clients : d # c => client_pc'[d] = client_pc[d]
    BY <1>8 DEF CopyWidth, ClientAt, TypeOK
  <2>2. ws_pc = "idle" => info[SizingCodec(c)].w = camera["left"].w
    BY <1>1, <1>5, LeftAgrees DEF SizingCodec
  <2>3. /\ \A d \in Clients : d # c => client_frame'[d] = client_frame[d]
        /\ client_stream[c] = "scene" =>
             /\ client_frame'[c].quiet = (ws_pc = "idle")
             /\ client_frame'[c].scene.w = info[SizingCodec(c)].w
        /\ client_stream[c] = "depth" =>
             /\ client_frame'[c].quiet = client_frame[c].quiet
             /\ client_frame'[c].scene = client_frame[c].scene
             /\ client_frame'[c].depth.w = info[SizingCodec(c)].w
    BY <1>8, CopiedWidth
  <2>4. client_frame'[c].quiet =>
          /\ ws_pc = "idle" /\ client_frame'[c].scene.w = camera["left"].w
          /\ client_stream[c] = "depth" =>
               /\ client_frame'[c].scene.h = camera["left"].h
               /\ client_frame'[c].depth.w = camera["left"].w
    <3>1. CASE client_stream[c] = "scene"
      <4>1. client_frame'[c].quiet => ws_pc = "idle"
        BY <2>3, <3>1
      <4>2. QED
        BY <2>2, <2>3, <3>1, <4>1
    <3>2. CASE client_stream[c] = "depth"
      <4>1. /\ client_frame'[c].quiet = client_frame[c].quiet
            /\ client_frame'[c].scene = client_frame[c].scene
        BY <2>3, <3>2
      <4>2. client_frame[c].quiet =>
              /\ ws_pc = "idle" /\ client_frame[c].scene.w = camera["left"].w
              /\ client_frame[c].scene.h = camera["left"].h
        BY <2>1, <3>2 DEF ClientProgress
      <4>3. QED
        BY <2>2, <2>3, <3>2, <4>1, <4>2
    <3>3. QED
      BY <1>5, <3>1, <3>2 DEF Streams
  <2>5. ClientProgress'
    BY <1>4, <2>1, <2>3, <2>4 DEF ClientProgress
  <2>6. QED
    BY <1>2, <1>3, <1>6, <2>1, <2>5
<1>9. CASE CopyHeight(c)
  <2>1. /\ client_pc[c] = "height" /\ client_pc'[c] = "lock" /\ ready' = ready
        /\ client_stream' = client_stream
        /\ \A d \in Clients : d # c => client_pc'[d] = client_pc[d]
    BY <1>9 DEF CopyHeight, ClientAt, TypeOK
  <2>2. ws_pc = "idle" => info[SizingCodec(c)].h = camera["left"].h
    BY <1>1, <1>5, LeftAgrees DEF SizingCodec
  <2>3. /\ \A d \in Clients : d # c => client_frame'[d] = client_frame[d]
        /\ client_frame'[c].quiet = client_frame[c].quiet
        /\ client_stream[c] = "scene" =>
             /\ client_frame'[c].scene.w = client_frame[c].scene.w
             /\ client_frame'[c].scene.h = info[SizingCodec(c)].h
        /\ client_stream[c] = "depth" =>
             /\ client_frame'[c].scene = client_frame[c].scene
             /\ client_frame'[c].depth.w = client_frame[c].depth.w
             /\ client_frame'[c].depth.h = info[SizingCodec(c)].h
    BY <1>9, CopiedHeight
  <2>4. ClientProgress'
    BY <1>4, <1>5, <2>1, <2>2, <2>3 DEF ClientProgress, Streams
  <2>5. QED
    BY <1>2, <1>3, <1>6, <2>1, <2>4
<1>10. CASE LockSceneInfo(c)
  <2>1. /\ client_pc[c] = "lock" /\ client_pc'[c] = "width"
        /\ client_stream[c] = "scene" /\ client_stream'[c] = "depth"
        /\ client_frame' = client_frame /\ ready' = ready
        /\ \A d \in Clients : d # c => /\ client_pc'[d] = client_pc[d]
                                      /\ client_stream'[d] = client_stream[d]
    BY <1>10 DEF LockSceneInfo, ClientAt, TypeOK
  <2>2. ClientProgress'
    BY <1>4, <2>1 DEF ClientProgress
  <2>3. QED
    BY <1>2, <1>3, <1>6, <2>1, <2>2
<1>11. CASE LockDepthInfo(c)
  <2>1. /\ client_pc'[c] = "request" /\ client_stream' = client_stream
        /\ \A d \in Clients : d # c => /\ client_pc'[d] = client_pc[d]
                                      /\ client_frame'[d] = client_frame[d]
    BY <1>11 DEF LockDepthInfo, ClientAt, TypeOK
  <2>2. ClientProgress'
    BY <1>4, <2>1 DEF ClientProgress
  <2>3. QED
    BY <1>2, <1>3, <1>11, <2>2, LockDepthInfoKeeps
<1>12. QED
  BY <1>7, <1>8, <1>9, <1>10, <1>11 DEF Client

\* The send thread feeds a quiet frame to encoders of its size.
LEMMA SendKeeps ==
  ASSUME ResolutionInv, TypeOK', NEW e \in Eyes, Send(e)
  PROVE  ResolutionInv'
<1> USE DEF ResolutionInv
<1>1. ~crashed /\ UNCHANGED <<cameraVars, clientVars, client_frame>>
  BY DEF Send, TakeFrame, FeedEncoder
<1>2. HandlerProgress' /\ OnlyUnusableCrashes'
  BY <1>1, CamerasStay
<1>3. ClientProgress'
  BY <1>1 DEF ClientProgress, cameraVars, clientVars
<1>4. UNCHANGED <<ws_pc, camera, encoder>>
  BY <1>1 DEF cameraVars
<1>5. CASE TakeFrame(e)
  <2>1. ready[e] \in Seq(Frame) /\ ready[e] # <<>>
    BY <1>5 DEF TakeFrame, TypeOK
  <2>2. /\ send_frame'[e] = ready[e][1]
        /\ \A x \in Eyes : x # e => /\ send_frame'[x] = send_frame[x]
                                   /\ send_pc'[x] = send_pc[x]
                                   /\ ready'[x] = ready[x]
        /\ ready'[e] = Tail(ready[e]) /\ fed' = fed
    BY <1>5, <2>1 DEF TakeFrame, TypeOK
  <2>3. ASSUME NEW i \in 1..Len(ready'[e])
        PROVE  i + 1 \in 1..Len(ready[e]) /\ ready'[e][i] = ready[e][i + 1]
    BY <2>1, <2>2, <2>3
  <2>4. 1 \in 1..Len(ready[e])
    BY <2>1
  <2>5. QuietFits(send_frame[e])' /\ \A i \in 1..Len(ready'[e]) : QuietFits(ready'[e][i])
    BY <1>4, <2>2, <2>3, <2>4 DEF QueuedProgress, QuietFits
  <2>6. QueuedProgress'
    <3>1. ASSUME NEW x \in Eyes
          PROVE  /\ \A i \in 1..Len(ready'[x]) : QuietFits(ready[x][i])'
                 /\ send_pc'[x] # "get" => QuietFits(send_frame[x])'
      <4>1. CASE x = e
        BY <1>4, <2>5, <4>1 DEF QuietFits
      <4>2. CASE x # e
        BY <1>4, <2>2, <4>2 DEF QueuedProgress, QuietFits
      <4>3. QED
        BY <4>1, <4>2
    <3>2. QED
      BY <3>1 DEF QueuedProgress
  <2>7. LeftQuietFramesFit'
    BY <2>2 DEF LeftQuietFramesFit, Fits
  <2>8. QED
    BY <1>2, <1>3, <2>6, <2>7
<1>6. CASE FeedEncoder(e)
  <2> DEFINE s == send_pc[e]
  <2>1. /\ s \in Streams /\ ready' = ready
        /\ send_pc'[e] = "depth" => send_frame'[e] = send_frame[e]
        /\ send_pc'[e] \in {"get", "depth"}
        /\ \A x \in Eyes : x # e => /\ send_frame'[x] = send_frame[x]
                                   /\ send_pc'[x] = send_pc[x]
    BY <1>6 DEF FeedEncoder, TypeOK, Streams
  <2>2. QuietFits(send_frame[e])
    BY <2>1 DEF QueuedProgress, Streams
  <2>3. QueuedProgress'
    BY <1>4, <2>1, <2>2 DEF QueuedProgress, QuietFits
  <2>4. LeftQuietFramesFit'
    <3>1. /\ fed'.codec = <<s, e>> /\ fed'.frame = send_frame[e][s]
          /\ fed'.encoder = encoder[<<s, e>>] /\ fed'.quiet = send_frame[e].quiet
      BY <1>6 DEF FeedEncoder
    <3>2. SUFFICES ASSUME send_frame[e].quiet, e = "left"
                   PROVE  send_frame[e][s] = encoder[<<s, e>>]
      BY <3>1 DEF LeftQuietFramesFit, Fits
    <3>3. ws_pc = "idle" /\ send_frame[e][s] = camera["left"]
      BY <2>1, <2>2, <3>2 DEF QuietFits, Streams
    <3>4. QED
      BY <1>1, <2>1, <3>2, <3>3, LeftAgrees
  <2>5. QED
    BY <1>2, <1>3, <2>3, <2>4
<1>7. QED
  BY <1>5, <1>6 DEF Send

-----------------------------------------------------------------------------
(* The theorems *)

\* Everything agrees on the default resolution at first.
LEMMA InitResolutionInv == Init => ResolutionInv
<1> SUFFICES ASSUME Init PROVE ResolutionInv
  OBVIOUS
<1>1. TypeOK
  BY InitTypeOK
<1>2. HandlerProgress
  BY DEF Init, HandlerProgress, Agrees, Reopened, Codecs
<1>3. ClientProgress /\ QueuedProgress
  BY DEF Init, ClientProgress, QueuedProgress
<1>4. OnlyUnusableCrashes /\ LeftQuietFramesFit
  BY DEF Init, OnlyUnusableCrashes, LeftQuietFramesFit, Fits
<1>5. QED
  BY <1>1, <1>2, <1>3, <1>4 DEF ResolutionInv

\* Every step keeps the invariant.
LEMMA NextResolutionInv ==
  ASSUME ResolutionInv, [Next]_vars
  PROVE  ResolutionInv'
<1>1. TypeOK'
  BY NextTypeOK DEF ResolutionInv
<1>2. CASE CameraControl
  BY <1>1, <1>2, ReceiveCameraKeeps, LockCodecKeeps, WriteWidthKeeps,
     WriteHeightKeeps, OpenCodecKeeps, OpenCodecFailsKeeps, StoreCameraKeeps
  DEF CameraControl
<1>3. CASE UNCHANGED vars
  <2>1. HandlerProgress' /\ OnlyUnusableCrashes'
    BY <1>3, CamerasStay DEF vars, cameraVars
  <2>2. ClientProgress' /\ QueuedProgress' /\ LeftQuietFramesFit'
    BY <1>3 DEF vars, ResolutionInv, ClientProgress, QueuedProgress, QuietFits,
       LeftQuietFramesFit, Fits
  <2>3. QED
    BY <1>1, <2>1, <2>2 DEF ResolutionInv
<1>4. QED
  BY <1>1, <1>2, <1>3, ClientKeeps, SendKeeps DEF Next, Terminated

\* The specification keeps the inductive invariant.
LEMMA ResolutionInvHolds == Spec => []ResolutionInv
<1>1. ResolutionInv /\ [Next]_vars => ResolutionInv'
  BY NextResolutionInv
<1>2. QED
  BY InitResolutionInv, <1>1, PTL DEF Spec

\* Between two camera messages the stored camera, both CodecInitInfos and both
\* encoders of a view have the same resolution.
THEOREM ViewStaysConsistent == Spec => []ViewIsConsistent
<1>1. ResolutionInv => ViewIsConsistent
  BY DEF ResolutionInv, HandlerProgress, Agrees, Reopened, ViewIsConsistent
<1>2. QED
  BY ResolutionInvHolds, <1>1, PTL

\* set_camera_* rounds odd sizes, so codec_ctx_init throws only for a resolution
\* of which nothing is left or that is too large for the encoder.
THEOREM OnlyUnusableResolutionsCrash == Spec => []OnlyUnusableCrashes
<1>1. ResolutionInv => OnlyUnusableCrashes
  BY DEF ResolutionInv
<1>2. QED
  BY ResolutionInvHolds, <1>1, PTL

\* A frame of the left view during whose way no camera message is handled is fed
\* to encoders of its own resolution.
THEOREM LeftQuietFramesAlwaysFit == Spec => []LeftQuietFramesFit
<1>1. ResolutionInv => LeftQuietFramesFit
  BY DEF ResolutionInv
<1>2. QED
  BY ResolutionInvHolds, <1>1, PTL
=============================================================================
