# Specifications of ngp-encode-server

TLA+ modules, TLC configurations and TLAPS proofs for `ngp-encode-server`, the
program between a VR client and a set of NeRF renderers: it takes head
positions from the client, asks the renderers for frames of the left and the
right view, encodes what comes back as H.264 and streams it to the client.
Everything here is translated from the C++ source; line numbers refer to it.

## The system

| part | state | operations | talks to |
|---|---|---|---|
| `main` | `shutdown_requested`, the counters `frame_index_left/right`, the flag `is_left` | start everything, `signal_handler`, join | all threads |
| `socket_main_thread`, `socket_manage_thread` | one socket per renderer | connect, retry, spawn and join a client thread | renderers |
| `socket_client_thread` (one per renderer) | view, number and socket of the running iteration | draw view and number, send `FrameRequest`, receive `RenderedFrame`, push | counters, `CameraManager`, `FrameQueue`, codecs of the left view |
| `FrameQueue` (one per view) | bounded FIFO | `push`, `pop`, both with a timeout of 1 s | client and process threads |
| `process_frame_thread` (one per view) | the frame in hand | pop, draw text, convert, insert | `FrameQueue`, `RenderTextContext`, `FrameMap` |
| `FrameMap` (one per view) | bounded map from number to frame | `insert`, `get_delete` (timeout 1 s, clean-up every 1000 numbers) | process and send threads |
| `send_frame_thread` (one per view) | next number | `get_delete`, feed scene and depth encoder | `FrameMap`, `AVCodecContextManager` |
| `AVCodecContextManager` (scene and depth per view) | `CodecInitInfo`, the open encoder, two mutexes | `get_codec_info`, `change_resolution`, `send_frame`, `receive_packet` | libavcodec |
| `receive_packet_thread` (one per encoder), `PacketStreamServer` | - | take packets from the encoder, `send_to_all` | encoder, VR client |
| `CameraControlServer`, `CameraManager` | stored camera per view | `message_handler`, `set_camera_*`, `get_camera_*` | VR client, encoders |
| `WebSocketServer` | set of connections, one asio thread | `start`, `stop`, `send_to_all` | VR client |
| `RenderTextContext` | FreeType face behind a mutex | `render_string_to_frame` | process threads |
| `RenderedFrame`, `FrameManager`, `AVFrameWrapper` | the renderer's message, two converted images, pointers into both | construct, `convert_frame`, `to_avframe`, destroy | client, process and send threads in turn |
| `encode_stats_thread`, timers, logging | - | read counters, log | - |

What is hard here: client threads interleave on two separate atomics; frames
overtake each other, get lost or arrive after the sender has given them up;
queue and map have limits and every wait has a timeout whose effect is to drop
a frame; the resolution of a view changes while its frames are under way, under
locks that are held for less time than the values they protect are used; and
one flag has to bring about twelve threads to an end. What makes the parts correct:

* pipeline: each view's encoder gets its frames in order, each once, only
  frames that were requested; views are served in turn; a frame has one owner;
  clean-up spares frames still wanted; a lost frame costs a delay only;
* resolution: stored camera, codec information and open encoders of a view
  agree; a frame has the size of the encoder it is fed to;
* connections: a renderer that comes back is reconnected; nothing leaks;
* encoder stage: packets come in the order of their frames; scene and depth
  stay in step; a new encoder's stream starts with a key frame;
* queue and map: nobody sleeps while what it waits for is there;
* text: each frame shows its own text, at its place, and nothing outside;
* buffers: every buffer is freed once, and none is used after;
* servers and shutdown: every thread ends and every server is stopped.

`PROJECT.json` lists every component, the hazards with their lines, and the
definitions with the lines they model.

## Modules

**`FrameStream`** is the abstract specification of what the pipeline promises to
the encoders: `issued[e]` numbers of view `e` were handed out, `stream[e]` is
what was encoded; `Issue` hands out the next number, `Encode` takes a number
that was handed out and is newer than all encoded before.

**`FramePipeline`** is the path of a frame, both views and all renderers at once.

| state | code |
|---|---|
| `shutdown_requested`, `is_left`, `frame_index` | the atomics of `main` |
| `client_pc/eye/index` | where a `socket_client_thread` is, its `is_left_val` and `frame_index` |
| `frame_queue`, `frame_map` | `FrameQueue::m_queue`, keys of `FrameMap::m_map` |
| `process_pc/index`, `send_pc`, `send_index` | the threads of a view; `frame_index` in `send_frame_thread` |
| `sent` | history: what the encoders were given |

`DrawEye` and `DrawIndex` are two steps because the code uses two atomics.
`push`, `pop`, `insert`, `get_delete` hold a mutex throughout and are one step
each; `wait_for` evaluates its predicate once more when the time is up, so
`LockTimeout` happens only in a state where the predicate is false, and that is
the guard of the `...Timeout` actions. How long a second is in steps is left
open. `SendFrame` takes a frame from the map and feeds both encoders in one
step, since encoders are no part of this module. A renderer answers with the
number and view it was asked for, or fails (external). Overlay text, conversion
and statistics are not visible to other threads and are left out; an exception
in them ends the program and is not modelled.

**`ResolutionChange`** is what camera messages do to frames under way: the thread
of the `CameraControlServer` (`ReceiveCamera`, then `LockCodec`, `WriteWidth`,
`WriteHeight`, `OpenCodec` for the scene and again for the depth codec, then the
store of the camera), client threads (`RequestFrame`, then copying and locking
`CodecInitInfo` for the scene and the depth frame) and senders (`TakeFrame`,
`FeedEncoder`). Where the code has a data race each field is a step: the copy of
`CodecInitInfo` in the constructor of `CodecInfoProvider` runs before the member
`m_lock` is initialised, and the stored camera has no lock. Storing it is
protobuf's assignment, a clear followed by a merge. The unsigned sizes of a
message become `int` when an encoder is opened (`ToInt`, with `IntLimit` for 2^31).
That libx264 opens exactly with positive even sizes up to some largest width,
height (`MaxDim`) and area (`MaxPixels`), and that an exception in a websocketpp
handler ends the program, are assumptions about external code. `quiet` in a frame
and `fed` are history variables.

**`EncoderStage`** is one view behind its map: `send_frame_thread` (`TakeFrame`,
then `FeedEncoder`, `FeedRefused` or `FeedFails` for the scene and again for the
depth), the two `receive_packet_thread`s (`TestShutdown`, `Receive`,
`ReceiveAgain`, `ReceiveFails`, `ConsumePacket`) and the camera thread that
reopens both encoders one after the other. `encoder[s]` is the sequence of packets
an encoder holds; libavcodec is an external bounded buffer that gives one packet
per frame in order, starts with a key frame and holds back the last `Delay` frames
(0 for the tune `zerolatency`, more for the others the option allows). Nobody flushes
an encoder, so the frames it holds back at the end are never streamed. An encoder error of `send_frame`
constructs an exception without throwing it, which is why `FeedFails` goes on. It
implements `FrameStream`, too, with the streams in the place of the views.

**`RendererConnection`** is `socket_manage_thread` and `socket_client_thread` of each
renderer, one thread of control because the manager waits in `join`. Every
`read` is a step and returns any part of what is wanted; renderers answer, go
away (end of file after part of an answer, or a reset), come back or stay silent.
On a connection the renderer has closed a `send` is still accepted and a `read`
returns at once; the first such send provokes a reset (`refused`), which arrives some
time later (`ResetArrives`), and only then does a send fail.
Descriptors are counted against `MaxFds`. Frame numbers are told apart modulo
`NumberSpace`, enough since a client has one request outstanding; what becomes of
a frame is `FramePipeline`'s matter.

**`WebSocketServers`** composes the servers with `main`: `main` starts them in order,
joins the program's threads and stops them in order; each server's asio thread
opens and closes connections and handles messages, where the camera server's
handler throws if an encoder cannot be opened (`ResolutionChange` says when); each
packet server's receiver iterates over `m_connections` in `send_to_all`, and `main`
does in `stop`, all without a lock. Of the other threads `main` joins it is kept
only whether the last of them has ended (`others`). A change of
the set during an iteration is undefined behaviour: the program aborts, or the
iteration goes on with any of the connections. Exceptions abort where the code
does not catch them, and leaving `main`'s try block with a joinable server
thread aborts as well. Of websocketpp it assumes that `send` and `close` throw on a
connection that is not open, and that handshakes and closes end by a timeout.

**`FrameMonitors`** is the queue and the map of a view with their condition
variables, below the single steps `FramePipeline` takes, and the threads that
use them: clients push, the process thread pops and inserts in turn, the sender
gets. A critical section is one step; a thread is idle, active (before the
mutex), waiting or expired. `wait_for` with a predicate is `Sleep`, then `Expire`,
a notification or a spurious wake-up, then the predicate again; `GiveUp` is
`LockTimeout`. Of the queue the number of frames is kept; of the map the
indices, because a getter waits for one of them.

**`RenderText`** is `RenderTextContext` with the two process threads that use it. Pen,
rectangle and byte offsets are computed with words modulo `2 * Half` and the
conversions between `int` and `uint32_t` the code makes; `place` and `intended`
repeat them in unbounded arithmetic. `slot` is the face's glyph slot, which
`LoadChar` fills and `DrawGlyph` reads in a second step.

**`FrameBuffers`** is the memory of frames under way: which buffers are allocated
(`live`), where the pointers of the four `FrameManager`s and of the `AVFrame` point,
and who frees. `ConstructFrame`, `ConvertFrame`, `Wrap`, `SendAndUnwrap` and
`Destroy` are the constructors, uses and destructors in the order the three
threads get to them. An image that could not be allocated is a null pointer, with
which the frame goes on: the encoder refuses it, and the sender ignores the refusal. A frame can be dropped wherever `FramePipeline` drops one.

The `MC...` modules are the ones TLC runs; each `...Proofs` module holds the proofs
about the module it is named after.

## Runs

| run | checks | result |
|---|---|---|
| `pipeline_safety` | `TypeOK`, `EyesAlternate`, `IssuedFirst`, `FrameInOnePlace`, `FreshFramesKept`, `ImplementsFrameStream`, `WedgedForever` | hold |
| `pipeline_liveness` | `LostFrameIsPassed`, `ShutdownUnlessReading` under `FairSpec` | hold |
| `resolution` | `TypeOK`, `ViewIsConsistent`, `OnlyUnusableCrashes`, `LeftQuietFramesFit` | hold |
| `encoder` | `TypeOK`, `StreamsInStep`, `NewEncoderStartsWithKey`, `ImplementsFrameStream`, `AcceptedIsStreamed`, `ErrorEndsAll` under `FairSpec` | hold |
| `connection` | `TypeOK`, `AnswerIsWhole`, `ResetCostsOne`, `OnlyFailedConnectsLeak`, `RendererIsReconnected`, `ShutdownUnlessSilent` under `FairSpec` | hold |
| `servers` | `TypeOK`, `NeverMisused`, `ConnectionsAreThose`, `ReturnIsClean`, `AbortHasCause`, `ShutdownReturns` under `FairSpec` | hold |
| `monitors` | `TypeOK`, `NoMissedWakeup`, `ReadyReturns` under `FairSpec` | hold |
| `render_text` | `InsideSurface`, `TextIsInPlace` | hold |
| `buffers` | `PointersAreLive`, `FreedOnce`, `ExactlyWrappersLeak` | hold |
| `frame_size` | `LeftFramesFit` (`type_managers.h:99`) | violated |
| `right_eye` | `RightQuietFramesFit` (`type_managers.h:71`) | violated |
| `camera_race` | `RequestHasStoredCamera` (`camera_manager.h:11`) | violated |

What the runs say about the code:

* The two atomics are enough: with two clients between them the views alternate
  and no number is used twice.
* A late or lost frame never disturbs the order; the sender passes it. The
  comment in `server.cpp` that a dropped frame hangs the program is out of date.
* But frames the sender has passed stay in the map until a number that is a
  multiple of `kFrameMapDropFramesInterval` is *found*. If the map fills up
  before, `insert` fails for every new frame, hence `get_delete` for every
  number, and the view is never encoded again (`WedgedForever`). With 100 slots
  and an interval of 1000 this takes 100 late frames. The sender starts counting
  at once and gives a number up every second, so a renderer that connects some
  minutes after the start delivers only frames that are late already.
* Between camera messages everything about a view agrees, and left frames that
  meet no message fit. A frame that a message overtakes does not; right frames
  do not whenever the two views have different resolutions, because the client
  threads only know the left codecs.
* A message ends the program if a size is zero after rounding, or too large for
  the encoder, which sizes that are negative as `int` are as well; no other
  resolution does.
* An odd resolution is compared before it is rounded, so it reopens both
  encoders with every message.
* The streams stay in order whatever the encoders do, and a new encoder's
  packets start with one marked as key frame. Scene and depth get out of step by
  exactly the frames one encoder lost and the other did not: frames are not sent
  again after `EAGAIN`, and the two encoders are reopened one after the other.
* The read loop puts answers together correctly however they arrive, also on the
  next connection after one that broke. A failed read does not end the loop: on a
  connection that its renderer closed the loop goes on drawing numbers, each lost,
  for as long as the reset takes to arrive; once it has arrived it costs one more
  number at most, the one whose send fails. Sockets whose `connect` failed are never closed, one a
  second while a renderer is down; when they have used up the process's
  descriptors no renderer is connected again.
* Nothing of what a frame goes through between the sockets and the encoders holds
  a shutdown up. It waits for a renderer that is connected and silent, and for a client
  that `stop` has overlooked: one whose handshake ends behind the loop, or one
  the loop missed because a close handler changed the set it iterates over. What
  `main`, the packet threads and the handlers of the servers do aborts the program when a
  port is taken (but the first), when a client leaves at the wrong moment, when an
  encoder cannot be opened for a camera message, or when the set changes under an
  iteration; they do not abort it otherwise. (Other threads abort it, too: the process
  and send threads for the failures `FrameBuffers` and `RenderText` have.)
* No wake-up is missed. For the queue `notify_one` suffices for any number of
  pushers; for the map it suffices because a map has one inserter: a
  clean-up makes room for several and wakes one.
* The mixed arithmetic of the text renderer gives the exact result also for
  frames smaller than the text box, where the unsigned differences wrap around.
* Buffers are freed once and never used after; every frame that is encoded
  leaves the two images its `AVFrameWrapper`s allocate behind.

### Divergences found while modelling

Three comments that the code contradicts have runs of their own (`frame_size`,
`right_eye`, `camera_race`). These were met as well; the model follows the code,
and where a property shows the behaviour it is named:

| the source says | the code does | shown by |
|---|---|---|
| `server.cpp:205` "If we drop the frame, the program will hang and look for the frame" | the sender gives the number up after a timeout | `LostFrameIsPassed` |
| `frame_map.cc:34` "When interval is reached, delete frames where frame_index < index" | only when the frame of that number is found | `WedgedForever` |
| `encode.cpp:156` of `EAGAIN`: "the packet should be resent" | the frame is dropped | `StreamsInStep` |
| `server.cpp:73`, `:79` of a failed read: "Terminate the socket." | the loop goes on with the socket | `ResetCostsOne` |
| `type_managers.h:185` `AVFrameWrapper` supports "proper destruction" | its image is never freed | `ExactlyWrappersLeak` |
| `type_managers.h:60` "Access of CodecInitInfo is protected with a shared mutex" | `m_info` is copied before `m_lock` is taken | steps `CopyWidth`, `CopyHeight` |
| `camera_manager.h:29` "If the resolution has changed, reinitialize the encoder." | an odd resolution is compared before it is rounded and reopens every time | step `SetCamera` |
| `render_text.cc:19` throws if the font cannot be opened | FreeType's errors are positive, the test is `ret < 0` | step `Construct` |
| `type_managers.cc:123` has an exception for a failed allocation | it is constructed and not thrown, as in `encode.cpp:138-154` | steps `ConstructFrame`, `FeedFails` |

### Bounds

`pipeline_safety`: two renderers, so that two clients are between the counters,
overtake each other and compete for the last slot; queue 1 and map 2, so that
both get full; two numbers per view, and clean-up at every number, so that a
clean-up finds older and newer frames. Symmetry in the renderers is sound:
nothing names one. A map fills up with late frames there, and
the sender goes on to a number that is not found. `pipeline_liveness` has one
renderer, clean-up at every second number and two numbers the sender may give
up. `MaxFrameIndex` bounds the numbers drawn and `MaxSendIndex` the numbers the
sender gives up; after a shutdown request the latter no longer holds, so no
thread stops because of a bound. `resolution`: sizes 1, 2, 5
and 21 against a default of 2 x 4, with `IntLimit` 16, `MaxDim` 10 and `MaxPixels`
15, give resolutions that differ in one or both sizes, that are rounded to a
usable size (2 x 5), that are empty (1), too large together (5 x 5) or
negative as an `int` (21); two
messages (`MaxMessages`) give a change and its repetition or reversal; one frame
is under way at a time (`MaxUnderWay`), because frames do not affect each other here.

`encoder`: three frames, one reopening, a delay of one, a scene encoder that holds
three frames and a depth encoder that holds two: an encoder fills up and refuses what the other
took, and is reopened with packets inside and one in the receiver's hand.
`connection`: two renderers that share three descriptors, so that failed connects
use them up; an answer of one byte of length and up to two of body, which reads
cut anywhere; one loss of a connection at any point, and renderers that are
down at the start. `servers`: a packet server and the camera server with two
connections each, so that a set changes while another connection is served, and
a server is stopped while the next still serves. `monitors`: two clients for a
queue of one, so that a wrong notification has somebody wrong to go to; the state
has no counters and needs no bound but the map's `MaxIndex`, which reaches two
clean-ups. `render_text`: `Half = 2^29`, since TLC has 32-bit integers, which
leaves the wrap-around where it is relative to the constants 300, 100 and 50; the
six sizes lie on both sides of the points where the pen or the glyph crosses an
edge (250 and 600 wide, 50 and 200 high, the margin); three characters between
the two threads. `RenderAssumption` has frames small enough for a byte offset to
fit a word, no glyph metric above `Extent`, and `Half` beyond the `Reach` of the
text; the largest frame and three characters of at most three pixels are far from
it. `buffers`: three frames; buffers of different frames never meet, so more
add nothing. Symmetry is used for renderers, threads and frames, in runs without
liveness only; nothing names one of them.

### Fairness

`FairSpec` of `FramePipeline` has weak fairness for each process and send thread and for
what a client thread does by itself (`ClientRuns`): they are threads of an ordinary
scheduler and all their waits on queue and map have timeouts, so a thread is never
disabled for ever by another. Nothing is assumed of a renderer (`RendererActs`):
`connect` need not succeed, and `read` has no timeout and may never return, which is
the exception in `ShutdownUnlessReading`. No fairness is assumed for signals either.

`EncoderStage`: the sender and both receivers run; camera messages need not come.
`RendererConnection`: the threads run, `sleep_for` ends and a reset that was provoked
arrives, as TCP delivers or times out; nothing is assumed of renderers; so that the exception of the silent renderer shows in
`ShutdownUnlessSilent` instead of being assumed away. `WebSocketServers`: `main`, the
packet threads and the asio threads run; clients need not leave, ever, and the other
threads need not end, since a silent renderer may keep them.
`FrameMonitors`: a thread that is awake gets the mutex in the end; neither
timeouts nor spurious wake-ups are fair, nor that anybody calls again, so
`ReadyReturns` rests on the notifications alone.

## Proofs

Every invariant and every action property a passing run checks is also a
theorem; each has the form `Spec => []P` and follows from an inductive invariant
that TLC checked on an instance first. The constants are arbitrary within the
assumption each module names; the bounds that TLC needs are arbitrary numbers there.

**`FramePipelineProofs`** proves, for any finite set of renderers, any positive
sizes of queue, map and clean-up interval and any bounds (`PipelineAssumption`):

* `TypeCorrect`: `TypeOK`, including the limits of queue and map. The limits
  rest on what adding one key and `GetDelete` do to a cardinality.
* `IssuedFirstAlways`: `IssuedFirst`. `FrameInOnePlace` is not inductive alone:
  that a number just drawn is nowhere needs that all numbers under way are below
  the counter. Nor is the order of the stream: that the next number is newer
  than all encoded needs that the sender is past them.
* `PipelineImplementsStream`: `FramePipeline` implements `FrameStream` under the
  mapping `issued <- frame_index`, `stream <- sent`. `DrawIndex` is `Issue`,
  `SendFrame` is `Encode`, everything else stutters.
* `FrameAlwaysInOnePlace`, with `TypeOK /\ IssuedFirst /\ FrameInOnePlace`
  inductive; one lemma for each step that moves a number.
* `EyesAlwaysAlternate`: the requests drawn count the clients between the two
  counters, so that each draw changes one cardinality by one.
* `WedgedIsForever` and `FreshFramesAlwaysKept`, action properties from `TypeOK`:
  only two steps touch a map (`MapSteps`).

**`FrameMonitorsProofs`**, for any finite sets of clients and senders and one process
thread (`MonitorAssumption`): `TypeCorrect` and `NoWakeupIsMissed`. `NoMissedWakeup` is
inductive only with `EnoughPushersAwake`, which counts: while a pusher sleeps, the
pushers that are awake are at least as many as the free places of the queue.
A pop makes one place and wakes one; a pusher that gives up or pushes takes
itself out of one side or both. For the other three conditions nobody sleeps
who is ready, which for `insert` needs that the process thread is the only
inserter (`Roles`).

**`FrameBuffersProofs`**, for any set of frames: `PointersStayLive`,
`NothingFreedTwice`, `WrappersLeak`. `BufferInv` says which buffers each frame owns at
each point of its way, and that an `AVFrame` shares the converted image while it
is wrapped. Frames do not share buffers, so a step of one is checked against that
frame alone. `NullAssumption` says that `Null` is no buffer.

**`ResolutionChangeProofs`**, for any clients, sizes, limits of the encoder, numbers
of messages and defaults the encoder opens with (`ResolutionAssumption`, which has
`MaxDim` below `IntLimit`): `TypeCorrect`, `ViewStaysConsistent`,
`OnlyUnusableResolutionsCrash`, `LeftQuietFramesAlwaysFit`. `HandlerProgress` says at each
point of `set_camera_*` and `change_resolution` which of camera, codec information
and encoders already have the new resolution; `ClientProgress` what a client
whose frame is still quiet has read so far; `QueuedProgress` that quiet frames
under way have the resolution of the left view. Only together are they kept:
a torn copy of `CodecInitInfo` is harmless for a quiet frame because nothing is
being written while it is quiet.

**`EncoderStageProofs`**, for any delay, capacities above it and numbers of frames
and reopenings (`EncoderAssumption`): `TypeCorrect`, `KeyFramesComeFirst`, `SceneAndDepthInStep` and
`StageImplementsStream`. The packets of a stream are seen as one line: those
delivered, the one in the receiver's hand, those in the encoder. `EncoderInv` says that
a line is ordered, that every frame offered is in it or lost, and that a
packet of a new encoder starts with a key frame. Every step of the stage keeps a
line, adds one packet at its end, misses a frame or cuts the end off
(`LineStep`); each property is proved from these four. That the streams agree
when the same frames were lost is a count (`Rank`): the k-th packet has k - 1
older frames that were not lost, in both lines.

**`RendererConnectionProofs`**, for any finite set of renderers, sizes of prefix and
body and number of descriptors (`ConnectionAssumption`): `TypeCorrect`,
`AnswersAreWhole`, `ResetsCostOne`, `DescriptorsAreAccounted`. What the client
has read and what is in the inbox are consecutive parts of the answer to the last request
(`PartsFit`), and between two exchanges nothing is on its way (`Quiet`): that is
why an answer cut by a lost connection cannot be taken for the beginning of the
next. `WastedSoFar` bounds the numbers lost since the reset
arrived by the point of the loop.

**`WebSocketServersProofs`**, for any number of servers and finite set of
connections (`ServersAssumption`): `TypeCorrect`, `ServersAreNotMisused`,
`ConnectionsAreKept`, `MainReturnsClean`, `AbortsHaveCauses`. `Phases` ties the state of
each server to the point `main` has reached; `NeedsRun` keeps connections to
servers whose asio thread runs; `ClosedByStop` and `NothingLeftToSend` say
what `stop` and the joined packet threads leave; `LoopsFindOpen`, that the
iterations find open connections only as long as nobody leaves and the set does not
change, is what makes a throw of `send` or `close` have a cause. The throw of the camera
server's message handler has its own (`unopened`).

**`RenderTextProofs`**, for any threads, glyphs and sizes of frames
(`RenderAssumption`): `DrawsInsideFrame` and `TextStaysInPlace`. The assumption keeps
positions within `int`: `Reach` is how far `MaxChars` characters can carry a pen.
It counts the characters of a whole behaviour, since the model has one counter;
in the code every string starts anew. `RenderInv` says that the thread inside
`render_string_to_frame` holds `m_mutex` and finds in the slot what it loaded, and that
every pen is as near to its frame as the characters drawn so far allow
(`Near`). From there the two conversions are exact (`SignedFits`, `ClippedExactly`,
`PixelBytes`), and the loops set the bytes of the glyph's ink in the frame and no others
(`DrawnIsInked`).

Only model-checked are the liveness properties: `LostFrameIsPassed`,
`ShutdownUnlessReading`, `AcceptedIsStreamed`, `ErrorEndsAll`, `RendererIsReconnected`,
`ShutdownUnlessSilent`, `ShutdownReturns` and `ReadyReturns`. They rest on fairness and
on `ENABLED`, which the prover does not do. The three properties that the code
violates are shown by their counterexamples.

## Plan

1. *Done*: `FrameStream`, `FramePipeline`, its proofs; `ResolutionChange`;
   `EncoderStage`, `RendererConnection`, `WebSocketServers`, `FrameMonitors`,
   `RenderText`, `FrameBuffers`.
2. *Done*: a proof of every safety property the runs check, and of both
   refinements of `FrameStream`.
3. Next: action properties on how the state of a component may develop, such as
   that a stream is only ever extended and that a connection which was
   overlooked by `stop` stays overlooked, checked by TLC and proved from the
   invariants above.

## Not modelled

Option parsing (the `args` library), logging, timers and `encode_stats_thread`,
which read and change nothing others see; generated protobuf code; the pixel
work of libswscale and libx264 and FreeType's glyph images, library calls on data
that no other thread sees; the camera matrix and its text, which is only shown.
An allocation that fails is modelled where the code handles it (`FrameBuffers`),
not in every `new`.
