---------------------------- MODULE FramePipeline ----------------------------
(***************************************************************************)
(* The path of a frame through ngp-encode-server, for both views at once.  *)
(* Per renderer a socket_client_thread draws a view and a frame number,    *)
(* asks the renderer for that frame and pushes the answer to the view's    *)
(* FrameQueue.  Per view a process_frame_thread pops the queue and inserts *)
(* into the view's FrameMap, and a send_frame_thread takes the frames out  *)
(* of the map in the order of their numbers and gives them to the scene    *)
(* and depth encoders.  Every wait of the program has a timeout; what is   *)
(* given up on is lost.                                                    *)
(*                                                                         *)
(* Steps.  FrameQueue and FrameMap hold their mutex for a whole operation, *)
(* so a push, pop, insert or get_delete is one step: it is taken when the  *)
(* condition of its wait_for holds, and its LockTimeout is raised only     *)
(* when that condition is still false, because wait_for evaluates it once  *)
(* more when the time is up.  How long a thread waits is left open.  What  *)
(* a thread does to a frame it owns (overlays, conversion) is not visible  *)
(* to another thread and is left out.  A loop's test of shutdown_requested *)
(* is taken together with the step before it (process_frame_thread and     *)
(* send_frame_thread) or after it (the client).                            *)
(*                                                                         *)
(* A frame is its number.  The renderer is external: it answers a request  *)
(* with the request's own number and view, or the exchange fails.          *)
(***************************************************************************)
EXTENDS Integers, Sequences, FiniteSets

CONSTANTS Clients,                      \* the renderers, one connection each
          kFrameQueueMaxSize,
          kFrameMapMaxSize,
          kFrameMapDropFramesInterval,
          MaxFrameIndex,                \* bound: frames requested per view
          MaxSendIndex                  \* bound: numbers the sender tries

ASSUME PipelineAssumption ==
  /\ IsFiniteSet(Clients)
  /\ kFrameQueueMaxSize \in Nat \ {0}
  /\ kFrameMapMaxSize \in Nat \ {0}
  /\ kFrameMapDropFramesInterval \in Nat \ {0}
  /\ MaxFrameIndex \in Nat
  /\ MaxSendIndex \in Nat

VARIABLES
  shutdown_requested,
  is_left,         \* atomic<int>: the view the next request is for
  frame_index,     \* frame_index[e]: next frame number of view e
  client_pc,       \* where the connection to a renderer is
  client_eye,      \* is_left_val of the running iteration
  client_index,    \* frame_index of the running iteration
  frame_queue,     \* FrameQueue::m_queue of each view
  process_pc,      \* where process_frame_thread of each view is
  process_index,   \* the frame it works on
  frame_map,       \* keys of FrameMap::m_map of each view
  send_pc,         \* whether send_frame_thread of each view runs
  send_index,      \* its frame_index
  sent             \* history: frames it gave to the encoders

clientVars == <<is_left, frame_index, client_pc, client_eye, client_index>>
processVars == <<process_pc, process_index>>
sendVars == <<send_pc, send_index, sent>>
vars == <<shutdown_requested, is_left, frame_index, client_pc, client_eye,
          client_index, frame_queue, process_pc, process_index, frame_map,
          send_pc, send_index, sent>>

Eyes == {"left", "right"}

(***************************************************************************)
(* A connection is "down" while socket_manage_thread connects, and else    *)
(* where its socket_client_thread is: at the "top" of the loop, between    *)
(* the two atomic counters ("index"), before the "send" of the request,    *)
(* in the blocking read ("recv"), in FrameQueue::push ("push").            *)
(***************************************************************************)
ClientPC == {"down", "top", "index", "send", "recv", "push", "exited"}
ProcessPC == {"pop", "insert", "exited"}
SendPC == {"get", "exited"}

Init ==
  /\ shutdown_requested = FALSE
  /\ is_left = 0
  /\ frame_index = [e \in Eyes |-> 0]
  /\ client_pc = [c \in Clients |-> "down"]
  /\ client_eye = [c \in Clients |-> "left"]
  /\ client_index = [c \in Clients |-> 0]
  /\ frame_queue = [e \in Eyes |-> <<>>]
  /\ process_pc = [e \in Eyes |-> "pop"]
  /\ process_index = [e \in Eyes |-> 0]
  /\ frame_map = [e \in Eyes |-> {}]
  /\ send_pc = [e \in Eyes |-> "get"]
  /\ send_index = [e \in Eyes |-> 0]
  /\ sent = [e \in Eyes |-> <<>>]

\* while (!shutdown_requested) of a pipeline thread.
LoopTop(pc) == IF shutdown_requested THEN "exited" ELSE pc

-----------------------------------------------------------------------------
(* socket_client_thread, and the connecting half of socket_manage_thread *)

ClientAt(c, from, to) == /\ client_pc[c] = from
                         /\ client_pc' = [client_pc EXCEPT ![c] = to]

ClientForgets(c) == /\ client_eye' = [client_eye EXCEPT ![c] = "left"]
                    /\ client_index' = [client_index EXCEPT ![c] = 0]

\* connect() succeeds and the client thread is spawned.
Connect(c) ==
  /\ ClientAt(c, "down", "top")
  /\ UNCHANGED <<shutdown_requested, is_left, frame_index, client_eye,
                 client_index, frame_queue, frame_map, processVars, sendVars>>

\* Clients that have drawn view e but no number yet.
Unnumbered(e) == {c \in Clients : client_pc[c] = "index" /\ client_eye[c] = e}

\* Requests made for a view, those that have no number yet included.
Drawn(e) == frame_index[e] + Cardinality(Unnumbered(e))

\* Mutant of DrawEye: fetch_or instead of fetch_xor.
DrawEyeFetchOr(c) ==
  LET eye == IF is_left = 1 THEN "left" ELSE "right" IN
  /\ ~shutdown_requested
  /\ Drawn(eye) < MaxFrameIndex
  /\ ClientAt(c, "top", "index")
  /\ client_eye' = [client_eye EXCEPT ![c] = eye]
  /\ is_left' = 1
  /\ UNCHANGED <<shutdown_requested, frame_index, client_index, frame_queue,
                 frame_map, processVars, sendVars>>

\* is_left.fetch_xor(true)
DrawEye(c) ==
  LET eye == IF is_left = 1 THEN "left" ELSE "right" IN
  /\ ~shutdown_requested
  /\ Drawn(eye) < MaxFrameIndex
  /\ ClientAt(c, "top", "index")
  /\ client_eye' = [client_eye EXCEPT ![c] = eye]
  /\ is_left' = 1 - is_left
  /\ UNCHANGED <<shutdown_requested, frame_index, client_index, frame_queue,
                 frame_map, processVars, sendVars>>

\* Mutant of DrawIndex: the counter after the addition is used.
DrawIndexAfter(c) ==
  LET e == client_eye[c] IN
  /\ ClientAt(c, "index", "send")
  /\ client_index' = [client_index EXCEPT ![c] = frame_index[e] + 1]
  /\ frame_index' = [frame_index EXCEPT ![e] = @ + 1]
  /\ UNCHANGED <<shutdown_requested, is_left, client_eye, frame_queue,
                 frame_map, processVars, sendVars>>

\* frame_index_left.fetch_add(1) or frame_index_right.fetch_add(1)
DrawIndex(c) ==
  LET e == client_eye[c] IN
  /\ ClientAt(c, "index", "send")
  /\ client_index' = [client_index EXCEPT ![c] = frame_index[e]]
  /\ frame_index' = [frame_index EXCEPT ![e] = @ + 1]
  /\ UNCHANGED <<shutdown_requested, is_left, client_eye, frame_queue,
                 frame_map, processVars, sendVars>>

SendRequest(c) ==
  /\ ClientAt(c, "send", "recv")
  /\ UNCHANGED <<shutdown_requested, is_left, frame_index, client_eye,
                 client_index, frame_queue, frame_map, processVars, sendVars>>

\* ret < 0: the loop is left, the socket closed; the manager connects again.
SendRequestFails(c) ==
  /\ ClientAt(c, "send", "down")
  /\ ClientForgets(c)
  /\ UNCHANGED <<shutdown_requested, is_left, frame_index, frame_queue,
                 frame_map, processVars, sendVars>>

ReceiveFrame(c) ==
  /\ ClientAt(c, "recv", "push")
  /\ UNCHANGED <<shutdown_requested, is_left, frame_index, client_eye,
                 client_index, frame_queue, frame_map, processVars, sendVars>>

\* The read fails or the answer does not parse: ret is still 0, so the loop
\* goes on with a new number on the same socket.
ReceiveFrameFails(c) ==
  /\ ClientAt(c, "recv", "top")
  /\ ClientForgets(c)
  /\ UNCHANGED <<shutdown_requested, is_left, frame_index, frame_queue,
                 frame_map, processVars, sendVars>>

\* Mutant of PushFrame: size() <= kFrameQueueMaxSize.
PushFrameOneMore(c) ==
  LET e == client_eye[c] IN
  /\ Len(frame_queue[e]) <= kFrameQueueMaxSize
  /\ ClientAt(c, "push", "top")
  /\ ClientForgets(c)
  /\ frame_queue' = [frame_queue EXCEPT ![e] = Append(@, client_index[c])]
  /\ UNCHANGED <<shutdown_requested, is_left, frame_index, frame_map,
                 processVars, sendVars>>

\* FrameQueue::push
PushFrame(c) ==
  LET e == client_eye[c] IN
  /\ Len(frame_queue[e]) < kFrameQueueMaxSize
  /\ ClientAt(c, "push", "top")
  /\ ClientForgets(c)
  /\ frame_queue' = [frame_queue EXCEPT ![e] = Append(@, client_index[c])]
  /\ UNCHANGED <<shutdown_requested, is_left, frame_index, frame_map,
                 processVars, sendVars>>

\* LockTimeout of FrameQueue::push: the frame is dropped.
PushFrameTimeout(c) ==
  /\ Len(frame_queue[client_eye[c]]) >= kFrameQueueMaxSize
  /\ ClientAt(c, "push", "top")
  /\ ClientForgets(c)
  /\ UNCHANGED <<shutdown_requested, is_left, frame_index, frame_queue,
                 frame_map, processVars, sendVars>>

\* Both loops, the client's and the manager's, see shutdown_requested.
ClientExit(c) ==
  /\ shutdown_requested
  /\ \E pc \in {"top", "down"} : ClientAt(c, pc, "exited")
  /\ UNCHANGED <<shutdown_requested, is_left, frame_index, client_eye,
                 client_index, frame_queue, frame_map, processVars, sendVars>>

\* What the thread does by itself: its waits end by a timeout, and a request
\* fits into the socket's buffer, so that send() does not block.
ClientRuns(c) ==
  \/ DrawEye(c) \/ DrawIndex(c)
  \/ SendRequest(c) \/ SendRequestFails(c)
  \/ PushFrame(c) \/ PushFrameTimeout(c)
  \/ ClientExit(c)

\* What needs the renderer: connect() and read() return when it does something.
RendererActs(c) == Connect(c) \/ ReceiveFrame(c) \/ ReceiveFrameFails(c)

Client(c) == ClientRuns(c) \/ RendererActs(c)

-----------------------------------------------------------------------------
(* process_frame_thread *)

\* FrameQueue::pop
PopFrame(e) ==
  /\ process_pc[e] = "pop"
  /\ frame_queue[e] # <<>>
  /\ process_index' = [process_index EXCEPT ![e] = Head(frame_queue[e])]
  /\ frame_queue' = [frame_queue EXCEPT ![e] = Tail(@)]
  /\ process_pc' = [process_pc EXCEPT ![e] = "insert"]
  /\ UNCHANGED <<shutdown_requested, clientVars, frame_map, sendVars>>

PopFrameTimeout(e) ==
  /\ process_pc[e] = "pop"
  /\ frame_queue[e] = <<>>
  /\ process_pc' = [process_pc EXCEPT ![e] = LoopTop("pop")]
  /\ UNCHANGED <<shutdown_requested, clientVars, frame_queue, process_index,
                 frame_map, sendVars>>

ProcessNextFrame(e) ==
  /\ process_pc[e] = "insert"
  /\ process_pc' = [process_pc EXCEPT ![e] = LoopTop("pop")]
  /\ process_index' = [process_index EXCEPT ![e] = 0]
  /\ UNCHANGED <<shutdown_requested, clientVars, frame_queue, sendVars>>

\* FrameMap::insert
InsertFrame(e) ==
  /\ Cardinality(frame_map[e]) < kFrameMapMaxSize
  /\ frame_map' = [frame_map EXCEPT ![e] = @ \cup {process_index[e]}]
  /\ ProcessNextFrame(e)

\* Mutant of InsertFrameTimeout: wait() instead of wait_for(); a thread that
\* wakes up and finds the map still full waits again.
InsertFrameWaits(e) ==
  /\ Cardinality(frame_map[e]) >= kFrameMapMaxSize
  /\ process_pc[e] = "insert"
  /\ UNCHANGED vars

\* LockTimeout of FrameMap::insert: the frame is destroyed with the iteration.
InsertFrameTimeout(e) ==
  /\ Cardinality(frame_map[e]) >= kFrameMapMaxSize
  /\ ProcessNextFrame(e)
  /\ UNCHANGED frame_map

Process(e) == \/ PopFrame(e) \/ PopFrameTimeout(e)
              \/ InsertFrame(e) \/ InsertFrameTimeout(e)

-----------------------------------------------------------------------------
(* send_frame_thread *)

\* Mutant of GetDelete: the frame is not erased.
GetKeep(m, i) ==
  {k \in m : i % kFrameMapDropFramesInterval = 0 => k >= i}

\* Mutant of GetDelete: clean-up compares the wrong way round.
GetDeleteNewer(m, i) ==
  {k \in m \ {i} : i % kFrameMapDropFramesInterval = 0 => k <= i}

\* What FrameMap::get_delete(i) leaves of the map m that contains i.
GetDelete(m, i) ==
  {k \in m \ {i} : i % kFrameMapDropFramesInterval = 0 => k >= i}

SendNextFrame(e) ==
  /\ send_index' = [send_index EXCEPT ![e] = @ + 1]
  /\ send_pc' = [send_pc EXCEPT ![e] = LoopTop("get")]
  /\ UNCHANGED <<shutdown_requested, clientVars, frame_queue, processVars>>

\* Mutant of SendFrame: the oldest frame of the map is taken instead of
\* waiting for the next number.
SendOldestFrame(e) ==
  \E i \in frame_map[e] :
    /\ send_pc[e] = "get"
    /\ \A k \in frame_map[e] : i <= k
    /\ frame_map' = [frame_map EXCEPT ![e] = GetDelete(@, i)]
    /\ sent' = [sent EXCEPT ![e] = Append(@, i)]
    /\ SendNextFrame(e)

\* get_delete(), then send_frame() on the scene and the depth encoder.  The
\* encoders are no part of this module, so the three calls are one step.
SendFrame(e) ==
  /\ send_pc[e] = "get"
  /\ send_index[e] \in frame_map[e]
  /\ frame_map' = [frame_map EXCEPT ![e] = GetDelete(@, send_index[e])]
  /\ sent' = [sent EXCEPT ![e] = Append(@, send_index[e])]
  /\ SendNextFrame(e)

\* Mutant of SkipFrame: old frames are removed on a timeout, too.
SkipFrameCleans(e) ==
  /\ send_pc[e] = "get"
  /\ send_index[e] \notin frame_map[e]
  /\ send_index[e] < MaxSendIndex \/ shutdown_requested
  /\ frame_map' = [frame_map EXCEPT ![e] = {k \in @ : k >= send_index[e]}]
  /\ SendNextFrame(e)
  /\ UNCHANGED sent

\* Mutant of SkipFrame: the loop continues before frame_index++.
SkipFrameRetries(e) ==
  /\ send_pc[e] = "get"
  /\ send_index[e] \notin frame_map[e]
  /\ send_pc' = [send_pc EXCEPT ![e] = LoopTop("get")]
  /\ UNCHANGED <<shutdown_requested, clientVars, frame_queue, processVars,
                 frame_map, send_index, sent>>

\* LockTimeout of FrameMap::get_delete: the number is given up.
SkipFrame(e) ==
  /\ send_pc[e] = "get"
  /\ send_index[e] \notin frame_map[e]
  /\ send_index[e] < MaxSendIndex \/ shutdown_requested
  /\ SendNextFrame(e)
  /\ UNCHANGED <<frame_map, sent>>

Send(e) == SendFrame(e) \/ SkipFrame(e)

-----------------------------------------------------------------------------
\* signal_handler, or a receive_packet_thread that met an encoder error.
RequestShutdown ==
  /\ ~shutdown_requested
  /\ shutdown_requested' = TRUE
  /\ UNCHANGED <<clientVars, frame_queue, processVars, frame_map, sendVars>>

AllExited == /\ \A c \in Clients : client_pc[c] = "exited"
             /\ \A e \in Eyes : process_pc[e] = "exited" /\ send_pc[e] = "exited"

\* main() has joined every thread.
Terminated == AllExited /\ UNCHANGED vars

Next == \/ \E c \in Clients : Client(c)
        \/ \E e \in Eyes : Process(e) \/ Send(e)
        \/ RequestShutdown
        \/ Terminated

Spec == Init /\ [][Next]_vars

\* Every thread keeps running.  Nothing is assumed of the renderers: one may
\* never accept a connection, and a read() may block for ever.
Fairness == /\ \A c \in Clients : WF_vars(ClientRuns(c))
            /\ \A e \in Eyes : WF_vars(Process(e)) /\ WF_vars(Send(e))

FairSpec == Spec /\ Fairness

-----------------------------------------------------------------------------
(* Where the frames of a view are *)

Carrying(c, e) == client_pc[c] \in {"send", "recv", "push"} /\ client_eye[c] = e

AtClients(e) == {client_index[c] : c \in {d \in Clients : Carrying(d, e)}}

Queued(e) == {frame_queue[e][k] : k \in 1..Len(frame_queue[e])}

AtProcessor(e) == IF process_pc[e] = "insert" THEN {process_index[e]} ELSE {}

Sent(e) == {sent[e][k] : k \in 1..Len(sent[e])}

\* Numbers that were drawn but whose frame is gone: they are not under way
\* and were not encoded.
Lost(e) == (0..frame_index[e] - 1) \ (AtClients(e) \cup Queued(e)
                  \cup AtProcessor(e) \cup frame_map[e] \cup Sent(e))

\* The map of e is full of frames the sender has passed already.
Wedged(e) == /\ Cardinality(frame_map[e]) >= kFrameMapMaxSize
             /\ \A k \in frame_map[e] : k < send_index[e]

-----------------------------------------------------------------------------
(* Properties *)

\* Types, and the limits FrameQueue::push and FrameMap::insert keep: no queue
\* and no map ever holds more frames than its maximal size.
TypeOK ==
  /\ shutdown_requested \in BOOLEAN
  /\ is_left \in {0, 1}
  /\ frame_index \in [Eyes -> Nat]
  /\ client_pc \in [Clients -> ClientPC]
  /\ client_eye \in [Clients -> Eyes]
  /\ client_index \in [Clients -> Nat]
  /\ frame_queue \in [Eyes -> Seq(Nat)]
  /\ process_pc \in [Eyes -> ProcessPC]
  /\ process_index \in [Eyes -> Nat]
  /\ frame_map \in [Eyes -> SUBSET Nat]
  /\ send_pc \in [Eyes -> SendPC]
  /\ send_index \in [Eyes -> Nat]
  /\ sent \in [Eyes -> Seq(Nat)]
  /\ \A e \in Eyes : /\ Len(frame_queue[e]) <= kFrameQueueMaxSize
                      /\ IsFiniteSet(frame_map[e])
                      /\ Cardinality(frame_map[e]) <= kFrameMapMaxSize

\* However the client threads interleave between fetch_xor on is_left and
\* fetch_add on the view's counter, the two views are asked for in turn: the
\* requests drawn for the right view lead those for the left by exactly the
\* flag (server.cpp 144-152).
EyesAlternate == Drawn("right") = Drawn("left") + is_left

\* Every number under way was drawn from the view's counter before, and the
\* sender is past every number it encoded: what makes a fresh number unused and
\* the encoded numbers increase.
IssuedFirst ==
  \A e \in Eyes :
    /\ \A c \in Clients : Carrying(c, e) => client_index[c] < frame_index[e]
    /\ \A k \in 1..Len(frame_queue[e]) : frame_queue[e][k] < frame_index[e]
    /\ process_pc[e] = "insert" => process_index[e] < frame_index[e]
    /\ \A i \in frame_map[e] : i < frame_index[e]
    /\ \A k \in 1..Len(sent[e]) : /\ sent[e][k] < frame_index[e]
                                   /\ sent[e][k] < send_index[e]

\* No two clients carry the same number, and none is queued twice.
NumbersDiffer(e) ==
  /\ \A c, d \in Clients :
       Carrying(c, e) /\ Carrying(d, e) /\ client_index[c] = client_index[d]
         => c = d
  /\ \A j, k \in 1..Len(frame_queue[e]) :
       frame_queue[e][j] = frame_queue[e][k] => j = k

PlacesDisjoint(e) ==
  /\ AtClients(e) \cap (Queued(e) \cup AtProcessor(e) \cup frame_map[e] \cup Sent(e)) = {}
  /\ Queued(e) \cap (AtProcessor(e) \cup frame_map[e] \cup Sent(e)) = {}
  /\ AtProcessor(e) \cap (frame_map[e] \cup Sent(e)) = {}
  /\ frame_map[e] \cap Sent(e) = {}

\* A frame is owned by one thread or container at a time: with any number of
\* renderers no number of a view is carried by two clients, queued twice, or
\* both under way and already encoded.
FrameInOnePlace == \A e \in Eyes : NumbersDiffer(e) /\ PlacesDisjoint(e)

\* Clean-up in get_delete never throws away a frame the sender still wants: a
\* frame newer than the one it is at stays in the map (frame_map.cc 36-40).
FreshFramesKept ==
  [][\A e \in Eyes : \A k \in frame_map[e] :
       k > send_index[e] => k \in frame_map'[e]]_vars

\* A map that is full of frames older than the one the sender waits for stays
\* so, and its view is never encoded again: insert() times out on every new
\* frame, get_delete() on every number, and only a successful get_delete()
\* removes old frames (frame_map.cc 12-53).
WedgedForever ==
  [][\A e \in Eyes : Wedged(e) => Wedged(e)' /\ sent'[e] = sent[e]]_vars

Stream == INSTANCE FrameStream WITH issued <- frame_index, stream <- sent

\* The encoders of a view get frames in the order of their numbers, each once,
\* and only frames that were requested, although renderers answer in any
\* order, late or not at all.
ImplementsFrameStream == Stream!StreamSpec

\* After SIGINT the threads of the pipeline end although frames are still under
\* way: queues and maps keep none of them, neither full nor empty.  The one
\* thread that may stay, and with it main() in its join, is a client in the
\* read() of an answer that never comes (server.cpp 67 has no timeout).
ShutdownUnlessReading ==
  /\ \A e \in Eyes : /\ shutdown_requested ~> process_pc[e] = "exited"
                     /\ shutdown_requested ~> send_pc[e] = "exited"
  /\ \A c \in Clients :
       shutdown_requested ~> (client_pc[c] = "exited" \/ [](client_pc[c] = "recv"))

\* A frame that was lost on the way delays its view but does not stop it: the
\* sender gets past every lost number (catch in send_frame_thread).
LostFrameIsPassed ==
  \A e \in Eyes : \A i \in 0..MaxFrameIndex - 1 :
    (i \in Lost(e)) ~> (send_index[e] > i \/ send_pc[e] = "exited")
=============================================================================
