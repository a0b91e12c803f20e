------------------------- MODULE FramePipelineProofs -------------------------
(***************************************************************************)
(* What is proved of FramePipeline for any number of renderers and any     *)
(* sizes of the queues and maps.                                           *)
(***************************************************************************)
EXTENDS FramePipeline, FiniteSetTheorems, TLAPS

-----------------------------------------------------------------------------
(* Sequences *)

\* The elements of a sequence that was appended to.
LEMMA AppendElement ==
  ASSUME NEW S, NEW q \in Seq(S), NEW x \in S, NEW k \in 1..Len(Append(q, x))
  PROVE  /\ Len(Append(q, x)) = Len(q) + 1
         /\ k = Len(q) + 1 => Append(q, x)[k] = x
         /\ k # Len(q) + 1 => k \in 1..Len(q) /\ Append(q, x)[k] = q[k]
OBVIOUS

-----------------------------------------------------------------------------
(* Type correctness and the capacity limits *)

\* The keys get_delete leaves are keys the map had, so it stays finite and
\* within its size.
LEMMA GetDeleteShrinks ==
  ASSUME NEW m, IsFiniteSet(m), NEW i
  PROVE  /\ GetDelete(m, i) \subseteq m
         /\ IsFiniteSet(GetDelete(m, i))
         /\ Cardinality(GetDelete(m, i)) <= Cardinality(m)
<1>1. GetDelete(m, i) \subseteq m
  BY DEF GetDelete
<1>2. QED
  BY <1>1, FS_Subset

\* One key more makes the map at most one frame larger.
LEMMA InsertGrowsByOne ==
  ASSUME NEW m, IsFiniteSet(m), NEW i
  PROVE  /\ IsFiniteSet(m \cup {i})
         /\ Cardinality(m) \in Nat
         /\ Cardinality(m \cup {i}) <= Cardinality(m) + 1
BY FS_AddElement, FS_CardinalityType

\* The program starts with empty containers and typed counters.
LEMMA InitTypeOK == Init => TypeOK
<1> SUFFICES ASSUME Init PROVE TypeOK
  OBVIOUS
<1>1. IsFiniteSet({}) /\ Cardinality({}) = 0
  BY FS_EmptySet
<1>2. /\ shutdown_requested \in BOOLEAN
      /\ is_left \in {0, 1}
      /\ frame_index \in [Eyes -> Nat]
      /\ client_pc \in [Clients -> ClientPC]
      /\ client_eye \in [Clients -> Eyes]
      /\ client_index \in [Clients -> Nat]
      /\ process_pc \in [Eyes -> ProcessPC]
      /\ process_index \in [Eyes -> Nat]
      /\ send_pc \in [Eyes -> SendPC]
      /\ send_index \in [Eyes -> Nat]
  BY DEF Init, Eyes, ClientPC, ProcessPC, SendPC
<1>3. /\ frame_queue \in [Eyes -> Seq(Nat)]
      /\ sent \in [Eyes -> Seq(Nat)]
      /\ frame_map \in [Eyes -> SUBSET Nat]
  BY DEF Init
<1>4. ASSUME NEW e \in Eyes
      PROVE  /\ Len(frame_queue[e]) <= kFrameQueueMaxSize
             /\ IsFiniteSet(frame_map[e])
             /\ Cardinality(frame_map[e]) <= kFrameMapMaxSize
  <2>1. frame_queue[e] = <<>> /\ frame_map[e] = {}
    BY DEF Init
  <2>2. QED
    BY <1>1, <2>1, PipelineAssumption
<1>5. QED
  BY <1>2, <1>3, <1>4 DEF TypeOK

\* A step of a client thread keeps the types, and push keeps the limit of the
\* queue.
LEMMA ClientTypeOK ==
  ASSUME TypeOK, NEW c \in Clients, Client(c)
  PROVE  TypeOK'
<1> USE DEF TypeOK, clientVars, processVars, sendVars, ClientAt,
            ClientForgets, ClientPC, Eyes
<1>1. CASE Connect(c)
  BY <1>1 DEF Connect
<1>2. CASE DrawEye(c)
  BY <1>2 DEF DrawEye
<1>3. CASE DrawIndex(c)
  BY <1>3, SMTT(30) DEF DrawIndex
<1>4. CASE SendRequest(c)
  BY <1>4 DEF SendRequest
<1>5. CASE SendRequestFails(c)
  BY <1>5 DEF SendRequestFails
<1>6. CASE ReceiveFrame(c)
  BY <1>6 DEF ReceiveFrame
<1>7. CASE ReceiveFrameFails(c)
  BY <1>7 DEF ReceiveFrameFails
<1>8. CASE PushFrame(c)
  <2> DEFINE q == client_eye[c]
  <2>1. frame_queue' = [frame_queue EXCEPT ![q] = Append(frame_queue[q], client_index[c])]
    BY <1>8 DEF PushFrame
  <2>2. frame_queue' \in [Eyes -> Seq(Nat)]
    BY <2>1
  <2>3. Len(frame_queue'[q]) <= kFrameQueueMaxSize
    BY <1>8, <2>1, PipelineAssumption DEF PushFrame
  <2>4. \A e \in Eyes : Len(frame_queue'[e]) <= kFrameQueueMaxSize
    BY <2>1, <2>3
  <2>5. QED
    BY <1>8, <2>2, <2>4 DEF PushFrame
<1>9. CASE PushFrameTimeout(c)
  BY <1>9 DEF PushFrameTimeout
<1>10. CASE ClientExit(c)
  BY <1>10 DEF ClientExit
<1>11. QED
  BY <1>1, <1>2, <1>3, <1>4, <1>5, <1>6, <1>7, <1>8, <1>9, <1>10
     DEF Client, ClientRuns, RendererActs

\* A step of a process_frame_thread keeps the types, and insert keeps the limit
\* of the map.
LEMMA ProcessTypeOK ==
  ASSUME TypeOK, NEW e \in Eyes, Process(e)
  PROVE  TypeOK'
<1> USE DEF TypeOK, clientVars, processVars, sendVars, ProcessPC, LoopTop
<1>1. CASE PopFrame(e)
  <2>1. /\ Head(frame_queue[e]) \in Nat
        /\ Tail(frame_queue[e]) \in Seq(Nat)
        /\ Len(Tail(frame_queue[e])) <= kFrameQueueMaxSize
    BY <1>1, PipelineAssumption DEF PopFrame
  <2>2. /\ process_index' \in [Eyes -> Nat]
        /\ frame_queue' \in [Eyes -> Seq(Nat)]
    BY <1>1, <2>1 DEF PopFrame
  <2>3. \A f \in Eyes : Len(frame_queue'[f]) <= kFrameQueueMaxSize
    BY <1>1, <2>1 DEF PopFrame
  <2>4. QED
    BY <1>1, <2>2, <2>3 DEF PopFrame
<1>2. CASE PopFrameTimeout(e)
  BY <1>2 DEF PopFrameTimeout
<1>3. CASE InsertFrame(e)
  <2>1. frame_map'[e] = frame_map[e] \cup {process_index[e]}
    BY <1>3 DEF InsertFrame
  <2>2. IsFiniteSet(frame_map[e])
    OBVIOUS
  <2>3. /\ IsFiniteSet(frame_map[e] \cup {process_index[e]})
        /\ Cardinality(frame_map[e]) \in Nat
        /\ Cardinality(frame_map[e] \cup {process_index[e]}) \in Nat
        /\ Cardinality(frame_map[e] \cup {process_index[e]})
             <= Cardinality(frame_map[e]) + 1
    BY <2>2, InsertGrowsByOne, FS_CardinalityType
  <2>4. Cardinality(frame_map'[e]) <= kFrameMapMaxSize
    BY <1>3, <2>1, <2>3, PipelineAssumption DEF InsertFrame
  <2>5. QED
    BY <1>3, <2>1, <2>3, <2>4, SMTT(30) DEF InsertFrame, ProcessNextFrame
<1>4. CASE InsertFrameTimeout(e)
  BY <1>4 DEF InsertFrameTimeout, ProcessNextFrame
<1>5. QED
  BY <1>1, <1>2, <1>3, <1>4 DEF Process

\* A step of a send_frame_thread keeps the types and the limit of the map.
LEMMA SendTypeOK ==
  ASSUME TypeOK, NEW e \in Eyes, Send(e)
  PROVE  TypeOK'
<1> USE DEF TypeOK, clientVars, processVars, sendVars, SendPC, LoopTop,
            SendNextFrame
<1>1. CASE SendFrame(e)
  <2>1. /\ frame_map'[e] \subseteq frame_map[e]
        /\ IsFiniteSet(frame_map'[e])
        /\ Cardinality(frame_map'[e]) <= Cardinality(frame_map[e])
    BY <1>1, GetDeleteShrinks DEF SendFrame
  <2>2. Cardinality(frame_map'[e]) <= kFrameMapMaxSize
    BY <2>1, FS_CardinalityType, PipelineAssumption
  <2>3. QED
    BY <1>1, <2>1, <2>2, SMTT(30) DEF SendFrame
<1>2. CASE SkipFrame(e)
  BY <1>2 DEF SkipFrame
<1>3. QED
  BY <1>1, <1>2 DEF Send

\* No step of the program breaks the types or a limit.
LEMMA NextTypeOK == TypeOK /\ [Next]_vars => TypeOK'
<1> SUFFICES ASSUME TypeOK, [Next]_vars PROVE TypeOK'
  OBVIOUS
<1>1. CASE RequestShutdown
  BY <1>1 DEF RequestShutdown, TypeOK, clientVars, processVars, sendVars
<1>2. CASE UNCHANGED vars
  BY <1>2 DEF vars, TypeOK
<1>3. QED
  BY <1>1, <1>2, ClientTypeOK, ProcessTypeOK, SendTypeOK DEF Next, Terminated

\* Every variable keeps its type, and no queue and no map ever exceeds its
\* maximal size.
THEOREM TypeCorrect == Spec => []TypeOK
<1>1. QED
  BY InitTypeOK, NextTypeOK, PTL DEF Spec

-----------------------------------------------------------------------------
(* Numbers are drawn before they are used *)

\* At the start no number is under way and none was encoded.
LEMMA InitIssuedFirst == Init => IssuedFirst
<1> SUFFICES ASSUME Init, NEW e \in Eyes
             PROVE  /\ \A c \in Clients : ~Carrying(c, e)
                    /\ frame_queue[e] = <<>>
                    /\ process_pc[e] # "insert"
                    /\ frame_map[e] = {}
                    /\ sent[e] = <<>>
  BY DEF IssuedFirst
<1>1. QED
  BY DEF Init, Carrying

\* A client uses the number it drew; drawing only raises the counter.
LEMMA ClientIssuedFirst ==
  ASSUME TypeOK, IssuedFirst, NEW c \in Clients, Client(c)
  PROVE  IssuedFirst'
<1> USE DEF TypeOK, IssuedFirst, Carrying, clientVars, processVars, sendVars,
            ClientAt, ClientForgets
<1>1. CASE Connect(c)
  BY <1>1 DEF Connect
<1>2. CASE DrawEye(c)
  BY <1>2 DEF DrawEye
<1>3. CASE DrawIndex(c)
  <2>1. \A e \in Eyes : /\ frame_index'[e] \in Nat
                        /\ frame_index[e] <= frame_index'[e]
    BY <1>3 DEF DrawIndex
  <2>2. \A e \in Eyes : \A d \in Clients :
          Carrying(d, e)' => client_index'[d] < frame_index'[e]
    <3> SUFFICES ASSUME NEW e \in Eyes, NEW d \in Clients, Carrying(d, e)'
                 PROVE  client_index'[d] < frame_index'[e]
      OBVIOUS
    <3>1. CASE d = c
      BY <1>3, <3>1 DEF DrawIndex
    <3>2. CASE d # c
      <4>1. client_index'[d] = client_index[d] /\ Carrying(d, e)
        BY <1>3, <3>2 DEF DrawIndex
      <4>2. QED
        BY <2>1, <4>1
    <3>3. QED
      BY <3>1, <3>2
  <2>3. UNCHANGED <<frame_queue, process_pc, process_index, frame_map, sent, send_index>>
    BY <1>3 DEF DrawIndex
  <2>4. \A e \in Eyes :
          /\ \A k \in 1..Len(frame_queue'[e]) : frame_queue'[e][k] < frame_index'[e]
          /\ process_pc'[e] = "insert" => process_index'[e] < frame_index'[e]
    BY <2>1, <2>3, SMTT(30)
  <2>5. \A e \in Eyes : \A i \in frame_map'[e] : i < frame_index'[e]
    <3> SUFFICES ASSUME NEW e \in Eyes, NEW i \in frame_map[e]
                 PROVE  i < frame_index'[e]
      BY <2>3
    <3>1. i \in Nat /\ frame_index[e] \in Nat /\ i < frame_index[e]
      OBVIOUS
    <3>2. QED
      BY <2>1, <3>1
  <2>6. \A e \in Eyes : \A k \in 1..Len(sent'[e]) :
          sent'[e][k] < frame_index'[e] /\ sent'[e][k] < send_index'[e]
    <3> SUFFICES ASSUME NEW e \in Eyes, NEW k \in 1..Len(sent[e])
                 PROVE  sent[e][k] < frame_index'[e] /\ sent[e][k] < send_index[e]
      BY <2>3
    <3>1. /\ sent[e][k] \in Nat /\ frame_index[e] \in Nat
          /\ sent[e][k] < frame_index[e] /\ sent[e][k] < send_index[e]
      BY SMTT(30)
    <3>2. QED
      BY <2>1, <3>1, SMTT(30)
  <2>7. QED
    BY <2>2, <2>4, <2>5, <2>6
<1>4. CASE SendRequest(c)
  BY <1>4 DEF SendRequest
<1>5. CASE SendRequestFails(c)
  BY <1>5 DEF SendRequestFails
<1>6. CASE ReceiveFrame(c)
  BY <1>6 DEF ReceiveFrame
<1>7. CASE ReceiveFrameFails(c)
  BY <1>7 DEF ReceiveFrameFails
<1>8. CASE PushFrame(c)
  BY <1>8, SMTT(30) DEF PushFrame
<1>9. CASE PushFrameTimeout(c)
  BY <1>9 DEF PushFrameTimeout
<1>10. CASE ClientExit(c)
  BY <1>10 DEF ClientExit
<1>11. QED
  BY <1>1, <1>2, <1>3, <1>4, <1>5, <1>6, <1>7, <1>8, <1>9, <1>10
     DEF Client, ClientRuns, RendererActs

\* A process_frame_thread moves numbers and makes none.
LEMMA ProcessIssuedFirst ==
  ASSUME TypeOK, IssuedFirst, NEW e \in Eyes, Process(e)
  PROVE  IssuedFirst'
<1> USE DEF TypeOK, IssuedFirst, Carrying, clientVars, processVars, sendVars,
            LoopTop
<1>1. CASE PopFrame(e)
  BY <1>1, SMTT(30) DEF PopFrame
<1>2. CASE PopFrameTimeout(e)
  BY <1>2 DEF PopFrameTimeout
<1>3. CASE InsertFrame(e)
  BY <1>3 DEF InsertFrame, ProcessNextFrame
<1>4. CASE InsertFrameTimeout(e)
  BY <1>4 DEF InsertFrameTimeout, ProcessNextFrame
<1>5. QED
  BY <1>1, <1>2, <1>3, <1>4 DEF Process

\* send_frame_thread encodes its own number and then passes it.
LEMMA SendIssuedFirst ==
  ASSUME TypeOK, IssuedFirst, NEW e \in Eyes, Send(e)
  PROVE  IssuedFirst'
<1> USE DEF TypeOK, IssuedFirst, Carrying, clientVars, processVars, sendVars,
            LoopTop, SendNextFrame
<1>1. CASE SendFrame(e)
  <2>1. /\ send_index[e] < frame_index[e]
        /\ send_index[e] \in Nat
        /\ send_index'[e] = send_index[e] + 1
        /\ sent'[e] = Append(sent[e], send_index[e])
    BY <1>1 DEF SendFrame
  <2>2. \A k \in 1..Len(sent'[e]) :
          sent'[e][k] < frame_index[e] /\ sent'[e][k] < send_index'[e]
    <3> SUFFICES ASSUME NEW k \in 1..Len(sent'[e])
                 PROVE  sent'[e][k] < frame_index[e] /\ sent'[e][k] < send_index'[e]
      OBVIOUS
    <3>1. CASE k = Len(sent[e]) + 1
      BY <2>1, <3>1, AppendElement
    <3>2. CASE k # Len(sent[e]) + 1
      <4>1. k \in 1..Len(sent[e]) /\ sent'[e][k] = sent[e][k]
        BY <2>1, <3>2, AppendElement
      <4>2. sent[e][k] < frame_index[e] /\ sent[e][k] < send_index[e] /\ sent[e][k] \in Nat
        BY <4>1
      <4>3. QED
        BY <2>1, <4>1, <4>2
    <3>3. QED
      BY <3>1, <3>2
  <2>3. QED
    BY <1>1, <2>2, SMTT(30) DEF SendFrame, GetDelete
<1>2. CASE SkipFrame(e)
  BY <1>2, SMTT(30) DEF SkipFrame
<1>3. QED
  BY <1>1, <1>2 DEF Send

\* No step uses a number before it is drawn.
LEMMA NextIssuedFirst == TypeOK /\ IssuedFirst /\ [Next]_vars => IssuedFirst'
<1> SUFFICES ASSUME TypeOK, IssuedFirst, [Next]_vars PROVE IssuedFirst'
  OBVIOUS
<1>1. CASE RequestShutdown
  BY <1>1 DEF RequestShutdown, IssuedFirst, Carrying, clientVars, processVars,
              sendVars
<1>2. CASE UNCHANGED vars
  BY <1>2 DEF vars, IssuedFirst, Carrying
<1>3. QED
  BY <1>1, <1>2, ClientIssuedFirst, ProcessIssuedFirst, SendIssuedFirst
  DEF Next, Terminated

\* Whatever the threads do, a frame under way has a number that was drawn
\* before, and the sender is past every number it encoded.
THEOREM IssuedFirstAlways == Spec => []IssuedFirst
<1>1. QED
  BY InitIssuedFirst, NextIssuedFirst, TypeCorrect, PTL DEF Spec

-----------------------------------------------------------------------------
(* The pipeline implements FrameStream *)

\* Only DrawIndex hands out a number and only SendFrame encodes a frame.
LEMMA ClientStep ==
  ASSUME TypeOK, NEW c \in Clients, Client(c)
  PROVE  [Stream!StreamNext]_(Stream!streamVars)
<1> USE DEF clientVars, processVars, sendVars, Stream!streamVars
<1>1. CASE DrawIndex(c)
  <2>1. client_eye[c] \in Eyes
    BY DEF TypeOK
  <2>2. Stream!Issue(client_eye[c])
    BY <1>1 DEF DrawIndex, Stream!Issue
  <2>3. QED
    BY <2>1, <2>2 DEF Stream!StreamNext
<1>2. CASE PushFrame(c)
  BY <1>2 DEF PushFrame
<1>3. CASE ~DrawIndex(c) /\ ~PushFrame(c)
  BY <1>3 DEF Client, ClientRuns, RendererActs,
    Connect, DrawEye, SendRequest, SendRequestFails,
              ReceiveFrame, ReceiveFrameFails, PushFrameTimeout, ClientExit
<1>4. QED
  BY <1>1, <1>2, <1>3

\* SendFrame is an Encode of its number, a timeout is a stutter.
LEMMA SendStep ==
  ASSUME TypeOK, IssuedFirst, NEW e \in Eyes, Send(e)
  PROVE  [Stream!StreamNext]_(Stream!streamVars)
<1> USE DEF clientVars, Stream!streamVars, SendNextFrame
<1>1. CASE SendFrame(e)
  <2>1. /\ send_index[e] < frame_index[e]
        /\ \A k \in 1..Len(sent[e]) : sent[e][k] < send_index[e]
    BY <1>1 DEF SendFrame, IssuedFirst
  <2>2. Stream!Encode(e, send_index[e])
    BY <1>1, <2>1 DEF SendFrame, Stream!Encode
  <2>3. send_index[e] \in 0..frame_index[e]
    BY <2>1 DEF TypeOK
  <2>4. QED
    BY <2>2, <2>3 DEF Stream!StreamNext
<1>2. CASE SkipFrame(e)
  BY <1>2 DEF SkipFrame
<1>3. QED
  BY <1>1, <1>2 DEF Send

\* A process_frame_thread neither issues nor encodes.
LEMMA ProcessStep ==
  ASSUME NEW e \in Eyes, Process(e)
  PROVE  UNCHANGED <<frame_index, sent>>
BY DEF Process, PopFrame, PopFrameTimeout, InsertFrame, InsertFrameTimeout,
       ProcessNextFrame, clientVars, sendVars

\* Every step of the pipeline is a step of FrameStream or a stutter.
LEMMA NextStep ==
  TypeOK /\ IssuedFirst /\ [Next]_vars => [Stream!StreamNext]_(Stream!streamVars)
<1> SUFFICES ASSUME TypeOK, IssuedFirst, [Next]_vars
             PROVE  [Stream!StreamNext]_(Stream!streamVars)
  OBVIOUS
<1>1. CASE RequestShutdown \/ UNCHANGED vars
  BY <1>1 DEF RequestShutdown, vars, clientVars, sendVars, Stream!streamVars
<1>2. ASSUME NEW e \in Eyes, Process(e)
      PROVE  UNCHANGED Stream!streamVars
  BY <1>2, ProcessStep DEF Stream!streamVars
<1>3. QED
  BY <1>1, <1>2, ClientStep, SendStep DEF Next, Terminated

\* With any number of renderers and queues and maps of any size the encoders of
\* a view get frames that were requested, in the order of their numbers, each at
\* most once.
THEOREM PipelineImplementsStream == Spec => ImplementsFrameStream
<1>1. Init => Stream!StreamInit
  BY DEF Init, Stream!StreamInit
<1>2. QED
  BY <1>1, NextStep, TypeCorrect, IssuedFirstAlways, PTL
  DEF Spec, ImplementsFrameStream, Stream!StreamSpec

-----------------------------------------------------------------------------
(* What a full map of old frames means *)

\* Only the insertion by the view's process_frame_thread and the removal by its
\* send_frame_thread touch a map.
LEMMA MapSteps ==
  ASSUME TypeOK, [Next]_vars, NEW e \in Eyes
  PROVE  \/ InsertFrame(e)
         \/ Send(e)
         \/ /\ frame_map'[e] = frame_map[e]
            /\ send_index'[e] = send_index[e]
            /\ sent'[e] = sent[e]
<1> USE DEF clientVars, processVars, sendVars
<1>1. ASSUME NEW c \in Clients, Client(c)
      PROVE  UNCHANGED <<frame_map, send_index, sent>>
  BY <1>1 DEF Client, ClientRuns, RendererActs,
    Connect, DrawEye, DrawIndex, SendRequest,
              SendRequestFails, ReceiveFrame, ReceiveFrameFails, PushFrame,
              PushFrameTimeout, ClientExit
<1>2. ASSUME NEW f \in Eyes, Process(f), ~InsertFrame(f)
      PROVE  UNCHANGED <<frame_map, send_index, sent>>
  BY <1>2 DEF Process, PopFrame, PopFrameTimeout, InsertFrameTimeout,
              ProcessNextFrame
<1>3. ASSUME NEW f \in Eyes, InsertFrame(f), f # e
      PROVE  /\ frame_map'[e] = frame_map[e]
             /\ UNCHANGED <<send_index, sent>>
  BY <1>3 DEF InsertFrame, ProcessNextFrame, TypeOK
<1>4. ASSUME NEW f \in Eyes, Send(f), f # e
      PROVE  /\ frame_map'[e] = frame_map[e]
             /\ send_index'[e] = send_index[e]
             /\ sent'[e] = sent[e]
  BY <1>4 DEF Send, SendFrame, SkipFrame, SendNextFrame, TypeOK
<1>5. CASE RequestShutdown \/ UNCHANGED vars
  BY <1>5 DEF RequestShutdown, vars
<1>6. QED
  BY <1>1, <1>2, <1>3, <1>4, <1>5 DEF Next, Process, Terminated

\* Neither insert nor get_delete gets anywhere on such a map.
LEMMA WedgedStep ==
  ASSUME TypeOK, [Next]_vars, NEW e \in Eyes, Wedged(e)
  PROVE  Wedged(e)' /\ sent'[e] = sent[e]
<1>1. Cardinality(frame_map[e]) \in Nat
  BY FS_CardinalityType DEF TypeOK
<1>2. ~InsertFrame(e)
  BY <1>1, PipelineAssumption DEF InsertFrame, Wedged
<1>3. ~SendFrame(e)
  BY DEF SendFrame, Wedged, TypeOK
<1>4. CASE SkipFrame(e)
  <2>1. /\ frame_map'[e] = frame_map[e]
        /\ sent'[e] = sent[e]
        /\ send_index'[e] = send_index[e] + 1
    BY <1>4 DEF SkipFrame, SendNextFrame, TypeOK
  <2>2. \A k \in frame_map[e] : k < send_index[e] + 1
    BY DEF Wedged, TypeOK
  <2>3. QED
    BY <2>1, <2>2 DEF Wedged
<1>5. CASE /\ frame_map'[e] = frame_map[e]
           /\ send_index'[e] = send_index[e]
           /\ sent'[e] = sent[e]
  BY <1>5 DEF Wedged
<1>6. QED
  BY <1>2, <1>3, <1>4, <1>5, MapSteps DEF Send

\* A map full of frames older than the one the sender waits for is a state the
\* view never leaves, whatever the sizes: nothing of it is encoded any more.
THEOREM WedgedIsForever == Spec => WedgedForever
<1>1. TypeOK /\ [Next]_vars
      => [\A e \in Eyes : Wedged(e) => Wedged(e)' /\ sent'[e] = sent[e]]_vars
  BY WedgedStep
<1>2. QED
  BY <1>1, TypeCorrect, PTL DEF Spec, WedgedForever

\* A step keeps every frame that is newer than the sender's number.
LEMMA FreshStep ==
  ASSUME TypeOK, [Next]_vars, NEW e \in Eyes, NEW k \in frame_map[e],
         k > send_index[e]
  PROVE  k \in frame_map'[e]
<1>1. CASE InsertFrame(e)
  BY <1>1 DEF InsertFrame, TypeOK
<1>2. CASE SendFrame(e)
  <2>1. frame_map'[e] = GetDelete(frame_map[e], send_index[e])
    BY <1>2 DEF SendFrame, TypeOK
  <2>2. k # send_index[e] /\ k >= send_index[e]
    BY DEF TypeOK
  <2>3. QED
    BY <2>1, <2>2 DEF GetDelete
<1>3. CASE SkipFrame(e)
  BY <1>3 DEF SkipFrame
<1>4. QED
  BY <1>1, <1>2, <1>3, MapSteps DEF Send

\* The periodic clean-up never removes a frame the sender has not reached.
THEOREM FreshFramesAlwaysKept == Spec => FreshFramesKept
<1>1. TypeOK /\ [Next]_vars
      => [\A e \in Eyes : \A k \in frame_map[e] :
            k > send_index[e] => k \in frame_map'[e]]_vars
  BY FreshStep
<1>2. QED
  BY <1>1, TypeCorrect, PTL DEF Spec, FreshFramesKept

-----------------------------------------------------------------------------
(* The views are asked for in turn *)

\* The clients between the two counters can be counted.
LEMMA UnnumberedFinite ==
  ASSUME NEW e
  PROVE  /\ IsFiniteSet(Unnumbered(e))
         /\ Cardinality(Unnumbered(e)) \in Nat
<1>1. Unnumbered(e) \subseteq Clients
  BY DEF Unnumbered
<1>2. QED
  BY <1>1, FS_Subset, FS_CardinalityType, PipelineAssumption

\* At the start no view was asked for.
LEMMA InitEyesAlternate == Init => EyesAlternate
<1> SUFFICES ASSUME Init PROVE EyesAlternate
  OBVIOUS
<1>1. Unnumbered("left") = {} /\ Unnumbered("right") = {}
  BY DEF Init, Unnumbered
<1>2. frame_index["left"] = 0 /\ frame_index["right"] = 0 /\ is_left = 0
  BY DEF Init, Eyes
<1>3. Cardinality({}) = 0
  BY FS_EmptySet
<1>4. QED
  BY <1>1, <1>2, <1>3 DEF EyesAlternate, Drawn

\* fetch_xor: one more request of the view whose turn it is.
LEMMA DrawEyeAlternates ==
  ASSUME TypeOK, EyesAlternate, NEW c \in Clients, DrawEye(c)
  PROVE  EyesAlternate'
<1> SUFFICES ASSUME NEW eye \in Eyes, NEW other \in Eyes,
                    eye = IF is_left = 1 THEN "left" ELSE "right",
                    other = IF is_left = 1 THEN "right" ELSE "left"
             PROVE  EyesAlternate'
  BY DEF Eyes
<1>1. /\ Unnumbered(eye)' = Unnumbered(eye) \cup {c}
      /\ Unnumbered(other)' = Unnumbered(other)
      /\ c \notin Unnumbered(eye)
  BY DEF DrawEye, ClientAt, Unnumbered, TypeOK
<1>2. frame_index' = frame_index /\ is_left' = 1 - is_left
  BY DEF DrawEye
<1>3. Cardinality(Unnumbered(eye) \cup {c}) = Cardinality(Unnumbered(eye)) + 1
  BY <1>1, UnnumberedFinite, FS_AddElement
<1>4. /\ frame_index[eye] \in Nat /\ frame_index[other] \in Nat
      /\ Cardinality(Unnumbered(eye)) \in Nat
      /\ Cardinality(Unnumbered(other)) \in Nat
  BY UnnumberedFinite DEF TypeOK
<1>5. /\ Drawn(eye)' = Drawn(eye) + 1
      /\ Drawn(other)' = Drawn(other)
      /\ Drawn(eye) \in Nat /\ Drawn(other) \in Nat
  <2>1. Drawn(eye)' = Drawn(eye) + 1
    <3>1. Drawn(eye)' = frame_index[eye] + Cardinality(Unnumbered(eye) \cup {c})
      BY <1>1, <1>2 DEF Drawn
    <3>2. QED
      BY <1>3, <1>4, <3>1 DEF Drawn
  <2>2. Drawn(other)' = Drawn(other)
    BY <1>1, <1>2 DEF Drawn
  <2>3. QED
    BY <1>4, <2>1, <2>2 DEF Drawn
<1>6. CASE is_left = 1
  BY <1>2, <1>5, <1>6 DEF EyesAlternate
<1>7. CASE is_left = 0
  BY <1>2, <1>5, <1>7 DEF EyesAlternate
<1>8. QED
  BY <1>6, <1>7 DEF TypeOK

\* fetch_add: a request that had a view gets its number.
LEMMA DrawIndexAlternates ==
  ASSUME TypeOK, EyesAlternate, NEW c \in Clients, DrawIndex(c)
  PROVE  EyesAlternate'
<1> SUFFICES ASSUME NEW eye \in Eyes, eye = client_eye[c]
             PROVE  EyesAlternate'
  BY DEF TypeOK
<1>1. /\ Unnumbered(eye)' = Unnumbered(eye) \ {c}
      /\ c \in Unnumbered(eye)
      /\ \A e \in Eyes \ {eye} : Unnumbered(e)' = Unnumbered(e)
  BY DEF DrawIndex, ClientAt, Unnumbered, TypeOK
<1>2. /\ eye \in Eyes
      /\ frame_index'[eye] = frame_index[eye] + 1
      /\ \A e \in Eyes \ {eye} : frame_index'[e] = frame_index[e]
      /\ is_left' = is_left
  BY DEF DrawIndex, TypeOK
<1>3. Cardinality(Unnumbered(eye) \ {c}) = Cardinality(Unnumbered(eye)) - 1
  BY <1>1, UnnumberedFinite, FS_RemoveElement
<1>4. Drawn(eye)' = Drawn(eye)
  <2>1. frame_index[eye] \in Nat /\ Cardinality(Unnumbered(eye)) \in Nat
    BY UnnumberedFinite DEF TypeOK
  <2>2. QED
    BY <1>1, <1>2, <1>3, <2>1 DEF Drawn
<1>5. \A e \in Eyes : Drawn(e)' = Drawn(e)
  BY <1>1, <1>2, <1>4 DEF Drawn
<1>6. QED
  BY <1>2, <1>5 DEF EyesAlternate, Eyes

\* No step of a client but the two draws counts.
LEMMA ClientAlternates ==
  ASSUME TypeOK, EyesAlternate, NEW c \in Clients, Client(c)
  PROVE  EyesAlternate'
<1>1. CASE ~DrawEye(c) /\ ~DrawIndex(c)
  <2>1. UNCHANGED <<is_left, frame_index>>
    BY <1>1 DEF Client, ClientRuns, RendererActs,
      Connect, SendRequest, SendRequestFails, ReceiveFrame,
                ReceiveFrameFails, PushFrame, PushFrameTimeout, ClientExit
  <2>2. /\ client_pc[c] # "index" /\ client_pc'[c] # "index"
        /\ \A d \in Clients \ {c} : /\ client_pc'[d] = client_pc[d]
                                    /\ client_eye'[d] = client_eye[d]
    BY <1>1 DEF Client, ClientRuns, RendererActs,
      Connect, SendRequest, SendRequestFails, ReceiveFrame,
                ReceiveFrameFails, PushFrame, PushFrameTimeout, ClientExit,
                ClientAt, ClientForgets, TypeOK
  <2>3. \A e \in Eyes : Unnumbered(e)' = Unnumbered(e)
    BY <2>2 DEF Unnumbered
  <2>4. QED
    BY <2>1, <2>3 DEF EyesAlternate, Drawn, Eyes
<1>2. QED
  BY <1>1, DrawEyeAlternates, DrawIndexAlternates

\* No step of the program disturbs the turns.
LEMMA NextEyesAlternate == TypeOK /\ EyesAlternate /\ [Next]_vars => EyesAlternate'
<1> SUFFICES ASSUME TypeOK, EyesAlternate, [Next]_vars PROVE EyesAlternate'
  OBVIOUS
<1>1. CASE UNCHANGED clientVars
  BY <1>1 DEF clientVars, EyesAlternate, Drawn, Unnumbered
<1>2. CASE UNCHANGED vars
  BY <1>2 DEF vars, EyesAlternate, Drawn, Unnumbered
<1>3. ASSUME NEW e \in Eyes, Process(e) \/ Send(e)
      PROVE  UNCHANGED clientVars
  BY <1>3 DEF Process, PopFrame, PopFrameTimeout, InsertFrame,
              InsertFrameTimeout, ProcessNextFrame, Send, SendFrame, SkipFrame,
              SendNextFrame
<1>4. QED
  BY <1>1, <1>2, <1>3, ClientAlternates DEF Next, RequestShutdown, Terminated

\* However many client threads interleave, the two views are requested in turn.
THEOREM EyesAlwaysAlternate == Spec => []EyesAlternate
<1>1. QED
  BY InitEyesAlternate, NextEyesAlternate, TypeCorrect, PTL DEF Spec

-----------------------------------------------------------------------------
(* A frame is in one place *)

\* At the start no frame is anywhere.
LEMMA InitFrameInOnePlace == Init => FrameInOnePlace
<1> SUFFICES ASSUME Init, NEW e \in Eyes
             PROVE  NumbersDiffer(e) /\ PlacesDisjoint(e)
  BY DEF FrameInOnePlace
<1>1. /\ \A c \in Clients : ~Carrying(c, e)
      /\ frame_queue[e] = <<>>
      /\ process_pc[e] # "insert"
      /\ frame_map[e] = {}
      /\ sent[e] = <<>>
  BY DEF Init, Carrying
<1>2. AtClients(e) = {} /\ Queued(e) = {} /\ AtProcessor(e) = {}
  BY <1>1 DEF AtClients, Queued, AtProcessor
<1>3. QED
  BY <1>1, <1>2 DEF NumbersDiffer, PlacesDisjoint

\* Five sets that only shrink stay disjoint.
LEMMA ShrinkingPlaces ==
  ASSUME NEW e,
         PlacesDisjoint(e),
         AtClients(e)' \subseteq AtClients(e),
         Queued(e)' \subseteq Queued(e),
         AtProcessor(e)' \subseteq AtProcessor(e),
         frame_map'[e] \subseteq frame_map[e],
         Sent(e)' \subseteq Sent(e)
  PROVE  PlacesDisjoint(e)'
BY DEF PlacesDisjoint

\* The steps of a client that neither draw a number nor push a frame.
LEMMA ClientKeepsPlaces ==
  ASSUME TypeOK, FrameInOnePlace, NEW c \in Clients, Client(c),
         ~DrawIndex(c), ~PushFrame(c)
  PROVE  FrameInOnePlace'
<1> SUFFICES ASSUME NEW e \in Eyes
             PROVE  NumbersDiffer(e)' /\ PlacesDisjoint(e)'
  BY DEF FrameInOnePlace
<1> USE DEF processVars, sendVars
<1>1. UNCHANGED <<frame_queue, process_pc, process_index, frame_map, sent>>
  BY DEF Client, ClientRuns, RendererActs,
    Connect, DrawEye, SendRequest, SendRequestFails, ReceiveFrame,
         ReceiveFrameFails, PushFrameTimeout, ClientExit
<1>2. ASSUME NEW d \in Clients, Carrying(d, e)'
      PROVE  Carrying(d, e) /\ client_index'[d] = client_index[d]
  BY <1>2 DEF Client, ClientRuns, RendererActs,
    Connect, DrawEye, SendRequest, SendRequestFails,
         ReceiveFrame, ReceiveFrameFails, PushFrameTimeout, ClientExit,
         ClientAt, ClientForgets, Carrying, TypeOK
<1>3. NumbersDiffer(e)'
  BY <1>1, <1>2 DEF FrameInOnePlace, NumbersDiffer
<1>4. /\ AtClients(e)' \subseteq AtClients(e)
      /\ Queued(e)' = Queued(e)
      /\ AtProcessor(e)' = AtProcessor(e)
      /\ Sent(e)' = Sent(e)
  BY <1>1, <1>2 DEF AtClients, Queued, AtProcessor, Sent
<1>5. QED
  BY <1>1, <1>3, <1>4, ShrinkingPlaces DEF FrameInOnePlace

\* A number that was just drawn is nowhere yet.
LEMMA DrawIndexPlaces ==
  ASSUME TypeOK, IssuedFirst, FrameInOnePlace, NEW c \in Clients, DrawIndex(c)
  PROVE  FrameInOnePlace'
<1> SUFFICES ASSUME NEW e \in Eyes
             PROVE  NumbersDiffer(e)' /\ PlacesDisjoint(e)'
  BY DEF FrameInOnePlace
<1>1. /\ UNCHANGED <<frame_queue, process_pc, process_index, frame_map, sent>>
      /\ client_index'[c] = frame_index[client_eye[c]]
      /\ ~Carrying(c, e)
      /\ Carrying(c, e)' => client_index'[c] = frame_index[e]
  BY DEF DrawIndex, ClientAt, Carrying, processVars, sendVars, TypeOK
<1>2. ASSUME NEW d \in Clients, d # c
      PROVE  /\ Carrying(d, e)' <=> Carrying(d, e)
             /\ client_index'[d] = client_index[d]
  BY <1>2 DEF DrawIndex, ClientAt, Carrying, TypeOK
<1>3. frame_index[e] \in Nat
  BY DEF TypeOK
<1>4. ASSUME NEW d \in Clients, Carrying(d, e)
      PROVE  client_index[d] # frame_index[e]
  BY <1>3, <1>4 DEF IssuedFirst, TypeOK
<1>5. frame_index[e] \notin Queued(e) \cup AtProcessor(e) \cup frame_map[e] \cup Sent(e)
  <2>1. frame_index[e] \notin Queued(e)
    BY <1>3 DEF IssuedFirst, Queued, TypeOK
  <2>2. frame_index[e] \notin AtProcessor(e)
    BY <1>3 DEF IssuedFirst, AtProcessor, TypeOK
  <2>3. frame_index[e] \notin frame_map[e]
    BY <1>3 DEF IssuedFirst, TypeOK
  <2>4. frame_index[e] \notin Sent(e)
    BY <1>3 DEF IssuedFirst, Sent, TypeOK
  <2>5. QED
    BY <2>1, <2>2, <2>3, <2>4
<1>6. NumbersDiffer(e)'
  BY <1>1, <1>2, <1>4 DEF FrameInOnePlace, NumbersDiffer
<1>7. /\ AtClients(e)' \subseteq AtClients(e) \cup {frame_index[e]}
      /\ Queued(e)' = Queued(e)
      /\ AtProcessor(e)' = AtProcessor(e)
      /\ Sent(e)' = Sent(e)
  BY <1>1, <1>2 DEF AtClients, Queued, AtProcessor, Sent
<1>8. QED
  BY <1>1, <1>5, <1>6, <1>7 DEF FrameInOnePlace, PlacesDisjoint

\* FrameQueue::push moves a number from the client to the queue.
LEMMA PushFramePlaces ==
  ASSUME TypeOK, FrameInOnePlace, NEW c \in Clients, PushFrame(c)
  PROVE  FrameInOnePlace'
<1> SUFFICES ASSUME NEW e \in Eyes
             PROVE  NumbersDiffer(e)' /\ PlacesDisjoint(e)'
  BY DEF FrameInOnePlace
<1> USE DEF processVars, sendVars
<1>1. /\ UNCHANGED <<process_pc, process_index, frame_map, sent>>
      /\ AtProcessor(e)' = AtProcessor(e)
      /\ Sent(e)' = Sent(e)
  BY DEF PushFrame, AtProcessor, Sent
<1>2. ASSUME NEW d \in Clients, Carrying(d, e)'
      PROVE  d # c /\ Carrying(d, e) /\ client_index'[d] = client_index[d]
  BY <1>2 DEF PushFrame, ClientAt, ClientForgets, Carrying, TypeOK
<1>3. AtClients(e)' \subseteq AtClients(e)
  BY <1>2 DEF AtClients
<1>4. CASE e # client_eye[c]
  <2>1. frame_queue'[e] = frame_queue[e]
    BY <1>4 DEF PushFrame, TypeOK
  <2>2. NumbersDiffer(e)'
    BY <1>2, <2>1 DEF FrameInOnePlace, NumbersDiffer
  <2>3. Queued(e)' = Queued(e)
    BY <2>1 DEF Queued
  <2>4. QED
    BY <1>1, <1>3, <2>2, <2>3, ShrinkingPlaces DEF FrameInOnePlace
<1>5. CASE e = client_eye[c]
  <2> DEFINE i == client_index[c]
  <2>1. /\ Carrying(c, e)
        /\ i \in Nat
        /\ frame_queue[e] \in Seq(Nat)
        /\ frame_queue'[e] = Append(frame_queue[e], i)
    BY <1>5 DEF PushFrame, ClientAt, Carrying, TypeOK
  <2>2. i \in AtClients(e) /\ i \notin AtClients(e)'
    BY <1>2, <2>1 DEF AtClients, FrameInOnePlace, NumbersDiffer
  <2>3. i \notin Queued(e) \cup AtProcessor(e) \cup frame_map[e] \cup Sent(e)
    BY <2>2 DEF FrameInOnePlace, PlacesDisjoint
  <2>4. ASSUME NEW k \in 1..Len(frame_queue'[e])
        PROVE  /\ Len(frame_queue'[e]) = Len(frame_queue[e]) + 1
               /\ k = Len(frame_queue[e]) + 1 => frame_queue'[e][k] = i
               /\ k # Len(frame_queue[e]) + 1
                    => /\ k \in 1..Len(frame_queue[e])
                       /\ frame_queue'[e][k] = frame_queue[e][k]
                       /\ frame_queue'[e][k] # i
    BY <2>1, <2>3, AppendElement DEF Queued
  <2>5. Queued(e)' \subseteq Queued(e) \cup {i}
    BY <2>4 DEF Queued
  <2>6. NumbersDiffer(e)'
    BY <1>2, <2>4 DEF FrameInOnePlace, NumbersDiffer
  <2>7. QED
    BY <1>1, <1>3, <2>2, <2>3, <2>5, <2>6 DEF FrameInOnePlace, PlacesDisjoint
<1>6. QED
  BY <1>4, <1>5

\* Nothing of a view moves unless one of its own threads does.
LEMMA OtherView ==
  ASSUME TypeOK, FrameInOnePlace, NEW e \in Eyes, NEW f \in Eyes, e # f,
         Process(f) \/ Send(f)
  PROVE  NumbersDiffer(e)' /\ PlacesDisjoint(e)'
<1>1. /\ UNCHANGED clientVars
      /\ frame_queue'[e] = frame_queue[e]
      /\ process_pc'[e] = process_pc[e]
      /\ process_index'[e] = process_index[e]
      /\ frame_map'[e] = frame_map[e]
      /\ sent'[e] = sent[e]
  <2>1. CASE Process(f)
    BY <2>1 DEF Process, PopFrame, PopFrameTimeout, InsertFrame,
       InsertFrameTimeout, ProcessNextFrame, sendVars, TypeOK
  <2>2. CASE Send(f)
    BY <2>2 DEF Send, SendFrame, SkipFrame, SendNextFrame, processVars, TypeOK
  <2>3. QED
    BY <2>1, <2>2
<1>2. /\ AtClients(e)' = AtClients(e)
      /\ Queued(e)' = Queued(e)
      /\ AtProcessor(e)' = AtProcessor(e)
      /\ Sent(e)' = Sent(e)
  BY <1>1 DEF AtClients, Carrying, Queued, AtProcessor, Sent, clientVars
<1>3. NumbersDiffer(e)'
  BY <1>1 DEF FrameInOnePlace, NumbersDiffer, Carrying, clientVars
<1>4. QED
  BY <1>1, <1>2, <1>3, ShrinkingPlaces DEF FrameInOnePlace

\* FrameQueue::pop moves a number from the queue to the processor, which
\* FrameMap::insert moves on to the map or a timeout drops.
LEMMA ProcessPlaces ==
  ASSUME TypeOK, FrameInOnePlace, NEW e \in Eyes, Process(e)
  PROVE  NumbersDiffer(e)' /\ PlacesDisjoint(e)'
<1> USE DEF sendVars
<1>1. UNCHANGED <<client_pc, client_eye, client_index, sent>>
  BY DEF Process, PopFrame, PopFrameTimeout, InsertFrame, InsertFrameTimeout,
         ProcessNextFrame, clientVars
<1>2. AtClients(e)' = AtClients(e) /\ Sent(e)' = Sent(e)
  BY <1>1 DEF AtClients, Carrying, Sent
<1>3. CASE PopFrame(e)
  <2> DEFINE i == Head(frame_queue[e])
  <2>1. /\ frame_queue[e] \in Seq(Nat) /\ frame_queue[e] # <<>>
        /\ frame_queue'[e] = Tail(frame_queue[e])
        /\ process_pc[e] = "pop" /\ process_pc'[e] = "insert"
        /\ process_index'[e] = i
        /\ frame_map' = frame_map
    BY <1>3 DEF PopFrame, TypeOK
  <2>2. /\ Len(frame_queue[e]) \in Nat
        /\ 1 \in 1..Len(frame_queue[e])
        /\ i = frame_queue[e][1]
        /\ Len(frame_queue'[e]) = Len(frame_queue[e]) - 1
        /\ \A k \in 1..Len(frame_queue'[e]) :
             /\ k + 1 \in 1..Len(frame_queue[e])
             /\ frame_queue'[e][k] = frame_queue[e][k + 1]
    BY <2>1
  <2>3. \A j, k \in 1..Len(frame_queue[e]) :
          frame_queue[e][j] = frame_queue[e][k] => j = k
    BY DEF FrameInOnePlace, NumbersDiffer
  <2>4. \A k \in 1..Len(frame_queue'[e]) : frame_queue'[e][k] # i
    <3> SUFFICES ASSUME NEW k \in 1..Len(frame_queue'[e]), frame_queue'[e][k] = i
                 PROVE  FALSE
      OBVIOUS
    <3>1. k + 1 = 1
      BY <2>2, <2>3
    <3>2. QED
      BY <2>2, <3>1
  <2>5. /\ i \in Queued(e)
        /\ Queued(e)' \subseteq Queued(e) \ {i}
        /\ AtProcessor(e) = {}
        /\ AtProcessor(e)' = {i}
    BY <2>1, <2>2, <2>4 DEF Queued, AtProcessor
  <2>6. NumbersDiffer(e)'
    <3>1. ASSUME NEW j \in 1..Len(frame_queue'[e]), NEW k \in 1..Len(frame_queue'[e]),
                 frame_queue'[e][j] = frame_queue'[e][k]
          PROVE  j = k
      BY <2>2, <2>3, <3>1
    <3>2. QED
      BY <1>1, <3>1 DEF FrameInOnePlace, NumbersDiffer, Carrying
  <2>7. QED
    BY <1>2, <2>1, <2>5, <2>6 DEF FrameInOnePlace, PlacesDisjoint
<1>4. CASE ~PopFrame(e)
  <2>1. frame_queue' = frame_queue
    BY <1>4 DEF Process, PopFrameTimeout, InsertFrame, InsertFrameTimeout,
                ProcessNextFrame
  <2>2. NumbersDiffer(e)' /\ Queued(e)' = Queued(e)
    BY <1>1, <2>1 DEF FrameInOnePlace, NumbersDiffer, Carrying, Queued
  <2>3. process_pc'[e] # "insert"
    BY <1>4 DEF Process, PopFrameTimeout, InsertFrame, InsertFrameTimeout,
                ProcessNextFrame, LoopTop, TypeOK
  <2>4. AtProcessor(e)' = {}
    BY <2>3 DEF AtProcessor
  <2>5. frame_map'[e] \subseteq frame_map[e] \cup AtProcessor(e)
    BY <1>4 DEF Process, PopFrameTimeout, InsertFrame, InsertFrameTimeout,
                ProcessNextFrame, AtProcessor, TypeOK
  <2>6. QED
    BY <1>2, <2>2, <2>4, <2>5 DEF FrameInOnePlace, PlacesDisjoint
<1>5. QED
  BY <1>3, <1>4

\* FrameMap::get_delete takes the number out of the map before it is encoded.
LEMMA SendPlaces ==
  ASSUME TypeOK, FrameInOnePlace, NEW e \in Eyes, Send(e)
  PROVE  NumbersDiffer(e)' /\ PlacesDisjoint(e)'
<1>1. UNCHANGED <<client_pc, client_eye, client_index, frame_queue, process_pc,
                  process_index>>
  BY DEF Send, SendFrame, SkipFrame, SendNextFrame, clientVars, processVars
<1>2. /\ NumbersDiffer(e)'
      /\ AtClients(e)' = AtClients(e)
      /\ Queued(e)' = Queued(e)
      /\ AtProcessor(e)' = AtProcessor(e)
  BY <1>1 DEF FrameInOnePlace, NumbersDiffer, Carrying, AtClients, Queued,
              AtProcessor
<1>3. CASE SkipFrame(e)
  BY <1>2, <1>3, ShrinkingPlaces DEF SkipFrame, Sent, FrameInOnePlace
<1>4. CASE SendFrame(e)
  <2> DEFINE i == send_index[e]
  <2>1. /\ sent[e] \in Seq(Nat) /\ i \in Nat
        /\ sent'[e] = Append(sent[e], i)
        /\ i \in frame_map[e]
        /\ frame_map'[e] \subseteq frame_map[e] \ {i}
    BY <1>4 DEF SendFrame, GetDelete, TypeOK
  <2>2. Sent(e)' \subseteq Sent(e) \cup {i}
    BY <2>1, AppendElement DEF Sent
  <2>3. QED
    BY <1>2, <2>1, <2>2 DEF FrameInOnePlace, PlacesDisjoint
<1>5. QED
  BY <1>3, <1>4 DEF Send

\* No step of the program puts a frame in a second place.
LEMMA NextFrameInOnePlace ==
  TypeOK /\ IssuedFirst /\ FrameInOnePlace /\ [Next]_vars => FrameInOnePlace'
<1> SUFFICES ASSUME TypeOK, IssuedFirst, FrameInOnePlace, [Next]_vars
             PROVE  FrameInOnePlace'
  OBVIOUS
<1>1. CASE RequestShutdown \/ UNCHANGED vars
  <2>1. UNCHANGED <<client_pc, client_eye, client_index, frame_queue, process_pc,
                    process_index, frame_map, sent>>
    BY <1>1 DEF RequestShutdown, vars, clientVars, processVars, sendVars
  <2>2. \A e \in Eyes : /\ NumbersDiffer(e)' <=> NumbersDiffer(e)
                        /\ AtClients(e)' = AtClients(e)
                        /\ Queued(e)' = Queued(e)
                        /\ AtProcessor(e)' = AtProcessor(e)
                        /\ Sent(e)' = Sent(e)
    BY <2>1 DEF NumbersDiffer, Carrying, AtClients, Queued, AtProcessor, Sent
  <2>3. QED
    BY <2>1, <2>2 DEF FrameInOnePlace, PlacesDisjoint
<1>2. ASSUME NEW f \in Eyes, Process(f) \/ Send(f)
      PROVE  FrameInOnePlace'
  BY <1>2, OtherView, ProcessPlaces, SendPlaces DEF FrameInOnePlace
<1>3. ASSUME NEW c \in Clients, Client(c)
      PROVE  FrameInOnePlace'
  BY <1>3, ClientKeepsPlaces, DrawIndexPlaces, PushFramePlaces
<1>4. QED
  BY <1>1, <1>2, <1>3 DEF Next, Terminated

\* With any number of renderers a frame of a view is owned by one thread or
\* container at a time.
THEOREM FrameAlwaysInOnePlace == Spec => []FrameInOnePlace
<1>1. QED
  BY InitFrameInOnePlace, NextFrameInOnePlace, TypeCorrect, IssuedFirstAlways,
     PTL DEF Spec
=============================================================================
