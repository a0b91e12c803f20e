----------------------------- MODULE FrameBuffers -----------------------------
(***************************************************************************)
(* Who owns the memory of a RenderedFrame on its way from the client       *)
(* thread to the encoders: the renderer's message, which the two source    *)
(* FrameManagers point into, the images the two converted FrameManagers    *)
(* allocate, and the image each AVFrameWrapper allocates.                  *)
(*                                                                         *)
(* The frame itself is a unique_ptr that is moved from thread to thread    *)
(* (FramePipeline) and destroyed by whichever thread drops it.             *)
(* libavutil is external: av_image_fill_pointers overwrites the pointers,  *)
(* av_frame_unref clears them and frees nothing that is not reference      *)
(* counted; avcodec_send_frame copies the image, or returns EINVAL when    *)
(* there is none.                                                          *)
(***************************************************************************)
EXTENDS FiniteSets

CONSTANTS Frames,
          Null

VARIABLES
  program,     \* "running", or "aborted" by an exception
  pc,          \* what has been done with each frame
  live,        \* the allocated buffers
  data,        \* data[0] of the four FrameManagers of each frame
  owns,        \* those with m_should_free_buffer
  avframe,     \* data[0] of the AVFrame of each frame
  refreed,     \* history: buffers that were freed when they were not live
  wrapped      \* history: images that AVFrameWrappers allocated

vars == <<program, pc, live, data, owns, avframe, refreed, wrapped>>

Streams == {"scene", "depth"}
Source == [scene |-> "source_scene", depth |-> "source_depth"]
Converted == [scene |-> "converted_scene", depth |-> "converted_depth"]
Managers == {Source[s] : s \in Streams} \cup {Converted[s] : s \in Streams}

\* Buffers are told apart by their frame and by what allocated them.
Message(f) == <<f, "m_frame_response">>
Image(f, m) == <<f, m>>
Wrapper(f, s) == <<f, s>>
Buffers == Frames \X (Managers \cup Streams \cup {"m_frame_response"})

\* nullptr is the address of no buffer.
ASSUME NullAssumption == Null \notin Buffers

Init ==
  /\ program = "running"
  /\ pc = [f \in Frames |-> "none"]
  /\ live = {}
  /\ data = [f \in Frames |-> [m \in Managers |-> Null]]
  /\ owns = [f \in Frames |-> {}]
  /\ avframe = [f \in Frames |-> Null]
  /\ refreed = {}
  /\ wrapped = {}

\* The buffers B are freed.
Free(B) == /\ live' = live \ B
           /\ refreed' = refreed \cup (B \ live)

-----------------------------------------------------------------------------
(* The client thread *)

\* Mutant of ConstructFrame: the sources point into the constructor's argument.
ConstructFromArgument(f) ==
  /\ program = "running" /\ pc[f] = "none"
  /\ data' = [data EXCEPT ![f] = [m \in Managers |-> Image(f, m)]]
  /\ live' = live \cup {Message(f)} \cup {Image(f, Converted[s]) : s \in Streams}
  /\ owns' = [owns EXCEPT ![f] = {Converted[s] : s \in Streams}]
  /\ pc' = [pc EXCEPT ![f] = "received"]
  /\ UNCHANGED <<program, avframe, refreed, wrapped>>

\* The constructors of RenderedFrame and of its FrameManagers.  When
\* av_image_alloc fails the exception is constructed and not thrown.
ConstructFrame(f) ==
  /\ program = "running" /\ pc[f] = "none"
  /\ \E failed \in SUBSET Streams :
       /\ data' = [data EXCEPT ![f] =
                     [m \in Managers |->
                        IF \E s \in Streams : m = Source[s] THEN Message(f)
                        ELSE IF \E s \in failed : m = Converted[s] THEN Null
                        ELSE Image(f, m)]]
       /\ live' = live \cup {Message(f)}
                       \cup {Image(f, Converted[s]) : s \in Streams \ failed}
  /\ owns' = [owns EXCEPT ![f] = {Converted[s] : s \in Streams}]
  /\ pc' = [pc EXCEPT ![f] = "received"]
  /\ UNCHANGED <<program, avframe, refreed, wrapped>>

\* Mutant of Destroy: ~FrameManager does nothing.
DestroyMessage(f) ==
  /\ Free({Message(f)})
  /\ data' = [data EXCEPT ![f] = [m \in Managers |-> Null]]
  /\ pc' = [pc EXCEPT ![f] = "destroyed"]
  /\ UNCHANGED <<program, owns, avframe, wrapped>>

\* The destructors of RenderedFrame and its members.
Destroy(f) ==
  /\ Free({Message(f)} \cup ({data[f][m] : m \in owns[f]} \ {Null}))
  /\ data' = [data EXCEPT ![f] = [m \in Managers |-> Null]]
  /\ pc' = [pc EXCEPT ![f] = "destroyed"]
  /\ UNCHANGED <<program, owns, avframe, wrapped>>

\* push or insert throws LockTimeout and the frame goes out of scope, or
\* FrameMap drops it when it cleans up, or the program ends.
DropFrame(f) == /\ program = "running" /\ pc[f] \in {"received", "converted"}
                /\ Destroy(f)

-----------------------------------------------------------------------------
(* The process thread *)

\* convert_frame; sws_scale into a null pointer does nothing.
ConvertFrame(f) ==
  /\ program = "running" /\ pc[f] = "received"
  /\ pc' = [pc EXCEPT ![f] = "converted"]
  /\ UNCHANGED <<program, live, data, owns, avframe, refreed, wrapped>>

\* sws_getContext fails: nothing on the thread catches the exception.
ConvertFails(f) ==
  /\ program = "running" /\ pc[f] = "received"
  /\ program' = "aborted"
  /\ UNCHANGED <<pc, live, data, owns, avframe, refreed, wrapped>>

-----------------------------------------------------------------------------
(* The send thread: a wrapper for the scene, then one for the depth *)

\* Where a frame is before, with and after the wrapper of a stream.
Before == [scene |-> "converted", depth |-> "scene_sent"]
With == [scene |-> "scene_wrapped", depth |-> "depth_wrapped"]
After == [scene |-> "scene_sent", depth |-> "depth_sent"]

\* The constructor of AVFrameWrapper.
Wrap(f, s) ==
  /\ program = "running" /\ pc[f] = Before[s]
  /\ live' = live \cup {Wrapper(f, s)}
  /\ wrapped' = wrapped \cup {Wrapper(f, s)}
  /\ avframe' = [avframe EXCEPT ![f] = data[f][Converted[s]]]
  /\ pc' = [pc EXCEPT ![f] = With[s]]
  /\ UNCHANGED <<program, data, owns, refreed>>

\* av_frame_alloc or av_image_alloc fails.
WrapFails(f, s) ==
  /\ program = "running" /\ pc[f] = Before[s]
  /\ program' = "aborted"
  /\ UNCHANGED <<pc, live, data, owns, avframe, refreed, wrapped>>

\* Mutant of SendAndUnwrap: av_freep before av_frame_unref.
SendAndFree(f, s) ==
  /\ program = "running" /\ pc[f] = With[s]
  /\ Free({avframe[f]} \ {Null})
  /\ avframe' = [avframe EXCEPT ![f] = Null]
  /\ pc' = [pc EXCEPT ![f] = After[s]]
  /\ UNCHANGED <<program, data, owns, wrapped>>

\* send_frame, and the destructor of AVFrameWrapper at the end of the expression:
\* after av_frame_unref av_freep frees a null pointer.  Whatever send_frame
\* returns, EINVAL for a missing image too, the thread goes on.
SendAndUnwrap(f, s) ==
  /\ program = "running" /\ pc[f] = With[s]
  /\ avframe' = [avframe EXCEPT ![f] = Null]
  /\ pc' = [pc EXCEPT ![f] = After[s]]
  /\ UNCHANGED <<program, live, data, owns, refreed, wrapped>>

\* The end of the iteration.
FinishFrame(f) == /\ program = "running" /\ pc[f] = "depth_sent"
                  /\ Destroy(f)

Terminated == /\ \/ program = "aborted"
                 \/ \A f \in Frames : pc[f] = "destroyed"
              /\ UNCHANGED vars

Next == \/ \E f \in Frames :
             \/ ConstructFrame(f) \/ DropFrame(f) \/ FinishFrame(f)
             \/ ConvertFrame(f) \/ ConvertFails(f)
             \/ \E s \in Streams : Wrap(f, s) \/ WrapFails(f, s) \/ SendAndUnwrap(f, s)
        \/ Terminated

Spec == Init /\ [][Next]_vars

-----------------------------------------------------------------------------
(* Properties *)

\* The FrameManagers of a frame that is under way, and an AVFrame, never point
\* to memory that has been given back or was never theirs.
PointersAreLive ==
  \A f \in Frames : /\ \A m \in Managers : data[f][m] \in live \cup {Null}
                    /\ avframe[f] \in live \cup {Null}

\* Nothing is freed twice, although the AVFrame shares the image of a
\* FrameManager, which shares the bytes of the message, and all three have
\* destructors that free.
FreedOnce == refreed = {}

\* Wherever a frame is dropped, all of it is given back but the images its
\* AVFrameWrappers allocated, and those are never given back: av_freep comes
\* after av_frame_unref.
ExactlyWrappersLeak ==
  \A f \in Frames : pc[f] = "destroyed" =>
    {b \in live : b[1] = f} = {b \in wrapped : b[1] = f}
=============================================================================
