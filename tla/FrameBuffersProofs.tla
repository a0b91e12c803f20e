-------------------------- MODULE FrameBuffersProofs --------------------------
(***************************************************************************)
(* What is proved of FrameBuffers for any number of frames.                *)
(***************************************************************************)
EXTENDS FrameBuffers, TLAPS

-----------------------------------------------------------------------------
(* The inductive invariant *)

UnderWay == {"received", "converted", "scene_wrapped", "scene_sent",
             "depth_wrapped", "depth_sent"}

\* The buffers of a set that belong to a frame.
Of(B, f) == {b \in B : b[1] = f}

\* The images of the converted FrameManagers that were allocated.
Images(f) == {data[f][Converted[s]] : s \in Streams} \ {Null}

TypeInv == /\ pc \in [Frames -> UnderWay \cup {"none", "destroyed"}]
           /\ live \subseteq Buffers
           /\ wrapped \subseteq Buffers
           /\ data \in [Frames -> [Managers -> Buffers \cup {Null}]]
           /\ owns \in [Frames -> SUBSET Managers]
           /\ avframe \in [Frames -> Buffers \cup {Null}]

\* A frame under way owns its message, its images and its wrappers, of which the
\* first two are where its FrameManagers point.
OwnsItsBuffers(f) ==
  /\ owns[f] = {Converted[s] : s \in Streams}
  /\ \A s \in Streams : /\ data[f][Source[s]] = Message(f)
                        /\ data[f][Converted[s]] \in {Null, Image(f, Converted[s])}
  /\ Of(live, f) = {Message(f)} \cup Images(f) \cup Of(wrapped, f)

\* Before and after that it has no pointers and nothing but wrappers.
HasNoBuffers(f) == /\ \A m \in Managers : data[f][m] = Null
                   /\ Of(live, f) = Of(wrapped, f)

\* While there is an AVFrameWrapper, its AVFrame points to the converted image.
SharesImage(f) ==
  /\ \A s \in Streams : pc[f] = With[s] => avframe[f] = data[f][Converted[s]]
  /\ (\A s \in Streams : pc[f] # With[s]) => avframe[f] = Null

FrameInv(f) == /\ IF pc[f] \in UnderWay THEN OwnsItsBuffers(f) ELSE HasNoBuffers(f)
               /\ Of(wrapped, f) \subseteq {Wrapper(f, s) : s \in Streams}
               /\ SharesImage(f)

BufferInv == /\ TypeInv
             /\ refreed = {}
             /\ \A f \in Frames : FrameInv(f)

-----------------------------------------------------------------------------
(* Names and buffers *)

\* The four FrameManagers and the two streams by their names.
LEMMA Names ==
  /\ Streams = {"scene", "depth"}
  /\ Managers = {"source_scene", "source_depth", "converted_scene", "converted_depth"}
  /\ Source["scene"] = "source_scene" /\ Source["depth"] = "source_depth"
  /\ Converted["scene"] = "converted_scene" /\ Converted["depth"] = "converted_depth"
BY DEF Streams, Source, Converted, Managers

\* Every buffer belongs to the frame it was allocated for, and none is nullptr.
LEMMA BufferOfFrame ==
  ASSUME NEW f \in Frames
  PROVE  /\ Message(f) \in Buffers /\ Message(f)[1] = f /\ Message(f) # Null
         /\ \A m \in Managers : /\ Image(f, m) \in Buffers /\ Image(f, m)[1] = f
                               /\ Image(f, m) # Null /\ Image(f, m) # Message(f)
         /\ \A s \in Streams :
              /\ Wrapper(f, s) \in Buffers /\ Wrapper(f, s)[1] = f
              /\ Wrapper(f, s) # Message(f)
              /\ \A m \in Managers : Wrapper(f, s) # Image(f, m)
BY NullAssumption, Names DEF Message, Image, Wrapper, Buffers

\* What is done for one frame does not concern another.
LEMMA OtherFrame ==
  ASSUME NEW g \in Frames, FrameInv(g),
         pc'[g] = pc[g], data'[g] = data[g], owns'[g] = owns[g],
         avframe'[g] = avframe[g],
         Of(live', g) = Of(live, g), Of(wrapped', g) = Of(wrapped, g)
  PROVE  FrameInv(g)'
<1>1. Images(g)' = Images(g)
  BY DEF Images
<1>2. Of(live, g)' = Of(live', g) /\ Of(wrapped, g)' = Of(wrapped', g)
  BY DEF Of
<1>3. OwnsItsBuffers(g) <=> OwnsItsBuffers(g)'
  BY <1>1, <1>2 DEF OwnsItsBuffers
<1>4. HasNoBuffers(g) <=> HasNoBuffers(g)'
  BY <1>2 DEF HasNoBuffers
<1>5. SharesImage(g) <=> SharesImage(g)'
  BY DEF SharesImage
<1>6. QED
  BY <1>2, <1>3, <1>4, <1>5 DEF FrameInv

-----------------------------------------------------------------------------
(* Every step keeps it *)

\* No frame has been received.
LEMMA InitBufferInv == Init => BufferInv
<1> SUFFICES ASSUME Init PROVE BufferInv
  OBVIOUS
<1>1. TypeInv
  BY Names DEF Init, TypeInv, UnderWay
<1>2. ASSUME NEW f \in Frames PROVE FrameInv(f)
  <2>1. pc[f] = "none" /\ avframe[f] = Null /\ live = {} /\ wrapped = {}
        /\ \A m \in Managers : data[f][m] = Null
    BY DEF Init
  <2>2. HasNoBuffers(f) /\ Of(wrapped, f) = {}
    BY <2>1 DEF HasNoBuffers, Of
  <2>3. SharesImage(f)
    BY <2>1 DEF SharesImage, With, Streams
  <2>4. QED
    BY <2>1, <2>2, <2>3 DEF FrameInv, UnderWay
<1>3. QED
  BY <1>1, <1>2 DEF BufferInv, Init

\* The constructors allocate the message and the images that can be had.
LEMMA ConstructKeeps ==
  ASSUME BufferInv, NEW f \in Frames, ConstructFrame(f)
  PROVE  BufferInv'
<1> USE DEF BufferInv
<1> DEFINE D(failed) == [m \in Managers |->
                          IF \E s \in Streams : m = Source[s] THEN Message(f)
                          ELSE IF \E s \in failed : m = Converted[s] THEN Null
                          ELSE Image(f, m)]
           A(failed) == {Message(f)}
                          \cup {Image(f, Converted[s]) : s \in Streams \ failed}
<1>1. PICK failed \in SUBSET Streams :
             /\ data' = [data EXCEPT ![f] = D(failed)]
             /\ live' = live \cup A(failed)
  BY DEF ConstructFrame
<1>2. /\ D(failed) \in [Managers -> Buffers \cup {Null}]
      /\ \A s \in Streams :
           /\ D(failed)[Source[s]] = Message(f)
           /\ D(failed)[Converted[s]] = IF s \in failed THEN Null
                                        ELSE Image(f, Converted[s])
  BY Names, BufferOfFrame
<1>3. A(failed) \subseteq Buffers /\ \A b \in A(failed) : b[1] = f
  BY Names, BufferOfFrame
<1>4. data'[f] = D(failed) /\ pc'[f] = "received" /\ wrapped' = wrapped
      /\ owns'[f] = {Converted[s] : s \in Streams} /\ avframe' = avframe
  BY <1>1 DEF ConstructFrame, TypeInv
<1>5. TypeInv'
  <2>1. data' \in [Frames -> [Managers -> Buffers \cup {Null}]]
    BY <1>1, <1>2 DEF TypeInv
  <2>2. owns' \in [Frames -> SUBSET Managers]
    BY Names DEF ConstructFrame, TypeInv
  <2>3. QED
    BY <1>1, <1>3, <2>1, <2>2 DEF ConstructFrame, TypeInv, UnderWay
<1>6. FrameInv(f)'
  <2>1. pc[f] = "none" /\ Of(live, f) = Of(wrapped, f) /\ avframe[f] = Null
        /\ Of(wrapped, f) \subseteq {Wrapper(f, s) : s \in Streams}
    BY DEF ConstructFrame, FrameInv, HasNoBuffers, UnderWay, SharesImage, With, Streams
  <2>2. Images(f)' = {Image(f, Converted[s]) : s \in Streams \ failed}
    BY <1>2, <1>4, Names, BufferOfFrame DEF Images
  <2>3. Of(live, f)' = A(failed) \cup Of(live, f)
    BY <1>1, <1>3 DEF Of
  <2>4. OwnsItsBuffers(f)'
    BY <1>2, <1>4, <2>1, <2>2, <2>3 DEF OwnsItsBuffers, Of
  <2>5. SharesImage(f)'
    BY <1>4, <2>1 DEF SharesImage, With, Streams
  <2>6. QED
    BY <1>4, <2>1, <2>4, <2>5 DEF FrameInv, UnderWay, Of
<1>7. ASSUME NEW g \in Frames \ {f} PROVE FrameInv(g)'
  <2>1. Of(live', g) = Of(live, g)
    <3> HIDE DEF A
    <3>1. Of(live \cup A(failed), g) = Of(live, g)
      BY <1>3 DEF Of
    <3>2. QED
      BY <1>1, <3>1
  <2>2. QED
    BY <1>1, <2>1, OtherFrame DEF ConstructFrame, TypeInv
<1>8. QED
  BY <1>5, <1>6, <1>7 DEF ConstructFrame

\* The destructors free the message and the images, all of them live, and
\* nothing else.  There is no AVFrameWrapper then.
LEMMA DestroyKeeps ==
  ASSUME BufferInv, NEW f \in Frames, Destroy(f),
         pc[f] \in {"received", "converted", "depth_sent"}
  PROVE  BufferInv'
<1> USE DEF BufferInv
<1> DEFINE B == {Message(f)} \cup ({data[f][m] : m \in owns[f]} \ {Null})
<1>1. /\ OwnsItsBuffers(f) /\ SharesImage(f)
      /\ Of(wrapped, f) \subseteq {Wrapper(f, s) : s \in Streams}
  BY DEF FrameInv, UnderWay
<1>2. B = {Message(f)} \cup Images(f)
  BY <1>1 DEF OwnsItsBuffers, Images
<1>3. B \subseteq live /\ \A b \in B : b[1] = f
  BY <1>1, <1>2 DEF OwnsItsBuffers, Of
<1>4. live' = live \ B /\ refreed' = {}
  BY <1>3 DEF Destroy, Free
<1>5. /\ \A m \in Managers : data'[f][m] = Null
      /\ pc'[f] = "destroyed" /\ wrapped' = wrapped /\ avframe' = avframe
      /\ owns' = owns
  BY DEF Destroy, TypeInv
<1>6. TypeInv'
  <2>1. data' \in [Frames -> [Managers -> Buffers \cup {Null}]]
    BY DEF Destroy, TypeInv
  <2>2. QED
    BY <1>4, <1>5, <2>1 DEF Destroy, TypeInv, UnderWay
<1>7. FrameInv(f)'
  <2>1. \A b \in Of(wrapped, f) : b \notin B
    BY <1>1, <1>2, Names, BufferOfFrame DEF OwnsItsBuffers, Images
  <2>2. Of(live, f)' = Of(wrapped, f)
    BY <1>1, <1>2, <1>4, <2>1 DEF OwnsItsBuffers, Of
  <2>3. HasNoBuffers(f)'
    BY <1>5, <2>2 DEF HasNoBuffers, Of
  <2>4. SharesImage(f)'
    BY <1>1, <1>5 DEF SharesImage, With, Streams
  <2>5. QED
    BY <1>1, <1>5, <2>3, <2>4 DEF FrameInv, UnderWay, Of
<1>8. ASSUME NEW g \in Frames \ {f} PROVE FrameInv(g)'
  <2>1. Of(live', g) = Of(live, g)
    <3> HIDE DEF B
    <3>1. Of(live \ B, g) = Of(live, g)
      BY <1>3 DEF Of
    <3>2. QED
      BY <1>4, <3>1
  <2>2. QED
    BY <1>5, <2>1, OtherFrame DEF Destroy, TypeInv
<1>9. QED
  BY <1>4, <1>6, <1>7, <1>8

\* A frame under way goes on, with its pointers and its images as they are.
LEMMA FrameGoesOn ==
  ASSUME BufferInv, NEW f \in Frames, NEW A \in SUBSET {Wrapper(f, s) : s \in Streams},
         pc[f] \in UnderWay, pc'[f] \in UnderWay,
         pc' = [pc EXCEPT ![f] = pc'[f]],
         live' = live \cup A, wrapped' = wrapped \cup A,
         avframe' \in [Frames -> Buffers \cup {Null}],
         \A g \in Frames \ {f} : avframe'[g] = avframe[g],
         UNCHANGED <<data, owns, refreed>>,
         SharesImage(f)'
  PROVE  BufferInv'
<1> USE DEF BufferInv
<1>1. A \subseteq Buffers /\ \A b \in A : b[1] = f
  BY BufferOfFrame
<1>2. TypeInv'
  BY <1>1 DEF TypeInv
<1>3. FrameInv(f)'
  <2>1. OwnsItsBuffers(f) /\ Of(wrapped, f) \subseteq {Wrapper(f, s) : s \in Streams}
    BY DEF FrameInv
  <2>2. /\ Of(live, f)' = Of(live, f) \cup A
        /\ Of(wrapped, f)' = Of(wrapped, f) \cup A
        /\ Images(f)' = Images(f)
    BY <1>1 DEF Of, Images
  <2>3. OwnsItsBuffers(f)'
    BY <2>1, <2>2 DEF OwnsItsBuffers
  <2>4. QED
    BY <2>1, <2>2, <2>3 DEF FrameInv
<1>4. ASSUME NEW g \in Frames \ {f} PROVE FrameInv(g)'
  <2>1. Of(live', g) = Of(live, g) /\ Of(wrapped', g) = Of(wrapped, g)
    BY <1>1 DEF Of
  <2>2. pc'[g] = pc[g]
    BY DEF TypeInv
  <2>3. QED
    BY <2>1, <2>2, OtherFrame
<1>5. QED
  BY <1>2, <1>3, <1>4

\* convert_frame writes into the images.
LEMMA ConvertKeeps ==
  ASSUME BufferInv, NEW f \in Frames, ConvertFrame(f)
  PROVE  BufferInv'
<1>1. pc'[f] = "converted" /\ pc[f] = "received" /\ avframe' = avframe
  BY DEF ConvertFrame, BufferInv, TypeInv
<1>2. avframe[f] = Null
  BY <1>1 DEF BufferInv, FrameInv, SharesImage, With, Streams
<1>3. SharesImage(f)'
  BY <1>1, <1>2 DEF SharesImage, With, Streams
<1>4. /\ avframe' \in [Frames -> Buffers \cup {Null}]
      /\ \A g \in Frames \ {f} : avframe'[g] = avframe[g]
      /\ pc' = [pc EXCEPT ![f] = pc'[f]]
      /\ live' = live \cup {} /\ wrapped' = wrapped \cup {}
      /\ UNCHANGED <<data, owns, refreed>>
  BY <1>1 DEF ConvertFrame, BufferInv, TypeInv
<1>5. pc[f] \in UnderWay /\ pc'[f] \in UnderWay
  BY <1>1 DEF UnderWay
<1>6. QED
  BY <1>3, <1>4, <1>5, FrameGoesOn

\* The constructor of AVFrameWrapper allocates an image and then points to
\* another one.
LEMMA WrapKeeps ==
  ASSUME BufferInv, NEW f \in Frames, NEW s \in Streams, Wrap(f, s)
  PROVE  BufferInv'
<1> DEFINE A == {Wrapper(f, s)}
<1>1. pc'[f] = With[s] /\ pc[f] = Before[s] /\ avframe'[f] = data[f][Converted[s]]
  BY DEF Wrap, BufferInv, TypeInv
<1>2. pc[f] \in UnderWay /\ pc'[f] \in UnderWay
  BY <1>1 DEF With, Before, Streams, UnderWay
<1>3. SharesImage(f)'
  BY <1>1 DEF SharesImage, With, Streams, Wrap
<1>4. data[f][Converted[s]] \in Buffers \cup {Null}
  BY Names DEF BufferInv, TypeInv
<1>5. /\ avframe' \in [Frames -> Buffers \cup {Null}]
      /\ \A g \in Frames \ {f} : avframe'[g] = avframe[g]
      /\ pc' = [pc EXCEPT ![f] = pc'[f]]
      /\ live' = live \cup A /\ wrapped' = wrapped \cup A
      /\ UNCHANGED <<data, owns, refreed>>
  BY <1>1, <1>4 DEF Wrap, BufferInv, TypeInv
<1>6. A \in SUBSET {Wrapper(f, r) : r \in Streams}
  OBVIOUS
<1>7. QED
  BY <1>2, <1>3, <1>5, <1>6, FrameGoesOn

\* av_frame_unref clears the pointer, and av_freep then frees nothing.
LEMMA UnwrapKeeps ==
  ASSUME BufferInv, NEW f \in Frames, NEW s \in Streams, SendAndUnwrap(f, s)
  PROVE  BufferInv'
<1>1. pc'[f] = After[s] /\ pc[f] = With[s] /\ avframe'[f] = Null
  BY DEF SendAndUnwrap, BufferInv, TypeInv
<1>2. pc[f] \in UnderWay /\ pc'[f] \in UnderWay
  BY <1>1 DEF With, After, Streams, UnderWay
<1>3. SharesImage(f)'
  BY <1>1 DEF SharesImage, With, After, Streams
<1>4. /\ avframe' \in [Frames -> Buffers \cup {Null}]
      /\ \A g \in Frames \ {f} : avframe'[g] = avframe[g]
      /\ pc' = [pc EXCEPT ![f] = pc'[f]]
      /\ live' = live \cup {} /\ wrapped' = wrapped \cup {}
      /\ UNCHANGED <<data, owns, refreed>>
  BY <1>1 DEF SendAndUnwrap, BufferInv, TypeInv
<1>5. QED
  BY <1>2, <1>3, <1>4, FrameGoesOn

\* Nothing is allocated, freed or pointed elsewhere, when the program aborts.
LEMMA NothingMoves ==
  ASSUME BufferInv, UNCHANGED <<pc, live, data, owns, avframe, refreed, wrapped>>
  PROVE  BufferInv'
<1>1. TypeInv'
  BY DEF BufferInv, TypeInv
<1>2. ASSUME NEW g \in Frames PROVE FrameInv(g)'
  BY OtherFrame DEF BufferInv
<1>3. QED
  BY <1>1, <1>2 DEF BufferInv

\* Every step of the threads keeps it.
LEMMA NextBufferInv ==
  ASSUME BufferInv, [Next]_vars
  PROVE  BufferInv'
<1>1. CASE UNCHANGED vars
  BY <1>1, NothingMoves DEF vars
<1>2. ASSUME NEW f \in Frames, DropFrame(f) PROVE BufferInv'
  BY <1>2, DestroyKeeps DEF DropFrame
<1>3. ASSUME NEW f \in Frames, FinishFrame(f) PROVE BufferInv'
  BY <1>3, DestroyKeeps DEF FinishFrame
<1>4. ASSUME NEW f \in Frames, ConvertFails(f) PROVE BufferInv'
  BY <1>4, NothingMoves DEF ConvertFails
<1>5. ASSUME NEW f \in Frames, NEW s \in Streams, WrapFails(f, s) PROVE BufferInv'
  BY <1>5, NothingMoves DEF WrapFails
<1>6. ASSUME NEW f \in Frames, NEW s \in Streams, SendAndUnwrap(f, s) PROVE BufferInv'
  BY <1>6, UnwrapKeeps
<1>7. CASE Terminated
  BY <1>7, NothingMoves DEF Terminated, vars
<1>8. QED
  BY <1>1, <1>2, <1>3, <1>4, <1>5, <1>6, <1>7, ConstructKeeps, ConvertKeeps,
     WrapKeeps DEF Next

-----------------------------------------------------------------------------
(* The theorems *)

\* The specification keeps the inductive invariant.
LEMMA BufferInvHolds == Spec => []BufferInv
<1>1. BufferInv /\ [Next]_vars => BufferInv'
  BY NextBufferInv
<1>2. QED
  BY InitBufferInv, <1>1, PTL DEF Spec

\* No FrameManager of a frame under way and no AVFrame points to memory that has
\* been given back, wherever frames are dropped and whatever cannot be allocated.
THEOREM PointersStayLive == Spec => []PointersAreLive
<1>1. BufferInv => PointersAreLive
  <2> SUFFICES ASSUME BufferInv, NEW f \in Frames
               PROVE  /\ \A m \in Managers : data[f][m] \in live \cup {Null}
                      /\ avframe[f] \in live \cup {Null}
    BY DEF PointersAreLive
  <2>1. \A m \in Managers : data[f][m] \in live \cup {Null}
    <3>1. CASE pc[f] \in UnderWay
      <4>1. Message(f) \in live /\ \A s \in Streams : data[f][Converted[s]] \in live \cup {Null}
        BY <3>1 DEF BufferInv, FrameInv, OwnsItsBuffers, Images, Of
      <4>2. \A s \in Streams : data[f][Source[s]] = Message(f)
        BY <3>1 DEF BufferInv, FrameInv, OwnsItsBuffers
      <4>3. QED
        BY <4>1, <4>2 DEF Managers
    <3>2. CASE pc[f] \notin UnderWay
      BY <3>2 DEF BufferInv, FrameInv, HasNoBuffers
    <3>3. QED
      BY <3>1, <3>2
  <2>2. avframe[f] = Null \/ \E s \in Streams : avframe[f] = data[f][Converted[s]]
    BY DEF BufferInv, FrameInv, SharesImage
  <2>3. QED
    BY <2>1, <2>2, Names
<1>2. QED
  BY BufferInvHolds, <1>1, PTL

\* Nothing is freed twice, although three destructors free what they share.
THEOREM NothingFreedTwice == Spec => []FreedOnce
<1>1. BufferInv => FreedOnce
  BY DEF BufferInv, FreedOnce
<1>2. QED
  BY BufferInvHolds, <1>1, PTL

\* A frame that was destroyed has left exactly the images its AVFrameWrappers
\* allocated, wherever it was dropped.
THEOREM WrappersLeak == Spec => []ExactlyWrappersLeak
<1>1. BufferInv => ExactlyWrappersLeak
  BY DEF BufferInv, FrameInv, HasNoBuffers, UnderWay, Of, ExactlyWrappersLeak
<1>2. QED
  BY BufferInvHolds, <1>1, PTL
=============================================================================
