---------------------------- MODULE MCFrameBuffers ----------------------------
(* TLC instances of FrameBuffers. *)
EXTENDS FrameBuffers, TLC

\* Frames are interchangeable.
FrameSymmetry == Permutations(Frames)
=============================================================================
