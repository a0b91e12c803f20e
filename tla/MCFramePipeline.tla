--------------------------- MODULE MCFramePipeline ---------------------------
(* TLC instances of FramePipeline. *)
EXTENDS FramePipeline, TLC

\* The renderers are interchangeable: no action and no safety property names
\* one.
ClientSymmetry == Permutations(Clients)
=============================================================================
