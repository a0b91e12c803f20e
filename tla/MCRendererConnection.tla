------------------------ MODULE MCRendererConnection ------------------------
(* TLC instances of RendererConnection. *)
EXTENDS RendererConnection
=============================================================================
