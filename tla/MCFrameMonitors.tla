--------------------------- MODULE MCFrameMonitors ---------------------------
(* TLC instances of FrameMonitors. *)
EXTENDS FrameMonitors
=============================================================================
