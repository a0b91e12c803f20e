------------------------- MODULE MCResolutionChange -------------------------
(* TLC instances of ResolutionChange. *)
EXTENDS ResolutionChange
=============================================================================
