--------------------------- MODULE MCEncoderStage ---------------------------
(* TLC instances of EncoderStage. *)
EXTENDS EncoderStage
=============================================================================
