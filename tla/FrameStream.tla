----------------------------- MODULE FrameStream -----------------------------
(***************************************************************************)
(* What the frame pipeline promises to the encoders of one VR view: frame  *)
(* numbers are handed out one after the other, and a frame that reaches    *)
(* the encoder was handed out before, is newer than every frame that       *)
(* reached it earlier, and so is never encoded twice.  Frames may be       *)
(* skipped.  FramePipeline is shown to implement this specification.       *)
(***************************************************************************)
EXTENDS Integers, Sequences

CONSTANT Eyes       \* the views that are streamed

VARIABLES issued,   \* issued[e]: how many frame numbers of e were handed out
          stream    \* stream[e]: frame numbers given to e's encoders, in order

streamVars == <<issued, stream>>

StreamInit == /\ issued = [e \in Eyes |-> 0]
              /\ stream = [e \in Eyes |-> <<>>]

Issue(e) == /\ issued' = [issued EXCEPT ![e] = @ + 1]
            /\ UNCHANGED stream

Encode(e, i) == /\ i < issued[e]
                /\ \A k \in 1..Len(stream[e]) : stream[e][k] < i
                /\ stream' = [stream EXCEPT ![e] = Append(@, i)]
                /\ UNCHANGED issued

StreamNext == \E e \in Eyes : Issue(e) \/ \E i \in 0..issued[e] : Encode(e, i)

StreamSpec == StreamInit /\ [][StreamNext]_streamVars
=============================================================================
