----------------------------- MODULE MCRenderText -----------------------------
(* TLC instances of RenderText. *)
EXTENDS RenderText, TLC

\* The threads are interchangeable.
ThreadSymmetry == Permutations(Threads)

\* Around the widths 250 and 600 and the heights 50 and 200 the pen crosses the
\* left and the upper edge; 1 is the smallest frame; 51 ends at the margin.
EdgeSizes == {[width |-> 1, height |-> 1], [width |-> 51, height |-> 51],
              [width |-> 249, height |-> 49], [width |-> 249, height |-> 200],
              [width |-> 600, height |-> 51], [width |-> 600, height |-> 199]}

Wide == [left |-> 0, top |-> 1, width |-> 3, rows |-> 2, advance |-> 3,
         ink |-> {<<0, 0>>, <<1, 1>>, <<2, 0>>, <<2, 1>>}]
Deep == [left |-> -1, top |-> 0, width |-> 1, rows |-> 3, advance |-> 2,
         ink |-> {<<0, 0>>, <<0, 2>>}]
TwoGlyphs == {Wide, Deep}
=============================================================================
