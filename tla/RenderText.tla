------------------------------ MODULE RenderText ------------------------------
(***************************************************************************)
(* RenderTextContext: the process_frame_threads of both views draw text    *)
(* into their frames with one FreeType face, whose glyph slot they share,  *)
(* under m_mutex.  Pen, glyph rectangle and byte offsets are computed with *)
(* int and uint32_t, here words modulo 2 * Half, so that what is drawn can *)
(* be compared with the text at its place in unbounded arithmetic.         *)
(*                                                                         *)
(* FreeType is external.  A glyph is a record: bitmap_left, bitmap_top,    *)
(* width, rows, advance, and ink, the <<p, q>> that are set in its bitmap. *)
(* FreeType's errors are positive; a load that fails leaves the slot       *)
(* blank.                                                                  *)
(***************************************************************************)
EXTENDS Integers, FiniteSets

CONSTANTS Threads,       \* the process_frame_threads
          Half,          \* 2^31 in the code
          Sizes,         \* the sizes frames may have: [width, height]
          Glyphs,        \* the glyphs of the face
          Extent,        \* no metric of a glyph is larger
          MaxChars       \* bound: characters that are drawn

Glyph == [left : Int, top : Int, width : Nat, rows : Nat, advance : Int,
          ink : SUBSET (Nat \X Nat)]

x_box == 300
y_box == 100
margin == 50
line_height == 20

\* How far text can get from where a string may start.
Reach == MaxChars * (Extent + line_height) + 2 * Extent

\* The bytes of a frame are counted by a uint32_t, and text that starts in a
\* frame does not run into the limits of int.
ASSUME RenderAssumption ==
  /\ Half \in Nat \ {0} /\ MaxChars \in Nat /\ Extent \in Nat
  /\ "nobody" \notin Threads
  /\ Sizes \subseteq [width : Nat, height : Nat]
  /\ \A s \in Sizes : /\ 3 * (s.width * s.height) < 2 * Half
                      /\ s.width + x_box + Reach < Half
                      /\ s.height + x_box + Reach < Half
  /\ Glyphs \subseteq Glyph
  /\ \A g \in Glyphs :
       /\ {g.left, g.top, g.advance} \subseteq -Extent .. Extent
       /\ g.width <= Extent /\ g.rows <= Extent
       /\ g.ink \subseteq (0 .. g.width - 1) \X (0 .. g.rows - 1)

VARIABLES
  context,     \* RenderTextContext: "none", "built", or "crashed" with it
  has_face,    \* _face is a face
  slot,        \* _face->glyph
  m_mutex,     \* the thread that holds it, or "nobody"
  pc,          \* where each thread is in render_string_to_frame
  frame,       \* the size of the frame it draws into
  pen,         \* its pen_x, pen_y and orig_pen_x
  wanted,      \* the glyph of the character it is at
  place,       \* the pen in unbounded arithmetic
  surface,     \* the bytes of its frame that it set to 255
  intended,    \* the bytes it should have set
  chars        \* number of characters drawn

drawn == <<surface, intended, chars>>
vars == <<context, has_face, slot, m_mutex, pc, frame, pen, wanted, place,
          surface, intended, chars>>

-----------------------------------------------------------------------------
(* Arithmetic *)

Unsigned(n) == n % (2 * Half)

\* Mutant of Signed: a negative difference stays a large number.
Signless(n) == Unsigned(n)

\* The conversion of a word to int.
Signed(n) == IF Unsigned(n) < Half THEN Unsigned(n) ELSE Unsigned(n) - 2 * Half

Positions == {"LEFT_TOP", "LEFT_BOTTOM", "RIGHT_TOP", "RIGHT_BOTTOM", "CENTER"}

\* The pen of render_string_to_frame, before it is converted to int.
PenX(opt, width) == CASE opt \in {"LEFT_TOP", "LEFT_BOTTOM"} -> margin
                      [] opt \in {"RIGHT_TOP", "RIGHT_BOTTOM"} -> width - x_box + margin
                      [] opt = "CENTER" -> width \div 2 - x_box
PenY(opt, height) == CASE opt \in {"LEFT_TOP", "RIGHT_TOP"} -> margin
                       [] opt \in {"LEFT_BOTTOM", "RIGHT_BOTTOM"} -> height - y_box + margin
                       [] opt = "CENTER" -> height \div 2 - y_box

\* Mutant of Clipped: the pixel after the last one of a row counts as inside.
ClippedLate(i, j, size) == \/ i < 0 \/ j < 0
                           \/ Unsigned(i) > size.width \/ Unsigned(j) >= size.height

\* i and j are int, width and height uint32_t: the comparison is unsigned.
Clipped(i, j, size) == \/ i < 0 \/ j < 0
                       \/ Unsigned(i) >= size.width \/ Unsigned(j) >= size.height

\* The three bytes of a pixel.
Bytes(offset) == {offset, offset + 1, offset + 2}

\* The bytes the two loops over the glyph in the slot set.
Drawn(glyph, p, size) ==
  LET left == p.x + glyph.left
      top == p.y - glyph.top
      x_max == Signed(left + glyph.width)
      y_max == Signed(top + glyph.rows)
  IN UNION {Bytes(Unsigned(Unsigned(ij[2] * size.width + ij[1]) * 3)) :
              ij \in {ij \in (left .. x_max - 1) \X (top .. y_max - 1) :
                        /\ ~Clipped(ij[1], ij[2], size)
                        /\ <<ij[1] - left, ij[2] - top>> \in glyph.ink}}

\* The glyph's ink at the exact place, as far as it falls into the frame.
Inked(glyph, at, size) ==
  UNION {Bytes(3 * (xy[2] * size.width + xy[1])) :
           xy \in {xy \in {<<at.x + glyph.left + pq[1], at.y - glyph.top + pq[2]>> :
                             pq \in glyph.ink} :
                     /\ xy[1] \in 0 .. size.width - 1
                     /\ xy[2] \in 0 .. size.height - 1}}

-----------------------------------------------------------------------------
(* Steps *)

Blank == [left |-> 0, top |-> 0, width |-> 0, rows |-> 0, advance |-> 0, ink |-> {}]
Origin == [x |-> 0, y |-> 0, orig |-> 0]

Init ==
  /\ context = "none" /\ has_face = FALSE
  /\ slot = Blank
  /\ m_mutex = "nobody"
  /\ pc = [t \in Threads |-> "idle"]
  /\ frame \in [Threads -> Sizes]
  /\ pen = [t \in Threads |-> Origin]
  /\ wanted = [t \in Threads |-> Blank]
  /\ place = [t \in Threads |-> Origin]
  /\ surface = [t \in Threads |-> {}]
  /\ intended = [t \in Threads |-> {}]
  /\ chars = 0

\* What FT_New_Face may return: no error of FreeType is negative.
FTErrors == {0, 1}

\* The constructor throws if (ret < 0).
Construct ==
  /\ context = "none"
  /\ \E ret \in FTErrors : /\ has_face' = (ret = 0)
                           /\ ~(ret < 0)
  /\ context' = "built"
  /\ UNCHANGED <<slot, m_mutex, pc, frame, pen, wanted, place, drawn>>

\* The lock, and the switch on the position.
BeginString(t) ==
  /\ context = "built" /\ pc[t] = "idle" /\ chars < MaxChars
  /\ m_mutex = "nobody" /\ m_mutex' = t
  /\ \E opt \in Positions :
       LET x == PenX(opt, frame[t].width)
           y == PenY(opt, frame[t].height)
       IN /\ pen' = [pen EXCEPT ![t] = [x |-> Signed(x), y |-> Signed(y),
                                        orig |-> Signed(x)]]
          /\ place' = [place EXCEPT ![t] = [x |-> x, y |-> y, orig |-> x]]
  /\ pc' = [pc EXCEPT ![t] = "text"]
  /\ UNCHANGED <<context, has_face, slot, frame, wanted, drawn>>

\* if (ch == '\n')
NewLine(t) ==
  /\ context = "built" /\ pc[t] = "text" /\ chars < MaxChars
  /\ pen' = [pen EXCEPT ![t].x = pen[t].orig, ![t].y = @ + line_height]
  /\ place' = [place EXCEPT ![t].x = place[t].orig, ![t].y = @ + line_height]
  /\ chars' = chars + 1
  /\ UNCHANGED <<context, has_face, slot, m_mutex, pc, frame, wanted, surface,
                 intended>>

\* FT_Load_Char; an error is only logged.  Without a face it crashes.
LoadChar(t) ==
  /\ context = "built" /\ pc[t] = "text" /\ chars < MaxChars
  /\ IF has_face
     THEN /\ slot' \in Glyphs \cup {Blank}
          /\ wanted' = [wanted EXCEPT ![t] = slot']
          /\ pc' = [pc EXCEPT ![t] = "draw"]
          /\ UNCHANGED context
     ELSE /\ context' = "crashed"
          /\ UNCHANGED <<slot, wanted, pc>>
  /\ UNCHANGED <<has_face, m_mutex, frame, pen, place, drawn>>

\* The loops over the bitmap, and the pen moves on.
DrawGlyph(t) ==
  /\ pc[t] = "draw"
  /\ surface' = [surface EXCEPT ![t] = @ \cup Drawn(slot, pen[t], frame[t])]
  /\ pen' = [pen EXCEPT ![t].x = @ + slot.advance]
  /\ intended' = [intended EXCEPT ![t] = @ \cup Inked(wanted[t], place[t], frame[t])]
  /\ place' = [place EXCEPT ![t].x = @ + wanted[t].advance]
  /\ chars' = chars + 1
  /\ pc' = [pc EXCEPT ![t] = "text"]
  /\ UNCHANGED <<context, has_face, slot, m_mutex, frame, wanted>>

\* The end of the string releases m_mutex.
EndString(t) ==
  /\ context = "built" /\ pc[t] = "text"
  /\ pc' = [pc EXCEPT ![t] = "idle"]
  /\ m_mutex' = "nobody"
  /\ UNCHANGED <<context, has_face, slot, frame, pen, wanted, place, drawn>>

Terminated == UNCHANGED vars /\ \/ context = "crashed"
                                \/ chars = MaxChars

Render(t) == \/ BeginString(t) \/ NewLine(t) \/ LoadChar(t) \/ DrawGlyph(t)
             \/ EndString(t)

Next == Construct \/ (\E t \in Threads : Render(t)) \/ Terminated

Spec == Init /\ [][Next]_vars

-----------------------------------------------------------------------------
(* Properties *)

\* Only the bytes of the frame are written: the clipping of a glyph that hangs
\* over any of the four edges holds in spite of the mixed signed and unsigned
\* arithmetic.
InsideSurface ==
  \A t \in Threads : surface[t] \subseteq 0 .. 3 * frame[t].width * frame[t].height - 1

\* Each thread's frame shows its own text, and shows it where exact arithmetic
\* puts it, for frames that are smaller than the text box, too, for which the
\* pen starts left of or above the frame.
TextIsInPlace == surface = intended
=============================================================================
