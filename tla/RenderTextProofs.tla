--------------------------- MODULE RenderTextProofs ---------------------------
(***************************************************************************)
(* What is proved of RenderText for any threads, glyphs, sizes of frames   *)
(* and number of characters, as long as text does not run into the limits  *)
(* of int: what is drawn with words of fixed width is what exact           *)
(* arithmetic draws, and it stays inside the frame.                        *)
(***************************************************************************)
EXTENDS RenderText, TLAPS

-----------------------------------------------------------------------------
(* Words *)

\* A number that fits is its own word.
LEMMA UnsignedFits ==
  ASSUME NEW n \in Nat, n < 2 * Half
  PROVE  Unsigned(n) = n
BY RenderAssumption DEF Unsigned

\* A number in the range of int survives the conversion to a word and back.
LEMMA SignedFits ==
  ASSUME NEW n \in Int, -Half <= n, n < Half
  PROVE  Signed(n) = n
<1>1. CASE n >= 0
  BY <1>1, UnsignedFits, RenderAssumption DEF Signed
<1>2. CASE n < 0
  <2>1. Unsigned(n) = n + 2 * Half
    BY <1>2, RenderAssumption DEF Unsigned
  <2>2. QED
    BY <1>2, <2>1, RenderAssumption DEF Signed
<1>3. QED
  BY <1>1, <1>2

\* Every row of a frame ends inside the frame.
LEMMA Products ==
  ASSUME NEW j \in Nat, NEW w \in Nat, NEW h \in Nat, j < h
  PROVE  j * w \in Nat /\ h * w = w * h /\ j * w + w <= w * h
<1>1. PICK d \in Nat : h = j + 1 + d
  <2>1. h - j - 1 \in Nat /\ h = j + 1 + (h - j - 1)
    OBVIOUS
  <2>2. QED
    BY <2>1
<1>2. w * h = j * w + w + d * w
  BY <1>1
<1>3. d * w \in Nat /\ j * w \in Nat
  OBVIOUS
<1>4. QED
  BY <1>2, <1>3

\* The bytes of a pixel inside a frame of w times h pixels.
LEMMA PixelBytes ==
  ASSUME NEW w \in Nat, NEW h \in Nat, NEW i \in 0..w - 1, NEW j \in 0..h - 1,
         3 * (w * h) < 2 * Half
  PROVE  /\ Unsigned(Unsigned(j * w + i) * 3) = 3 * (j * w + i)
         /\ Bytes(3 * (j * w + i)) \subseteq 0..3 * (w * h) - 1
<1>1. PICK jw \in Nat : jw = j * w
  BY Products
<1>2. PICK wh \in Nat : wh = w * h
  OBVIOUS
<1>3. jw + w <= wh
  BY <1>1, <1>2, Products
<1>4. /\ jw + i \in Nat /\ jw + i < wh /\ (jw + i) * 3 = 3 * (jw + i)
      /\ 3 * (jw + i) \in Nat /\ 3 * (jw + i) + 2 < 3 * wh
  BY <1>3
<1>5. Unsigned(jw + i) = jw + i
  BY <1>2, <1>4, UnsignedFits, RenderAssumption
<1>6. Unsigned(3 * (jw + i)) = 3 * (jw + i)
  BY <1>2, <1>4, UnsignedFits, RenderAssumption
<1>7. Bytes(3 * (jw + i)) \subseteq 0..3 * wh - 1
  BY <1>4 DEF Bytes
<1>8. QED
  BY <1>1, <1>2, <1>4, <1>5, <1>6, <1>7

-----------------------------------------------------------------------------
(* Glyphs *)

Loadable == Glyphs \cup {Blank}

\* What the assumption says of a glyph is true of the blank one, too.
LEMMA GlyphMetrics ==
  ASSUME NEW g \in Loadable
  PROVE  /\ g.left \in Int /\ g.top \in Int /\ g.advance \in Int
         /\ g.width \in Nat /\ g.rows \in Nat
         /\ -Extent <= g.left /\ g.left <= Extent
         /\ -Extent <= g.top /\ g.top <= Extent
         /\ -Extent <= g.advance /\ g.advance <= Extent
         /\ g.width <= Extent /\ g.rows <= Extent
         /\ g.ink \subseteq (0 .. g.width - 1) \X (0 .. g.rows - 1)
<1>1. CASE g = Blank
  BY <1>1, RenderAssumption DEF Blank
<1>2. CASE g \in Glyphs
  BY <1>2, RenderAssumption DEF Glyph
<1>3. QED
  BY <1>1, <1>2 DEF Loadable

\* What is assumed of the size of a frame.
LEMMA SizeFacts ==
  ASSUME NEW size \in Sizes
  PROVE  /\ size.width \in Nat /\ size.height \in Nat
         /\ 3 * (size.width * size.height) < 2 * Half
         /\ size.width + x_box + Reach < Half
         /\ size.height + x_box + Reach < Half
BY RenderAssumption

\* A glyph at a pen from which its rectangle is within the range of int.
AtPen(g, p) ==
  /\ p.x \in Int /\ p.y \in Int
  /\ -Half <= p.x + g.left /\ p.x + g.left + g.width < Half
  /\ -Half <= p.y - g.top /\ p.y - g.top + g.rows < Half

\* A pixel is drawn exactly if it is inside.
LEMMA ClippedExactly ==
  ASSUME NEW size \in Sizes, NEW i \in Int, NEW j \in Int, i < Half, j < Half
  PROVE  ~Clipped(i, j, size)
           <=> i \in 0..size.width - 1 /\ j \in 0..size.height - 1
<1>1. size.width \in Nat /\ size.height \in Nat
  BY SizeFacts
<1>2. i >= 0 => Unsigned(i) = i
  BY UnsignedFits, RenderAssumption
<1>3. j >= 0 => Unsigned(j) = j
  BY UnsignedFits, RenderAssumption
<1>4. QED
  BY <1>1, <1>2, <1>3 DEF Clipped

\* The loops of render_string_to_frame draw the ink of the glyph at the pen.
LEMMA DrawnIsInked ==
  ASSUME NEW g \in Loadable, NEW size \in Sizes, NEW p, AtPen(g, p)
  PROVE  /\ Drawn(g, p, size) = Inked(g, p, size)
         /\ Drawn(g, p, size) \subseteq 0..3 * (size.width * size.height) - 1
<1>1. PICK w \in Nat : w = size.width
  BY SizeFacts
<1>2. PICK h \in Nat : h = size.height
  BY SizeFacts
<1>3. PICK left \in Int : left = p.x + g.left
  BY GlyphMetrics DEF AtPen
<1>4. PICK top \in Int : top = p.y - g.top
  BY GlyphMetrics DEF AtPen
<1>5. PICK gw \in Nat : gw = g.width
  BY GlyphMetrics
<1>6. PICK gh \in Nat : gh = g.rows
  BY GlyphMetrics
<1>7. PICK ink : ink = g.ink /\ ink \subseteq (0..gw - 1) \X (0..gh - 1)
  BY <1>5, <1>6, GlyphMetrics
<1>8. /\ -Half <= left /\ left + gw < Half /\ -Half <= top /\ top + gh < Half
      /\ Half \in Nat
  BY <1>3, <1>4, <1>5, <1>6, RenderAssumption DEF AtPen
<1>9. Signed(left + gw) = left + gw /\ Signed(top + gh) = top + gh
  BY <1>8, SignedFits
<1> DEFINE Box == (left .. left + gw - 1) \X (top .. top + gh - 1)
           Hit == {ij \in Box : /\ ~Clipped(ij[1], ij[2], size)
                                /\ <<ij[1] - left, ij[2] - top>> \in ink}
           Spot == {<<left + pq[1], top + pq[2]>> : pq \in ink}
           Seen == {xy \in Spot : xy[1] \in 0..w - 1 /\ xy[2] \in 0..h - 1}
<1>10. Drawn(g, p, size)
         = UNION {Bytes(Unsigned(Unsigned(ij[2] * w + ij[1]) * 3)) : ij \in Hit}
  BY <1>1, <1>3, <1>4, <1>5, <1>6, <1>7, <1>9 DEF Drawn
<1>11. Inked(g, p, size)
         = UNION {Bytes(3 * (xy[2] * w + xy[1])) : xy \in Seen}
  BY <1>1, <1>2, <1>3, <1>4, <1>7 DEF Inked
<1>12. ASSUME NEW ij \in Hit
       PROVE  /\ ij \in Seen
              /\ ij[1] \in 0..w - 1 /\ ij[2] \in 0..h - 1
  <2>1. /\ ij[1] \in Int /\ ij[2] \in Int /\ ij = <<ij[1], ij[2]>>
        /\ ij[1] < Half /\ ij[2] < Half
    BY <1>8
  <2>2. ij[1] \in 0..w - 1 /\ ij[2] \in 0..h - 1
    BY <1>1, <1>2, <2>1, ClippedExactly
  <2>3. PICK pq \in ink : pq = <<ij[1] - left, ij[2] - top>>
    OBVIOUS
  <2>4. left + pq[1] = ij[1] /\ top + pq[2] = ij[2]
    BY <2>1, <2>3
  <2>5. ij \in Spot
    BY <2>1, <2>3, <2>4
  <2>6. QED
    BY <2>2, <2>5
<1>13. ASSUME NEW xy \in Seen
       PROVE  xy \in Hit
  <2>1. PICK pq \in ink : xy = <<left + pq[1], top + pq[2]>>
    OBVIOUS
  <2>2. pq[1] \in 0..gw - 1 /\ pq[2] \in 0..gh - 1 /\ pq = <<pq[1], pq[2]>>
    BY <1>7
  <2>3. xy[1] = left + pq[1] /\ xy[2] = top + pq[2]
    BY <2>1
  <2>4. xy \in Box
    BY <2>1, <2>2
  <2>5. xy[1] - left = pq[1] /\ xy[2] - top = pq[2]
    BY <2>2, <2>3
  <2>6. ~Clipped(xy[1], xy[2], size)
    <3>1. xy[1] \in 0..w - 1 /\ xy[2] \in 0..h - 1
      OBVIOUS
    <3>2. xy[1] \in Int /\ xy[2] \in Int /\ xy[1] < Half /\ xy[2] < Half
      BY <1>8, <2>2, <2>3
    <3>3. QED
      BY <1>1, <1>2, <3>1, <3>2, ClippedExactly
  <2>7. <<xy[1] - left, xy[2] - top>> \in ink
    BY <2>2, <2>5
  <2>8. QED
    BY <2>4, <2>6, <2>7
<1>14. 3 * (w * h) < 2 * Half
  BY <1>1, <1>2, SizeFacts
<1>15. ASSUME NEW ij \in Hit
       PROVE  /\ Unsigned(Unsigned(ij[2] * w + ij[1]) * 3) = 3 * (ij[2] * w + ij[1])
              /\ Bytes(3 * (ij[2] * w + ij[1])) \subseteq 0..3 * (w * h) - 1
  BY <1>12, <1>14, PixelBytes
<1>16. Hit = Seen
  BY <1>12, <1>13
<1> HIDE DEF Hit, Seen
<1>17. Drawn(g, p, size) = Inked(g, p, size)
  BY <1>10, <1>11, <1>15, <1>16
<1>18. Drawn(g, p, size) \subseteq 0..3 * (w * h) - 1
  BY <1>10, <1>15
<1>19. QED
  BY <1>1, <1>2, <1>17, <1>18

-----------------------------------------------------------------------------
(* The pen *)

Pens == [x : Int, y : Int, orig : Int]

\* The pen of a thread that draws into a frame of this size is at most d away
\* from where a string may start.
Near(p, size, d) ==
  /\ -x_box <= p.orig /\ p.orig <= size.width + x_box
  /\ -x_box - d <= p.x /\ p.x <= size.width + x_box + d
  /\ -x_box - d <= p.y /\ p.y <= size.height + x_box + d

\* How far the pen may have moved after c characters.
Stray(c) == c * (Extent + line_height)

\* Each character moves the pen by a bounded distance.
LEMMA StrayGrows ==
  ASSUME NEW c \in 0..MaxChars
  PROVE  /\ Stray(c) \in Nat
         /\ Stray(c) + 2 * Extent <= Reach
         /\ Stray(c + 1) = Stray(c) + Extent + line_height
<1>1. PICK n \in Nat : n = Extent + line_height
  BY RenderAssumption DEF line_height
<1>2. PICK d \in Nat : MaxChars = c + d
  <2>1. MaxChars - c \in Nat /\ MaxChars = c + (MaxChars - c)
    BY RenderAssumption
  <2>2. QED
    BY <2>1
<1>3. MaxChars * n = c * n + d * n /\ (c + 1) * n = c * n + n
  BY <1>2
<1>4. c * n \in Nat /\ d * n \in Nat
  OBVIOUS
<1>5. Extent \in Nat
  BY RenderAssumption
<1>6. Stray(c) = c * n /\ Stray(c + 1) = (c + 1) * n /\ Reach = MaxChars * n + 2 * Extent
  BY <1>1 DEF Stray, Reach
<1>7. (c + 1) * n = c * n + (Extent + line_height)
  BY <1>1, <1>3
<1>8. Stray(c) + 2 * Extent <= Reach
  BY <1>3, <1>4, <1>5, <1>6
<1>9. Stray(c + 1) = Stray(c) + Extent + line_height
  BY <1>4, <1>5, <1>6, <1>7 DEF line_height
<1>10. QED
  BY <1>4, <1>6, <1>8, <1>9

\* Wherever a string may start, its pen survives the conversion to int.
LEMMA StartsNear ==
  ASSUME NEW opt \in Positions, NEW size \in Sizes
  PROVE  LET x == PenX(opt, size.width)
             y == PenY(opt, size.height)
         IN /\ x \in Int /\ y \in Int
            /\ Signed(x) = x /\ Signed(y) = y
            /\ -x_box <= x /\ x <= size.width + x_box
            /\ -x_box <= y /\ y <= size.height + x_box
<1>1. PICK w \in Nat : w = size.width
  BY SizeFacts
<1>2. PICK h \in Nat : h = size.height
  BY SizeFacts
<1>3. /\ w \div 2 \in Nat /\ w \div 2 <= w
      /\ h \div 2 \in Nat /\ h \div 2 <= h
  OBVIOUS
<1>4. PICK x \in Int : x = PenX(opt, w) /\ -x_box <= x /\ x <= w + x_box
  BY <1>3 DEF Positions, PenX, x_box, margin
<1>5. PICK y \in Int : y = PenY(opt, h) /\ -x_box <= y /\ y <= h + x_box
  BY <1>3 DEF Positions, PenY, x_box, y_box, margin
<1>6. Reach \in Nat
  <2>1. 0 \in 0..MaxChars /\ MaxChars \in 0..MaxChars /\ Extent \in Nat
    BY RenderAssumption
  <2>2. Reach = Stray(MaxChars) + 2 * Extent
    BY DEF Reach, Stray
  <2>3. QED
    BY <2>1, <2>2, StrayGrows
<1>7. w + x_box + Reach < Half /\ h + x_box + Reach < Half
  BY <1>1, <1>2, SizeFacts
<1>8. Half \in Nat
  BY RenderAssumption
<1>9. -Half <= x /\ x < Half /\ -Half <= y /\ y < Half
  BY <1>4, <1>5, <1>6, <1>7, <1>8 DEF x_box
<1>10. Signed(x) = x /\ Signed(y) = y
  BY <1>9, SignedFits
<1>11. QED
  BY <1>1, <1>2, <1>4, <1>5, <1>10

\* A pen that is near can draw any glyph without leaving the range of int.
LEMMA NearIsAtPen ==
  ASSUME NEW c \in 0..MaxChars, NEW size \in Sizes, NEW p \in Pens,
         NEW g \in Loadable, Near(p, size, Stray(c))
  PROVE  AtPen(g, p)
<1>1. PICK d \in Nat : d = Stray(c) /\ d + 2 * Extent <= Reach
  BY StrayGrows
<1>2. p.x \in Int /\ p.y \in Int
  BY DEF Pens
<1>3. PICK w \in Nat : w = size.width /\ w + x_box + Reach < Half
  BY SizeFacts
<1>4. PICK h \in Nat : h = size.height /\ h + x_box + Reach < Half
  BY SizeFacts
<1>5. Half \in Nat /\ Extent \in Nat
  BY RenderAssumption
<1>6. Reach \in Nat
  BY <1>5, StrayGrows, RenderAssumption DEF Reach, line_height
<1>7. /\ -x_box - d <= p.x /\ p.x <= w + x_box + d
      /\ -x_box - d <= p.y /\ p.y <= h + x_box + d
  BY <1>1, <1>3, <1>4 DEF Near
<1>8. /\ g.left \in Int /\ g.top \in Int /\ g.width \in Nat /\ g.rows \in Nat
      /\ -Extent <= g.left /\ g.left <= Extent
      /\ -Extent <= g.top /\ g.top <= Extent
      /\ g.width <= Extent /\ g.rows <= Extent
  BY GlyphMetrics
<1>9. -Half <= p.x + g.left /\ p.x + g.left + g.width < Half
  BY <1>1, <1>2, <1>3, <1>5, <1>6, <1>7, <1>8 DEF x_box
<1>10. -Half <= p.y - g.top /\ p.y - g.top + g.rows < Half
  BY <1>1, <1>2, <1>4, <1>5, <1>6, <1>7, <1>8 DEF x_box
<1>11. QED
  BY <1>2, <1>9, <1>10 DEF AtPen

\* One more character moves no pen out of what is near, be it its own or not.
LEMMA NearStays ==
  ASSUME NEW c \in 0..MaxChars, NEW size \in Sizes, NEW p \in Pens,
         Near(p, size, Stray(c))
  PROVE  /\ Near(p, size, Stray(c + 1))
         /\ Near([p EXCEPT !.x = p.orig, !.y = @ + line_height], size, Stray(c + 1))
         /\ \A g \in Loadable :
              Near([p EXCEPT !.x = @ + g.advance], size, Stray(c + 1))
<1>1. PICK d \in Nat : d = Stray(c) /\ Stray(c + 1) = d + Extent + line_height
  BY StrayGrows
<1>2. p.x \in Int /\ p.y \in Int /\ p.orig \in Int
  BY DEF Pens
<1>3. size.width \in Nat /\ size.height \in Nat
  BY SizeFacts
<1>4. Extent \in Nat
  BY RenderAssumption
<1>5. Near(p, size, d)
  BY <1>1
<1>6. Near(p, size, d + Extent + line_height)
  BY <1>2, <1>3, <1>4, <1>5 DEF Near, x_box, line_height
<1>7. Near([p EXCEPT !.x = p.orig, !.y = @ + line_height], size, d + Extent + line_height)
  BY <1>2, <1>3, <1>4, <1>5 DEF Near, Pens, x_box, line_height
<1>8. ASSUME NEW g \in Loadable
      PROVE  Near([p EXCEPT !.x = @ + g.advance], size, d + Extent + line_height)
  <2>1. g.advance \in Int /\ -Extent <= g.advance /\ g.advance <= Extent
    BY GlyphMetrics
  <2>2. QED
    BY <1>2, <1>3, <1>4, <1>5, <2>1 DEF Near, Pens, x_box, line_height
<1>9. QED
  BY <1>1, <1>6, <1>7, <1>8

-----------------------------------------------------------------------------
(* The invariant *)

Types ==
  /\ slot \in Loadable
  /\ chars \in 0..MaxChars
  /\ pc \in [Threads -> {"idle", "text", "draw"}]
  /\ frame \in [Threads -> Sizes]
  /\ wanted \in [Threads -> Loadable]
  /\ place \in [Threads -> Pens]
  /\ surface \in [Threads -> SUBSET Nat]

\* Who is inside render_string_to_frame holds m_mutex, and the slot still has
\* the glyph that it loaded.
SlotIsMine ==
  \A t \in Threads : /\ pc[t] # "idle" => m_mutex = t
                     /\ pc[t] = "draw" => wanted[t] = slot /\ chars < MaxChars

PensAreNear == \A t \in Threads : Near(place[t], frame[t], Stray(chars))

Inside == \A t \in Threads :
            surface[t] \subseteq 0..3 * (frame[t].width * frame[t].height) - 1

RenderInv ==
  /\ Types /\ SlotIsMine /\ PensAreNear /\ pen = place /\ Inside /\ TextIsInPlace

\* No text has been drawn.
LEMMA InitRender == Init => RenderInv
<1> SUFFICES ASSUME Init PROVE RenderInv
  OBVIOUS
<1>1. MaxChars \in Nat /\ Extent \in Nat /\ 0 \in 0..MaxChars
  BY RenderAssumption
<1>2. Types
  <2>1. Blank \in Loadable /\ Origin \in Pens
    BY DEF Loadable, Origin, Pens
  <2>2. QED
    BY <1>1, <2>1 DEF Init, Types
<1>3. PensAreNear
  <2> SUFFICES ASSUME NEW t \in Threads
               PROVE  Near(place[t], frame[t], Stray(chars))
    BY DEF PensAreNear
  <2>1. place[t] = Origin /\ chars = 0 /\ frame[t] \in Sizes
    BY DEF Init
  <2>2. PICK d \in Nat : d = Stray(chars)
    BY <1>1, <2>1, StrayGrows
  <2>3. frame[t].width \in Nat /\ frame[t].height \in Nat
    BY <2>1, SizeFacts
  <2>4. QED
    BY <2>1, <2>2, <2>3 DEF Near, Origin, x_box
<1>4. SlotIsMine
  BY DEF Init, SlotIsMine
<1>5. Inside /\ pen = place /\ TextIsInPlace
  BY DEF Init, Inside, TextIsInPlace
<1>6. QED
  BY <1>2, <1>3, <1>4, <1>5 DEF RenderInv

\* A step that moves only the pen of t, and no character is counted.
LEMMA BeginStringKeeps ==
  ASSUME RenderInv, NEW t \in Threads, BeginString(t)
  PROVE  RenderInv'
<1> USE DEF RenderInv
<1>1. PICK opt \in Positions :
        /\ pen' = [pen EXCEPT ![t] = [x |-> Signed(PenX(opt, frame[t].width)),
                                      y |-> Signed(PenY(opt, frame[t].height)),
                                      orig |-> Signed(PenX(opt, frame[t].width))]]
        /\ place' = [place EXCEPT ![t] = [x |-> PenX(opt, frame[t].width),
                                          y |-> PenY(opt, frame[t].height),
                                          orig |-> PenX(opt, frame[t].width)]]
  BY DEF BeginString
<1>2. frame[t] \in Sizes
  BY DEF Types
<1>3. PICK x \in Int : /\ x = PenX(opt, frame[t].width) /\ Signed(x) = x
                       /\ -x_box <= x /\ x <= frame[t].width + x_box
  BY <1>2, StartsNear
<1>4. PICK y \in Int : /\ y = PenY(opt, frame[t].height) /\ Signed(y) = y
                       /\ -x_box <= y /\ y <= frame[t].height + x_box
  BY <1>2, StartsNear
<1>5. PICK p \in Pens : p = [x |-> x, y |-> y, orig |-> x]
  BY DEF Pens
<1>6. pen' = place' /\ place' = [place EXCEPT ![t] = p]
  BY <1>1, <1>3, <1>4, <1>5
<1>7. UNCHANGED <<slot, frame, wanted, surface, intended, chars>>
  BY DEF BeginString, drawn
<1>8. Types'
  BY <1>6, <1>7 DEF Types, BeginString
<1>9. SlotIsMine'
  <2>1. \A u \in Threads : pc[u] = "idle" \/ m_mutex = u
    BY DEF SlotIsMine
  <2>2. m_mutex = "nobody" /\ m_mutex' = t /\ pc' = [pc EXCEPT ![t] = "text"]
    BY DEF BeginString
  <2>3. \A u \in Threads : pc[u] = "idle"
    BY <2>1, <2>2, RenderAssumption
  <2>4. QED
    BY <2>2, <2>3 DEF SlotIsMine, Types
<1>10. PensAreNear'
  <2> SUFFICES ASSUME NEW u \in Threads
               PROVE  Near(place'[u], frame[u], Stray(chars))
    BY <1>7 DEF PensAreNear
  <2>1. CASE u # t
    BY <1>6, <2>1 DEF PensAreNear, Types
  <2>2. CASE u = t
    <3>1. place'[t] = p
      BY <1>6 DEF Types
    <3>2. PICK d \in Nat : d = Stray(chars)
      BY StrayGrows DEF Types
    <3>3. frame[t].width \in Nat /\ frame[t].height \in Nat
      BY <1>2, SizeFacts
    <3>4. Near(p, frame[t], d)
      BY <1>3, <1>4, <1>5, <3>3 DEF Near, x_box
    <3>5. QED
      BY <2>2, <3>1, <3>2, <3>4
  <2>3. QED
    BY <2>1, <2>2
<1>11. Inside' /\ TextIsInPlace'
  BY <1>7 DEF Inside, TextIsInPlace
<1>12. QED
  BY <1>6, <1>8, <1>9, <1>10, <1>11

\* A step of the thread that holds m_mutex, which finishes a character.
LEMMA CharacterKeeps ==
  ASSUME RenderInv, NEW t \in Threads, NEW p,
         pc[t] # "idle", chars < MaxChars,
         p \in Pens, Near(p, frame[t], Stray(chars + 1)),
         chars' = chars + 1,
         place' = [place EXCEPT ![t] = p], pen' = [pen EXCEPT ![t] = p],
         pc' = [pc EXCEPT ![t] = "text"],
         UNCHANGED <<slot, frame, wanted, m_mutex>>
  PROVE  /\ (surface' \in [Threads -> SUBSET Nat]) => Types'
         /\ SlotIsMine' /\ PensAreNear' /\ (pen = place)'
<1> USE DEF RenderInv
<1>1. chars \in 0..MaxChars /\ chars' \in 0..MaxChars
  BY RenderAssumption DEF Types
<1>2. (surface' \in [Threads -> SUBSET Nat]) => Types'
  BY <1>1 DEF Types
<1>3. SlotIsMine'
  BY DEF SlotIsMine, Types
<1>4. PensAreNear'
  <2> SUFFICES ASSUME NEW u \in Threads
               PROVE  Near(place'[u], frame[u], Stray(chars + 1))
    BY DEF PensAreNear
  <2>1. CASE u = t
    BY <2>1 DEF Types
  <2>2. CASE u # t
    <3>1. place'[u] = place[u] /\ place[u] \in Pens /\ frame[u] \in Sizes
      BY <2>2 DEF Types
    <3>2. Near(place[u], frame[u], Stray(chars))
      BY DEF PensAreNear
    <3>3. QED
      BY <1>1, <3>1, <3>2, NearStays
  <2>3. QED
    BY <2>1, <2>2
<1>5. QED
  BY <1>2, <1>3, <1>4

\* A line break moves the pen, and draws nothing.
LEMMA NewLineKeeps ==
  ASSUME RenderInv, NEW t \in Threads, NewLine(t)
  PROVE  RenderInv'
<1> USE DEF RenderInv
<1>1. /\ chars \in 0..MaxChars /\ place[t] \in Pens /\ frame[t] \in Sizes
      /\ Near(place[t], frame[t], Stray(chars))
  BY DEF Types, PensAreNear
<1>2. PICK p : p = [place[t] EXCEPT !.x = place[t].orig, !.y = @ + line_height]
  OBVIOUS
<1>3. p \in Pens
  <2>1. place[t].x \in Int /\ place[t].y \in Int /\ place[t].orig \in Int
    BY <1>1 DEF Pens
  <2>2. p = [x |-> place[t].orig, y |-> place[t].y + line_height,
             orig |-> place[t].orig]
    BY <1>1, <1>2 DEF Pens
  <2>3. QED
    BY <2>1, <2>2 DEF Pens, line_height
<1>4. Near(p, frame[t], Stray(chars + 1))
  BY <1>1, <1>2, NearStays
<1>5. place' = [place EXCEPT ![t] = p] /\ pen' = [pen EXCEPT ![t] = p]
  BY <1>2 DEF NewLine, Types
<1>6. pc' = [pc EXCEPT ![t] = "text"] /\ pc[t] # "idle" /\ chars < MaxChars
  BY DEF NewLine, Types
<1>7. chars' = chars + 1 /\ UNCHANGED <<slot, frame, wanted, m_mutex, surface, intended>>
  BY DEF NewLine
<1>8. surface' \in [Threads -> SUBSET Nat] /\ Inside' /\ TextIsInPlace'
  BY <1>7 DEF Types, Inside, TextIsInPlace
<1>9. QED
  BY <1>3, <1>4, <1>5, <1>6, <1>7, <1>8, CharacterKeeps

\* What the slot holds is what this thread loaded, so what it draws is the text
\* at its place.
LEMMA DrawGlyphKeeps ==
  ASSUME RenderInv, NEW t \in Threads, DrawGlyph(t)
  PROVE  RenderInv'
<1> USE DEF RenderInv
<1>1. /\ chars \in 0..MaxChars /\ place[t] \in Pens /\ frame[t] \in Sizes
      /\ slot \in Loadable /\ pen[t] = place[t]
      /\ Near(place[t], frame[t], Stray(chars))
  BY DEF Types, PensAreNear
<1>2. pc[t] = "draw" /\ wanted[t] = slot /\ chars < MaxChars
  BY DEF DrawGlyph, SlotIsMine
<1>3. PICK p : p = [place[t] EXCEPT !.x = @ + slot.advance]
  OBVIOUS
<1>4. p \in Pens
  <2>1. slot.advance \in Int
    BY <1>1, GlyphMetrics
  <2>2. QED
    BY <1>1, <1>3, <2>1 DEF Pens
<1>5. Near(p, frame[t], Stray(chars + 1))
  BY <1>1, <1>3, NearStays
<1>6. place' = [place EXCEPT ![t] = p] /\ pen' = [pen EXCEPT ![t] = p]
  BY <1>2, <1>3 DEF DrawGlyph, Types
<1>7. /\ pc' = [pc EXCEPT ![t] = "text"] /\ chars' = chars + 1
      /\ UNCHANGED <<slot, frame, wanted, m_mutex>>
  BY DEF DrawGlyph
<1>8. AtPen(slot, place[t])
  BY <1>1, NearIsAtPen
<1>9. PICK b : b = Drawn(slot, place[t], frame[t])
  OBVIOUS
<1>10. /\ b = Inked(slot, place[t], frame[t])
       /\ b \subseteq 0..3 * (frame[t].width * frame[t].height) - 1
  BY <1>1, <1>8, <1>9, DrawnIsInked
<1>11. /\ surface' = [surface EXCEPT ![t] = @ \cup b]
       /\ intended' = [intended EXCEPT ![t] = @ \cup b]
  BY <1>1, <1>2, <1>9, <1>10 DEF DrawGlyph
<1>12. surface' \in [Threads -> SUBSET Nat] /\ TextIsInPlace'
  BY <1>10, <1>11 DEF Types, TextIsInPlace
<1>13. Inside'
  BY <1>7, <1>10, <1>11 DEF Inside, Types
<1>14. QED
  BY <1>2, <1>4, <1>5, <1>6, <1>7, <1>12, <1>13, CharacterKeeps

\* FT_Load_Char changes the slot, which nobody else is using.
LEMMA LoadCharKeeps ==
  ASSUME RenderInv, NEW t \in Threads, LoadChar(t)
  PROVE  RenderInv'
<1> USE DEF RenderInv
<1>1. UNCHANGED <<m_mutex, frame, pen, place, surface, intended, chars>>
  BY DEF LoadChar, drawn
<1>2. PensAreNear' /\ Inside' /\ TextIsInPlace' /\ pen' = place'
  BY <1>1 DEF PensAreNear, Inside, TextIsInPlace
<1>3. CASE has_face
  <2>1. /\ slot' \in Loadable /\ wanted' = [wanted EXCEPT ![t] = slot']
        /\ pc' = [pc EXCEPT ![t] = "draw"] /\ pc[t] = "text" /\ chars < MaxChars
    BY <1>3 DEF LoadChar, Loadable
  <2>2. Types'
    BY <1>1, <2>1 DEF Types
  <2>3. SlotIsMine'
    <3>1. m_mutex = t
      BY <2>1 DEF SlotIsMine
    <3>2. \A u \in Threads : u # t => pc'[u] = pc[u] /\ pc[u] = "idle"
      BY <2>1, <3>1 DEF SlotIsMine, Types
    <3>3. QED
      BY <1>1, <2>1, <3>1, <3>2 DEF SlotIsMine, Types
  <2>4. QED
    BY <1>2, <2>2, <2>3
<1>4. CASE ~has_face
  <2>1. UNCHANGED <<slot, wanted, pc>>
    BY <1>4 DEF LoadChar
  <2>2. QED
    BY <1>1, <1>2, <2>1 DEF Types, SlotIsMine
<1>5. QED
  BY <1>3, <1>4

\* Who releases m_mutex is no longer drawing.
LEMMA EndStringKeeps ==
  ASSUME RenderInv, NEW t \in Threads, EndString(t)
  PROVE  RenderInv'
<1> USE DEF RenderInv
<1>1. UNCHANGED <<slot, frame, wanted, pen, place, surface, intended, chars>>
  BY DEF EndString, drawn
<1>2. pc[t] = "text" /\ pc' = [pc EXCEPT ![t] = "idle"] /\ m_mutex' = "nobody"
  BY DEF EndString
<1>3. \A u \in Threads : pc'[u] = "idle"
  BY <1>2 DEF SlotIsMine, Types
<1>4. Types' /\ SlotIsMine'
  BY <1>1, <1>2, <1>3 DEF Types, SlotIsMine
<1>5. PensAreNear' /\ Inside' /\ TextIsInPlace' /\ pen' = place'
  BY <1>1 DEF PensAreNear, Inside, TextIsInPlace
<1>6. QED
  BY <1>4, <1>5

\* Every step keeps the invariant.
LEMMA NextKeeps == RenderInv /\ [Next]_vars => RenderInv'
<1> SUFFICES ASSUME RenderInv, [Next]_vars PROVE RenderInv'
  OBVIOUS
<1>1. CASE Construct
  BY <1>1 DEF Construct, RenderInv, Types, SlotIsMine, PensAreNear, Inside,
              TextIsInPlace, drawn
<1>2. CASE UNCHANGED vars
  BY <1>2 DEF vars, RenderInv, Types, SlotIsMine, PensAreNear, Inside, TextIsInPlace
<1>3. CASE \E t \in Threads : Render(t)
  BY <1>3, BeginStringKeeps, NewLineKeeps, LoadCharKeeps, DrawGlyphKeeps,
     EndStringKeeps DEF Render
<1>4. QED
  BY <1>1, <1>2, <1>3 DEF Next, Terminated

-----------------------------------------------------------------------------
(* The theorems *)

\* The inductive invariant holds in every reachable state.
LEMMA InvAlways == Spec => []RenderInv
BY InitRender, NextKeeps, PTL DEF Spec

\* render_string_to_frame writes only bytes of the frame it was given, whatever
\* the size of the frame and wherever the text hangs over its edges.
THEOREM DrawsInsideFrame == Spec => []InsideSurface
<1>1. RenderInv => InsideSurface
  <2> SUFFICES ASSUME RenderInv, NEW t \in Threads
               PROVE  surface[t] \subseteq 0 .. 3 * frame[t].width * frame[t].height - 1
    BY DEF InsideSurface
  <2>1. PICK w \in Nat : w = frame[t].width
    BY SizeFacts DEF RenderInv, Types
  <2>2. PICK h \in Nat : h = frame[t].height
    BY SizeFacts DEF RenderInv, Types
  <2>3. 3 * w * h = 3 * (w * h)
    OBVIOUS
  <2>4. QED
    BY <2>1, <2>2, <2>3 DEF RenderInv, Inside
<1>2. QED
  BY <1>1, InvAlways, PTL

\* Every thread's frame shows exactly the text the thread was given at the
\* place exact arithmetic gives it: neither the other thread's use of the
\* shared glyph slot nor the words of fixed width change a byte.
THEOREM TextStaysInPlace == Spec => []TextIsInPlace
BY InvAlways, PTL DEF RenderInv
=============================================================================
