------------------------------ MODULE Graphics ------------------------------
(***************************************************************************)
(* kernel/graphics.c: lines, rectangles, circles and text drawn one pixel  *)
(* at a time into a linear frame buffer, with 16-bit coordinates that wrap *)
(* and int arithmetic inside the loops.  A call is a sequence of shapes    *)
(* still to draw; colours are left out.                                    *)
(***************************************************************************)
EXTENDS Integers, Sequences, FiniteSets

CONSTANTS
  CoordMod,       \* 2^16
  DefaultMode,    \* the mode of graphics_init: [width, height, bpp]
  Modes,          \* the modes others set
  Coords, Extents,\* the coordinates and the sizes callers pass
  CharWidth, CharHeight, MaxText   \* 8, 16, and the longest text drawn

ASSUME GraphicsAssumption ==
  /\ CoordMod \in Nat \ {0}
  /\ Coords \cup Extents \subseteq 0 .. CoordMod - 1
  /\ {CharWidth, CharHeight, MaxText} \subseteq Nat
  /\ \A m \in Modes \cup {DefaultMode} : {m.width, m.height} \subseteq 0 .. CoordMod - 1

VARIABLES
  screen,    \* screen_width, screen_height and screen_bpp
  drawing,   \* the last call and its arguments
  shapes,    \* what is left of it
  drawn      \* the words of the frame buffer it has written

gfxVars == <<screen, drawing, shapes, drawn>>

Word16(coord) == coord % CoordMod

\* graphics_put_pixel on each point, which is cut to 16 bits and clipped.
Pixels(points) ==
  {p[2] * screen.width + p[1] :
     p \in {q \in {<<Word16(point[1]), Word16(point[2])>> : point \in points} :
              q[1] < screen.width /\ q[2] < screen.height}}

-----------------------------------------------------------------------------
(* The shapes as their functions set them up.                              *)

Dist(from, to) == IF from < to THEN to - from ELSE from - to
Toward(from, to) == IF from < to THEN 1 ELSE -1

Line(x0, y0, x1, y1) ==
  [kind |-> "line", x |-> Word16(x0), y |-> Word16(y0), tox |-> Word16(x1), toy |-> Word16(y1),
   dx |-> Dist(Word16(x0), Word16(x1)), dy |-> Dist(Word16(y0), Word16(y1)),
   sx |-> Toward(Word16(x0), Word16(x1)), sy |-> Toward(Word16(y0), Word16(y1)),
   err |-> Dist(Word16(x0), Word16(x1)) - Dist(Word16(y0), Word16(y1))]

RectLines(x, y, w, h) ==
  <<Line(x, y, x + w - 1, y), Line(x, y + h - 1, x + w - 1, y + h - 1),
    Line(x, y, x, y + h - 1), Line(x + w - 1, y, x + w - 1, y + h - 1)>>

Area(x, y, w, h) == [kind |-> "area", x |-> x, y |-> y, w |-> w, h |-> h, i |-> y, j |-> x]

CharAreas(x, y, n) ==
  [k \in 1 .. n |-> Area(Word16(x + (k - 1) * CharWidth), y, CharWidth, CharHeight)]

Ring(x, y, r) ==
  [a |-> 0, b |-> r, kind |-> "ring", x |-> x, y |-> y, f |-> 1 - r, ddx |-> 1, ddy |-> -2 * r]

Disc(x, y, r) == [kind |-> "disc", x |-> x, y |-> y, i |-> -r, r |-> r]

-----------------------------------------------------------------------------
GfxInit ==
  /\ screen = [width |-> 0, height |-> 0, bpp |-> 0]
  /\ drawing = [kind |-> "none"]
  /\ shapes = <<>>
  /\ drawn = {}

Idle == shapes = <<>> /\ drawing.kind = "none"

SetMode(mode) ==
  /\ Idle
  /\ screen' = mode
  /\ UNCHANGED <<drawing, shapes, drawn>>

\* graphics_init: without the device the screen keeps no size at all.
GraphicsInit == SetMode(DefaultMode)

Draw(call, todo, first) ==
  /\ Idle
  /\ drawing' = call
  /\ shapes' = todo
  /\ drawn' = first
  /\ UNCHANGED screen

DrawLine(x0, y0, x1, y1) ==
  Draw([kind |-> "line", x |-> x0, y |-> y0, tox |-> x1, toy |-> y1], <<Line(x0, y0, x1, y1)>>, {})

DrawRect(x, y, w, h) ==
  Draw([kind |-> "rect", x |-> x, y |-> y, w |-> w, h |-> h], RectLines(x, y, w, h), {})

FillRect(x, y, w, h) ==
  Draw([kind |-> "fill", x |-> x, y |-> y, w |-> w, h |-> h], <<Area(x, y, w, h)>>, {})

DrawString(x, y, n) ==
  Draw([kind |-> "text", x |-> x, y |-> y, n |-> n], CharAreas(x, y, n), {})

DrawCircle(x, y, r) ==
  Draw([kind |-> "circle", x |-> x, y |-> y, r |-> r], <<Ring(x, y, r)>>,
       Pixels({<<x, y + r>>, <<x, y - r>>, <<x + r, y>>, <<x - r, y>>}))

FillCircle(x, y, r) ==
  Draw([kind |-> "disc", x |-> x, y |-> y, r |-> r], <<Disc(x, y, r)>>, {})

Clear ==
  Draw([kind |-> "clear"], <<>>, 0 .. screen.width * screen.height - 1)

\* The next call starts a record of its own: only the mode outlives a call.
DrawingSeen ==
  /\ shapes = <<>> /\ drawing.kind # "none"
  /\ drawing' = [kind |-> "none"]
  /\ drawn' = {}
  /\ UNCHANGED <<screen, shapes>>

-----------------------------------------------------------------------------
(* The loops.                                                              *)

Shape(kind) == shapes # <<>> /\ Head(shapes).kind = kind
Goes(s) == shapes' = <<s>> \o Tail(shapes) /\ UNCHANGED <<screen, drawing>>
Ends == shapes' = Tail(shapes) /\ UNCHANGED <<screen, drawing>>
Paint(points) == drawn' = drawn \cup Pixels(points)

(* Bug: the error grows before the step across is decided.                 *)
NextPointLate(s) ==
  LET across == 2 * s.err > -s.dy
      err    == IF across THEN s.err - s.dy ELSE s.err
      down   == 2 * err < s.dx
  IN  [s EXCEPT !.x = IF across THEN Word16(@ + s.sx) ELSE @,
                !.y = IF down THEN Word16(@ + s.sy) ELSE @,
                !.err = IF down THEN err + s.dx ELSE err]

NextPoint(s) ==
  LET across == 2 * s.err > -s.dy
      down   == 2 * s.err < s.dx
  IN  [s EXCEPT !.x = IF across THEN Word16(@ + s.sx) ELSE @,
                !.y = IF down THEN Word16(@ + s.sy) ELSE @,
                !.err = @ - (IF across THEN s.dy ELSE 0) + (IF down THEN s.dx ELSE 0)]

LineStep ==
  /\ Shape("line")
  /\ LET s == Head(shapes) IN
     /\ Paint({<<s.x, s.y>>})
     /\ IF s.x = s.tox /\ s.y = s.toy THEN Ends ELSE Goes(NextPoint(s))

(* Bug: the loops run up to and including the end.                         *)
PastInclusive(start, size) == start + size + 1

Past(start, size) == start + size

\* The counters have 16 bits, the end they are compared with has more.
AreaStep ==
  /\ Shape("area")
  /\ LET s == Head(shapes) IN
     \/ /\ s.i < Past(s.y, s.h) /\ s.j < Past(s.x, s.w)
        /\ Paint({<<s.j, s.i>>})
        /\ Goes([s EXCEPT !.j = Word16(@ + 1)])
     \/ /\ s.i < Past(s.y, s.h) /\ s.j >= Past(s.x, s.w)
        /\ Goes([s EXCEPT !.i = Word16(@ + 1), !.j = s.x])
        /\ UNCHANGED drawn
     \/ /\ s.i >= Past(s.y, s.h)
        /\ Ends
        /\ UNCHANGED drawn

Octants(s) ==
  {<<s.x + p * s.a, s.y + q * s.b>> : p \in {-1, 1}, q \in {-1, 1}}
    \cup {<<s.x + p * s.b, s.y + q * s.a>> : p \in {-1, 1}, q \in {-1, 1}}

RingStep ==
  /\ Shape("ring")
  /\ LET s    == Head(shapes)
         in   == s.f >= 0
         ddy  == IF in THEN s.ddy + 2 ELSE s.ddy
         next == [s EXCEPT !.b = IF in THEN @ - 1 ELSE @, !.ddy = ddy,
                           !.a = @ + 1, !.ddx = @ + 2,
                           !.f = @ + (IF in THEN ddy ELSE 0) + s.ddx + 2]
     IN  IF s.a < s.b THEN Paint(Octants(next)) /\ Goes(next) ELSE Ends /\ UNCHANGED drawn

\* One round of the outer loop: a column of the disc.
DiscStep ==
  /\ Shape("disc")
  /\ LET s == Head(shapes) IN
     IF s.i > s.r THEN Ends /\ UNCHANGED drawn
     ELSE /\ Paint({<<s.x + s.i, s.y + j>> :
                      j \in {k \in -s.r .. s.r : s.i * s.i + k * k <= s.r * s.r}})
          /\ Goes([s EXCEPT !.i = @ + 1])

GfxStep == LineStep \/ AreaStep \/ RingStep \/ DiscStep

GfxNext ==
  \/ GraphicsInit
  \/ \E mode \in Modes : SetMode(mode)
  \/ Clear
  \/ \E x, y \in Coords :
       \/ \E x1, y1 \in Coords : DrawLine(x, y, x1, y1)
       \/ \E w, h \in Extents : DrawRect(x, y, w, h) \/ FillRect(x, y, w, h)
       \/ \E n \in 0 .. MaxText : DrawString(x, y, n)
       \/ \E r \in Extents : DrawCircle(x, y, r) \/ FillCircle(x, y, r)
  \/ GfxStep \/ DrawingSeen

GfxSpec == GfxInit /\ [][GfxNext]_gfxVars

-----------------------------------------------------------------------------
\* The call's loops end before the coordinates run out.
Ended(c) ==
  CASE c.kind = "fill" -> c.h = 0 \/ (c.y + c.h < CoordMod /\ c.x + c.w < CoordMod)
    [] c.kind = "text" -> /\ c.n = 0 \/ c.y + CharHeight < CoordMod
                        /\ \A k \in 1 .. c.n : Word16(c.x + (k - 1) * CharWidth) + CharWidth < CoordMod
    [] OTHER -> TRUE

Block(x, y, w, h) == {<<i, j>> : i \in x .. x + w - 1, j \in y .. y + h - 1}
Sq(n) == n * n
Larger(a, b) == IF a < b THEN b ELSE a
\* No coordinate of the call wraps.
Flat(c) ==
  CASE c.kind = "rect" -> c.w > 0 /\ c.h > 0 /\ c.x + c.w <= CoordMod /\ c.y + c.h <= CoordMod
    [] c.kind = "text" -> c.x + c.n * CharWidth < CoordMod
    [] c.kind \in {"circle", "disc"} ->
         {c.x - c.r, c.x + c.r, c.y - c.r, c.y + c.r} \subseteq 0 .. CoordMod - 1
    [] OTHER -> TRUE

\* A line: in its box, at most half a pixel off in its longer direction, one
\* pixel for each step of it, with both ends.
IsLine(c) ==
  LET dx == Dist(c.x, c.tox)  dy == Dist(c.y, c.toy)
      On(p) == /\ Dist(c.x, p[1]) + Dist(p[1], c.tox) = dx
               /\ Dist(c.y, p[2]) + Dist(p[2], c.toy) = dy
               /\ 2 * Dist(dx * Dist(c.y, p[2]), dy * Dist(c.x, p[1])) <= Larger(dx, dy)
      box == Block(0, 0, screen.width, screen.height)
  IN  /\ drawn \subseteq Pixels({p \in box : On(p)})
      /\ Pixels({<<c.x, c.y>>, <<c.tox, c.toy>>}) \subseteq drawn
      /\ {<<c.x, c.y>>, <<c.tox, c.toy>>} \subseteq box => Cardinality(drawn) = Larger(dx, dy) + 1

\* A circle: all its pixels within one of the radius, and one in each column
\* and row it crosses.
IsRing(c) ==
  LET ring == {p \in Block(0, 0, CoordMod, CoordMod) :
                 /\ Sq(p[1] - c.x) + Sq(p[2] - c.y) <= Sq(c.r + 1)
                 /\ c.r > 0 => Sq(p[1] - c.x) + Sq(p[2] - c.y) >= Sq(c.r - 1)}
  IN  /\ drawn \subseteq Pixels(ring)
      /\ c.x + c.r < screen.width /\ c.y + c.r < screen.height =>
           \A k \in -c.r .. c.r :
             /\ \E p \in ring : p[1] = c.x + k /\ Pixels({p}) \subseteq drawn
             /\ \E p \in ring : p[2] = c.y + k /\ Pixels({p}) \subseteq drawn

(* A drawing call that has returned has written its shape, clipped to the  *)
(* screen, and no other pixel, unless a coordinate wrapped on the way; in  *)
(* a mode of four bytes a pixel all of it lies in the frame.               *)
DrawsItsShape ==
  LET c == drawing IN
  /\ screen.bpp = 32 => drawn \subseteq 0 .. screen.width * screen.height - 1
  /\ shapes = <<>> /\ Flat(c) =>
       CASE c.kind = "line" -> IsLine(c)
         [] c.kind = "rect" -> drawn = Pixels(Block(c.x, c.y, c.w, c.h)
                                              \ Block(c.x + 1, c.y + 1, c.w - 2, c.h - 2))
         [] c.kind = "fill" -> drawn = Pixels(Block(c.x, c.y, c.w, c.h))
         [] c.kind = "text" -> drawn = Pixels(Block(c.x, c.y, c.n * CharWidth, CharHeight))
         [] c.kind = "circle" -> IsRing(c)
         [] c.kind = "disc" -> drawn = Pixels({p \in Block(0, 0, CoordMod, CoordMod) :
                                               Sq(p[1] - c.x) + Sq(p[2] - c.y) <= Sq(c.r)})
         [] c.kind = "clear" -> drawn = 0 .. screen.width * screen.height - 1
         [] OTHER -> TRUE

(* Every drawing call returns, if the kernel keeps running and no area     *)
(* ends past the last coordinate: a loop to an end of 65536 or more never  *)
(* does.                                                                   *)
DrawReturns == (shapes # <<>> /\ Ended(drawing)) ~> (shapes = <<>>)
=============================================================================
