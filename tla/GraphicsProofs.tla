--------------------------- MODULE GraphicsProofs ---------------------------
(***************************************************************************)
(* Proofs, for every width of a coordinate, every mode and every argument, *)
(* that the loops of kernel/graphics.c draw their shapes: all of a shape's *)
(* pixels, clipped to the screen, and no other.                            *)
(*                                                                         *)
(* A line is a walk whose distance from the ideal line stays within half a *)
(* step; an area is swept row by row; a circle is a list of pairs (a, b)   *)
(* that miss it by less than one and cover every column; a disc is filled  *)
(* column by column. The invariant GInv says of a call that its first      *)
(* shapes are whole, the next one is on its way and the rest wait.         *)
(***************************************************************************)
EXTENDS Graphics, FiniteSetTheorems, TLAPS

(* The frame buffer.                                                       *)

(* The points of a plane, and those whose coordinates have 16 bits.        *)
Plane == Int \X Int
Coord == 0 .. CoordMod - 1

(* Pixels, of any screen.                                                  *)
Lit(scr, points) ==
  {q[2] * scr.width + q[1] :
     q \in {p \in {<<Word16(point[1]), Word16(point[2])>> : point \in points} :
              p[1] < scr.width /\ p[2] < scr.height}}

Frame(scr) == 0 .. scr.width * scr.height - 1

ScreenOK(scr) == scr.width \in Coord /\ scr.height \in Coord

(* Pixels is Lit of the screen the call draws on.                          *)
LEMMA PixelsAre == ASSUME NEW points PROVE Pixels(points) = Lit(screen, points)
<1> QED BY DEF Pixels, Lit

(* graphics_put_pixel's parameters have 16 bits: a coordinate that fits is *)
(* itself.                                                                 *)
LEMMA CutOff ==
  ASSUME NEW n \in Int
  PROVE  Word16(n) \in Coord /\ (n \in Coord => Word16(n) = n)
<1>1. CoordMod \in Nat \ {0}
  BY GraphicsAssumption
<1> DEFINE m == CoordMod
<1>2. n % m \in 0 .. m - 1 /\ (n \in 0 .. m - 1 => n % m = n)
  <2> HIDE DEF m
  <2> QED BY <1>1, SMTT(30) DEF m
<1> QED BY <1>2 DEF Word16, Coord

(* What two calls of put_pixel write is what each of them writes.          *)
LEMMA LitUnion ==
  ASSUME NEW scr, NEW S, NEW T
  PROVE  Lit(scr, S \cup T) = Lit(scr, S) \cup Lit(scr, T)
<1> QED BY DEF Lit

(* More points light no fewer words.                                       *)
LEMMA LitGrows ==
  ASSUME NEW scr, NEW S, NEW T, S \subseteq T
  PROVE  Lit(scr, S) \subseteq Lit(scr, T)
<1> QED BY DEF Lit

(* No point lights no word.                                                *)
LEMMA LitNothing == ASSUME NEW scr PROVE Lit(scr, {}) = {}
<1> QED BY DEF Lit

(* A point of the screen is a word of the frame, and no other point is     *)
(* that word.                                                              *)
LEMMA WordOf ==
  ASSUME NEW w \in Nat, NEW h \in Nat, NEW x \in 0 .. w - 1, NEW y \in 0 .. h - 1
  PROVE  /\ y * w + x \in 0 .. w * h - 1
         /\ \A u \in 0 .. w - 1, v \in 0 .. h - 1 : v * w + u = y * w + x => u = x /\ v = y
<1>1. y * w \in Nat /\ w * h = y * w + w + (h - 1 - y) * w /\ (h - 1 - y) * w \in Nat
  <2>1. h = y + 1 + (h - 1 - y) /\ h - 1 - y \in Nat
    OBVIOUS
  <2> DEFINE left == h - 1 - y
  <2>2. h = y + 1 + left /\ left \in Nat
    BY <2>1
  <2> HIDE DEF left
  <2>3. w * h = y * w + w + left * w /\ left * w \in Nat /\ y * w \in Nat
    BY <2>2
  <2> QED BY <2>3 DEF left
<1>2. ASSUME NEW u \in 0 .. w - 1, NEW v \in 0 .. h - 1, v * w + u = y * w + x
      PROVE  u = x /\ v = y
  <2>1. ASSUME NEW a \in Nat, NEW b \in Nat, a < b PROVE a * w + w <= b * w
    <3>1. b - a - 1 \in Nat
      BY <2>1
    <3> DEFINE d == b - a - 1
    <3>2. d \in Nat /\ b = a + 1 + d
      BY <3>1
    <3> HIDE DEF d
    <3>3. b * w = a * w + w + d * w /\ d * w \in Nat /\ a * w \in Nat
      BY <3>2
    <3> QED BY <3>3
  <2>2. v * w \in Nat
    OBVIOUS
  <2>3. ~(v < y) /\ ~(y < v)
    BY <1>1, <1>2, <2>1, <2>2
  <2> QED BY <1>1, <1>2, <2>2, <2>3
<1> QED BY <1>1, <1>2

(* Whatever the points, the words lit lie in the frame.                    *)
LEMMA LitInFrame ==
  ASSUME NEW scr, ScreenOK(scr), NEW S \in SUBSET Plane
  PROVE  Lit(scr, S) \subseteq Frame(scr)
<1>1. ASSUME NEW p \in S, Word16(p[1]) < scr.width, Word16(p[2]) < scr.height
      PROVE  Word16(p[2]) * scr.width + Word16(p[1]) \in Frame(scr)
  <2> DEFINE x == Word16(p[1])
             y == Word16(p[2])
  <2>1. p[1] \in Int /\ p[2] \in Int
    BY DEF Plane
  <2>2. x \in Coord /\ y \in Coord
    BY <2>1, CutOff
  <2>3. x \in 0 .. scr.width - 1 /\ y \in 0 .. scr.height - 1 /\ scr.width \in Nat /\ scr.height \in Nat
    <3> HIDE DEF x, y
    <3>1. CoordMod \in Nat
      BY GraphicsAssumption
    <3>2. x < scr.width /\ y < scr.height
      BY <1>1 DEF x, y
    <3> QED BY <2>2, <3>1, <3>2 DEF ScreenOK, Coord
  <2> HIDE DEF x, y
  <2>4. y * scr.width + x \in Frame(scr)
    BY <2>3, WordOf DEF Frame
  <2> QED BY <2>4 DEF x, y
<1> QED BY <1>1 DEF Lit

(* Of points whose coordinates have 16 bits those on the screen are lit.   *)
LEMMA LitFlat ==
  ASSUME NEW scr, NEW S \in SUBSET (Coord \X Coord)
  PROVE  Lit(scr, S) = {p[2] * scr.width + p[1] : p \in {q \in S : q[1] < scr.width /\ q[2] < scr.height}}
<1>1. CoordMod \in Nat
  BY GraphicsAssumption
<1>2. \A p \in S : p[1] \in Coord /\ p[2] \in Coord /\ p = <<p[1], p[2]>>
  OBVIOUS
<1>3. \A p \in S : Word16(p[1]) = p[1] /\ Word16(p[2]) = p[2]
  BY <1>1, <1>2, CutOff DEF Coord
<1>4. {<<Word16(point[1]), Word16(point[2])>> : point \in S} = S
  BY <1>2, <1>3
<1> QED BY <1>4 DEF Lit

-----------------------------------------------------------------------------
(* Lines.                                                                  *)

DX(e) == Dist(e.x, e.tox)
DY(e) == Dist(e.y, e.toy)

(* The shape of a line from (e.x, e.y) to (e.tox, e.toy) after a steps     *)
(* across and b steps down.                                                *)
LineAt(e, a, b) ==
  [kind |-> "line", x |-> e.x + Toward(e.x, e.tox) * a, y |-> e.y + Toward(e.y, e.toy) * b,
   tox |-> e.tox, toy |-> e.toy, dx |-> DX(e), dy |-> DY(e),
   sx |-> Toward(e.x, e.tox), sy |-> Toward(e.y, e.toy),
   err |-> DX(e) * (b + 1) - DY(e) * (a + 1)]

(* a steps across and b steps down of dx and dy: at most half a step off   *)
(* the ideal line, in its longer direction.                                *)
Near(dx, dy, a, b) ==
  /\ a \in 0 .. dx /\ b \in 0 .. dy
  /\ LET off == dx * b - dy * a IN
     /\ dx >= dy => -dx <= 2 * off /\ 2 * off <= dx
     /\ dx < dy => -dy <= 2 * off /\ 2 * off <= dy
  /\ dx = dy => a = b

(* Multiples of one number grow with the other.                            *)
LEMMA Multiples ==
  ASSUME NEW p \in Nat, NEW q \in Nat, NEW r \in Nat
  PROVE  /\ p * q \in Nat
         /\ q <= r => p * q <= p * r
         /\ q < r => p * q + p <= p * r
<1>1. p * q \in Nat
  OBVIOUS
<1>2. ASSUME q <= r PROVE p * q <= p * r
  <2> DEFINE d == r - q
  <2>1. d \in Nat /\ r = q + d
    BY <1>2
  <2> HIDE DEF d
  <2>2. p * r = p * q + p * d /\ p * d \in Nat
    BY <2>1
  <2> QED BY <1>1, <2>2
<1>3. ASSUME q < r PROVE p * q + p <= p * r
  <2> DEFINE d == r - q - 1
  <2>1. d \in Nat /\ r = q + 1 + d
    BY <1>3
  <2> HIDE DEF d
  <2>2. p * r = p * q + p + p * d /\ p * d \in Nat
    BY <2>1
  <2> QED BY <1>1, <2>2
<1> QED BY <1>1, <1>2, <1>3

(* The decisions of the loop keep the line near, and a step in the longer  *)
(* direction is always taken.                                              *)
LEMMA StaysNear ==
  ASSUME NEW dx \in Nat, NEW dy \in Nat, NEW a \in Nat, NEW b \in Nat, Near(dx, dy, a, b),
         ~(a = dx /\ b = dy),
         NEW across \in BOOLEAN, NEW down \in BOOLEAN,
         across <=> (2 * (dx * (b + 1) - dy * (a + 1)) > -dy),
         down <=> (2 * (dx * (b + 1) - dy * (a + 1)) < dx)
  PROVE  /\ Near(dx, dy, IF across THEN a + 1 ELSE a, IF down THEN b + 1 ELSE b)
         /\ dx >= dy => across
         /\ dx < dy => down
<1> DEFINE off == dx * b - dy * a
           xb == dx * b
           ya == dy * a
           xy == dx * dy
<1>1. xb \in Nat /\ ya \in Nat /\ xy \in Nat
  OBVIOUS
<1>2. dx * (b + 1) = xb + dx /\ dy * (a + 1) = ya + dy /\ dy * dx = xy
  OBVIOUS
<1>3. /\ a <= dx /\ b <= dy
      /\ a < dx => ya + dy <= xy
      /\ b < dy => xb + dx <= xy
      /\ a = dx => ya = xy
      /\ b = dy => xb = xy
  <2>1. a <= dx /\ b <= dy
    BY DEF Near
  <2>2. a < dx => dy * a + dy <= dy * dx
    BY Multiples
  <2>3. b < dy => dx * b + dx <= dx * dy
    BY Multiples
  <2> QED BY <2>1, <2>2, <2>3, <1>2
<1>4. /\ dx >= dy => -dx <= 2 * (xb - ya) /\ 2 * (xb - ya) <= dx
      /\ dx < dy => -dy <= 2 * (xb - ya) /\ 2 * (xb - ya) <= dy
      /\ dx = dy => a = b
  BY DEF Near
<1>5. dx = dy => xb = ya
  BY <1>4
<1>6. /\ across <=> (2 * (xb + dx - (ya + dy)) > -dy)
      /\ down <=> (2 * (xb + dx - (ya + dy)) < dx)
  BY <1>2
<1> HIDE DEF xb, ya, xy, off
<1>7. CASE dx >= dy
  <2>1. dx # 0
    BY <1>3, <1>7
  <2>2. a < dx
    <3> SUFFICES ASSUME a = dx PROVE FALSE
      BY <1>3
    <3>1. b < dy
      BY <1>3
    <3> QED BY <1>1, <1>3, <1>4, <1>7, <2>1, <3>1
  <2>3. across
    BY <1>1, <1>4, <1>5, <1>6, <1>7, <2>1
  <2>4. down => b < dy
    BY <1>1, <1>3, <1>6, <2>2
  <2>5. dx = dy => down
    BY <1>1, <1>5, <1>6, <2>1
  <2>6. CASE down
    <3>1. dx * (b + 1) - dy * (a + 1) = xb + dx - (ya + dy)
      BY <1>1, <1>2
    <3>2. /\ -dx <= 2 * (xb + dx - (ya + dy)) /\ 2 * (xb + dx - (ya + dy)) <= dx
      BY <1>1, <1>4, <1>6, <1>7, <2>6
    <3>3. Near(dx, dy, a + 1, b + 1)
      BY <1>3, <1>4, <1>7, <2>2, <2>4, <2>6, <3>1, <3>2 DEF Near
    <3> QED BY <1>7, <2>3, <2>6, <3>3
  <2>7. CASE ~down
    <3>1. dx * b - dy * (a + 1) = xb - (ya + dy)
      BY <1>1, <1>2 DEF xb
    <3>2. /\ -dx <= 2 * (xb - (ya + dy)) /\ 2 * (xb - (ya + dy)) <= dx
      BY <1>1, <1>4, <1>6, <1>7, <2>7
    <3>3. Near(dx, dy, a + 1, b)
      BY <1>3, <1>4, <1>7, <2>2, <2>5, <2>7, <3>1, <3>2 DEF Near
    <3> QED BY <1>7, <2>3, <2>7, <3>3
  <2> QED BY <2>6, <2>7
<1>8. CASE dx < dy
  <2>2. b < dy
    <3> SUFFICES ASSUME b = dy PROVE FALSE
      BY <1>3
    <3>1. a < dx
      BY <1>3
    <3> QED BY <1>1, <1>3, <1>4, <1>8, <3>1
  <2>3. down
    BY <1>1, <1>4, <1>6, <1>8
  <2>4. across => a < dx
    BY <1>1, <1>3, <1>6, <1>8, <2>2
  <2>6. CASE across
    <3>1. dx * (b + 1) - dy * (a + 1) = xb + dx - (ya + dy)
      BY <1>1, <1>2
    <3>2. /\ -dy <= 2 * (xb + dx - (ya + dy)) /\ 2 * (xb + dx - (ya + dy)) <= dy
      BY <1>1, <1>4, <1>6, <1>8, <2>6
    <3>3. Near(dx, dy, a + 1, b + 1)
      BY <1>3, <1>8, <2>2, <2>4, <2>6, <3>1, <3>2 DEF Near
    <3> QED BY <1>8, <2>3, <2>6, <3>3
  <2>7. CASE ~across
    <3>1. dx * (b + 1) - dy * a = xb + dx - ya
      BY <1>1, <1>2 DEF ya
    <3>2. /\ -dy <= 2 * (xb + dx - ya) /\ 2 * (xb + dx - ya) <= dy
      BY <1>1, <1>4, <1>6, <1>8, <2>7
    <3>3. Near(dx, dy, a, b + 1)
      BY <1>3, <1>8, <2>2, <3>1, <3>2 DEF Near
    <3> QED BY <1>8, <2>3, <2>7, <3>3
  <2> QED BY <2>6, <2>7
<1> QED BY <1>7, <1>8

EndsOK(e) == e.x \in Coord /\ e.y \in Coord /\ e.tox \in Coord /\ e.toy \in Coord

PointAt(e, a, b) == <<e.x + Toward(e.x, e.tox) * a, e.y + Toward(e.y, e.toy) * b>>

(* Which of the line's steps in its longer direction a point is.           *)
Nth(e, p) == IF DX(e) >= DY(e) THEN Dist(e.x, p[1]) ELSE Dist(e.y, p[2])

OnLine(e, p) ==
  /\ Dist(e.x, p[1]) + Dist(p[1], e.tox) = DX(e)
  /\ Dist(e.y, p[2]) + Dist(p[2], e.toy) = DY(e)
  /\ 2 * Dist(DX(e) * Dist(e.y, p[2]), DY(e) * Dist(e.x, p[1])) <= Larger(DX(e), DY(e))

(* a steps from x0 towards x1 end at a coordinate that is a away from x0,  *)
(* and the next step does not wrap before x1 is reached.                   *)
LEMMA Distances ==
  ASSUME NEW x0 \in Coord, NEW x1 \in Coord, NEW a \in 0 .. Dist(x0, x1)
  PROVE  LET x == x0 + Toward(x0, x1) * a IN
         /\ Dist(x0, x1) \in Nat
         /\ x \in Coord /\ Dist(x0, x) = a /\ Dist(x, x1) = Dist(x0, x1) - a
         /\ x = x1 <=> a = Dist(x0, x1)
         /\ a # Dist(x0, x1) => /\ Word16(x + Toward(x0, x1)) = x0 + Toward(x0, x1) * (a + 1)
<1>1. CoordMod \in Nat
  BY GraphicsAssumption
<1>2. CASE x0 < x1
  <2> DEFINE x == x0 + a
  <2>1. Dist(x0, x1) = x1 - x0 /\ Toward(x0, x1) = 1 /\ x0 \in Nat /\ x1 \in Nat /\ x0 <= CoordMod - 1 /\ x1 <= CoordMod - 1
    BY <1>1, <1>2 DEF Dist, Toward, Coord
  <2>2. x0 + Toward(x0, x1) * a = x /\ x0 + Toward(x0, x1) * (a + 1) = x + 1
    BY <2>1
  <2>3. x \in Coord /\ Dist(x0, x) = a /\ Dist(x, x1) = x1 - x0 - a /\ (x = x1 <=> a = x1 - x0)
    BY <1>1, <2>1 DEF Dist, Coord
  <2>4. a # x1 - x0 => x + 1 \in Coord
    BY <1>1, <2>1 DEF Coord
  <2>5. a # x1 - x0 => Word16(x + 1) = x + 1
    BY <1>1, <2>1, <2>4, CutOff
  <2> HIDE DEF x
  <2> QED BY <1>2, <2>1, <2>2, <2>3, <2>5
<1>3. CASE ~(x0 < x1)
  <2> DEFINE x == x0 - a
  <2>1. Dist(x0, x1) = x0 - x1 /\ Toward(x0, x1) = -1 /\ x0 \in Nat /\ x1 \in Nat /\ x0 <= CoordMod - 1 /\ x1 <= CoordMod - 1
    BY <1>1, <1>3 DEF Dist, Toward, Coord
  <2>2. x0 + Toward(x0, x1) * a = x /\ x0 + Toward(x0, x1) * (a + 1) = x - 1 /\ x \in Int /\ x + Toward(x0, x1) = x - 1
    BY <2>1
  <2>3. x \in Coord /\ Dist(x0, x) = a /\ Dist(x, x1) = x0 - x1 - a /\ (x = x1 <=> a = x0 - x1)
    BY <1>1, <1>3, <2>1 DEF Dist, Coord
  <2>4. a # x0 - x1 => x - 1 \in Coord
    BY <1>1, <1>3, <2>1 DEF Coord
  <2>5. a # x0 - x1 => Word16(x - 1) = x - 1
    BY <1>1, <2>1, <2>4, CutOff
  <2> HIDE DEF x
  <2> QED BY <1>3, <2>1, <2>2, <2>3, <2>5
<1> QED BY <1>2, <1>3

(* A point the loop stands at is one of the line.                          *)
LEMMA PointIsOnLine ==
  ASSUME NEW e, EndsOK(e), NEW a, NEW b, Near(DX(e), DY(e), a, b)
  PROVE  LET p == PointAt(e, a, b) IN
         /\ p \in Coord \X Coord /\ OnLine(e, p)
         /\ Nth(e, p) = IF DX(e) >= DY(e) THEN a ELSE b
         /\ p[1] = e.tox <=> a = DX(e)
         /\ p[2] = e.toy <=> b = DY(e)
<1> DEFINE x == e.x + Toward(e.x, e.tox) * a
           y == e.y + Toward(e.y, e.toy) * b
           dx == DX(e)
           dy == DY(e)
<1>1. /\ a \in 0 .. dx /\ b \in 0 .. dy
      /\ dx >= dy => -dx <= 2 * (dx * b - dy * a) /\ 2 * (dx * b - dy * a) <= dx
      /\ dx < dy => -dy <= 2 * (dx * b - dy * a) /\ 2 * (dx * b - dy * a) <= dy
  BY DEF Near
<1>2. /\ dx \in Nat /\ x \in Coord /\ Dist(e.x, x) = a /\ Dist(x, e.tox) = dx - a
      /\ x = e.tox <=> a = dx
  BY <1>1, Distances DEF EndsOK, DX
<1>3. /\ dy \in Nat /\ y \in Coord /\ Dist(e.y, y) = b /\ Dist(y, e.toy) = dy - b
      /\ y = e.toy <=> b = dy
  BY <1>1, Distances DEF EndsOK, DY
<1>4. PointAt(e, a, b) = <<x, y>>
  BY DEF PointAt
<1> HIDE DEF x, y
<1>5. 2 * Dist(dx * b, dy * a) <= Larger(dx, dy)
  <2> DEFINE xb == dx * b
             ya == dy * a
  <2>1. xb \in Nat /\ ya \in Nat
    BY <1>1, <1>2, <1>3
  <2>2. /\ dx >= dy => -dx <= 2 * (xb - ya) /\ 2 * (xb - ya) <= dx
        /\ dx < dy => -dy <= 2 * (xb - ya) /\ 2 * (xb - ya) <= dy
    BY <1>1
  <2> HIDE DEF xb, ya, dx, dy
  <2>3. 2 * Dist(xb, ya) <= Larger(dx, dy)
    BY <1>2, <1>3, <2>1, <2>2 DEF Dist, Larger
  <2> QED BY <2>3 DEF xb, ya
<1>6. OnLine(e, <<x, y>>)
  <2>1. Dist(e.x, x) + Dist(x, e.tox) = dx /\ Dist(e.y, y) + Dist(y, e.toy) = dy
    <3> HIDE DEF dx, dy
    <3> QED BY <1>1, <1>2, <1>3
  <2>2. 2 * Dist(DX(e) * Dist(e.y, y), DY(e) * Dist(e.x, x)) <= Larger(DX(e), DY(e))
    BY <1>2, <1>3, <1>5
  <2> QED BY <2>1, <2>2 DEF OnLine
<1> QED BY <1>2, <1>3, <1>4, <1>6 DEF Nth

(* The points P are n of the line, one for each of its first steps.        *)
LineCover(e, n, P) ==
  /\ P \subseteq Coord \X Coord
  /\ \A p \in P : OnLine(e, p) /\ Nth(e, p) < n
  /\ \A k \in 0 .. n - 1 : \E p \in P : Nth(e, p) = k
  /\ n > 0 => <<e.x, e.y>> \in P
  /\ IsFiniteSet(P) /\ Cardinality(P) = n

(* One point more, the n-th, covers one step more.                         *)
LEMMA CoverGrows ==
  ASSUME NEW e, NEW n \in Nat, NEW P, LineCover(e, n, P),
         NEW p \in Coord \X Coord, OnLine(e, p), Nth(e, p) = n, n = 0 => p = <<e.x, e.y>>,
         \A q \in P : Nth(e, q) \in Nat
  PROVE  LineCover(e, n + 1, P \cup {p})
<1>1. p \notin P
  BY DEF LineCover
<1>2. IsFiniteSet(P \cup {p}) /\ Cardinality(P \cup {p}) = n + 1
  BY <1>1, FS_AddElement DEF LineCover
<1>3. ASSUME NEW k \in 0 .. n PROVE \E q \in P \cup {p} : Nth(e, q) = k
  BY DEF LineCover
<1>4. ASSUME NEW q \in P \cup {p} PROVE OnLine(e, q) /\ Nth(e, q) < n + 1
  BY DEF LineCover
<1>5. <<e.x, e.y>> \in P \cup {p}
  BY DEF LineCover
<1>6. P \cup {p} \subseteq Coord \X Coord
  BY DEF LineCover
<1>7. 0 .. (n + 1) - 1 = 0 .. n
  OBVIOUS
<1> QED BY <1>2, <1>3, <1>4, <1>5, <1>6, <1>7 DEF LineCover

LinePainted(e, s, P) ==
  \E a, b : /\ Near(DX(e), DY(e), a, b)
            /\ s = LineAt(e, a, b)
            /\ LineCover(e, IF DX(e) >= DY(e) THEN a ELSE b, P)

LineWhole(e, P) ==
  LineCover(e, Larger(DX(e), DY(e)) + 1, P) /\ <<e.tox, e.toy>> \in P

(* A line begins at its first end with nothing painted.                    *)
LEMMA LineBegins ==
  ASSUME NEW e, EndsOK(e)
  PROVE  /\ LinePainted(e, LineAt(e, 0, 0), {})
         /\ DX(e) \in Nat /\ DY(e) \in Nat
<1>1. DX(e) \in Nat /\ DY(e) \in Nat
  BY GraphicsAssumption DEF EndsOK, DX, DY, Dist, Coord
<1>2. Near(DX(e), DY(e), 0, 0)
  BY <1>1 DEF Near
<1>3. LineCover(e, 0, {})
  BY FS_EmptySet DEF LineCover
<1> QED BY <1>1, <1>2, <1>3 DEF LinePainted

(* One round of the loop: it ends at the end of the line, with all of its  *)
(* points painted, or goes on to the next point.                           *)
LEMMA LineGoes ==
  ASSUME NEW e, EndsOK(e), NEW s, NEW P, LinePainted(e, s, P)
  PROVE  LET Q == P \cup {<<s.x, s.y>>} IN
         /\ s.kind = "line" /\ <<s.x, s.y>> \in Coord \X Coord
         /\ s.x = s.tox /\ s.y = s.toy => LineWhole(e, Q)
         /\ ~(s.x = s.tox /\ s.y = s.toy) => LinePainted(e, NextPoint(s), Q)
<1> DEFINE dx == DX(e)
           dy == DY(e)
<1>1. PICK a, b : Near(dx, dy, a, b) /\ s = LineAt(e, a, b) /\ LineCover(e, IF dx >= dy THEN a ELSE b, P)
  BY DEF LinePainted
<1> DEFINE p == PointAt(e, a, b)
           n == IF dx >= dy THEN a ELSE b
           Q == P \cup {p}
<1>2. dx \in Nat /\ dy \in Nat /\ a \in 0 .. dx /\ b \in 0 .. dy /\ a \in Nat /\ b \in Nat /\ n \in Nat
  BY <1>1, LineBegins DEF Near
<1>3. /\ p \in Coord \X Coord /\ OnLine(e, p) /\ Nth(e, p) = n
      /\ p[1] = e.tox <=> a = dx
      /\ p[2] = e.toy <=> b = dy
  <2> HIDE DEF p
  <2>1. LET q == PointAt(e, a, b) IN
         /\ q \in Coord \X Coord /\ OnLine(e, q)
         /\ Nth(e, q) = IF DX(e) >= DY(e) THEN a ELSE b
         /\ q[1] = e.tox <=> a = DX(e)
         /\ q[2] = e.toy <=> b = DY(e)
    BY <1>1, PointIsOnLine
  <2> QED BY <2>1 DEF p
<1>4. s.kind = "line" /\ s.x = p[1] /\ s.y = p[2] /\ s.tox = e.tox /\ s.toy = e.toy /\ <<s.x, s.y>> = p
  BY <1>1 DEF LineAt, PointAt
<1>5. ASSUME n = 0 PROVE p = <<e.x, e.y>>
  <2>1. a = 0 /\ b = 0
    <3>1. CASE dx >= dy
      <4>1. a = 0
        BY <1>5, <3>1
      <4>2. 2 * (dx * b) <= dx
        <5>1. dy * a = 0 /\ dx * b \in Nat
          BY <1>2, <4>1
        <5>2. 2 * (dx * b - dy * a) <= dx
          BY <1>1, <3>1 DEF Near
        <5> HIDE DEF dx, dy
        <5> QED BY <5>1, <5>2
      <4>3. b > 0 => dx <= dx * b
        <5>1. b > 0 => dx * 0 + dx <= dx * b
          BY <1>2, Multiples
        <5> QED BY <1>2, <5>1
      <4>4. b = 0
        BY <1>2, <3>1, <4>2, <4>3
      <4> QED BY <4>1, <4>4
    <3>2. CASE dx < dy
      <4>1. b = 0
        BY <1>2, <1>5, <3>2
      <4>2. 2 * (dy * a) <= dy
        <5>1. dx * b = 0 /\ dy * a \in Nat
          BY <1>2, <4>1
        <5>2. -dy <= 2 * (dx * b - dy * a)
          BY <1>1, <3>2 DEF Near
        <5> HIDE DEF dx, dy
        <5> QED BY <1>2, <5>1, <5>2
      <4>3. a > 0 => dy <= dy * a
        <5>1. a > 0 => dy * 0 + dy <= dy * a
          BY <1>2, Multiples
        <5> QED BY <1>2, <5>1
      <4>4. a = 0
        BY <1>2, <3>2, <4>2, <4>3
      <4> QED BY <4>1, <4>4
    <3> QED BY <1>2, <3>1, <3>2
  <2> QED BY <2>1, GraphicsAssumption DEF PointAt, EndsOK, Toward, Coord
<1>6. \A q \in P : Nth(e, q) \in Nat
  <2>1. P \subseteq Coord \X Coord
    BY <1>1 DEF LineCover
  <2>2. ASSUME NEW q \in Coord \X Coord PROVE Nth(e, q) \in Nat
    <3>1. q[1] \in Coord /\ q[2] \in Coord
      OBVIOUS
    <3> QED BY <3>1, GraphicsAssumption DEF Nth, Dist, EndsOK, Coord
  <2> QED BY <2>1, <2>2
<1>7. LineCover(e, n + 1, Q)
  <2>1. LineCover(e, n, P)
    BY <1>1
  <2> HIDE DEF n, p, dx, dy
  <2> QED BY <1>2, <1>3, <1>5, <1>6, <2>1, CoverGrows
<1>8. ASSUME s.x = s.tox, s.y = s.toy PROVE LineWhole(e, Q)
  <2>1. a = dx /\ b = dy
    BY <1>3, <1>4, <1>8
  <2>2. n = Larger(dx, dy)
    BY <1>2, <2>1 DEF Larger
  <2>3. <<e.tox, e.toy>> \in Q
    BY <1>4, <1>8
  <2> HIDE DEF n, Q
  <2> QED BY <1>7, <2>2, <2>3 DEF LineWhole
<1>9. ASSUME ~(s.x = s.tox /\ s.y = s.toy) PROVE LinePainted(e, NextPoint(s), Q)
  <2> DEFINE err == dx * (b + 1) - dy * (a + 1)
             across == 2 * err > -dy
             down == 2 * err < dx
             a1 == IF across THEN a + 1 ELSE a
             b1 == IF down THEN b + 1 ELSE b
  <2>1. ~(a = dx /\ b = dy)
    BY <1>3, <1>4, <1>9
  <2>2. /\ Near(dx, dy, a1, b1)
        /\ dx >= dy => across
        /\ dx < dy => down
    <3> HIDE DEF dx, dy
    <3> QED BY <1>1, <1>2, <2>1, StaysNear
  <2>3. n + 1 = IF dx >= dy THEN a1 ELSE b1
    BY <1>2, <2>2
  <2>4. NextPoint(s) = LineAt(e, a1, b1)
    <3> DEFINE x == e.x + Toward(e.x, e.tox) * a
               y == e.y + Toward(e.y, e.toy) * b
               x1 == IF across THEN Word16(x + Toward(e.x, e.tox)) ELSE x
               y1 == IF down THEN Word16(y + Toward(e.y, e.toy)) ELSE y
               err1 == err - (IF across THEN dy ELSE 0) + (IF down THEN dx ELSE 0)
    <3>1. NextPoint(s) =
            [kind |-> "line", x |-> x1, y |-> y1, tox |-> e.tox, toy |-> e.toy, dx |-> dx, dy |-> dy,
             sx |-> Toward(e.x, e.tox), sy |-> Toward(e.y, e.toy), err |-> err1]
      <4> DEFINE t == [kind |-> "line", x |-> x, y |-> y, tox |-> e.tox, toy |-> e.toy, dx |-> dx, dy |-> dy,
                       sx |-> Toward(e.x, e.tox), sy |-> Toward(e.y, e.toy), err |-> err]
      <4>1. s = t
        BY <1>1 DEF LineAt
      <4>2. NextPoint(t) = [t EXCEPT !.x = x1, !.y = y1, !.err = err1]
        BY DEF NextPoint
      <4> HIDE DEF dx, dy, x, y, x1, y1, err, err1
      <4> QED BY <4>1, <4>2
    <3>2. err1 = dx * (b1 + 1) - dy * (a1 + 1)
      <4>1. dx * ((b + 1) + 1) = dx * (b + 1) + dx /\ dy * ((a + 1) + 1) = dy * (a + 1) + dy
        BY <1>2
      <4>2. dx * (b + 1) \in Nat /\ dy * (a + 1) \in Nat
        BY <1>2
      <4> HIDE DEF across, down
      <4> QED BY <1>2, <4>1, <4>2
    <3>3. across => a # dx
      BY <1>2, <2>2 DEF Near
    <3>4. down => b # dy
      BY <1>2, <2>2 DEF Near
    <3>5. across => x1 = e.x + Toward(e.x, e.tox) * (a + 1)
      <4>1. a # dx => Word16(x + Toward(e.x, e.tox)) = e.x + Toward(e.x, e.tox) * (a + 1)
        BY <1>2, Distances DEF EndsOK, DX
      <4> QED BY <3>3, <4>1
    <3>6. down => y1 = e.y + Toward(e.y, e.toy) * (b + 1)
      <4>1. b # dy => Word16(y + Toward(e.y, e.toy)) = e.y + Toward(e.y, e.toy) * (b + 1)
        BY <1>2, Distances DEF EndsOK, DY
      <4> QED BY <3>4, <4>1
    <3>7. x1 = e.x + Toward(e.x, e.tox) * a1 /\ y1 = e.y + Toward(e.y, e.toy) * b1
      <4> HIDE DEF across, down
      <4> QED BY <3>5, <3>6
    <3> HIDE DEF x1, y1, err1, a1, b1
    <3> QED BY <3>1, <3>2, <3>7 DEF LineAt
  <2> HIDE DEF a1, b1, n, Q
  <2> QED BY <1>7, <2>2, <2>3, <2>4 DEF LinePainted
<1> QED BY <1>3, <1>4, <1>8, <1>9

(* What lies on the way from one number to another lies between them.      *)
LEMMA Amidst ==
  ASSUME NEW p \in Nat, NEW a \in Nat, NEW b \in Nat, Dist(a, p) + Dist(p, b) = Dist(a, b)
  PROVE  /\ a <= b => a <= p /\ p <= b /\ Dist(a, p) = p - a
         /\ \A m \in Nat : a < m /\ b < m => p < m
<1> QED BY DEF Dist

(* Words of a row and of a column of the screen differ from all others.    *)
LEMMA SameWord ==
  ASSUME NEW w \in Nat, NEW h \in Nat, NEW x \in 0 .. w - 1, NEW y \in 0 .. h - 1,
         NEW u \in 0 .. w - 1, NEW v \in 0 .. h - 1, v * w + u = y * w + x
  PROVE  u = x /\ v = y
<1> QED BY WordOf

(* The points of a line that lies in a row or a column.                    *)
LEMMA Straight ==
  ASSUME NEW e, EndsOK(e), NEW P, LineWhole(e, P), e.x <= e.tox, e.y <= e.toy
  PROVE  /\ e.y = e.toy => P = {<<i, e.y>> : i \in e.x .. e.tox}
         /\ e.x = e.tox => P = {<<e.x, j>> : j \in e.y .. e.toy}
<1> DEFINE dx == DX(e)
           dy == DY(e)
<1>1. CoordMod \in Nat /\ Coord = 0 .. CoordMod - 1
  BY GraphicsAssumption DEF Coord
<1>2. dx = e.tox - e.x /\ dy = e.toy - e.y /\ dx \in Nat /\ dy \in Nat
  BY <1>1 DEF DX, DY, Dist, EndsOK
<1>3. ASSUME NEW p \in P
      PROVE  /\ p = <<p[1], p[2]>> /\ p[1] \in e.x .. e.tox /\ p[2] \in e.y .. e.toy
             /\ Nth(e, p) = IF dx >= dy THEN p[1] - e.x ELSE p[2] - e.y
  <2>1. p \in Coord \X Coord /\ OnLine(e, p)
    BY DEF LineWhole, LineCover
  <2>2. p = <<p[1], p[2]>> /\ p[1] \in Int /\ p[2] \in Int
    BY <1>1, <2>1
  <2>3. Dist(e.x, p[1]) + Dist(p[1], e.tox) = dx /\ Dist(e.y, p[2]) + Dist(p[2], e.toy) = dy
    BY <2>1 DEF OnLine
  <2>6. /\ p[1] \in Nat /\ p[2] \in Nat
        /\ e.x \in Nat /\ e.y \in Nat /\ e.tox \in Nat /\ e.toy \in Nat
    BY <1>1, <2>1 DEF EndsOK
  <2>7. Dist(e.x, e.tox) = dx /\ Dist(e.y, e.toy) = dy
    BY DEF DX, DY
  <2>8. e.x <= p[1] /\ p[1] <= e.tox /\ Dist(e.x, p[1]) = p[1] - e.x
    <3> HIDE DEF dx
    <3> QED BY <2>3, <2>6, <2>7, Amidst
  <2>9. e.y <= p[2] /\ p[2] <= e.toy /\ Dist(e.y, p[2]) = p[2] - e.y
    <3> HIDE DEF dy
    <3> QED BY <2>3, <2>6, <2>7, Amidst
  <2>4. p[1] \in e.x .. e.tox /\ p[2] \in e.y .. e.toy
    BY <2>6, <2>8, <2>9
  <2>5. Dist(e.x, p[1]) = p[1] - e.x /\ Dist(e.y, p[2]) = p[2] - e.y
    BY <2>8, <2>9
  <2> QED BY <2>2, <2>4, <2>5 DEF Nth
<1>4. ASSUME NEW k \in 0 .. Larger(dx, dy) PROVE \E p \in P : Nth(e, p) = k
  <2>1. Larger(dx, dy) \in Nat
    BY <1>2 DEF Larger
  <2>2. \A i \in 0 .. (Larger(dx, dy) + 1) - 1 : \E p \in P : Nth(e, p) = i
    BY DEF LineWhole, LineCover
  <2>3. k \in 0 .. (Larger(dx, dy) + 1) - 1
    BY <2>1
  <2> QED BY <2>2, <2>3
<1> HIDE DEF dx, dy
<1>5. ASSUME e.y = e.toy PROVE P = {<<i, e.y>> : i \in e.x .. e.tox}
  <2>1. dy = 0 /\ dx >= dy /\ Larger(dx, dy) = dx
    BY <1>1, <1>2, <1>5 DEF Larger, EndsOK
  <2>2. ASSUME NEW i \in e.x .. e.tox PROVE <<i, e.y>> \in P
    <3>1. i - e.x \in 0 .. Larger(dx, dy)
      BY <1>1, <1>2, <2>1 DEF EndsOK
    <3>2. PICK p \in P : Nth(e, p) = i - e.x
      BY <1>4, <3>1
    <3>3. p[1] - e.x = i - e.x /\ p[1] \in Int /\ e.x \in Int /\ p = <<p[1], p[2]>> /\ p[2] = e.y
      BY <1>1, <1>3, <1>5, <2>1, <3>2 DEF EndsOK
    <3>4. p[1] = i
      BY <3>3
    <3> QED BY <3>3, <3>4
  <2>3. ASSUME NEW p \in P PROVE p \in {<<i, e.y>> : i \in e.x .. e.tox}
    <3>1. p = <<p[1], p[2]>> /\ p[1] \in e.x .. e.tox /\ p[2] = e.y
      BY <1>1, <1>3, <1>5 DEF EndsOK
    <3> QED BY <3>1
  <2> QED BY <2>2, <2>3
<1>6. ASSUME e.x = e.tox PROVE P = {<<e.x, j>> : j \in e.y .. e.toy}
  <2>1. dx = 0 /\ Larger(dx, dy) = dy
    BY <1>1, <1>2, <1>6 DEF Larger, EndsOK
  <2>2. ASSUME NEW j \in e.y .. e.toy PROVE <<e.x, j>> \in P
    <3>1. j - e.y \in 0 .. Larger(dx, dy)
      BY <1>1, <1>2, <2>1 DEF EndsOK
    <3>2. PICK p \in P : Nth(e, p) = j - e.y
      BY <1>4, <3>1
    <3>3. p = <<p[1], p[2]>> /\ p[1] = e.x /\ p[2] \in e.y .. e.toy
          /\ Nth(e, p) = IF dx >= dy THEN p[1] - e.x ELSE p[2] - e.y
      BY <1>1, <1>3, <1>6 DEF EndsOK
    <3>4. p[2] = j
      BY <1>1, <1>2, <2>1, <3>2, <3>3 DEF EndsOK
    <3> QED BY <3>3, <3>4
  <2>3. ASSUME NEW p \in P PROVE p \in {<<e.x, j>> : j \in e.y .. e.toy}
    <3>1. p = <<p[1], p[2]>> /\ p[1] = e.x /\ p[2] \in e.y .. e.toy
      BY <1>1, <1>3, <1>6 DEF EndsOK
    <3> QED BY <3>1
  <2> QED BY <2>2, <2>3
<1> QED BY <1>5, <1>6

(* The four lines of a rectangle are its frame.                            *)
LEMMA FourLines ==
  ASSUME NEW x \in Int, NEW y \in Int, NEW w \in Nat \ {0}, NEW h \in Nat \ {0}
  PROVE  {<<i, y>> : i \in x .. x + w - 1} \cup {<<i, y + h - 1>> : i \in x .. x + w - 1}
          \cup {<<x, j>> : j \in y .. y + h - 1} \cup {<<x + w - 1, j>> : j \in y .. y + h - 1}
         = Block(x, y, w, h) \ Block(x + 1, y + 1, w - 2, h - 2)
<1> DEFINE A == {<<i, y>> : i \in x .. x + w - 1}
           B == {<<i, y + h - 1>> : i \in x .. x + w - 1}
           C == {<<x, j>> : j \in y .. y + h - 1}
           D == {<<x + w - 1, j>> : j \in y .. y + h - 1}
           In == Block(x + 1, y + 1, w - 2, h - 2)
<1>1. \A i, j : <<i, j>> \in Block(x, y, w, h) <=> i \in x .. x + w - 1 /\ j \in y .. y + h - 1
  BY DEF Block
<1>2. \A i, j : <<i, j>> \in In <=> i \in x + 1 .. x + 1 + (w - 2) - 1 /\ j \in y + 1 .. y + 1 + (h - 2) - 1
  BY DEF Block
<1>3. \A i \in x .. x + w - 1, j \in y .. y + h - 1 :
        <<i, j>> \in In <=> i # x /\ i # x + w - 1 /\ j # y /\ j # y + h - 1
  <2> HIDE DEF In
  <2> TAKE i \in x .. x + w - 1, j \in y .. y + h - 1
  <2>1. i \in x + 1 .. x + 1 + (w - 2) - 1 <=> i # x /\ i # x + w - 1
    OBVIOUS
  <2>2. j \in y + 1 .. y + 1 + (h - 2) - 1 <=> j # y /\ j # y + h - 1
    OBVIOUS
  <2> QED BY <1>2, <2>1, <2>2
<1> HIDE DEF In
<1>4. A \cup B \cup C \cup D \subseteq Block(x, y, w, h) \ In
  <2>1. x \in x .. x + w - 1 /\ x + w - 1 \in x .. x + w - 1 /\ y \in y .. y + h - 1 /\ y + h - 1 \in y .. y + h - 1
    OBVIOUS
  <2> QED BY <1>1, <1>3, <2>1
<1>5. ASSUME NEW p \in Block(x, y, w, h) \ In PROVE p \in A \cup B \cup C \cup D
  <2>1. PICK i \in x .. x + w - 1, j \in y .. y + h - 1 : p = <<i, j>>
    BY DEF Block
  <2>2. i = x \/ i = x + w - 1 \/ j = y \/ j = y + h - 1
    BY <1>3, <2>1
  <2> QED BY <2>1, <2>2
<1> QED BY <1>4, <1>5 DEF In

(* The frame of a rectangle.                                               *)
LEMMA RectDone ==
  ASSUME NEW x \in Coord, NEW y \in Coord, NEW w \in Nat \ {0}, NEW h \in Nat \ {0},
         x + w <= CoordMod, y + h <= CoordMod,
         NEW W, \A k \in 1 .. 4 : LineWhole(RectLines(x, y, w, h)[k], W[k])
  PROVE  W[1] \cup W[2] \cup W[3] \cup W[4] = Block(x, y, w, h) \ Block(x + 1, y + 1, w - 2, h - 2)
<1> DEFINE all == RectLines(x, y, w, h)
           X == x + w - 1
           Y == y + h - 1
<1>1. x \in Coord /\ y \in Coord /\ X \in Coord /\ Y \in Coord /\ x <= X /\ y <= Y /\ x \in Int /\ y \in Int
      /\ X \in Int /\ Y \in Int
  BY GraphicsAssumption DEF Coord
<1>2. Word16(x) = x /\ Word16(y) = y /\ Word16(X) = X /\ Word16(Y) = Y
  BY <1>1, CutOff
<1>3. all = <<Line(x, y, X, y), Line(x, Y, X, Y), Line(x, y, x, Y), Line(X, y, X, Y)>>
  BY DEF RectLines
<1>4. ASSUME NEW i \in Coord, NEW j \in Coord, NEW i1 \in Coord, NEW j1 \in Coord,
             Word16(i) = i, Word16(j) = j, Word16(i1) = i1, Word16(j1) = j1
      PROVE  LET e == Line(i, j, i1, j1) IN e.x = i /\ e.y = j /\ e.tox = i1 /\ e.toy = j1 /\ EndsOK(e)
  BY <1>4 DEF Line, EndsOK
<1> HIDE DEF X, Y, all
<1> DEFINE e1 == Line(x, y, X, y)
           e2 == Line(x, Y, X, Y)
           e3 == Line(x, y, x, Y)
           e4 == Line(X, y, X, Y)
<1>5. /\ LineWhole(e1, W[1]) /\ LineWhole(e2, W[2]) /\ LineWhole(e3, W[3]) /\ LineWhole(e4, W[4])
  <2> HIDE DEF e1, e2, e3, e4
  <2>1. all[1] = e1 /\ all[2] = e2 /\ all[3] = e3 /\ all[4] = e4
    BY <1>3 DEF e1, e2, e3, e4
  <2>2. \A k \in 1 .. 4 : LineWhole(all[k], W[k])
    BY DEF all
  <2> QED BY <2>1, <2>2
<1>6. /\ e1.x = x /\ e1.y = y /\ e1.tox = X /\ e1.toy = y /\ EndsOK(e1)
      /\ e2.x = x /\ e2.y = Y /\ e2.tox = X /\ e2.toy = Y /\ EndsOK(e2)
      /\ e3.x = x /\ e3.y = y /\ e3.tox = x /\ e3.toy = Y /\ EndsOK(e3)
      /\ e4.x = X /\ e4.y = y /\ e4.tox = X /\ e4.toy = Y /\ EndsOK(e4)
  BY <1>1, <1>2, <1>4
<1> HIDE DEF e1, e2, e3, e4
<1>7. W[1] = {<<i, y>> : i \in x .. X}
  BY <1>1, <1>5, <1>6, Straight
<1>8. W[2] = {<<i, Y>> : i \in x .. X}
  BY <1>1, <1>5, <1>6, Straight
<1>9. W[3] = {<<x, j>> : j \in y .. Y}
  BY <1>1, <1>5, <1>6, Straight
<1>10. W[4] = {<<X, j>> : j \in y .. Y}
  BY <1>1, <1>5, <1>6, Straight
<1>11. W[1] \cup W[2] \cup W[3] \cup W[4]
         = {<<i, y>> : i \in x .. X} \cup {<<i, Y>> : i \in x .. X}
             \cup {<<x, j>> : j \in y .. Y} \cup {<<X, j>> : j \in y .. Y}
  BY <1>7, <1>8, <1>9, <1>10
<1>12. {<<i, y>> : i \in x .. X} \cup {<<i, Y>> : i \in x .. X}
         \cup {<<x, j>> : j \in y .. Y} \cup {<<X, j>> : j \in y .. Y}
       = Block(x, y, w, h) \ Block(x + 1, y + 1, w - 2, h - 2)
  <2>1. x \in Int /\ y \in Int
    BY <1>1
  <2>2. {<<i, y>> : i \in x .. x + w - 1} \cup {<<i, y + h - 1>> : i \in x .. x + w - 1}
          \cup {<<x, j>> : j \in y .. y + h - 1} \cup {<<x + w - 1, j>> : j \in y .. y + h - 1}
        = Block(x, y, w, h) \ Block(x + 1, y + 1, w - 2, h - 2)
    BY <2>1, FourLines, Zenon
  <2> QED BY <2>2, Zenon DEF X, Y
<1> QED BY <1>11, <1>12

(* IsLine, of any screen and any words drawn.                              *)
LineDrawn(scr, e, done) ==
  LET On(p) == OnLine(e, p)
      box == Block(0, 0, scr.width, scr.height)
  IN  /\ done \subseteq Lit(scr, {p \in box : On(p)})
      /\ Lit(scr, {<<e.x, e.y>>, <<e.tox, e.toy>>}) \subseteq done
      /\ {<<e.x, e.y>>, <<e.tox, e.toy>>} \subseteq box =>
            Cardinality(done) = Larger(DX(e), DY(e)) + 1

(* A line whose points are all painted is what IsLine asks for.            *)
LEMMA LineDone ==
  ASSUME NEW scr, ScreenOK(scr), NEW e, EndsOK(e), NEW P, LineWhole(e, P)
  PROVE  LineDrawn(scr, e, Lit(scr, P))
<1> DEFINE w == scr.width
           h == scr.height
           box == Block(0, 0, w, h)
           word == [p \in P |-> p[2] * w + p[1]]
<1>0. CoordMod \in Nat /\ Coord = 0 .. CoordMod - 1 /\ w \in Nat /\ h \in Nat /\ w <= CoordMod - 1 /\ h <= CoordMod - 1
  BY GraphicsAssumption DEF ScreenOK, Coord
<1>1. /\ P \subseteq Coord \X Coord /\ \A p \in P : OnLine(e, p)
      /\ <<e.x, e.y>> \in P /\ <<e.tox, e.toy>> \in P
      /\ IsFiniteSet(P) /\ Cardinality(P) = Larger(DX(e), DY(e)) + 1
  <2>1. Larger(DX(e), DY(e)) + 1 > 0
    BY LineBegins DEF Larger
  <2> QED BY <2>1 DEF LineWhole, LineCover
<1>2. \A q \in Coord \X Coord : q = <<q[1], q[2]>> /\ q[1] \in Nat /\ q[2] \in Nat
  BY <1>0
<1>3. \A q \in Coord \X Coord : q \in box <=> q[1] < w /\ q[2] < h
  BY <1>0, <1>2 DEF Block
<1>4. {p \in box : OnLine(e, p)} \subseteq Coord \X Coord
  BY <1>0 DEF Block
<1> HIDE DEF box
<1>5. Lit(scr, P) \subseteq Lit(scr, {p \in box : OnLine(e, p)})
  <2>1. \A p \in {q \in P : q[1] < w /\ q[2] < h} : p \in {q \in box : OnLine(e, q)}
    BY <1>1, <1>3
  <2>2. {q \in P : q[1] < w /\ q[2] < h} \subseteq {q \in {q \in box : OnLine(e, q)} : q[1] < w /\ q[2] < h}
    BY <2>1
  <2>3. Lit(scr, P) = {p[2] * w + p[1] : p \in {q \in P : q[1] < w /\ q[2] < h}}
    BY <1>1, LitFlat
  <2> DEFINE S == {p \in box : OnLine(e, p)}
  <2>4. Lit(scr, S) = {p[2] * w + p[1] : p \in {q \in S : q[1] < w /\ q[2] < h}}
    <3> HIDE DEF S
    <3> QED BY <1>4, LitFlat DEF S
  <2> QED BY <2>2, <2>3, <2>4
<1>6. Lit(scr, {<<e.x, e.y>>, <<e.tox, e.toy>>}) \subseteq Lit(scr, P)
  BY <1>1, LitGrows
<1>7. ASSUME {<<e.x, e.y>>, <<e.tox, e.toy>>} \subseteq box
      PROVE  Cardinality(Lit(scr, P)) = Larger(DX(e), DY(e)) + 1
  <2>1. <<e.x, e.y>> \in Coord \X Coord /\ <<e.tox, e.toy>> \in Coord \X Coord
    BY DEF EndsOK
  <2>2. e.x < w /\ e.tox < w /\ e.y < h /\ e.toy < h
    BY <1>3, <1>7, <2>1
  <2>3. \A p \in P : p[1] \in 0 .. w - 1 /\ p[2] \in 0 .. h - 1
    <3> TAKE p \in P
    <3>1. Dist(e.x, p[1]) + Dist(p[1], e.tox) = Dist(e.x, e.tox)
          /\ Dist(e.y, p[2]) + Dist(p[2], e.toy) = Dist(e.y, e.toy)
      BY <1>1 DEF OnLine, DX, DY
    <3>2. p[1] \in Nat /\ p[2] \in Nat /\ e.x \in Nat /\ e.tox \in Nat /\ e.y \in Nat /\ e.toy \in Nat
      BY <1>0, <1>1, <1>2 DEF EndsOK
    <3> HIDE DEF w, h
    <3>3. p[1] < w
      BY <1>0, <2>2, <3>1, <3>2, Amidst
    <3>4. p[2] < h
      BY <1>0, <2>2, <3>1, <3>2, Amidst
    <3> QED BY <1>0, <3>2, <3>3, <3>4
  <2>4. Lit(scr, P) = {word[p] : p \in P}
    <3>1. Lit(scr, P) = {p[2] * w + p[1] : p \in {q \in P : q[1] < w /\ q[2] < h}}
      BY <1>1, LitFlat
    <3>2. {q \in P : q[1] < w /\ q[2] < h} = P
      BY <1>0, <2>3
    <3> QED BY <3>1, <3>2
  <2>5. \A p, q \in P : word[p] = word[q] => p = q
    <3> TAKE p, q \in P
    <3> HAVE word[p] = word[q]
    <3>1. p[2] * w + p[1] = q[2] * w + q[1]
      OBVIOUS
    <3>2. p[1] \in 0 .. w - 1 /\ p[2] \in 0 .. h - 1 /\ q[1] \in 0 .. w - 1 /\ q[2] \in 0 .. h - 1
      BY <2>3
    <3>3. p[1] = q[1] /\ p[2] = q[2]
      <4> HIDE DEF w, h
      <4> DEFINE u == p[1]
                 v == p[2]
                 x == q[1]
                 y == q[2]
      <4>1. u \in 0 .. w - 1 /\ v \in 0 .. h - 1 /\ x \in 0 .. w - 1 /\ y \in 0 .. h - 1
            /\ v * w + u = y * w + x
        BY <3>1, <3>2
      <4> HIDE DEF u, v, x, y
      <4>2. u = x /\ v = y
        BY <1>0, <4>1, SameWord
      <4> QED BY <4>2 DEF u, v, x, y
    <3> QED BY <1>1, <1>2, <3>3
  <2> DEFINE T == {word[p] : p \in P}
  <2>6. word \in Bijection(P, T)
    <3>1. DOMAIN word = P
      OBVIOUS
    <3> HIDE DEF word
    <3>2. word \in [P -> T]
      <4>1. word = [p \in P |-> word[p]]
        BY DEF word
      <4> QED BY <4>1
    <3> QED BY <2>5, <3>2 DEF Bijection, Injection, Surjection, IsInjective
  <2>7. ExistsBijection(P, T)
    BY <2>6 DEF ExistsBijection
  <2> HIDE DEF T
  <2>8. Cardinality(T) = Cardinality(P)
    BY <1>1, <2>7, FS_Bijection
  <2> QED BY <1>1, <2>4, <2>8 DEF T
<1> QED BY <1>5, <1>6, <1>7 DEF LineDrawn, box

-----------------------------------------------------------------------------
(* Areas.                                                                  *)

(* The shape of an area in its row i at its column j.                      *)
AreaAt(e, i, j) ==
  [kind |-> "area", x |-> e.x, y |-> e.y, w |-> e.w, h |-> e.h, i |-> i, j |-> j]

AreaOK(e) == e.x \in Coord /\ e.y \in Coord /\ e.w \in Nat /\ e.h \in Nat

(* The rows before row i, and row i before column j.                       *)
Swept(e, i, j, P) ==
  /\ i \in e.y .. e.y + e.h /\ j \in e.x .. e.x + e.w
  /\ i = e.y + e.h => j = e.x
  /\ \A k, l \in Coord :
       <<k, l>> \in P <=> /\ k \in e.x .. e.x + e.w - 1 /\ l >= e.y
                          /\ l < i \/ (l = i /\ k < j)

AreaPainted(e, s, P) ==
  \E i, j \in Coord :
    /\ s = AreaAt(e, i, j)
    /\ P \subseteq Coord \X Coord
    /\ e.h = 0 => i = e.y /\ P = {}
    /\ e.h > 0 /\ e.y + e.h < CoordMod =>
         IF e.x + e.w < CoordMod THEN Swept(e, i, j, P) ELSE i = e.y

AreaWhole(e, P) == P = Block(e.x, e.y, e.w, e.h)

(* An area begins at its corner with nothing painted.                      *)
LEMMA AreaBegins ==
  ASSUME NEW e, AreaOK(e)
  PROVE  AreaPainted(e, AreaAt(e, e.y, e.x), {})
<1>1. CoordMod \in Nat /\ Coord = 0 .. CoordMod - 1
  BY GraphicsAssumption DEF Coord
<1> DEFINE x == e.x
           y == e.y
           w == e.w
           h == e.h
<1>2. x \in Coord /\ y \in Coord /\ w \in Nat /\ h \in Nat /\ x \in Nat /\ y \in Nat
  BY <1>1 DEF AreaOK
<1>3. Swept(e, y, x, {}) \/ ~(h > 0)
  <2> SUFFICES ASSUME h > 0 PROVE Swept(e, y, x, {})
    OBVIOUS
  <2>1. y \in y .. y + h /\ x \in x .. x + w /\ y # y + h
    BY <1>2
  <2>2. ASSUME NEW k \in Coord, NEW l \in Coord
        PROVE  ~(k \in x .. x + w - 1 /\ l >= y /\ (l < y \/ (l = y /\ k < x)))
    BY <1>1, <1>2
  <2> QED BY <2>1, <2>2 DEF Swept
<1> QED BY <1>2, <1>3 DEF AreaPainted

(* In an area whose end is a coordinate the rounds of the loops sweep its  *)
(* rows one after the other, and all of it when they end.                  *)
LEMMA SweepStarts ==
  ASSUME NEW e, AreaOK(e), e.y + e.h < CoordMod, e.x + e.w < CoordMod,
         NEW i \in Coord, NEW j \in Coord, NEW P \in SUBSET (Coord \X Coord), Swept(e, i, j, P)
  PROVE  /\ i < e.y + e.h /\ j < e.x + e.w => Swept(e, i, j + 1, P \cup {<<j, i>>})
         /\ i < e.y + e.h /\ j >= e.x + e.w => Swept(e, i + 1, e.x, P)
         /\ i >= e.y + e.h => P = Block(e.x, e.y, e.w, e.h)
<1> DEFINE x == e.x
           y == e.y
           w == e.w
           h == e.h
<1>1. CoordMod \in Nat /\ Coord = 0 .. CoordMod - 1
  BY GraphicsAssumption DEF Coord
<1>2. x \in Nat /\ y \in Nat /\ w \in Nat /\ h \in Nat /\ i \in Nat /\ j \in Nat
  BY <1>1 DEF AreaOK
<1>0. i \in y .. y + h /\ j \in x .. x + w /\ (i = y + h => j = x)
  BY DEF Swept
<1>3. \A k, l \in Coord :
        <<k, l>> \in P <=> k \in x .. x + w - 1 /\ l >= y /\ (l < i \/ (l = i /\ k < j))
  BY DEF Swept
<1> HIDE DEF x, y, w, h
<1>4. ASSUME i < y + h, j < x + w
      PROVE  \A k, l \in Coord :
               <<k, l>> \in P \cup {<<j, i>>} <=>
                 k \in x .. x + w - 1 /\ l >= y /\ (l < i \/ (l = i /\ k < j + 1))
  <2> TAKE k, l \in Coord
  <2>1. <<k, l>> \in P \cup {<<j, i>>} <=> <<k, l>> \in P \/ (k = j /\ l = i)
    OBVIOUS
  <2>2. k \in Nat /\ l \in Nat
    BY <1>1
  <2>3. <<k, l>> \in P <=> k \in x .. x + w - 1 /\ l >= y /\ (l < i \/ (l = i /\ k < j))
    BY <1>3
  <2> QED BY <1>0, <1>2, <1>4, <2>1, <2>2, <2>3
<1>5. ASSUME i < y + h, j >= x + w
      PROVE  \A k, l \in Coord :
               <<k, l>> \in P <=>
                 k \in x .. x + w - 1 /\ l >= y /\ (l < i + 1 \/ (l = i + 1 /\ k < x))
  <2> TAKE k, l \in Coord
  <2>2. k \in Nat /\ l \in Nat
    BY <1>1
  <2>3. <<k, l>> \in P <=> k \in x .. x + w - 1 /\ l >= y /\ (l < i \/ (l = i /\ k < j))
    BY <1>3
  <2> QED BY <1>0, <1>2, <1>5, <2>2, <2>3
<1>6. ASSUME i >= y + h PROVE P = Block(x, y, w, h)
  <2>1. i = y + h /\ j = x
    BY <1>0, <1>2, <1>6
  <2>2. ASSUME NEW p \in P PROVE p \in Block(x, y, w, h)
    <3>1. PICK k \in Coord, l \in Coord : p = <<k, l>>
      OBVIOUS
    <3>2. k \in Nat /\ l \in Nat
      BY <1>1
    <3>3. k \in x .. x + w - 1 /\ l \in y .. y + h - 1
      BY <1>2, <1>3, <2>1, <3>1, <3>2
    <3> QED BY <3>1, <3>3 DEF Block
  <2>3. ASSUME NEW k \in x .. x + w - 1, NEW l \in y .. y + h - 1 PROVE <<k, l>> \in P
    <3>1. k \in Coord /\ l \in Coord
      <4>1. x + w < CoordMod /\ y + h < CoordMod
        BY DEF x, y, w, h
      <4>2. k \in Nat /\ k < CoordMod /\ l \in Nat /\ l < CoordMod
        BY <1>1, <1>2, <4>1
      <4> QED BY <1>1, <4>2
    <3> QED BY <1>2, <1>3, <2>1, <3>1
  <2> QED BY <2>2, <2>3 DEF Block
<1>7. ASSUME i < y + h, j < x + w
      PROVE  i \in y .. y + h /\ j + 1 \in x .. x + w /\ (i = y + h => j + 1 = x)
  BY <1>0, <1>2, <1>7
<1>8. ASSUME i < y + h, j >= x + w
      PROVE  i + 1 \in y .. y + h /\ x \in x .. x + w /\ (i + 1 = y + h => x = x)
  BY <1>0, <1>2, <1>8
<1>9. (i < y + h /\ j < x + w) => Swept(e, i, j + 1, P \cup {<<j, i>>})
  BY <1>4, <1>7 DEF Swept, x, y, w, h
<1>10. (i < y + h /\ j >= x + w) => Swept(e, i + 1, x, P)
  BY <1>5, <1>8 DEF Swept, x, y, w, h
<1> QED BY <1>6, <1>9, <1>10 DEF x, y, w, h

(* The rounds of the two loops: a pixel, the end of a row, the end.        *)
LEMMA AreaGoes ==
  ASSUME NEW e, AreaOK(e), NEW s, NEW P, AreaPainted(e, s, P)
  PROVE  /\ s.kind = "area" /\ <<s.j, s.i>> \in Coord \X Coord
         /\ s.i < Past(s.y, s.h) /\ s.j < Past(s.x, s.w) =>
              AreaPainted(e, [s EXCEPT !.j = Word16(@ + 1)], P \cup {<<s.j, s.i>>})
         /\ s.i < Past(s.y, s.h) /\ s.j >= Past(s.x, s.w) =>
              AreaPainted(e, [s EXCEPT !.i = Word16(@ + 1), !.j = s.x], P)
         /\ s.i >= Past(s.y, s.h) => AreaWhole(e, P)
<1> DEFINE x == e.x
           y == e.y
           w == e.w
           h == e.h
<1>1. CoordMod \in Nat /\ Coord = 0 .. CoordMod - 1
  BY GraphicsAssumption DEF Coord
<1>2. x \in Coord /\ y \in Coord /\ w \in Nat /\ h \in Nat /\ x \in Nat /\ y \in Nat
  BY <1>1 DEF AreaOK
<1>3. PICK i \in Coord, j \in Coord :
        /\ s = AreaAt(e, i, j)
        /\ P \subseteq Coord \X Coord
        /\ h = 0 => i = y /\ P = {}
        /\ h > 0 /\ y + h < CoordMod =>
             IF x + w < CoordMod THEN Swept(e, i, j, P) ELSE i = y
  BY DEF AreaPainted
<1>4. /\ s.kind = "area" /\ s.x = x /\ s.y = y /\ s.w = w /\ s.h = h /\ s.i = i /\ s.j = j
      /\ Past(s.y, s.h) = y + h /\ Past(s.x, s.w) = x + w
  BY <1>3 DEF AreaAt, Past
<1>5. /\ [s EXCEPT !.j = Word16(@ + 1)] = AreaAt(e, i, Word16(j + 1))
      /\ [s EXCEPT !.i = Word16(@ + 1), !.j = s.x] = AreaAt(e, Word16(i + 1), x)
  <2> DEFINE t == [kind |-> "area", x |-> x, y |-> y, w |-> w, h |-> h, i |-> i, j |-> j]
             j1 == Word16(j + 1)
             i1 == Word16(i + 1)
  <2>1. s = t
    BY <1>3 DEF AreaAt
  <2>2. /\ [t EXCEPT !.j = Word16(@ + 1)] = [t EXCEPT !.j = j1]
        /\ [t EXCEPT !.i = Word16(@ + 1), !.j = t.x] = [t EXCEPT !.i = i1, !.j = x]
    OBVIOUS
  <2> HIDE DEF x, y, w, h, i1, j1
  <2>3. [t EXCEPT !.j = j1] = [kind |-> "area", x |-> x, y |-> y, w |-> w, h |-> h, i |-> i, j |-> j1]
    OBVIOUS
  <2>4. [t EXCEPT !.i = i1, !.j = x] = [kind |-> "area", x |-> x, y |-> y, w |-> w, h |-> h, i |-> i1, j |-> x]
    <3>1. [t EXCEPT !.i = i1] = [kind |-> "area", x |-> x, y |-> y, w |-> w, h |-> h, i |-> i1, j |-> j]
      OBVIOUS
    <3> DEFINE u == [kind |-> "area", x |-> x, y |-> y, w |-> w, h |-> h, i |-> i1, j |-> j]
    <3>2. [u EXCEPT !.j = x] = [kind |-> "area", x |-> x, y |-> y, w |-> w, h |-> h, i |-> i1, j |-> x]
      OBVIOUS
    <3> HIDE DEF u, t
    <3>3. [t EXCEPT !.i = i1, !.j = x] = [[t EXCEPT !.i = i1] EXCEPT !.j = x]
      OBVIOUS
    <3> QED BY <3>1, <3>2, <3>3 DEF u, t
  <2> QED BY <2>1, <2>2, <2>3, <2>4 DEF AreaAt, x, y, w, h, i1, j1
<1>6. i \in Nat /\ j \in Nat /\ Word16(j + 1) \in Coord /\ Word16(i + 1) \in Coord
      /\ (j + 1 < CoordMod => Word16(j + 1) = j + 1)
      /\ (i + 1 < CoordMod => Word16(i + 1) = i + 1)
  <2>1. i \in Nat /\ j \in Nat /\ i + 1 \in Int /\ j + 1 \in Int
    BY <1>1
  <2>2. j + 1 < CoordMod => j + 1 \in Coord
    BY <1>1, <2>1
  <2>3. i + 1 < CoordMod => i + 1 \in Coord
    BY <1>1, <2>1
  <2> QED BY <2>1, <2>2, <2>3, CutOff
<1>7. (x + w < CoordMod /\ y + h < CoordMod /\ h > 0) =>
        /\ i < y + h /\ j < x + w => Swept(e, i, j + 1, P \cup {<<j, i>>})
        /\ i < y + h /\ j >= x + w => Swept(e, i + 1, x, P)
        /\ i >= y + h => P = Block(x, y, w, h)
  BY <1>3, SweepStarts
<1> HIDE DEF x, y, w, h
<1>8. ASSUME i < y + h, j < x + w PROVE AreaPainted(e, AreaAt(e, i, Word16(j + 1)), P \cup {<<j, i>>})
  <2>1. h # 0
    BY <1>2, <1>3, <1>8
  <2>2. P \cup {<<j, i>>} \subseteq Coord \X Coord
    BY <1>3
  <2>3. ASSUME y + h < CoordMod, x + w < CoordMod PROVE Swept(e, i, Word16(j + 1), P \cup {<<j, i>>})
    <3>1. j + 1 < CoordMod
      BY <1>1, <1>2, <1>6, <1>8, <2>3
    <3> QED BY <1>2, <1>6, <1>7, <1>8, <2>1, <2>3, <3>1
  <2>4. ASSUME y + h < CoordMod, ~(x + w < CoordMod) PROVE i = y
    BY <1>2, <1>3, <2>1, <2>4
  <2> QED BY <1>6, <2>1, <2>2, <2>3, <2>4 DEF AreaPainted, x, y, w, h
<1>9. ASSUME i < y + h, j >= x + w PROVE AreaPainted(e, AreaAt(e, Word16(i + 1), x), P)
  <2>1. h # 0
    BY <1>2, <1>3, <1>9
  <2>2. x + w < CoordMod
    BY <1>1, <1>2, <1>6, <1>9
  <2>3. ASSUME y + h < CoordMod PROVE Swept(e, Word16(i + 1), x, P)
    <3>1. i + 1 < CoordMod
      BY <1>1, <1>2, <1>6, <1>9, <2>3
    <3> QED BY <1>2, <1>6, <1>7, <1>9, <2>1, <2>2, <2>3, <3>1
  <2> QED BY <1>2, <1>3, <1>6, <2>1, <2>2, <2>3 DEF AreaPainted, x, y, w, h
<1>10. ASSUME i >= y + h PROVE P = Block(x, y, w, h)
  <2>1. y + h < CoordMod
    BY <1>1, <1>2, <1>6, <1>10
  <2>2. CASE h = 0
    <3>1. Block(x, y, w, h) = {}
      BY <1>2, <2>2 DEF Block
    <3> QED BY <1>3, <2>2, <3>1
  <2>3. CASE h > 0 /\ x + w < CoordMod
    BY <1>7, <1>10, <2>1, <2>3
  <2>4. ~(h > 0 /\ ~(x + w < CoordMod))
    BY <1>2, <1>3, <1>10, <2>1
  <2> QED BY <1>2, <2>2, <2>3, <2>4
<1> QED BY <1>3, <1>4, <1>5, <1>8, <1>9, <1>10 DEF AreaWhole, x, y, w, h

-----------------------------------------------------------------------------
(* Circles and discs.                                                      *)

(* The shape of a circle of radius e.b after a rounds, at (a, b).          *)
RingAt(e, a, b) ==
  [a |-> a, b |-> b, kind |-> "ring", x |-> e.x, y |-> e.y,
   f |-> (a + 1) * (a + 1) + b * b - b - e.b * e.b, ddx |-> 2 * a + 1, ddy |-> -2 * b]

CircleOK(e) == e.x \in Coord /\ e.y \in Coord /\ e.b \in Nat

(* The eight points of a round.                                            *)
Eight(e, a, b) ==
  {<<e.x + p * a, e.y + q * b>> : p \in {-1, 1}, q \in {-1, 1}}
    \cup {<<e.x + p * b, e.y + q * a>> : p \in {-1, 1}, q \in {-1, 1}}

(* The circle misses (a, b) by less than one in its radius.                *)
Fair(r, a, b) ==
  /\ a \in 0 .. r /\ b \in 0 .. r
  /\ a * a + b * b <= r * r + r /\ r * r <= a * a + b * b + r

(* Pairs of the circle, with one for each number up to a and from b on.    *)
RingCover(e, a, b, P) ==
  /\ \A p \in P : \E m, n : Fair(e.b, m, n) /\ p \in Eight(e, m, n)
  /\ \A k \in 0 .. a \cup b .. e.b : \E m \in 0 .. e.b : Eight(e, k, m) \subseteq P

RingPainted(e, s, P) ==
  \E a, b : Fair(e.b, a, b) /\ s = RingAt(e, a, b) /\ RingCover(e, a, b, P)

RingWhole(e, P) ==
  /\ \A p \in P : \E m, n : Fair(e.b, m, n) /\ p \in Eight(e, m, n)
  /\ \A k \in 0 .. e.b : \E m \in 0 .. e.b : Eight(e, k, m) \subseteq P

(* The four points graphics_draw_circle starts with.                       *)
FourPoints(x, y, r) == {<<x, y + r>>, <<x, y - r>>, <<x + r, y>>, <<x - r, y>>}

(* The eight points of (a, b) are those of (b, a).                         *)
LEMMA EightSwap ==
  ASSUME NEW e, NEW a, NEW b PROVE Eight(e, a, b) = Eight(e, b, a)
<1> QED BY DEF Eight

(* They are points of the plane.                                           *)
LEMMA EightInPlane ==
  ASSUME NEW e, CircleOK(e), NEW a \in Int, NEW b \in Int
  PROVE  Eight(e, a, b) \subseteq Plane
<1>1. e.x \in Int /\ e.y \in Int
  BY GraphicsAssumption DEF CircleOK, Coord
<1>2. \A p \in {-1, 1} : e.x + p * a \in Int /\ e.x + p * b \in Int /\ e.y + p * a \in Int /\ e.y + p * b \in Int
  BY <1>1
<1> QED BY <1>2 DEF Eight, Plane

(* The four points a circle starts with are the eight points of (0, r).    *)
LEMMA FourAreEight ==
  ASSUME NEW e, CircleOK(e)
  PROVE  FourPoints(e.x, e.y, e.b) = Eight(e, 0, e.b)
<1> DEFINE x == e.x
           y == e.y
           r == e.b
<1>1. x \in Int /\ y \in Int /\ r \in Int
  BY GraphicsAssumption DEF CircleOK, Coord
<1> HIDE DEF x, y, r
<1>2. /\ x + (-1) * 0 = x /\ x + 1 * 0 = x /\ y + (-1) * 0 = y /\ y + 1 * 0 = y
      /\ x + (-1) * r = x - r /\ x + 1 * r = x + r /\ y + (-1) * r = y - r /\ y + 1 * r = y + r
  BY <1>1
<1>3. {<<x + p * 0, y + q * r>> : p \in {-1, 1}, q \in {-1, 1}} = {<<x, y - r>>, <<x, y + r>>}
  BY <1>2
<1>4. {<<x + p * r, y + q * 0>> : p \in {-1, 1}, q \in {-1, 1}} = {<<x - r, y>>, <<x + r, y>>}
  BY <1>2
<1> QED BY <1>3, <1>4 DEF Eight, FourPoints, x, y, r

(* So the circle starts with a pair that fits it and both 0 and r covered. *)
LEMMA RingBegins ==
  ASSUME NEW e, CircleOK(e)
  PROVE  RingPainted(e, RingAt(e, 0, e.b), Eight(e, 0, e.b))
<1> DEFINE r == e.b
<1>1. r \in Nat
  BY DEF CircleOK
<1>2. Fair(r, 0, r)
  <2> HIDE DEF r
  <2>1. r * r \in Nat /\ 0 * 0 = 0
    BY <1>1
  <2> QED BY <1>1, <2>1 DEF Fair
<1>3. ASSUME NEW k \in 0 .. 0 \cup r .. r PROVE \E m \in 0 .. r : Eight(e, k, m) \subseteq Eight(e, 0, r)
  <2>1. k = 0 \/ k = r
    BY <1>1
  <2>2. 0 \in 0 .. r /\ r \in 0 .. r
    BY <1>1
  <2> QED BY <2>1, <2>2, EightSwap
<1> QED BY <1>2, <1>3 DEF RingPainted, RingCover

(* One round of the loop keeps the point fair.                             *)
LEMMA StaysFair ==
  ASSUME NEW r \in Nat, NEW a, NEW b, Fair(r, a, b), a < b,
         NEW in \in BOOLEAN, in <=> ((a + 1) * (a + 1) + b * b - b - r * r >= 0)
  PROVE  /\ Fair(r, a + 1, IF in THEN b - 1 ELSE b)
         /\ LET b1 == IF in THEN b - 1 ELSE b IN
            (a + 1) * (a + 1) + b * b - b - r * r + (IF in THEN -2 * b + 2 ELSE 0) + (2 * a + 1) + 2
              = ((a + 1) + 1) * ((a + 1) + 1) + b1 * b1 - b1 - r * r
<1> DEFINE aa == a * a
           bb == b * b
           rr == r * r
<1>1. a \in Nat /\ b \in Nat /\ a <= r /\ b <= r
  BY DEF Fair
<1>2. aa \in Nat /\ bb \in Nat /\ rr \in Nat
  BY <1>1
<1>3. /\ (a + 1) * (a + 1) = aa + 2 * a + 1
      /\ ((a + 1) + 1) * ((a + 1) + 1) = aa + 4 * a + 4
      /\ (b - 1) * (b - 1) = bb - 2 * b + 1
  BY <1>1
<1>4. aa + bb <= rr + r /\ rr <= aa + bb + r
  BY DEF Fair
<1>5. in <=> aa + 2 * a + 1 + bb - b - rr >= 0
  BY <1>3
<1> HIDE DEF aa, bb, rr
<1>6. CASE in
  <2>1. /\ a + 1 \in 0 .. r /\ b - 1 \in 0 .. r
        /\ (aa + 2 * a + 1) + (bb - 2 * b + 1) <= rr + r
        /\ rr <= (aa + 2 * a + 1) + (bb - 2 * b + 1) + r
    BY <1>1, <1>2, <1>4, <1>5, <1>6
  <2>2. Fair(r, a + 1, b - 1)
    BY <1>3, <2>1 DEF Fair, rr
  <2>3. (aa + 2 * a + 1) + bb - b - rr + (-2 * b + 2) + (2 * a + 1) + 2
          = (aa + 4 * a + 4) + (bb - 2 * b + 1) - (b - 1) - rr
    BY <1>1, <1>2
  <2>4. (a + 1) * (a + 1) + b * b - b - r * r + (-2 * b + 2) + (2 * a + 1) + 2
          = ((a + 1) + 1) * ((a + 1) + 1) + (b - 1) * (b - 1) - (b - 1) - r * r
    BY <1>3, <2>3 DEF bb, rr
  <2> QED BY <1>6, <2>2, <2>4
<1>7. CASE ~in
  <2>1. /\ a + 1 \in 0 .. r /\ b \in 0 .. r
        /\ (aa + 2 * a + 1) + bb <= rr + r
        /\ rr <= (aa + 2 * a + 1) + bb + r
    BY <1>1, <1>2, <1>4, <1>5, <1>7
  <2>2. Fair(r, a + 1, b)
    BY <1>3, <2>1 DEF Fair, bb, rr
  <2>3. (aa + 2 * a + 1) + bb - b - rr + 0 + (2 * a + 1) + 2
          = (aa + 4 * a + 4) + bb - b - rr
    BY <1>1, <1>2
  <2>4. (a + 1) * (a + 1) + b * b - b - r * r + 0 + (2 * a + 1) + 2
          = ((a + 1) + 1) * ((a + 1) + 1) + b * b - b - r * r
    BY <1>3, <2>3 DEF bb, rr
  <2> QED BY <1>7, <2>2, <2>4
<1> QED BY <1>6, <1>7

(* The fields of the next round, as the code computes them.                *)
NextRing(s) ==
  LET in  == s.f >= 0
      ddy == IF in THEN s.ddy + 2 ELSE s.ddy
  IN  [s EXCEPT !.b = IF in THEN @ - 1 ELSE @, !.ddy = ddy,
                !.a = @ + 1, !.ddx = @ + 2,
                !.f = @ + (IF in THEN ddy ELSE 0) + s.ddx + 2]

RingRec(a, b, x, y, f, ddx, ddy) ==
  [a |-> a, b |-> b, kind |-> "ring", x |-> x, y |-> y, f |-> f, ddx |-> ddx, ddy |-> ddy]

RingSet(z, b1, ddy1, a1, ddx1, f1) ==
  [z EXCEPT !.b = b1, !.ddy = ddy1, !.a = a1, !.ddx = ddx1, !.f = f1]

(* The fields a round changes, one after the other.                        *)
LEMMA RingRecord ==
  ASSUME NEW a, NEW b, NEW x, NEW y, NEW f, NEW ddx, NEW ddy,
         NEW a1, NEW b1, NEW f1, NEW ddx1, NEW ddy1
  PROVE  RingSet(RingRec(a, b, x, y, f, ddx, ddy), b1, ddy1, a1, ddx1, f1)
         = RingRec(a1, b1, x, y, f1, ddx1, ddy1)
<1> DEFINE E1(z) == [z EXCEPT !.b = b1]
           E2(z) == [z EXCEPT !.ddy = ddy1]
           E3(z) == [z EXCEPT !.a = a1]
           E4(z) == [z EXCEPT !.ddx = ddx1]
           E5(z) == [z EXCEPT !.f = f1]
           t0 == RingRec(a, b, x, y, f, ddx, ddy)
<1>1. E1(t0) = RingRec(a, b1, x, y, f, ddx, ddy)
  BY DEF RingRec
<1>2. E2(RingRec(a, b1, x, y, f, ddx, ddy)) = RingRec(a, b1, x, y, f, ddx, ddy1)
  BY DEF RingRec
<1>3. E3(RingRec(a, b1, x, y, f, ddx, ddy1)) = RingRec(a1, b1, x, y, f, ddx, ddy1)
  BY DEF RingRec
<1>4. E4(RingRec(a1, b1, x, y, f, ddx, ddy1)) = RingRec(a1, b1, x, y, f, ddx1, ddy1)
  BY DEF RingRec
<1>5. E5(RingRec(a1, b1, x, y, f, ddx1, ddy1)) = RingRec(a1, b1, x, y, f1, ddx1, ddy1)
  BY DEF RingRec
<1> HIDE DEF t0
<1>6. RingSet(t0, b1, ddy1, a1, ddx1, f1) = E5(E4(E3(E2(E1(t0)))))
  BY DEF RingSet
<1> HIDE DEF E1, E2, E3, E4, E5
<1>7. E5(E4(E3(E2(E1(t0))))) = RingRec(a1, b1, x, y, f1, ddx1, ddy1)
  BY <1>1, <1>2, <1>3, <1>4, <1>5
<1> QED BY <1>6, <1>7 DEF t0

(* One round of the loop: it ends with every number up to the radius       *)
(* covered, or paints the eight points of the next pair, which fits as     *)
(* well.                                                                   *)
LEMMA RingGoes ==
  ASSUME NEW e, CircleOK(e), NEW s, NEW P, RingPainted(e, s, P)
  PROVE  /\ s.kind = "ring"
         /\ s.a < s.b => /\ RingPainted(e, NextRing(s), P \cup Octants(NextRing(s)))
                         /\ Octants(NextRing(s)) \subseteq Plane
         /\ ~(s.a < s.b) => RingWhole(e, P)
<1> DEFINE r == e.b
<1>1. PICK a, b : Fair(r, a, b) /\ s = RingAt(e, a, b) /\ RingCover(e, a, b, P)
  BY DEF RingPainted
<1>2. s.kind = "ring" /\ s.a = a /\ s.b = b
  BY <1>1 DEF RingAt
<1>3. r \in Nat /\ a \in Nat /\ b \in Nat /\ a <= r /\ b <= r
  BY <1>1 DEF Fair, CircleOK
<1>4. ASSUME ~(a < b) PROVE RingWhole(e, P)
  <2>1. 0 .. r \subseteq 0 .. a \cup b .. r
    BY <1>3, <1>4
  <2> HIDE DEF r
  <2> QED BY <1>1, <2>1 DEF RingWhole, RingCover, r
<1>5. ASSUME a < b
      PROVE  /\ RingPainted(e, NextRing(s), P \cup Octants(NextRing(s)))
             /\ Octants(NextRing(s)) \subseteq Plane
  <2> DEFINE f == (a + 1) * (a + 1) + b * b - b - r * r
             in == f >= 0
             a1 == a + 1
             b1 == IF in THEN b - 1 ELSE b
             f1 == f + (IF in THEN -2 * b + 2 ELSE 0) + (2 * a + 1) + 2
  <2>1. Fair(r, a1, b1) /\ f1 = (a1 + 1) * (a1 + 1) + b1 * b1 - b1 - r * r
    <3> HIDE DEF r
    <3>1. in \in BOOLEAN /\ (in <=> ((a + 1) * (a + 1) + b * b - b - r * r >= 0))
      OBVIOUS
    <3> HIDE DEF in
    <3> QED BY <1>1, <1>3, <1>5, <3>1, StaysFair
  <2>2. NextRing(s) = RingAt(e, a1, b1)
    <3> DEFINE ddx0 == 2 * a + 1
               ddy0 == -2 * b
               t == RingRec(a, b, e.x, e.y, f, ddx0, ddy0)
               ddy1 == IF in THEN -2 * b + 2 ELSE -2 * b
               ddx1 == (2 * a + 1) + 2
               u == RingRec(a1, b1, e.x, e.y, f1, ddx1, ddy1)
    <3>1. s = t
      BY <1>1 DEF RingAt, RingRec
    <3>2. NextRing(t) = RingSet(t, b1, ddy1, a1, ddx1, f1)
      BY DEF NextRing, RingRec, RingSet
    <3>3. RingSet(t, b1, ddy1, a1, ddx1, f1) = u
      <4> HIDE DEF f, in, a1, b1, f1, ddx0, ddy0, ddx1, ddy1, r
      <4> QED BY RingRecord DEF t, u
    <3>4. ddx1 = 2 * a1 + 1 /\ ddy1 = -2 * b1
      BY <1>3
    <3> HIDE DEF t, f1, b1, a1, ddx1, ddy1
    <3>5. u = RingAt(e, a1, b1)
      BY <2>1, <3>4 DEF RingAt, RingRec, u
    <3> QED BY <3>1, <3>2, <3>3, <3>5
  <2>3. Octants(NextRing(s)) = Eight(e, a1, b1)
    <3> HIDE DEF a1, b1
    <3> QED BY <2>2 DEF Octants, RingAt, Eight
  <2> DEFINE Q == P \cup Eight(e, a1, b1)
  <2>4. RingCover(e, a1, b1, Q)
    <3>1. b1 \in Nat /\ a1 \in Nat /\ a1 \in 0 .. r /\ b1 \in 0 .. r /\ b1 >= b - 1
      BY <1>3, <1>5, <2>1 DEF Fair
    <3>2. \A k \in 0 .. a1 \cup b1 .. r : k = a1 \/ k = b1 \/ k \in 0 .. a \cup b .. r
      <4> HIDE DEF b1
      <4> QED BY <1>3, <3>1
    <3> HIDE DEF a1, b1, r
    <3>3. ASSUME NEW k \in 0 .. a1 \cup b1 .. r PROVE \E m \in 0 .. r : Eight(e, k, m) \subseteq Q
      <4>1. CASE k = a1
        BY <3>1, <4>1
      <4>2. CASE k = b1
        BY <3>1, <4>2, EightSwap
      <4>3. CASE k \in 0 .. a \cup b .. r
        <5>1. PICK m \in 0 .. r : Eight(e, k, m) \subseteq P
          BY <1>1, <4>3 DEF RingCover, r
        <5> QED BY <5>1
      <4> QED BY <3>2, <4>1, <4>2, <4>3
    <3>4. ASSUME NEW p \in Q PROVE \E m, n : Fair(r, m, n) /\ p \in Eight(e, m, n)
      <4>1. CASE p \in P
        BY <1>1, <4>1 DEF RingCover, r
      <4> QED BY <2>1, <4>1
    <3> HIDE DEF Q
    <3> QED BY <3>3, <3>4 DEF RingCover, r
  <2>5. Eight(e, a1, b1) \subseteq Plane
    <3>1. a1 \in Int /\ b1 \in Int
      BY <1>3
    <3> HIDE DEF a1, b1
    <3> QED BY <3>1, EightInPlane
  <2> HIDE DEF a1, b1
  <2> QED BY <2>1, <2>2, <2>3, <2>4, <2>5 DEF RingPainted
<1> QED BY <1>2, <1>4, <1>5

-----------------------------------------------------------------------------
(* The shape of a disc of radius e.r before its column i.                  *)
DiscAt(e, i) == [kind |-> "disc", x |-> e.x, y |-> e.y, i |-> i, r |-> e.r]

DiscOK(e) == e.x \in Coord /\ e.y \in Coord /\ e.r \in Nat

DiscPainted(e, s, P) ==
  \E i \in -e.r .. e.r + 1 :
    /\ s = DiscAt(e, i)
    /\ P = {<<e.x + q[1], e.y + q[2]>> : q \in
              {k \in (-e.r .. i - 1) \X (-e.r .. e.r) : k[1] * k[1] + k[2] * k[2] <= e.r * e.r}}

DiscWhole(e, P) == P = {p \in Plane : Sq(p[1] - e.x) + Sq(p[2] - e.y) <= Sq(e.r)}

Column(s) == {<<s.x + s.i, s.y + j>> : j \in {k \in -s.r .. s.r : s.i * s.i + k * k <= s.r * s.r}}

(* A disc begins before its first column with nothing painted.             *)
LEMMA DiscBegins ==
  ASSUME NEW e, DiscOK(e)
  PROVE  DiscPainted(e, DiscAt(e, -e.r), {})
<1>1. -e.r \in -e.r .. e.r + 1 /\ -e.r .. -e.r - 1 = {}
  BY DEF DiscOK
<1> QED BY <1>1 DEF DiscPainted

(* A number whose square is no larger than that of r is no larger than r.  *)
LEMMA RootIn ==
  ASSUME NEW r \in Nat, NEW u \in Int, NEW v \in Int, u * u + v * v <= r * r
  PROVE  u \in -r .. r
<1>1. v * v >= 0
  OBVIOUS
<1>2. ASSUME NEW n \in Nat, n > r PROVE n * n > r * r
  <2> DEFINE d == n - r - 1
  <2>1. d \in Nat /\ n = r + 1 + d
    BY <1>2
  <2> HIDE DEF d
  <2>2. n * n = r * r + 2 * r + 1 + d * d + 2 * d + 2 * (r * d) /\ r * d \in Nat /\ d * d \in Nat /\ r * r \in Nat
    BY <2>1
  <2> QED BY <2>1, <2>2
<1>3. u * u <= r * r
  <2> DEFINE uu == u * u
             vv == v * v
             rr == r * r
  <2>1. uu \in Int /\ vv \in Int /\ rr \in Int /\ uu + vv <= rr /\ vv >= 0
    BY <1>1
  <2> HIDE DEF uu, vv, rr
  <2>2. uu <= rr
    BY <2>1
  <2> QED BY <2>2 DEF uu, rr
<1>4. (-u) * (-u) = u * u
  OBVIOUS
<1>5. ~(u > r)
  <2> SUFFICES ASSUME u > r PROVE FALSE
    OBVIOUS
  <2>1. u \in Nat /\ u * u > r * r /\ u * u \in Int /\ r * r \in Int
    BY <1>2
  <2> QED BY <1>3, <2>1
<1>6. ~(-u > r)
  <2> SUFFICES ASSUME -u > r PROVE FALSE
    OBVIOUS
  <2>1. -u \in Nat /\ (-u) * (-u) > r * r /\ u * u \in Int /\ r * r \in Int
    BY <1>2
  <2> QED BY <1>3, <1>4, <2>1
<1> QED BY <1>5, <1>6

(* One round of the outer loop paints one column of the disc; after the    *)
(* last one the disc is whole.                                             *)
LEMMA DiscGoes ==
  ASSUME NEW e, DiscOK(e), NEW s, NEW P, DiscPainted(e, s, P)
  PROVE  /\ s.kind = "disc"
         /\ s.i > s.r => DiscWhole(e, P)
         /\ ~(s.i > s.r) => /\ Column(s) \subseteq Plane
                            /\ DiscPainted(e, [s EXCEPT !.i = @ + 1], P \cup Column(s))
<1> DEFINE x == e.x
           y == e.y
           r == e.r
           Cols(n) == {q \in (-r .. n - 1) \X (-r .. r) : q[1] * q[1] + q[2] * q[2] <= r * r}
           Moved(q) == <<x + q[1], y + q[2]>>
<1>1. x \in Int /\ y \in Int /\ r \in Nat
  BY GraphicsAssumption DEF DiscOK, Coord
<1>2. PICK i \in -r .. r + 1 : s = DiscAt(e, i) /\ P = {Moved(q) : q \in Cols(i)}
  BY DEF DiscPainted
<1>3. s.kind = "disc" /\ s.x = x /\ s.y = y /\ s.i = i /\ s.r = r
  BY <1>2 DEF DiscAt
<1>4. i \in Int
  BY <1>1
<1>5. ASSUME i > r PROVE DiscWhole(e, P)
  <2>1. i = r + 1 /\ i - 1 = r
    BY <1>1, <1>4, <1>5
  <2>2. ASSUME NEW p \in P PROVE p \in Plane /\ Sq(p[1] - x) + Sq(p[2] - y) <= Sq(r)
    <3>1. PICK q \in Cols(i) : p = Moved(q)
      BY <1>2
    <3>2. q[1] \in Int /\ q[2] \in Int /\ q[1] * q[1] + q[2] * q[2] <= r * r
      BY <1>1, <1>4
    <3>3. p[1] = x + q[1] /\ p[2] = y + q[2]
      BY <3>1
    <3> DEFINE u == q[1]
               v == q[2]
    <3> HIDE DEF u, v, x, y, r
    <3>4. p[1] - x = u /\ p[2] - y = v /\ u * u + v * v <= r * r /\ p \in Plane
      BY <1>1, <3>1, <3>2, <3>3 DEF u, v, Plane
    <3> QED BY <3>4 DEF Sq
  <2>3. ASSUME NEW p \in Plane, Sq(p[1] - x) + Sq(p[2] - y) <= Sq(r) PROVE p \in P
    <3> DEFINE u == p[1] - x
               v == p[2] - y
    <3>1. p = <<p[1], p[2]>> /\ p[1] \in Int /\ p[2] \in Int
      BY DEF Plane
    <3>2. u \in Int /\ v \in Int /\ x + u = p[1] /\ y + v = p[2]
      BY <1>1, <3>1
    <3>3. u * u + v * v <= r * r /\ v * v + u * u <= r * r
      <4>1. u * u + v * v <= r * r
        BY <2>3 DEF Sq
      <4> HIDE DEF u, v, r
      <4>2. v * v + u * u = u * u + v * v
        BY <3>2
      <4> QED BY <4>1, <4>2
    <3> HIDE DEF u, v, x, y, r
    <3>4. u \in -r .. r /\ v \in -r .. r
      BY <1>1, <3>2, <3>3, RootIn
    <3>5. <<u, v>> \in Cols(i)
      BY <2>1, <3>3, <3>4
    <3>6. p = Moved(<<u, v>>)
      BY <3>1, <3>2
    <3> HIDE DEF Cols, Moved
    <3> QED BY <1>2, <3>5, <3>6
  <2> QED BY <2>2, <2>3 DEF DiscWhole
<1>6. ASSUME ~(i > r)
      PROVE  /\ Column(s) \subseteq Plane
             /\ DiscPainted(e, [s EXCEPT !.i = @ + 1], P \cup Column(s))
  <2>1. Column(s) = {<<x + i, y + j>> : j \in {k \in -r .. r : i * i + k * k <= r * r}}
    BY <1>3 DEF Column
  <2>2. Column(s) \subseteq Plane
    BY <1>1, <1>4, <2>1 DEF Plane
  <2>3. [s EXCEPT !.i = @ + 1] = DiscAt(e, i + 1)
    BY <1>2 DEF DiscAt
  <2>4. i + 1 \in -r .. r + 1 /\ (i + 1) - 1 = i
    BY <1>1, <1>4, <1>6
  <2>5. P \cup Column(s) = {Moved(q) : q \in Cols(i + 1)}
    <3> HIDE DEF x, y, r
    <3>1. \A q : q \in Cols(i + 1) <=>
            q \in Cols(i) \/ \E k \in -r .. r : i * i + k * k <= r * r /\ q = <<i, k>>
      <4> TAKE q
      <4>1. -r .. (i + 1) - 1 = (-r .. i - 1) \cup {i} /\ i \notin -r .. i - 1
        BY <1>1, <1>4, <2>4
      <4>2. (-r .. (i + 1) - 1) \X (-r .. r) = ((-r .. i - 1) \X (-r .. r)) \cup {<<i, k>> : k \in -r .. r}
        BY <4>1
      <4> QED BY <4>2
    <3>2. \A k : Moved(<<i, k>>) = <<x + i, y + k>>
      OBVIOUS
    <3> HIDE DEF Cols, Moved
    <3>3. \A p : p \in Column(s) <=> \E k \in -r .. r : i * i + k * k <= r * r /\ p = Moved(<<i, k>>)
      BY <1>3, <3>2 DEF Column, x, y, r
    <3>4. \A p : p \in P <=> \E q \in Cols(i) : p = Moved(q)
      BY <1>2
    <3>5. \A p : p \in P \cup Column(s) <=> \E q \in Cols(i + 1) : p = Moved(q)
      BY <3>1, <3>3, <3>4
    <3> QED BY <3>5
  <2>6. P \cup Column(s)
          = {<<e.x + q[1], e.y + q[2]>> : q \in
               {k \in (-e.r .. (i + 1) - 1) \X (-e.r .. e.r) : k[1] * k[1] + k[2] * k[2] <= e.r * e.r}}
    BY <2>5
  <2> QED BY <2>2, <2>3, <2>4, <2>6 DEF DiscPainted
<1> QED BY <1>3, <1>5, <1>6

RingPoints(x, y, r) ==
  {p \in Block(0, 0, CoordMod, CoordMod) :
     /\ Sq(p[1] - x) + Sq(p[2] - y) <= Sq(r + 1)
     /\ r > 0 => Sq(p[1] - x) + Sq(p[2] - y) >= Sq(r - 1)}

(* The points whose coordinates have 16 bits.                              *)
LEMMA WholePlane == Block(0, 0, CoordMod, CoordMod) = Coord \X Coord
<1>1. CoordMod \in Nat /\ 0 + CoordMod - 1 = CoordMod - 1
  BY GraphicsAssumption
<1> QED BY <1>1 DEF Block, Coord

(* A fair point is less than one off the circle.                           *)
LEMMA FairIsNear ==
  ASSUME NEW r \in Nat, NEW m, NEW n, Fair(r, m, n)
  PROVE  /\ m * m + n * n <= (r + 1) * (r + 1)
         /\ r > 0 => m * m + n * n >= (r - 1) * (r - 1)
<1> DEFINE mm == m * m
           nn == n * n
           rr == r * r
<1>1. mm \in Int /\ nn \in Int /\ rr \in Int /\ mm + nn <= rr + r /\ rr <= mm + nn + r
  BY DEF Fair
<1>2. (r + 1) * (r + 1) = rr + 2 * r + 1 /\ (r - 1) * (r - 1) = rr - 2 * r + 1
  OBVIOUS
<1> HIDE DEF mm, nn, rr
<1>3. mm + nn <= rr + 2 * r + 1 /\ (r > 0 => mm + nn >= rr - 2 * r + 1)
  BY <1>1
<1> QED BY <1>2, <1>3 DEF mm, nn

(* The eight points of a pair that fits lie less than one off the circle.  *)
LEMMA EightOnRing ==
  ASSUME NEW e, CircleOK(e), NEW m, NEW n, Fair(e.b, m, n), NEW p \in Eight(e, m, n),
         {e.x - e.b, e.x + e.b, e.y - e.b, e.y + e.b} \subseteq Coord
  PROVE  p \in RingPoints(e.x, e.y, e.b)
<1> DEFINE x == e.x
           y == e.y
           r == e.b
<1>1. x \in Int /\ y \in Int /\ r \in Nat /\ CoordMod \in Nat
  BY GraphicsAssumption DEF CircleOK, Coord
<1>2. m \in 0 .. r /\ n \in 0 .. r /\ m \in Int /\ n \in Int
  BY <1>1 DEF Fair
<1>3. m * m + n * n <= (r + 1) * (r + 1) /\ (r > 0 => m * m + n * n >= (r - 1) * (r - 1))
  BY <1>1, FairIsNear
<1>4. x - r >= 0 /\ x + r < CoordMod /\ y - r >= 0 /\ y + r < CoordMod
  BY <1>1 DEF Coord
<1> HIDE DEF x, y, r
<1>5. ASSUME NEW s \in {-1, 1}, NEW k \in 0 .. r
      PROVE  /\ x + s * k \in Coord /\ y + s * k \in Coord
             /\ Sq((x + s * k) - x) = k * k /\ Sq((y + s * k) - y) = k * k
  <2>1. s * k = k \/ s * k = -k
    OBVIOUS
  <2>2. k \in Int /\ (-k) * (-k) = k * k
    OBVIOUS
  <2> DEFINE d == s * k
  <2>3. d \in Int /\ d * d = k * k /\ d \in -r .. r
    BY <1>1, <2>1, <2>2
  <2> HIDE DEF d
  <2>4. x + d \in Coord /\ y + d \in Coord /\ (x + d) - x = d /\ (y + d) - y = d
    BY <1>1, <1>4, <2>3 DEF Coord
  <2> QED BY <2>3, <2>4 DEF d, Sq
<1>6. ASSUME NEW s \in {-1, 1}, NEW t \in {-1, 1}, NEW u \in 0 .. r, NEW v \in 0 .. r,
             u * u + v * v = m * m + n * n
      PROVE  <<x + s * u, y + t * v>> \in RingPoints(x, y, r)
  <2> DEFINE q == <<x + s * u, y + t * v>>
  <2>1. q \in Block(0, 0, CoordMod, CoordMod)
    BY <1>5, WholePlane
  <2>2. Sq(q[1] - x) = u * u /\ Sq(q[2] - y) = v * v
    <3> DEFINE a == x + s * u
               b == y + t * v
    <3>1. Sq(a - x) = u * u /\ Sq(b - y) = v * v
      BY <1>5
    <3> HIDE DEF a, b
    <3>2. <<a, b>>[1] = a /\ <<a, b>>[2] = b
      OBVIOUS
    <3>3. q = <<a, b>>
      BY DEF a, b
    <3> HIDE DEF q
    <3> QED BY <3>1, <3>2, <3>3
  <2>3. Sq(q[1] - x) + Sq(q[2] - y) = m * m + n * n
    BY <1>6, <2>2
  <2> HIDE DEF q
  <2>4. q \in RingPoints(x, y, r)
    BY <1>3, <2>1, <2>3 DEF RingPoints, Sq
  <2> QED BY <2>4 DEF q
<1>7. n * n + m * m = m * m + n * n
  BY <1>2
<1>8. PICK s \in {-1, 1}, t \in {-1, 1} : p = <<x + s * m, y + t * n>> \/ p = <<x + s * n, y + t * m>>
  BY DEF Eight, x, y
<1>9. p \in RingPoints(x, y, r)
  BY <1>2, <1>6, <1>7, <1>8
<1> QED BY <1>9 DEF x, y, r

(* IsRing, of any screen and any words drawn.                              *)
RingDrawn(scr, x, y, r, done) ==
  /\ done \subseteq Lit(scr, RingPoints(x, y, r))
  /\ \A k \in -r .. r :
       /\ \E p \in RingPoints(x, y, r) : p[1] = x + k /\ Lit(scr, {p}) \subseteq done
       /\ \E p \in RingPoints(x, y, r) : p[2] = y + k /\ Lit(scr, {p}) \subseteq done

(* A circle whose pairs cover every number up to the radius is what IsRing *)
(* asks for.                                                               *)
LEMMA RingDone ==
  ASSUME NEW scr, NEW e, CircleOK(e), NEW P, RingWhole(e, P),
         {e.x - e.b, e.x + e.b, e.y - e.b, e.y + e.b} \subseteq Coord
  PROVE  RingDrawn(scr, e.x, e.y, e.b, Lit(scr, P))
<1> DEFINE x == e.x
           y == e.y
           r == e.b
           R == RingPoints(x, y, r)
<1>1. x \in Int /\ y \in Int /\ r \in Nat
  BY GraphicsAssumption DEF CircleOK, Coord
<1>2. P \subseteq R
  BY EightOnRing DEF RingWhole
<1>3. Lit(scr, P) \subseteq Lit(scr, R)
  BY <1>2, LitGrows
<1>4. \A p \in P : p \in R /\ Lit(scr, {p}) \subseteq Lit(scr, P)
  <2> TAKE p \in P
  <2>1. {p} \subseteq P
    OBVIOUS
  <2> QED BY <1>2, <2>1, LitGrows
<1> HIDE DEF R
<1>5. ASSUME NEW k \in -r .. r
      PROVE  /\ \E p \in P : p[1] = x + k
             /\ \E p \in P : p[2] = y + k
  <2>1. PICK c \in 0 .. r, s \in {-1, 1} : s * c = k
    <3>1. CASE k >= 0
      <4>1. k \in 0 .. r /\ 1 * k = k
        BY <1>1, <3>1
      <4> QED BY <4>1
    <3>2. CASE k < 0
      <4>1. -k \in 0 .. r /\ (-1) * (-k) = k
        BY <1>1, <3>2
      <4> QED BY <4>1
    <3> QED BY <1>1, <3>1, <3>2
  <2>2. PICK m \in 0 .. r : Eight(e, c, m) \subseteq P
    BY DEF RingWhole
  <2>3. <<x + s * c, y + s * m>> \in Eight(e, c, m) /\ <<x + s * m, y + s * c>> \in Eight(e, c, m)
    BY DEF Eight
  <2>4. <<x + k, y + s * m>> \in P /\ <<x + s * m, y + k>> \in P
    BY <2>1, <2>2, <2>3
  <2> HIDE DEF x, y
  <2> QED BY <2>4
<1> HIDE DEF x, y, r
<1>6. RingDrawn(scr, x, y, r, Lit(scr, P))
  BY <1>3, <1>4, <1>5 DEF RingDrawn, R
<1> QED BY <1>6 DEF x, y, r

(* A disc that does not wrap is the points no further from its middle than *)
(* its radius.                                                             *)
LEMMA DiscDone ==
  ASSUME NEW e, DiscOK(e), NEW P, DiscWhole(e, P),
         {e.x - e.r, e.x + e.r, e.y - e.r, e.y + e.r} \subseteq Coord
  PROVE  P = {p \in Block(0, 0, CoordMod, CoordMod) : Sq(p[1] - e.x) + Sq(p[2] - e.y) <= Sq(e.r)}
<1> DEFINE x == e.x
           y == e.y
           r == e.r
<1>1. x \in Int /\ y \in Int /\ r \in Nat /\ CoordMod \in Nat
  BY GraphicsAssumption DEF DiscOK, Coord
<1>2. x - r >= 0 /\ x + r < CoordMod /\ y - r >= 0 /\ y + r < CoordMod
  BY <1>1 DEF Coord
<1> HIDE DEF x, y, r
<1>3. ASSUME NEW p \in Plane, Sq(p[1] - x) + Sq(p[2] - y) <= Sq(r) PROVE p \in Coord \X Coord
  <2> DEFINE u == p[1] - x
             v == p[2] - y
  <2>1. p = <<p[1], p[2]>> /\ p[1] \in Int /\ p[2] \in Int
    BY DEF Plane
  <2>2. u \in Int /\ v \in Int /\ x + u = p[1] /\ y + v = p[2]
    BY <1>1, <2>1
  <2>3. u * u + v * v <= r * r
    BY <1>3 DEF Sq
  <2> HIDE DEF u, v
  <2>4. v * v + u * u <= r * r
    BY <1>1, <2>2, <2>3
  <2>5. u \in -r .. r /\ v \in -r .. r
    BY <1>1, <2>2, <2>3, <2>4, RootIn
  <2>6. x + u \in Coord /\ y + v \in Coord
    BY <1>1, <1>2, <2>2, <2>5 DEF Coord
  <2> QED BY <2>1, <2>2, <2>6
<1>4. Coord \X Coord \subseteq Plane
  BY <1>1 DEF Coord, Plane
<1>5. P = {p \in Plane : Sq(p[1] - x) + Sq(p[2] - y) <= Sq(r)}
  BY DEF DiscWhole, x, y, r
<1>6. P = {p \in Coord \X Coord : Sq(p[1] - x) + Sq(p[2] - y) <= Sq(r)}
  BY <1>3, <1>4, <1>5
<1> QED BY <1>6, WholePlane DEF x, y, r

(* Every column of a text is in one of its characters.                     *)
LEMMA CellOfColumn ==
  ASSUME NEW n \in Nat, NEW cw \in Nat, NEW d \in 0 .. n * cw - 1
  PROVE  \E k \in 1 .. n : d - (k - 1) * cw \in 0 .. cw - 1
<1>1. cw # 0
  <2>1. n * 0 = 0
    OBVIOUS
  <2> QED BY <2>1
<1> DEFINE q == d \div cw
<1>2. d \in Nat /\ cw \in Nat \ {0} /\ d < n * cw
  <2>1. n * cw \in Nat
    OBVIOUS
  <2> DEFINE t == n * cw
  <2> HIDE DEF t
  <2>2. d \in 0 .. t - 1 /\ t \in Nat
    BY <2>1 DEF t
  <2>3. d \in Nat /\ d < t
    BY <2>2
  <2> QED BY <1>1, <2>3 DEF t
<1>3. q \in Nat /\ d - q * cw \in 0 .. cw - 1
  BY <1>2, SMTT(30)
<1> HIDE DEF q
<1>4. q < n
  <2> SUFFICES ASSUME q >= n PROVE FALSE
    BY <1>3
  <2>1. cw * n <= cw * q
    BY <1>2, <1>3, Multiples
  <2>2. n * cw = cw * n /\ q * cw = cw * q /\ cw * n \in Nat /\ cw * q \in Nat
    BY <1>3
  <2> QED BY <1>2, <1>3, <2>1, <2>2
<1>5. q + 1 \in 1 .. n /\ (q + 1) - 1 = q
  BY <1>3, <1>4
<1> QED BY <1>3, <1>5

(* The characters of a text fill its block.                                *)
LEMMA TextDone ==
  ASSUME NEW x \in Coord, NEW y \in Coord, NEW n \in Nat, x + n * CharWidth < CoordMod,
         NEW W, \A k \in 1 .. n : AreaWhole(CharAreas(x, y, n)[k], W[k])
  PROVE  UNION {W[k] : k \in 1 .. n} = Block(x, y, n * CharWidth, CharHeight)
<1> DEFINE cw == CharWidth
           ch == CharHeight
<1>1. CoordMod \in Nat /\ Coord = 0 .. CoordMod - 1 /\ cw \in Nat /\ ch \in Nat /\ x \in Nat /\ y \in Nat
  BY GraphicsAssumption DEF Coord
<1> HIDE DEF cw, ch
<1>2. ASSUME NEW k \in 1 .. n
      PROVE  (k - 1) * cw \in Nat /\ (k - 1) * cw + cw <= n * cw /\ n * cw \in Nat
  <2> DEFINE j == k - 1
             l == n - k
  <2>1. j \in Nat /\ l \in Nat /\ n = j + 1 + l
    OBVIOUS
  <2> HIDE DEF j, l
  <2>2. n * cw = j * cw + cw + l * cw /\ j * cw \in Nat /\ l * cw \in Nat
    BY <1>1, <2>1
  <2> QED BY <1>1, <2>2 DEF j
<1>3. ASSUME NEW k \in 1 .. n PROVE W[k] = Block(x + (k - 1) * cw, y, cw, ch)
  <2>1. x + (k - 1) * cw \in Coord
    <3> DEFINE d == (k - 1) * cw
    <3>1. d \in Nat /\ d + cw <= n * cw /\ x + n * cw < CoordMod /\ n * cw \in Nat
      BY <1>2 DEF cw
    <3> HIDE DEF d
    <3>2. x + d \in Coord
      BY <1>1, <3>1
    <3> QED BY <3>2 DEF d
  <2>2. Word16(x + (k - 1) * cw) = x + (k - 1) * cw
    BY <1>1, <2>1, CutOff
  <2>3. CharAreas(x, y, n)[k] = Area(x + (k - 1) * cw, y, cw, ch)
    BY <2>2 DEF CharAreas, cw, ch
  <2>4. AreaWhole(Area(x + (k - 1) * cw, y, cw, ch), W[k])
    BY <2>3
  <2> QED BY <2>4 DEF AreaWhole, Area
<1>4. ASSUME NEW k \in 1 .. n PROVE W[k] \subseteq Block(x, y, n * cw, ch)
  <2> DEFINE d == (k - 1) * cw
             t == n * cw
  <2>1. d \in Nat /\ d + cw <= t /\ t \in Nat
    BY <1>2
  <2>2. W[k] = Block(x + d, y, cw, ch)
    BY <1>3
  <2> HIDE DEF d, t
  <2>3. (x + d) .. (x + d) + cw - 1 \subseteq x .. x + t - 1
    BY <1>1, <2>1
  <2>4. W[k] \subseteq Block(x, y, t, ch)
    BY <2>2, <2>3 DEF Block
  <2> QED BY <2>4 DEF t
<1>5. ASSUME NEW i \in x .. x + n * cw - 1, NEW j \in y .. y + ch - 1
      PROVE  \E k \in 1 .. n : <<i, j>> \in W[k]
  <2>1. i - x \in 0 .. n * cw - 1
    <3> DEFINE t == n * cw
    <3>1. t \in Nat
      BY <1>1
    <3> HIDE DEF t
    <3>2. i \in x .. x + t - 1
      BY DEF t
    <3>3. i - x \in 0 .. t - 1
      BY <1>1, <3>1, <3>2
    <3> QED BY <3>3 DEF t
  <2>2. PICK k \in 1 .. n : (i - x) - (k - 1) * cw \in 0 .. cw - 1
    BY <1>1, <2>1, CellOfColumn
  <2> DEFINE d == (k - 1) * cw
  <2>3. i \in x + d .. (x + d) + cw - 1
    <3>1. d \in Nat /\ (i - x) - d \in 0 .. cw - 1 /\ i \in Int
      BY <1>1, <1>2, <2>1, <2>2
    <3> HIDE DEF d
    <3> QED BY <1>1, <3>1
  <2>4. W[k] = Block(x + d, y, cw, ch)
    BY <1>3
  <2> HIDE DEF d
  <2> QED BY <2>3, <2>4 DEF Block
<1>6. UNION {W[k] : k \in 1 .. n} \subseteq Block(x, y, n * cw, ch)
  BY <1>4
<1>7. Block(x, y, n * cw, ch) \subseteq UNION {W[k] : k \in 1 .. n}
  BY <1>5 DEF Block
<1> QED BY <1>6, <1>7 DEF cw, ch

-----------------------------------------------------------------------------
(* Calls, which draw one shape after the other.                            *)

(* A shape as its function sets it up.                                     *)
ShapeOK(e) ==
  \/ e.kind = "line" /\ EndsOK(e) /\ e = LineAt(e, 0, 0)
  \/ e.kind = "area" /\ AreaOK(e) /\ e = AreaAt(e, e.y, e.x)
  \/ e.kind = "ring" /\ CircleOK(e) /\ e = RingAt(e, 0, e.b)
  \/ e.kind = "disc" /\ DiscOK(e) /\ e = DiscAt(e, -e.r)

StartOf(e) == IF e.kind = "ring" THEN Eight(e, 0, e.b) ELSE {}

(* The points P are painted of the shape e, of which s is left.            *)
Partway(e, s, P) ==
  /\ P \subseteq Plane
  /\ e.kind = "line" => LinePainted(e, s, P)
  /\ e.kind = "area" => AreaPainted(e, s, P)
  /\ e.kind = "ring" => RingPainted(e, s, P)
  /\ e.kind = "disc" => DiscPainted(e, s, P)

Whole(e, P) ==
  /\ P \subseteq Plane
  /\ e.kind = "line" => LineWhole(e, P)
  /\ e.kind = "area" => AreaWhole(e, P)
  /\ e.kind = "ring" => RingWhole(e, P)
  /\ e.kind = "disc" => DiscWhole(e, P)

(* Every shape begins with the points its function draws first.            *)
LEMMA ShapeBegins ==
  ASSUME NEW e, ShapeOK(e)
  PROVE  Partway(e, e, StartOf(e))
<1>1. CASE e.kind = "line"
  <2>1. LinePainted(e, e, {})
    BY <1>1, LineBegins DEF ShapeOK
  <2> QED BY <1>1, <2>1 DEF Partway, StartOf
<1>2. CASE e.kind = "area"
  <2>1. AreaPainted(e, e, {})
    BY <1>2, AreaBegins DEF ShapeOK
  <2> QED BY <1>2, <2>1 DEF Partway, StartOf
<1>3. CASE e.kind = "ring"
  <2>1. CircleOK(e) /\ e = RingAt(e, 0, e.b)
    BY <1>3 DEF ShapeOK
  <2>2. RingPainted(e, e, Eight(e, 0, e.b))
    BY <2>1, RingBegins
  <2>3. Eight(e, 0, e.b) \subseteq Plane
    <3>1. 0 \in Int /\ e.b \in Int
      BY <2>1 DEF CircleOK
    <3> QED BY <2>1, <3>1, EightInPlane
  <2> QED BY <1>3, <2>2, <2>3 DEF Partway, StartOf
<1>4. CASE e.kind = "disc"
  <2>1. DiscPainted(e, e, {})
    BY <1>4, DiscBegins DEF ShapeOK
  <2> QED BY <1>4, <2>1 DEF Partway, StartOf
<1> QED BY <1>1, <1>2, <1>3, <1>4 DEF ShapeOK

(* Of n shapes the first k are whole, the next is on its way and the rest  *)
(* wait; what is lit are the points painted.                               *)
Drawing(scr, n, all, todo, done, k, W) ==
  /\ k \in 0 .. n /\ W \in [1 .. n -> SUBSET Plane]
  /\ \E T : todo \in Seq(T)
  /\ Len(todo) = n - k
  /\ \A i \in 1 .. k : Whole(all[i], W[i])
  /\ \A i \in k + 2 .. n : todo[i - k] = all[i] /\ W[i] = StartOf(all[i])
  /\ k < n => Partway(all[k + 1], todo[1], W[k + 1])
  /\ done = Lit(scr, UNION {W[i] : i \in 1 .. n})

Progress(scr, n, all, todo, done) == \E k, W : Drawing(scr, n, all, todo, done, k, W)

(* A call begins with all of its shapes still to draw.                     *)
LEMMA DrawingBegins ==
  ASSUME NEW scr, NEW n \in Nat, NEW T, NEW all \in Seq(T), Len(all) = n,
         \A i \in 1 .. n : ShapeOK(all[i])
  PROVE  Progress(scr, n, all, all, Lit(scr, UNION {StartOf(all[i]) : i \in 1 .. n}))
<1> DEFINE W == [i \in 1 .. n |-> StartOf(all[i])]
<1>1. \A i \in 1 .. n : Partway(all[i], all[i], W[i])
  BY ShapeBegins
<1>2. \A i \in 1 .. n : W[i] = StartOf(all[i])
  OBVIOUS
<1>3. W \in [1 .. n -> SUBSET Plane]
  <2>1. \A i \in 1 .. n : StartOf(all[i]) \in SUBSET Plane
    BY <1>1, <1>2 DEF Partway
  <2> QED BY <2>1
<1>4. UNION {StartOf(all[i]) : i \in 1 .. n} = UNION {W[i] : i \in 1 .. n}
  BY <1>2
<1> HIDE DEF W
<1>5. 0 < n => Partway(all[0 + 1], all[1], W[0 + 1])
  BY <1>1
<1>6. \A i \in 0 + 2 .. n : all[i - 0] = all[i] /\ W[i] = StartOf(all[i])
  BY <1>2
<1>7. 0 \in 0 .. n /\ Len(all) = n - 0 /\ 1 .. 0 = {}
  OBVIOUS
<1>8. Drawing(scr, n, all, all, Lit(scr, UNION {StartOf(all[i]) : i \in 1 .. n}), 0, W)
  BY <1>3, <1>4, <1>5, <1>6, <1>7 DEF Drawing
<1> QED BY <1>8 DEF Progress

(* Of a call not yet over one shape is on its way: if the points N take it *)
(* further the call goes on, and if they complete it the next shape is on. *)
LEMMA DrawingGoesOn ==
  ASSUME NEW scr, NEW n \in Nat, NEW all, NEW todo, NEW done,
         Progress(scr, n, all, todo, done), todo # <<>>, \A i \in 1 .. n : ShapeOK(all[i])
  PROVE  \E i, P :
           /\ i \in 1 .. n /\ Partway(all[i], Head(todo), P)
           /\ \A N \in SUBSET Plane :
                /\ \A s : Partway(all[i], s, P \cup N) =>
                     Progress(scr, n, all, <<s>> \o Tail(todo), done \cup Lit(scr, N))
                /\ Whole(all[i], P \cup N) =>
                     Progress(scr, n, all, Tail(todo), done \cup Lit(scr, N))
<1>1. PICK k, W : Drawing(scr, n, all, todo, done, k, W)
  BY DEF Progress
<1>2. /\ k \in 0 .. n /\ W \in [1 .. n -> SUBSET Plane]
      /\ Len(todo) = n - k
      /\ done = Lit(scr, UNION {W[i] : i \in 1 .. n})
  BY <1>1 DEF Drawing
<1>3. PICK T : todo \in Seq(T)
  BY <1>1 DEF Drawing
<1>4. \A i \in 1 .. k : Whole(all[i], W[i])
  BY <1>1 DEF Drawing
<1>5. \A i \in k + 2 .. n : todo[i - k] = all[i] /\ W[i] = StartOf(all[i])
  BY <1>1 DEF Drawing
<1>6. k < n /\ k \in Nat /\ k + 1 \in 1 .. n
  <2>1. Len(todo) > 0
    BY <1>3
  <2> QED BY <1>2, <2>1
<1>7. Partway(all[k + 1], todo[1], W[k + 1])
  BY <1>1, <1>6 DEF Drawing
<1>8. Head(todo) = todo[1]
  BY <1>3
<1>9. ASSUME NEW N \in SUBSET Plane
      PROVE  /\ \A s : Partway(all[k + 1], s, W[k + 1] \cup N) =>
                  Progress(scr, n, all, <<s>> \o Tail(todo), done \cup Lit(scr, N))
             /\ Whole(all[k + 1], W[k + 1] \cup N) =>
                  Progress(scr, n, all, Tail(todo), done \cup Lit(scr, N))
  <2> DEFINE V == [W EXCEPT ![k + 1] = W[k + 1] \cup N]
  <2>1. V \in [1 .. n -> SUBSET Plane] /\ V[k + 1] = W[k + 1] \cup N
        /\ \A i \in 1 .. n : i # k + 1 => V[i] = W[i]
    BY <1>2, <1>6
  <2>2. UNION {V[i] : i \in 1 .. n} = (UNION {W[i] : i \in 1 .. n}) \cup N
    <3> HIDE DEF V
    <3>1. ASSUME NEW p \in UNION {V[i] : i \in 1 .. n} PROVE p \in (UNION {W[i] : i \in 1 .. n}) \cup N
      BY <1>6, <2>1
    <3>2. ASSUME NEW p \in UNION {W[i] : i \in 1 .. n} PROVE p \in UNION {V[i] : i \in 1 .. n}
      BY <1>6, <2>1
    <3>3. ASSUME NEW p \in N PROVE p \in UNION {V[i] : i \in 1 .. n}
      BY <1>6, <2>1
    <3> QED BY <3>1, <3>2, <3>3
  <2>3. done \cup Lit(scr, N) = Lit(scr, UNION {V[i] : i \in 1 .. n})
    BY <1>2, <2>2, LitUnion
  <2> HIDE DEF V
  <2>4. \A i \in 1 .. k : Whole(all[i], V[i])
    BY <1>4, <1>6, <2>1
  <2>5. \A i \in k + 2 .. n : todo[i - k] = all[i] /\ V[i] = StartOf(all[i])
    BY <1>5, <1>6, <2>1
  <2>6. ASSUME NEW s, Partway(all[k + 1], s, W[k + 1] \cup N)
        PROVE  Progress(scr, n, all, <<s>> \o Tail(todo), done \cup Lit(scr, N))
    <3> DEFINE next == <<s>> \o Tail(todo)
    <3>1. /\ next \in Seq(T \cup {s}) /\ Len(next) = n - k /\ next[1] = s
          /\ \A i \in 2 .. n - k : next[i] = todo[i]
      <4>1. todo \in Seq(T \cup {s}) /\ <<s>> \in Seq(T \cup {s}) /\ Len(todo) > 0 /\ Len(todo) \in Nat
        BY <1>2, <1>3, <1>6
      <4> DEFINE U == T \cup {s}
                 t == Tail(todo)
      <4> HIDE DEF U
      <4>2. t \in Seq(U) /\ Len(t) = Len(todo) - 1 /\ \A i \in 1 .. Len(todo) - 1 : t[i] = todo[i + 1]
        BY <4>1 DEF U
      <4> HIDE DEF t
      <4>3. /\ <<s>> \o t \in Seq(U) /\ Len(<<s>> \o t) = 1 + Len(t) /\ (<<s>> \o t)[1] = s
            /\ \A i \in 2 .. 1 + Len(t) : (<<s>> \o t)[i] = t[i - 1]
        BY <4>1, <4>2 DEF U
      <4>4. \A i \in 2 .. n - k : (<<s>> \o t)[i] = todo[i]
        <5> TAKE i \in 2 .. n - k
        <5>1. i \in 2 .. 1 + Len(t) /\ i - 1 \in 1 .. Len(todo) - 1 /\ (i - 1) + 1 = i
          BY <1>2, <1>6, <4>1, <4>2
        <5> QED BY <4>2, <4>3, <5>1
      <4> QED BY <1>2, <4>1, <4>2, <4>3, <4>4 DEF U, t
    <3> HIDE DEF next
    <3>2. \A i \in k + 2 .. n : next[i - k] = all[i] /\ V[i] = StartOf(all[i])
      <4> TAKE i \in k + 2 .. n
      <4>1. i - k \in 2 .. n - k
        BY <1>6
      <4> QED BY <2>5, <3>1, <4>1
    <3>3. Partway(all[k + 1], next[1], V[k + 1])
      BY <2>1, <2>6, <3>1
    <3>4. Drawing(scr, n, all, next, done \cup Lit(scr, N), k, V)
      BY <1>2, <2>1, <2>3, <2>4, <3>1, <3>2, <3>3 DEF Drawing
    <3> QED BY <3>4 DEF Progress, next
  <2>7. ASSUME Whole(all[k + 1], W[k + 1] \cup N)
        PROVE  Progress(scr, n, all, Tail(todo), done \cup Lit(scr, N))
    <3> DEFINE next == Tail(todo)
    <3>1. /\ next \in Seq(T) /\ Len(next) = n - (k + 1)
          /\ \A i \in 1 .. n - (k + 1) : next[i] = todo[i + 1]
      <4>1. Len(todo) > 0 /\ Len(todo) \in Nat /\ todo # <<>>
        BY <1>2, <1>3, <1>6
      <4>2. next \in Seq(T) /\ Len(next) = Len(todo) - 1 /\ \A i \in 1 .. Len(todo) - 1 : next[i] = todo[i + 1]
        BY <1>3, <4>1
      <4>3. Len(todo) - 1 = n - (k + 1)
        BY <1>2, <1>6
      <4> HIDE DEF next
      <4> QED BY <4>2, <4>3
    <3> HIDE DEF next
    <3>2. \A i \in (k + 1) + 1 .. n : next[i - (k + 1)] = all[i] /\ V[i] = StartOf(all[i])
      <4> TAKE i \in (k + 1) + 1 .. n
      <4>1. i - (k + 1) \in 1 .. n - (k + 1) /\ i \in k + 2 .. n /\ (i - (k + 1)) + 1 = i - k
        BY <1>6
      <4>2. next[i - (k + 1)] = todo[i - k]
        BY <3>1, <4>1
      <4> QED BY <2>5, <4>1, <4>2
    <3>3. ASSUME k + 1 < n PROVE Partway(all[(k + 1) + 1], next[1], V[(k + 1) + 1])
      <4>1. (k + 1) + 1 \in (k + 1) + 1 .. n /\ (k + 1) + 1 \in 1 .. n /\ ((k + 1) + 1) - (k + 1) = 1
        BY <1>6, <3>3
      <4> DEFINE i == (k + 1) + 1
      <4>2. next[1] = all[i] /\ V[i] = StartOf(all[i])
        BY <3>2, <4>1
      <4>3. Partway(all[i], all[i], StartOf(all[i]))
        BY <4>1, ShapeBegins
      <4> HIDE DEF i
      <4>4. Partway(all[i], next[1], V[i])
        BY <4>2, <4>3
      <4> QED BY <4>4 DEF i
    <3>4. \A i \in 1 .. k + 1 : Whole(all[i], V[i])
      <4> TAKE i \in 1 .. k + 1
      <4>1. i = k + 1 \/ i \in 1 .. k
        BY <1>6
      <4> QED BY <2>1, <2>4, <2>7, <4>1
    <3>5. k + 1 \in 0 .. n /\ \A i \in (k + 1) + 2 .. n : i \in (k + 1) + 1 .. n
      BY <1>6
    <3>6. Drawing(scr, n, all, next, done \cup Lit(scr, N), k + 1, V)
      BY <2>1, <2>3, <3>1, <3>2, <3>3, <3>4, <3>5 DEF Drawing
    <3> QED BY <3>6 DEF Progress, next
  <2> QED BY <2>6, <2>7
<1> QED BY <1>6, <1>7, <1>8, <1>9

(* A call writes to the frame only, and is over when all of its shapes are *)
(* whole.                                                                  *)
LEMMA DrawingEnds ==
  ASSUME NEW scr, ScreenOK(scr), NEW n \in Nat, NEW all, NEW todo, NEW done,
         Progress(scr, n, all, todo, done)
  PROVE  /\ done \subseteq Frame(scr)
         /\ todo = <<>> =>
              \E W : /\ \A i \in 1 .. n : Whole(all[i], W[i])
                     /\ done = Lit(scr, UNION {W[i] : i \in 1 .. n})
<1>1. PICK k, W : Drawing(scr, n, all, todo, done, k, W)
  BY DEF Progress
<1>2. /\ k \in 0 .. n /\ W \in [1 .. n -> SUBSET Plane]
      /\ Len(todo) = n - k
      /\ done = Lit(scr, UNION {W[i] : i \in 1 .. n})
      /\ \A i \in 1 .. k : Whole(all[i], W[i])
  BY <1>1 DEF Drawing
<1>3. UNION {W[i] : i \in 1 .. n} \subseteq Plane
  BY <1>2
<1>4. done \subseteq Frame(scr)
  BY <1>2, <1>3, LitInFrame
<1>5. todo = <<>> => k = n
  BY <1>2
<1> QED BY <1>2, <1>4, <1>5

CallOK(c) ==
  /\ c.kind \in {"line", "rect", "fill", "text", "circle", "disc"}
  /\ c.x \in Coord /\ c.y \in Coord
  /\ c.kind = "line" => c.tox \in Coord /\ c.toy \in Coord
  /\ c.kind \in {"rect", "fill"} => c.w \in Coord /\ c.h \in Coord
  /\ c.kind = "text" => c.n \in Nat
  /\ c.kind \in {"circle", "disc"} => c.r \in Coord

(* The shapes of a call.                                                   *)
ShapesOf(c) ==
  CASE c.kind = "line" -> <<Line(c.x, c.y, c.tox, c.toy)>>
    [] c.kind = "rect" -> RectLines(c.x, c.y, c.w, c.h)
    [] c.kind = "fill" -> <<Area(c.x, c.y, c.w, c.h)>>
    [] c.kind = "text" -> CharAreas(c.x, c.y, c.n)
    [] c.kind = "circle" -> <<Ring(c.x, c.y, c.r)>>
    [] c.kind = "disc" -> <<Disc(c.x, c.y, c.r)>>

HowMany(c) == CASE c.kind = "rect" -> 4 [] c.kind = "text" -> c.n [] OTHER -> 1

Outset(c) == IF c.kind = "circle" THEN FourPoints(c.x, c.y, c.r) ELSE {}

GfxOK(scr, c, todo, done) ==
  /\ ScreenOK(scr)
  /\ c.kind = "none" => todo = <<>> /\ done = {}
  /\ c.kind = "clear" => todo = <<>> /\ done = Frame(scr)
  /\ c.kind \notin {"none", "clear"} =>
       CallOK(c) /\ Progress(scr, HowMany(c), ShapesOf(c), todo, done)

GInv == GfxOK(screen, drawing, shapes, drawn)

(* A line as graphics_draw_line sets it up, whatever its ends.             *)
LEMMA LineIsShape ==
  ASSUME NEW i \in Int, NEW j \in Int, NEW i1 \in Int, NEW j1 \in Int
  PROVE  ShapeOK(Line(i, j, i1, j1))
<1> DEFINE e == Line(i, j, i1, j1)
<1>1. e.kind = "line" /\ e.x = Word16(i) /\ e.y = Word16(j) /\ e.tox = Word16(i1) /\ e.toy = Word16(j1)
  BY DEF Line
<1>2. EndsOK(e)
  <2> HIDE DEF e
  <2> QED BY <1>1, CutOff DEF EndsOK
<1>3. DX(e) \in Nat /\ DY(e) \in Nat
  BY <1>2, LineBegins
<1>4. e = [kind |-> "line", x |-> e.x, y |-> e.y, tox |-> e.tox, toy |-> e.toy,
           dx |-> DX(e), dy |-> DY(e), sx |-> Toward(e.x, e.tox), sy |-> Toward(e.y, e.toy),
           err |-> DX(e) - DY(e)]
  BY DEF Line, DX, DY
<1> HIDE DEF e
<1>5. /\ e.x + Toward(e.x, e.tox) * 0 = e.x /\ e.y + Toward(e.y, e.toy) * 0 = e.y
      /\ DX(e) * (0 + 1) - DY(e) * (0 + 1) = DX(e) - DY(e)
  BY <1>2, <1>3, GraphicsAssumption DEF EndsOK, Coord, Toward
<1>6. e = LineAt(e, 0, 0)
  BY <1>4, <1>5 DEF LineAt
<1>7. ShapeOK(e)
  BY <1>1, <1>2, <1>6 DEF ShapeOK
<1> QED BY <1>7 DEF e

(* The loops of graphics_fill_rect and of a character as they start.       *)
LEMMA AreaIsShape ==
  ASSUME NEW i \in Coord, NEW j \in Coord, NEW w \in Nat, NEW h \in Nat
  PROVE  ShapeOK(Area(i, j, w, h))
<1> QED BY DEF ShapeOK, Area, AreaOK, AreaAt

(* A circle and a disc as they start.                                      *)
LEMMA CircleIsShape ==
  ASSUME NEW i \in Coord, NEW j \in Coord, NEW r \in Nat
  PROVE  ShapeOK(Ring(i, j, r)) /\ ShapeOK(Disc(i, j, r))
<1>1. ShapeOK(Disc(i, j, r))
  BY DEF ShapeOK, Disc, DiscOK, DiscAt
<1> DEFINE e == Ring(i, j, r)
<1>2. e.kind = "ring" /\ e.b = r /\ e.x = i /\ e.y = j
  BY DEF Ring
<1>3. (0 + 1) * (0 + 1) + r * r - r - r * r = 1 - r /\ 2 * 0 + 1 = 1
  OBVIOUS
<1>4. e = RingAt(e, 0, e.b)
  BY <1>3 DEF Ring, RingAt
<1>5. CircleOK(e)
  BY <1>2 DEF CircleOK
<1> HIDE DEF e
<1>6. ShapeOK(e)
  BY <1>2, <1>4, <1>5 DEF ShapeOK
<1> QED BY <1>1, <1>6 DEF e

(* The shapes of each call are set up so.                                  *)
LEMMA CallShapes ==
  ASSUME NEW c, CallOK(c)
  PROVE  /\ HowMany(c) \in Nat
         /\ \E T : ShapesOf(c) \in Seq(T)
         /\ Len(ShapesOf(c)) = HowMany(c)
         /\ \A i \in 1 .. HowMany(c) : ShapeOK(ShapesOf(c)[i])
<1>1. CoordMod \in Nat /\ Coord \subseteq Nat /\ Coord \subseteq Int /\ c.x \in Coord /\ c.y \in Coord /\ c.x \in Int /\ c.y \in Int
  BY GraphicsAssumption DEF CallOK, Coord
<1>2. ASSUME NEW e, ShapesOf(c) = <<e>>, ShapeOK(e), HowMany(c) = 1
      PROVE  /\ HowMany(c) \in Nat
             /\ \E T : ShapesOf(c) \in Seq(T)
             /\ Len(ShapesOf(c)) = HowMany(c)
             /\ \A i \in 1 .. HowMany(c) : ShapeOK(ShapesOf(c)[i])
  <2>1. <<e>> \in Seq({e}) /\ Len(<<e>>) = 1 /\ <<e>>[1] = e
    OBVIOUS
  <2>2. \A i \in 1 .. 1 : i = 1
    OBVIOUS
  <2>3. ShapesOf(c) \in Seq({e}) /\ Len(ShapesOf(c)) = 1 /\ ShapesOf(c)[1] = e
    BY <1>2, <2>1
  <2>4. \A i \in 1 .. HowMany(c) : ShapeOK(ShapesOf(c)[i])
    BY <1>2, <2>2, <2>3
  <2>5. \E T : ShapesOf(c) \in Seq(T)
    BY <2>3, Zenon
  <2>6. HowMany(c) \in Nat /\ Len(ShapesOf(c)) = HowMany(c)
    BY <1>2, <2>3
  <2> QED BY <2>4, <2>5, <2>6, Zenon
<1>3. CASE c.kind = "line"
  <2>1. ShapesOf(c) = <<Line(c.x, c.y, c.tox, c.toy)>> /\ HowMany(c) = 1
    BY <1>3 DEF ShapesOf, HowMany
  <2>2. c.tox \in Int /\ c.toy \in Int
    <3>1. c.tox \in Coord /\ c.toy \in Coord
      BY <1>3 DEF CallOK
    <3> QED BY <1>1, <3>1
  <2>3. ShapeOK(Line(c.x, c.y, c.tox, c.toy))
    BY <1>1, <2>2, LineIsShape
  <2> QED BY <1>2, <2>1, <2>3
<1>4. CASE c.kind = "fill"
  <2>1. ShapesOf(c) = <<Area(c.x, c.y, c.w, c.h)>> /\ HowMany(c) = 1
    BY <1>4 DEF ShapesOf, HowMany
  <2>2. c.w \in Nat /\ c.h \in Nat
    BY <1>1, <1>4 DEF CallOK
  <2>3. ShapeOK(Area(c.x, c.y, c.w, c.h))
    BY <1>1, <2>2, AreaIsShape
  <2> QED BY <1>2, <2>1, <2>3
<1>5. CASE c.kind = "circle"
  <2>1. ShapesOf(c) = <<Ring(c.x, c.y, c.r)>> /\ HowMany(c) = 1
    BY <1>5 DEF ShapesOf, HowMany
  <2>2. c.r \in Nat
    BY <1>1, <1>5 DEF CallOK
  <2>3. ShapeOK(Ring(c.x, c.y, c.r))
    BY <1>1, <2>2, CircleIsShape
  <2> QED BY <1>2, <2>1, <2>3
<1>6. CASE c.kind = "disc"
  <2>1. ShapesOf(c) = <<Disc(c.x, c.y, c.r)>> /\ HowMany(c) = 1
    BY <1>6 DEF ShapesOf, HowMany
  <2>2. c.r \in Nat
    BY <1>1, <1>6 DEF CallOK
  <2>3. ShapeOK(Disc(c.x, c.y, c.r))
    BY <1>1, <2>2, CircleIsShape
  <2> QED BY <1>2, <2>1, <2>3
<1>7. CASE c.kind = "rect"
  <2> DEFINE x == c.x
             y == c.y
             X == x + c.w - 1
             Y == y + c.h - 1
             e1 == Line(x, y, X, y)
             e2 == Line(x, Y, X, Y)
             e3 == Line(x, y, x, Y)
             e4 == Line(X, y, X, Y)
  <2>1. ShapesOf(c) = <<e1, e2, e3, e4>> /\ HowMany(c) = 4
    BY <1>7 DEF ShapesOf, HowMany, RectLines
  <2>2. X \in Int /\ Y \in Int /\ x \in Int /\ y \in Int
    <3>1. c.w \in Coord /\ c.h \in Coord
      BY <1>7 DEF CallOK
    <3>2. c.w \in Int /\ c.h \in Int
      BY <1>1, <3>1
    <3> QED BY <1>1, <3>2
  <2> HIDE DEF x, y, X, Y
  <2>3. ShapeOK(e1) /\ ShapeOK(e2) /\ ShapeOK(e3) /\ ShapeOK(e4)
    BY <2>2, LineIsShape
  <2> HIDE DEF e1, e2, e3, e4
  <2> DEFINE all == <<e1, e2, e3, e4>>
  <2>4. all \in Seq({e1, e2, e3, e4}) /\ Len(all) = 4 /\ all[1] = e1 /\ all[2] = e2 /\ all[3] = e3 /\ all[4] = e4
    OBVIOUS
  <2>5. \A i \in 1 .. 4 : i = 1 \/ i = 2 \/ i = 3 \/ i = 4
    OBVIOUS
  <2> HIDE DEF all
  <2>6. ShapesOf(c) = all
    BY <2>1 DEF all
  <2> QED BY <2>1, <2>3, <2>4, <2>5, <2>6
<1>8. CASE c.kind = "text"
  <2>1. ShapesOf(c) = CharAreas(c.x, c.y, c.n) /\ HowMany(c) = c.n /\ c.n \in Nat
    BY <1>8 DEF ShapesOf, HowMany, CallOK
  <2>2. ASSUME NEW k \in 1 .. c.n
        PROVE  ShapeOK(Area(Word16(c.x + (k - 1) * CharWidth), c.y, CharWidth, CharHeight))
    <3>1. CharWidth \in Nat /\ CharHeight \in Nat
      BY GraphicsAssumption
    <3>2. c.x + (k - 1) * CharWidth \in Int
      BY <1>1, <2>1, <3>1
    <3>3. Word16(c.x + (k - 1) * CharWidth) \in Coord
      BY <3>2, CutOff
    <3> QED BY <1>1, <3>1, <3>3, AreaIsShape
  <2> DEFINE Cell(k) == Area(Word16(c.x + (k - 1) * CharWidth), c.y, CharWidth, CharHeight)
             all == [k \in 1 .. c.n |-> Cell(k)]
  <2>3. CharAreas(c.x, c.y, c.n) = all
    BY DEF CharAreas
  <2>4. \A k \in 1 .. c.n : ShapeOK(Cell(k))
    BY <2>2
  <2> HIDE DEF Cell
  <2>5. all \in Seq({Cell(k) : k \in 1 .. c.n}) /\ Len(all) = c.n /\ \A k \in 1 .. c.n : all[k] = Cell(k)
    BY <2>1
  <2> HIDE DEF all
  <2>6. ShapesOf(c) = all
    BY <2>1, <2>3
  <2> QED BY <2>1, <2>4, <2>5, <2>6
<1> QED BY <1>3, <1>4, <1>5, <1>6, <1>7, <1>8 DEF CallOK

(* A call begins with nothing drawn, a circle with four points.            *)
LEMMA CallBegins ==
  ASSUME NEW scr, NEW c, CallOK(c)
  PROVE  Progress(scr, HowMany(c), ShapesOf(c), ShapesOf(c), Lit(scr, Outset(c)))
<1> DEFINE n == HowMany(c)
           all == ShapesOf(c)
<1>1. n \in Nat /\ Len(all) = n /\ \A i \in 1 .. n : ShapeOK(all[i])
  BY CallShapes
<1>2. PICK T : all \in Seq(T)
  BY CallShapes
<1> HIDE DEF n, all
<1>3. Progress(scr, n, all, all, Lit(scr, UNION {StartOf(all[i]) : i \in 1 .. n}))
  BY <1>1, <1>2, DrawingBegins
<1>4. UNION {StartOf(all[i]) : i \in 1 .. n} = Outset(c)
  <2>1. CASE c.kind = "circle"
    <3> DEFINE e == Ring(c.x, c.y, c.r)
    <3>1. n = 1 /\ all = <<e>>
      BY <2>1 DEF n, all, HowMany, ShapesOf
    <3>2. e.kind = "ring" /\ e.x = c.x /\ e.y = c.y /\ e.b = c.r
      BY DEF Ring
    <3>3. CircleOK(e)
      BY <1>1, <3>1, <3>2, <2>1, GraphicsAssumption DEF CallOK, CircleOK, Coord
    <3> HIDE DEF e
    <3>4. StartOf(e) = FourPoints(c.x, c.y, c.r)
      BY <3>2, <3>3, FourAreEight DEF StartOf
    <3>5. {StartOf(all[i]) : i \in 1 .. n} = {StartOf(e)}
      <4>1. \A i \in 1 .. n : i = 1
        BY <3>1
      <4>2. 1 \in 1 .. n /\ all[1] = e
        BY <3>1
      <4> QED BY <4>1, <4>2
    <3> QED BY <2>1, <3>4, <3>5 DEF Outset
  <2>2. CASE c.kind # "circle"
    <3>1. \A i \in 1 .. n : all[i].kind # "ring"
      <4>1. CASE c.kind = "text"
        <5>1. \A i \in 1 .. n : all[i].kind = "area"
          BY <4>1 DEF n, all, HowMany, ShapesOf, CharAreas, Area
        <5> QED BY <5>1
      <4>2. CASE c.kind = "rect"
        <5>1. n = 4 /\ all = RectLines(c.x, c.y, c.w, c.h)
          BY <4>2 DEF n, all, HowMany, ShapesOf
        <5>2. all[1].kind = "line" /\ all[2].kind = "line" /\ all[3].kind = "line" /\ all[4].kind = "line"
          BY <5>1 DEF RectLines, Line
        <5>3. \A i \in 1 .. 4 : i = 1 \/ i = 2 \/ i = 3 \/ i = 4
          OBVIOUS
        <5> QED BY <5>1, <5>2, <5>3
      <4>3. CASE c.kind \in {"line", "fill", "disc"}
        <5>1. n = 1 /\ all[1].kind # "ring"
          BY <4>3 DEF n, all, HowMany, ShapesOf, Line, Area, Disc
        <5>2. \A i \in 1 .. 1 : i = 1
          OBVIOUS
        <5> QED BY <5>1, <5>2
      <4> QED BY <2>2, <4>1, <4>2, <4>3 DEF CallOK
    <3>2. \A i \in 1 .. n : StartOf(all[i]) = {}
      BY <3>1 DEF StartOf
    <3> QED BY <2>2, <3>2 DEF Outset
  <2> QED BY <2>1, <2>2
<1> QED BY <1>3, <1>4 DEF n, all

-----------------------------------------------------------------------------
(* The steps.                                                              *)

(* Nothing is drawn at first, on a screen of no size.                      *)
LEMMA GfxStarts == GfxInit => GInv
<1> SUFFICES ASSUME GfxInit PROVE GInv
  OBVIOUS
<1>1. 0 \in Coord
  BY GraphicsAssumption DEF Coord
<1>2. ScreenOK(screen)
  BY <1>1 DEF GfxInit, ScreenOK
<1>3. drawing.kind = "none" /\ shapes = <<>> /\ drawn = {}
  BY DEF GfxInit
<1> QED BY <1>2, <1>3 DEF GInv, GfxOK

(* Of the shapes a call draws, the next one and its points.                *)
LEMMA AShapeGoesOn ==
  ASSUME GInv, NEW kind, Shape(kind)
  PROVE  \E e, P :
           /\ ShapeOK(e) /\ e.kind = kind /\ Partway(e, Head(shapes), P)
           /\ \A N \in SUBSET Plane :
                /\ \A s : Partway(e, s, P \cup N) =>
                     GfxOK(screen, drawing, <<s>> \o Tail(shapes), drawn \cup Lit(screen, N))
                /\ Whole(e, P \cup N) =>
                     GfxOK(screen, drawing, Tail(shapes), drawn \cup Lit(screen, N))
<1> DEFINE n == HowMany(drawing)
           all == ShapesOf(drawing)
<1>1. shapes # <<>> /\ Head(shapes).kind = kind
  BY DEF Shape
<1>2. drawing.kind \notin {"none", "clear"}
  BY <1>1 DEF GInv, GfxOK
<1>3. ScreenOK(screen) /\ CallOK(drawing) /\ Progress(screen, n, all, shapes, drawn)
  BY <1>2 DEF GInv, GfxOK
<1>4. n \in Nat /\ \A i \in 1 .. n : ShapeOK(all[i])
  BY <1>3, CallShapes
<1> HIDE DEF n, all
<1>5. PICK i, P :
        /\ i \in 1 .. n /\ Partway(all[i], Head(shapes), P)
        /\ \A N \in SUBSET Plane :
             /\ \A s : Partway(all[i], s, P \cup N) =>
                  Progress(screen, n, all, <<s>> \o Tail(shapes), drawn \cup Lit(screen, N))
             /\ Whole(all[i], P \cup N) =>
                  Progress(screen, n, all, Tail(shapes), drawn \cup Lit(screen, N))
  BY <1>1, <1>3, <1>4, DrawingGoesOn
<1> DEFINE e == all[i]
           s0 == Head(shapes)
<1>6. ShapeOK(e) /\ Partway(e, s0, P)
  BY <1>4, <1>5
<1> HIDE DEF e, s0
<1>7. s0.kind = e.kind
  <2>1. CASE e.kind = "line"
    BY <1>6, <2>1, LineGoes DEF ShapeOK, Partway
  <2>2. CASE e.kind = "area"
    BY <1>6, <2>2, AreaGoes DEF ShapeOK, Partway
  <2>3. CASE e.kind = "ring"
    BY <1>6, <2>3, RingGoes DEF ShapeOK, Partway
  <2>4. CASE e.kind = "disc"
    BY <1>6, <2>4, DiscGoes DEF ShapeOK, Partway
  <2> QED BY <1>6, <2>1, <2>2, <2>3, <2>4 DEF ShapeOK
<1>8. \A todo, done : Progress(screen, n, all, todo, done) => GfxOK(screen, drawing, todo, done)
  BY <1>2, <1>3 DEF GfxOK, n, all
<1>9. \A N \in SUBSET Plane :
        /\ \A s : Partway(e, s, P \cup N) =>
             GfxOK(screen, drawing, <<s>> \o Tail(shapes), drawn \cup Lit(screen, N))
        /\ Whole(e, P \cup N) => GfxOK(screen, drawing, Tail(shapes), drawn \cup Lit(screen, N))
  BY <1>5, <1>8 DEF e
<1> QED BY <1>1, <1>6, <1>7, <1>9 DEF s0

(* A step that lights the points N and goes on with s, or ends the shape.  *)
LEMMA GoesKeeps ==
  ASSUME NEW s, NEW N, Goes(s), drawn' = drawn \cup Lit(screen, N),
         GfxOK(screen, drawing, <<s>> \o Tail(shapes), drawn \cup Lit(screen, N))
  PROVE  GInv'
<1> QED BY DEF Goes, GInv

(* A step that lights the points N and ends its shape.                     *)
LEMMA EndsKeeps ==
  ASSUME NEW N, Ends, drawn' = drawn \cup Lit(screen, N),
         GfxOK(screen, drawing, Tail(shapes), drawn \cup Lit(screen, N))
  PROVE  GInv'
<1> QED BY DEF Ends, GInv

(* A pair of coordinates is a point of the plane.                          *)
LEMMA CoordPlane == Coord \X Coord \subseteq Plane
<1> QED BY GraphicsAssumption DEF Coord, Plane

(* A round of the loop of graphics_draw_line.                              *)
LEMMA LineKeeps == ASSUME GInv, LineStep PROVE GInv'
<1>1. Shape("line")
  BY DEF LineStep
<1>2. PICK e, P :
        /\ ShapeOK(e) /\ e.kind = "line" /\ Partway(e, Head(shapes), P)
        /\ \A N \in SUBSET Plane :
             /\ \A s : Partway(e, s, P \cup N) =>
                  GfxOK(screen, drawing, <<s>> \o Tail(shapes), drawn \cup Lit(screen, N))
             /\ Whole(e, P \cup N) => GfxOK(screen, drawing, Tail(shapes), drawn \cup Lit(screen, N))
  BY <1>1, AShapeGoesOn
<1> DEFINE s0 == Head(shapes)
           N == {<<s0.x, s0.y>>}
<1>3. drawn' = drawn \cup Lit(screen, N) /\ IF s0.x = s0.tox /\ s0.y = s0.toy THEN Ends ELSE Goes(NextPoint(s0))
  BY PixelsAre DEF LineStep, Paint
<1>4. EndsOK(e) /\ LinePainted(e, s0, P) /\ P \subseteq Plane
  BY <1>2 DEF ShapeOK, Partway
<1> HIDE DEF s0
<1>5. /\ <<s0.x, s0.y>> \in Coord \X Coord
      /\ s0.x = s0.tox /\ s0.y = s0.toy => LineWhole(e, P \cup N)
      /\ ~(s0.x = s0.tox /\ s0.y = s0.toy) => LinePainted(e, NextPoint(s0), P \cup N)
  BY <1>4, LineGoes
<1>6. N \in SUBSET Plane /\ P \cup N \subseteq Plane
  BY <1>4, <1>5, CoordPlane
<1> HIDE DEF N
<1>7. CASE s0.x = s0.tox /\ s0.y = s0.toy
  <2>1. Whole(e, P \cup N)
    BY <1>2, <1>5, <1>6, <1>7 DEF Whole
  <2> QED BY <1>2, <1>3, <1>6, <1>7, <2>1, EndsKeeps
<1>8. CASE ~(s0.x = s0.tox /\ s0.y = s0.toy)
  <2>1. Partway(e, NextPoint(s0), P \cup N)
    BY <1>2, <1>5, <1>6, <1>8 DEF Partway
  <2> QED BY <1>2, <1>3, <1>6, <1>8, <2>1, GoesKeeps
<1> QED BY <1>7, <1>8

(* A round of the loops of graphics_fill_rect.                             *)
LEMMA AreaKeeps == ASSUME GInv, AreaStep PROVE GInv'
<1>1. Shape("area")
  BY DEF AreaStep
<1>2. PICK e, P :
        /\ ShapeOK(e) /\ e.kind = "area" /\ Partway(e, Head(shapes), P)
        /\ \A N \in SUBSET Plane :
             /\ \A s : Partway(e, s, P \cup N) =>
                  GfxOK(screen, drawing, <<s>> \o Tail(shapes), drawn \cup Lit(screen, N))
             /\ Whole(e, P \cup N) => GfxOK(screen, drawing, Tail(shapes), drawn \cup Lit(screen, N))
  BY <1>1, AShapeGoesOn
<1> DEFINE s0 == Head(shapes)
           N == {<<s0.j, s0.i>>}
           along == [s0 EXCEPT !.j = Word16(@ + 1)]
           below == [s0 EXCEPT !.i = Word16(@ + 1), !.j = s0.x]
<1>3. \/ /\ s0.i < Past(s0.y, s0.h) /\ s0.j < Past(s0.x, s0.w)
         /\ drawn' = drawn \cup Lit(screen, N) /\ Goes(along)
      \/ /\ s0.i < Past(s0.y, s0.h) /\ s0.j >= Past(s0.x, s0.w)
         /\ drawn' = drawn /\ Goes(below)
      \/ s0.i >= Past(s0.y, s0.h) /\ drawn' = drawn /\ Ends
  BY PixelsAre DEF AreaStep, Paint
<1>4. AreaOK(e) /\ AreaPainted(e, s0, P) /\ P \subseteq Plane
  BY <1>2 DEF ShapeOK, Partway
<1> HIDE DEF s0
<1>5. /\ <<s0.j, s0.i>> \in Coord \X Coord
      /\ s0.i < Past(s0.y, s0.h) /\ s0.j < Past(s0.x, s0.w) => AreaPainted(e, along, P \cup N)
      /\ s0.i < Past(s0.y, s0.h) /\ s0.j >= Past(s0.x, s0.w) => AreaPainted(e, below, P)
      /\ s0.i >= Past(s0.y, s0.h) => AreaWhole(e, P)
  BY <1>4, AreaGoes
<1>6. N \in SUBSET Plane /\ P \cup N \subseteq Plane
  BY <1>4, <1>5, CoordPlane
<1>7. {} \in SUBSET Plane /\ P \cup {} = P /\ drawn = drawn \cup Lit(screen, {})
  BY LitNothing
<1> HIDE DEF N, along, below
<1>8. CASE s0.i < Past(s0.y, s0.h) /\ s0.j < Past(s0.x, s0.w) /\ drawn' = drawn \cup Lit(screen, N) /\ Goes(along)
  <2>1. Partway(e, along, P \cup N)
    BY <1>2, <1>5, <1>6, <1>8 DEF Partway
  <2> QED BY <1>2, <1>6, <1>8, <2>1, GoesKeeps
<1>9. CASE s0.i < Past(s0.y, s0.h) /\ s0.j >= Past(s0.x, s0.w) /\ drawn' = drawn /\ Goes(below)
  <2>1. Partway(e, below, P \cup {})
    BY <1>2, <1>4, <1>5, <1>7, <1>9 DEF Partway
  <2>2. GfxOK(screen, drawing, <<below>> \o Tail(shapes), drawn \cup Lit(screen, {}))
    BY <1>2, <1>7, <2>1
  <2>3. drawn' = drawn \cup Lit(screen, {})
    BY <1>7, <1>9
  <2> QED BY <1>9, <2>2, <2>3, GoesKeeps
<1>10. CASE s0.i >= Past(s0.y, s0.h) /\ drawn' = drawn /\ Ends
  <2>1. Whole(e, P \cup {})
    BY <1>2, <1>4, <1>5, <1>7, <1>10 DEF Whole
  <2>2. GfxOK(screen, drawing, Tail(shapes), drawn \cup Lit(screen, {}))
    BY <1>2, <1>7, <2>1
  <2>3. drawn' = drawn \cup Lit(screen, {})
    BY <1>7, <1>10
  <2> QED BY <1>10, <2>2, <2>3, EndsKeeps
<1> QED BY <1>3, <1>8, <1>9, <1>10

(* A round of the loop of graphics_draw_circle.                            *)
LEMMA RingKeeps == ASSUME GInv, RingStep PROVE GInv'
<1>1. Shape("ring")
  BY DEF RingStep
<1>2. PICK e, P :
        /\ ShapeOK(e) /\ e.kind = "ring" /\ Partway(e, Head(shapes), P)
        /\ \A N \in SUBSET Plane :
             /\ \A s : Partway(e, s, P \cup N) =>
                  GfxOK(screen, drawing, <<s>> \o Tail(shapes), drawn \cup Lit(screen, N))
             /\ Whole(e, P \cup N) => GfxOK(screen, drawing, Tail(shapes), drawn \cup Lit(screen, N))
  BY <1>1, AShapeGoesOn
<1> DEFINE s0 == Head(shapes)
           next == NextRing(s0)
           N == Octants(next)
<1>3. IF s0.a < s0.b THEN drawn' = drawn \cup Lit(screen, N) /\ Goes(next) ELSE drawn' = drawn /\ Ends
  BY PixelsAre DEF RingStep, Paint, NextRing
<1>4. CircleOK(e) /\ RingPainted(e, s0, P) /\ P \subseteq Plane
  BY <1>2 DEF ShapeOK, Partway
<1> HIDE DEF s0
<1>5. /\ s0.a < s0.b => RingPainted(e, next, P \cup N) /\ N \subseteq Plane
      /\ ~(s0.a < s0.b) => RingWhole(e, P)
  BY <1>4, RingGoes
<1>7. {} \in SUBSET Plane /\ P \cup {} = P /\ drawn = drawn \cup Lit(screen, {})
  BY LitNothing
<1> HIDE DEF N, next
<1>8. CASE s0.a < s0.b
  <2>1. Partway(e, next, P \cup N) /\ N \in SUBSET Plane
    BY <1>2, <1>4, <1>5, <1>8 DEF Partway
  <2> QED BY <1>2, <1>3, <1>8, <2>1, GoesKeeps
<1>9. CASE ~(s0.a < s0.b)
  <2>1. Whole(e, P \cup {})
    BY <1>2, <1>4, <1>5, <1>7, <1>9 DEF Whole
  <2>2. GfxOK(screen, drawing, Tail(shapes), drawn \cup Lit(screen, {}))
    BY <1>2, <1>7, <2>1
  <2>3. drawn' = drawn \cup Lit(screen, {}) /\ Ends
    BY <1>3, <1>7, <1>9
  <2> QED BY <2>2, <2>3, EndsKeeps
<1> QED BY <1>8, <1>9

(* A round of the loops of graphics_fill_circle.                           *)
LEMMA DiscKeeps == ASSUME GInv, DiscStep PROVE GInv'
<1>1. Shape("disc")
  BY DEF DiscStep
<1>2. PICK e, P :
        /\ ShapeOK(e) /\ e.kind = "disc" /\ Partway(e, Head(shapes), P)
        /\ \A N \in SUBSET Plane :
             /\ \A s : Partway(e, s, P \cup N) =>
                  GfxOK(screen, drawing, <<s>> \o Tail(shapes), drawn \cup Lit(screen, N))
             /\ Whole(e, P \cup N) => GfxOK(screen, drawing, Tail(shapes), drawn \cup Lit(screen, N))
  BY <1>1, AShapeGoesOn
<1> DEFINE s0 == Head(shapes)
           next == [s0 EXCEPT !.i = @ + 1]
           N == Column(s0)
<1>3. IF s0.i > s0.r THEN drawn' = drawn /\ Ends ELSE drawn' = drawn \cup Lit(screen, N) /\ Goes(next)
  BY PixelsAre DEF DiscStep, Paint, Column
<1>4. DiscOK(e) /\ DiscPainted(e, s0, P) /\ P \subseteq Plane
  BY <1>2 DEF ShapeOK, Partway
<1> HIDE DEF s0
<1>5. /\ ~(s0.i > s0.r) => DiscPainted(e, next, P \cup N) /\ N \subseteq Plane
      /\ s0.i > s0.r => DiscWhole(e, P)
  BY <1>4, DiscGoes
<1>7. {} \in SUBSET Plane /\ P \cup {} = P /\ drawn = drawn \cup Lit(screen, {})
  BY LitNothing
<1> HIDE DEF N, next
<1>8. CASE ~(s0.i > s0.r)
  <2>1. Partway(e, next, P \cup N) /\ N \in SUBSET Plane
    BY <1>2, <1>4, <1>5, <1>8 DEF Partway
  <2> QED BY <1>2, <1>3, <1>8, <2>1, GoesKeeps
<1>9. CASE s0.i > s0.r
  <2>1. Whole(e, P \cup {})
    BY <1>2, <1>4, <1>5, <1>7, <1>9 DEF Whole
  <2>2. GfxOK(screen, drawing, Tail(shapes), drawn \cup Lit(screen, {}))
    BY <1>2, <1>7, <2>1
  <2>3. drawn' = drawn \cup Lit(screen, {}) /\ Ends
    BY <1>3, <1>7, <1>9
  <2> QED BY <2>2, <2>3, EndsKeeps
<1> QED BY <1>8, <1>9

(* A call starts with its shapes to draw.                                  *)
LEMMA DrawKeeps ==
  ASSUME GInv, NEW call, CallOK(call), Draw(call, ShapesOf(call), Lit(screen, Outset(call)))
  PROVE  GInv'
<1>1. screen' = screen /\ drawing' = call /\ shapes' = ShapesOf(call) /\ drawn' = Lit(screen, Outset(call))
  BY DEF Draw
<1>2. ScreenOK(screen)
  BY DEF GInv, GfxOK
<1>3. Progress(screen, HowMany(call), ShapesOf(call), ShapesOf(call), Lit(screen, Outset(call)))
  BY CallBegins
<1>4. call.kind \notin {"none", "clear"}
  BY DEF CallOK
<1>5. GfxOK(screen, call, ShapesOf(call), Lit(screen, Outset(call)))
  BY <1>2, <1>3, <1>4 DEF GfxOK
<1> QED BY <1>1, <1>5 DEF GInv

(* A mode is set while nothing is drawn.                                   *)
LEMMA ModeKeeps ==
  ASSUME GInv, NEW mode, ScreenOK(mode), SetMode(mode) PROVE GInv'
<1> QED BY DEF SetMode, Idle, GInv, GfxOK

(* What callers pass are coordinates.                                      *)
LEMMA CoordsAreCoord ==
  /\ Coords \subseteq Coord /\ Extents \subseteq Coord /\ ScreenOK(DefaultMode)
  /\ \A mode \in Modes : ScreenOK(mode)
  /\ 0 .. MaxText \subseteq Nat
<1>1. Coords \subseteq Coord /\ Extents \subseteq Coord
  BY GraphicsAssumption DEF Coord
<1>2. \A mode \in Modes \cup {DefaultMode} : ScreenOK(mode)
  BY GraphicsAssumption DEF Coord, ScreenOK
<1> QED BY <1>1, <1>2, GraphicsAssumption

(* Each call of the drawing functions.                                     *)
LEMMA CallsKeep ==
  ASSUME GInv, NEW x \in Coords, NEW y \in Coords
  PROVE  /\ \A x1, y1 \in Coords : DrawLine(x, y, x1, y1) => GInv'
         /\ \A w, h \in Extents : (DrawRect(x, y, w, h) => GInv') /\ (FillRect(x, y, w, h) => GInv')
         /\ \A n \in 0 .. MaxText : DrawString(x, y, n) => GInv'
         /\ \A r \in Extents : (DrawCircle(x, y, r) => GInv') /\ (FillCircle(x, y, r) => GInv')
<1>0. Lit(screen, {}) = {}
  BY LitNothing
<1>1. ASSUME NEW x1 \in Coords, NEW y1 \in Coords, DrawLine(x, y, x1, y1) PROVE GInv'
  <2> DEFINE c == [kind |-> "line", x |-> x, y |-> y, tox |-> x1, toy |-> y1]
  <2>1. CallOK(c)
    BY CoordsAreCoord DEF CallOK
  <2>2. ShapesOf(c) = <<Line(x, y, x1, y1)>> /\ Outset(c) = {}
    BY DEF ShapesOf, Outset
  <2>3. Draw(c, <<Line(x, y, x1, y1)>>, {})
    BY <1>1 DEF DrawLine
  <2> HIDE DEF c
  <2> QED BY <1>0, <2>1, <2>2, <2>3, DrawKeeps
<1>2. ASSUME NEW w \in Extents, NEW h \in Extents, DrawRect(x, y, w, h) PROVE GInv'
  <2> DEFINE c == [kind |-> "rect", x |-> x, y |-> y, w |-> w, h |-> h]
  <2>1. CallOK(c)
    BY CoordsAreCoord DEF CallOK
  <2>2. ShapesOf(c) = RectLines(x, y, w, h) /\ Outset(c) = {}
    BY DEF ShapesOf, Outset
  <2>3. Draw(c, RectLines(x, y, w, h), {})
    BY <1>2 DEF DrawRect
  <2> HIDE DEF c
  <2> QED BY <1>0, <2>1, <2>2, <2>3, DrawKeeps
<1>3. ASSUME NEW w \in Extents, NEW h \in Extents, FillRect(x, y, w, h) PROVE GInv'
  <2> DEFINE c == [kind |-> "fill", x |-> x, y |-> y, w |-> w, h |-> h]
  <2>1. CallOK(c)
    BY CoordsAreCoord DEF CallOK
  <2>2. ShapesOf(c) = <<Area(x, y, w, h)>> /\ Outset(c) = {}
    BY DEF ShapesOf, Outset
  <2>3. Draw(c, <<Area(x, y, w, h)>>, {})
    BY <1>3 DEF FillRect
  <2> HIDE DEF c
  <2> QED BY <1>0, <2>1, <2>2, <2>3, DrawKeeps
<1>4. ASSUME NEW n \in 0 .. MaxText, DrawString(x, y, n) PROVE GInv'
  <2> DEFINE c == [kind |-> "text", x |-> x, y |-> y, n |-> n]
  <2>1. CallOK(c)
    BY CoordsAreCoord DEF CallOK
  <2>2. ShapesOf(c) = CharAreas(x, y, n) /\ Outset(c) = {}
    BY DEF ShapesOf, Outset
  <2>3. Draw(c, CharAreas(x, y, n), {})
    BY <1>4 DEF DrawString
  <2> HIDE DEF c
  <2> QED BY <1>0, <2>1, <2>2, <2>3, DrawKeeps
<1>5. ASSUME NEW r \in Extents, DrawCircle(x, y, r) PROVE GInv'
  <2> DEFINE c == [kind |-> "circle", x |-> x, y |-> y, r |-> r]
  <2>1. CallOK(c)
    BY CoordsAreCoord DEF CallOK
  <2>2. ShapesOf(c) = <<Ring(x, y, r)>> /\ Outset(c) = FourPoints(x, y, r)
    BY DEF ShapesOf, Outset
  <2>3. Draw(c, <<Ring(x, y, r)>>, Lit(screen, FourPoints(x, y, r)))
    BY <1>5, PixelsAre DEF DrawCircle, FourPoints
  <2> HIDE DEF c
  <2> QED BY <2>1, <2>2, <2>3, DrawKeeps
<1>6. ASSUME NEW r \in Extents, FillCircle(x, y, r) PROVE GInv'
  <2> DEFINE c == [kind |-> "disc", x |-> x, y |-> y, r |-> r]
  <2>1. CallOK(c)
    BY CoordsAreCoord DEF CallOK
  <2>2. ShapesOf(c) = <<Disc(x, y, r)>> /\ Outset(c) = {}
    BY DEF ShapesOf, Outset
  <2>3. Draw(c, <<Disc(x, y, r)>>, {})
    BY <1>6 DEF FillCircle
  <2> HIDE DEF c
  <2> QED BY <1>0, <2>1, <2>2, <2>3, DrawKeeps
<1> QED BY <1>1, <1>2, <1>3, <1>4, <1>5, <1>6

(* So every step keeps the invariant.                                      *)
LEMMA GfxSteps == GInv /\ [GfxNext]_gfxVars => GInv'
<1> SUFFICES ASSUME GInv, [GfxNext]_gfxVars PROVE GInv'
  OBVIOUS
<1>1. CASE GraphicsInit
  BY <1>1, ModeKeeps, CoordsAreCoord DEF GraphicsInit
<1>2. CASE \E mode \in Modes : SetMode(mode)
  BY <1>2, ModeKeeps, CoordsAreCoord
<1>3. CASE Clear
  BY <1>3 DEF Clear, Draw, GInv, GfxOK, Frame
<1>4. CASE \E x, y \in Coords :
             \/ \E x1, y1 \in Coords : DrawLine(x, y, x1, y1)
             \/ \E w, h \in Extents : DrawRect(x, y, w, h) \/ FillRect(x, y, w, h)
             \/ \E n \in 0 .. MaxText : DrawString(x, y, n)
             \/ \E r \in Extents : DrawCircle(x, y, r) \/ FillCircle(x, y, r)
  BY <1>4, CallsKeep
<1>5. CASE GfxStep
  BY <1>5, LineKeeps, AreaKeeps, RingKeeps, DiscKeeps DEF GfxStep
<1>6. CASE DrawingSeen
  BY <1>6 DEF DrawingSeen, GInv, GfxOK
<1>7. CASE UNCHANGED gfxVars
  BY <1>7 DEF gfxVars, GInv
<1> QED BY <1>1, <1>2, <1>3, <1>4, <1>5, <1>6, <1>7 DEF GfxNext

(* A call of one shape has painted what the shape has.                     *)
LEMMA OneShape == ASSUME NEW W PROVE UNION {W[i] : i \in 1 .. 1} = W[1]
<1>1. \A i \in 1 .. 1 : i = 1
  OBVIOUS
<1>2. 1 \in 1 .. 1
  OBVIOUS
<1> QED BY <1>1, <1>2

(* When no shape is left the invariant says what has been drawn.           *)
LEMMA GfxShows == GInv => DrawsItsShape
<1> SUFFICES ASSUME GInv PROVE DrawsItsShape
  OBVIOUS
<1> DEFINE c == drawing
<1>1. ScreenOK(screen)
  BY DEF GInv, GfxOK
<1>2. CASE c.kind = "none"
  <2>1. drawn = {}
    BY <1>2 DEF GInv, GfxOK
  <2> QED BY <1>2, <2>1 DEF DrawsItsShape
<1>3. CASE c.kind = "clear"
  <2>1. drawn = Frame(screen)
    BY <1>3 DEF GInv, GfxOK
  <2> QED BY <1>3, <2>1 DEF DrawsItsShape, Frame
<1>4. CASE c.kind \notin {"none", "clear"}
  <2> DEFINE n == HowMany(c)
             all == ShapesOf(c)
  <2>1. CallOK(c) /\ Progress(screen, n, all, shapes, drawn)
    BY <1>4 DEF GInv, GfxOK
  <2>2. n \in Nat
    BY <2>1, CallShapes
  <2> HIDE DEF n, all
  <2>3. drawn \subseteq Frame(screen)
    BY <1>1, <2>1, <2>2, DrawingEnds
  <2> SUFFICES ASSUME shapes = <<>>, Flat(c)
               PROVE  /\ c.kind = "line" => IsLine(c)
                      /\ c.kind = "rect" => drawn = Pixels(Block(c.x, c.y, c.w, c.h)
                                                           \ Block(c.x + 1, c.y + 1, c.w - 2, c.h - 2))
                      /\ c.kind = "fill" => drawn = Pixels(Block(c.x, c.y, c.w, c.h))
                      /\ c.kind = "text" => drawn = Pixels(Block(c.x, c.y, c.n * CharWidth, CharHeight))
                      /\ c.kind = "circle" => IsRing(c)
                      /\ c.kind = "disc" => drawn = Pixels({p \in Block(0, 0, CoordMod, CoordMod) :
                                                Sq(p[1] - c.x) + Sq(p[2] - c.y) <= Sq(c.r)})
    BY <1>4, <2>1, <2>3 DEF DrawsItsShape, Frame, CallOK
  <2>4. PICK W : /\ \A i \in 1 .. n : Whole(all[i], W[i])
                 /\ drawn = Lit(screen, UNION {W[i] : i \in 1 .. n})
    BY <1>1, <2>1, <2>2, DrawingEnds
  <2>5. ASSUME n = 1 PROVE Whole(all[1], W[1]) /\ drawn = Lit(screen, W[1])
    <3>1. 1 \in 1 .. n /\ {W[i] : i \in 1 .. n} = {W[i] : i \in 1 .. 1}
      BY <2>5
    <3>2. UNION {W[i] : i \in 1 .. n} = W[1]
      BY <3>1, OneShape
    <3> QED BY <2>4, <3>1, <3>2
  <2>6. CoordMod \in Nat /\ Coord = 0 .. CoordMod - 1 /\ c.x \in Coord /\ c.y \in Coord
    BY <2>1, GraphicsAssumption DEF CallOK, Coord
  <2>7. Word16(c.x) = c.x /\ Word16(c.y) = c.y
    BY <2>6, CutOff
  <2> HIDE DEF c
  <2>8. ASSUME c.kind = "line" PROVE IsLine(c)
    <3> DEFINE e == Line(c.x, c.y, c.tox, c.toy)
    <3>1. n = 1 /\ all = <<e>>
      BY <2>8 DEF n, all, HowMany, ShapesOf
    <3>2. c.tox \in Coord /\ c.toy \in Coord
      BY <2>1, <2>8 DEF CallOK
    <3>3. Word16(c.tox) = c.tox /\ Word16(c.toy) = c.toy
      <4>1. c.tox \in Int /\ c.toy \in Int
        BY <2>6, <3>2
      <4> QED BY <3>2, <4>1, CutOff
    <3>4. e.kind = "line" /\ e.x = c.x /\ e.y = c.y /\ e.tox = c.tox /\ e.toy = c.toy
      BY <2>7, <3>3 DEF Line
    <3> HIDE DEF e
    <3>5. EndsOK(e) /\ LineWhole(e, W[1]) /\ drawn = Lit(screen, W[1])
      BY <2>5, <2>6, <3>1, <3>2, <3>4 DEF Whole, EndsOK
    <3>6. LineDrawn(screen, e, drawn)
      BY <1>1, <3>5, LineDone
    <3>7. /\ drawn \subseteq Lit(screen, {p \in Block(0, 0, screen.width, screen.height) : OnLine(e, p)})
          /\ Lit(screen, {<<c.x, c.y>>, <<c.tox, c.toy>>}) \subseteq drawn
          /\ {<<c.x, c.y>>, <<c.tox, c.toy>>} \subseteq Block(0, 0, screen.width, screen.height) =>
                Cardinality(drawn) = Larger(DX(e), DY(e)) + 1
      BY <3>4, <3>6 DEF LineDrawn
    <3>8. DX(e) = Dist(c.x, c.tox) /\ DY(e) = Dist(c.y, c.toy)
      BY <3>4 DEF DX, DY
    <3>9. \A p : OnLine(e, p) <=>
             /\ Dist(c.x, p[1]) + Dist(p[1], c.tox) = Dist(c.x, c.tox)
             /\ Dist(c.y, p[2]) + Dist(p[2], c.toy) = Dist(c.y, c.toy)
             /\ 2 * Dist(Dist(c.x, c.tox) * Dist(c.y, p[2]), Dist(c.y, c.toy) * Dist(c.x, p[1]))
                  <= Larger(Dist(c.x, c.tox), Dist(c.y, c.toy))
      BY <3>4, <3>8 DEF OnLine
    <3>10. {p \in Block(0, 0, screen.width, screen.height) : OnLine(e, p)}
             = {p \in Block(0, 0, screen.width, screen.height) :
                  /\ Dist(c.x, p[1]) + Dist(p[1], c.tox) = Dist(c.x, c.tox)
                  /\ Dist(c.y, p[2]) + Dist(p[2], c.toy) = Dist(c.y, c.toy)
                  /\ 2 * Dist(Dist(c.x, c.tox) * Dist(c.y, p[2]), Dist(c.y, c.toy) * Dist(c.x, p[1]))
                       <= Larger(Dist(c.x, c.tox), Dist(c.y, c.toy))}
      BY <3>9
    <3> QED BY <3>7, <3>8, <3>10, PixelsAre DEF IsLine
  <2>9. ASSUME c.kind = "rect"
        PROVE  drawn = Pixels(Block(c.x, c.y, c.w, c.h) \ Block(c.x + 1, c.y + 1, c.w - 2, c.h - 2))
    <3>1. n = 4 /\ all = RectLines(c.x, c.y, c.w, c.h)
      BY <2>9 DEF n, all, HowMany, ShapesOf
    <3>2. c.w > 0 /\ c.h > 0 /\ c.x + c.w <= CoordMod /\ c.y + c.h <= CoordMod
      BY <2>9 DEF Flat
    <3>3. c.w \in Nat \ {0} /\ c.h \in Nat \ {0}
      <4>1. c.w \in Coord /\ c.h \in Coord
        BY <2>1, <2>9 DEF CallOK
      <4> QED BY <2>6, <3>2, <4>1
    <3>4. \A i \in 1 .. 4 : LineWhole(all[i], W[i])
      <4>1. all[1].kind = "line" /\ all[2].kind = "line" /\ all[3].kind = "line" /\ all[4].kind = "line"
        BY <3>1 DEF RectLines, Line
      <4>2. \A i \in 1 .. 4 : i = 1 \/ i = 2 \/ i = 3 \/ i = 4
        OBVIOUS
      <4> QED BY <2>4, <3>1, <4>1, <4>2 DEF Whole
    <3>5. W[1] \cup W[2] \cup W[3] \cup W[4] = Block(c.x, c.y, c.w, c.h) \ Block(c.x + 1, c.y + 1, c.w - 2, c.h - 2)
      <4> DEFINE x == c.x
                 y == c.y
                 w == c.w
                 h == c.h
      <4>1. \A i \in 1 .. 4 : LineWhole(RectLines(x, y, w, h)[i], W[i])
        BY <3>1, <3>4
      <4>2. x \in Coord /\ y \in Coord /\ w \in Nat \ {0} /\ h \in Nat \ {0} /\ x + w <= CoordMod /\ y + h <= CoordMod
        BY <2>6, <3>2, <3>3
      <4> HIDE DEF x, y, w, h
      <4>3. W[1] \cup W[2] \cup W[3] \cup W[4] = Block(x, y, w, h) \ Block(x + 1, y + 1, w - 2, h - 2)
        BY <4>1, <4>2, RectDone
      <4> QED BY <4>3 DEF x, y, w, h
    <3>6. UNION {W[i] : i \in 1 .. 4} = W[1] \cup W[2] \cup W[3] \cup W[4]
      <4>1. \A i \in 1 .. 4 : i = 1 \/ i = 2 \/ i = 3 \/ i = 4
        OBVIOUS
      <4>2. 1 \in 1 .. 4 /\ 2 \in 1 .. 4 /\ 3 \in 1 .. 4 /\ 4 \in 1 .. 4
        OBVIOUS
      <4> QED BY <4>1, <4>2
    <3> QED BY <2>4, <3>1, <3>5, <3>6, PixelsAre
  <2>10. ASSUME c.kind = "fill" PROVE drawn = Pixels(Block(c.x, c.y, c.w, c.h))
    <3> DEFINE e == Area(c.x, c.y, c.w, c.h)
    <3>1. n = 1 /\ all = <<e>>
      BY <2>10 DEF n, all, HowMany, ShapesOf
    <3>2. e.kind = "area" /\ e.x = c.x /\ e.y = c.y /\ e.w = c.w /\ e.h = c.h
      BY DEF Area
    <3> HIDE DEF e
    <3>3. W[1] = Block(c.x, c.y, c.w, c.h) /\ drawn = Lit(screen, W[1])
      BY <2>5, <3>1, <3>2 DEF Whole, AreaWhole
    <3> QED BY <3>3, PixelsAre
  <2>11. ASSUME c.kind = "text" PROVE drawn = Pixels(Block(c.x, c.y, c.n * CharWidth, CharHeight))
    <3>1. n = c.n /\ all = CharAreas(c.x, c.y, c.n) /\ c.x + c.n * CharWidth < CoordMod
      BY <2>11 DEF n, all, HowMany, ShapesOf, Flat
    <3>2. \A i \in 1 .. n : AreaWhole(all[i], W[i])
      <4>1. \A i \in 1 .. n : all[i].kind = "area"
        BY <3>1 DEF CharAreas, Area
      <4> QED BY <2>4, <4>1 DEF Whole
    <3>3. UNION {W[i] : i \in 1 .. n} = Block(c.x, c.y, c.n * CharWidth, CharHeight)
      <4> DEFINE x == c.x
                 y == c.y
                 m == c.n
      <4>1. \A i \in 1 .. m : AreaWhole(CharAreas(x, y, m)[i], W[i])
        BY <3>1, <3>2
      <4>2. x \in Coord /\ y \in Coord /\ m \in Nat /\ x + m * CharWidth < CoordMod
        BY <2>2, <2>6, <3>1
      <4> HIDE DEF x, y, m
      <4>3. UNION {W[i] : i \in 1 .. m} = Block(x, y, m * CharWidth, CharHeight)
        BY <4>1, <4>2, TextDone
      <4> QED BY <3>1, <4>3 DEF x, y, m
    <3> QED BY <2>4, <3>3, PixelsAre
  <2>12. ASSUME c.kind = "circle" PROVE IsRing(c)
    <3> DEFINE e == Ring(c.x, c.y, c.r)
    <3>1. n = 1 /\ all = <<e>>
      BY <2>12 DEF n, all, HowMany, ShapesOf
    <3>2. e.kind = "ring" /\ e.x = c.x /\ e.y = c.y /\ e.b = c.r
      BY DEF Ring
    <3> HIDE DEF e
    <3>3. CircleOK(e)
      <4>1. c.r \in Coord
        BY <2>1, <2>12 DEF CallOK
      <4>2. c.r \in Nat
        BY <2>6, <4>1
      <4> QED BY <2>6, <3>2, <4>2 DEF CircleOK
    <3>4. {e.x - e.b, e.x + e.b, e.y - e.b, e.y + e.b} \subseteq Coord
      BY <2>6, <2>12, <3>2 DEF Flat
    <3>5. RingWhole(e, W[1]) /\ drawn = Lit(screen, W[1])
      BY <2>5, <3>1, <3>2 DEF Whole
    <3>6. RingDrawn(screen, c.x, c.y, c.r, drawn)
      BY <3>2, <3>3, <3>4, <3>5, RingDone
    <3>7. \A p : Pixels({p}) = Lit(screen, {p})
      BY PixelsAre
    <3> QED BY <3>6, <3>7, PixelsAre DEF IsRing, RingDrawn, RingPoints
  <2>13. ASSUME c.kind = "disc"
         PROVE  drawn = Pixels({p \in Block(0, 0, CoordMod, CoordMod) :
                                  Sq(p[1] - c.x) + Sq(p[2] - c.y) <= Sq(c.r)})
    <3> DEFINE e == Disc(c.x, c.y, c.r)
    <3>1. n = 1 /\ all = <<e>>
      BY <2>13 DEF n, all, HowMany, ShapesOf
    <3>2. e.kind = "disc" /\ e.x = c.x /\ e.y = c.y /\ e.r = c.r
      BY DEF Disc
    <3> HIDE DEF e
    <3>3. DiscOK(e)
      <4>1. c.r \in Coord
        BY <2>1, <2>13 DEF CallOK
      <4>2. c.r \in Nat
        BY <2>6, <4>1
      <4> QED BY <2>6, <3>2, <4>2 DEF DiscOK
    <3>4. {e.x - e.r, e.x + e.r, e.y - e.r, e.y + e.r} \subseteq Coord
      BY <2>6, <2>13, <3>2 DEF Flat
    <3>5. DiscWhole(e, W[1]) /\ drawn = Lit(screen, W[1])
      BY <2>5, <3>1, <3>2 DEF Whole
    <3>6. W[1] = {p \in Block(0, 0, CoordMod, CoordMod) : Sq(p[1] - e.x) + Sq(p[2] - e.y) <= Sq(e.r)}
      BY <3>3, <3>4, <3>5, DiscDone
    <3> QED BY <3>2, <3>5, <3>6, PixelsAre
  <2> QED BY <2>8, <2>9, <2>10, <2>11, <2>12, <2>13
<1> QED BY <1>2, <1>3, <1>4

(* For any width of a coordinate, any modes and any arguments: a drawing   *)
(* call of kernel/graphics.c that has returned has drawn its shape,        *)
(* clipped to the screen, and no other pixel, unless a coordinate wrapped  *)
(* on the way; and in a mode of four bytes a pixel none of it lies outside *)
(* the frame.                                                              *)
THEOREM DrawsItsShapeAlways == GfxSpec => []DrawsItsShape
<1> QED BY GfxStarts, GfxSteps, GfxShows, PTL DEF GfxSpec
=============================================================================
