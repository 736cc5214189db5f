--------------------------- MODULE CompositorScene ---------------------------
(***************************************************************************)
(* What the compositor shows, and what it repaints: the stack of surfaces, *)
(* the cursor, the output damage that commits, moves, raises, cursor steps *)
(* and destroys leave behind, and the frame that repaints only the damage  *)
(* (moo_compositor_core.c over moo_compositor_raster.c).                   *)
(*                                                                         *)
(* Handles, owners, reference counts, tokens and events are the subject of *)
(* CompositorCore and left out here.  A buffer is the picture in it; its   *)
(* pixels are paints of which the model knows whether they are invisible,  *)
(* translucent or opaque.  Boxes are half open, as in moo_comp_damage_i64. *)
(***************************************************************************)
EXTENDS Integers, Sequences

CONSTANTS
  SurfaceCapacity,        (* how many surface slots there are              *)
  Width, Height,          (* output_width, output_height                   *)
  Picture,                (* what buffers may hold                         *)
  Styles,                 (* pairs of a scale and an opacity; 255 is full  *)
  Position,               (* where surfaces are put                        *)
  CursorPosition,         (* where the pointer goes                        *)
  CursorPicture,          (* what cursors look like                        *)
  DamageRequests,         (* the damage a client may declare for a commit  *)
  OutputDamageCapacity,   (* MOO_COMP_OUTPUT_DAMAGE_CAPACITY               *)
  SurfaceDamageCapacity   (* MOO_COMP_SURFACE_DAMAGE_CAPACITY              *)

MaxInt == 2147483647   \* INT32_MAX

Solid == {"red", "blue"}
Paint == Solid \cup {"sheer", "clear"}

Cells(w, h) == (0 .. w - 1) \X (0 .. h - 1)
Pixel == Cells(Width, Height)

Unknown == <<"unknown">>

NoPicture == [width |-> 0, height |-> 0, paint |-> <<>>]

Rect == [x0 : Int, y0 : Int, x1 : Int, y1 : Int]

ASSUME SceneAssumption ==
  /\ {SurfaceCapacity, Width, Height, OutputDamageCapacity,
      SurfaceDamageCapacity} \subseteq Nat \ {0}
  /\ Styles \subseteq (Nat \ {0}) \X (0 .. 255)
  /\ Position \cup CursorPosition \subseteq Int \X Int
  /\ DamageRequests \subseteq Seq(Rect)
  /\ \A picture \in Picture \cup CursorPicture :
       /\ {picture.width, picture.height} \subseteq 1 .. MaxInt
       /\ picture.paint \in [Cells(picture.width, picture.height) -> Paint]

VARIABLES
  surfaces,   (* position and committed state of every slot                *)
  live,       (* the surfaces in use                                       *)
  stack,      (* the pairs of live surfaces of which the second has the    *)
              (* greater z_sequence                                        *)
  cursor,
  damage,     (* output_damage                                             *)
  screen      (* what is drawn at every pixel of the output; unknown where *)
              (* there is damage, as it is drawn again from nothing        *)

vars == <<surfaces, live, stack, cursor, damage, screen>>

Blank == [x |-> 0, y |-> 0, picture |-> NoPicture, scale |-> 1,
          opacity |-> 255, opaque |-> FALSE]

Surface == 1 .. SurfaceCapacity

Init ==
  /\ surfaces = [s \in Surface |-> Blank]
  /\ live = {}
  /\ stack = {}
  /\ cursor = [visible |-> FALSE, x |-> 0, y |-> 0, hotspot |-> <<0, 0>>,
               picture |-> NoPicture, scale |-> 1]
  /\ damage = << [x0 |-> 0, y0 |-> 0, x1 |-> Width, y1 |-> Height] >>
  /\ screen = [p \in Pixel |-> Unknown]

-----------------------------------------------------------------------------
(* Boxes.                                                                  *)

Lesser(a, b)  == IF a < b THEN a ELSE b
Greater(a, b) == IF a > b THEN a ELSE b

Box(x, y, w, h) == [x0 |-> x, y0 |-> y, x1 |-> x + w, y1 |-> y + h]

NoBox == Box(0, 0, 0, 0)

IsEmpty(box) == box.x1 <= box.x0 \/ box.y1 <= box.y0

Inside(x, y, box) ==
  box.x0 <= x /\ x < box.x1 /\ box.y0 <= y /\ y < box.y1

Area(box) == {p \in Pixel : Inside(p[1], p[2], box)}

Clip(box, w, h) ==
  [x0 |-> Greater(box.x0, 0), y0 |-> Greater(box.y0, 0),
   x1 |-> Lesser(box.x1, w),  y1 |-> Lesser(box.y1, h)]

Least(N)    == CHOOSE n \in N : \A m \in N : n <= m
Greatest(N) == CHOOSE n \in N : \A m \in N : m <= n

Hull(B) ==
  [x0 |-> Least({b.x0 : b \in B}),    y0 |-> Least({b.y0 : b \in B}),
   x1 |-> Greatest({b.x1 : b \in B}), y1 |-> Greatest({b.y1 : b \in B})]

LogicalBox(x, y, picture, scale) ==
  Box(x, y, picture.width \div scale, picture.height \div scale)

Bounds(s) ==
  LogicalBox(surfaces[s].x, surfaces[s].y, surfaces[s].picture,
             surfaces[s].scale)

CursorBox ==
  LogicalBox(cursor.x - cursor.hotspot[1], cursor.y - cursor.hotspot[2],
             cursor.picture, cursor.scale)

\* Seeded fault: an overflowing list forgets what it held.
DamagedForgetting(list, box) ==
  LET clipped == Clip(box, Width, Height) IN
  IF IsEmpty(clipped) THEN list
  ELSE IF Len(list) < OutputDamageCapacity THEN Append(list, clipped)
  ELSE <<clipped>>

\* moo_comp_damage_i64: a list that is full becomes one box around it all.
Damaged(list, box) ==
  LET clipped == Clip(box, Width, Height) IN
  IF IsEmpty(clipped) THEN list
  ELSE IF Len(list) < OutputDamageCapacity THEN Append(list, clipped)
  ELSE <<Hull({clipped} \cup {list[i] : i \in DOMAIN list})>>

Damage == UNION {Area(damage[i]) : i \in DOMAIN damage}

\* One box after the other; an empty one adds nothing.
DamagedAll(boxes) ==
  LET after[i \in 0 .. Len(boxes)] ==
        IF i = 0 THEN damage ELSE Damaged(after[i - 1], boxes[i])
  IN after[Len(boxes)]

-----------------------------------------------------------------------------
(* The raster.                                                             *)

Divides(scale, picture) ==
  picture.width % scale = 0 /\ picture.height % scale = 0

\* The one sample of each scale by scale block that is drawn.
Samples(picture, scale) ==
  {picture.paint[<<scale * q[1], scale * q[2]>>] :
     q \in Cells(picture.width \div scale, picture.height \div scale)}

\* Seeded fault: the opacity of the surface is not looked at.
OpaqueByPixels(picture, scale, opacity) ==
  picture # NoPicture /\ Samples(picture, scale) \subseteq Solid

\* moo_comp_view_effectively_opaque
EffectivelyOpaque(picture, scale, opacity) ==
  /\ picture # NoPicture /\ opacity = 255
  /\ Samples(picture, scale) \subseteq Solid

\* What one layer leaves at pixel p; the cursor is layer 0.
Ink(who, box, picture, scale, opacity, p) ==
  [who |-> who, opacity |-> opacity,
   paint |-> IF Inside(p[1], p[2], box)
               THEN picture.paint[<<scale * (p[1] - box.x0),
                                    scale * (p[2] - box.y0)>>]
               ELSE "clear"]

SurfaceInk(s, p) ==
  Ink(s, Bounds(s), surfaces[s].picture, surfaces[s].scale,
      surfaces[s].opacity, p)

CursorInk(p) == Ink(0, CursorBox, cursor.picture, cursor.scale, 255, p)

Seen(ink)  == ink.paint # "clear" /\ ink.opacity # 0
Hides(ink) == ink.paint \in Solid /\ ink.opacity = 255

Above(s) == {t \in live : <<s, t>> \in stack}

Layer == live \cup {0}

Over(layer) == IF layer = 0 THEN {} ELSE Above(layer) \cup {0}

LayerInk(layer, p) == IF layer = 0 THEN CursorInk(p) ELSE SurfaceInk(layer, p)

\* The layers that are seen at pixel p: an ink that hides is all there is,
\* another one adds to what is below it.
Visible(p) ==
  {layer \in Layer : /\ Seen(LayerInk(layer, p))
                     /\ \A upper \in Over(layer) : ~Hides(LayerInk(upper, p))}

\* moo_comp_draw_surfaces and moo_comp_draw_cursor at one pixel: the inks it
\* shows over the background, and which of them is over which.
Shown(p) ==
  << {LayerInk(layer, p) : layer \in Visible(p)},
     {pair \in Visible(p) \X Visible(p) : pair[2] \in Over(pair[1])} >>

-----------------------------------------------------------------------------
(* Coverage.                                                               *)

\* The boxes that may hide what is below: validated surfaces and the cursor.
Covers(s) ==
  {Bounds(t) : t \in {t \in Above(s) : surfaces[t].opaque}}
    \cup (IF cursor.visible
               /\ EffectivelyOpaque(cursor.picture, cursor.scale, 255)
            THEN {CursorBox} ELSE {})

\* How far the covers of s at (x, y) reach to the right.
Reach(s, x, y) ==
  LET rights == {x} \cup {b.x1 : b \in {b \in Covers(s) : Inside(x, y, b)}}
  IN Greatest(rights)

\* One row of moo_comp_region_fully_covered, from x0 on.
RowCovered(s, x0, x1, y) ==
  LET scan[x \in x0 .. x1] ==
        \/ x = x1
        \/ LET best == Lesser(Reach(s, x, y), x1) IN best > x /\ scan[best]
  IN scan[x0]

RegionCovered(s, box) ==
  LET clipped == Clip(box, Width, Height) IN
  /\ ~IsEmpty(clipped)
  /\ \A y \in clipped.y0 .. clipped.y1 - 1 :
       RowCovered(s, clipped.x0, clipped.x1, y)

-----------------------------------------------------------------------------
(* Operations of the display and the clients.                              *)

SurfaceCreate(s) ==
  /\ s \notin live /\ 1 .. s - 1 \subseteq live
  /\ surfaces' = [surfaces EXCEPT ![s] = Blank]
  /\ live' = live \cup {s}
  /\ stack' = stack \cup (live \X {s})
  /\ UNCHANGED <<cursor, damage>>

SetPosition(s, at) ==
  /\ s \in live
  /\ surfaces' = [surfaces EXCEPT ![s].x = at[1], ![s].y = at[2]]
  /\ damage' = DamagedAll(<<Bounds(s), Bounds(s)'>>)
  /\ UNCHANGED <<live, stack, cursor>>

Raise(s) ==
  /\ s \in live
  /\ stack' = {pair \in stack : pair[1] # s} \cup ((live \ {s}) \X {s})
  /\ damage' = DamagedAll(<<Bounds(s)>>)
  /\ UNCHANGED <<surfaces, live, cursor>>

\* moo_comp_surface_damage, once for each declared box: a list that is full
\* becomes the whole buffer.
PendingDamage(declared) ==
  LET all == Box(0, 0, MaxInt, MaxInt)
      list[i \in 0 .. Len(declared)] ==
        IF i = 0 THEN <<>>
        ELSE IF Len(list[i - 1]) = SurfaceDamageCapacity THEN <<all>>
        ELSE Append(list[i - 1], declared[i])
  IN list[Len(declared)]

\* moo_comp_damage_buffer_rect: a box in the buffer, rounded outwards to the
\* pixels of the output.
OutputBox(s, picture, scale, box) ==
  LET in == Clip(box, picture.width, picture.height) IN
  [x0 |-> surfaces[s].x + (in.x0 \div scale),
   y0 |-> surfaces[s].y + (in.y0 \div scale),
   x1 |-> surfaces[s].x + ((in.x1 + scale - 1) \div scale),
   y1 |-> surfaces[s].y + ((in.y1 + scale - 1) \div scale)]

\* The boxes of the output that are damaged, but for those that are covered.
Uncovered(s, picture, scale, pending) ==
  [i \in DOMAIN pending |->
     LET box == OutputBox(s, picture, scale, pending[i]) IN
     IF \/ IsEmpty(Clip(pending[i], picture.width, picture.height))
        \/ RegionCovered(s, box)
       THEN NoBox ELSE box]

GeometryChanged(s, picture, scale, opacity) ==
  LET size(p, k) == <<p.width \div k, p.height \div k>> IN
  \/ size(surfaces[s].picture, surfaces[s].scale) # size(picture, scale)
  \/ scale # surfaces[s].scale
  \/ opacity # surfaces[s].opacity

\* What a client owes the compositor: every pixel of the buffer that differs
\* from what the surface shows is in the damage it declares, or it attaches
\* another buffer and declares none.
Honest(s, picture, flip, declared) ==
  \/ flip /\ declared = <<>>
  \/ \A q \in Cells(picture.width, picture.height) :
       \/ picture.paint[q] = surfaces[s].picture.paint[q]
       \/ \E i \in DOMAIN declared : Inside(q[1], q[2], declared[i])

\* moo_comp_surface_commit, with flip when another buffer is attached.
SurfaceCommit(s, picture, scale, opacity, flip, declared) ==
  LET old      == Bounds(s)
      new      == LogicalBox(surfaces[s].x, surfaces[s].y, picture, scale)
      pending  == PendingDamage(declared)
      geometry == GeometryChanged(s, picture, scale, opacity)
  IN
  /\ s \in live
  /\ Divides(scale, picture)
  /\ ~geometry => Honest(s, picture, flip, declared)
  /\ surfaces' = [surfaces EXCEPT
       ![s].picture = picture, ![s].scale = scale, ![s].opacity = opacity,
       ![s].opaque = EffectivelyOpaque(picture, scale, opacity)]
  /\ damage' = DamagedAll(
       IF geometry THEN <<old, new>>
       ELSE IF pending # <<>> /\ picture # NoPicture
         THEN Uncovered(s, picture, scale, pending)
       ELSE IF flip THEN <<new>>
       ELSE <<>>)
  /\ UNCHANGED <<live, stack, cursor>>

\* moo_comp_surface_destroy for one surface, moo_comp_client_disconnect for
\* all of a client.
SurfacesDestroyed(D) ==
  /\ surfaces' = [s \in Surface |-> IF s \in D THEN Blank ELSE surfaces[s]]
  /\ live' = live \ D
  /\ stack' = {pair \in stack : pair[1] \notin D /\ pair[2] \notin D}

CursorShown == IF cursor.visible THEN CursorBox ELSE NoBox

CursorGone ==
  cursor' = [cursor EXCEPT !.visible = FALSE, !.picture = NoPicture]

SurfaceDestroy(s) ==
  /\ s \in live
  /\ SurfacesDestroyed({s})
  /\ damage' = DamagedAll(<<Bounds(s)>>)
  /\ UNCHANGED cursor

\* The cursor goes with the client that has the pointer focus.
ClientDisconnect(D, focus) ==
  /\ D \subseteq live
  /\ SurfacesDestroyed(D)
  /\ IF focus THEN CursorGone ELSE UNCHANGED cursor
  /\ damage' = DamagedAll([i \in 1 .. SurfaceCapacity + 1 |->
                 IF i = 1 THEN IF focus THEN CursorShown ELSE NoBox
                 ELSE IF i - 1 \in D THEN Bounds(i - 1) ELSE NoBox])

\* moo_comp_cursor_hide, and moo_comp_pointer_focus with another client
CursorHide ==
  /\ cursor.visible
  /\ CursorGone
  /\ damage' = DamagedAll(<<CursorShown>>)
  /\ UNCHANGED <<surfaces, live, stack>>

CursorSetBuffer(picture, scale, hotspot) ==
  /\ Divides(scale, picture)
  /\ hotspot \in Cells(picture.width \div scale, picture.height \div scale)
  /\ cursor' = [cursor EXCEPT !.visible = TRUE, !.picture = picture,
                              !.scale = scale, !.hotspot = hotspot]
  /\ damage' = DamagedAll(<<CursorShown, CursorShown'>>)
  /\ UNCHANGED <<surfaces, live, stack>>

PointerPosition(at) ==
  /\ cursor' = [cursor EXCEPT !.x = at[1], !.y = at[2]]
  /\ damage' = DamagedAll(<<CursorShown, CursorShown'>>)
  /\ UNCHANGED <<surfaces, live, stack>>

\* Every damage box is cleared and drawn again, back to front.
BuildFrame ==
  /\ screen' = [p \in Pixel |->
                  IF p \in Damage THEN Shown(p) ELSE screen[p]]
  /\ damage' = <<>>
  /\ UNCHANGED <<surfaces, live, stack, cursor>>

SceneStep ==
  \/ \E s \in Surface :
       \/ SurfaceCreate(s) \/ Raise(s) \/ SurfaceDestroy(s)
       \/ \E at \in Position : SetPosition(s, at)
       \/ \E picture \in Picture, style \in Styles, flip \in BOOLEAN,
            declared \in DamageRequests :
            SurfaceCommit(s, picture, style[1], style[2], flip, declared)
       \/ \E style \in Styles \cup {<<surfaces[s].scale, surfaces[s].opacity>>},
            declared \in DamageRequests :
            SurfaceCommit(s, NoPicture, style[1], style[2], TRUE, declared)
  \/ \E D \in SUBSET Surface, focus \in BOOLEAN : ClientDisconnect(D, focus)
  \/ CursorHide
  \/ \E picture \in CursorPicture, style \in Styles :
       \E hotspot \in Cells(picture.width, picture.height) :
         CursorSetBuffer(picture, style[1], hotspot)
  \/ \E at \in CursorPosition : PointerPosition(at)

Next ==
  \/ /\ SceneStep
     /\ screen' = [p \in Pixel |->
                     IF p \in Damage' THEN Unknown ELSE screen[p]]
  \/ BuildFrame

Spec == Init /\ [][Next]_vars

-----------------------------------------------------------------------------
(* Properties.                                                             *)

\* Outside the damage the screen shows what drawing everything again would
\* show: every change by a commit, move, raise, map or unmap and cursor step
\* is in the damage (docs/ui_moo-compositor.md:29) and repainted by the next
\* frame, although damage is merged when the list is full, rounded by the
\* scale, and dropped where opaque content above is believed to hide it.
ScreenIsCurrent == \A p \in Pixel \ Damage : screen[p] = Shown(p)

\* Coverage is exact (docs/ui_moo-compositor.md:30): of a surface that is
\* reported OCCLUDED because of what is above it no pixel is seen, and the
\* row scan finds a cover wherever every pixel of its box is under one.
CoverageExact ==
  \A s \in live :
    LET area == Area(Bounds(s)) IN
    /\ RegionCovered(s, Bounds(s)) => \A p \in area : s \notin Visible(p)
    /\ area # {} /\ (\A p \in area : \E b \in Covers(s) :
                       Inside(p[1], p[2], b))
         => RegionCovered(s, Bounds(s))
=============================================================================
