-------------------------- MODULE MCCompositorScene --------------------------
(* Instances of CompositorScene for TLC: buffers of two by two pixels and a *)
(* cursor of two by one on an output of two by two.                         *)
EXTENDS CompositorScene

Plain(w, h, paint) ==
  [width |-> w, height |-> h, paint |-> [q \in Cells(w, h) |-> paint]]

Spotted(picture, at, paint) == [picture EXCEPT !.paint[at] = paint]

Pictures ==
  {Plain(2, 2, "red"), Spotted(Plain(2, 2, "red"), <<0, 0>>, "sheer")}

Cursors == {Plain(2, 1, "blue")}

Corners == {<<0, 0>>, <<1, 0>>}

Tips == {<<0, 0>>, <<1, 1>>}

ScaleAndOpacity == {<<1, 255>>, <<1, 128>>, <<2, 255>>}

Declared ==
  {<<>>, <<Box(0, 0, 1, 1)>>, <<Box(1, 1, 1, 1), Box(0, 0, 1, 1)>>}
=============================================================================
