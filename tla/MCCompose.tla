----------------------------- MODULE MCCompose -----------------------------
(* An instance of Compose for TLC: two surfaces that overlap, an opaque and  *)
(* a translucent buffer, one output of 2 x 2 and one with padded lines.      *)
EXTENDS Compose

P(a, r, b) == [a |-> a, r |-> r, b |-> b]
Grid == (0 .. 1) \X (0 .. 1)

Opaque == [id |-> 1, w |-> 2, h |-> 1, fmt |-> "xrgb"]
Translucent == [id |-> 2, w |-> 1, h |-> 2, fmt |-> "argb"]
MCBuffers == {Opaque, Translucent}
MCFirst == [c \in Grid |-> P(128, 100, 7)]
MCPatterns ==
    {None, MCFirst, [c \in Grid |-> IF c = <<0, 0>> THEN P(0, 0, 0) ELSE P(10, 90, 0)]}

Damage(x, y, w, h) == [x |-> x, y |-> y, w |-> w, h |-> h]
Request(s, b, x, y, D) == [surface |-> s, buf |-> b, x |-> x, y |-> y, damage |-> D]
MCRequests ==
    {Request(1, Opaque, 0, 0, {Damage(0, 0, 1, 1), Damage(0, 0, 2, 2)}),
     Request(1, Opaque, -1, 1, {Damage(1, 0, 3, 3)}),
     Request(1, Opaque, 0, 0, {Damage(0, 0, 8, 9)}),
     Request(2, Translucent, 1, 0, {}),
     Request(2, Translucent, 1, 0, {Damage(0, 1, 1, 1)})}

Geometry(x, y, w, h, pitch) == [x |-> x, y |-> y, w |-> w, h |-> h, pitch |-> pitch]
MCGeometries == {Geometry(0, 0, 2, 2, 2), Geometry(1, 0, 1, 2, 2)}
=============================================================================
