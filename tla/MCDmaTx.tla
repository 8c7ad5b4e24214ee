------------------------------- MODULE MCDmaTx -------------------------------
(* DmaTx with short buffers and a cycle counter that wraps at once. *)
EXTENDS DmaTx

CONSTANTS p1, p2, a, b

OnePort == {p1}
TwoPorts == {p1, p2}
Frames == {a, b}
OneFrame == {a}
==============================================================================
