------------------------------- MODULE MCPrompts -------------------------------
(* Small instances of Prompts for TLC.                                     *)
EXTENDS Prompts

CONSTANTS p1, p2, p3, a1, a2, a3, h1, h2

ThreePrompts == {p1, p2, p3}
ThreeSlots   == {a1, a2, a3}
TwoThreads   == {h1, h2}
=============================================================================
