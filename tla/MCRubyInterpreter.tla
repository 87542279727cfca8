-------------------------- MODULE MCRubyInterpreter --------------------------
(* Small instances of RubyInterpreter for TLC.                             *)
EXTENDS RubyInterpreterInductive

CONSTANTS c1, c2, c3, s1, s2, s3, h1, h2

OneClient    == {c1}
TwoClients   == {c1, c2}
ThreeClients == {c1, c2, c3}
OneStackWork == {s1}
TwoStackWorks == {s1, s2}
ThreeStackWorks == {s1, s2, s3}
OneHeapWork  == {h1}
TwoHeapWorks == {h1, h2}
=============================================================================
