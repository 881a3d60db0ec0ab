---------------------------- MODULE MCOtaUpdate ----------------------------
EXTENDS OtaUpdate

CONSTANTS a, b, bad, cut  \* a short sketch, a linked one, a wrong header, a cut file

MCImageLen == [m \in Image |-> CASE m = a -> 3 [] m = b -> 6 [] m = cut -> 6 [] OTHER -> 2]
MCFileLen  == [m \in Image |-> CASE m = a -> 3 [] m = b -> 6 [] m = cut -> 4 [] OTHER -> 2]
MCValid    == {a, b, cut}
MCLinked   == {b}
=============================================================================
