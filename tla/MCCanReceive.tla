---------------------------- MODULE MCCanReceive ----------------------------
EXTENDS CanReceive

CONSTANTS f, g, u, v

MCDataOf == [h \in Callback |-> IF h = f THEN u ELSE v]
=============================================================================
