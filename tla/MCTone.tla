------------------------------- MODULE MCTone -------------------------------
EXTENDS Tone

CONSTANTS t1, t2, p1, p2, p3
=============================================================================
