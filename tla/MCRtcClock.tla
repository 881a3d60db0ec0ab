------------------------------ MODULE MCRtcClock ------------------------------
\* A small instance of RtcClock for TLC.
EXTENDS RtcClock

Times == {1, 2, 17}
=============================================================================
