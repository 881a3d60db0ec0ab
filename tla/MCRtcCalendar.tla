---------------------------- MODULE MCRtcCalendar ----------------------------
\* Years of every kind from 1970 to 2100 for TLC.
EXTENDS RtcCalendar

Years == {1970, 1972, 1999, 2000, 2001, 2100}
Times == {<<0, 0, 0>>, <<23, 59, 59>>}
Values == [year |-> {2024, 2100}, month |-> {1, 2, 4, 12}, day |-> {1, 29, 30, 31},
           hour |-> {0, 23}, minute |-> {0, 59}, second |-> {0, 59}]
=============================================================================
