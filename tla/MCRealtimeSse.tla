---------------------------- MODULE MCRealtimeSse ----------------------------
EXTENDS RealtimeSse

CONSTANTS s1, s2
=============================================================================
