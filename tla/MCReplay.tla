------------------------------- MODULE MCReplay -------------------------------
EXTENDS Replay, MCSettlement
=============================================================================
