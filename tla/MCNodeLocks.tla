---------------------------- MODULE MCNodeLocks ----------------------------
EXTENDS NodeLocks
=============================================================================
