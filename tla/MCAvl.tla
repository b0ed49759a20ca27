------------------------------- MODULE MCAvl -------------------------------
EXTENDS Avl

Keys7 == 1..7
=============================================================================
