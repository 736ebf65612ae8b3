------------------------------ MODULE MCService ------------------------------
EXTENDS PIService

CONSTANTS p1, p2
TwoProducts == {p1, p2}
=============================================================================
