-------------------------------- MODULE MCPool --------------------------------
EXTENDS PIPool

CONSTANTS c1, c2
TwoClients == {c1, c2}
=============================================================================
