--------------------------- MODULE MCEitherClock ---------------------------
EXTENDS EitherClock
CONSTANTS main, other
MCClients == {main, other}
=============================================================================
