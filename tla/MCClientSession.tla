--------------------------- MODULE MCClientSession --------------------------
EXTENDS ClientSession
=============================================================================
