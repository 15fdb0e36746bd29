-------------------------- MODULE MCCrossTabRefresh -------------------------
EXTENDS CrossTabRefresh
=============================================================================
