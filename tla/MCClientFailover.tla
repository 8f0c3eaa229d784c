-------------------------- MODULE MCClientFailover --------------------------
EXTENDS ClientFailover

MCKeys == {<<107>>}
MCValues == {<<1>>, <<2>>}
=============================================================================
