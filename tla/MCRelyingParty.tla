---------------------------- MODULE MCRelyingParty ----------------------------
EXTENDS RelyingParty
===============================================================================
