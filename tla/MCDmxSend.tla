------------------------------ MODULE MCDmxSend ------------------------------
EXTENDS DmxSend
NoCalls == {}
=============================================================================
