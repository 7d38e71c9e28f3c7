------------------------------ MODULE MCWidget ------------------------------
EXTENDS Widget
NoCalls == {}
=============================================================================
