---------------------------- MODULE MCConfigStore ----------------------------
EXTENDS ConfigStore

\* Two pages of two words; the store ends in the middle of the second.
TwoPages == <<1, 1, 2, 2>>
=============================================================================
