--------------------------- MODULE MCRdmResponder ---------------------------
\* The sums of the two texts differ.
EXTENDS RdmResponder

MCLabelSum == [l \in Labels |-> IF l = "default" THEN 5 ELSE 6]
=============================================================================
