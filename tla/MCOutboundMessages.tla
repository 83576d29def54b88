------------------------- MODULE MCOutboundMessages -------------------------
EXTENDS OutboundMessages

CONSTANTS m1, m2, s1, s2
=============================================================================
