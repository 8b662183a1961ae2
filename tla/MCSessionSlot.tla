--------------------------- MODULE MCSessionSlot ---------------------------
\* SessionSlot alone: ids may be installed out of order, stops come at any time.
EXTENDS SessionSlot
=============================================================================
