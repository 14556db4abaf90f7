--------------------------- MODULE MCDevinDelegate ---------------------------
EXTENDS DevinDelegate
=============================================================================
