----------------------------- MODULE MCAgyPeer -----------------------------
EXTENDS AgyPeer
=============================================================================
