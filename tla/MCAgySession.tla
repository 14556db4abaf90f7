---------------------------- MODULE MCAgySession ----------------------------
\* AgySession on the small instance of AgySession.cfg.
EXTENDS AgySession
=============================================================================
