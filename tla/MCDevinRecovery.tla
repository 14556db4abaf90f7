--------------------------- MODULE MCDevinRecovery ---------------------------
\* DevinRecovery on the small instance of DevinRecovery.cfg.
EXTENDS DevinRecovery
=============================================================================
