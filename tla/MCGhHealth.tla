------------------------------ MODULE MCGhHealth ------------------------------
\* GhHealth on the small instance of GhHealth.cfg.
EXTENDS GhHealth
=============================================================================
