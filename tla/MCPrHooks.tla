----------------------------- MODULE MCPrHooks -----------------------------
EXTENDS PrHooks
=============================================================================
