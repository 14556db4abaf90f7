----------------------------- MODULE MCTaskScope -----------------------------
\* TaskScope on the small instance of TaskScope.cfg.
EXTENDS TaskScope
=============================================================================
