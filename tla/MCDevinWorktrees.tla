------------------------- MODULE MCDevinWorktrees -------------------------
EXTENDS DevinWorktrees

\* Two sessions that ask, through two processes each; one whose worktree two
\* callers clean up at a time; two sessions with a worktree each.
MCBudgets ==
    {[sessions |-> 2, procs |-> 2, cleanups |-> 0, asks |-> TRUE, isolated |-> FALSE],
     [sessions |-> 1, procs |-> 1, cleanups |-> 2, asks |-> FALSE, isolated |-> TRUE],
     [sessions |-> 2, procs |-> 1, cleanups |-> 1, asks |-> FALSE, isolated |-> TRUE]}
=============================================================================
