--------------------------- MODULE MCReviewTasks ----------------------------
(* Bounds: up to two events, two actions and two failing calls. *)
EXTENDS ReviewHosts

Budget(e, k, c, f) == [events |-> e, kinds |-> k, calls |-> c, fails |-> f]
MCBudgets ==
    [pi  |-> {Budget(1, EventKinds, 1, 0), Budget(2, {"reply", "resolve", "reopen"}, 1, 0),
              Budget(2, {"delete", "edit", "replace", "repost"}, 0, 0),
              Budget(0, {}, 2, 0), Budget(0, {}, 1, 1)},
     mcp |-> {Budget(1, {"reply", "resolve", "repost", "replace"}, 1, 0), Budget(0, {}, 1, 1)}]
=============================================================================
