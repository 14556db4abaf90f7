---------------------------- MODULE CoalescedWork ----------------------------
(***************************************************************************)
(* What a task scope promises the callers of schedule(key, work): per key,   *)
(* at most one round of work at a time; however many requests come in while  *)
(* nothing new has started, one round answers them all; no round without a   *)
(* request; and nothing at all while the scope is closed.  Runs, stop        *)
(* signals and the bookkeeping behind this are in TaskScope.                 *)
(***************************************************************************)
CONSTANT Keys

VARIABLES
    open,       \* the scope takes requests
    due,        \* keys with a request no round has answered yet
    busy        \* keys with a round in progress

vars == <<open, due, busy>>

Init == open = TRUE /\ due = {} /\ busy = {}

Request(k) ==
    /\ open
    /\ due' = due \cup {k}
    /\ UNCHANGED <<open, busy>>

Begin(k) ==
    /\ open
    /\ k \in due /\ k \notin busy
    /\ due' = due \ {k}
    /\ busy' = busy \cup {k}
    /\ UNCHANGED open

\* A request whose round starts on the spot.
RequestAndBegin(k) ==
    /\ open
    /\ k \notin due /\ k \notin busy
    /\ busy' = busy \cup {k}
    /\ UNCHANGED <<open, due>>

End(k) ==
    /\ k \in busy
    /\ busy' = busy \ {k}
    /\ UNCHANGED <<open, due>>

\* The end of a round after which the next one starts on the spot.
EndAndBegin(k) ==
    /\ open
    /\ k \in due \cap busy
    /\ due' = due \ {k}
    /\ UNCHANGED <<open, busy>>

\* The session ends, or a new one begins: the rounds in progress are disowned.
Close == open' = FALSE /\ due' = {} /\ busy' = {}
Open  == open' = TRUE  /\ due' = {} /\ busy' = {}

Next ==
    \/ \E k \in Keys :
        \/ Request(k) \/ Begin(k) \/ RequestAndBegin(k)
        \/ End(k) \/ EndAndBegin(k)
    \/ Close \/ Open

Spec == Init /\ [][Next]_vars
=============================================================================
