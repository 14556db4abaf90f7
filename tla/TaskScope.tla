------------------------------ MODULE TaskScope ------------------------------
(***************************************************************************)
(* createTaskScope of lib/nonblocking.ts: background work of one extension   *)
(* that is started from pi's lifecycle handlers and never awaited there.     *)
(* run(name, work) starts a plain task; schedule(key, work) is single-flight *)
(* per key; abort() ends the session and resume() begins the next one.       *)
(*                                                                           *)
(* A run is one call of start: it waits for the next turn of the event loop  *)
(* ("queued"), unless it is immediate, and then executes its work ("body").  *)
(* What the work does, and whether it throws, makes no difference here.      *)
(* Identities of runs that have settled are used again.                      *)
(***************************************************************************)
CONSTANTS
    Keys,       \* the single-flight keys
    Plain,      \* stands for the name of a task that is started by run()
    Run,        \* identities of runs (as many as may be alive at once)
    NoRun

ASSUME ScopeAssumption == Plain \notin Keys /\ NoRun \notin Run

VARIABLES
    aborted,
    tracked,    \* the scope's set of running entries
    run,        \* every run: its key (or Plain), its state and its AbortController
    holder,     \* slot.running of a key: the current generation's run
    again,      \* keys whose slot asks for a follow-up
    now,        \* keys whose latest request is immediate (slot.opts)
    owed        \* keys whose latest request has not reached a body (history)

slots == <<holder, again, now>>
vars == <<aborted, tracked, run, holder, again, now, owed>>

Unused  == [key |-> Plain, state |-> "unused", stopped |-> FALSE]
Free    == {r \in Run : run[r].state = "unused"}
Live    == Run \ Free
Queued  == {r \in Run : run[r].state = "queued"}
InBody  == {r \in Run : run[r].state = "body"}
Stopped == {r \in Run : run[r].stopped}

Init ==
    /\ aborted = FALSE
    /\ tracked = {}
    /\ run = [r \in Run |-> Unused]
    /\ holder = [k \in Keys |-> NoRun]
    /\ again = {} /\ now = {} /\ owed = {}

-----------------------------------------------------------------------------
(* Starting and settling runs *)

\* start(): a new entry r, immediate or not, next to the runs rs and entries tr.
Started(r, n, immediate, rs, tr) ==
    /\ run' = [rs EXCEPT ![r] = [key |-> n, stopped |-> FALSE,
                                 state |-> IF immediate THEN "body" ELSE "queued"]]
    /\ tracked' = tr \cup {r}

\* begin() for key k, with a new entry r.
Begun(r, k, immediate, rs, tr) ==
    /\ Started(r, k, immediate, rs, tr)
    /\ holder' = [holder EXCEPT ![k] = r]
    /\ owed' = IF immediate THEN owed \ {k} ELSE owed \cup {k}

RunPlain(immediate) ==
    /\ ~aborted
    /\ \E r \in Free : Started(r, Plain, immediate, run, tracked)
    /\ UNCHANGED <<aborted, slots, owed>>

\* schedule() while a run holds the slot: a body in progress gets a follow-up;
\* a run that has not reached its body will do the new work anyway.
NeedsFollowUp(k) == holder[k] \in InBody

Schedule(k, immediate) ==
    /\ ~aborted
    /\ now' = IF immediate THEN now \cup {k} ELSE now \ {k}
    /\ IF holder[k] # NoRun
       THEN /\ again' = IF NeedsFollowUp(k) THEN again \cup {k} ELSE again
            /\ owed' = owed \cup {k}
            /\ UNCHANGED <<tracked, run, holder>>
       ELSE /\ \E r \in Free : Begun(r, k, immediate, run, tracked)
            /\ UNCHANGED again
    /\ UNCHANGED aborted

\* The setImmediate of a run that has not been told to stop: its body is
\* entered and does the newest work of its key.
Enter(r) ==
    /\ r \in Queued \ Stopped
    /\ run' = [run EXCEPT ![r].state = "body"]
    /\ owed' = owed \ {run[r].key}
    /\ UNCHANGED <<aborted, tracked, slots>>

\* The budget of the work expires: the work is told to stop, nothing more.
BudgetExpires(r) ==
    /\ r \in InBody \ Stopped
    /\ run' = [run EXCEPT ![r].stopped = TRUE]
    /\ UNCHANGED <<aborted, tracked, slots, owed>>

\* Fault: onSettled does not clear the slot.
FaultKeepsSlot(r) == {}

\* Fault: onSettled does not compare the holder with its own run.
FaultNoIdentity(r) == Keys \cap {run[r].key}

\* The slots that onSettled of run r gives up: its own, if it still holds it.
GivesUp(r) == {k \in Keys : holder[k] = r}

\* Run r ends: its work resolves or rejects, or its setImmediate finds it
\* stopped.  Its finally block gives up the slot, begins the follow-up, if one
\* is asked for and the scope is open, and takes r out of the entries.
Ends(r) ==
    /\ r \in InBody \cup (Queued \cap Stopped)
    /\ LET rs   == [run EXCEPT ![r] = Unused]
           tr   == tracked \ {r}
           next == GivesUp(r) \cap again
       IN  IF next = {} \/ aborted
           THEN /\ run' = rs /\ tracked' = tr
                /\ holder' = [k \in Keys |-> IF k \in GivesUp(r) THEN NoRun ELSE holder[k]]
                /\ UNCHANGED owed
           ELSE \E k \in next, q \in Free \cup {r} :
                    Begun(q, k, k \in now, rs, tr)
    /\ again' = again \ GivesUp(r)
    /\ UNCHANGED <<aborted, now>>

-----------------------------------------------------------------------------
(* Sessions *)

\* The runs that stopAll tells to stop.
ToStop == tracked

\* stopAll: the slots are cleared, every tracked run is told to stop, and the
\* scope forgets them; they go on until their work notices.
StopAll ==
    /\ holder' = [k \in Keys |-> NoRun]
    /\ again' = {}
    /\ run' = [r \in Run |-> IF r \in ToStop THEN [run[r] EXCEPT !.stopped = TRUE] ELSE run[r]]
    /\ tracked' = {}
    /\ owed' = {}
    /\ UNCHANGED now

Abort  == aborted' = TRUE  /\ StopAll
Resume == aborted' = FALSE /\ StopAll

Next ==
    \/ \E immediate \in BOOLEAN : RunPlain(immediate)
    \/ \E k \in Keys, immediate \in BOOLEAN : Schedule(k, immediate)
    \/ \E r \in Run : Enter(r) \/ BudgetExpires(r) \/ Ends(r)
    \/ Abort \/ Resume

Spec == Init /\ [][Next]_vars

\* The event loop turns, and work ends: the commands it awaits have timeouts.
Fairness == \A r \in Run : WF_vars(Enter(r)) /\ WF_vars(Ends(r))
LiveSpec == Spec /\ Fairness

-----------------------------------------------------------------------------
(* Properties *)

\* Every variable has its type, and a slot is held by nobody or by a run the
\* scope counts.
TypeOK ==
    /\ aborted \in BOOLEAN
    /\ tracked \subseteq Run
    /\ run \in [Run -> [key : Keys \cup {Plain}, stopped : BOOLEAN,
                        state : {"unused", "queued", "body"}]]
    /\ holder \in [Keys -> tracked \cup {NoRun}]
    /\ again \subseteq Keys /\ now \subseteq Keys /\ owed \subseteq Keys

\* Of two runs of one key that are alive at once, at most one has not been
\* disowned: rounds of a key overlap only when the older one belongs to a
\* session that is over and has been told to stop (the comment in resume()).
OverlapsAreStopped ==
    \A r, q \in Live :
        r # q /\ run[r].key = run[q].key /\ run[r].key # Plain =>
            \E s \in {r, q} : s \in Stopped /\ s \notin tracked

\* A request that no body has answered has a run that will answer it, and the
\* scope counts that run: pending() = 0 and flush() mean that nothing is owed.
OwedIsOnItsWay ==
    \A k \in owed : \E r \in tracked :
        /\ run[r].key = k
        /\ r \in Queued \ Stopped \/ (r \in InBody /\ k \in again)

\* After abort(), and until resume(), no work starts and none goes on without
\* having been told to stop: a stray timer cannot revive the session.
AbortedIsQuiet ==
    [][aborted /\ aborted' => InBody' \subseteq InBody /\ Live' \subseteq Stopped']_vars

\* The keys with a round in progress, seen from outside.
Busy == {k \in Keys : holder[k] \in InBody}

Coalesced == INSTANCE CoalescedWork WITH open <- ~aborted, due <- owed, busy <- Busy

\* The scope implements single-flight with coalescing: one round per key, every
\* round answers a request, none is answered twice, none starts while closed.
ImplementsCoalescing == Coalesced!Spec

\* "Coalescing never loses the newest refresh": every request is followed by a
\* round that starts after it, or its session ends.
RequestsAreAnswered == \A k \in Keys : k \in owed ~> k \notin owed
=============================================================================
