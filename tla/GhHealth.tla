------------------------------- MODULE GhHealth -------------------------------
(***************************************************************************)
(* GhHealth of lib/gh-health.ts: one process-wide circuit breaker for every   *)
(* call of `gh` that observe-pr and pr-tasks make.  While GitHub is reachable *)
(* everybody is let through; in an outage one caller at a time may claim the  *)
(* retry slot, once it is due, and the others wait for a retry hook.          *)
(*                                                                           *)
(* The object is the record `health`; its methods map records to records.    *)
(* Time is counted in units of the clock until the slot is due.  Callers      *)
(* stand for pieces of work that pair acquireSlot with release; a watcher is  *)
(* a `gh ... --watch` process, which holds the slot only if it was spawned in *)
(* an outage and gives it back before its exit is classified.                *)
(***************************************************************************)
EXTENDS Integers, FiniteSets

CONSTANTS
    Callers,
    Hooked,         \* callers that a registered retry hook starts again
    Watchers,
    Fast, Slow,     \* the retry intervals
    FastRetries,
    MaxStray        \* bound on failures recorded without a slot

ASSUME HealthAssumption ==
    /\ Hooked \subseteq Callers /\ Watchers \subseteq Callers \ Hooked
    /\ Fast \in Nat \ {0} /\ Slow \in Nat \ {0}
    /\ FastRetries \in Nat /\ MaxStray \in Nat

VARIABLES
    health,
    pc,         \* "free": let through while healthy; "claimed": holds the slot
    waiting,    \* hooked callers refused since the hooks last ran (history)
    woken,      \* callers whose hook has run and that have not tried since (history)
    stray

healthVars == <<health, pc, waiting, woken, stray>>

Healthy == [failures |-> 0, wait |-> 0, windowUsed |-> FALSE, inFlight |-> FALSE,
            pendingWhileBusy |-> FALSE, timer |-> FALSE, recovering |-> FALSE]

HealthInit ==
    /\ health = Healthy
    /\ pc = [c \in Callers |-> "idle"]
    /\ waiting = {} /\ woken = {}
    /\ stray = 0

-----------------------------------------------------------------------------
(* The methods *)

\* The interval after n failures in a row; n stops growing where this does.
Interval(n) == IF n <= FastRetries THEN Fast ELSE Slow

SlotDue(h) == h.wait = 0

\* The state after an answer: whatever the outage had armed is dropped.
Recovered(h) == [h EXCEPT !.failures = 0, !.wait = 0, !.windowUsed = FALSE,
                          !.pendingWhileBusy = FALSE, !.timer = FALSE]

\* Fault: a recovery leaves the hooks to the next outage.
FaultNoRecoveryTick(h) == Recovered(h)

RecordSuccess(h) ==
    IF h.failures = 0 THEN h ELSE [Recovered(h) EXCEPT !.recovering = TRUE]

\* The state after one more failure: the timer is armed for the next slot.
Paced(h) ==
    LET n == IF h.failures <= FastRetries THEN h.failures + 1 ELSE h.failures
    IN  [h EXCEPT !.failures = n, !.wait = Interval(n), !.windowUsed = FALSE, !.timer = TRUE]

RecordFailure(h) == [Paced(h) EXCEPT !.pendingWhileBusy = FALSE, !.recovering = FALSE]

\* What a finished call tells: an answer, an availability failure, or neither
\* (no such pull request, a payload that said nothing).
Recorded(h, outcome) ==
    IF outcome = "answer" THEN RecordSuccess(h)
    ELSE IF outcome = "unreachable" THEN RecordFailure(h) ELSE h

Release(h) == [h EXCEPT !.inFlight = FALSE, !.windowUsed = FALSE, !.pendingWhileBusy = FALSE]

\* release() runs the hooks when the slot fell due while it was held.
ReleaseRunsHooks(h) == h.inFlight /\ h.pendingWhileBusy

Claimable(h) == h.failures > 0 /\ ~h.inFlight /\ SlotDue(h) /\ ~h.windowUsed

\* A caller that finds the slot held and due leaves a note for release().
Refused(h) == [h EXCEPT !.pendingWhileBusy = @ \/ (h.inFlight /\ SlotDue(h))]

\* fireHooks, if `run` holds.  The hooks only start their work, which tries for
\* the slot in a step of its own.
Hooks(run) ==
    IF run THEN woken' = Hooked /\ waiting' = {}
    ELSE UNCHANGED <<woken, waiting>>

-----------------------------------------------------------------------------
(* Callers *)

\* acquireSlot: let through, given the slot, or refused.
LetThrough(c) ==
    /\ pc[c] = "idle" /\ health.failures = 0
    /\ pc' = [pc EXCEPT ![c] = "free"]
    /\ woken' = woken \ {c} /\ waiting' = waiting \ {c}
    /\ UNCHANGED <<health, stray>>

Claim(c) ==
    /\ pc[c] = "idle" /\ Claimable(health)
    /\ pc' = [pc EXCEPT ![c] = "claimed"]
    /\ health' = [health EXCEPT !.windowUsed = TRUE, !.inFlight = TRUE]
    /\ woken' = woken \ {c} /\ waiting' = waiting \ {c}
    /\ UNCHANGED stray

IsRefused(c) ==
    /\ pc[c] = "idle"
    /\ health.failures > 0 /\ ~Claimable(health)
    /\ health' = Refused(health)
    /\ woken' = woken \ {c}
    /\ waiting' = waiting \cup ({c} \cap Hooked)
    /\ UNCHANGED <<pc, stray>>

\* A call ends: it records its outcome and gives the slot back.  A caller that
\* was let through calls release() all the same.
Ends(c, outcome) ==
    LET h == Recorded(health, outcome)
    IN  /\ c \notin Watchers /\ pc[c] \in {"free", "claimed"}
        /\ pc' = [pc EXCEPT ![c] = "idle"]
        /\ health' = IF h.inFlight THEN Release(h) ELSE h
        /\ Hooks(ReleaseRunsHooks(h))
        /\ UNCHANGED stray

\* A watcher's process closes: first the slot, if it holds one.
WatchCloses(c) ==
    /\ c \in Watchers /\ pc[c] \in {"free", "claimed"}
    /\ pc' = [pc EXCEPT ![c] = "closing"]
    /\ IF pc[c] = "claimed" /\ health.inFlight
       THEN health' = Release(health) /\ Hooks(ReleaseRunsHooks(health))
       ELSE UNCHANGED <<health, woken, waiting>>
    /\ UNCHANGED stray

\* Then its exit is classified; hooks may have claimed the slot in between.
WatchClassified(c, outcome) ==
    /\ pc[c] = "closing"
    /\ outcome # "answer"
    /\ pc' = [pc EXCEPT ![c] = "idle"]
    /\ health' = Recorded(health, outcome)
    /\ UNCHANGED <<woken, waiting, stray>>

\* An explicit tool call, or the spawn of a run watcher, asks for no slot and
\* records only that it failed.
StrayFailure ==
    /\ stray < MaxStray
    /\ stray' = stray + 1
    /\ health' = RecordFailure(health)
    /\ UNCHANGED <<pc, woken, waiting>>

-----------------------------------------------------------------------------
(* Time and sessions *)

Tick ==
    /\ health.wait > 0
    /\ health' = [health EXCEPT !.wait = @ - 1]
    /\ UNCHANGED <<pc, woken, waiting, stray>>

\* Fault: a timer that fires early is spent.
FaultSpent(h) == [h EXCEPT !.timer = FALSE]

\* The timer is armed again for what remains when it fires before the slot is
\* due.
TimerSpent(h) == [h EXCEPT !.timer = ~SlotDue(h)]

\* fireRetrySlot.  A timer may fire up to one unit of the clock early.
RetryTimerFires ==
    /\ health.timer /\ health.wait <= 1
    /\ health' = TimerSpent(health)
    /\ Hooks(SlotDue(health))
    /\ UNCHANGED <<pc, stray>>

RecoveryTick ==
    /\ health.recovering
    /\ health' = [health EXCEPT !.recovering = FALSE]
    /\ Hooks(TRUE)
    /\ UNCHANGED <<pc, stray>>

\* reset() at session_shutdown: nothing of the session's work waits any more,
\* but its calls in flight go on and will release.
Reset ==
    /\ health' = Healthy
    /\ waiting' = {} /\ woken' = {}
    /\ UNCHANGED <<pc, stray>>

HealthNext ==
    \/ \E c \in Callers :
          \/ LetThrough(c) \/ Claim(c) \/ IsRefused(c) \/ WatchCloses(c)
          \/ \E outcome \in {"answer", "unreachable", "other"} :
                Ends(c, outcome) \/ WatchClassified(c, outcome)
    \/ StrayFailure \/ Tick \/ RetryTimerFires \/ RecoveryTick \/ Reset

HealthSpec == HealthInit /\ [][HealthNext]_healthVars

\* Time passes, a timer that falls due again and again fires, and calls end:
\* `gh` runs under a timeout, and a watched run is over some day.
Fairness ==
    /\ WF_healthVars(Tick) /\ SF_healthVars(RetryTimerFires) /\ SF_healthVars(RecoveryTick)
    /\ \A c \in Callers :
          /\ WF_healthVars(WatchCloses(c))
          /\ WF_healthVars(\E outcome \in {"answer", "unreachable", "other"} :
                        Ends(c, outcome) \/ WatchClassified(c, outcome))

HealthLiveSpec == HealthSpec /\ Fairness

-----------------------------------------------------------------------------
(* Properties *)

\* The types of the variables; a consumed window has a holder.
HealthTypeOK ==
    /\ health \in [failures : 0..(FastRetries + 1), wait : Nat,
                   windowUsed : BOOLEAN, inFlight : BOOLEAN,
                   pendingWhileBusy : BOOLEAN, timer : BOOLEAN, recovering : BOOLEAN]
    /\ health.windowUsed => health.inFlight
    /\ pc \in [Callers -> {"idle", "free", "claimed", "closing"}]
    /\ waiting \subseteq Hooked /\ woken \subseteq Hooked
    /\ stray \in 0..MaxStray

\* Whoever was refused has a driver: an armed timer, a recovery tick, or a
\* holder whose release() will run the hooks.  Work that waits out an outage is
\* never stranded, whatever succeeds, fails or is released in which order.
WaitersAreDriven ==
    waiting # {} =>
       \/ health.timer \/ health.recovering
       \/ /\ health.pendingWhileBusy /\ health.inFlight
          /\ \E c \in Callers : pc[c] = "claimed"

\* Hooks that run in an outage find the slot due: a retry is not wasted on a
\* claim that has to be refused, and one failure is followed by no burst.
HooksFindSlotDue ==
    [][~(woken' \subseteq woken) /\ health'.failures > 0 => health.wait = 0]_healthVars

\* The outage timer and the recovery tick never both run, and each belongs to
\* its state: no hook is driven twice in one window.
OneDriver ==
    /\ health.timer => health.failures > 0
    /\ health.recovering => health.failures = 0

\* Refused work has a driver, and no more than one.
RefusedAreDrivenOnce == WaitersAreDriven /\ OneDriver

\* A refused caller is started again, or its session ends.
RefusedAreWoken == \A c \in Hooked : c \in waiting ~> c \notin waiting
=============================================================================
