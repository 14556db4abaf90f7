----------------------------- MODULE AgySession -----------------------------
(***************************************************************************)
(* One ACP session of agy-acp: AgySession (session.ts, turn.ts, cancel.ts), the *)
(* child process it drives (agy/process.ts), the permission gate that answers  *)
(* the child's hooks (permission-gate.ts, pending-asks.ts), and what the server *)
(* does to a session (server.ts, session-registry.ts).                       *)
(*                                                                           *)
(* An action is the code between two awaits.  Promise reactions run before the *)
(* next event of a process, a socket or a timer; only between the choice of a  *)
(* child and the text it is sent ("chosen") can messages of the client, which  *)
(* are reactions themselves, come in between.                                *)
(***************************************************************************)
EXTENDS Integers, FiniteSets

CONSTANTS
    Children,       \* identities of processes; one that has exited is used again
    Hooks,          \* identities of hook processes, likewise
    Selections,     \* what the client may select: model, effort and mode
    MaxTurns,       \* bound on the prompts of the session
    None

ASSUME SessionAssumption ==
    /\ None \notin Children
    /\ Selections # {}
    /\ MaxTurns \in Nat

VARIABLES
    server,         \* "up", "closing": disposeAll has begun, "left": it was awaited
    start,          \* "opening", then "in" the registry, or "failing", "failed"
    disposed,
    taken,          \* the child dispose() waits for
    driver, live, needsRespawn,
    choice, launchedKey,
    turnCount,
    at,             \* where runTurn waits; "none": this.turn is null
    mine,           \* the child it waits for
    pending,        \* this.pending is set: the prompt is not settled
    since,          \* selections held since the prompt (history)
    proc,           \* "starting", "ready" (init was seen), "gone"
    work,           \* the turn whose text the child has and has not answered, or 0
    signal,         \* "none", "int": SIGINT was sent, "ladder": being disposed
    flags,          \* the selection it was launched with
    cancelledAt, gateDisposed,
    hook,           \* "none", "starting", "asked": the client is asked, "allowed"
    hookTurn        \* the turn in which the hook was started (history)

sessionVars == <<disposed, taken, driver, live, needsRespawn>>
turnVars    == <<turnCount, at, mine, pending, since>>
choiceVars  == <<choice, launchedKey>>
childVars   == <<proc, work, signal, flags>>
gateVars    == <<cancelledAt, gateDisposed, hook, hookTurn>>
serverVars  == <<server, start>>
vars == <<sessionVars, turnVars, choiceVars, childVars, gateVars, serverVars>>

Alive(c) == proc[c] # "gone"

\* start() has spawned the first child and probes it.
Init ==
    /\ server = "up" /\ start = "opening"
    /\ disposed = FALSE /\ taken = None
    /\ choice \in Selections /\ launchedKey = choice
    /\ live = TRUE /\ needsRespawn = FALSE
    /\ turnCount = 0 /\ at = "none" /\ mine = None /\ pending = FALSE /\ since = {}
    /\ \E c \in Children :
          /\ driver = c
          /\ proc = [d \in Children |-> IF d = c THEN "starting" ELSE "gone"]
    /\ work = [d \in Children |-> 0]
    /\ signal = [d \in Children |-> "none"]
    /\ flags = [d \in Children |-> choice]
    /\ cancelledAt = -1 /\ gateDisposed = FALSE
    /\ hook = [h \in Hooks |-> "none"] /\ hookTurn = [h \in Hooks |-> 0]

-----------------------------------------------------------------------------
(* Parts of actions *)

\* Events of processes and timers come when no reaction is left to run.
Quiet == server # "left" /\ at # "chosen"

\* settleOnce, called blindly by every way a turn can end.  A turn that waits
\* for nothing but its promise returns with it, and this.turn is cleared.
Settle ==
    /\ pending' = FALSE
    /\ IF pending /\ at = "sent" THEN at' = "none" /\ mine' = None
       ELSE UNCHANGED <<at, mine>>

\* A new child becomes the session's driver, and the turn waits for its init.
Spawn ==
    \E c \in Children :
       /\ ~Alive(c)
       /\ proc' = [proc EXCEPT ![c] = "starting"]
       /\ signal' = [signal EXCEPT ![c] = "none"]
       /\ flags' = [flags EXCEPT ![c] = choice] /\ launchedKey' = choice
       /\ driver' = c /\ live' = TRUE
       /\ at' = "probing" /\ mine' = c

\* AgyProcess.dispose(): the ladder that ends with SIGKILL.
Teardown(c) == signal' = [d \in Children |-> IF d = c /\ Alive(d) THEN "ladder" ELSE signal[d]]

\* Fault: an ask that is on screen stays there.
FaultDenyAll == UNCHANGED hook

\* Every ask that is on screen is denied.
DenyAll == hook' = [h \in Hooks |-> IF hook[h] = "asked" THEN "none" ELSE hook[h]]

\* Fault: a child marked for a respawn is used again while it lives.
FaultFit == driver # None /\ live /\ launchedKey = choice

\* The child the next prompt may use as it is.
Fit == driver # None /\ live /\ ~needsRespawn /\ launchedKey = choice

-----------------------------------------------------------------------------
(* Turns *)

\* Fault: the new child is started beside the one it replaces.
FaultReplace ==
    /\ Spawn
    /\ UNCHANGED needsRespawn

\* ensureDriver: a child that is still alive is replaced when it has gone.
Replace ==
    /\ at' = "replacing" /\ mine' = driver
    /\ driver' = None /\ live' = FALSE
    /\ Teardown(driver)
    /\ UNCHANGED <<proc, flags, launchedKey, needsRespawn>>

Prompt ==
    /\ server = "up" /\ start = "in"
    /\ ~disposed /\ at = "none"
    /\ turnCount < MaxTurns
    /\ turnCount' = turnCount + 1 /\ pending' = TRUE /\ since' = {choice}
    /\ \/ /\ Fit
          /\ at' = "chosen" /\ mine' = driver
          /\ UNCHANGED <<driver, live, needsRespawn, proc, signal, flags, launchedKey>>
       \/ /\ ~Fit
          /\ IF driver # None THEN Alive(driver) ELSE FALSE
          /\ Replace
       \/ /\ ~Fit
          /\ IF driver # None THEN ~Alive(driver) ELSE TRUE
          /\ Spawn
          /\ UNCHANGED needsRespawn
    /\ UNCHANGED <<disposed, taken, choice, work, gateVars, serverVars>>

\* The replaced child has gone.  The session may have been cancelled or
\* disposed of meanwhile; the new child is started all the same.
Replaced ==
    /\ Quiet /\ at = "replacing" /\ ~Alive(mine)
    /\ Spawn
    /\ UNCHANGED <<disposed, taken, needsRespawn, turnCount, pending, since, choice, work,
                   gateVars, serverVars>>

\* Fault: a failed probe lets go of the child without disposing of it.
FaultGiveUp ==
    /\ live' = FALSE /\ driver' = None
    /\ at' = "dropping"
    /\ UNCHANGED signal

\* The probe failed: the child is let go and torn down before the prompt fails.
GiveUp ==
    /\ live' = FALSE /\ driver' = None
    /\ Teardown(mine)
    /\ at' = "dropping"

ProbeTimesOut ==
    /\ Quiet /\ at = "probing" /\ proc[mine] = "starting"
    /\ GiveUp
    /\ UNCHANGED <<disposed, taken, needsRespawn, turnCount, mine, pending, since, choiceVars,
                   proc, work, flags, gateVars, serverVars>>

\* The child has gone: the prompt fails with what its start failed with.
Dropped ==
    /\ Quiet /\ at = "dropping" /\ ~Alive(mine)
    /\ at' = "none" /\ mine' = None /\ pending' = FALSE
    /\ UNCHANGED <<sessionVars, turnCount, since, choiceVars, childVars, gateVars, serverVars>>

\* The child is there: the text is sent, or, if the prompt was settled while it
\* was chosen, the child is put away.
TurnGoes ==
    /\ server # "left" /\ at = "chosen"
    /\ IF pending
       THEN /\ work' = [work EXCEPT ![mine] = turnCount]
            /\ at' = "sent"
            /\ UNCHANGED signal
       ELSE /\ Teardown(mine)
            /\ at' = "puttingAway"
            /\ UNCHANGED work
    /\ UNCHANGED <<sessionVars, turnCount, mine, pending, since, choiceVars, proc, flags,
                   gateVars, serverVars>>

PutAway ==
    /\ Quiet /\ at = "puttingAway" /\ ~Alive(mine)
    /\ at' = "none" /\ mine' = None
    /\ UNCHANGED <<sessionVars, turnCount, pending, since, choiceVars, childVars, gateVars,
                   serverVars>>

\* session/cancel: asks are denied, the prompt is settled, the child interrupted.
Cancel ==
    /\ server = "up" /\ start = "in"
    /\ ~disposed /\ at # "none"
    /\ needsRespawn' = TRUE
    /\ cancelledAt' = turnCount
    /\ DenyAll
    /\ Settle
    /\ signal' = [c \in Children |->
                    IF c = driver /\ Alive(c) /\ signal[c] = "none" THEN "int" ELSE signal[c]]
    /\ UNCHANGED <<disposed, taken, driver, live, turnCount, since, choiceVars, proc, work,
                   flags, gateDisposed, hookTurn, serverVars>>

\* A child that outlives the SIGINT is torn down.
Escalate(c) ==
    /\ Quiet /\ signal[c] = "int"
    /\ Teardown(c)
    /\ UNCHANGED <<sessionVars, turnVars, choiceVars, proc, work, flags, gateVars, serverVars>>

\* Model, effort and mode are launch flags: the next turn finds them changed.
Select(s) ==
    /\ server = "up" /\ start = "in" /\ s # choice
    /\ choice' = s
    /\ since' = IF at = "none" THEN since ELSE since \cup {s}
    /\ UNCHANGED <<sessionVars, turnCount, at, mine, pending, launchedKey, childVars, gateVars,
                   serverVars>>

-----------------------------------------------------------------------------
(* The end of a session *)

\* Fault: dispose() forgets the child before it disposes of it.
FaultDispose ==
    /\ disposed' = TRUE /\ driver' = None /\ live' = FALSE
    /\ Settle
    /\ UNCHANGED <<taken, signal>>

\* dispose(), up to its first await.
Dispose ==
    /\ disposed' = TRUE /\ driver' = None /\ live' = FALSE
    /\ Settle
    /\ taken' = IF driver = None THEN None ELSE IF Alive(driver) THEN driver ELSE None
    /\ Teardown(driver)

\* The child that dispose() waited for has gone: the gate is disposed of.
GateDisposed ==
    /\ Quiet /\ disposed /\ taken = None /\ ~gateDisposed
    /\ gateDisposed' = TRUE
    /\ DenyAll
    /\ UNCHANGED <<sessionVars, turnVars, choiceVars, childVars, cancelledAt, hookTurn,
                   serverVars>>

\* The connection closes: disposeAll() goes through the registered sessions.
ServerCloses ==
    /\ Quiet /\ server = "up"
    /\ server' = "closing"
    /\ IF start = "in" THEN Dispose
       ELSE UNCHANGED <<disposed, taken, driver, live, at, mine, pending, signal>>
    /\ UNCHANGED <<start, needsRespawn, turnCount, since, choiceVars, proc, work, flags, gateVars>>

\* disposeAll() resolves, and the process exits.
ServerLeaves ==
    /\ Quiet /\ server = "closing"
    /\ start = "in" => gateDisposed
    /\ server' = "left"
    /\ UNCHANGED <<start, sessionVars, turnVars, choiceVars, childVars, gateVars>>

\* start() could not get the conversation id in time: first the gate is
\* disposed of, then the child.
StartFails ==
    /\ Quiet /\ start = "opening" /\ proc[driver] = "starting"
    /\ start' = "failing"
    /\ live' = FALSE /\ gateDisposed' = TRUE
    /\ DenyAll
    /\ UNCHANGED <<server, disposed, taken, driver, needsRespawn, turnVars, choiceVars, childVars,
                   cancelledAt, hookTurn>>

StartGivesUp ==
    /\ Quiet /\ start = "failing"
    /\ start' = "failed"
    /\ Teardown(driver)
    /\ UNCHANGED <<server, sessionVars, turnVars, choiceVars, proc, work, flags, gateVars>>

StartCleared ==
    /\ Quiet /\ start = "failed" /\ driver # None /\ ~Alive(driver)
    /\ driver' = None
    /\ UNCHANGED <<serverVars, disposed, taken, live, needsRespawn, turnVars, choiceVars,
                   childVars, gateVars>>

-----------------------------------------------------------------------------
(* Events of the child *)

\* The init event.  It answers the probe of a turn, unless it names another
\* conversation, or that of start(); a session that is registered after the
\* connection closed is disposed of at once.
Initialises(c) ==
    /\ Quiet /\ proc[c] = "starting"
    /\ proc' = [proc EXCEPT ![c] = "ready"]
    /\ IF at = "probing" /\ mine = c
       THEN /\ \/ /\ needsRespawn' = FALSE /\ at' = "chosen"
                  /\ UNCHANGED <<driver, live, signal>>
               \/ GiveUp /\ UNCHANGED needsRespawn
            /\ UNCHANGED <<start, disposed, taken, mine, pending>>
       ELSE IF start = "opening" /\ driver = c
       THEN /\ start' = "in"
            /\ IF server = "up"
               THEN UNCHANGED <<disposed, taken, driver, live, signal, at, mine, pending>>
               ELSE Dispose
            /\ UNCHANGED needsRespawn
       ELSE UNCHANGED <<start, sessionVars, signal, at, mine, pending>>
    /\ UNCHANGED <<server, turnCount, since, choiceVars, work, flags, gateVars>>

\* A result, of success or of an error.  onEvent settles the prompt there is,
\* whichever child it came from.
Result(c) ==
    /\ Quiet /\ Alive(c) /\ work[c] # 0
    /\ work' = [work EXCEPT ![c] = 0]
    /\ Settle
    /\ UNCHANGED <<sessionVars, turnCount, since, choiceVars, proc, signal, flags, gateVars,
                   serverVars>>

\* onExit, and the probe that fails with the exit.
Exits(c) ==
    /\ Quiet /\ Alive(c)
    /\ proc' = [proc EXCEPT ![c] = "gone"]
    /\ work' = [work EXCEPT ![c] = 0]
    /\ signal' = [signal EXCEPT ![c] = "none"]
    /\ taken' = IF taken = c THEN None ELSE taken
    /\ LET probed == at = "probing" /\ mine = c
           opened == start = "opening" /\ driver = c
       IN  /\ IF driver = c THEN pending' = FALSE ELSE UNCHANGED pending
           /\ IF probed THEN at' = "dropping" /\ UNCHANGED mine
              ELSE IF driver = c /\ pending /\ at = "sent" THEN at' = "none" /\ mine' = None
              ELSE UNCHANGED <<at, mine>>
           /\ driver' = IF probed THEN None ELSE driver
           /\ live' = (live /\ ~probed /\ ~(driver = c /\ ~disposed))
           /\ needsRespawn' = (needsRespawn \/ (driver = c /\ ~disposed))
           /\ start' = IF opened THEN "failing" ELSE start
           /\ gateDisposed' = (gateDisposed \/ opened)
    /\ IF driver = c /\ ~disposed THEN DenyAll ELSE UNCHANGED hook
    /\ UNCHANGED <<server, disposed, turnCount, since, choiceVars, flags, cancelledAt, hookTurn>>

-----------------------------------------------------------------------------
(* Hooks *)

\* agy starts a hook for a tool call of the turn it works at.
HookStarts(h, c) ==
    /\ Quiet /\ hook[h] = "none" /\ Alive(c) /\ work[c] # 0
    /\ hook' = [hook EXCEPT ![h] = "starting"]
    /\ hookTurn' = [hookTurn EXCEPT ![h] = work[c]]
    /\ UNCHANGED <<sessionVars, turnVars, choiceVars, childVars, cancelledAt, gateDisposed,
                   serverVars>>

\* handleHookRequest: refused, decided by the policy or a grant, or asked.
HookAsks(h) ==
    /\ Quiet /\ hook[h] = "starting"
    /\ \E verdict \in IF gateDisposed \/ cancelledAt = turnCount \/ at = "none"
                      THEN {"none"} ELSE {"none", "allowed", "asked"} :
          hook' = [hook EXCEPT ![h] = verdict]
    /\ UNCHANGED <<sessionVars, turnVars, choiceVars, childVars, cancelledAt, gateDisposed,
                   hookTurn, serverVars>>

\* The client answers an ask, or its deadline passes.
AskAnswered(h) ==
    /\ Quiet /\ hook[h] = "asked"
    /\ \E verdict \in {"none", "allowed"} : hook' = [hook EXCEPT ![h] = verdict]
    /\ UNCHANGED <<sessionVars, turnVars, choiceVars, childVars, cancelledAt, gateDisposed,
                   hookTurn, serverVars>>

\* A hook has done its work, or its connection is lost.
HookGoes(h) ==
    /\ Quiet /\ hook[h] # "none"
    /\ hook' = [hook EXCEPT ![h] = "none"]
    /\ UNCHANGED <<sessionVars, turnVars, choiceVars, childVars, cancelledAt, gateDisposed,
                   hookTurn, serverVars>>

-----------------------------------------------------------------------------
Next ==
    \/ Prompt \/ Replaced \/ ProbeTimesOut \/ Dropped \/ TurnGoes \/ PutAway \/ Cancel
    \/ \E s \in Selections : Select(s)
    \/ GateDisposed \/ ServerCloses \/ ServerLeaves
    \/ StartFails \/ StartGivesUp \/ StartCleared
    \/ \E c \in Children : Escalate(c) \/ Initialises(c) \/ Result(c) \/ Exits(c)
    \/ \E h \in Hooks :
          \/ HookAsks(h) \/ AskAnswered(h) \/ HookGoes(h)
          \/ \E c \in Children : HookStarts(h, c)

Spec == Init /\ [][Next]_vars

\* Continuations run, a probe and an interrupt have timers, and the ladder ends
\* with SIGKILL.  Nothing is assumed of agy, its hooks or the client.
Fairness ==
    /\ WF_vars(Replaced) /\ WF_vars(ProbeTimesOut) /\ WF_vars(Dropped) /\ WF_vars(TurnGoes)
    /\ WF_vars(PutAway) /\ WF_vars(GateDisposed)
    /\ WF_vars(StartFails) /\ WF_vars(StartGivesUp) /\ WF_vars(StartCleared)
    /\ \A c \in Children :
          WF_vars(Escalate(c)) /\ WF_vars(signal[c] = "ladder" /\ Exits(c))

LiveSpec == Spec /\ Fairness

-----------------------------------------------------------------------------
(* Properties *)

\* The types of the variables; a turn in flight has a child, and a prompt that
\* is not settled has a turn in flight.
TypeOK ==
    /\ server \in {"up", "closing", "left"}
    /\ start \in {"opening", "in", "failing", "failed"}
    /\ disposed \in BOOLEAN /\ live \in BOOLEAN /\ needsRespawn \in BOOLEAN
    /\ pending \in BOOLEAN /\ gateDisposed \in BOOLEAN
    /\ taken \in Children \cup {None}
    /\ driver \in Children \cup {None} /\ mine \in Children \cup {None}
    /\ choice \in Selections /\ launchedKey \in Selections /\ since \subseteq Selections
    /\ turnCount \in 0..MaxTurns /\ cancelledAt \in -1..MaxTurns
    /\ at \in {"none", "replacing", "probing", "chosen", "sent", "dropping", "puttingAway"}
    /\ at = "none" <=> mine = None
    /\ pending => at # "none"
    /\ proc \in [Children -> {"starting", "ready", "gone"}]
    /\ work \in [Children -> 0..MaxTurns]
    /\ signal \in [Children -> {"none", "int", "ladder"}]
    /\ flags \in [Children -> Selections]
    /\ hook \in [Hooks -> {"none", "starting", "asked", "allowed"}]
    /\ hookTurn \in [Hooks -> 0..MaxTurns]

\* The conversation has at most one process at any time, through cancels,
\* respawns and disposal, and one that is not being torn down is the session's
\* driver, which cancel() and dispose() reach.
OneOwnedChild ==
    \A c \in Children :
       Alive(c) => /\ \A d \in Children : Alive(d) => c = d
                   /\ signal[c] = "ladder" \/ c = driver

\* A text goes only to a child fit for it: initialised, neither interrupted nor
\* being torn down, launched with a selection held since the prompt; and the
\* prompt was not cancelled, nor the session disposed of, meanwhile.
TextReachesAFitChild ==
    [][\A c \in Children :
          work'[c] # 0 /\ work'[c] # work[c] =>
             /\ pending /\ cancelledAt # turnCount /\ ~disposed
             /\ proc[c] = "ready" /\ signal[c] = "none"
             /\ flags[c] \in since]_vars

\* After a cancel nothing of the cancelled turn is allowed until a later prompt
\* has begun, and nothing at all once the gate is disposed of.
NothingAllowedAfterCancel ==
    [][\A h \in Hooks :
          hook[h] # "allowed" /\ hook'[h] = "allowed" =>
             /\ ~gateDisposed
             /\ ~(hookTurn[h] = cancelledAt /\ turnCount = cancelledAt)]_vars

\* A prompt that is settled (cancelled, failed or called off) is answered in the
\* end, whatever its turn was waiting for.
SettledTurnsReturn ==
    (at # "none" /\ ~pending) ~> (at = "none" \/ pending \/ server = "left")

\* Once the connection has closed no child stays behind, unless the process has
\* left before.
ClosingEndsChildren ==
    (server = "closing") ~> ((\A c \in Children : ~Alive(c)) \/ server = "left")

\* Nothing stays halfway: a prompt that has been settled returns to its client,
\* whatever respawn or probe its turn is waiting for, and the end of the
\* connection ends every child, one spawned after dispose() found none included.
EndsAreReached == SettledTurnsReturn /\ ClosingEndsChildren

=============================================================================
