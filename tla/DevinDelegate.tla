---------------------------- MODULE DevinDelegate ----------------------------
(***************************************************************************)
(* The devin-delegate extension: admission of delegated tasks against a     *)
(* concurrency limit, the FIFO queue behind it, and the life of the         *)
(* sessions (and of the `devin acp` processes that carry them).             *)
(*                                                                          *)
(* The extension runs on one JavaScript event loop.  An action is the code  *)
(* between two awaits, together with the promise reactions it settles; the  *)
(* interleavings are those of the continuations, of the tool calls and of   *)
(* the events of the child processes.                                       *)
(*                                                                          *)
(* Operators named Fault... are plausible slips in the definition that       *)
(* follows them; no specification uses them.  They show that the properties  *)
(* notice.                                                                   *)
(***************************************************************************)
EXTENDS Integers, Sequences, FiniteSets

CONSTANTS
    MaxTasks,        \* bound on totalInvoked: tasks are q-1 .. q-MaxTasks
    MaxReattach,     \* bound on the re-attached processes of one session
    MaxWork,         \* bound on tasks and re-attached processes together
    MaxLimit,        \* largest limit `/devin limit` is given
    MaxOverlap       \* bound on the pull-request lookups, and on the waiting
                     \* devin_restart calls, that overlap in one session

ASSUME DelegateAssumption ==
    /\ MaxTasks \in Nat \ {0}
    /\ MaxReattach \in Nat
    /\ MaxWork \in Nat
    /\ MaxLimit \in Nat \ {0}
    /\ MaxOverlap \in Nat

Task == 1..MaxTasks

\* <<t, 0>> is the process startSession spawns for task t, <<t, i>> the i-th
\* one that devin_message spawns to re-attach session t.
Proc   == Task \X (0..MaxReattach)
NoProc == <<0, 0>>

\* "recreate": devin_restart re-creates the worktree, before admission.
\* "worktree", "spawn", "mode": admitted; the start awaits createWorktree,
\* the handshake and session/new, or session/set_mode.
Stage    == {"none", "recreate", "queued", "worktree", "spawn", "mode",
             "done", "failed", "dropped"}
Starting == {"worktree", "spawn", "mode"}

InTurn  == {"running", "stalled"}
Settled == {"idle", "interrupted", "failed", "cancelled"}
Status  == {"absent"} \cup InTurn \cup Settled

ProcState == {"unused", "handshake", "live", "dying", "dead"}

VARIABLES
    open,        \* FALSE once session_shutdown has run
    maxRuns, invoked,
    queue,
    pending,     \* SessionSlots.pending
    drainTask,   \* the task drainQueue awaits a worktree for; 0: not draining
    stage,       \* where the start of each task stands
    wt,          \* "no": no worktree asked; "wanted": asked, no path; "have"
    parent,      \* the session a devin_restart task restarts, or 0
    status,      \* the session table; "absent": not registered
    detecting,   \* finished turns whose detectPullRequest has not answered
    killWait,    \* devin_restart calls that wait for the old process to die
    proc,        \* every `devin acp` process
    prompts,     \* session/prompt requests outstanding on each process
    client,      \* activeClients
    pid,         \* the pid recorded in the session's meta
    raced        \* history: the sessions two messages re-attached in parallel

tasksVars == <<invoked, wt, parent>>
procVars  == <<prompts, client, pid, raced>>
vars == <<open, maxRuns, invoked, queue, pending, drainTask, stage, wt, parent,
          status, detecting, killWait, proc, prompts, client, pid, raced>>

Init ==
    /\ open = TRUE
    /\ maxRuns \in 1..MaxLimit
    /\ invoked = 0
    /\ queue = <<>>
    /\ pending = 0
    /\ drainTask = 0
    /\ stage = [t \in Task |-> "none"]
    /\ wt = [t \in Task |-> "no"]
    /\ parent = [t \in Task |-> 0]
    /\ status = [t \in Task |-> "absent"]
    /\ detecting = [t \in Task |-> 0]
    /\ killWait = [t \in Task |-> 0]
    /\ proc = [p \in Proc |-> "unused"]
    /\ prompts = [p \in Proc |-> 0]
    /\ client = [t \in Task |-> NoProc]
    /\ pid = [t \in Task |-> NoProc]
    /\ raced = {}

-----------------------------------------------------------------------------
(* Slots and the drain loop *)

Active(s) == {t \in Task : s[t] \in InTurn}

\* SessionSlots.inFlight: registered turns plus reserved starts.  Between
\* session/new and set_mode's answer a start counts on both sides.
InFlight == Cardinality(Active(status)) + pending

\* The admitted tasks, each once: what the limit is about.
Holding  == {t \in Task : stage[t] \in Starting}
Engaged  == Holding \cup Active(status)

FaultOneTooMany == InFlight <= maxRuns
CanReserve == InFlight < maxRuns

\* pending once a reserved slot is handed back; a second call of the same
\* release does nothing.
Release == pending - 1

\* A new task starts at once only when nobody waits.
MayStartNow == queue = <<>> /\ CanReserve

\* One run of drainQueue admits the first k tasks of q: it goes on while a slot
\* is free and the queue is not empty, and awaits at the first worktree.
FaultLastSlotUnused(k, q, free, w) ==
    /\ k > 0 => k < free
    /\ \A i \in 1..(k-1) : w[q[i]] # "wanted"
    /\ k = Len(q) \/ k >= free - 1 \/ (k > 0 /\ w[q[k]] = "wanted")

AdmitsPrefix(k, q, free, w) ==
    /\ k > 0 => k <= free
    /\ \A i \in 1..(k-1) : w[q[i]] # "wanted"
    /\ \/ k = Len(q)
       \/ k >= free
       \/ k > 0 /\ w[q[k]] = "wanted"

\* drainQueue() called with drain task d, queue q, n reserved slots, stages st
\* and processes pr.  The caller has already set status', wt' and maxRuns'.
Drain(d, q, n, st, pr) ==
    \/ /\ d # 0               \* a drain is in progress: it will look again
       /\ drainTask' = d
       /\ queue' = q
       /\ pending' = n
       /\ stage' = st
       /\ proc' = pr
    \/ /\ d = 0
       /\ \E k \in 0..Len(q) :
            LET admitted == {q[i] : i \in 1..k}
            IN  /\ AdmitsPrefix(k, q, maxRuns' - Cardinality(Active(status')) - n, wt')
                /\ queue' = SubSeq(q, k + 1, Len(q))
                /\ pending' = n + k
                /\ stage' = [t \in Task |->
                                IF t \notin admitted THEN st[t]
                                ELSE IF wt'[t] = "wanted" THEN "worktree" ELSE "spawn"]
                /\ proc' = [p \in Proc |->
                                IF p[2] = 0 /\ p[1] \in admitted /\ wt'[p[1]] # "wanted"
                                THEN "handshake" ELSE pr[p]]
                /\ drainTask' = IF k > 0 /\ wt'[q[k]] = "wanted" THEN q[k] ELSE 0

\* The admission rule of devin_delegate and devin_restart for the task t whose
\* stage is st[t]: start at once into stage s, or queue behind the others.
Admission(t, s) ==
    \/ /\ MayStartNow
       /\ pending' = pending + 1
       /\ stage' = [stage EXCEPT ![t] = s]
       /\ proc' = IF s = "spawn" THEN [proc EXCEPT ![<<t, 0>>] = "handshake"] ELSE proc
       /\ UNCHANGED <<queue, drainTask>>
    \/ /\ ~ MayStartNow
       /\ Drain(drainTask, Append(queue, t), pending,
                [stage EXCEPT ![t] = "queued"], proc)

-----------------------------------------------------------------------------
(* devin_delegate *)

\* The bound: there is room for one more task or re-attached process.
MoreWork ==
    invoked + Cardinality({p \in Proc : p[2] > 0 /\ proc[p] # "unused"}) < MaxWork

Delegate(w) ==
    /\ open
    /\ invoked < MaxTasks /\ MoreWork
    /\ invoked' = invoked + 1
    /\ wt' = [wt EXCEPT ![invoked + 1] = IF w THEN "wanted" ELSE "no"]
    /\ UNCHANGED <<status, maxRuns>>
    /\ Admission(invoked + 1, IF w THEN "worktree" ELSE "spawn")
    /\ UNCHANGED <<open, parent, detecting, killWait, procVars>>

\* The continuation of t's start is the one that awaits in stage s.
FaultStopsAtShutdown(t, s) == stage[t] = s /\ open
Awaits(t, s) == stage[t] = s

\* createWorktree of a task the tool started itself succeeds: startSession.
ToolWorktreeReady(t) ==
    /\ Awaits(t, "worktree") /\ t # drainTask
    /\ wt' = [wt EXCEPT ![t] = "have"]
    /\ stage' = [stage EXCEPT ![t] = "spawn"]
    /\ proc' = [proc EXCEPT ![<<t, 0>>] = "handshake"]
    /\ UNCHANGED <<open, maxRuns, invoked, queue, pending, drainTask, parent,
                   status, detecting, killWait, procVars>>

\* It fails: the tool reports the error and gives the slot back.
ToolWorktreeFails(t) ==
    /\ Awaits(t, "worktree") /\ t # drainTask
    /\ UNCHANGED <<status, maxRuns, wt>>
    /\ Drain(drainTask, queue, Release, [stage EXCEPT ![t] = "failed"], proc)
    /\ UNCHANGED <<open, invoked, parent, detecting, killWait, procVars>>

\* createWorktree of a dequeued task answers; a failure is only logged.  The
\* drain starts the session and goes on with its loop.
DrainWorktreeDone(made) ==
    LET t == drainTask
    IN  /\ t # 0
        /\ wt' = [wt EXCEPT ![t] = IF made THEN "have" ELSE "wanted"]
        /\ UNCHANGED <<status, maxRuns>>
        /\ Drain(0, queue, pending, [stage EXCEPT ![t] = "spawn"],
                 [proc EXCEPT ![<<t, 0>>] = "handshake"])
        /\ UNCHANGED <<open, invoked, parent, detecting, killWait, procVars>>

-----------------------------------------------------------------------------
(* startSession *)

\* Spawn, initialize or session/new fails (error, timeout or exit): the client
\* is disposed and the caller releases the slot and drains.
StartFails(t) ==
    /\ Awaits(t, "spawn")
    /\ UNCHANGED <<status, maxRuns, wt>>
    /\ Drain(drainTask, queue, Release, [stage EXCEPT ![t] = "failed"],
             [proc EXCEPT ![<<t, 0>>] = "dying"])
    /\ UNCHANGED <<open, invoked, parent, detecting, killWait, procVars>>

\* session/new answers: the session is registered, its slot still reserved.
Register(t) ==
    /\ Awaits(t, "spawn")
    /\ stage' = [stage EXCEPT ![t] = "mode"]
    /\ status' = [status EXCEPT ![t] = "running"]
    /\ proc' = [proc EXCEPT ![<<t, 0>>] = "live"]
    /\ client' = [client EXCEPT ![t] = <<t, 0>>]
    /\ pid' = [pid EXCEPT ![t] = <<t, 0>>]
    /\ UNCHANGED <<open, maxRuns, queue, pending, drainTask, tasksVars,
                   detecting, killWait, prompts, raced>>

\* set_mode settles (a failure is only logged): the prompt is sent, the start
\* returns, its slot is released and the queue drained.
ModeSet(t) ==
    /\ Awaits(t, "mode")
    /\ UNCHANGED <<status, maxRuns, wt>>
    /\ prompts' = [prompts EXCEPT ![<<t, 0>>] = @ + 1]
    /\ Drain(drainTask, queue, Release, [stage EXCEPT ![t] = "done"], proc)
    /\ UNCHANGED <<open, invoked, parent, detecting, killWait, client, pid, raced>>

-----------------------------------------------------------------------------
(* Turns *)

\* The handlers write to the session's meta object; once the shutdown has
\* cleared the table that object is in no table any more.
SetStatus(t, s) == [status EXCEPT ![t] = IF @ = "absent" THEN "absent" ELSE s]

\* session/prompt answers: idle at once, but with a worktree the queue is only
\* drained after detectPullRequest.
TurnEnds(p) ==
    LET t == p[1]
    IN  /\ proc[p] = "live" /\ prompts[p] > 0
        /\ prompts' = [prompts EXCEPT ![p] = @ - 1]
        /\ status' = SetStatus(t, "idle")
        /\ UNCHANGED <<maxRuns, wt>>
        /\ \/ /\ wt[t] = "have"
              /\ detecting' = [detecting EXCEPT ![t] = @ + 1]
              /\ UNCHANGED <<queue, pending, drainTask, stage, proc>>
           \/ /\ wt[t] # "have"
              /\ Drain(drainTask, queue, pending, stage, proc)
              /\ UNCHANGED detecting
        /\ UNCHANGED <<open, invoked, parent, killWait, client, pid, raced>>

FaultIdleAgain(t) ==
    /\ detecting[t] > 0
    /\ detecting' = [detecting EXCEPT ![t] = @ - 1]
    /\ status' = SetStatus(t, "idle")
    /\ UNCHANGED <<maxRuns, wt>>
    /\ Drain(drainTask, queue, pending, stage, proc)
    /\ UNCHANGED <<open, invoked, parent, killWait, procVars>>

\* detectPullRequest answers: now the queue is drained.
Detected(t) ==
    /\ detecting[t] > 0
    /\ detecting' = [detecting EXCEPT ![t] = @ - 1]
    /\ UNCHANGED <<status, maxRuns, wt>>
    /\ Drain(drainTask, queue, pending, stage, proc)
    /\ UNCHANGED <<open, invoked, parent, killWait, procVars>>

\* What the rejection of n outstanding prompts leaves of status s: only a turn
\* that is still in flight becomes failed.
AfterReject(s, n) == IF n > 0 /\ s \in InTurn THEN "failed" ELSE s

\* Devin answers session/prompt with an error.
TurnErrors(p) ==
    LET t == p[1]
    IN  /\ proc[p] = "live" /\ prompts[p] > 0
        /\ prompts' = [prompts EXCEPT ![p] = @ - 1]
        /\ status' = SetStatus(t, AfterReject(status[t], prompts[p]))
        /\ UNCHANGED <<maxRuns, wt>>
        /\ \/ /\ status[t] \in InTurn
              /\ Drain(drainTask, queue, pending, stage, proc)
           \/ /\ status[t] \notin InTurn
              /\ UNCHANGED <<queue, pending, drainTask, stage, proc>>
        /\ UNCHANGED <<open, invoked, parent, detecting, killWait, client, pid, raced>>

\* The stall watchdog: no ACP update for the stall timeout.
Stall(t) ==
    /\ stage[t] = "done" /\ status[t] = "running"
    /\ status' = [status EXCEPT ![t] = "stalled"]
    /\ UNCHANGED <<open, maxRuns, queue, pending, drainTask, stage, tasksVars,
                   detecting, killWait, proc, procVars>>

\* A session/update or a permission request of a wired client.
Activity(p) ==
    /\ proc[p] = "live" /\ status[p[1]] = "stalled"
    /\ status' = [status EXCEPT ![p[1]] = "running"]
    /\ UNCHANGED <<open, maxRuns, queue, pending, drainTask, stage, tasksVars,
                   detecting, killWait, proc, procVars>>

-----------------------------------------------------------------------------
(* The end of a process *)

\* A start that awaits set_mode on a client that just went away continues at
\* once (the rejection is only logged) and releases its slot.
FaultSlotLeaks(t)   == pending
StageAfterLoss(t)   == IF stage[t] = "mode" THEN [stage EXCEPT ![t] = "done"] ELSE stage
PendingAfterLoss(t) == IF stage[t] = "mode" THEN Release ELSE pending

\* activeClients after the exit of a process of session t: also between turns,
\* or devin_message would write to a destroyed stdin.
FaultDropInTurnOnly(t) ==
    IF status[t] \in InTurn THEN [client EXCEPT ![t] = NoProc] ELSE client
ClientAfterExit(t) == [client EXCEPT ![t] = NoProc]

\* A wired process exits by itself, with code 0 or not.  Its exit callback
\* drops whatever client the session has; its requests are rejected after.
Exits(p, clean) ==
    LET t == p[1]
        s == IF status[t] \in InTurn
             THEN IF clean THEN "idle" ELSE "interrupted"
             ELSE status[t]
        gone == [proc EXCEPT ![p] = "dead"]
    IN  /\ proc[p] = "live"
        /\ client' = ClientAfterExit(t)
        /\ status' = SetStatus(t, AfterReject(s, prompts[p]))
        /\ prompts' = [prompts EXCEPT ![p] = 0]
        /\ UNCHANGED <<maxRuns, wt>>
        /\ \/ /\ status[t] \in InTurn \/ stage[t] = "mode"
              /\ Drain(drainTask, queue, PendingAfterLoss(t), StageAfterLoss(t), gone)
           \/ /\ status[t] \notin InTurn /\ stage[t] # "mode"
              /\ proc' = gone
              /\ UNCHANGED <<queue, pending, drainTask, stage>>
        /\ UNCHANGED <<open, invoked, parent, detecting, killWait, pid, raced>>

\* A disposed process is gone: its callbacks were cleared.
Dies(p) ==
    /\ proc[p] = "dying"
    /\ proc' = [proc EXCEPT ![p] = "dead"]
    /\ UNCHANGED <<open, maxRuns, queue, pending, drainTask, stage, tasksVars,
                   status, detecting, killWait, procVars>>

-----------------------------------------------------------------------------
(* devin_message *)

Reattaching(t) == \E i \in 1..MaxReattach : proc[<<t, i>>] = "handshake"

MessageAccepted(t) ==
    /\ open
    /\ status[t] \in Settled
    /\ detecting[t] < MaxOverlap

\* The session still has its client: the next turn starts at once, without a
\* slot being reserved for it.
Message(t) ==
    /\ MessageAccepted(t)
    /\ client[t] # NoProc
    /\ status' = [status EXCEPT ![t] = "running"]
    /\ prompts' = [prompts EXCEPT ![client[t]] = @ + 1]
    /\ UNCHANGED <<open, maxRuns, queue, pending, drainTask, stage, tasksVars,
                   detecting, killWait, proc, client, pid, raced>>

\* It has none: a new process is spawned and its handshake awaited.  Until it
\* answers the status stays settled and the session without a client, so that
\* a second message re-attaches it too.
MessageReattach(t) ==
    /\ MessageAccepted(t)
    /\ client[t] = NoProc
    /\ MoreWork
    /\ \E i \in 1..MaxReattach :
         /\ proc[<<t, i>>] = "unused"
         /\ \A j \in 1..(i-1) : proc[<<t, j>>] # "unused"
         /\ proc' = [proc EXCEPT ![<<t, i>>] = "handshake"]
    /\ raced' = IF Reattaching(t) THEN raced \cup {t} ELSE raced
    /\ UNCHANGED <<open, maxRuns, queue, pending, drainTask, stage, tasksVars,
                   status, detecting, killWait, prompts, client, pid>>

\* The handshake answers: whatever happened to the session meanwhile, it gets
\* the client, the pid, the status running and the prompt.  A client it had got
\* from another message is overwritten and its process forgotten.
Reattached(p) ==
    LET t == p[1]
    IN  /\ p[2] > 0 /\ proc[p] = "handshake"
        /\ proc' = [proc EXCEPT ![p] = "live"]
        /\ client' = [client EXCEPT ![t] = p]
        /\ pid' = [pid EXCEPT ![t] = p]
        /\ status' = SetStatus(t, "running")
        /\ prompts' = [prompts EXCEPT ![p] = 1]
        /\ UNCHANGED <<open, maxRuns, queue, pending, drainTask, stage,
                       tasksVars, detecting, killWait, raced>>

ReattachFails(p) ==
    /\ p[2] > 0 /\ proc[p] = "handshake"
    /\ proc' = [proc EXCEPT ![p] = "dying"]
    /\ UNCHANGED <<open, maxRuns, queue, pending, drainTask, stage, tasksVars,
                   status, detecting, killWait, procVars>>

-----------------------------------------------------------------------------
(* devin_cancel and /devin cancel *)

Spliced(q, i) == SubSeq(q, 1, i - 1) \o SubSeq(q, i + 1, Len(q))

CancelQueued(i) ==
    /\ open
    /\ queue' = Spliced(queue, i)
    /\ stage' = [stage EXCEPT ![queue[i]] = "dropped"]
    /\ UNCHANGED <<open, maxRuns, pending, drainTask, tasksVars, status,
                   detecting, killWait, proc, procVars>>

\* The prompts a client c (or no client) still waits for.
Outstanding(c) == IF c = NoProc THEN 0 ELSE prompts[c]

\* Terminal status, then the client is disposed (its requests are rejected at
\* once) or, without one, a recorded process that is still alive is signalled;
\* an undisposed process keeps its callbacks, so its end is an Exits step.
CancelSession(t) ==
    LET c == client[t]
    IN  /\ open
        /\ status[t] # "absent"
        /\ status' = [status EXCEPT ![t] = AfterReject("cancelled", Outstanding(c))]
        /\ client' = [client EXCEPT ![t] = NoProc]
        /\ prompts' = IF c = NoProc THEN prompts ELSE [prompts EXCEPT ![c] = 0]
        /\ UNCHANGED <<maxRuns, wt>>
        /\ Drain(drainTask, queue, PendingAfterLoss(t), StageAfterLoss(t),
                 IF c = NoProc THEN proc ELSE [proc EXCEPT ![c] = "dying"])
        /\ UNCHANGED <<open, invoked, parent, detecting, killWait, pid, raced>>

-----------------------------------------------------------------------------
(* devin_restart: a new task in the old session's worktree *)

PidAlive(t) == pid[t] # NoProc /\ proc[pid[t]] \in {"live", "dying"}

\* The rest of the handler once the old process is known to be gone.
RestartGo(t) ==
    LET n == invoked + 1
    IN  /\ invoked < MaxTasks /\ MoreWork
        /\ invoked' = n
        /\ parent' = [parent EXCEPT ![n] = t]
        /\ \/ /\ wt[t] # "no"      \* no worktree, or it was released meanwhile
              /\ wt' = [wt EXCEPT ![n] = "wanted"]
              /\ stage' = [stage EXCEPT ![n] = "recreate"]
              /\ UNCHANGED <<queue, pending, drainTask, proc>>
           \/ /\ wt[t] # "wanted"  \* none asked for, or it is still there
              /\ wt' = [wt EXCEPT ![n] = wt[t]]
              /\ UNCHANGED <<status, maxRuns>>
              /\ Admission(n, "spawn")
        /\ UNCHANGED <<status, maxRuns>>

Restart(t) ==
    /\ open
    /\ status[t] \in Settled
    /\ ~ PidAlive(t)
    /\ RestartGo(t)
    /\ UNCHANGED <<open, detecting, killWait, procVars>>

\* A cancelled session whose process is still in its kill window.
RestartKills(t) ==
    /\ open
    /\ status[t] = "cancelled"
    /\ PidAlive(t)
    /\ killWait[t] < MaxOverlap
    /\ killWait' = [killWait EXCEPT ![t] = @ + 1]
    /\ UNCHANGED <<open, maxRuns, queue, pending, drainTask, stage, tasksVars,
                   status, detecting, proc, procVars>>

RestartAfterKill(t) ==
    /\ killWait[t] > 0
    /\ ~ PidAlive(t)
    /\ killWait' = [killWait EXCEPT ![t] = @ - 1]
    /\ RestartGo(t)
    /\ UNCHANGED <<open, detecting, procVars>>

\* The process outlives the wait: the tool asks to try again.
RestartGivesUp(t) ==
    /\ killWait[t] > 0
    /\ PidAlive(t)
    /\ killWait' = [killWait EXCEPT ![t] = @ - 1]
    /\ UNCHANGED <<open, maxRuns, queue, pending, drainTask, stage, tasksVars,
                   status, detecting, proc, procVars>>

Recreated(n) ==
    /\ stage[n] = "recreate"
    /\ wt' = [wt EXCEPT ![n] = "have"]
    /\ UNCHANGED <<status, maxRuns>>
    /\ Admission(n, "spawn")
    /\ UNCHANGED <<open, invoked, parent, detecting, killWait, procVars>>

RecreateFails(n) ==
    /\ stage[n] = "recreate"
    /\ stage' = [stage EXCEPT ![n] = "failed"]
    /\ UNCHANGED <<open, maxRuns, queue, pending, drainTask, tasksVars, status,
                   detecting, killWait, proc, procVars>>

-----------------------------------------------------------------------------
(* /devin limit and session_shutdown *)

SetLimit(n) ==
    /\ open
    /\ maxRuns' = n
    /\ UNCHANGED <<status, wt>>
    /\ Drain(drainTask, queue, pending, stage, proc)
    /\ UNCHANGED <<open, invoked, parent, detecting, killWait, procVars>>

\* The clients are disposed and the tables cleared; the starts that are still
\* on their way are in none of those tables.
Shutdown ==
    /\ open
    /\ open' = FALSE
    /\ queue' = <<>>
    /\ pending' = pending - Cardinality({t \in Task : stage[t] = "mode"})
    /\ stage' = [t \in Task |-> IF stage[t] = "mode" THEN "done"
                                ELSE IF stage[t] = "queued" THEN "dropped"
                                ELSE stage[t]]
    /\ status' = [t \in Task |-> "absent"]
    /\ proc' = [p \in Proc |-> IF client[p[1]] = p THEN "dying" ELSE proc[p]]
    /\ prompts' = [p \in Proc |-> IF client[p[1]] = p THEN 0 ELSE prompts[p]]
    /\ client' = [t \in Task |-> NoProc]
    /\ UNCHANGED <<maxRuns, drainTask, tasksVars, detecting, killWait, pid, raced>>

-----------------------------------------------------------------------------
Tool ==
    \/ \E w \in BOOLEAN : Delegate(w)
    \/ \E n \in 1..MaxLimit : SetLimit(n)
    \/ \E i \in 1..Len(queue) : CancelQueued(i)
    \/ \E t \in Task : \/ Message(t) \/ MessageReattach(t)
                       \/ CancelSession(t) \/ Restart(t) \/ RestartKills(t)

\* Continuations: each awaits something that answers or times out.
Continuation ==
    \/ \E made \in BOOLEAN : DrainWorktreeDone(made)
    \/ \E t \in Task : \/ ToolWorktreeReady(t) \/ ToolWorktreeFails(t)
                       \/ StartFails(t) \/ Register(t) \/ ModeSet(t)
                       \/ Detected(t)
                       \/ RestartAfterKill(t) \/ RestartGivesUp(t)
                       \/ Recreated(t) \/ RecreateFails(t)
    \/ \E p \in Proc : Reattached(p) \/ ReattachFails(p) \/ Dies(p)

Devin ==
    \/ \E t \in Task : Stall(t)
    \/ \E p \in Proc : \/ TurnEnds(p) \/ TurnErrors(p) \/ Activity(p)
                       \/ \E clean \in BOOLEAN : Exits(p, clean)

Next == Tool \/ Continuation \/ Devin \/ Shutdown

Spec == Init /\ [][Next]_vars

-----------------------------------------------------------------------------
(* Properties *)

\* The shape of the state.
TypeOK ==
    /\ open \in BOOLEAN
    /\ maxRuns \in 1..MaxLimit
    /\ invoked \in 0..MaxTasks
    /\ queue \in Seq(Task)
    /\ pending \in Nat
    /\ drainTask \in 0..MaxTasks
    /\ stage \in [Task -> Stage]
    /\ wt \in [Task -> {"no", "wanted", "have"}]
    /\ parent \in [Task -> 0..MaxTasks]
    /\ status \in [Task -> Status]
    /\ detecting \in [Task -> Nat]
    /\ killWait \in [Task -> Nat]
    /\ proc \in [Proc -> ProcState]
    /\ prompts \in [Proc -> Nat]
    /\ client \in [Task -> Proc \cup {NoProc}]
    /\ pid \in [Task -> Proc \cup {NoProc}]
    /\ raced \subseteq Task

\* The reserved slots are exactly the starts that are on their way: every path
\* out of a start (success, failure, cancel, exit, shutdown, worktree error)
\* gives its slot back once and only once.
SlotAccounting == pending = Cardinality(Holding)

\* The queue holds each waiting task once and nothing else, whatever cancels
\* and drains interleave with the awaits of the drain loop.
QueueMatchesStage ==
    /\ \A i, j \in 1..Len(queue) : queue[i] = queue[j] => i = j
    /\ \A t \in Task : stage[t] = "queued" <=> \E i \in 1..Len(queue) : queue[i] = t

\* No event that frees a slot forgets the queue: when tasks wait and no drain
\* is in progress, every slot is taken, or a finished turn still looks for its
\* pull request and drains afterwards.
NoLostWakeup ==
    queue # <<>> /\ drainTask = 0
        => InFlight >= maxRuns \/ \E t \in Task : detecting[t] > 0

\* A task is admitted (by a tool or by a drain, which may admit several at
\* once) only if all admitted starts and turns together fit in the limit.
AdmissionWithinLimit ==
    [][Holding' \ Holding # {} => Cardinality(Engaged') <= maxRuns']_vars

\* FIFO: a task that is admitted never passes one that waited before it and
\* still waits; in particular a new delegation does not overtake the queue in
\* the windows where a slot is free and the queue is not empty.
NoOvertaking ==
    [][\A t \in Holding' \ Holding : \A i \in 1..Len(queue) :
          (\E j \in 1..Len(queue') : queue'[j] = queue[i])
             => \E h \in 1..(i-1) : queue[h] = t]_vars

\* The processes that finished their handshake and are not the client the
\* session has.
Forgotten(t) == {i \in 0..MaxReattach : proc[<<t, i>>] = "live" /\ client[t] # <<t, i>>}

\* A started session that holds a slot has a prompt outstanding.  As long as
\* none of its processes is forgotten it holds the slot exactly as long as Devin
\* works for it: in a turn, one prompt is outstanding, on the client it has;
\* otherwise none is.  Without the first a slot is held for ever, without the
\* second Devin works uncounted.
TurnMatchesPrompt ==
    \A t \in Task : stage[t] = "done" /\ status[t] # "absent" =>
       LET busy == {i \in 0..MaxReattach : prompts[<<t, i>>] > 0}
       IN  /\ status[t] \in InTurn => busy # {}
           /\ Forgotten(t) = {} =>
                IF status[t] \in InTurn
                THEN \E i \in busy : /\ busy = {i} /\ prompts[<<t, i>>] = 1
                                     /\ client[t] = <<t, i>>
                ELSE busy = {}

\* activeClients never holds a client whose process is gone; and no process
\* that finished its handshake runs outside activeClients, where neither a
\* cancel nor the exit hooks would find it, unless a devin_message re-attached
\* the session while another one was re-attaching it.
ClientsAreTheLiveProcesses ==
    \A t \in Task :
       /\ \A i \in 0..MaxReattach : client[t] = <<t, i>> => proc[<<t, i>>] = "live"
       /\ Forgotten(t) # {} => t \in raced

\* Status, prompts, clients and processes agree, through exits, rejections,
\* cancels, restarts and re-attachments in any order; what two messages that
\* re-attach one session in parallel break is told in the two parts.
SessionsMatchTheirProcesses == TurnMatchesPrompt /\ ClientsAreTheLiveProcesses

\* A cancelled session stays cancelled, whatever its process, its start or its
\* lookups still deliver, until a devin_message gives it a new client.  The one
\* exception is a session two messages re-attached in parallel: the cancel does
\* not reach the process that was forgotten, and the end of its turn makes the
\* session idle again.
CancelIsTerminal ==
    [][\A t \in Task : status[t] = "cancelled" /\ status'[t] # "cancelled" =>
          \/ status'[t] = "absent"
          \/ client'[t] # client[t] /\ status'[t] = "running"
          \/ /\ t \in raced /\ status'[t] = "idle"
             /\ \E i \in Forgotten(t) : prompts'[<<t, i>>] < prompts[<<t, i>>]]_vars

\* Admission implements the abstract promise: a line served in order, within
\* the limit.
Promise == INSTANCE AdmissionQueue WITH
    Job <- Task, Limits <- 1..MaxLimit,
    limit <- maxRuns, waiting <- queue, serving <- Engaged,
    seen <- {t \in Task : stage[t] \notin {"none", "recreate"}}

ImplementsAdmission == Promise!Spec

-----------------------------------------------------------------------------
(* Liveness: every await of a start, a lookup or a kill answers or times out *)
(* (60 s on handshake RPCs, command timeouts on git, orca and gh, 1.5 s to    *)
(* SIGKILL).  Nothing is assumed of turns, tools or the agent.                *)

Settles(t) ==
    \/ ToolWorktreeReady(t) \/ ToolWorktreeFails(t)
    \/ StartFails(t) \/ Register(t) \/ ModeSet(t)

LiveSpec ==
    /\ Spec
    /\ WF_vars(\E made \in BOOLEAN : DrainWorktreeDone(made))
    /\ \A t \in Task : WF_vars(Settles(t)) /\ WF_vars(Detected(t))

\* No start keeps its slot for ever.
StartsSettle == \A t \in Task : t \in Holding ~> t \notin Holding

=============================================================================
