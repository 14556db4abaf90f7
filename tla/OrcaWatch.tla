------------------------------ MODULE OrcaWatch ------------------------------
(***************************************************************************)
(* orca-orchestration.ts: the workers that a pi session dispatched through     *)
(* Orca, the `orca orchestration check --wait` process that waits for their    *)
(* messages, and the reconciliation with Orca's worker list.                  *)
(*                                                                           *)
(* Orca itself is modelled from how the extension uses it: per run an inbox,    *)
(* whose messages come as one delivery, again and again until it is            *)
(* acknowledged.  A check process acknowledges what it was given, waits, prints *)
(* one delivery and exits.  Succeeded and failed workers are "settled",         *)
(* stopped and released ones "closed".                                       *)
(***************************************************************************)
EXTENDS Integers, FiniteSets

CONSTANTS
    Runs, Workers,
    None,           \* no run
    Slots,          \* bound on the check processes that are not closed yet
    Budgets         \* bounds, one of which a behaviour has: on tool calls and their kinds, on
                    \* the workers that ask (a question each), on workers and sessions that
                    \* end, on commands that fail, and MAX_OBSERVED_WORKERS

ToolKinds == {"dispatch", "observe", "lookup", "start", "release", "forget", "stop"}

ASSUME OrcaAssumption ==
    /\ Runs # {} /\ Workers # {} /\ None \notin Runs
    /\ Slots \subseteq Nat \ {0}
    /\ Budgets \subseteq [calls : Nat, kinds : SUBSET ToolKinds, asks : SUBSET Workers, exits : Nat,
                    ends : Nat, fails : Nat, limit : Nat]

VARIABLES
    disposed,
    run,            \* activeRunId
    workers,        \* observedWorkers
    proc, procs,    \* checkProcess (0: null), and all that are not closed yet
    spawn,          \* the spawn of the newest generation, while orca's path is looked up
    timer, strays,  \* restartCheckTimer, and armed timers whose handle was overwritten
    pending,        \* lastPendingAckDeliveryId with its run
    acks,           \* `check --ack` calls under way
    round, boot,    \* reconcileWorkers and boot-discovery
    call,           \* the tool call under way (one at a time)
    left,           \* what is left of the budget
    \* Orca:
    bound,          \* the run of this terminal
    real,           \* its workers
    inbox, open,    \* per run: messages not delivered yet, and the delivery not acknowledged
    issued,         \* deliveries so far
    \* history, for the properties:
    told,           \* how often (up to twice) the agent was told of a message
    promised,       \* workers it was promised to hear of
    smooth,         \* no watcher was killed or died with an ack to give, and no run left
    overtaken       \* a run was created although meanwhile another one was discovered

watchVars == <<proc, procs, spawn, timer, smooth>>
orcaVars  == <<bound, real, inbox, open, issued>>
vars == <<disposed, run, workers, watchVars, strays, pending, acks, round, boot, call, left,
          orcaVars, told, promised, overtaken>>

Messages == Workers \X {"done", "question", "exit"}
NoSpawn  == [run |-> None, ack |-> 0]
NoAck    == [id |-> 0, run |-> None]
Nothing  == [id |-> 0, msgs |-> {}]
Closed   == [pc |-> "closed", run |-> None, ack |-> 0, killed |-> FALSE, line |-> Nothing]
NoRound  == [pc |-> "idle", run |-> None, task |-> TRUE, aborted |-> FALSE, rows |-> <<>>]
NoBoot   == [asked |-> FALSE, run |-> None]
NoCall   == [kind |-> "none", pc |-> "idle", worker |-> CHOOSE w \in Workers : TRUE,
             run |-> None, life |-> "none"]
Absent   == [status |-> "absent", outcome |-> "none"]
Worker(s) == [status |-> s, outcome |-> "none"]

Init ==
    /\ bound \in {None, CHOOSE r \in Runs : TRUE}      \* one run is as good as another
    /\ disposed = FALSE /\ run = None /\ workers = [w \in Workers |-> Absent]
    /\ proc = 0 /\ procs = [s \in Slots |-> Closed] /\ spawn = NoSpawn
    /\ timer = FALSE /\ strays = 0 /\ pending = NoAck /\ acks = {}
    /\ round = NoRound /\ boot = [asked |-> TRUE, run |-> bound] /\ call = NoCall
    /\ left \in Budgets
    /\ real = [w \in Workers |-> [run |-> None, life |-> "none"]]
    /\ inbox = [r \in Runs |-> {}] /\ open = [r \in Runs |-> Nothing] /\ issued = 0
    /\ told = [m \in Messages |-> 0] /\ promised = {} /\ smooth = TRUE /\ overtaken = FALSE

(* The check process *)

Running(s) == s # 0 /\ procs[s].pc \in {"begin", "wait", "line"}

\* Mutant: the stop forgets the spawn that is still looking for orca.
MutantStop(next) ==
    /\ proc' = 0 /\ timer' = FALSE
    /\ procs' = [s \in Slots |-> IF s = proc THEN [procs[s] EXCEPT !.killed = TRUE] ELSE procs[s]]
    /\ spawn' = IF next = NoSpawn THEN spawn ELSE next
    /\ smooth' = (smooth /\ ~Running(proc) /\ run \in {None, next.run})

\* Every stop retires the generation: no spawn under way can claim any more.
StopCheck(next) ==
    /\ proc' = 0 /\ timer' = FALSE
    /\ procs' = [s \in Slots |-> IF s = proc THEN [procs[s] EXCEPT !.killed = TRUE] ELSE procs[s]]
    /\ spawn' = next
    /\ smooth' = (smooth /\ ~Running(proc) /\ run \in {None, next.run})

StopCheckProcess == StopCheck(NoSpawn)

\* Mutant: the acknowledgement is not handed to the next watcher.
MutantPending(r) == 0

\* Only the run that delivered it takes the acknowledgement.
PendingFor(r) == IF pending.run = r THEN pending.id ELSE 0

StartCheckProcess(r) ==
    IF disposed \/ r = None THEN UNCHANGED watchVars
    ELSE StopCheck([run |-> r, ack |-> PendingFor(r)])

\* The acknowledgement counts as given once the process is adopted.
SpawnResolves ==
    /\ spawn # NoSpawn
    /\ \E s \in Slots :
          /\ procs[s] = Closed /\ \A q \in Slots : q < s => procs[q] # Closed
          /\ procs' = [procs EXCEPT ![s] = [Closed EXCEPT
                          !.pc = IF spawn.ack = 0 THEN "wait" ELSE "begin", !.run = spawn.run, !.ack = spawn.ack]]
          /\ proc' = s
    /\ pending' = IF pending.id = spawn.ack THEN NoAck ELSE pending
    /\ spawn' = NoSpawn
    /\ UNCHANGED <<disposed, run, workers, timer, smooth, strays, acks, round, boot, call, left, orcaVars, told, promised, overtaken>>

Acknowledge(id) == open' = [r \in Runs |-> IF open[r].id = id THEN Nothing ELSE open[r]]

CheckBegins(s) ==
    /\ procs[s].pc = "begin"
    /\ Acknowledge(procs[s].ack)
    /\ procs' = [procs EXCEPT ![s].pc = "wait", ![s].ack = 0]
    /\ UNCHANGED <<disposed, run, workers, proc, spawn, timer, smooth, strays, pending, acks, round, boot, call, left,
                   bound, real, inbox, issued, told, promised, overtaken>>

CheckPrints(s) ==
    /\ procs[s].pc = "wait"
    /\ LET r == procs[s].run
       IN  /\ open[r] # Nothing \/ inbox[r] # {}
           /\ IF open[r] # Nothing THEN UNCHANGED <<open, inbox, issued>>
              ELSE /\ open' = [open EXCEPT ![r] = [id |-> issued + 1, msgs |-> inbox[r]]]
                   /\ inbox' = [inbox EXCEPT ![r] = {}]
                   /\ issued' = issued + 1
           /\ procs' = [procs EXCEPT ![s].pc = "line", ![s].line = open'[r]]
    /\ UNCHANGED <<disposed, run, workers, proc, spawn, timer, smooth, strays, pending, acks, round, boot, call, left,
                   bound, real, told, promised, overtaken>>

\* 900 s without a message.
CheckTimesOut(s) ==
    /\ procs[s].pc = "wait" /\ open[procs[s].run] = Nothing /\ inbox[procs[s].run] = {}
    /\ procs' = [procs EXCEPT ![s].pc = "exit"]
    /\ UNCHANGED <<disposed, run, workers, proc, spawn, timer, smooth, strays, pending, acks, round, boot, call, left,
                   orcaVars, told, promised, overtaken>>

\* Killed, or Orca fails.  What a process wrote before it was
\* killed is still read.
CheckEnds(s) ==
    /\ procs[s].pc \in {"begin", "wait"}
    /\ IF procs[s].killed THEN UNCHANGED left
       ELSE left.fails > 0 /\ left' = [left EXCEPT !.fails = @ - 1]
    /\ procs' = [procs EXCEPT ![s].pc = "exit"]
    /\ smooth' = (smooth /\ procs[s].pc # "begin")
    /\ UNCHANGED <<disposed, run, workers, proc, spawn, timer, strays, pending, acks, round, boot, call,
                   orcaVars, told, promised, overtaken>>

\* evictSettledWorkers: none of the running ones.
Evicted(ws) ==
    LET size == Cardinality({w \in Workers : ws[w] # Absent})
        settled == {w \in Workers : ws[w].status \in {"settled", "closed"}}
        over == IF size <= left.limit THEN 0
                ELSE IF size - left.limit <= Cardinality(settled) THEN size - left.limit
                ELSE Cardinality(settled)
    IN  {[w \in Workers |-> IF w \in out THEN Absent ELSE ws[w]] :
            out \in {S \in SUBSET settled : Cardinality(S) = over}}

Tell(ms) == told' = [m \in Messages |-> IF m \in ms /\ told[m] < 2 THEN told[m] + 1 ELSE told[m]]

\* handleCheckDelivery
LineIsRead(s) ==
    /\ procs[s].pc = "line"
    /\ LET d == procs[s].line
           done == {w \in Workers : <<w, "done">> \in d.msgs}
           after == [w \in Workers |-> IF w \in done THEN [status |-> "settled", outcome |-> "reported"]
                                       ELSE workers[w]]
       IN  /\ pending' = [id |-> d.id, run |-> procs[s].run]
           /\ workers' \in IF done = {} THEN {workers} ELSE Evicted(after)
           /\ Tell(d.msgs)
           /\ acks' = acks \cup {d.id}
    /\ procs' = [procs EXCEPT ![s].pc = "exit", ![s].line = Nothing]
    /\ UNCHANGED <<disposed, run, proc, spawn, timer, smooth, strays, round, boot, call, left, orcaVars, promised, overtaken>>

AckReturns(id) ==
    /\ acks' = acks \ {id}
    /\ \/ Acknowledge(id) /\ UNCHANGED left
       \/ left.fails > 0 /\ left' = [left EXCEPT !.fails = @ - 1] /\ UNCHANGED open
    /\ UNCHANGED <<disposed, run, workers, watchVars, strays, pending, round, boot, call,
                   bound, real, inbox, issued, told, promised, overtaken>>

\* close: a live run gets its watcher back a second later.
CheckCloses(s) ==
    /\ procs[s].pc = "exit"
    /\ procs' = [procs EXCEPT ![s] = Closed]
    /\ proc' = IF ~disposed /\ proc = s THEN 0 ELSE proc
    /\ IF disposed \/ run = None THEN UNCHANGED <<timer, strays>>
       ELSE timer' = TRUE /\ strays' = IF timer THEN strays + 1 ELSE strays
    /\ UNCHANGED <<disposed, run, workers, spawn, smooth, pending, acks, round, boot, call, left, orcaVars, told, promised, overtaken>>

TimerFires ==
    /\ \/ timer /\ UNCHANGED strays
       \/ strays > 0 /\ strays' = strays - 1
    /\ IF ~disposed /\ proc = 0 /\ run # None THEN StartCheckProcess(run)
       ELSE timer' = (timer /\ strays' # strays) /\ UNCHANGED <<proc, procs, spawn, smooth>>
    /\ UNCHANGED <<disposed, run, workers, pending, acks, round, boot, call, left, orcaVars, told, promised, overtaken>>

(* Discovery and reconciliation.  What run-current and worker-list answer is  *)
(* read when they are called, and may be old when it lands.                   *)

Current == [NoRound EXCEPT !.pc = "current", !.run = bound]
List(r) == [NoRound EXCEPT !.pc = "list", !.run = r,
                           !.rows = [w \in {v \in Workers : real[v].run = r} |-> real[w].life]]

\* reconcileWorkers, called by a task of the session or by a tool.
BeginsRound(task) ==
    IF disposed \/ round # NoRound THEN round
    ELSE [(IF run = None THEN Current ELSE List(run)) EXCEPT !.task = task]

\* Every interval and after every turn.
RoundStarts ==
    /\ ~disposed /\ round = NoRound /\ round' = BeginsRound(TRUE)
    /\ UNCHANGED <<disposed, run, workers, watchVars, strays, pending, acks, boot, call, left, orcaVars, told, promised, overtaken>>

\* discoverActiveRun, whatever became of activeRunId since it asked.
Discovers(r) ==
    IF r = None THEN UNCHANGED <<run, watchVars>>
    ELSE run' = r /\ StartCheckProcess(r)

RunIsDiscovered ==
    /\ round.pc = "current"
    /\ IF round.aborted \/ disposed THEN round' = NoRound /\ UNCHANGED <<run, watchVars>>
       ELSE /\ Discovers(round.run)
            /\ round' = IF run' = None THEN NoRound ELSE [List(run') EXCEPT !.task = round.task]
    /\ UNCHANGED <<disposed, workers, strays, pending, acks, boot, call, left, orcaVars, told, promised, overtaken>>

\* ... and then a round, as BeginsRound.
BootLands ==
    /\ boot.asked /\ boot' = NoBoot
    /\ Discovers(boot.run)
    /\ round' = IF round # NoRound THEN round ELSE IF run' = None THEN Current ELSE List(run')
    /\ UNCHANGED <<disposed, workers, strays, pending, acks, call, left, orcaVars, told, promised, overtaken>>

\* run-current fails, or takes longer than the budget of the task.
BootFails ==
    /\ boot.asked /\ boot' = NoBoot
    /\ left.fails > 0 /\ left' = [left EXCEPT !.fails = @ - 1]
    /\ round' \in {round, BeginsRound(TRUE)}
    /\ UNCHANGED <<disposed, run, workers, watchVars, strays, pending, acks, call, orcaVars, told, promised, overtaken>>

Live(life) == life \in {"live", "done"}

\* One row of the list and what is known of its worker.
AfterRow(life, u) ==
    LET v == IF u # Absent THEN u
             ELSE IF round.run = run THEN Worker(IF Live(life) THEN "running" ELSE "settled") ELSE Absent
    IN  CASE v # Absent /\ life = "released" -> [v EXCEPT !.status = "closed"]
          [] v.status = "running" /\ life = "exited" ->
                [status |-> "settled", outcome |-> IF v.outcome = "none" THEN "exited" ELSE v.outcome]
          [] OTHER -> v

\* Mutant: the exit of a worker is noted and not told.
MutantAlerts(rows) == {}

Alerts(rows) == {<<w, "exit">> : w \in {v \in DOMAIN rows : rows[v] = "exited"
                                           /\ workers[v].status = "running" /\ workers[v].outcome = "none"}}

RoundLands ==
    /\ round.pc = "list" /\ round' = NoRound
    /\ IF round.aborted \/ disposed \/ DOMAIN round.rows = {} THEN UNCHANGED <<workers, told>>
       ELSE /\ workers' \in Evicted([w \in Workers |-> IF w \in DOMAIN round.rows
                                                       THEN AfterRow(round.rows[w], workers[w])
                                                       ELSE workers[w]])
            /\ Tell(Alerts(round.rows))
    /\ UNCHANGED <<disposed, run, watchVars, strays, pending, acks, boot, call, left, orcaVars, promised, overtaken>>

RoundFails ==
    /\ round.pc \in {"current", "list"} /\ left.fails > 0 /\ left' = [left EXCEPT !.fails = @ - 1]
    /\ round' = IF round.pc = "current" /\ run # None /\ ~disposed /\ ~round.aborted
                THEN [List(run) EXCEPT !.task = round.task] ELSE NoRound
    /\ UNCHANGED <<disposed, run, workers, watchVars, strays, pending, acks, boot, call, orcaVars, told, promised, overtaken>>

(* The session *)

SessionEnds ==
    /\ ~disposed /\ left.ends > 0 /\ left' = [left EXCEPT !.ends = @ - 1]
    /\ disposed' = TRUE
    /\ round' = [round EXCEPT !.aborted = @ \/ (round.pc # "idle" /\ round.task)]
    /\ boot' = NoBoot
    /\ workers' = [w \in Workers |-> Absent] /\ run' = None
    /\ StopCheckProcess
    /\ UNCHANGED <<strays, pending, acks, call, orcaVars, told, promised, overtaken>>

SessionStarts ==
    /\ disposed /\ disposed' = FALSE
    /\ boot' = [asked |-> TRUE, run |-> bound]
    /\ UNCHANGED <<run, workers, watchVars, strays, pending, acks, round, call, left, orcaVars, told, promised, overtaken>>

(* Tools: one call at a time.  Its answers come while everything else goes on. *)

Calls(kind) ==
    /\ ~disposed /\ call = NoCall /\ left.calls > 0 /\ kind \in left.kinds
    /\ left' = [left EXCEPT !.calls = @ - 1]

DispatchIsCalled(w) ==
    /\ Calls("dispatch") /\ real[w].life = "none"
    /\ call' = [NoCall EXCEPT !.kind = "dispatch", !.worker = w, !.run = run,
                              !.pc = IF run = None THEN "create" ELSE "start"]
    /\ UNCHANGED <<disposed, run, workers, watchVars, strays, pending, acks, round, boot, orcaVars, told, promised, overtaken>>

RunIsCreated(r) ==
    /\ call.pc = "create" /\ r # bound /\ \A w \in Workers : real[w].run # r
    /\ bound' = r /\ run' = r
    /\ call' = [call EXCEPT !.pc = "start", !.run = r]
    /\ overtaken' = (overtaken \/ run # None) /\ smooth' = (smooth /\ run = None)
    /\ UNCHANGED <<disposed, workers, proc, procs, spawn, timer, strays, pending, acks, round, boot, left,
                   real, inbox, open, issued, told, promised>>

WorkerStarts ==
    /\ call.pc = "start"
    /\ real' = [real EXCEPT ![call.worker] = [run |-> call.run, life |-> "live"]]
    /\ call' = [call EXCEPT !.pc = "started"]
    /\ UNCHANGED <<disposed, run, workers, watchVars, strays, pending, acks, round, boot, left,
                   bound, inbox, open, issued, told, promised, overtaken>>

\* The receipt: "You will receive an automatic steering message when ..."
DispatchReturns ==
    /\ call.pc = "started" /\ call' = NoCall
    /\ workers' \in Evicted([workers EXCEPT ![call.worker] = Worker("running")])
    /\ IF proc = 0 THEN StartCheckProcess(run) ELSE UNCHANGED watchVars
    /\ promised' = promised \cup {call.worker}
    /\ UNCHANGED <<disposed, run, strays, pending, acks, round, boot, left, orcaVars, told, overtaken>>

DispatchFails ==
    /\ call.pc \in {"create", "start", "started"} /\ call' = NoCall
    /\ left.fails > 0 /\ left' = [left EXCEPT !.fails = @ - 1]
    /\ UNCHANGED <<disposed, run, workers, watchVars, strays, pending, acks, round, boot, orcaVars, told, promised, overtaken>>

\* orca_orchestration_observe and _status with a run_id ...
RunIsObserved(r) ==
    /\ Calls("observe") /\ r # run
    /\ run' = r /\ call' = [NoCall EXCEPT !.kind = "observe", !.pc = "show"]
    /\ smooth' = (smooth /\ run = None)
    /\ UNCHANGED <<disposed, workers, proc, procs, spawn, timer, strays, pending, acks, round, boot, orcaVars, told, promised, overtaken>>

\* ... after run-show, whether it failed or not.
ObservedReturns ==
    /\ call.pc = "show" /\ call' = NoCall
    /\ StartCheckProcess(run)
    /\ round' = BeginsRound(FALSE)
    /\ UNCHANGED <<disposed, run, workers, strays, pending, acks, boot, left, orcaVars, told, promised, overtaken>>

\* ... with a dispatch_id that is not observed yet.
WorkerIsLookedUp(w) ==
    /\ Calls("lookup") /\ workers[w] = Absent /\ real[w].life # "none"
    /\ call' = [NoCall EXCEPT !.kind = "lookup", !.pc = "lookup", !.worker = w, !.run = real[w].run,
                              !.life = real[w].life]
    /\ UNCHANGED <<disposed, run, workers, watchVars, strays, pending, acks, round, boot, orcaVars, told, promised, overtaken>>

LookupReturns ==
    /\ call.pc = "lookup" /\ call' = NoCall
    /\ workers' \in Evicted([workers EXCEPT ![call.worker] =
                                Worker(IF Live(call.life) THEN "running" ELSE "settled")])
    /\ IF run = None THEN run' = call.run /\ StartCheckProcess(call.run) ELSE UNCHANGED <<run, watchVars>>
    /\ UNCHANGED <<disposed, strays, pending, acks, round, boot, left, orcaVars, told, promised, overtaken>>

\* action "start", and "status" without more
ObservationStarts ==
    /\ Calls("start")
    /\ IF proc = 0 THEN StartCheckProcess(run) ELSE UNCHANGED watchVars
    /\ round' = BeginsRound(FALSE)
    /\ UNCHANGED <<disposed, run, workers, strays, pending, acks, boot, call, orcaVars, told, promised, overtaken>>

\* worker-stop and worker-release, by the tool or by /orchestration
WorkerIsReleased(w) ==
    /\ Calls("release") /\ real[w].life \in {"live", "done", "exited"}
    /\ real' = [real EXCEPT ![w].life = "released"]
    /\ call' = [NoCall EXCEPT !.kind = "release", !.pc = "released", !.worker = w]
    /\ UNCHANGED <<disposed, run, workers, watchVars, strays, pending, acks, round, boot,
                   bound, inbox, open, issued, told, promised, overtaken>>

ReleaseReturns ==
    /\ call.pc = "released" /\ call' = NoCall
    /\ workers' = IF workers[call.worker] = Absent THEN workers
                  ELSE [workers EXCEPT ![call.worker].status = "closed"]
    /\ UNCHANGED <<disposed, run, watchVars, strays, pending, acks, round, boot, left, orcaVars, told, promised, overtaken>>

\* action "stop" with a dispatch_id
WorkerIsForgotten(w) ==
    /\ Calls("forget") /\ workers[w] # Absent
    /\ workers' = [workers EXCEPT ![w] = Absent]
    /\ UNCHANGED <<disposed, run, watchVars, strays, pending, acks, round, boot, call, orcaVars, told, promised, overtaken>>

ObservationStops ==
    /\ Calls("stop")
    /\ workers' = [w \in Workers |-> Absent] /\ run' = None
    /\ StopCheckProcess
    /\ UNCHANGED <<disposed, strays, pending, acks, round, boot, call, orcaVars, told, promised, overtaken>>

(* Workers *)

WorkerReports(w) ==
    /\ real[w].life = "live"
    /\ real' = [real EXCEPT ![w].life = "done"]
    /\ inbox' = [inbox EXCEPT ![real[w].run] = @ \cup {<<w, "done">>}]
    /\ UNCHANGED <<disposed, run, workers, watchVars, strays, pending, acks, round, boot, call, left,
                   bound, open, issued, told, promised, overtaken>>

\* A question, or an escalation.
WorkerAsks(w) ==
    /\ real[w].life = "live" /\ w \in left.asks /\ left' = [left EXCEPT !.asks = @ \ {w}]
    /\ inbox' = [inbox EXCEPT ![real[w].run] = @ \cup {<<w, "question">>}]
    /\ UNCHANGED <<disposed, run, workers, watchVars, strays, pending, acks, round, boot, call,
                   bound, real, open, issued, told, promised, overtaken>>

WorkerExits(w) ==
    /\ Live(real[w].life) /\ left.exits > 0 /\ left' = [left EXCEPT !.exits = @ - 1]
    /\ real' = [real EXCEPT ![w].life = "exited"]
    /\ UNCHANGED <<disposed, run, workers, watchVars, strays, pending, acks, round, boot, call,
                   bound, inbox, open, issued, told, promised, overtaken>>

(* *)

Check(s) == CheckBegins(s) \/ CheckPrints(s) \/ CheckTimesOut(s) \/ LineIsRead(s) \/ CheckCloses(s)
Rounds   == RunIsDiscovered \/ RoundLands
Tool     == \/ (\E r \in Runs : RunIsCreated(r)) \/ WorkerStarts \/ DispatchReturns
            \/ ObservedReturns \/ LookupReturns \/ ReleaseReturns

Next ==
    \/ SpawnResolves \/ TimerFires
    \/ \E s \in Slots : Check(s) \/ CheckEnds(s)
    \/ \E id \in acks : AckReturns(id)
    \/ RoundStarts \/ Rounds \/ RoundFails \/ BootLands \/ BootFails
    \/ SessionEnds \/ SessionStarts
    \/ Tool \/ DispatchFails \/ ObservationStarts \/ ObservationStops
    \/ \E r \in Runs : RunIsObserved(r)
    \/ \E w \in Workers :
          \/ DispatchIsCalled(w) \/ WorkerIsLookedUp(w) \/ WorkerIsReleased(w) \/ WorkerIsForgotten(w)
          \/ WorkerReports(w) \/ WorkerAsks(w) \/ WorkerExits(w)

Spec == Init /\ [][Next]_vars

\* Processes of Orca end, answers come (each command has a timeout), timers
\* fire, and the interval reconciles.
LiveSpec ==
    /\ Spec
    /\ WF_vars(SpawnResolves) /\ WF_vars(TimerFires)
    /\ \A s \in Slots : WF_vars(Check(s)) /\ WF_vars(CheckEnds(s) /\ procs[s].killed)
    /\ WF_vars(RoundStarts) /\ WF_vars(Rounds) /\ WF_vars(BootLands)
    /\ WF_vars(Tool)

(* Properties *)

Switching == call.pc = "show"

\* At most one check process is alive that was not told to stop.  It is the one
\* the extension knows of and it watches the bound run, or the one left while
\* the next run is looked up; and no process found late watches a run that
\* was stopped (stopCheckProcess).
OneWatcher ==
    /\ \A s \in Slots : Running(s) /\ ~procs[s].killed => s = proc
    /\ proc # 0 => /\ ~procs[proc].killed /\ procs[proc].pc # "closed" /\ spawn = NoSpawn
                   /\ ~disposed /\ run # None /\ (procs[proc].run = run \/ Switching \/ overtaken)
    /\ spawn # NoSpawn => ~disposed /\ run # None /\ (spawn.run = run \/ Switching \/ overtaken)

\* As long as no watcher is killed and no run is left, no message is told
\* twice, though the acknowledgement of a delivery may fail: the next
\* watcher gives it again (the comment at startCheckProcess).
RepeatsHaveACause == smooth => \A m \in Workers \X {"done", "question"} : told[m] <= 1

\* The agent was promised a message of this worker of the bound run, which
\* reported or exited, and has none: the worker is taken to be running, or its
\* end was noted and not told.
Unheard(w) ==
    /\ w \in promised /\ ~disposed /\ run = real[w].run /\ real[w].life \in {"done", "exited"}
    /\ workers[w].status = "running" \/ workers[w].outcome # "none"
    /\ told[<<w, "done">>] = 0 /\ told[<<w, "exit">>] = 0

\* "You will receive an automatic steering message when this worker completes,
\* fails": through killed and failing watchers, switches of the run and new
\* sessions, a worker's end is told.
EndsAreTold == \A w \in Workers : Unheard(w) ~> ~Unheard(w)

=============================================================================
