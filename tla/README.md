# A TLA+ model of the claude-marketplace extensions

The repository is a collection of extensions for the pi coding agent, a bridge
that offers the `agy` command line as an ACP agent, a plugin with an MCP server
and hooks, and a number of markdown skills. All programs are single-threaded
TypeScript on an event loop; what is hard about them is what happens *between*
two `await`s, when child processes exit, answers arrive late, sessions end and
the next session begins in the same process.

In the models an action is the code between two `await`s, with the promise
reactions it settles. Interleavings of actions are interleavings of
continuations, tool calls, timers and events of child processes.

## 1. Inventory

### devin-delegate (`extensions/devin-delegate.ts`, `lib/devin-slots.ts`, `lib/acp-client.ts`)

- *State.* `queue` (FIFO of tasks), `sessions` (table of session metadata with a
  status), `activeClients` (the `devin acp` process of each session),
  `SessionSlots.pending` (reserved slots of starts on their way), `isDraining`,
  `maxRuns`, pending permission requests, stall timers, assistant buffers.
- *Operations.* Tools `devin_delegate`, `devin_message`, `devin_cancel`,
  `devin_restart`, `devin_status`, `devin_logs`, `devin_permission`,
  `devin_clean_worktree`; the command `/devin limit`; `session_start`,
  `session_shutdown`; the internal `drainQueue`, `startSession`,
  `cancelSessionById`; the callbacks of a process (update, permission request,
  exit), of the stall watchdog and of a closed pull request.
- *Interactions.* A tool or a drain reserves a slot, creates a worktree, starts a
  process, sends `session/new`, `set_mode` and `session/prompt` over JSON-RPC.
  Every terminal event of a turn frees its slot and calls `drainQueue`.
- *Hard.* Parallel tool calls; a drain that awaits a worktree while others are
  turned away at `isDraining`; exits, rejected prompts and cancels that reach a
  session in any order; re-attachment racing restart, cancel and itself; shutdown
  under way while handshakes are.
- *Correct when.* The limit holds for every admission, slots are neither lost nor
  given twice, the queue is FIFO and never forgotten, a session holds a slot
  exactly while its turn runs, clients are the live processes, and a cancelled
  session stays cancelled.

*Persistence* (`WriteQueue` of `lib/nonblocking.ts`). `state.json` (limits, queue,
session ids), one `meta.json` per session, the serialized queue of writes,
`recoveryDone` (the gate tools wait at); `persistState`, `persistSessionMeta`,
`recoverState`, the backfill of a dead turn from devin's session database, the
boot budget. Hard: a crash between any two writes, processes that outlive pi,
recovery that runs detached while callbacks arrive. Correct when the files are
consistent in every prefix of the write queue, recovery brings back what was
durable, and no tool races it.

*Permissions.* Per session the open requests, keyed by an id that the next
process of the session uses again, each with a timer that rejects it. Correct
when an answer reaches the process that asked and no request waits for ever.

*Worktrees* (with `lib/orca-client.ts`). A start chooses a number, asks orca for a
worktree and its branch; cancels, tools, a closed pull request and the release of
child worktrees look at a folder and remove it. Hard: every look is a command, and
Devin, other starts and other removals go on meanwhile. Correct when a start gets
a folder of its own and a removal destroys no finished work that is nowhere else.

### Task scope (`extensions/lib/nonblocking.ts`)

- *State.* Per extension: the set of running entries, one slot per key (holder,
  follow-up flag, newest work and options), the sticky aborted flag.
- *Operations.* `run`, `schedule`, `abort`, `resume`, `flush`, `pending`.
- *Interactions.* All extensions start their background work through it, from
  handlers that pi awaits.
- *Hard.* A run of the ended session settling in the next one; a request that
  arrives during a round; work that ignores its signal.
- *Correct when.* Single-flight per key, one follow-up for any number of requests,
  none lost, nothing started on a closed scope.

### observe-pr (`extensions/observe-pr.ts`)

- *State.* `observedPRs` (per pull request: branch, active CI runs with their
  watcher processes, retry timers, announcement flags), pending auto-starts,
  deferred startup announcements, the state generation of the branch check.
- *Operations.* `observe_pr`/`unobserve_pr`, run discovery, `watchRun`,
  `checkAllCIPassed`, review and state polls, `settlePendingAutoStarts`, branch
  change detection, startup notices, shutdown.
- *Hard.* Emptiness of `activeRuns` tested before an await and used after it; a
  killed watcher whose exit arrives after its replacement; retries driven by
  gh-health; work settling after shutdown; notices that wait for a prompt which
  takes another route or dies.
- *Correct when.* "All CI passed" is said only when it is so, and once; every
  observed pull request has a driver; nothing survives its session.

### gh-health (`extensions/lib/gh-health.ts`)

- *State.* Consecutive failures, time of the last one, the claimed slot, timer and
  recovery tick, retry hooks.
- *Operations.* `acquireSlot`, `release`, `recordSuccess`, `recordFailure`, `reset`.
- *Hard.* A slot released by a caller that was let through before the outage; a
  timer that fires before its time; work stranded at recovery.
- *Correct when.* Work refused in an outage always has something that will drive
  it again, and degraded calls are paced.

### pr-tasks (`extensions/pr-tasks.ts`, `lib/pr-tasks-manager.ts`, `lib/github-review-threads.ts`)

- *State.* Tasks (review threads with replies and a status), per-pull-request
  fetch ticks, a lock per task, held notices.
- *Operations.* `syncFromGitHubThreads` (matching nodes to tasks, re-linking moved
  and re-posted conversations), `pr_task_resolve`, `pr_task_blocked`,
  `pr_task_detail`, `pr_tasks_list`, the user's `/tasks`, background syncs.
- *Hard.* Overlapping fetches whose results arrive out of order; actions on a
  cached thread; a retry of a reply that was posted although its answer was lost;
  ids that GitHub gives anew.
- *Correct when.* An older snapshot never undoes a newer one or a local action, a
  reply is posted once and never taken for the user's, an answer is never passed
  over, one conversation is one task.

### orca-orchestration (`extensions/orca-orchestration.ts`, `lib/orca-client.ts`)

- *State.* Coordinator run, observed workers, the long-poll process and its spawn
  generation, the restart timer, the delivery awaiting acknowledgement.
- *Operations.* Start and end of the check process, `handleCheckDelivery`,
  `reconcileWorkers`, boot discovery, run switch, the tools that dispatch, look
  up, observe, start, release and stop.
- *Hard.* A lost acknowledgement and the redelivery after it; a replaced poller's
  late output; worker completion racing reconciliation; late answers of lookups.
- *Correct when.* One process watches the bound run, a worker's end is told, and
  told once where no watcher was killed.

### compaction-fail-recovery (`extensions/compaction-fail-recovery.ts`)

- *State.* Settings, rounds used, the responses already compressed, the prompt to
  send again, the retry timer.
- *Operations.* The handlers of a run's start and end, of a compaction's start and
  failure, of its success; the retry; `/compaction-recovery`; configuration.
- *Hard.* A retry that fires while prompts, runs, compactions and sessions go on.
- *Correct when.* A prompt is sent again no more often than its compaction failed,
  and the most recent responses are left alone.

### tools, exec, logs (`extensions/tools.ts`, `lib/exec.ts`, `lib/exec-payload.ts`, `lib/tool-result.ts`, `lib/extension-log.ts`)

- Stateless command execution with time and size limits; formatting; a log file.

### devin helpers (`lib/devin-permissions.ts`, `lib/devin-bash-guard.ts`, `lib/devin-diagnostics.ts`)

- Pure functions: choosing a permission option, classifying a shell command,
  formatting a log.

### CI verdict and mergeability (`lib/ci-verdict.ts`, `lib/mergeability.ts`)

- Pure functions from check runs to a verdict.

### agy-acp (`agy-acp/src`)

- *Sessions* (`session.ts`, `turn.ts`, `cancel.ts`, `heartbeat.ts`): a session owns
  at most one `agy` process, one turn at a time, a cancel that interrupts, then
  kills and respawns on the next prompt, disposal. *Hard*: cancel racing the
  result, exit racing cancel, prompt right after cancel. *Correct when* every
  prompt is answered exactly once and no process outlives its session.
- *Permission gate and bridge* (`permission-gate.ts`, `pending-asks.ts`,
  `permission.ts`, `bridge-*.ts`): hook processes ask over a socket, the gate asks
  the client. *Hard*: a late answer after a cancel, a lost connection, a second ask
  with the same key. *Correct when* every hook is answered and nothing is allowed
  after a cancel.
- *Server* (`server.ts`, `session-registry.ts`, `shutdown.ts`, `flush-stdout.ts`,
  `main.ts`) and *peer* (`jsonrpc.ts`, `framing.ts`, `byte-budget.ts`): frames of a
  byte stream, the tables of requests in both directions, the table of sessions,
  the exit with its deadline. *Hard*: order of handlers against promise reactions,
  sessions that open while all are being closed, a client that stops reading.
  *Correct when* each request is answered once, in order, and the exit happens.
- *Process* (`agy/process.ts` and the argument, version and model helpers) and
  *translation* (`update-map.ts`, `map-steps.ts`, `stream-calls.ts`, `config*.ts`,
  `launch.ts`).

### pr-observer plugin (`plugins/pr-observer`)

- *MCP server* (`src/mcp-server.mjs`): the task manager behind tools whose calls
  run concurrently; one thread list at a time for all who need one.
- *Hooks* (`scripts/`): `session-init`, `notify-changes` after every tool call and
  `check-settle`, which holds a stop while CI runs: processes of their own that
  share one state file, which each reads, and writes whole. *Hard*: writes over
  each other, a hook killed in the middle. *Correct when* a stop is held no longer
  than promised and what the file calls known was told.

The remaining plugins, skills and prompts are text for agents; `scripts/` is
development tooling.

## 2. Modules

| Module | Models | Composition |
| --- | --- | --- |
| `AdmissionQueue` | what admission promises (abstract): a FIFO line, a limit, who is served | |
| `DevinDelegate` | queue, slots, sessions, processes | implements `AdmissionQueue` |
| `DevinDelegateProofs` | theorems | |
| `DevinRecovery` | files, write queue, crash, recovery | |
| `DevinPermissions` | permission requests of sessions and their processes | |
| `DevinWorktrees` | worktrees of the same sessions, who makes and removes them | extends `DevinPermissions` |
| `DevinWorktreesProofs` | theorems | |
| `CoalescedWork` | what a task scope promises (abstract): open, due, busy | |
| `TaskScope` | `createTaskScope` | implements `CoalescedWork` |
| `TaskScopeProofs` | theorems | |
| `GhHealth` | `createGhHealth` and its callers | |
| `ObservePr` | the observation of one pull request | |
| `TrackingNotices` | what `observe-pr` tells of the pull requests it observes | |
| `PullRequestProofs` | theorems | extends these three |
| `TaskEngine` | the pure functions of `PRTasksManager` | |
| `ReviewTasks` | GitHub's threads, lists and posts on their way | extends `TaskEngine` |
| `PrTasks` | the pi extension `pr-tasks` | extends `ReviewTasks` |
| `PrServer` | the plugin's MCP server | extends `ReviewTasks` |
| `ReviewHosts` | both hosts with the promises of either | extends both |
| `PrHooks` | the plugin's hooks and their state file | |
| `PrObserverProofs` | theorems | extends `PrHooks` and `ReviewHosts` |
| `OrcaWatch`, `OrcaWatchProofs` | the watching of orca's workers; theorems | |
| `AgySession` | one session of agy-acp with its child, gate and registry | |
| `AgyPeer` | agy-acp as a process: frames, requests, sessions, exit | |
| `AgyProofs` | theorems | extends these two |
| `CompactionRecovery` | `compaction-fail-recovery` | |
| `RecoveryProofs` | theorems | extends `DevinRecovery`, `CompactionRecovery` |
| `MC...` | instances for TLC: budgets, symmetry-free constants | extend their module |

Modules that share a module of proofs give their specification names of its own
(`HealthSpec`, `NoticesSpec`, `CompactionSpec`, `HooksSpec`, `PeerSpec`). Operators named `Mutant...` are plausible slips in the definition that follows
them. No specification uses them; substituted one at a time they show which
property notices.

A record `left` or `budget`, where a module has one, says how often the
environment may still act. It is chosen at the start from a set `Budgets`, so that
one run covers several combinations of few events instead of one with many.

### DevinDelegate

`stage` says at which `await` the start of a task stands, `status` is the session
table, `proc`/`prompts`/`client`/`pid` the processes, their outstanding prompts,
`activeClients` and the recorded pid. `Drain` is one run of `drainQueue` up to its
first `await`: it admits a prefix of the queue (`AdmitsPrefix`), and every action
whose code calls `drainQueue` contains it. `Delegate` is `devin_delegate`,
`ToolWorktreeReady/Fails`, `DrainWorktreeDone`, `StartFails`, `Register` and
`ModeSet` are the continuations of a start, `TurnEnds`, `Detected`, `TurnErrors`,
`Stall`, `Activity` and `Exits` the events of a turn, `Message...`, `Cancel...`,
`Restart...`, `SetLimit` and `Shutdown` the other tools and handlers.

Left out: counters and texts for display, `totalInvoked`'s reset at shutdown,
worktree removal, the content of permission requests (a request is `Activity`).
A disposed process is `dying` until it is gone. A queued task whose worktree
fails starts in the base directory, as in the code.

### DevinRecovery

Memory (`queue`, `starting`, `sess`, `attached`), files (`diskState`,
`diskMeta`), the writes between them (`writes`), processes (`alive`) and the
recovery's progress (`phase`, `toLoad`, `restored`). A write lands as a whole
(temporary file and rename). `Crash` is the end of pi with whatever was not
written lost and any set of devin processes surviving; a clean
`session_shutdown` is the crash with no write pending. `gone`, `durable`, `lost`
and the mark `partial` of a `state.json` are history.

Left out: follow-up messages, restarts, worktrees; failing writes (the code logs
them); the debounced save of streaming metadata, which carries no status; the
order of session ids; the second identical save of an orphan; the 1.5 s ladder
with which an orphan is killed. `stalled` counts as `running`.

### DevinPermissions and DevinWorktrees

In `DevinPermissions` a session goes through processes (`spawned`, `client`), the
present one asks (`asked`, `waiting`), `pending` is `pendingPermissions` and
`timers` what is armed. `AgentAnswers` is `devin_permission`, which answers the
oldest request; `TurnEnds`, `Exits`, `Cancels` end a turn with the requests of it
(`DropsRequests`), `Messages`, `Reattaches` and `Starts` begin one.

`DevinWorktrees` runs the same sessions. `BeginsListing`, `Probes`, `OrcaAnswers`,
`GitAnswers` are the awaits of `createWorktree`: `at` is the number it tries, orca
may refuse, answer without words, or make the worktree and lose its answer
(`Makes`, `OrcaReplies`, `Accepts`). A start that takes an exit of 0 without words for a worktree
that was not made goes on as `"believed"`. A `cleanup` is one call that removes a folder:
`ReadsStatus`, `ReadsPr` and `ReadsAhead` are the looks of `checkWorktreeSafety`, one
awaited command each, and `Removes` is the removal. Who may call is `Remover`.
Meanwhile Devin edits, commits and pushes, and pull requests close.

Left out: a start or a re-attachment is one step here (its handshake is
`DevinDelegate`'s); which option of a request an answer selects; the number of a
pull request (it is the branch's); loops over sessions, which are as many single
cleanups. The hook of a closed pull request may come at any time after it closed.

### TaskScope

A run is a call of `start`: `queued` until its `setImmediate`, then in its
`body`. `holder` is `slot.running`, `again` and `now` the slot's flags, `tracked`
the set of entries. `Ends` is the whole `finally` block with `onSettled`, so the
follow-up begins in the same step. `owed` is history: keys whose newest request
no body has seen. Identities of runs are used again once they have settled.
`CoalescedWork` is the promise made by the comments of the `TaskScope` interface;
`Coalesced` maps `owed` to due requests and bodies that hold a slot to rounds.

### GhHealth

`health` is the object's closure variables, and the methods are operators from
records to records (`RecordFailure`, `RecordSuccess`, `Release`, `Recovered`).
Time is the number of clock units until the slot is due, and a timer may fire one
unit early, as Node's do. Callers are pieces of work that pair `acquireSlot` with
`release`; those with a hook are started again by it, and hooks only start work
that tries for the slot later. A watcher gives the slot back when its process
closes and records its outcome afterwards. `StrayFailure` is a call that asks for
no slot (a tool, the spawn of a run watcher). `waiting` and `woken` are history.

A comment (`gh-health.ts:97`) calls the slot exclusive. It is not quite: a caller
let through before the outage releases it too. No property says it is; the
properties say that nobody is stranded all the same.

Left out: the limits of individual `gh` calls, formatting of notices, the count of
failures beyond the fast tier.

### ObservePr

`head`, `run` and `sha` are GitHub. `pr` is the `ObservedPR` of the map, `entry` its
identity: a stop, a new start and a resume replace it, and every handler that
awaits `gh` compares (`Live`). `checks`, `polls`, `viewing` and `telling` are the
calls under way: `checkAllCIPassed`, `pollPR`, the close handler of a watcher while
it views the run, and while it fetches the summary of a failure. GitHub composes an
answer (`ChecksAnswered`, `PollAnswered`) and the handler applies it in a later step;
what a view answers is read when it returns. `watching` and `rewatch` are the maps
`runProcesses` and `rewatchTimers`, `leftover` the timers of earlier entries, which
`resetObserverState` does not clear and which look up the entry there is when they
fire. `saved` is the entry in the session file; `Persist` is a `persistState` on
behalf of anything else (a comment, another pull request). `news` is history.

`gh-health` may refuse a slot to anybody at any time; what it promises is checked in
`GhHealth`. Several handlers of one run with the same knowledge count as one. A
watcher that exits with 0 means that its run has passed; one that exits otherwise
means nothing.

Left out: comments and what messages look like. Mergeability, startup notices and the
suppression of messages while one is pending are in `TrackingNotices`.

### TrackingNotices

`memory` is one record of the extension's maps and flags, as sets of pull requests:
`observed`, `announced`, `stopped`, `deferred` (startup notices), `timers`
(`pendingAnnouncements`), `suppress`, the armed message with what it carries, and
`hasRun`. Handlers are functions from one memory to the next (`StartObserving`,
`StopObserving`, `Announce`, `Delivered`), composed as the code composes them; `filed` is
the last entry of the session file and `Restored` what a session makes of it. `boot` and
`scanning` are the checks of the branches, `autostart`, `due` and `settling` the table,
the round and the lookups of `settlePendingAutoStarts`, `asking` the calls of `observe_pr`
that await `gh`. Lookups are not tied to a session in the code and outlive it here too;
`strays` (history) are those whose answer was told to an earlier session. `onWay` holds
prompts that may still become a run: "armed", the message with the notices, and "other".
`agent_start` does not say which of them runs, and `AgentStarts` decides; `told` (history)
is what the agent of the session has heard of. After the session an entry is written or
refused, as pi decides.

Of pi it is assumed that the user's next prompt is taken while no prompt other than the armed one is
about to run; that one may have died. A branch is named by its pull request, and GitHub
answers anything. Left out: which repositories and branches a check visits, enabling and
disabling, comments, a session replaced without a shutdown.

### TaskEngine, ReviewTasks, PrTasks, PrServer

`TaskEngine` has the functions of `pr-tasks-manager.ts` on records: a comment is its
creation time, the generation of its id, its author and its text; a node is a
thread as GitHub lists it; a task is a `PRTask`. `Sync` is
`syncFromGitHubThreads`: `Group` picks one node of each conversation, then
`ExactMatches`, `AliasMatches`, `RepostMatches`, `DeadMatches` and
`CommentlessMatches` claim tasks in the code's order, and `Settled` applies the claims
and makes the rest new or stale. `ApplyThreadNode` is one claim; claims are applied when
all are made, since of what one changes only the roots that the task then has (`met` in
`AliasMatch`) matter to the next. Lists of ids, which the code searches and never orders,
are sets.

`ReviewTasks` is GitHub and what is on its way. Reviewers open threads, reply,
resolve, reopen, edit, re-post and delete root comments; GitHub replaces nodes and
issues ids anew. `fetches` are the lists under way: asked for, composed
(`FetchReads`), applied later by the host. The manager's clock is reduced to what a
comparison of ticks can say (`Synced`, `AfterResolve`); `fresh` is the grace period
after an own resolve. `calls` are the actions, with the reply or resolve they wait
for; a call may fail although GitHub did what it asked (`Answer`). History variables say
what the agent was told, what it posted, which of its replies were taken for an answer
(`misled`), and which of them the extension cannot be asked to know: those whose thread was
resolved after them (`closed`) and those that were out of its sight (`unsure`: an action
went by the cached tasks, or the task moved to a thread that does not show them).

`PrTasks` is the extension: one action at a time per task (`queue` is `taskLocks`),
`refreshTask` before it posts, `resolveTaskLocked` with its retry rules, `Again` after a
replaced thread (`withCurrentThread`), notices that are held while an action is under
way (`Tell`). `PrServer` is the server: concurrent calls, no check before it posts, one
list at a time with everybody waiting for it. A behaviour is one host's.

Left out: one session, one pull request, one repository, one file; folders; the
throttle and cap of the settle nudge (it may show what is open at any time); the search
of an unknown conversation; `pr_checks`. Errors that say nothing about availability
count as degraded. GitHub's lists lag behind its answers only within the grace period.
`InOrder` says that GitHub composes lists in the order they were asked for; without it
a list composed before a post may arrive as the newer one, and after a re-post of the
conversation the agent's own reply can be announced as the user's.

Two things are reachable and worth knowing: the server's `markBlocked` overrides a
resolve seen meanwhile; and a conversation that GitHub gives again under new ids, while it
still lists the rejected node of it, becomes two open tasks (section 5).

### PrHooks

Every hook process is a record with the step it is at: `notes` the notifiers
(`NotifyStarts`, `NotifyReads`, `NotifyPersists`, `NotifyTells`), `stop` the
`check-settle` process (`StopFires`, `StopReads`, `StopPolls`). `file` is the state
file, which a process reads and later writes whole. `now` counts polls. The host may
kill a process at any step. `heard` is history: what the agent was last told of the pull
request, since it was last open.

Notifiers that overlap write over each other and lose or repeat news, and one that is
killed between its write and its output loses it; `clean` leaves those behaviours out
of `TheAgentIsUpToDate`. A `session-init` that finds a file without `createdAt` empties
it (`started`). The watch budget is wall clock since the first stop and never reset.
Left out: the sweep of old files, a folder that cannot be written, corrupt files; the
two gh calls of a snapshot are one.

### OrcaWatch

`procs` are the check processes that are not closed, `proc` is `checkProcess`,
`spawn` the one whose command is being looked up, `timer` and `strays` the restart
timers. A process acknowledges what it was given, waits, prints one delivery and exits
(`CheckBegins`, `CheckPrints`, `CheckTimesOut`, `CheckEnds`); the extension reads the
line and the close as two events (`LineIsRead`, `CheckCloses`). `round` is
`reconcileWorkers`, `boot` the discovery at the start of a session, `call` the tool call
under way. Orca is external: per run an inbox whose messages are given as one delivery
until it is acknowledged, per terminal one bound run. A worker asks one question at most
(`left.asks` are those that still may), so that a question told twice is the same one.

Reachable, and not excluded by any property: a late discovery overwrites
`activeRunId`; lines of a killed watcher are still read; answers of a dispatch or a
lookup overwrite a registration; a failed `worker start` leaves a bound run without a
watcher; settled workers that were evicted and whose terminal lives are registered as
running again; an exit may be told twice. Left out: replies, attention notices, the
dashboard, parallel tool calls, the rejected lookup of the command, the listing of all
runs.

### AgySession

`at` is the `await` at which `runTurn` stands and `mine` the child it waits for:
`replacing` and `probing` are inside `ensureDriver`, `dropping` is its failure,
`chosen` the moment before the text is sent, `sent` the wait for the promise,
`puttingAway` the disposal of the child of a turn that was called off. `pending`
is `this.pending`; `Settle` is `settleOnce`, which every way a turn can end calls
blindly. `proc`, `work`, `signal` and `flags` are the children; identities of
children and hooks are used again once they are gone. `start` is the `session/new`
that opens the session, `server` the connection and what `disposeAll` waits for.
Promise reactions run before the next event of a process, socket or timer, except
that messages of the client that came in one chunk are reactions as well: those
alone may fall into `chosen` (`Quiet`). `since` and `hookTurn` are history.

The permission policy and the grants are a nondeterministic verdict of `HookAsks`.
Every ask has a key of its own, as agy numbers its tool calls. SIGKILL is taken to
end a child within the second that `dispose` waits for it. `StartFails` and
`Exits` let `start()`'s failure dispose of the gate at once; `bridge.stop()` is no
wait of its own. Of a hook whose connection is lost and one whose answer is
written only the end is modelled (`HookGoes`).

Left out: the heartbeat, step updates and usage counters, requests the bridge
turns away, a second registration of a session id, the sweep of a process group.
The exit path is `AgyPeer`'s.

### AgyPeer

`Reads` is one chunk of stdin with `FrameDecoder.push` (bytes are marks of the message
they belong to, and line ends; a line is known by the place where it ends), `HandleLine` the parsing and dispatch of a line,
`RunJob` one promise reaction, and both go before any other event (`Waiting`). `out` is
what stdout has not delivered, `call` a `session/request_permission`. `session`,
`registered`, `toDispose` and `tracked` are the registry while `disposeAll` goes through
it; `phase` is the exit: cleaning, sweeping, flushing, exited, with `DeadlineFires`.
`unanswered`, `delivered`, `handled`, `owed` and `late` are history.

`turn` is the prompt `runTurn` has not returned for, and `turnAt` where in `ensureDriver` or
after it that is: the old child is `"replacing"`, the new one is at its `"probing"`, or after a
failed probe `"dropping"`; it is `"chosen"`, the text is `"sent"`, or a turn cancelled meanwhile
is `"puttingAway"` its child. A cancel or the disposal settles the turn (`turnOpen`), but before
the text is sent the answer goes out only when the child is dealt with, and until it has gone
out the session takes no other prompt (`busy`). While a child is replaced or dropped the session
has no driver (`DriverIsNull`), and a disposal that comes then waits for nothing (`"abandoned"`).

One session takes the prompts, others only open and close; one request of ours at a time;
what else happens inside a session is `AgySession`'s. A session that is still starting when
`disposeAll` runs is not waited for (section 5). `HasDeadline = FALSE` is a setting
under which a child that does not die holds the exit.

### CompactionRecovery

`compaction`, `run` and `retries` are what is on its way: pi's compaction with its
reason and the prompt it will send again, the agent's run, the armed timers.
`CompactionFails` is the whole handler: which failures count (`Recoverable`), whether a
round is left, the compression pass (`Compressed`), the timer; `RetryFires`,
`CompactionSucceeds` (with `Resends`), `CompactRecovery` (the command), `FreshSession`
and `SameSession` (reload) the others. A recovery compresses all candidates, so the order in
which the code ranks them makes no difference. `resent` and `cut` are history.

Left out: the size-driven mode of `planCompression`, token estimates, `ctx_memory`,
`resolveReserveTokens`, wording.

## 3. Runs

| Run | Instance | Question |
| --- | --- | --- |
| `delegate` | 3 tasks, 2 and a re-attached process, or 1 and 2 re-attachments; limit 1..2; fair | Are slots, queue, wake-ups and order right on every path; do turns, prompts, clients and processes agree; is the abstract queue implemented; do starts settle? |
| `recovery` | 2 tasks, limit 1, 2 crashes, fair | Are the files consistent at every crash point, and does recovery restore them? |
| `worktrees` | 2 sessions that ask through 2 processes each; 1 worktree and 2 removals; 2 worktrees and 1 removal; fair | Does an answer reach the asker, has a start a folder of its own, is finished work safe from removals? |
| `task_scope` | 2 keys, 3 runs alive, fair | Is it single-flight with coalescing across sessions? |
| `gh_health` | 2 hooked callers, 1 watcher, intervals 2 and 3, 1 fast retry, 2 stray failures, fair | Is every refused caller driven, once, whatever succeeds, fails or is released in which order? |
| `observe_pr` | `ObservePr`: 1 run, 2 commits, 2 entries, 2 calls of `gh` under way; or `TrackingNotices`: 2 pull requests, 1 of which the agent asks for | Has every active run something that brings its verdict, and is success told once; does every notice arrive, and does a stop stay one? |
| `review_tasks` | per host up to 2 events of GitHub (in the extension, any two that move, edit, delete or post anew), 2 actions, a failing call, 2 lists under way | Is nothing a reviewer says passed over, nothing written twice, nothing open as two tasks unless GitHub lists a rejected node beside it, are the agent's own replies known for its own, does a resolve stick, and does an answer unblock its task? |
| `pr_hooks` | 1 notifier, 2 pull requests, 4 polls of time, 2 changes | Is a stop held no longer than promised, and is what the state file calls known known? |
| `orca_watch` | 2 runs, 1 worker, 2 processes alive; a dispatch with one disturbance or other calls; fair | Is there one watcher, of the right run; are messages told once; is the end told? |
| `agy_session` | 2 identities of children, 1 hook, 2 selections, 3 prompts, fair | Is there one child at a time, fit for what it is sent; does a cancel stop hooks; are prompts answered and children ended? |
| `agy_peer` | 3 messages in any chunks, lines up to and beyond the limit, fair | Is each request answered once and in order, and does the exit happen and leave nothing but a child that is being replaced? |
| `finding_recent` | 1 prompt, 4 responses, default keep 5 | A documented claim that fails: section 5. |

*Bounds.* `delegate`: three tasks are one that holds the slot, one that is being
drained and one that waits behind it, which is what order and lost wake-ups need;
limits 1 and 2 are the smallest with and without room. One re-attachment gives a
session two processes, which is what stale events need, two give it two that were
started in parallel; `MaxWork` counts tasks and re-attachments together. `MaxOverlap`
bounds the pull-request lookups, and the restarts that wait for a kill, of one session. `recovery`: two crashes let a recovery itself be interrupted, and the session after a partial one; `MaxWrites`
(pending writes when a tool acts) bounds the lag between memory and disk, and
callbacks may exceed it. `worktrees`: two processes of a session use the same request
ids, two numbers and two starts collide, two removals of one folder overlap.
`task_scope`: three runs allow a round of each key with an orphan next to it, or a
round and two orphans. `gh_health`: two hooked callers and a watcher are one that
holds the slot, one that is refused and one that gives back a slot it no longer owns;
unequal intervals of at least two units let a timer fire early and the tiers differ;
`MaxStray` bounds failures recorded without a slot: retries resume once they stop.
`observe_pr`: its properties are about each run, and the proofs hold for any number of
them; two entries give calls and timers of an earlier one, two commits a stale head,
two calls any race of two (`MaxCalls`). The notices have no bound but the sets: two pull
requests let one notice keep updates of the other silent, and sessions, prompts and
lookups go on for ever; that the agent asks for one of them only (`Requested`) keeps the
instance small. `review_tasks`: two actions meet at one task, two
lists overlap, and any two of the events that may follow each other do; the pairs of
`Budgets` take the combinations that touch the same state. A reviewer writes one text in
replies (`Answers`): which reply is which is told by its time, and by author and text only
where a thread was replaced, where two of the same text are the harder case. `pr_hooks`: the watch may be
two polls long and a chunk as well, so that four units of time pass the end of a budget
and a second stop; two pull requests let the branch change its own. `orca_watch`: a
second run is what a switch and a late answer need, two processes the old and the new
watcher. `agy_session`: two identities of children show whether a second is ever alive,
three prompts let a cancel be older than the previous prompt, two selections are one
the child has and one it has not. `agy_peer`: three messages are an opening, a prompt and
what overtakes it; `MaxFrame` is two marks, so that a line has less, as much and more.
The runs set `CHECK_DEADLOCK FALSE`: an extension may have nothing more to do.

*Assumptions.* `InOrder = TRUE` and `HasDeadline = TRUE`: see
`ReviewTasks` and `AgyPeer` above.

*Fairness.* Every await of a start, of a lookup and of a kill answers or times out
(60 s for handshake requests, command timeouts for git, orca and gh, 1.5 s to
SIGKILL). A database lookup of the backfill answers or times out. The event loop
turns and background work ends, because the commands it awaits have timeouts.
Permission timers fire (`DevinWorktrees`).
In `GhHealth` time passes, calls end, and a timer that falls due again and again
fires in the end (strong fairness: every failure arms it anew).
In `AgySession` continuations run, probes and interrupts have timers, and the
ladder ends with SIGKILL; agy, its hooks and the client may do nothing. In `AgyPeer`
lines and promise reactions run, the deadline and the flush timer fire; the client, the
pipe and the children may never do anything.
In `OrcaWatch` commands of orca end, restart timers fire, the interval that reconciles
goes on, tool calls under way return; workers and users may do nothing.
In `ReviewHosts` the background syncs of the extension go on being answered
(`SyncsGoOn`): they run on a timer and every call of gh times out.
Nothing is assumed of turns, tools, users or crashes.

## 4. Proofs

`DevinDelegateProofs` (for every number of tasks, limit and re-attachments):
`TypeCorrect`, `SlotsExact`, `QueueExact`, `AdmissionRespectsLimit`,
`FirstComeFirstServed`. `SlotAccounting` is not inductive: a drain reserves one
slot per element of the prefix it takes, which equals the number of tasks that
become holders only if the queue has no duplicates and queued tasks hold nothing.
`Inv` adds that (`Consistent`), that the task a drain awaits a worktree for is at
that stage, and that tasks not yet delegated have no stage. Lemmas treat each
kind of change of a stage once (`Moves`, `Leaves`, `Enters`, `Enqueues`,
`Withdraws`, `Admits`, `DrainStep`); one step per action then cites them.

`QueueIsNotForgotten` needs nothing beyond `Inv`: each action that frees a slot or
queues a task also asks for a drain. `SessionsMatch` and `CancelIsFinal` need what a
session, its client, its process and its prompt are at each stage of the task
(`Sessions`: `NoSession`, `Opening`, `Established`). They except the processes that parallel
messages leave behind (section 5), and nothing else: the history variable `raced` marks the
sessions this happened to, `Alone` says that any other has one re-attachment under way at
most, and `Established` holds of a raced session in all that does not concern those.
`ImplementsThePromise` is the refinement of `AdmissionQueue`: one lemma per action names
the abstract step or stutter it is.

`DevinWorktreesProofs` (for every set of sessions, number of processes, requests and
worktrees): `AnswersReachTheAsker`, `StartsGetFreshWorktrees`, `CleanupsSpareFinishedWork`.
The first is inductive with the types of the permission variables; one lemma per kind of
step (a request, an answer, a timer, the end and the beginning of a turn) serves all actions
of both modules, since the steps of worktrees begin and end turns in the same few ways. A
start is given a folder that did not exist because it has none before (`HomesFit`), and orca's yes,
or git's, is one; a belief in an exit without words is excepted. A cleanup
removes in several steps; `CleanupsFit` says what each of them has established of the work
that is held in the folder, as it was when it looked.

`TaskScopeProofs` (for every set of keys and runs): `TypeCorrect`,
`SingleFlight`, `NothingForgotten`, `ClosedScopeIsQuiet` and
`CoalescingImplemented`, the refinement of `CoalescedWork`. `Inv` says that
holders are tracked, alive and serve their key, that a follow-up is asked for only
while a body holds the slot, that a tracked run of a key holds its slot and runs
the scope has forgotten were told to stop, and what exactly is owed.

`AgyProofs`, `AgyPeer` (for any number of messages, in chunks and frames of any size):
`RequestsAreAnsweredOnce`, `CleanExitsAreComplete` and `ActsInOrder`. However the stream is
cut, what is buffered and what is still due are whole messages with rising numbers (`Pipe`),
so that the lines of a chunk are messages in their order (`LinesInOrder`) and younger than
everything read before (`Heard`). A request that was read has exactly one place until it is
answered, a line, a queued reaction, the turn or a session that starts (`Placed`); it moves
from one to the next, and an answer takes it away, which is why there is only one. Prompts
and cancels stay in order through lines and reactions (`Follow`). While a turn has not
returned the session holds on to it, and that its child is chosen is queued once (`TurnHeld`).
On the way out a child belongs to a session still to be disposed of or tracked
(`SessionsLeft`), but for the one of an abandoned session, and the answer that the disposal owes is
waited for together with its child (`Waited`), queued, written or read (`OwedIsKept`). The first part of the module is
about the decoder: that what the client can write, a recursive function of the number of messages, exists and
is such a stream, and that `Decoded` and `Rest` take it apart as the properties need it.

The same module, `AgySession` (for every set of children and hooks, any selections and number
of prompts): `TypeCorrect`, `NeverTwoChildren`, `TextsReachFitChildren` and
`CancelledHooksAreRefused`. None is inductive alone. A new child is started only when no other lives,
because a turn waits for the only one there is (`TurnHasIt`) and between turns the
only one is the driver (`DriverIsIt`). A text reaches a fit child because an open
prompt was neither cancelled nor disposed of (`OpenPrompt`), a child probed for it
is untouched (`ProbedIsFresh`), and a live driver without respawn mark is fit
(`LiveMeansFit`); `Opening` says the same of `start()`'s child. An ask on screen
belongs to an open gate and no cancelled turn (`AskIsCurrent`). There is one lemma
per action, with one step per conjunct of `Inv`.

`PullRequestProofs`, `ObservePr` (for every set of runs, any number of commits, entries and calls):
`TypeCorrect`, `ActiveRunsStayDriven`, `SuccessIsNews`. That success is not told twice
needs an account of the time between announcements (`NoNewsIsTold`): while there is
no news, the entry says that success was told or has active runs, in memory and in
the session file. An evaluation under way belongs to no later entry
(`CallsAreNoNewer`), is the only one of its entry (`OneEvaluation`) and was begun with
news (`EvaluatedIsNews`). There is one lemma per action, with one step per conjunct.

`PullRequestProofs`, `GhHealth` (for every set of callers, all intervals): `HealthTypeCorrect`,
`NobodyStranded`, `DriversExclude`, their conjunction `RefusedDrivenOnce`, and
`NoWastedRetry`. `WaitersAreDriven` alone is not
inductive, since a holder may give back a slot that is no longer its own: `HealthInv`
adds that a held slot has a caller that will give it back (`HeldByCaller`), that the
note for `release` is about the slot as it is (`NoteIsCurrent`), and that an outage
without a timer has its slot due (`NoTimerMeansDue`).

The same module, `TrackingNotices` (for every set of pull requests): `NoticesTypeCorrect`,
`NoticesDoArrive` and `StopsDoStick`. `Sound` is what every handler preserves of the
memory; the rest of the invariant says that no other prompt is on its way while the armed
one may count as delivered (`ArmedIsAlone`: without it a run that does not carry the notices
would mark them), that the file says what memory says (`FileAgrees`), and what a session
leaves behind (`AfterTheSession`). A lemma per helper states the fields it leaves; the steps
compose them, and one lemma (`Handled`) takes any memory a handler leaves to the invariant
and to the step property at once.

`PrObserverProofs` (for every number of notifiers, pull requests and changes, any lengths
of the watch and its polls): `WatchStaysBounded` and `AgentStaysUpToDate`. The start of
the watch is in the file and in every copy a notifier holds (`WatchIsKept`), although each
process writes the file whole, because no notifier runs while a stop is judged
(`StopIsAlone`). What the file holds for known was heard, or the notifier that wrote it is
on its way to tell it (`Known`, `NoteIsSound`). An attempt with the model as it was failed
for a reason: a pull request that had been a draft or was closed meanwhile is judged
without its past, so that the agent does not hear that an old conflict is gone; `heard`
starts anew then (section 5).

The same module, the review tasks (for every set of suggestions, answers, lines and
budgets, any number of actions, tasks, threads and lists, and lists composed in any order):
`ReviewIsTyped`, `SeenWereShown`, `AppliedOnce` and `ActionsTakeTurns`. Types say little about
comments here: which id is whose depends on what was written. `Typed(w)` therefore speaks of
a history `w` of all comments there ever were (who wrote what at each time, which of them the
agent posted, what it was told): every comment on GitHub, in a task, in a list under way or in
a call is one of that history under some id, so that author and text, which `carryReplyIds`
goes by, name the same words as the id. `ReviewInv` asks that such a history exists; each
event extends it (`Grows`). `SeenRepliesWereShown` needs more than the replies a task shows:
an id may disappear and come back, so `Tasks(w)` says of *every* id in `seen` and `baseline` that
its words were heard, and of every root that leads a thread after a deletion that it was a
reply once (`Followed`); a lemma for each function of the manager shows that it stays so, the
matching of a list's groups needing only that a claim gives a task one of the list's nodes
(`SettledKeeps`). `Works` adds how the extension's actions wait. `Locked`: the queue of a task
holds each of its actions once, the head alone is past its turn, and the user's replies,
which take no lock, are in none. `Asked`: an action that waits for a list has exactly one under
way. `Written`: a suggestion is in the file once for a task with `applied` set and not at all
for one without, and who is about to write has found it unset. The last is inductive only
together with the lock, because the check and the write are two steps. `AppliedOnce` is about
the extension: the server has no lock and writes again (section 5); of its calls `Tooled` says
in which steps they may be. The function definitions of `TaskEngine` replace recursion over
lists by positions, sets and folds; the first and the last element, `Those` and `RemoveAt` have
their lemmas at the head of that part.

`OrcaWatchProofs` (for every set of runs, workers and check processes, any number of
calls, exits and failures): `WatchersAreSingle` and `NothingIsToldTwice`. `OneWatcher` is
inductive with the types. That no message is told twice follows from where it can be:
unsaid, in one inbox, or in the one delivery Orca holds back until it is acknowledged
(`SaidOnce`); nothing of that delivery was told yet, or the next watcher is bound to
acknowledge it before it waits (`Deliveries`), and all that is under way is about one run
(`OneRun`). TLC checked `MessagesInv` on the run's instance first.

`RecoveryProofs`, `DevinRecovery` (for every number of tasks, turns and crashes):
`FilesConsistent` and `NoTaskIsLost`. Memory and files differ while writes are pending, so
`RecoveryInv` speaks of the files as they will be: the queued writes over the files end
with what memory holds (`MetaEnds`, `StateEnds`). A crash may come after any prefix of
them, and none leaves a `state.json` that names a session without `meta.json` (`Ordered`).
`Phases` says what is known while pi is down or recovers, and that only a partial
`state.json` can lack something recovery has to bring back (`durable`).

The same module, `CompactionRecovery` (for every set of prompts, any number of rounds,
responses and failures): `CompactionTypeCorrect`, `ResendsCaused` (a prompt is sent again at most
once for each compaction that failed under it, counting armed timers and the compaction
that carries it) and `RecentKept`, the part of the documentation that holds: with at least
as many responses as are to be kept, the most recent ones stay. TLC agrees with these
on an instance with 2 prompts and 5 responses, which is not among the runs.

Only assumptions on constants are used: `DelegateAssumption`, `PermissionsAssumption`,
`WorktreesAssumption`, `RecoveryAssumption`, `ScopeAssumption`, `HealthAssumption`,
`PeerAssumption`, `SessionAssumption`, `ObserveAssumption`, `NoneAssumption`, `RequestedAssumption`,
`HooksAssumption`, `OrcaAssumption`, `ReviewAssumption`, and the hypothesis `CompactionConstants` of
the theorems about compaction.

Only model-checked, of `ReviewHosts`: `OneTaskPerConversation`, which is no consequence of what the
tasks hold, since GitHub decides under which nodes and ids a conversation comes back: it needs an
account of which nodes and comments ever belonged to one conversation, and `InOrder`;
`LocalResolveSticks`, which rests on the same account (another task's call may resolve the
thread); and `OwnRepliesAreKnown`, which compares the replies of a task with the threads on GitHub
through every retry. Larger instances than the run's and long random behaviours were tried
on them as well, and corrected two earlier statements (section 5). Liveness is out of
the prover's reach: `StartsSettle`, `DeadTurnsSettle`, `AsksAreAnswered`, `RequestsAreAnswered`,
`RefusedAreWoken`, `AnswersUnblock`, `EndsAreTold`, `EndsAreReached`, `ShutdownEnds`.

## 5. Where code and documentation disagree

One disagreement is a run. `finding_recent`: `planCompression` preserves
`results.slice(results.length - keep)` (`compaction-fail-recovery.ts:275`); with fewer
responses than `keep` the start is negative and counts from the end, so that of four
responses and a `keep` of five only the last is preserved. The head of the file (`:22`)
says that the last N are never compressed.

The others were met while modelling. The models behave as the code does, and the
properties are stated so that they do not claim the opposite.

- `devin_message` checks status and client before it awaits the handshake of the process it
  starts, and not after (`devin-delegate.ts:1977`): of two messages in parallel each starts
  a process, and the second to register takes the place of the first, whose client nobody
  holds any more. A cancel or a restart does not end that process
  (`docs/devin-delegate-reliability-plan.md:82`: "no leftover process for that session"), and
  when its turn ends the session is set idle (`:2021`), cancelled or not.
  `SessionsMatchTheirProcesses` and `CancelIsTerminal` except these processes (`Forgotten`)
  and nothing else.
- `devin_restart` looks at the recorded pid only; during a re-attachment the new
  process is not recorded yet, and the restart starts a second one beside it
  (`devin-delegate.ts:2221`, comment at `:2219`).
- Between its admission and its registration a task is in no file; a crash there loses
  it (`devin-delegate.ts:1361`; `src/README.md:220` promises complete recovery).
- `devin_message` runs a turn without reserving a slot, so only admissions respect the
  limit (`src/README.md:209`).
- A start that is under way at `session_shutdown` registers afterwards
  (`devin-delegate.ts:1590`, comment at `:1581`).
- A prompt that follows a cancel is pending while the cancelled child dies; that child's
  interrupted result settles it (`session.ts:309`, comment in `turn.ts:12`).
- `disposeAll` does not wait for a session that is still starting (`session-registry.ts:78`,
  comment at `:3`).
- While `ensureDriver` waits for the child it replaces to die, or for the one whose probe failed,
  the session has no driver (`session.ts:234`, `:256`). A `dispose()` that comes then waits for no
  child (`:200`, `:208`): the process may exit with code 0 while that child, or one that
  `ensureDriver` starts afterwards, is alive and the prompt has no answer. `shutdown.ts:7` says
  "the exit waits for the cleanup, so no agy child outlives us". `CleanExitLeavesNothing` excepts
  such a session (`"abandoned"`), and `EndsAreReached` its children once the server has left.
- A hook of a cancelled turn that arrives when the next prompt has begun is judged as one
  of the next turn, since nothing ties a hook to its turn. `NothingAllowedAfterCancel`
  therefore speaks of the time until that prompt.
- `checkAllCIPassed` asks whether runs are active before it awaits `gh pr checks`, not
  after (`observe-pr.ts:755`). A run discovered meanwhile is running when "All CI passed"
  is sent (`src/README.md:102`), and its own success is not told, because the flag that
  was reset for it is set again.
- `settlePendingAutoStarts` starts an observation after its lookup without another look
  (`observe-pr.ts:1698`): `/pr_observer stop` in between is overridden (comment at `:2029`), and
  so is a change of the session; an entry made meanwhile is replaced and its poll timer goes
  on. It never marks the pull request as announced, so that a resumed session tells it again
  (comment at `:614`). `StopsStick` excepts lookups under way.
- A mergeability notice that joins a deferred one (`observe-pr.ts:515`) is dropped if the
  message that carries the older text is already armed, or if `observe_pr` takes the notice
  over; the comment at `:507` says it must not be lost. While it waits, `observe_pr` on an
  announced pull request answers "starting" and does not stop (`:1863`).
- A lookup that answers after `session_shutdown` may write a state entry with little in it
  (`observe-pr.ts:1267`); the next session reads it.
- The server applies a suggestion again when the reply after it failed
  (`mcp-server.mjs:427`, comments at `:402` and `:419`).
- The extension's "retries are safe" (`pr-tasks.ts:645`) has two gaps. A list that was asked
  for before the agent's reply was posted, and lands after it, takes the reply out of
  `replies` again (`pr-tasks-manager.ts:377`); if the resolve fails and `gh` is degraded, the retry goes by
  that (`pr-tasks.ts:494`) and posts the reply a second time. And a thread that is
  replaced by one without the agent's reply drops its id from what is known
  (`pr-tasks-manager.ts:604`); when the task moves back, the reply counts as the reviewer's answer.
  `OwnRepliesAreKnown` excepts these (`unsure`).
- "Nodes for the same root comment are one conversation" (`pr-tasks-manager.ts:217`), but a
  conversation that comes back under new comment ids while its rejected node is still listed has
  two root comments: the old node keeps its task as long as no action was rejected on it (`:243`),
  or for good where it is listed without its comments (`:268`, `:291`), and the new node becomes a
  second open task. `OneTaskPerConversation` excepts exactly the
  conversations of which a rejected node is listed, and the agent's own replies, which a call
  that returns late adds to a task that lost its thread meanwhile.
- When the second attempt on a replaced thread is rejected, `markThreadDead` marks the thread
  the task has by then (`pr-tasks.ts:575`), not the one that was rejected; a list that moved the task
  meanwhile makes it STALE on a healthy thread, until an action on it is accepted or a reply comes.
- A reconciliation restarts an observation that the user stopped
  (`orca-orchestration.ts:628`, comments at `:419` and `:1100`).
- An exit of 0 is taken for a worktree unless orca refuses (`devin-delegate.ts:1055`, comment at
  `:1049`): if orca made none, the start has a folder that is not there, where its process cannot
  be spawned, or that another start makes meanwhile. `WorktreesAreFresh` excepts this reply.
- A removal reads the state of the folder, awaits two more looks and removes with force:
  work that Devin begins in between is lost (`devin-delegate.ts:2504`, `orca-client.ts:343`;
  `skills/delegate-to-devin/SKILL.md:76`). Related: a restart shares its parent's folder, and
  the parent's cleanup removes it; a merged pull request of a branch number that is used
  again makes new unpushed commits "safe"; on a detached head the hook and the release
  look neither at the pull request nor at unpushed commits.
- The marker of a draft or closed pull request replaces what was last seen of it
  (`notify-changes.mjs:81`): an agent that was told of a conflict before is not told that it
  is gone when the pull request is open again (`:139`).
- `mergeability.ts:20` reads an unknown state as no conflict, and `notify-changes.mjs:139`
  tells it as "mergeable again".
- A chunk of stdin that ends inside the `\r\n` of a line of exactly `maxFrameBytes` closes
  the connection (`framing.ts:55`, comment at `:68`).
- A retried compaction is a manual one: if it fails again and the next round succeeds,
  the prompt is not sent again (`compaction-fail-recovery.ts:39` says it is), and a reload
  runs the factory again, so the budget does not survive it (`:533`).
- During a recovery the backfill of a dead turn writes `state.json` with the queue not yet
  restored and the sessions read so far (`devin-delegate.ts:1507`, the queue follows at
  `:1525`); a recovery cut short by the boot budget does the same with its first write. If pi
  crashes before a complete one is on disk, the queued tasks and the sessions left out are
  lost, though they were on disk at the first crash (`src/README.md:220`).
  `RecoveryKeepsDurable` excepts what such a partial file has overwritten (`lost`).
- The backfill overwrites a session that was cancelled meanwhile
  (`devin-delegate.ts:1491`).

## 6. Not modelled

- *Pure text and I/O*: the bash guard, diagnostics, `tools.ts` and `exec.ts`, formatting, the
  translation of agy's events into ACP updates, start-up checks, permission options, the
  classification of check rows and error texts. They hold no state; what matters of them
  is which text they produce.
- *Heartbeats, counters, dashboards, logs, sweeps of old files*: nothing else reads them.
- *Markdown plugins, skills, prompts and the repository's scripts*: instructions and
  development tooling.
- In every modelled part, what its paragraph in section 2 names as left out.

## 7. What may follow

1. Proofs: `OneTaskPerConversation` and `LocalResolveSticks` need an account of the nodes and
   comments of a conversation first; `OwnRepliesAreKnown` one of the posts and the lists that
   have not seen them.
2. An abstract one-prompt-at-a-time specification that `AgySession` and `AgyPeer` implement.
