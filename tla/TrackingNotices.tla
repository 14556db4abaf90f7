-------------------------- MODULE TrackingNotices ---------------------------
(***************************************************************************)
(* What observe-pr.ts tells the agent about the pull requests it observes:    *)
(* notices that ride on the user's next message when a session begins, later   *)
(* ones that a timer delivers, the updates that are discarded meanwhile, the   *)
(* tool and the command that start and stop an observation, auto-starts that   *)
(* wait for GitHub, and what the session file keeps of it all.                *)
(*                                                                           *)
(* A branch has one pull request and is named by it.  GitHub answers anything  *)
(* at any time, and a call may answer after its session has ended.  What pi     *)
(* does with a prompt is modelled from how the handlers use it: a prompt leads  *)
(* to a run of the agent or dies, and the user's next one is taken when no      *)
(* other run is about to start.                                              *)
(***************************************************************************)
EXTENDS FiniteSets

CONSTANTS
    PullRequests,
    Requested       \* bound: those that observe_pr may be asked to start

ASSUME RequestedAssumption == Requested \subseteq PullRequests

VARIABLES
    memory,     \* the extension's maps and flags, see Memory
    filed,      \* the last state entry of the session, as restoreState reads it
    disposed,
    boot,       \* the startup check: "git" (before it scans), "scan" or "over"
    scanning,   \* another check of the branches is asking GitHub
    autostart,  \* pendingAutoStart
    due,        \* entries a round of settlePendingAutoStarts has still to look at
    settling,   \* those whose `gh pr view' is under way
    asking,     \* observe_pr calls that await `gh pr view': own, or of an earlier session
    onWay,      \* prompts that may still become a run: "armed" (with notices), "other"
    strays      \* started by a call of an earlier session (history)

noticesVars == <<memory, filed, disposed, boot, scanning, autostart, due, settling, asking, onWay, strays>>

\* timers is pendingAnnouncements; attached, carries and broken are noticeAttached,
\* noticeAttachedFor and noticeAttachBroken; told is history: the pull requests
\* the agent of the session has heard of.
Memory == [observed : SUBSET PullRequests, announced : SUBSET PullRequests,
           stopped : SUBSET PullRequests, deferred : SUBSET PullRequests,
           timers : SUBSET PullRequests, suppress : BOOLEAN,
           attached : BOOLEAN, carries : SUBSET PullRequests, broken : BOOLEAN,
           userTurn : BOOLEAN, hasRun : BOOLEAN, told : SUBSET PullRequests]

File == [observed : SUBSET PullRequests, announced : SUBSET PullRequests, stopped : SUBSET PullRequests]
NoEntry == [observed |-> {}, announced |-> {}, stopped |-> {}]

\* resetObserverState, and restoreState of the entry f: what was not announced
\* is announced with the next message.
Restored(f, told) ==
    [observed |-> f.observed, announced |-> f.announced, stopped |-> f.stopped,
     deferred |-> f.observed \ f.announced, timers |-> {},
     suppress |-> f.observed \ f.announced # {},
     attached |-> FALSE, carries |-> {}, broken |-> FALSE,
     userTurn |-> FALSE, hasRun |-> FALSE, told |-> told]

\* persistState: a pull request in both lists counts as stopped when it is read.
StateEntry(m) == [observed |-> m.observed \ m.stopped, announced |-> m.announced \ m.stopped,
                 stopped |-> m.stopped]

NoticesInit ==
    /\ memory = Restored(NoEntry, {}) /\ filed = NoEntry /\ strays = {}
    /\ disposed = TRUE /\ boot = "over" /\ scanning = FALSE
    /\ autostart = {} /\ due = {} /\ settling = {} /\ asking = {} /\ onWay = {}

-----------------------------------------------------------------------------
(* Parts of handlers *)

\* A message reaches the agent, unless the session is over.
Tells(m, ps) == [m EXCEPT !.told = IF disposed THEN @ ELSE @ \cup ps]

\* announceTracking, announceMergeability
Announce(m, p) ==
    IF m.suppress THEN [m EXCEPT !.deferred = @ \cup {p}] ELSE Tells(m, {p})

\* startObserving
StartObserving(m, p, explicit) ==
    [m EXCEPT !.observed = @ \cup {p},
              !.announced = IF explicit THEN @ \cup {p} ELSE @ \ {p},
              !.stopped = IF explicit THEN @ \ {p} ELSE @]

\* The notice of p is not due any more.
WithoutNotice(m, p) ==
    [m EXCEPT !.deferred = @ \ {p}, !.timers = @ \ {p},
              !.suppress = @ /\ (m.deferred \ {p} # {} \/ m.attached)]

\* stopObserving
StopObserving(m, p) ==
    [WithoutNotice(m, p) EXCEPT !.observed = @ \ {p}, !.announced = @ \ {p}, !.stopped = @ \cup {p}]

Marked(m, ps) == [m EXCEPT !.announced = @ \cup (ps \cap m.observed)]

\* The notices ps were delivered.
Delivered(m, ps) ==
    [Marked(m, ps) EXCEPT !.deferred = @ \ ps, !.suppress = m.deferred \ ps # {}]

\* releaseLateStartupNotices
ReleaseLate(m) ==
    IF m.hasRun /\ m.deferred # {} THEN Tells(Delivered(m, m.deferred), m.deferred) ELSE m

\* The handler persists what it leaves; after the session, pi may refuse.
Becomes(m) ==
    /\ memory' = m
    /\ IF disposed THEN filed' \in {filed, StateEntry(m)} ELSE filed' = StateEntry(m)

checkVars == <<boot, scanning>>
startVars == <<autostart, due, settling, asking, strays>>

-----------------------------------------------------------------------------
(* Sessions *)

SessionStarts(resumed) ==
    /\ disposed
    /\ disposed' = FALSE
    /\ filed' = IF resumed THEN filed ELSE NoEntry
    /\ memory' = Restored(filed', IF resumed THEN memory.told ELSE {})
    /\ strays' = IF resumed THEN strays ELSE {}
    /\ boot' = "git"
    /\ UNCHANGED <<scanning, autostart, due, settling, asking, onWay>>

\* Checks under way compare the generation and give up.
SessionEnds ==
    /\ ~disposed
    /\ disposed' = TRUE
    /\ memory' = Restored(NoEntry, memory.told)
    /\ boot' = "over" /\ scanning' = FALSE
    /\ autostart' = {} /\ onWay' = {}
    /\ asking' = {[a EXCEPT !.own = FALSE] : a \in asking}
    /\ UNCHANGED <<filed, due, settling, strays>>

-----------------------------------------------------------------------------
(* Checks of the branches *)

\* isCheckingBranches
Checking == scanning \/ boot = "scan"

StartupScans ==
    /\ boot = "git" /\ ~Checking
    /\ boot' = "scan"
    /\ UNCHANGED <<memory, filed, disposed, scanning, startVars, onWay>>

\* It has scanned, or returned early, or the boot budget ended it.
StartupEnds ==
    /\ boot # "over"
    /\ boot' = "over"
    /\ Becomes(ReleaseLate(memory)) \/ UNCHANGED <<memory, filed>>
    /\ UNCHANGED <<disposed, scanning, startVars, onWay>>

Scans ==
    /\ ~disposed /\ ~Checking
    /\ scanning' = TRUE
    /\ UNCHANGED <<memory, filed, disposed, boot, startVars, onWay>>

ScanEnds ==
    /\ scanning
    /\ scanning' = FALSE
    /\ UNCHANGED <<memory, filed, disposed, boot, startVars, onWay>>

\* Mutant: a stopped pull request is found again.
MutantUntracked(p) == p \notin memory.observed

Untracked(p) == p \notin memory.observed \cup memory.stopped

\* A branch has an open pull request that is not tracked.  At startup its
\* notice waits for the user's message, later it comes from a timer.
Finds(p) ==
    /\ Checking /\ Untracked(p)
    /\ LET m == StartObserving(memory, p, FALSE)
       IN  Becomes(IF boot = "scan" /\ ~memory.hasRun
                   THEN [m EXCEPT !.deferred = @ \cup {p}, !.suppress = TRUE]
                   ELSE [m EXCEPT !.timers = @ \cup {p}])
    /\ UNCHANGED <<disposed, checkVars, startVars, onWay>>

TimerFires(p) ==
    /\ p \in memory.timers
    /\ LET m == Announce([memory EXCEPT !.timers = @ \ {p}], p)
       IN  Becomes(IF memory.suppress THEN m ELSE Marked(m, {p}))
    /\ UNCHANGED <<disposed, checkVars, startVars, onWay>>

-----------------------------------------------------------------------------
(* Polls *)

\* The pull request cannot be merged as it is.
MergeChanges(p) ==
    /\ ~disposed /\ p \in memory.observed
    /\ Becomes(Announce(memory, p))
    /\ UNCHANGED <<disposed, checkVars, startVars, onWay>>

PollFindsClosed(p) ==
    /\ ~disposed /\ p \in memory.observed
    /\ Becomes(StopObserving(memory, p))
    /\ UNCHANGED <<disposed, checkVars, startVars, onWay>>

-----------------------------------------------------------------------------
(* observe_pr, /pr_observer stop *)

HasNotice(p) == p \in memory.timers \cup memory.deferred

\* The result of the tool takes the place of the notice.
ToolTakesOver(p) ==
    /\ ~disposed /\ HasNotice(p)
    /\ Becomes(Tells(Marked(WithoutNotice(memory, p), {p}), {p}))
    /\ UNCHANGED <<disposed, checkVars, startVars, onWay>>

ToolStops(p) ==
    /\ ~disposed /\ ~HasNotice(p) /\ p \in memory.observed
    /\ Becomes(StopObserving(memory, p))
    /\ autostart' = autostart \ {p}
    /\ UNCHANGED <<disposed, checkVars, due, settling, asking, strays, onWay>>

ToolAsks(p) ==
    /\ ~disposed /\ ~HasNotice(p) /\ p \in Requested \ memory.observed
    /\ asking' = asking \cup {[pr |-> p, own |-> TRUE]}
    /\ UNCHANGED <<memory, filed, disposed, checkVars, autostart, due, settling, strays, onWay>>

\* An open pull request; the agent of the call is told.
ToolStarts(a) ==
    /\ a \in asking
    /\ LET m == StartObserving(memory, a.pr, TRUE)
       IN  Becomes(IF a.own THEN Tells(m, {a.pr}) ELSE m)
    /\ strays' = IF a.own THEN strays ELSE strays \cup {a.pr}
    /\ asking' = asking \ {a}
    /\ autostart' = autostart \ {a.pr}
    /\ UNCHANGED <<disposed, checkVars, due, settling, onWay>>

\* GitHub is unreachable, and the start is left to the next retry; or there is
\* nothing to observe.
ToolReturns(a) ==
    /\ a \in asking
    /\ asking' = asking \ {a}
    /\ autostart' \in {autostart, autostart \cup {a.pr}}
    /\ UNCHANGED <<memory, filed, disposed, checkVars, due, settling, strays, onWay>>

CommandStops(p) ==
    /\ ~disposed
    /\ autostart' = autostart \ {p}
    /\ IF p \in memory.observed THEN Becomes(StopObserving(memory, p))
       ELSE memory' = [memory EXCEPT !.timers = @ \ {p}] /\ UNCHANGED filed
    /\ UNCHANGED <<disposed, checkVars, due, settling, asking, strays, onWay>>

-----------------------------------------------------------------------------
(* settlePendingAutoStarts *)

RetryHook ==
    /\ ~disposed
    /\ due' = due \cup autostart
    /\ UNCHANGED <<memory, filed, disposed, checkVars, autostart, settling, asking, strays, onWay>>

\* What is observed is dropped, the others are asked about; without a slot of
\* ghHealth the round is over.
Settles(p) ==
    /\ p \in due
    /\ due' = due \ {p}
    /\ \/ p \in memory.observed /\ autostart' = autostart \ {p} /\ UNCHANGED settling
       \/ p \notin memory.observed /\ settling' = settling \cup {p} /\ UNCHANGED autostart
       \/ p \notin memory.observed /\ UNCHANGED <<autostart, settling>>
    /\ UNCHANGED <<memory, filed, disposed, checkVars, asking, strays, onWay>>

\* An open pull request: nothing is looked at again.
AutoStarts(p) ==
    /\ p \in settling
    /\ settling' = settling \ {p}
    /\ autostart' = autostart \ {p}
    /\ Becomes(Announce(StartObserving(memory, p, FALSE), p))
    /\ UNCHANGED <<disposed, checkVars, due, asking, strays, onWay>>

\* Another answer, or none.
SettleReturns(p) ==
    /\ p \in settling
    /\ settling' = settling \ {p}
    /\ autostart' \in {autostart, autostart \ {p}}
    /\ UNCHANGED <<memory, filed, disposed, checkVars, due, asking, strays, onWay>>

-----------------------------------------------------------------------------
(* Prompts and runs *)

\* Mutant: other prompts do not disturb an armed notice.
MutantInterposed(m) == m

\* A prompt that does not carry the notices came after the armed one.
Interposed(m) == [m EXCEPT !.broken = @ \/ m.attached]

\* The user's plain message, while the agent is idle.
Says ==
    /\ ~disposed /\ "other" \notin onWay
    /\ LET m == [memory EXCEPT !.userTurn = TRUE]
       IN  IF m.deferred # {}
           THEN /\ memory' = [m EXCEPT !.attached = TRUE, !.broken = FALSE, !.carries = m.deferred]
                /\ onWay' = {"armed"}
           ELSE memory' = Interposed(m) /\ onWay' = {"other"}
    /\ UNCHANGED <<filed, disposed, checkVars, startVars>>

\* A slash command of the user may begin a run.
SaysCommand ==
    /\ ~disposed /\ "other" \notin onWay
    /\ memory' = Interposed([memory EXCEPT !.userTurn = TRUE])
    /\ onWay' \in {onWay, {}, onWay \cup {"other"}}
    /\ UNCHANGED <<filed, disposed, checkVars, startVars>>

\* A queued message, one of an extension, or a run without a prompt.
OtherPrompt ==
    /\ ~disposed
    /\ memory' = Interposed(memory)
    /\ onWay' \in {onWay, onWay \cup {"other"}}
    /\ UNCHANGED <<filed, disposed, checkVars, startVars>>

PromptDies ==
    /\ \E prompt \in onWay : onWay' = onWay \ {prompt}
    /\ UNCHANGED <<memory, filed, disposed, checkVars, startVars>>

\* agent_start.  The handler does not know which prompt runs.
RunStarted(m) ==
    [CASE ~m.attached /\ ~m.userTurn -> m
       [] m.attached /\ ~m.broken    -> Delivered(m, m.carries)
       [] OTHER                      -> [m EXCEPT !.suppress = FALSE]
     EXCEPT !.hasRun = TRUE, !.attached = FALSE, !.carries = {}, !.broken = FALSE, !.userTurn = FALSE]

\* The notices that the armed prompt carries are read when it runs, or when
\* pi queues it behind the run that came first.
AgentStarts(prompt) ==
    /\ prompt \in onWay
    /\ onWay' = {}
    /\ \E read \in SUBSET memory.carries :
          /\ prompt = "armed" => read = memory.carries
          /\ read \in {{}, memory.carries}
          /\ read # {} => "armed" \in onWay
          /\ Becomes(RunStarted(Tells(memory, read)))
    /\ UNCHANGED <<disposed, checkVars, startVars>>

-----------------------------------------------------------------------------

NoticesNext ==
    \/ \E resumed \in BOOLEAN : SessionStarts(resumed)
    \/ SessionEnds
    \/ StartupScans \/ StartupEnds \/ Scans \/ ScanEnds
    \/ \E p \in PullRequests :
          \/ Finds(p) \/ TimerFires(p) \/ MergeChanges(p) \/ PollFindsClosed(p)
          \/ ToolTakesOver(p) \/ ToolStops(p) \/ ToolAsks(p) \/ CommandStops(p)
          \/ Settles(p) \/ AutoStarts(p) \/ SettleReturns(p)
    \/ \E a \in asking : ToolStarts(a) \/ ToolReturns(a)
    \/ RetryHook
    \/ Says \/ SaysCommand \/ OtherPrompt \/ PromptDies
    \/ \E prompt \in {"armed", "other"} : AgentStarts(prompt)

NoticesSpec == NoticesInit /\ [][NoticesNext]_noticesVars

-----------------------------------------------------------------------------
(* Properties *)

NoticesTypeOK ==
    /\ memory \in Memory /\ filed \in File /\ disposed \in BOOLEAN
    /\ boot \in {"git", "scan", "over"} /\ scanning \in BOOLEAN
    /\ {autostart, due, settling, strays} \subseteq SUBSET PullRequests
    /\ asking \subseteq [pr : PullRequests, own : BOOLEAN]
    /\ onWay \subseteq {"armed", "other"}

\* No observation is a secret: the agent has heard of each observed pull request
\* or a notice waits, through dying prompts, other runs, timers and resumed
\* sessions; what counts as announced, in memory or in the session file, was.
\* (A call of observe_pr that outlives its session is told to that session.)
NoticesAreKept ==
    /\ ~disposed => memory.observed \ memory.announced
                       \subseteq memory.deferred \cup memory.timers \cup memory.told
    /\ memory.announced \cup filed.announced \subseteq memory.told \cup strays

\* Updates are discarded only while a notice waits or rides on a prompt.
SuppressionHasAReason == memory.suppress => memory.deferred # {} \/ memory.attached

\* Each notice arrives, and nothing is silenced for longer than it takes.
NoticesArrive == NoticesAreKept /\ SuppressionHasAReason

\* A stop is final, also for the sessions that resume this one: only an explicit
\* start undoes it (an auto-start whose answer is on its way does not look).
StopsStick ==
    [][~disposed' => \A p \in filed.stopped \ memory.observed :
          p \in memory'.observed => p \in settling \/ p \notin filed'.stopped]_noticesVars
=============================================================================
