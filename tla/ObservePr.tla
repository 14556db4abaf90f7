----------------------------- MODULE ObservePr ------------------------------
(***************************************************************************)
(* The observation of one pull request by observe-pr.ts: discovery of CI runs *)
(* by polls and by the `gh pr checks --watch` process, one `gh run watch`      *)
(* process per run, its verdict, the announcement of success, and what the     *)
(* session file keeps of it.                                                  *)
(*                                                                           *)
(* Every handler that awaits `gh` holds the ObservedPR it began with.  Stops,   *)
(* new starts and resumes replace the entry of the map, so each outstanding    *)
(* call carries the identity of its entry.  A call of `gh` is a reply that      *)
(* GitHub composes at one moment and the handler applies at a later one.        *)
(* ghHealth's slot may be refused to anybody at any time.                      *)
(***************************************************************************)
EXTENDS Integers, FiniteSets

CONSTANTS
    Runs,           \* CI runs that may come to exist
    MaxHead,        \* bound on the commits of the pull request
    MaxEntries,     \* bound on starts and resumes of the observation
    MaxCalls,       \* bound on the calls of gh under way at once
    None

ASSUME ObserveAssumption ==
    /\ MaxHead \in Nat \ {0} /\ MaxEntries \in Nat \ {0} /\ MaxCalls \in Nat \ {0}

VARIABLES
    head, run, sha, \* GitHub: the head commit; state and commit of each run
    observed,       \* the pull request is in observedPRs
    entry,          \* identity of its (last) entry
    pr,             \* the ObservedPR
    checksProcess,  \* "up"; "timer": closed, and to be started again
    watching,       \* runProcesses: runs with a watcher that is heard
    rewatch,        \* rewatchTimers
    leftover,       \* runs with a timer of an earlier entry
    viewing,        \* close handlers of watchers that await `gh run view`
    telling,        \* those that await the summary of a failure
    checks,         \* calls of checkAllCIPassed that await `gh pr checks`
    polls,          \* calls of pollPR whose reply was composed
    saved,          \* the entry in the session file, or None
    news            \* a run has ended since the last "All CI passed" (history)

githubVars == <<head, run, sha>>
entryVars  == <<observed, entry>>
timerVars  == <<watching, rewatch, leftover>>
callVars   == <<viewing, telling, checks, polls>>
vars == <<githubVars, entryVars, pr, checksProcess, timerVars, callVars, saved, news>>

\* What an ObservedPR says of the runs; None stands for no entry in the file.
ObservedPR == [activeRuns : SUBSET Runs, seenRuns : SUBSET Runs, failedRuns : SUBSET Runs,
               completedRuns : SUBSET Runs, runShas : [Runs -> 0..MaxHead],
               headSha : 0..MaxHead, allPassedReported : BOOLEAN]

ASSUME NoneAssumption == None \notin ObservedPR

\* As startObserving makes it.
Blank == [activeRuns |-> {}, seenRuns |-> {}, failedRuns |-> {}, completedRuns |-> {},
          runShas |-> [r \in Runs |-> 0], headSha |-> 0, allPassedReported |-> FALSE]

Init ==
    /\ head = 1
    /\ run = [r \in Runs |-> "none"] /\ sha = [r \in Runs |-> 0]
    /\ observed = FALSE /\ entry = 0 /\ pr = Blank
    /\ checksProcess = "none"
    /\ watching = {} /\ rewatch = {} /\ leftover = {}
    /\ viewing = {} /\ telling = {} /\ checks = {} /\ polls = {}
    /\ saved = None /\ news = TRUE

-----------------------------------------------------------------------------
(* GitHub *)

Push ==
    /\ head < MaxHead
    /\ head' = head + 1
    /\ UNCHANGED <<run, sha, entryVars, pr, checksProcess, timerVars, callVars, saved, news>>

RunStarts(r) ==
    /\ run[r] = "none"
    /\ run' = [run EXCEPT ![r] = "running"] /\ sha' = [sha EXCEPT ![r] = head]
    /\ UNCHANGED <<head, entryVars, pr, checksProcess, timerVars, callVars, saved, news>>

RunEnds(r) ==
    /\ run[r] = "running"
    /\ \E end \in {"passed", "failed"} : run' = [run EXCEPT ![r] = end]
    /\ UNCHANGED <<head, sha, entryVars, pr, checksProcess, timerVars, callVars, saved, news>>

RunsOfHead == {r \in Runs : run[r] # "none" /\ sha[r] = head}

-----------------------------------------------------------------------------
(* Parts of actions *)

\* Another call of gh may begin.
Room == Cardinality(viewing) + Cardinality(telling) + Cardinality(checks) + Cardinality(polls)
           < MaxCalls

\* The entry a handler began with is still the one that is observed.
Live(e) == observed /\ entry = e

\* What persistState writes of the pull request: not the head.
Persisted(p) == [p EXCEPT !.headSha = 0]
Saved(p) == IF observed THEN Persisted(p) ELSE saved

\* A run that is new to the observer becomes active, and success may be told anew.
Discovered(p, rs) ==
    LET new == rs \ p.seenRuns
    IN  [p EXCEPT !.seenRuns = @ \cup new, !.activeRuns = @ \cup new,
                  !.allPassedReported = @ /\ new = {}]

\* Fault: a watcher that cannot be started is not tried again.
FaultWatch(rs, heard, timers) ==
    \E up \in SUBSET rs : watching' = heard \cup up /\ rewatch' = timers

\* watchRun for each of rs: a watcher is started, or spawn throws and a timer is set
\* to try again, or both, when the watcher that was started reports an error.
Watch(rs, heard, timers) ==
    \E up \in SUBSET rs : \E errs \in SUBSET up :
       watching' = heard \cup up /\ rewatch' = timers \cup (rs \ up) \cup errs

\* Fault: two evaluations may run at once.
FaultMayCheck(p) == p.activeRuns = {} /\ ~p.allPassedReported

\* checkAllCIPassed, up to its await: nothing active, nothing told, one at a time.
MayCheck(p) ==
    /\ p.activeRuns = {} /\ ~p.allPassedReported
    /\ \A c \in checks : c.entry # entry

\* checkAllCIPassed, called by a handler that persists afterwards if keep.
CheckAll(p, keep) ==
    \/ /\ MayCheck(p)
       /\ checks' = checks \cup {[at |-> "asked", entry |-> entry, keep |-> keep]}
       /\ UNCHANGED saved
    \/ /\ UNCHANGED checks
       /\ saved' = IF keep THEN Saved(p) ELSE saved

-----------------------------------------------------------------------------
(* Starting, stopping, resuming *)

\* startObserving
Start ==
    /\ ~observed /\ entry < MaxEntries
    /\ observed' = TRUE /\ entry' = entry + 1 /\ pr' = Blank
    /\ \E c \in {"up", "timer"} : checksProcess' = c
    /\ saved' = Blank /\ news' = TRUE
    /\ UNCHANGED <<githubVars, timerVars, callVars>>

\* stopObserving, by the tool, the command, or because the pull request is closed.
Stop ==
    /\ observed
    /\ observed' = FALSE
    /\ checksProcess' = "none" /\ watching' = {} /\ rewatch' = {}
    /\ saved' = None
    /\ UNCHANGED <<githubVars, entry, pr, leftover, callVars, news>>

\* session_shutdown, then session_start: restoreState.  The timers for another try
\* at a watcher are not cleared; those that fire while no session is open find none.
Resume ==
    /\ observed /\ entry < MaxEntries
    /\ entry' = entry + 1 /\ pr' = [saved EXCEPT !.allPassedReported = @ /\ saved.activeRuns = {}]
    /\ \E c \in {"up", "timer"} : checksProcess' = c
    /\ Watch(saved.activeRuns, {}, {})
    /\ leftover' \in SUBSET (leftover \cup rewatch)
    /\ UNCHANGED <<githubVars, observed, callVars, saved, news>>

\* Another pull request's change, or a notice delivered: everything is persisted.
Persist ==
    /\ observed /\ saved # Persisted(pr)
    /\ saved' = Persisted(pr)
    /\ UNCHANGED <<githubVars, entryVars, pr, checksProcess, timerVars, callVars, news>>

-----------------------------------------------------------------------------
(* Runs and their watchers *)

\* A line of `gh pr checks --watch` names a run.
ChecksPrint(r) ==
    /\ checksProcess = "up" /\ r \in RunsOfHead \ pr.seenRuns
    /\ pr' = Discovered(pr, {r})
    /\ Watch({r}, watching, rewatch)
    /\ UNCHANGED <<githubVars, entryVars, checksProcess, leftover, callVars, saved, news>>

\* `gh pr checks --watch` ends; its handler polls (as below) and arms the restart.
ChecksCloses ==
    /\ checksProcess = "up"
    /\ checksProcess' = "timer"
    /\ UNCHANGED <<githubVars, entryVars, pr, timerVars, callVars, saved, news>>

\* startChecksProcess: started again, or the slot is refused.
ChecksRestarts ==
    /\ checksProcess = "timer"
    /\ checksProcess' = "up"
    /\ UNCHANGED <<githubVars, entryVars, pr, timerVars, callVars, saved, news>>

\* A timer of scheduleRewatch fires.
Rewatch(r) ==
    /\ r \in rewatch
    /\ IF r \in pr.activeRuns
       THEN /\ Watch({r}, watching, rewatch \ {r})
            /\ pr' = [pr EXCEPT !.allPassedReported = FALSE]
       ELSE /\ rewatch' = rewatch \ {r}
            /\ UNCHANGED <<watching, pr>>
    /\ UNCHANGED <<githubVars, entryVars, checksProcess, leftover, callVars, saved, news>>

\* So does one of an earlier entry: it looks up the entry there is now.
LeftoverFires(r) ==
    /\ r \in leftover
    /\ leftover' = leftover \ {r}
    /\ IF observed /\ r \in pr.activeRuns
       THEN /\ Watch({r}, watching, rewatch)
            /\ pr' = [pr EXCEPT !.allPassedReported = FALSE]
       ELSE UNCHANGED <<watching, rewatch, pr>>
    /\ UNCHANGED <<githubVars, entryVars, checksProcess, callVars, saved, news>>

\* A watcher closes: it exits with 0 only when its run has passed.
WatcherCloses(r) ==
    /\ r \in watching /\ Room
    /\ watching' = watching \ {r}
    /\ \/ /\ \E exit \in IF run[r] = "passed" THEN {"ok", "bad"} ELSE {"bad"} :
                viewing' = viewing \cup {[run |-> r, exit |-> exit, entry |-> entry,
                     reported |-> r \in pr.failedRuns \cup pr.completedRuns]}
          /\ UNCHANGED rewatch
       \/ /\ rewatch' = rewatch \cup {r}
          /\ UNCHANGED viewing
    /\ UNCHANGED <<githubVars, entryVars, pr, checksProcess, leftover, telling, checks, polls,
                   saved, news>>

\* `gh run view` finds GitHub out of reach: the entry there is now tries again.
ViewFails(v) ==
    /\ v \in viewing
    /\ viewing' = viewing \ {v}
    /\ rewatch' = IF observed THEN rewatch \cup {v.run} ELSE rewatch
    /\ UNCHANGED <<githubVars, entryVars, pr, checksProcess, watching, leftover, telling, checks,
                   polls, saved, news>>

\* Whether the close handler takes the run for a failure.  A view without a
\* conclusion, of a run that has not ended, leaves the exit code to decide; so
\* does a view that fails for another reason, where the output may also speak.
IsFailure(v, answered) ==
    IF answered THEN {run[v.run] = "failed" \/ (run[v.run] = "running" /\ v.exit = "bad")}
    ELSE IF v.exit = "bad" THEN {TRUE} ELSE BOOLEAN

Failed(p, r)    == [p EXCEPT !.failedRuns = @ \cup {r}, !.activeRuns = @ \ {r}]
Completed(p, r) == [p EXCEPT !.completedRuns = @ \cup {r}, !.activeRuns = @ \ {r}]

\* The close handler has its verdict.
ViewReturns(v) ==
    /\ v \in viewing
    /\ viewing' = viewing \ {v}
    /\ \E answered \in BOOLEAN : \E failure \in IsFailure(v, answered) :
          LET p == IF answered THEN [pr EXCEPT !.runShas[v.run] = sha[v.run]] ELSE pr
          IN  \/ /\ ~Live(v.entry)
                 /\ UNCHANGED <<pr, telling, checks, saved, news>>
              \/ /\ Live(v.entry) /\ failure
                 /\ pr' = Failed(p, v.run)
                 /\ telling' = IF v.reported THEN telling
                               ELSE telling \cup {[run |-> v.run, entry |-> entry]}
                 /\ news' = TRUE
                 /\ UNCHANGED <<checks, saved>>
              \/ /\ Live(v.entry) /\ ~failure
                 /\ pr' = Completed(p, v.run)
                 /\ CheckAll(pr', ~v.reported)
                 /\ news' = TRUE
                 /\ UNCHANGED telling
    /\ UNCHANGED <<githubVars, entryVars, checksProcess, timerVars, polls>>

\* The summary is there: the failure is told and persisted.
TellFailure(t) ==
    /\ t \in telling
    /\ telling' = telling \ {t}
    /\ saved' = IF Live(t.entry) THEN Saved(pr) ELSE saved
    /\ UNCHANGED <<githubVars, entryVars, pr, checksProcess, timerVars, viewing, checks, polls, news>>

-----------------------------------------------------------------------------
(* The announcement of success *)

\* GitHub composes the reply to `gh pr checks`; the call may fail as well.
ChecksAnswered(c) ==
    /\ c \in checks /\ c.at = "asked"
    /\ \E reply \in {"nothing"}
                    \cup (IF RunsOfHead = {} THEN {"empty"} ELSE {})
                    \cup (IF RunsOfHead # {} /\ \A r \in RunsOfHead : run[r] = "passed"
                          THEN {"passed"} ELSE {}) :
          checks' = (checks \ {c}) \cup {[c EXCEPT !.at = reply]}
    /\ UNCHANGED <<githubVars, entryVars, pr, checksProcess, timerVars, viewing, telling, polls,
                   saved, news>>

\* bookkeepingAtHead: what was watched to its end on the commit of the last poll.
TrustedAtHead(p) ==
    LET atHead(r) == p.headSha # 0 /\ p.runShas[r] = p.headSha
    IN  /\ \E r \in p.completedRuns \ p.failedRuns : atHead(r)
        /\ \A r \in p.failedRuns : ~atHead(r)

\* evaluateCiVerdict, for a handler whose entry is still observed.
Passes(c) == Live(c.entry) /\ (c.at = "passed" \/ (c.at = "empty" /\ TrustedAtHead(pr)))

\* checkAllCIPassed resumes: "All CI passed", or nothing.
CheckReturns(c) ==
    /\ c \in checks /\ c.at # "asked"
    /\ checks' = checks \ {c}
    /\ pr' = IF Passes(c) THEN [pr EXCEPT !.allPassedReported = TRUE] ELSE pr
    /\ saved' = IF Passes(c) \/ c.keep THEN Saved(pr') ELSE saved
    /\ news' = (news /\ ~Passes(c))
    /\ UNCHANGED <<githubVars, entryVars, checksProcess, timerVars, viewing, telling, polls>>

-----------------------------------------------------------------------------
(* Polls *)

\* GitHub composes the reply to a poll.
PollAnswered ==
    /\ observed /\ Room
    /\ polls' = polls \cup {[at |-> "replied", head |-> head, runs |-> RunsOfHead, entry |-> entry]}
    /\ UNCHANGED <<githubVars, entryVars, pr, checksProcess, timerVars, viewing, telling, checks,
                   saved, news>>

\* pollPR resumes, up to the hook of pr-tasks.
PollReturns(p) ==
    /\ p \in polls /\ p.at = "replied"
    /\ IF Live(p.entry)
       THEN /\ pr' = Discovered([pr EXCEPT !.headSha = p.head], p.runs)
            /\ Watch(p.runs \ pr.seenRuns, watching, rewatch)
            /\ polls' = (polls \ {p}) \cup {[at |-> "hook", head |-> 0, runs |-> {}, entry |-> entry]}
       ELSE /\ polls' = polls \ {p}
            /\ UNCHANGED <<pr, watching, rewatch>>
    /\ UNCHANGED <<githubVars, entryVars, checksProcess, leftover, viewing, telling, checks, saved,
                   news>>

\* After the hook.
PollChecks(p) ==
    /\ p \in polls /\ p.at = "hook"
    /\ polls' = polls \ {p}
    /\ IF Live(p.entry) THEN CheckAll(pr, FALSE) ELSE UNCHANGED <<checks, saved>>
    /\ UNCHANGED <<githubVars, entryVars, pr, checksProcess, timerVars, viewing, telling, news>>

-----------------------------------------------------------------------------
Next ==
    \/ Push \/ Start \/ Stop \/ Resume \/ Persist
    \/ ChecksCloses \/ ChecksRestarts \/ PollAnswered
    \/ \E r \in Runs :
          \/ RunStarts(r) \/ RunEnds(r)
          \/ ChecksPrint(r) \/ Rewatch(r) \/ LeftoverFires(r) \/ WatcherCloses(r)
    \/ \E v \in viewing : ViewFails(v) \/ ViewReturns(v)
    \/ \E t \in telling : TellFailure(t)
    \/ \E c \in checks : ChecksAnswered(c) \/ CheckReturns(c)
    \/ \E p \in polls : PollReturns(p) \/ PollChecks(p)

Spec == Init /\ [][Next]_vars

-----------------------------------------------------------------------------
(* Properties *)

Books(p) ==
    /\ p \in ObservedPR
    /\ p.activeRuns \cup p.failedRuns \cup p.completedRuns \subseteq p.seenRuns

\* Types.  An entry keeps books only about runs that were discovered for it.
TypeOK ==
    /\ head \in 1..MaxHead /\ run \in [Runs -> {"none", "running", "passed", "failed"}]
    /\ sha \in [Runs -> 0..MaxHead]
    /\ observed \in BOOLEAN /\ news \in BOOLEAN /\ entry \in 0..MaxEntries
    /\ Books(pr) /\ (observed => Books(saved)) /\ (~observed => saved = None)
    /\ checksProcess \in {"none", "up", "timer"}
    /\ observed <=> checksProcess # "none"
    /\ watching \subseteq Runs /\ rewatch \subseteq Runs /\ leftover \subseteq Runs
    /\ viewing \subseteq [run : Runs, exit : {"ok", "bad"}, entry : 1..MaxEntries, reported : BOOLEAN]
    /\ telling \subseteq [run : Runs, entry : 1..MaxEntries]
    /\ checks \subseteq [at : {"asked", "nothing", "empty", "passed"}, entry : 1..MaxEntries, keep : BOOLEAN]
    /\ polls \subseteq [at : {"replied", "hook"}, head : 0..MaxHead, runs : SUBSET Runs,
                        entry : 1..MaxEntries]

\* A run that holds back the announcement of success has something that will
\* bring its verdict: a watcher, a timer for one, or a handler of a closed one.
ActiveRunsAreDriven ==
    observed => \A r \in pr.activeRuns :
       r \in watching \cup rewatch \/ \E v \in viewing : v.run = r /\ v.entry = entry

\* "All CI passed" is not said twice of the same runs, whatever polls, watchers
\* and resumes do: between two announcements a run has ended.
PassIsNews == [][\A c \in checks : Passes(c) /\ c \notin checks' => news]_vars

=============================================================================
