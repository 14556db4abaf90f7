------------------------------- MODULE PrHooks -------------------------------
(***************************************************************************)
(* The lifecycle hooks of the pr-observer plugin (plugins/pr-observer/scripts):  *)
(* session-init, notify-changes after every tool call, and check-settle, which   *)
(* holds a stop of the agent while CI runs.  Each hook is a process of its own;  *)
(* they share one state file per session, which each reads, and writes whole.    *)
(***************************************************************************)
EXTENDS Integers, FiniteSets

CONSTANTS
    Notifiers,          \* notify-changes processes that may run at once (parallel tool calls)
    Numbers,            \* pull requests of the branch
    Chunk, WatchMax,    \* WATCH_CHUNK_MS and WATCH_MAX_MS, in polls
    MinInterval,        \* NOTIFY_MIN_INTERVAL_MS
    MaxTime, MaxChanges     \* bounds

ASSUME HooksAssumption ==
    /\ {Chunk, WatchMax, MinInterval, MaxTime, MaxChanges} \subseteq Nat
    /\ Chunk > 0 /\ WatchMax > 0

VARIABLES
    now,
    pr,         \* the pull request of the branch, on GitHub
    file,       \* the state file
    agent,      \* "working", "stopping" (its stop is held) or "idle"
    notes,      \* the notify-changes processes
    stop,       \* the check-settle process
    changes,    \* of the pull request so far
    \* history, for the properties:
    heard,      \* what the agent was last told, or took as the baseline
    heldSince,  \* when CI held a stop for the first time
    started,    \* the first session-init wrote the file
    clean       \* no two notifiers overlapped, none was killed with news to tell

hooksVars == <<now, pr, file, agent, notes, stop, changes, heard, heldSince, started, clean>>

Problems == {"conflicting", "behind"}

Merges   == Problems \cup {"mergeable", "unknown"}
PRKinds  == {"open", "draft", "closed"}
Verdicts == {"running", "passed", "failed"}
PRs      == [number : Numbers, kind : PRKinds, merge : Merges, ci : Verdicts]
Never    == -1
NoPR     == [number |-> 0, kind |-> "none", merge |-> "none", ci |-> "none"]
NoFile   == [created |-> FALSE, checkedAt |-> Never, last |-> NoPR, watch |-> Never]
NothingHeard == [merge |-> "none", ci |-> "none"]
NoNote   == [pc |-> "idle", state |-> NoFile, at |-> 0, snap |-> NoPR, news |-> {}]
NoStop   == [pc |-> "idle", number |-> 0, watch |-> 0, chunkEnd |-> 0, since |-> 0]

HooksInit ==
    /\ now = 0 /\ pr \in {p \in PRs : p.kind = "open" /\ p.merge = "mergeable" /\ p.ci # "failed"}
    /\ started \in BOOLEAN /\ file = [NoFile EXCEPT !.created = started]
    /\ agent = "working" /\ notes = [n \in Notifiers |-> NoNote] /\ stop = NoStop
    /\ changes = 0 /\ heard = NothingHeard /\ heldSince = Never /\ clean = TRUE

(* The environment *)

\* A sleep of the watcher is over in time.
Tick ==
    /\ now < MaxTime /\ ~(stop.pc = "sleep" /\ now > stop.since) /\ now' = now + 1
    /\ UNCHANGED <<pr, file, agent, notes, stop, changes, heard, heldSince, started, clean>>

PullRequestChanges ==
    /\ changes < MaxChanges /\ changes' = changes + 1
    /\ pr' \in {[pr EXCEPT !.number = x] : x \in Numbers} \cup {[pr EXCEPT !.kind = x] : x \in PRKinds}
              \cup {[pr EXCEPT !.merge = x] : x \in Merges} \cup {[pr EXCEPT !.ci = x] : x \in Verdicts}
    /\ UNCHANGED <<now, file, agent, notes, stop, heard, heldSince, started, clean>>

UserPrompts ==
    /\ agent = "idle" /\ agent' = "working"
    /\ UNCHANGED <<now, pr, file, notes, stop, changes, heard, heldSince, started, clean>>

\* readPrSnapshot: gh may fail, and the checks may be unreadable.
MayRead(p) == {p, [p EXCEPT !.ci = "unreadable"]}

(* session-init: also when the session is resumed *)

SessionInits ==
    /\ stop = NoStop
    /\ file' = IF file.created THEN file ELSE [NoFile EXCEPT !.created = TRUE]
    /\ UNCHANGED <<now, pr, agent, notes, stop, changes, heard, heldSince, started, clean>>

(* notify-changes *)

NotifyStarts(n) ==
    /\ agent = "working" /\ notes[n] = NoNote
    /\ file.checkedAt = Never \/ now - file.checkedAt >= MinInterval
    /\ notes' = [notes EXCEPT ![n] = [NoNote EXCEPT !.pc = "read", !.state = file, !.at = now]]
    /\ clean' = (clean /\ \A m \in Notifiers : notes[m] = NoNote)
    /\ UNCHANGED <<now, pr, file, agent, stop, changes, heard, heldSince, started>>

NotifyFails(n) ==
    /\ notes[n].pc = "read" /\ notes' = [notes EXCEPT ![n] = NoNote]
    /\ UNCHANGED <<now, pr, file, agent, stop, changes, heard, heldSince, started, clean>>

Verdict(ci) == IF ci \in {"running", "unreadable"} THEN "unknown" ELSE ci

MergeNews(previous, s) ==
    IF previous.merge = s.merge THEN {}
    ELSE IF s.merge \in Problems THEN {s.merge}
    ELSE IF previous.merge \in Problems THEN {"mergeable again"} ELSE {}

\* Mutant: a verdict after an unreadable one is taken for known.
MutantCiNews(previous, s) ==
    IF previous.ci \in {Verdict(s.ci), "unknown"} THEN {}
    ELSE IF s.ci \in {"passed", "failed"} THEN {s.ci}
    ELSE IF previous.ci \in {"passed", "failed"} /\ s.ci # "unreadable" THEN {"running again"} ELSE {}

CiNews(previous, s) ==
    IF previous.ci = Verdict(s.ci) THEN {}
    ELSE IF s.ci \in {"passed", "failed"} THEN {s.ci}
    ELSE IF previous.ci \in {"passed", "failed"} /\ s.ci # "unreadable" THEN {"running again"} ELSE {}

\* What is persisted of a read, and the news.
Snapshot(previous, s) ==
    CASE s.kind = "open" -> [s EXCEPT !.ci = Verdict(@)]
      [] s.kind = "draft" -> [NoPR EXCEPT !.number = s.number, !.kind = "draft"]
      [] OTHER -> IF previous.number # 0 /\ previous.kind \notin {"gone", "draft"}
                  THEN [NoPR EXCEPT !.number = previous.number, !.kind = "gone"] ELSE NoPR

News(previous, s) ==
    IF s.kind = "open"
    THEN IF previous.number = s.number THEN MergeNews(previous, s) \cup CiNews(previous, s) ELSE {}
    ELSE IF previous.kind \in {"none", "gone", "draft"} THEN {}
    ELSE IF s.kind = "closed" THEN {"gone"}
    ELSE IF previous.number = s.number THEN {"draft"} ELSE {}

NotifyReads(n) ==
    /\ notes[n].pc = "read"
    /\ \E s \in MayRead(pr) :
          notes' = [notes EXCEPT ![n].pc = "write", ![n].snap = s, ![n].news = News(notes[n].state.last, s)]
    /\ UNCHANGED <<now, pr, file, agent, stop, changes, heard, heldSince, started, clean>>

\* Writes the whole state as it was read, with its own fields.
NotifyPersists(n) ==
    /\ notes[n].pc = "write"
    /\ LET previous == notes[n].state.last
           s == notes[n].snap
       IN  /\ file' = [notes[n].state EXCEPT !.checkedAt = notes[n].at, !.last = Snapshot(previous, s)]
           /\ heard' = IF s.kind # "open" THEN heard
                      ELSE IF previous.number # s.number THEN [merge |-> s.merge, ci |-> s.ci]
                      ELSE IF previous.kind # "open" THEN NothingHeard ELSE heard
    /\ notes' = [notes EXCEPT ![n] = IF @.news = {} THEN NoNote ELSE [@ EXCEPT !.pc = "tell"]]
    /\ UNCHANGED <<now, pr, agent, stop, changes, heldSince, started, clean>>

NotifyTells(n) ==
    /\ notes[n].pc = "tell"
    /\ LET news == notes[n].news
       IN  heard' = [heard EXCEPT
               !.merge = IF news \cap Problems # {} THEN notes[n].snap.merge
                         ELSE IF "mergeable again" \in news THEN "mergeable" ELSE @,
               !.ci = IF news \cap {"passed", "failed", "running again"} # {} THEN notes[n].snap.ci ELSE @]
    /\ notes' = [notes EXCEPT ![n] = NoNote]
    /\ UNCHANGED <<now, pr, file, agent, stop, changes, heldSince, started, clean>>

\* The host's timeout is shorter than those of gh.
NotifyIsKilled(n) ==
    /\ notes[n] # NoNote /\ notes' = [notes EXCEPT ![n] = NoNote]
    /\ clean' = (clean /\ notes[n].pc # "tell")
    /\ UNCHANGED <<now, pr, file, agent, stop, changes, heard, heldSince, started>>

(* check-settle *)

\* The agent wants to stop: its tool calls and their hooks are over.
StopFires ==
    /\ agent = "working" /\ agent' = "stopping" /\ \A n \in Notifiers : notes[n] = NoNote
    /\ stop' = [NoStop EXCEPT !.pc = "read"]
    /\ UNCHANGED <<now, pr, file, notes, changes, heard, heldSince, started, clean>>

Allow == agent' = "idle" /\ stop' = NoStop
Block == agent' = "working" /\ stop' = NoStop

Actionable(s) == s.merge \in Problems \/ s.ci = "failed"

\* Mutant: the watch start is written when the chunk ends, and not before the first sleep.
MutantWatchFrom(w) == file

WatchFrom(w) == [file EXCEPT !.watch = w]

Sleep(s) == stop' = [s EXCEPT !.pc = "sleep", !.since = now]

StopReads ==
    /\ stop.pc = "read"
    /\ \E s \in MayRead(pr) :
          \/ /\ s.kind # "open" \/ (~Actionable(s) /\ s.ci # "running")
             /\ Allow /\ UNCHANGED <<file, heldSince>>
          \/ s.kind = "open" /\ Actionable(s) /\ Block /\ UNCHANGED <<file, heldSince>>
          \/ /\ s.kind = "open" /\ ~Actionable(s) /\ s.ci = "running"
             /\ LET watch == IF file.watch = Never THEN now ELSE file.watch
                IN  IF now - watch >= WatchMax THEN Allow /\ UNCHANGED <<file, heldSince>>
                    ELSE /\ file' = IF file.watch = Never THEN WatchFrom(now) ELSE file
                         /\ Sleep([stop EXCEPT !.number = s.number, !.watch = watch, !.chunkEnd = now + Chunk])
                         /\ heldSince' = IF heldSince = Never THEN now ELSE heldSince
                         /\ UNCHANGED agent
    /\ UNCHANGED <<now, pr, notes, changes, heard, started, clean>>

\* gh failed: the stop goes through.
StopReadFails ==
    /\ stop.pc = "read" /\ Allow
    /\ UNCHANGED <<now, pr, file, notes, changes, heard, heldSince, started, clean>>

Deadline == stop.watch + WatchMax

\* The next sleep, or the end of the chunk: a heartbeat blocks the stop, and
\* the agent's next stop goes on watching.
GoesOnWatching ==
    IF now < stop.chunkEnd /\ now < Deadline THEN Sleep(stop) /\ UNCHANGED <<agent, file>>
    ELSE /\ file' = [file EXCEPT !.watch = IF @ = Never THEN stop.watch ELSE @]
         /\ IF now >= Deadline THEN Allow ELSE Block

StopPolls ==
    /\ stop.pc = "sleep" /\ now > stop.since
    /\ \/ GoesOnWatching    \* the read failed
       \/ \E s \in MayRead(pr) :
             \/ s.kind # "open" /\ Allow /\ UNCHANGED file
             \/ s.kind = "open" /\ (s.number # stop.number \/ Actionable(s)) /\ Block /\ UNCHANGED file
             \/ /\ s.kind = "open" /\ s.number = stop.number /\ ~Actionable(s)
                /\ IF s.ci = "passed" THEN Allow /\ UNCHANGED file ELSE GoesOnWatching
    /\ UNCHANGED <<now, pr, notes, changes, heard, heldSince, started, clean>>

\* By the host's timeout, or with the agent (Esc).
StopIsKilled ==
    /\ stop # NoStop /\ (Allow \/ Block)
    /\ UNCHANGED <<now, pr, file, notes, changes, heard, heldSince, started, clean>>

(* *)

Notify(n) ==
    \/ NotifyStarts(n) \/ NotifyFails(n) \/ NotifyReads(n) \/ NotifyPersists(n) \/ NotifyTells(n)
    \/ NotifyIsKilled(n)

HooksNext ==
    \/ Tick \/ PullRequestChanges \/ UserPrompts \/ SessionInits
    \/ \E n \in Notifiers : Notify(n)
    \/ StopFires \/ StopReads \/ StopReadFails \/ StopPolls \/ StopIsKilled

HooksSpec == HooksInit /\ [][HooksNext]_hooksVars

(* Properties *)

\* "The user is never trapped": no stop is held for CI once WATCH_MAX_MS has
\* passed since the first, through heartbeats, watchers the host kills in the
\* middle of a chunk, notifiers that write the file back and sessions that are
\* resumed.  (A session-init that finds a file no session-init wrote empties it.)
WatchIsBounded == started /\ stop.pc = "sleep" => now <= heldSince + WatchMax

\* What notify-changes holds for known the agent knows: a verdict or a merge
\* problem in the file was the baseline or was told since, and one the
\* file does not hold is not what the agent still believes in.  What it heard
\* before a draft or a close does not count: it was told of these instead.
TheAgentIsUpToDate ==
    clean /\ file.last.kind = "open" /\ (\A n \in Notifiers : notes[n] = NoNote) =>
        /\ file.last.ci \in {"passed", "failed"} => heard.ci = file.last.ci
        /\ file.last.merge \in Problems => heard.merge = file.last.merge
        /\ file.last.merge = "mergeable" => heard.merge \notin Problems

=============================================================================
