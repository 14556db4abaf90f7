-------------------------- MODULE PullRequestProofs --------------------------
(***************************************************************************)
(* Proofs about the observation of pull requests: about ObservePr for every    *)
(* set of runs and every number of commits, entries and calls, about           *)
(* TrackingNotices for every set of pull requests, and about GhHealth for       *)
(* every set of callers, all intervals and any number of fast retries.          *)
(*                                                                           *)
(* That success is not announced twice rests on what is true between the      *)
(* announcements: while no run has ended since the last one, the entry says    *)
(* that it was made or has active runs, in memory and in the session file, so   *)
(* that neither an evaluation nor a resume can come to make it again.  An       *)
(* evaluation under way was begun before any such announcement, since there is  *)
(* one at a time for an entry.                                               *)
(*                                                                           *)
(* That no observation stays a secret and that a stop is final rests on Sound,  *)
(* which each handler has to preserve of the memory; the invariant adds what    *)
(* the session file, the prompt that carries the notices and a session that is  *)
(* over have to do with it.                                                  *)
(*                                                                           *)
(* That refused callers are driven is not inductive: a holder may give back a   *)
(* slot that is no longer its own.  HealthInv adds that a held slot has a        *)
(* caller that claimed it and has not given it back, that the note for           *)
(* release() is there only while the slot is held and due, and that outside an   *)
(* outage nothing of it is left.                                              *)
(***************************************************************************)
EXTENDS ObservePr, TrackingNotices, GhHealth, TLAPS

\* What is watched was discovered for the entry, and nothing is when there is none.
WatchedAreSeen ==
    /\ observed => /\ entry > 0 /\ watching \subseteq pr.seenRuns
                   /\ \A v \in viewing : v.entry = entry => v.run \in pr.seenRuns
    /\ ~observed => watching = {} /\ rewatch = {}

\* No call began with an entry that is still to come.
CallsAreNoNewer ==
    /\ \A v \in viewing : v.entry <= entry
    /\ \A c \in checks : c.entry <= entry

\* An entry has one evaluation under way.
OneEvaluation == \A c, d \in checks : c.entry = d.entry => c = d

\* That of the present entry has something new to say.
EvaluatedIsNews == observed => \A c \in checks : c.entry = entry => news

\* Success was told, or there are runs that may bring news.
ToldOrActive(p) == p.allPassedReported \/ p.activeRuns # {}

\* Without news this is so, in memory and in the session file.
NoNewsIsTold == observed /\ ~news => ToldOrActive(pr) /\ ToldOrActive(saved)

Inv ==
    /\ TypeOK /\ ActiveRunsAreDriven /\ WatchedAreSeen /\ CallsAreNoNewer
    /\ OneEvaluation /\ EvaluatedIsNews /\ NoNewsIsTold

USE ObserveAssumption, NoneAssumption

\* A new entry keeps books.
LEMMA BlankBooks == Books(Blank)
BY DEF Books, Blank, ObservedPR

\* What is written to the session file is the entry without its head.
LEMMA PersistedFacts ==
  ASSUME NEW p, Books(p)
  PROVE  /\ Books(Persisted(p))
         /\ Persisted(p).activeRuns = p.activeRuns
         /\ Persisted(p).allPassedReported = p.allPassedReported
BY DEF Books, Persisted, ObservedPR

\* What discovering runs makes of an entry.
LEMMA DiscoveredFacts ==
  ASSUME NEW p, Books(p), NEW rs \in SUBSET Runs
  PROVE  /\ Books(Discovered(p, rs))
         /\ Discovered(p, rs).seenRuns = p.seenRuns \cup rs
         /\ Discovered(p, rs).activeRuns = p.activeRuns \cup (rs \ p.seenRuns)
         /\ Discovered(p, rs).allPassedReported = (p.allPassedReported /\ rs \subseteq p.seenRuns)
BY DEF Books, Discovered, ObservedPR

\* The initial state satisfies Inv.
LEMMA InitInv == Init => Inv
<1> SUFFICES ASSUME Init PROVE Inv
  OBVIOUS
<1>1. Books(pr) /\ ~observed
  BY BlankBooks DEF Init
<1>2. run \in [Runs -> {"none", "running", "passed", "failed"}] /\ sha \in [Runs -> 0..MaxHead]
  BY DEF Init
<1>3. head \in 1..MaxHead /\ entry \in 0..MaxEntries
  BY DEF Init
<1>4. TypeOK
  BY <1>1, <1>2, <1>3 DEF Init, TypeOK
<1>5. ActiveRunsAreDriven /\ WatchedAreSeen /\ NoNewsIsTold /\ EvaluatedIsNews
  BY <1>1 DEF Init, ActiveRunsAreDriven, WatchedAreSeen, NoNewsIsTold, EvaluatedIsNews
<1>6. CallsAreNoNewer /\ OneEvaluation
  BY DEF Init, CallsAreNoNewer, OneEvaluation
<1>7. QED
  BY <1>4, <1>5, <1>6 DEF Inv

\* GitHub moves; the observer does not.
LEMMA GitHubKeeps ==
  ASSUME Inv, Push \/ \E r \in Runs : RunStarts(r) \/ RunEnds(r)
  PROVE  Inv'
<1> USE DEF Inv, Push, RunStarts, RunEnds, entryVars, timerVars, callVars
<1>1. TypeOK'
  BY DEF TypeOK
<1>2. ActiveRunsAreDriven'
  <2>1. UNCHANGED <<observed, entry, pr, watching, rewatch, viewing>>
    OBVIOUS
  <2>2. QED
    BY <2>1 DEF ActiveRunsAreDriven
<1>3. WatchedAreSeen'
  BY DEF TypeOK, WatchedAreSeen
<1>4. CallsAreNoNewer'
  BY DEF TypeOK, CallsAreNoNewer
<1>5. OneEvaluation'
  BY DEF TypeOK, OneEvaluation
<1>6. EvaluatedIsNews'
  BY DEF TypeOK, EvaluatedIsNews
<1>7. NoNewsIsTold'
  BY DEF TypeOK, NoNewsIsTold, ToldOrActive
<1>8. QED
  BY <1>1, <1>2, <1>3, <1>4, <1>5, <1>6, <1>7

\* An observation starts.
LEMMA StartKeeps ==
  ASSUME Inv, Start
  PROVE  Inv'
<1> USE DEF Inv, Start, githubVars, timerVars, callVars
<1>1. TypeOK'
  BY BlankBooks DEF TypeOK
<1>2. ActiveRunsAreDriven'
  BY DEF ActiveRunsAreDriven, Blank
<1>3. WatchedAreSeen'
  BY DEF TypeOK, WatchedAreSeen, CallsAreNoNewer
<1>4. CallsAreNoNewer'
  BY DEF TypeOK, CallsAreNoNewer
<1>5. OneEvaluation'
  BY DEF TypeOK, OneEvaluation
<1>6. EvaluatedIsNews'
  BY DEF EvaluatedIsNews
<1>7. NoNewsIsTold'
  BY DEF NoNewsIsTold
<1>8. QED
  BY <1>1, <1>2, <1>3, <1>4, <1>5, <1>6, <1>7

\* It is stopped.
LEMMA StopKeeps ==
  ASSUME Inv, Stop
  PROVE  Inv'
<1> USE DEF Inv, Stop, githubVars, callVars
<1>1. TypeOK'
  BY DEF TypeOK
<1>2. ActiveRunsAreDriven'
  BY DEF ActiveRunsAreDriven
<1>3. WatchedAreSeen'
  BY DEF TypeOK, WatchedAreSeen
<1>4. CallsAreNoNewer'
  BY DEF TypeOK, CallsAreNoNewer
<1>5. OneEvaluation'
  BY DEF TypeOK, OneEvaluation
<1>6. EvaluatedIsNews'
  BY DEF TypeOK, EvaluatedIsNews
<1>7. NoNewsIsTold'
  BY DEF TypeOK, NoNewsIsTold, ToldOrActive
<1>8. QED
  BY <1>1, <1>2, <1>3, <1>4, <1>5, <1>6, <1>7

\* A session is resumed.
LEMMA ResumeKeeps ==
  ASSUME Inv, Resume
  PROVE  Inv'
<1> USE DEF Inv, Resume, Watch, githubVars, callVars
<1>1. /\ Books(pr')
      /\ pr'.activeRuns = saved.activeRuns /\ pr'.seenRuns = saved.seenRuns
      /\ pr'.allPassedReported = (saved.allPassedReported /\ saved.activeRuns = {})
  BY DEF TypeOK, Books, ObservedPR
<1>2. TypeOK'
  <2>1. watching' \subseteq Runs /\ rewatch' \subseteq Runs /\ leftover' \subseteq Runs
    BY DEF TypeOK, Books, ObservedPR
  <2>2. entry' \in 0..MaxEntries /\ checksProcess' \in {"up", "timer"}
    BY DEF TypeOK
  <2>3. QED
    BY <2>1, <2>2, <1>1 DEF TypeOK
<1>3. ActiveRunsAreDriven'
  BY <1>1 DEF ActiveRunsAreDriven
<1>4. WatchedAreSeen'
  BY <1>1 DEF TypeOK, WatchedAreSeen, CallsAreNoNewer, Books
<1>5. CallsAreNoNewer'
  BY DEF TypeOK, CallsAreNoNewer
<1>6. OneEvaluation'
  BY DEF TypeOK, OneEvaluation
<1>7. EvaluatedIsNews'
  BY DEF TypeOK, CallsAreNoNewer, EvaluatedIsNews
<1>8. NoNewsIsTold'
  BY <1>1 DEF TypeOK, NoNewsIsTold, ToldOrActive
<1>9. QED
  BY <1>2, <1>3, <1>4, <1>5, <1>6, <1>7, <1>8

\* The books are written.
LEMMA PersistKeeps ==
  ASSUME Inv, Persist
  PROVE  Inv'
<1> USE DEF Inv, Persist, githubVars, entryVars, timerVars, callVars
<1>1. TypeOK'
  BY PersistedFacts DEF TypeOK
<1>2. ActiveRunsAreDriven'
  BY DEF ActiveRunsAreDriven
<1>3. WatchedAreSeen'
  BY DEF TypeOK, WatchedAreSeen
<1>4. CallsAreNoNewer'
  BY DEF TypeOK, CallsAreNoNewer
<1>5. OneEvaluation'
  BY DEF TypeOK, OneEvaluation
<1>6. EvaluatedIsNews'
  BY DEF TypeOK, EvaluatedIsNews
<1>7. NoNewsIsTold'
  BY PersistedFacts DEF TypeOK, NoNewsIsTold, ToldOrActive
<1>8. QED
  BY <1>1, <1>2, <1>3, <1>4, <1>5, <1>6, <1>7

\* A run is named by the checks process.
LEMMA ChecksPrintKeeps ==
  ASSUME Inv, NEW r \in Runs, ChecksPrint(r)
  PROVE  Inv'
<1> USE DEF Inv, ChecksPrint, Watch, RunsOfHead, githubVars, entryVars, callVars
<1>1. TypeOK'
  BY DiscoveredFacts DEF TypeOK
<1>2. ActiveRunsAreDriven'
  BY DiscoveredFacts DEF TypeOK, ActiveRunsAreDriven
<1>3. WatchedAreSeen'
  BY DiscoveredFacts DEF TypeOK, WatchedAreSeen
<1>4. CallsAreNoNewer'
  BY DEF TypeOK, CallsAreNoNewer
<1>5. OneEvaluation'
  BY DEF TypeOK, OneEvaluation
<1>6. EvaluatedIsNews'
  BY DEF TypeOK, EvaluatedIsNews
<1>7. NoNewsIsTold'
  BY DiscoveredFacts DEF TypeOK, NoNewsIsTold, ToldOrActive
<1>8. QED
  BY <1>1, <1>2, <1>3, <1>4, <1>5, <1>6, <1>7

\* The checks process ends or is started.
LEMMA ChecksProcessKeeps ==
  ASSUME Inv, ChecksCloses \/ ChecksRestarts
  PROVE  Inv'
<1> USE DEF Inv, ChecksCloses, ChecksRestarts, githubVars, entryVars, timerVars, callVars
<1>1. TypeOK'
  BY DEF TypeOK
<1>2. ActiveRunsAreDriven'
  <2>1. UNCHANGED <<observed, entry, pr, watching, rewatch, viewing>>
    OBVIOUS
  <2>2. QED
    BY <2>1 DEF ActiveRunsAreDriven
<1>3. WatchedAreSeen'
  BY DEF TypeOK, WatchedAreSeen
<1>4. CallsAreNoNewer'
  BY DEF TypeOK, CallsAreNoNewer
<1>5. OneEvaluation'
  BY DEF TypeOK, OneEvaluation
<1>6. EvaluatedIsNews'
  BY DEF TypeOK, EvaluatedIsNews
<1>7. NoNewsIsTold'
  BY DEF TypeOK, NoNewsIsTold, ToldOrActive
<1>8. QED
  BY <1>1, <1>2, <1>3, <1>4, <1>5, <1>6, <1>7

\* A timer fires, of this entry or of an earlier one, and finds its run active.
LEMMA RewatchedKeeps ==
  ASSUME Inv, NEW r \in Runs, Rewatch(r) \/ LeftoverFires(r), observed, r \in pr.activeRuns
  PROVE  Inv'
<1> USE DEF Inv, Rewatch, LeftoverFires, Watch, githubVars, entryVars, callVars
<1>1. pr' = [pr EXCEPT !.allPassedReported = FALSE]
  OBVIOUS
<1>2. /\ Books(pr')
      /\ pr'.activeRuns = pr.activeRuns /\ pr'.seenRuns = pr.seenRuns
      /\ ~pr'.allPassedReported
  BY <1>1 DEF TypeOK, Books, ObservedPR
<1>3. TypeOK'
  <2>1. watching' \subseteq Runs /\ rewatch' \subseteq Runs /\ leftover' \subseteq Runs
    BY DEF TypeOK
  <2>2. QED
    BY <2>1, <1>1, <1>2 DEF TypeOK
<1>4. ActiveRunsAreDriven'
  <2>1. watching \cup rewatch \subseteq watching' \cup rewatch'
    BY DEF TypeOK
  <2>2. QED
    BY <1>2, <2>1 DEF ActiveRunsAreDriven
<1>5. WatchedAreSeen'
  BY <1>2 DEF TypeOK, WatchedAreSeen, Books
<1>6. CallsAreNoNewer'
  BY DEF TypeOK, CallsAreNoNewer
<1>7. OneEvaluation'
  BY DEF TypeOK, OneEvaluation
<1>8. EvaluatedIsNews'
  BY DEF TypeOK, EvaluatedIsNews
<1>9. NoNewsIsTold'
  BY <1>2 DEF TypeOK, NoNewsIsTold, ToldOrActive
<1>10. QED
  BY <1>3, <1>4, <1>5, <1>6, <1>7, <1>8, <1>9

\* A timer fires and finds nothing to do.
LEMMA NotRewatchedKeeps ==
  ASSUME Inv, NEW r \in Runs, Rewatch(r) \/ LeftoverFires(r), ~(observed /\ r \in pr.activeRuns)
  PROVE  Inv'
<1> USE DEF Inv, Rewatch, LeftoverFires, githubVars, entryVars, callVars
<1>1. pr' = pr /\ watching' = watching /\ rewatch' \subseteq rewatch /\ leftover' \subseteq leftover
      /\ (observed => rewatch \subseteq rewatch' \cup {r})
  BY DEF WatchedAreSeen
<1>2. TypeOK'
  BY <1>1 DEF TypeOK
<1>3. ActiveRunsAreDriven'
  BY <1>1 DEF ActiveRunsAreDriven
<1>4. WatchedAreSeen'
  BY <1>1 DEF TypeOK, WatchedAreSeen
<1>5. CallsAreNoNewer'
  BY DEF TypeOK, CallsAreNoNewer
<1>6. OneEvaluation'
  BY DEF TypeOK, OneEvaluation
<1>7. EvaluatedIsNews'
  BY DEF TypeOK, EvaluatedIsNews
<1>8. NoNewsIsTold'
  BY DEF TypeOK, NoNewsIsTold, ToldOrActive
<1>9. QED
  BY <1>2, <1>3, <1>4, <1>5, <1>6, <1>7, <1>8

\* A watcher closes.
LEMMA WatcherClosesKeeps ==
  ASSUME Inv, NEW r \in Runs, WatcherCloses(r)
  PROVE  Inv'
<1> USE DEF Inv, WatcherCloses, githubVars, entryVars
<1>1. PICK exit \in {"ok", "bad"} :
        LET v == [run |-> r, exit |-> exit, entry |-> entry,
                  reported |-> r \in pr.failedRuns \cup pr.completedRuns]
        IN  \/ viewing' = viewing \cup {v} /\ rewatch' = rewatch
            \/ viewing' = viewing /\ rewatch' = rewatch \cup {r}
  OBVIOUS
<1>. DEFINE v == [run |-> r, exit |-> exit, entry |-> entry,
                  reported |-> r \in pr.failedRuns \cup pr.completedRuns]
<1>3. observed /\ entry \in 1..MaxEntries
  BY DEF TypeOK, WatchedAreSeen
<1>4. v \in [run : Runs, exit : {"ok", "bad"}, entry : 1..MaxEntries, reported : BOOLEAN]
  BY <1>3
<1>5. v.run = r /\ v.entry = entry
  OBVIOUS
<1>6. \/ viewing' = viewing \cup {v} /\ rewatch' = rewatch
      \/ viewing' = viewing /\ rewatch' = rewatch \cup {r}
  BY <1>1
<1>. HIDE DEF v
<1>8. TypeOK'
  BY <1>4, <1>6 DEF TypeOK
<1>9. ActiveRunsAreDriven'
  BY <1>3, <1>5, <1>6 DEF TypeOK, ActiveRunsAreDriven
<1>10. WatchedAreSeen'
  BY <1>5, <1>6 DEF TypeOK, WatchedAreSeen
<1>11. CallsAreNoNewer'
  BY <1>3, <1>5, <1>6 DEF TypeOK, CallsAreNoNewer
<1>12. OneEvaluation'
  BY DEF TypeOK, OneEvaluation
<1>13. EvaluatedIsNews'
  BY DEF TypeOK, EvaluatedIsNews
<1>14. NoNewsIsTold'
  BY DEF TypeOK, NoNewsIsTold, ToldOrActive
<1>15. QED
  BY <1>8, <1>9, <1>10, <1>11, <1>12, <1>13, <1>14

\* A view fails.
LEMMA ViewFailsKeeps ==
  ASSUME Inv, NEW v \in viewing, ViewFails(v)
  PROVE  Inv'
<1> USE DEF Inv, ViewFails, githubVars, entryVars
<1>1. TypeOK'
  BY DEF TypeOK
<1>2. ActiveRunsAreDriven'
  BY DEF TypeOK, ActiveRunsAreDriven
<1>3. WatchedAreSeen'
  BY DEF TypeOK, WatchedAreSeen
<1>4. CallsAreNoNewer'
  BY DEF TypeOK, CallsAreNoNewer
<1>5. OneEvaluation'
  BY DEF TypeOK, OneEvaluation
<1>6. EvaluatedIsNews'
  BY DEF TypeOK, EvaluatedIsNews
<1>7. NoNewsIsTold'
  BY DEF TypeOK, NoNewsIsTold, ToldOrActive
<1>8. QED
  BY <1>1, <1>2, <1>3, <1>4, <1>5, <1>6, <1>7

\* A failure is told.
LEMMA TellFailureKeeps ==
  ASSUME Inv, NEW t \in telling, TellFailure(t)
  PROVE  Inv'
<1> USE DEF Inv, TellFailure, Saved, githubVars, entryVars, timerVars
<1>1. TypeOK'
  BY PersistedFacts DEF TypeOK
<1>2. ActiveRunsAreDriven'
  BY DEF ActiveRunsAreDriven
<1>3. WatchedAreSeen'
  BY DEF TypeOK, WatchedAreSeen
<1>4. CallsAreNoNewer'
  BY DEF TypeOK, CallsAreNoNewer
<1>5. OneEvaluation'
  BY DEF TypeOK, OneEvaluation
<1>6. EvaluatedIsNews'
  BY DEF TypeOK, EvaluatedIsNews
<1>7. NoNewsIsTold'
  BY PersistedFacts DEF TypeOK, NoNewsIsTold, ToldOrActive
<1>8. QED
  BY <1>1, <1>2, <1>3, <1>4, <1>5, <1>6, <1>7

\* GitHub answers an evaluation.
LEMMA ChecksAnsweredKeeps ==
  ASSUME Inv, NEW c \in checks, ChecksAnswered(c)
  PROVE  Inv'
<1> USE DEF Inv, ChecksAnswered, githubVars, entryVars, timerVars
<1>1. TypeOK'
  BY DEF TypeOK
<1>2. ActiveRunsAreDriven'
  BY DEF ActiveRunsAreDriven
<1>3. WatchedAreSeen'
  BY DEF TypeOK, WatchedAreSeen
<1>4. CallsAreNoNewer'
  BY DEF TypeOK, CallsAreNoNewer
<1>5. OneEvaluation'
  BY DEF TypeOK, OneEvaluation
<1>6. EvaluatedIsNews'
  BY DEF TypeOK, EvaluatedIsNews
<1>7. NoNewsIsTold'
  BY DEF TypeOK, NoNewsIsTold, ToldOrActive
<1>8. QED
  BY <1>1, <1>2, <1>3, <1>4, <1>5, <1>6, <1>7

\* An evaluation ends.
LEMMA CheckReturnsKeeps ==
  ASSUME Inv, NEW c \in checks, CheckReturns(c)
  PROVE  Inv'
<1> USE DEF Inv, CheckReturns, Saved, githubVars, entryVars, timerVars
<1>1. /\ Books(pr')
      /\ pr'.activeRuns = pr.activeRuns /\ pr'.seenRuns = pr.seenRuns
      /\ IF Passes(c) THEN pr'.allPassedReported ELSE pr' = pr
  BY DEF TypeOK, Books, ObservedPR
<1>2. TypeOK'
  <2>1. saved' = saved \/ (observed /\ saved' = Persisted(pr'))
    BY DEF TypeOK, Passes, Live
  <2>2. Books(Persisted(pr'))
    BY PersistedFacts, <1>1
  <2>3. QED
    BY <2>1, <2>2, <1>1 DEF TypeOK
<1>3. ActiveRunsAreDriven'
  BY <1>1 DEF ActiveRunsAreDriven
<1>4. WatchedAreSeen'
  BY <1>1 DEF TypeOK, WatchedAreSeen
<1>5. CallsAreNoNewer'
  BY DEF TypeOK, CallsAreNoNewer
<1>6. OneEvaluation'
  BY DEF TypeOK, OneEvaluation
<1>7. EvaluatedIsNews'
  BY DEF TypeOK, OneEvaluation, EvaluatedIsNews, Passes, Live
<1>8. NoNewsIsTold'
  <2>1. Books(pr) /\ Books(pr') /\ (observed => Books(saved))
    BY <1>1 DEF TypeOK
  <2>2. QED
    BY <1>1, <2>1, PersistedFacts DEF NoNewsIsTold, ToldOrActive, Passes, Live
<1>9. QED
  BY <1>2, <1>3, <1>4, <1>5, <1>6, <1>7, <1>8

\* GitHub answers a poll.
LEMMA PollAnsweredKeeps ==
  ASSUME Inv, PollAnswered
  PROVE  Inv'
<1> USE DEF Inv, PollAnswered, githubVars, entryVars, timerVars
<1>1. TypeOK'
  <2>1. RunsOfHead \in SUBSET Runs /\ entry \in 1..MaxEntries /\ head \in 0..MaxHead
    BY DEF TypeOK, WatchedAreSeen, RunsOfHead
  <2>2. polls' \subseteq [at : {"replied", "hook"}, head : 0..MaxHead, runs : SUBSET Runs, entry : 1..MaxEntries]
    BY <2>1 DEF TypeOK
  <2>3. QED
    BY <2>1, <2>2 DEF TypeOK
<1>2. ActiveRunsAreDriven'
  BY DEF ActiveRunsAreDriven
<1>3. WatchedAreSeen'
  BY DEF TypeOK, WatchedAreSeen
<1>4. CallsAreNoNewer'
  BY DEF TypeOK, CallsAreNoNewer
<1>5. OneEvaluation'
  BY DEF TypeOK, OneEvaluation
<1>6. EvaluatedIsNews'
  BY DEF TypeOK, EvaluatedIsNews
<1>7. NoNewsIsTold'
  BY DEF TypeOK, NoNewsIsTold, ToldOrActive
<1>8. QED
  BY <1>1, <1>2, <1>3, <1>4, <1>5, <1>6, <1>7

\* Asking for an evaluation, with the books p of the observed entry: one begins only when
\* nothing is active and nothing was told, and it is the only one.
LEMMA CheckAllFacts ==
  ASSUME Inv, observed, NEW p, NEW keep \in BOOLEAN, CheckAll(p, keep)
  PROVE  /\ checks' \subseteq [at : {"asked", "nothing", "empty", "passed"},
                               entry : 1..MaxEntries, keep : BOOLEAN]
         /\ \A c \in checks' : c.entry <= entry
         /\ \A c, d \in checks' : c.entry = d.entry => c = d
         /\ checks' = checks \/ ~ToldOrActive(p)
         /\ saved' = saved \/ saved' = Persisted(p)
<1>. DEFINE c == [at |-> "asked", entry |-> entry, keep |-> keep]
<1>1. /\ entry \in 1..MaxEntries
      /\ c \in [at : {"asked", "nothing", "empty", "passed"}, entry : 1..MaxEntries, keep : BOOLEAN]
      /\ c.entry = entry
  BY DEF Inv, TypeOK, WatchedAreSeen
<1>2. \/ MayCheck(p) /\ checks' = checks \cup {c} /\ saved' = saved
      \/ checks' = checks /\ (saved' = saved \/ saved' = Persisted(p))
  BY DEF CheckAll, Saved
<1>. HIDE DEF c
<1>3. CASE MayCheck(p) /\ checks' = checks \cup {c} /\ saved' = saved
  BY <1>1, <1>3 DEF Inv, TypeOK, CallsAreNoNewer, OneEvaluation, MayCheck, ToldOrActive
<1>4. CASE checks' = checks /\ (saved' = saved \/ saved' = Persisted(p))
  BY <1>4 DEF Inv, TypeOK, CallsAreNoNewer, OneEvaluation
<1>5. QED
  BY <1>2, <1>3, <1>4

\* A poll is applied.
LEMMA PollReturnsKeeps ==
  ASSUME Inv, NEW p \in polls, PollReturns(p)
  PROVE  Inv'
<1> USE DEF Inv, githubVars, entryVars
<1>1. /\ p.runs \in SUBSET Runs /\ p.head \in 0..MaxHead /\ p.entry \in 1..MaxEntries
  BY DEF TypeOK
<1>2. CASE ~Live(p.entry)
  <2>1. /\ UNCHANGED <<head, run, sha, observed, entry, pr, checksProcess, watching, rewatch, leftover>>
        /\ UNCHANGED <<viewing, telling, checks, saved, news>>
        /\ polls' \subseteq polls
    BY <1>2 DEF PollReturns
  <2>2. TypeOK' /\ CallsAreNoNewer' /\ OneEvaluation'
    BY <2>1 DEF TypeOK, CallsAreNoNewer, OneEvaluation
  <2>3. ActiveRunsAreDriven'
    BY <2>1 DEF ActiveRunsAreDriven
  <2>4. WatchedAreSeen' /\ EvaluatedIsNews' /\ NoNewsIsTold'
    BY <2>1 DEF WatchedAreSeen, EvaluatedIsNews, NoNewsIsTold, ToldOrActive
  <2>5. QED
    BY <2>2, <2>3, <2>4
<1>3. CASE Live(p.entry)
  <2>. DEFINE q == [pr EXCEPT !.headSha = p.head]
  <2>1. /\ Books(q) /\ q.activeRuns = pr.activeRuns /\ q.seenRuns = pr.seenRuns
        /\ q.allPassedReported = pr.allPassedReported
    BY <1>1 DEF TypeOK, Books, ObservedPR
  <2>2. /\ UNCHANGED <<head, run, sha, observed, entry, checksProcess, leftover>>
        /\ UNCHANGED <<viewing, telling, checks, saved, news>>
        /\ pr' = Discovered(q, p.runs) /\ Watch(p.runs \ pr.seenRuns, watching, rewatch)
        /\ polls' = (polls \ {p}) \cup
                    {[at |-> "hook", head |-> 0, runs |-> {}, entry |-> entry]}
    BY <1>3 DEF PollReturns
  <2>. HIDE DEF q
  <2>3. /\ Books(pr') /\ pr'.seenRuns = pr.seenRuns \cup p.runs
        /\ pr'.activeRuns = pr.activeRuns \cup (p.runs \ pr.seenRuns)
        /\ pr'.allPassedReported = (pr.allPassedReported /\ p.runs \subseteq pr.seenRuns)
    BY <1>1, <2>1, <2>2, DiscoveredFacts
  <2>4. /\ watching \cup rewatch \cup (p.runs \ pr.seenRuns) = watching' \cup rewatch'
        /\ watching' \subseteq watching \cup p.runs
    BY <2>2 DEF Watch
  <2>5. polls' \subseteq [at : {"replied", "hook"}, head : 0..MaxHead, runs : SUBSET Runs,
                          entry : 1..MaxEntries]
    BY <1>1, <1>3, <2>2 DEF TypeOK, Live
  <2>6. TypeOK'
    BY <1>1, <2>2, <2>3, <2>4, <2>5 DEF TypeOK
  <2>7. ActiveRunsAreDriven'
    BY <2>2, <2>3, <2>4 DEF ActiveRunsAreDriven
  <2>8. WatchedAreSeen' /\ EvaluatedIsNews'
    BY <1>3, <2>2, <2>3, <2>4 DEF WatchedAreSeen, EvaluatedIsNews, Live
  <2>9. CallsAreNoNewer' /\ OneEvaluation'
    BY <2>2 DEF CallsAreNoNewer, OneEvaluation
  <2>10. NoNewsIsTold'
    BY <1>1, <2>2, <2>3 DEF NoNewsIsTold, ToldOrActive
  <2>11. QED
    BY <2>6, <2>7, <2>8, <2>9, <2>10
<1>4. QED
  BY <1>2, <1>3

\* A poll asks for the evaluation.
LEMMA PollChecksKeeps ==
  ASSUME Inv, NEW p \in polls, PollChecks(p)
  PROVE  Inv'
<1> USE DEF Inv, githubVars, entryVars, timerVars
<1>1. /\ UNCHANGED <<head, run, sha, observed, entry, pr, checksProcess, watching, rewatch, leftover>>
      /\ UNCHANGED <<viewing, telling, news>> /\ polls' \subseteq polls
      /\ \/ UNCHANGED <<checks, saved>>
         \/ observed /\ CheckAll(pr, FALSE)
  BY DEF PollChecks, Live
<1>2. CASE UNCHANGED <<checks, saved>>
  <2>1. TypeOK'
    BY <1>1, <1>2 DEF TypeOK
  <2>2. ActiveRunsAreDriven'
    BY <1>1 DEF ActiveRunsAreDriven
  <2>3. WatchedAreSeen' /\ CallsAreNoNewer' /\ OneEvaluation' /\ EvaluatedIsNews' /\ NoNewsIsTold'
    BY <1>1, <1>2 DEF WatchedAreSeen, CallsAreNoNewer, OneEvaluation, EvaluatedIsNews,
       NoNewsIsTold, ToldOrActive
  <2>4. QED
    BY <2>1, <2>2, <2>3
<1>3. CASE observed /\ CheckAll(pr, FALSE)
  <2>1. /\ checks' \subseteq [at : {"asked", "nothing", "empty", "passed"},
                              entry : 1..MaxEntries, keep : BOOLEAN]
        /\ CallsAreNoNewer' /\ OneEvaluation'
        /\ checks' = checks \/ ~ToldOrActive(pr)
        /\ saved' = saved \/ saved' = Persisted(pr)
    BY <1>1, <1>3, CheckAllFacts DEF CallsAreNoNewer, OneEvaluation
  <2>2. /\ Books(saved') /\ (ToldOrActive(pr) => ToldOrActive(Persisted(pr)))
    BY <1>3, <2>1, PersistedFacts DEF TypeOK, ToldOrActive
  <2>3. TypeOK'
    BY <1>1, <1>3, <2>1, <2>2 DEF TypeOK
  <2>4. ActiveRunsAreDriven'
    BY <1>1 DEF ActiveRunsAreDriven
  <2>5. WatchedAreSeen' /\ NoNewsIsTold'
    BY <1>1, <2>1, <2>2 DEF WatchedAreSeen, NoNewsIsTold, ToldOrActive
  <2>6. EvaluatedIsNews'
    BY <1>1, <1>3, <2>1 DEF EvaluatedIsNews, NoNewsIsTold
  <2>7. QED
    BY <2>1, <2>3, <2>4, <2>5, <2>6
<1>4. QED
  BY <1>1, <1>2, <1>3

\* A verdict takes its run from the active ones and leaves the books in order.
LEMMA VerdictFacts ==
  ASSUME NEW p \in ObservedPR, Books(p), NEW r \in p.seenRuns, NEW q,
         q = Failed(p, r) \/ q = Completed(p, r)
  PROVE  Books(q) /\ q.activeRuns = p.activeRuns \ {r} /\ q.seenRuns = p.seenRuns
<1>1. CASE q = Failed(p, r)
  <2>1. q = [p EXCEPT !.failedRuns = p.failedRuns \cup {r}, !.activeRuns = p.activeRuns \ {r}]
    BY <1>1 DEF Failed
  <2>2. QED
    BY <2>1 DEF Books, ObservedPR
<1>2. CASE q = Completed(p, r)
  <2>1. q = [p EXCEPT !.completedRuns = p.completedRuns \cup {r}, !.activeRuns = p.activeRuns \ {r}]
    BY <1>2 DEF Completed
  <2>2. QED
    BY <2>1 DEF Books, ObservedPR
<1>3. QED
  BY <1>1, <1>2

\* The close handler of a watcher has its verdict.
LEMMA ViewReturnsKeeps ==
  ASSUME Inv, NEW v \in viewing, ViewReturns(v)
  PROVE  Inv'
<1> USE DEF Inv, githubVars, entryVars, timerVars
<1>1. /\ UNCHANGED <<head, run, sha, observed, entry, checksProcess, watching, rewatch, leftover>>
      /\ polls' = polls /\ viewing' = viewing \ {v} /\ v.run \in Runs
  BY DEF ViewReturns, TypeOK
<1>2. CASE ~Live(v.entry)
  <2>1. UNCHANGED <<pr, telling, checks, saved, news>>
    BY <1>2 DEF ViewReturns
  <2>2. TypeOK' /\ CallsAreNoNewer' /\ OneEvaluation'
    BY <1>1, <2>1 DEF TypeOK, CallsAreNoNewer, OneEvaluation
  <2>3. ActiveRunsAreDriven'
    BY <1>1, <1>2, <2>1 DEF ActiveRunsAreDriven, Live
  <2>4. WatchedAreSeen' /\ EvaluatedIsNews' /\ NoNewsIsTold'
    BY <1>1, <2>1 DEF WatchedAreSeen, EvaluatedIsNews, NoNewsIsTold, ToldOrActive
  <2>5. QED
    BY <2>2, <2>3, <2>4
<1>3. CASE Live(v.entry)
  <2>. DEFINE told == [run |-> v.run, entry |-> entry]
  <2>1. observed /\ v.run \in pr.seenRuns /\ entry \in 1..MaxEntries
    BY <1>3 DEF Live, WatchedAreSeen, TypeOK
  <2>2. PICK p : /\ p = pr \/ p = [pr EXCEPT !.runShas[v.run] = sha[v.run]]
                 /\ news' = TRUE
                 /\ \/ /\ pr' = Failed(p, v.run) /\ checks' = checks /\ saved' = saved
                       /\ telling' = telling \/ telling' = telling \cup {told}
                    \/ /\ pr' = Completed(p, v.run) /\ telling' = telling
                       /\ CheckAll(pr', ~v.reported)
    BY <1>3 DEF ViewReturns
  <2>3. p \in ObservedPR /\ Books(p) /\ p.activeRuns = pr.activeRuns /\ p.seenRuns = pr.seenRuns
    BY <1>1, <2>1, <2>2 DEF TypeOK, Books, ObservedPR
  <2>4. Books(pr') /\ pr'.activeRuns = pr.activeRuns \ {v.run} /\ pr'.seenRuns = pr.seenRuns
    BY <2>1, <2>2, <2>3, VerdictFacts
  <2>5. telling' \subseteq [run : Runs, entry : 1..MaxEntries]
    BY <1>1, <2>1, <2>2 DEF TypeOK
  <2>6. /\ checks' \subseteq [at : {"asked", "nothing", "empty", "passed"},
                              entry : 1..MaxEntries, keep : BOOLEAN]
        /\ CallsAreNoNewer' /\ OneEvaluation'
        /\ saved' = saved \/ saved' = Persisted(pr')
    <3>1. CASE checks' = checks /\ saved' = saved
      BY <1>1, <3>1 DEF TypeOK, CallsAreNoNewer, OneEvaluation
    <3>2. CASE CheckAll(pr', ~v.reported)
      <4>1. (~v.reported) \in BOOLEAN
        BY DEF TypeOK
      <4>2. QED
        BY <1>1, <2>1, <3>2, <4>1, CheckAllFacts DEF CallsAreNoNewer, OneEvaluation
    <3>3. QED
      BY <2>2, <3>1, <3>2
  <2>7. Books(saved')
    BY <2>1, <2>4, <2>6, PersistedFacts DEF TypeOK
  <2>8. TypeOK'
    BY <1>1, <2>1, <2>2, <2>4, <2>5, <2>6, <2>7 DEF TypeOK
  <2>9. ActiveRunsAreDriven'
    BY <1>1, <2>4 DEF ActiveRunsAreDriven
  <2>10. WatchedAreSeen'
    BY <1>1, <2>4 DEF WatchedAreSeen
  <2>11. EvaluatedIsNews' /\ NoNewsIsTold'
    BY <2>2 DEF EvaluatedIsNews, NoNewsIsTold
  <2>12. QED
    BY <2>6, <2>8, <2>9, <2>10, <2>11
<1>4. QED
  BY <1>2, <1>3

\* Every step keeps Inv.
LEMMA Invariance == Spec => []Inv
<1>1. Inv /\ [Next]_vars => Inv'
  <2> SUFFICES ASSUME Inv, [Next]_vars PROVE Inv'
    OBVIOUS
  <2>1. CASE UNCHANGED vars
    <3>. USE <2>1 DEF Inv, vars, githubVars, entryVars, timerVars, callVars
    <3>1. TypeOK' /\ CallsAreNoNewer' /\ OneEvaluation'
      BY DEF TypeOK, CallsAreNoNewer, OneEvaluation
    <3>2. ActiveRunsAreDriven'
      BY DEF ActiveRunsAreDriven
    <3>3. WatchedAreSeen' /\ EvaluatedIsNews' /\ NoNewsIsTold'
      BY DEF WatchedAreSeen, EvaluatedIsNews, NoNewsIsTold, ToldOrActive
    <3>4. QED
      BY <3>1, <3>2, <3>3
  <2>2. CASE Push \/ \E r \in Runs : RunStarts(r) \/ RunEnds(r)
    BY <2>2, GitHubKeeps
  <2>3. CASE Start \/ Stop \/ Resume \/ Persist
    BY <2>3, StartKeeps, StopKeeps, ResumeKeeps, PersistKeeps
  <2>4. CASE ChecksCloses \/ ChecksRestarts \/ PollAnswered
    BY <2>4, ChecksProcessKeeps, PollAnsweredKeeps
  <2>5. CASE \E r \in Runs : ChecksPrint(r) \/ Rewatch(r) \/ LeftoverFires(r) \/ WatcherCloses(r)
    BY <2>5, ChecksPrintKeeps, RewatchedKeeps, NotRewatchedKeeps, WatcherClosesKeeps
  <2>6. CASE \E v \in viewing : ViewFails(v) \/ ViewReturns(v)
    BY <2>6, ViewFailsKeeps, ViewReturnsKeeps
  <2>7. CASE \E t \in telling : TellFailure(t)
    BY <2>7, TellFailureKeeps
  <2>8. CASE \E c \in checks : ChecksAnswered(c) \/ CheckReturns(c)
    BY <2>8, ChecksAnsweredKeeps, CheckReturnsKeeps
  <2>9. CASE \E p \in polls : PollReturns(p) \/ PollChecks(p)
    BY <2>9, PollReturnsKeeps, PollChecksKeeps
  <2>10. QED
    BY <2>1, <2>2, <2>3, <2>4, <2>5, <2>6, <2>7, <2>8, <2>9 DEF Next
<1>2. QED
  BY <1>1, InitInv, PTL DEF Spec

\* The variables keep their types, and the books of an entry, in memory and in
\* the session file, only speak of runs that were discovered for it.
THEOREM TypeCorrect == Spec => []TypeOK
<1>1. Inv => TypeOK
  BY DEF Inv
<1>2. QED
  BY <1>1, Invariance, PTL

\* A run that holds back the announcement of success always has a watcher, a timer
\* for one or a handler of a closed one (watchRun, scheduleRewatch, restoreState).
THEOREM ActiveRunsStayDriven == Spec => []ActiveRunsAreDriven
<1>1. Inv => ActiveRunsAreDriven
  BY DEF Inv
<1>2. QED
  BY <1>1, Invariance, PTL

\* checkAllCIPassed does not announce success twice of the same runs, through
\* overlapping polls and watchers, stops, new starts and resumes.
THEOREM SuccessIsNews == Spec => PassIsNews
<1>1. Inv /\ [Next]_vars => [\A c \in checks : Passes(c) /\ c \notin checks' => news]_vars
  BY DEF Inv, EvaluatedIsNews, Passes, Live
<1>2. QED
  BY <1>1, Invariance, PTL DEF Spec, PassIsNews

-----------------------------------------------------------------------------
(* What the agent is told: TrackingNotices *)


\* The memory m, with the strays s.
Sound(m, s) ==
    /\ ~disposed => m.observed \ m.announced \subseteq m.deferred \cup m.timers \cup m.told
    /\ m.announced \subseteq m.told \cup s
    /\ m.suppress => m.deferred # {} \/ m.attached
    /\ disposed => m.timers = {}

\* While the armed prompt may be the next to run, no other one is on its way.
ArmedIsAlone == memory.attached /\ ~memory.broken => "other" \notin onWay

FileAgrees ==
    /\ ~disposed => filed = StateEntry(memory)
    /\ filed.observed \cap filed.stopped = {}
    /\ filed.announced \cap filed.stopped = {}
    /\ filed.announced \subseteq memory.told \cup strays

AfterTheSession ==
    disposed => boot = "over" /\ ~scanning /\ onWay = {} /\ \A a \in asking : ~a.own

NoticesInv ==
    NoticesTypeOK /\ Sound(memory, strays) /\ ArmedIsAlone /\ FileAgrees /\ AfterTheSession

-----------------------------------------------------------------------------
(* What the parts of the handlers preserve *)

LEMMA TellsSound ==
    ASSUME disposed \in BOOLEAN, NEW m \in Memory, NEW s, Sound(m, s), NEW ps \in SUBSET PullRequests
    PROVE  /\ Tells(m, ps) \in Memory /\ Sound(Tells(m, ps), s)
           /\ Tells(m, ps).observed = m.observed /\ Tells(m, ps).announced = m.announced
           /\ Tells(m, ps).attached = m.attached /\ Tells(m, ps).broken = m.broken
           /\ Tells(m, ps).deferred = m.deferred /\ Tells(m, ps).carries = m.carries
           /\ Tells(m, ps).stopped = m.stopped
           /\ m.told \subseteq Tells(m, ps).told
           /\ ~disposed => ps \subseteq Tells(m, ps).told
BY DEF Tells, Memory, Sound

LEMMA AnnounceSound ==
    ASSUME disposed \in BOOLEAN, NEW m \in Memory, NEW s, NEW p \in PullRequests
    PROVE  /\ Announce(m, p) \in Memory
           /\ Sound(m, s) => Sound(Announce(m, p), s)
           /\ Announce(m, p).observed = m.observed /\ Announce(m, p).announced = m.announced
           /\ Announce(m, p).attached = m.attached /\ Announce(m, p).broken = m.broken
           /\ Announce(m, p).suppress = m.suppress
           /\ Announce(m, p).stopped = m.stopped
           /\ Announce(m, p).timers = m.timers
           /\ m.deferred \subseteq Announce(m, p).deferred
           /\ m.told \subseteq Announce(m, p).told
           /\ ~disposed => p \in Announce(m, p).deferred \cup Announce(m, p).told
           /\ ~disposed /\ ~m.suppress => p \in Announce(m, p).told
BY DEF Announce, Tells, Memory, Sound

LEMMA StartFields ==
    ASSUME NEW m \in Memory, NEW p \in PullRequests, NEW explicit \in BOOLEAN
    PROVE  LET n == StartObserving(m, p, explicit)
           IN  /\ n \in Memory
               /\ n.observed = m.observed \cup {p}
               /\ explicit => n.announced = m.announced \cup {p} /\ n.stopped = m.stopped \ {p}
               /\ ~explicit => n.announced = m.announced \ {p} /\ n.stopped = m.stopped
               /\ n.deferred = m.deferred /\ n.timers = m.timers /\ n.suppress = m.suppress
               /\ n.attached = m.attached /\ n.broken = m.broken /\ n.told = m.told
               /\ n.hasRun = m.hasRun
BY DEF StartObserving, Memory

LEMMA WithoutFields ==
    ASSUME NEW m \in Memory, NEW p \in PullRequests
    PROVE  LET n == WithoutNotice(m, p)
           IN  /\ n \in Memory
               /\ n.observed = m.observed /\ n.announced = m.announced /\ n.stopped = m.stopped
               /\ n.deferred = m.deferred \ {p} /\ n.timers = m.timers \ {p}
               /\ n.suppress => m.deferred \ {p} # {} \/ m.attached
               /\ n.attached = m.attached /\ n.broken = m.broken /\ n.told = m.told
BY DEF WithoutNotice, Memory

LEMMA StopSound ==
    ASSUME disposed \in BOOLEAN, NEW m \in Memory, NEW s, Sound(m, s), NEW p \in PullRequests
    PROVE  LET n == StopObserving(m, p)
           IN  /\ n \in Memory /\ Sound(n, s)
               /\ n.observed = m.observed \ {p} /\ n.stopped = m.stopped \cup {p}
               /\ n.attached = m.attached /\ n.broken = m.broken /\ n.told = m.told
<1> DEFINE w == WithoutNotice(m, p)
<1>1. /\ w \in Memory
      /\ w.observed = m.observed /\ w.announced = m.announced /\ w.stopped = m.stopped
      /\ w.deferred = m.deferred \ {p} /\ w.timers = m.timers \ {p}
      /\ w.suppress => m.deferred \ {p} # {} \/ m.attached
      /\ w.attached = m.attached /\ w.broken = m.broken /\ w.told = m.told
  BY WithoutFields
<1>2. StopObserving(m, p) = [w EXCEPT !.observed = @ \ {p}, !.announced = @ \ {p}, !.stopped = @ \cup {p}]
  BY DEF StopObserving
<1> DEFINE n == StopObserving(m, p)
<1>3. /\ n \in Memory
      /\ n.observed = m.observed \ {p} /\ n.announced = m.announced \ {p}
      /\ n.stopped = m.stopped \cup {p}
      /\ n.deferred = m.deferred \ {p} /\ n.timers = m.timers \ {p}
      /\ n.suppress => m.deferred \ {p} # {} \/ m.attached
      /\ n.attached = m.attached /\ n.broken = m.broken /\ n.told = m.told
  <2>1. n = [w EXCEPT !.observed = w.observed \ {p}, !.announced = w.announced \ {p},
                      !.stopped = w.stopped \cup {p}]
    BY <1>2
  <2> HIDE DEF w, n
  <2> QED
    BY <1>1, <2>1 DEF Memory
<1>4. Sound(n, s)
  <2> HIDE DEF n
  <2> QED
    BY <1>3 DEF Memory, Sound
<1> QED
  BY <1>3, <1>4

LEMMA MarkedFields ==
    ASSUME NEW m \in Memory, NEW ps \in SUBSET PullRequests
    PROVE  LET n == Marked(m, ps)
           IN  /\ n \in Memory
               /\ n.announced = m.announced \cup (ps \cap m.observed)
               /\ n.observed = m.observed /\ n.stopped = m.stopped
               /\ n.deferred = m.deferred /\ n.timers = m.timers /\ n.suppress = m.suppress
               /\ n.attached = m.attached /\ n.broken = m.broken /\ n.told = m.told
BY DEF Marked, Memory

LEMMA DeliveredSound ==
    ASSUME disposed \in BOOLEAN, NEW m \in Memory, NEW s, Sound(m, s),
           NEW ps \in SUBSET PullRequests
    PROVE  LET n == Delivered(m, ps)
           IN  /\ n \in Memory
               /\ ps \subseteq m.told => Sound(n, s)
               /\ n.observed = m.observed /\ n.stopped = m.stopped
               /\ n.announced = m.announced \cup (ps \cap m.observed)
               /\ n.deferred = m.deferred \ ps /\ n.timers = m.timers
               /\ n.suppress => n.deferred # {}
               /\ n.attached = m.attached /\ n.broken = m.broken /\ n.told = m.told
<1> DEFINE w == Marked(m, ps)
<1>1. /\ w \in Memory
      /\ w.announced = m.announced \cup (ps \cap m.observed)
      /\ w.observed = m.observed /\ w.stopped = m.stopped
      /\ w.deferred = m.deferred /\ w.timers = m.timers /\ w.suppress = m.suppress
      /\ w.attached = m.attached /\ w.broken = m.broken /\ w.told = m.told
  BY MarkedFields
<1>2. Delivered(m, ps) = [w EXCEPT !.deferred = @ \ ps, !.suppress = m.deferred \ ps # {}]
  BY DEF Delivered
<1> DEFINE n == Delivered(m, ps)
<1>3. /\ n \in Memory
      /\ n.observed = m.observed /\ n.stopped = m.stopped
      /\ n.announced = m.announced \cup (ps \cap m.observed)
      /\ n.deferred = m.deferred \ ps /\ n.timers = m.timers
      /\ n.suppress => n.deferred # {}
      /\ n.attached = m.attached /\ n.broken = m.broken /\ n.told = m.told
  <2> HIDE DEF w
  <2> QED
    BY <1>1, <1>2 DEF Memory
<1>4. ps \subseteq m.told => Sound(n, s)
  <2> HIDE DEF n
  <2> QED
    BY <1>3 DEF Memory, Sound
<1> QED
  BY <1>3, <1>4

LEMMA RestoredSound ==
    ASSUME NEW f \in File, f.observed \cap f.stopped = {}, f.announced \cap f.stopped = {},
           NEW t \in SUBSET PullRequests
    PROVE  LET n == Restored(f, t)
           IN  /\ n \in Memory
               /\ n.observed = f.observed /\ n.announced = f.announced /\ n.stopped = f.stopped
               /\ n.deferred = f.observed \ f.announced /\ n.timers = {}
               /\ n.suppress => n.deferred # {}
               /\ ~n.attached /\ n.told = t
               /\ StateEntry(n) = f
BY DEF Restored, StateEntry, Memory, File

-----------------------------------------------------------------------------
(* Steps *)

\* What StopsStick says of a step.
StopStep ==
    ~disposed' => \A p \in filed.stopped \ memory.observed :
                     p \in memory'.observed => p \in settling \/ p \notin filed'.stopped

RestTypeOK ==
    /\ disposed \in BOOLEAN /\ boot \in {"git", "scan", "over"} /\ scanning \in BOOLEAN
    /\ {autostart, due, settling, strays} \subseteq SUBSET PullRequests
    /\ asking \subseteq [pr : PullRequests, own : BOOLEAN]
    /\ onWay \subseteq {"armed", "other"}

\* A handler leaves the memory m.
LEMMA Handled ==
    ASSUME NoticesInv, NEW m \in Memory, Becomes(m), UNCHANGED disposed,
           Sound(m, strays'), strays \subseteq strays', memory.told \subseteq m.told,
           m.attached /\ ~m.broken => "other" \notin onWay',
           \A p \in m.observed \ memory.observed :
              p \in settling \/ p \notin memory.stopped \/ p \notin m.stopped,
           RestTypeOK', AfterTheSession'
    PROVE  NoticesInv' /\ StopStep
<1>1. memory' = m /\ m \in Memory
  BY DEF Becomes
<1>2. StateEntry(m) \in File
  BY DEF StateEntry, File, Memory
<1>3. filed' \in {filed, StateEntry(m)} /\ (~disposed => filed' = StateEntry(m))
  BY DEF Becomes
<1>4. NoticesTypeOK'
  BY <1>1, <1>2, <1>3 DEF NoticesInv, NoticesTypeOK, RestTypeOK
<1>5. Sound(memory, strays)'
  BY <1>1 DEF Sound
<1>6. ArmedIsAlone'
  BY <1>1 DEF ArmedIsAlone
<1>7. /\ StateEntry(m).observed \cap StateEntry(m).stopped = {}
      /\ StateEntry(m).announced \cap StateEntry(m).stopped = {}
      /\ StateEntry(m).announced \subseteq m.told \cup strays'
      /\ StateEntry(m).stopped = m.stopped
  BY DEF StateEntry, Sound
<1>8. FileAgrees'
  <2>1. ~disposed' => filed' = StateEntry(memory')
    BY <1>1, <1>3
  <2>2. /\ filed'.observed \cap filed'.stopped = {}
        /\ filed'.announced \cap filed'.stopped = {}
        /\ filed'.announced \subseteq memory'.told \cup strays'
    BY <1>1, <1>3, <1>7 DEF NoticesInv, FileAgrees
  <2> QED
    BY <2>1, <2>2 DEF FileAgrees, StateEntry
<1>9. StopStep
  <2>1. ASSUME ~disposed PROVE filed.stopped = memory.stopped /\ filed'.stopped = m.stopped
    BY <2>1, <1>3, <1>7 DEF NoticesInv, FileAgrees, StateEntry
  <2> QED
    BY <2>1, <1>1 DEF StopStep
<1> QED
  BY <1>4, <1>5, <1>6, <1>8, <1>9 DEF NoticesInv

\* A step that leaves memory and file alone.
LEMMA Left ==
    ASSUME NoticesInv, UNCHANGED <<memory, filed, disposed, strays>>,
           onWay' \subseteq onWay, RestTypeOK', AfterTheSession'
    PROVE  NoticesInv' /\ StopStep
<1>1. NoticesTypeOK' /\ Sound(memory, strays)' /\ ArmedIsAlone' /\ FileAgrees'
  BY DEF NoticesInv, NoticesTypeOK, RestTypeOK, Sound, ArmedIsAlone, FileAgrees, StateEntry
<1>2. StopStep
  BY DEF StopStep
<1> QED
  BY <1>1, <1>2 DEF NoticesInv

\* A step that changes the memory in what the file does not keep.
LEMMA Unfiled ==
    ASSUME NoticesInv, memory' \in Memory, UNCHANGED <<filed, disposed, strays>>,
           memory'.observed = memory.observed, memory'.announced = memory.announced,
           memory'.stopped = memory.stopped, memory'.told = memory.told,
           Sound(memory', strays), ArmedIsAlone', RestTypeOK', AfterTheSession'
    PROVE  NoticesInv' /\ StopStep
<1>1. StateEntry(memory') = StateEntry(memory)
  BY DEF StateEntry
<1>2. NoticesTypeOK' /\ Sound(memory, strays)' /\ FileAgrees'
  BY <1>1 DEF NoticesInv, NoticesTypeOK, RestTypeOK, Sound, FileAgrees, StateEntry
<1>3. StopStep
  BY DEF StopStep
<1> QED
  BY <1>2, <1>3 DEF NoticesInv

LEMMA InterposedFields ==
    ASSUME NEW m \in Memory
    PROVE  /\ Interposed(m) \in Memory
           /\ Interposed(m).attached = m.attached /\ (m.attached => Interposed(m).broken)
           /\ Interposed(m).observed = m.observed /\ Interposed(m).announced = m.announced
           /\ Interposed(m).stopped = m.stopped /\ Interposed(m).told = m.told
           /\ Interposed(m).deferred = m.deferred /\ Interposed(m).timers = m.timers
           /\ Interposed(m).suppress = m.suppress
BY DEF Interposed, Memory

LEMMA InvTypes == ASSUME NoticesInv PROVE memory \in Memory /\ filed \in File /\ RestTypeOK
BY DEF NoticesInv, NoticesTypeOK, RestTypeOK

LEMMA InitSound == NoticesInit => NoticesInv
<1> SUFFICES ASSUME NoticesInit PROVE NoticesInv
  OBVIOUS
<1>1. NoEntry \in File /\ NoEntry.observed = {} /\ NoEntry.announced = {} /\ NoEntry.stopped = {}
  BY DEF NoEntry, File
<1> DEFINE m == Restored(NoEntry, {})
<1>2. /\ m \in Memory /\ m.observed = {} /\ m.announced = {} /\ m.timers = {}
      /\ m.suppress => m.deferred # {}
      /\ ~m.attached
  BY <1>1, RestoredSound
<1>3. memory = m
  BY DEF NoticesInit
<1> HIDE DEF m
<1> QED
  BY <1>1, <1>2, <1>3 DEF NoticesInit, NoticesInv, NoticesTypeOK, Sound, ArmedIsAlone, FileAgrees, AfterTheSession

LEMMA SessionStep ==
    ASSUME NoticesInv, (\E resumed \in BOOLEAN : SessionStarts(resumed)) \/ SessionEnds
    PROVE  NoticesInv' /\ StopStep
<1> USE InvTypes
<1>1. NoEntry \in File /\ NoEntry.observed = {} /\ NoEntry.announced = {} /\ NoEntry.stopped = {}
  BY DEF NoEntry, File
<1>2. ASSUME NEW resumed \in BOOLEAN, SessionStarts(resumed) PROVE NoticesInv' /\ StopStep
  <2>1. /\ filed' \in File
        /\ filed'.observed \cap filed'.stopped = {} /\ filed'.announced \cap filed'.stopped = {}
        /\ filed'.announced \subseteq (IF resumed THEN memory.told ELSE {}) \cup strays'
        /\ filed' = filed \/ filed'.observed = {}
    BY <1>1, <1>2 DEF SessionStarts, NoticesInv, FileAgrees
  <2>2. PICK t \in SUBSET PullRequests : t = IF resumed THEN memory.told ELSE {}
    BY DEF Memory
  <2>3. /\ memory' \in Memory
        /\ memory'.observed = filed'.observed /\ memory'.announced = filed'.announced
        /\ memory'.deferred = filed'.observed \ filed'.announced /\ memory'.timers = {}
        /\ memory'.suppress => memory'.deferred # {}
        /\ ~memory'.attached /\ memory'.told = t
        /\ StateEntry(memory') = filed'
    <3>1. memory' = Restored(filed', t)
      BY <1>2, <2>2 DEF SessionStarts
    <3> QED
      BY <3>1, <2>1, RestoredSound
  <2>4. RestTypeOK' /\ AfterTheSession'
    BY <1>2 DEF SessionStarts, RestTypeOK, AfterTheSession, NoticesInv
  <2>5. NoticesTypeOK'
    BY <2>1, <2>3, <2>4 DEF NoticesTypeOK, RestTypeOK
  <2>6. Sound(memory, strays)' /\ ArmedIsAlone'
    BY <1>2, <2>1, <2>2, <2>3 DEF Sound, ArmedIsAlone, SessionStarts
  <2>7. FileAgrees'
    BY <2>1, <2>2, <2>3 DEF FileAgrees, StateEntry
  <2>8. StopStep
    BY <2>1, <2>3, <1>1 DEF StopStep
  <2> QED
    BY <2>4, <2>5, <2>6, <2>7, <2>8 DEF NoticesInv
<1>3. CASE SessionEnds
  <2>1. /\ memory' \in Memory
        /\ memory'.observed = {} /\ memory'.announced = {} /\ memory'.timers = {}
        /\ memory'.suppress => memory'.deferred # {}
        /\ ~memory'.attached /\ memory'.told = memory.told
    BY <1>1, <1>3, RestoredSound DEF SessionEnds, Memory
  <2>2. asking' \subseteq [pr : PullRequests, own : {FALSE}]
    BY <1>3 DEF SessionEnds, RestTypeOK
  <2>3. RestTypeOK' /\ AfterTheSession'
    BY <1>3, <2>2 DEF SessionEnds, RestTypeOK, AfterTheSession
  <2>4. Sound(memory, strays)' /\ ArmedIsAlone' /\ FileAgrees' /\ StopStep
    BY <1>3, <2>1 DEF Sound, ArmedIsAlone, FileAgrees, StateEntry, StopStep, SessionEnds, NoticesInv
  <2> QED
    BY <1>3, <2>1, <2>3, <2>4 DEF NoticesInv, NoticesTypeOK, RestTypeOK, SessionEnds
<1> QED
  BY <1>2, <1>3

LEMMA CheckStep ==
    ASSUME NoticesInv,
           \/ StartupScans \/ StartupEnds \/ Scans \/ ScanEnds
           \/ \E p \in PullRequests : Finds(p) \/ TimerFires(p)
    PROVE  NoticesInv' /\ StopStep
<1> USE InvTypes
<1>0. Sound(memory, strays) /\ ArmedIsAlone /\ disposed \in BOOLEAN
  BY DEF NoticesInv, RestTypeOK
<1>1. CASE \/ StartupScans \/ Scans \/ ScanEnds
           \/ StartupEnds /\ UNCHANGED <<memory, filed>>
  <2>1. /\ UNCHANGED <<memory, filed, disposed, strays, onWay, startVars>>
        /\ boot' \in {"git", "scan", "over"} /\ scanning' \in BOOLEAN
        /\ disposed => boot' = "over" /\ ~scanning'
    BY <1>1 DEF StartupScans, StartupEnds, Scans, ScanEnds, startVars, NoticesInv, AfterTheSession, RestTypeOK
  <2>2. RestTypeOK' /\ AfterTheSession' /\ onWay' \subseteq onWay
    BY <2>1 DEF startVars, NoticesInv, AfterTheSession, RestTypeOK
  <2> QED
    BY <2>1, <2>2, Left
<1>2. CASE StartupEnds /\ Becomes(ReleaseLate(memory))
  <2> DEFINE m == ReleaseLate(memory)
  <2>1. ~disposed
    BY <1>2 DEF StartupEnds, NoticesInv, AfterTheSession
  <2>2. /\ m \in Memory /\ Sound(m, strays) /\ memory.told \subseteq m.told
        /\ m.observed = memory.observed
        /\ m.attached = memory.attached /\ m.broken = memory.broken
    <3>1. CASE m = memory
      BY <3>1, <1>0
    <3>2. CASE m = Tells(Delivered(memory, memory.deferred), memory.deferred)
      <4> DEFINE d == Delivered(memory, memory.deferred)
                 n == Tells(d, memory.deferred)
      <4>1. memory.deferred \in SUBSET PullRequests
        BY DEF Memory
      <4>2. /\ d \in Memory
            /\ d.observed = memory.observed
            /\ d.announced = memory.announced \cup (memory.deferred \cap memory.observed)
            /\ d.deferred = {} /\ d.timers = memory.timers
            /\ d.suppress => d.deferred # {}
            /\ d.attached = memory.attached /\ d.broken = memory.broken /\ d.told = memory.told
        BY <1>0, <4>1, DeliveredSound
      <4>3. n = [d EXCEPT !.told = d.told \cup memory.deferred]
        BY <2>1 DEF Tells
      <4> HIDE DEF d
      <4>4. /\ n \in Memory
            /\ n.observed = d.observed /\ n.announced = d.announced /\ n.deferred = d.deferred
            /\ n.timers = d.timers /\ n.suppress = d.suppress
            /\ n.attached = d.attached /\ n.broken = d.broken
            /\ n.told = d.told \cup memory.deferred
        BY <4>1, <4>2, <4>3 DEF Memory
      <4> HIDE DEF n
      <4>5. Sound(n, strays)
        BY <1>0, <2>1, <4>2, <4>4 DEF Sound
      <4>6. m = n
        BY <3>2 DEF n, d
      <4> QED
        BY <4>2, <4>4, <4>5, <4>6
    <3> QED
      BY <3>1, <3>2 DEF ReleaseLate
  <2> HIDE DEF m
  <2>3. Becomes(m) /\ UNCHANGED <<disposed, strays, onWay>> /\ RestTypeOK' /\ AfterTheSession'
    BY <1>2, <2>1 DEF StartupEnds, startVars, RestTypeOK, AfterTheSession, m
  <2> QED
    BY <1>0, <2>2, <2>3, Handled DEF ArmedIsAlone
<1>3. ASSUME NEW p \in PullRequests, Finds(p) PROVE NoticesInv' /\ StopStep
  <2> DEFINE n == StartObserving(memory, p, FALSE)
             m == IF boot = "scan" /\ ~memory.hasRun
                  THEN [n EXCEPT !.deferred = @ \cup {p}, !.suppress = TRUE]
                  ELSE [n EXCEPT !.timers = @ \cup {p}]
  <2>1. /\ n \in Memory
        /\ n.observed = memory.observed \cup {p}
        /\ n.announced = memory.announced \ {p} /\ n.stopped = memory.stopped
        /\ n.deferred = memory.deferred /\ n.timers = memory.timers /\ n.suppress = memory.suppress
        /\ n.attached = memory.attached /\ n.broken = memory.broken /\ n.told = memory.told
    BY StartFields
  <2>2. Becomes(m) /\ UNCHANGED <<disposed, strays, onWay>> /\ RestTypeOK' /\ AfterTheSession'
    BY <1>3 DEF Finds, checkVars, startVars, RestTypeOK, AfterTheSession, NoticesInv
  <2>3. ~disposed /\ p \notin memory.stopped
    BY <1>3 DEF Finds, Checking, Untracked, NoticesInv, AfterTheSession
  <2> HIDE DEF n
  <2>4. /\ m \in Memory
        /\ m.observed = n.observed /\ m.announced = n.announced /\ m.stopped = n.stopped
        /\ n.deferred \subseteq m.deferred /\ n.timers \subseteq m.timers
        /\ p \in m.deferred \cup m.timers
        /\ m.suppress => n.suppress \/ m.deferred # {}
        /\ m.attached = n.attached /\ m.broken = n.broken /\ m.told = n.told
    <3>1. CASE m = [n EXCEPT !.deferred = n.deferred \cup {p}, !.suppress = TRUE]
      <4> HIDE DEF m
      <4> QED
        BY <2>1, <3>1 DEF Memory
    <3>2. CASE m = [n EXCEPT !.timers = n.timers \cup {p}]
      <4> HIDE DEF m
      <4> QED
        BY <2>1, <3>2 DEF Memory
    <3> QED
      BY <3>1, <3>2
  <2> HIDE DEF m
  <2>5. Sound(m, strays)
    BY <1>0, <2>1, <2>3, <2>4 DEF Sound
  <2>6. \A q \in m.observed \ memory.observed : q \notin memory.stopped
    BY <2>1, <2>3, <2>4
  <2>7. m.attached /\ ~m.broken => "other" \notin onWay'
    BY <1>0, <2>1, <2>2, <2>4 DEF ArmedIsAlone
  <2>8. strays \subseteq strays' /\ memory.told \subseteq m.told /\ Sound(m, strays')
    BY <2>1, <2>2, <2>4, <2>5
  <2> QED
    BY <2>2, <2>4, <2>6, <2>7, <2>8, Handled
<1>4. ASSUME NEW p \in PullRequests, TimerFires(p) PROVE NoticesInv' /\ StopStep
  <2> DEFINE l == [memory EXCEPT !.timers = @ \ {p}]
             n == Announce(l, p)
             m == IF memory.suppress THEN n ELSE Marked(n, {p})
  <2>1. /\ l \in Memory
        /\ l.observed = memory.observed /\ l.announced = memory.announced
        /\ l.deferred = memory.deferred /\ l.timers = memory.timers \ {p}
        /\ l.suppress = memory.suppress
        /\ l.attached = memory.attached /\ l.broken = memory.broken /\ l.told = memory.told
    BY DEF Memory
  <2>2. ~disposed
    BY <1>0, <1>4 DEF Sound, TimerFires
  <2> HIDE DEF l
  <2>3. /\ n \in Memory
        /\ n.observed = l.observed /\ n.announced = l.announced
        /\ n.attached = l.attached /\ n.broken = l.broken /\ n.suppress = l.suppress
        /\ n.timers = l.timers
        /\ l.deferred \subseteq n.deferred /\ l.told \subseteq n.told
        /\ p \in n.deferred \cup n.told
        /\ ~l.suppress => p \in n.told
    BY <1>0, <2>1, <2>2, AnnounceSound
  <2> HIDE DEF n
  <2>4. /\ m \in Memory
        /\ m.observed = n.observed
        /\ m.announced = n.announced \cup (IF memory.suppress THEN {} ELSE {p} \cap n.observed)
        /\ m.deferred = n.deferred /\ m.timers = n.timers /\ m.suppress = n.suppress
        /\ m.attached = n.attached /\ m.broken = n.broken /\ m.told = n.told
    BY <2>3, MarkedFields
  <2>5. Becomes(m) /\ UNCHANGED <<disposed, strays, onWay>> /\ RestTypeOK' /\ AfterTheSession'
    BY <1>4 DEF TimerFires, checkVars, startVars, RestTypeOK, AfterTheSession, NoticesInv, n, l
  <2> HIDE DEF m
  <2>6. Sound(m, strays)
    BY <1>0, <2>1, <2>2, <2>3, <2>4 DEF Sound
  <2>7. /\ m.observed \ memory.observed = {} /\ memory.told \subseteq m.told
        /\ m.attached /\ ~m.broken => "other" \notin onWay'
        /\ strays \subseteq strays' /\ Sound(m, strays')
    BY <1>0, <2>1, <2>3, <2>4, <2>5, <2>6 DEF ArmedIsAlone
  <2> QED
    BY <2>4, <2>5, <2>7, Handled
<1> QED
  BY <1>1, <1>2, <1>3, <1>4 DEF StartupEnds

\* A handler that concerns p alone and may drop auto-starts.
LEMMA ToolHandled ==
    ASSUME NoticesInv, ~disposed, NEW p \in PullRequests, NEW m \in Memory, Becomes(m),
           UNCHANGED <<disposed, checkVars, due, settling, strays, onWay>>,
           autostart' \subseteq PullRequests, asking' \subseteq [pr : PullRequests, own : BOOLEAN],
           Sound(m, strays), m.observed \subseteq memory.observed,
           memory.told \subseteq m.told, m.attached = memory.attached, m.broken = memory.broken
    PROVE  NoticesInv' /\ StopStep
<1>1. RestTypeOK' /\ AfterTheSession'
  BY InvTypes DEF RestTypeOK, AfterTheSession, checkVars
<1>2. m.attached /\ ~m.broken => "other" \notin onWay'
  BY DEF NoticesInv, ArmedIsAlone
<1> QED
  BY <1>1, <1>2, Handled

LEMMA PollStep ==
    ASSUME NoticesInv, NEW p \in PullRequests,
           \/ MergeChanges(p) \/ PollFindsClosed(p)
           \/ ToolTakesOver(p) \/ ToolStops(p) \/ CommandStops(p)
    PROVE  NoticesInv' /\ StopStep
<1> USE InvTypes
<1>0. /\ Sound(memory, strays) /\ ArmedIsAlone /\ disposed \in BOOLEAN
      /\ autostart \subseteq PullRequests /\ asking \subseteq [pr : PullRequests, own : BOOLEAN]
  BY DEF NoticesInv, RestTypeOK
<1>1. CASE MergeChanges(p)
  <2> DEFINE m == Announce(memory, p)
  <2>1. /\ m \in Memory /\ Sound(m, strays) /\ m.observed = memory.observed
        /\ m.attached = memory.attached /\ m.broken = memory.broken /\ memory.told \subseteq m.told
    BY <1>0, AnnounceSound
  <2>2. /\ ~disposed /\ Becomes(m)
        /\ UNCHANGED <<disposed, checkVars, due, settling, strays, onWay, autostart, asking>>
    BY <1>1 DEF MergeChanges, startVars
  <2> HIDE DEF m
  <2> QED
    BY <1>0, <2>1, <2>2, ToolHandled
<1>2. CASE PollFindsClosed(p) \/ ToolStops(p) \/ (CommandStops(p) /\ p \in memory.observed)
  <2> DEFINE m == StopObserving(memory, p)
  <2>1. /\ m \in Memory /\ Sound(m, strays) /\ m.observed = memory.observed \ {p}
        /\ m.attached = memory.attached /\ m.broken = memory.broken /\ m.told = memory.told
    BY <1>0, StopSound
  <2>2. /\ ~disposed /\ Becomes(m) /\ autostart' \subseteq autostart
        /\ UNCHANGED <<disposed, checkVars, due, settling, strays, onWay, asking>>
    BY <1>2 DEF PollFindsClosed, ToolStops, CommandStops, startVars
  <2> HIDE DEF m
  <2> QED
    BY <1>0, <2>1, <2>2, ToolHandled
<1>3. CASE ToolTakesOver(p)
  <2> DEFINE w == WithoutNotice(memory, p)
             k == Marked(w, {p})
             m == Tells(k, {p})
  <2>1. /\ w \in Memory
        /\ w.observed = memory.observed /\ w.announced = memory.announced
        /\ w.deferred = memory.deferred \ {p} /\ w.timers = memory.timers \ {p}
        /\ w.suppress => memory.deferred \ {p} # {} \/ memory.attached
        /\ w.attached = memory.attached /\ w.broken = memory.broken /\ w.told = memory.told
    BY WithoutFields
  <2> HIDE DEF w
  <2>2. /\ k \in Memory
        /\ k.announced = w.announced \cup ({p} \cap w.observed)
        /\ k.observed = w.observed
        /\ k.deferred = w.deferred /\ k.timers = w.timers /\ k.suppress = w.suppress
        /\ k.attached = w.attached /\ k.broken = w.broken /\ k.told = w.told
    BY <2>1, MarkedFields
  <2>3. /\ ~disposed /\ Becomes(m)
        /\ UNCHANGED <<disposed, checkVars, due, settling, strays, onWay, autostart, asking>>
    BY <1>3 DEF ToolTakesOver, startVars, w
  <2> HIDE DEF k
  <2>4. m = [k EXCEPT !.told = k.told \cup {p}]
    BY <2>3 DEF Tells
  <2> HIDE DEF m
  <2>5. /\ m \in Memory
        /\ m.observed = k.observed /\ m.announced = k.announced /\ m.deferred = k.deferred
        /\ m.timers = k.timers /\ m.suppress = k.suppress
        /\ m.attached = k.attached /\ m.broken = k.broken /\ m.told = k.told \cup {p}
    BY <2>2, <2>4 DEF Memory
  <2>6. Sound(m, strays)
    BY <1>0, <2>1, <2>2, <2>3, <2>5 DEF Sound
  <2>7. /\ m.observed \subseteq memory.observed /\ memory.told \subseteq m.told
        /\ m.attached = memory.attached /\ m.broken = memory.broken
    BY <2>1, <2>2, <2>5
  <2> QED
    BY <1>0, <2>3, <2>5, <2>6, <2>7, ToolHandled
<1>4. CASE CommandStops(p) /\ p \notin memory.observed
  <2>1. /\ ~disposed /\ memory' = [memory EXCEPT !.timers = @ \ {p}] /\ autostart' \subseteq autostart
        /\ UNCHANGED <<filed, disposed, checkVars, due, settling, strays, onWay, asking>>
    BY <1>4 DEF CommandStops
  <2>2. /\ memory' \in Memory
        /\ memory'.observed = memory.observed /\ memory'.announced = memory.announced
        /\ memory'.stopped = memory.stopped /\ memory'.told = memory.told
        /\ memory'.deferred = memory.deferred /\ memory'.timers = memory.timers \ {p}
        /\ memory'.suppress = memory.suppress
        /\ memory'.attached = memory.attached /\ memory'.broken = memory.broken
    BY <2>1 DEF Memory
  <2>3. RestTypeOK' /\ AfterTheSession' /\ ArmedIsAlone'
    BY <1>0, <2>1, <2>2 DEF RestTypeOK, AfterTheSession, ArmedIsAlone, checkVars
  <2>4. Sound(memory', strays)
    BY <1>0, <1>4, <2>2 DEF Sound
  <2> QED
    BY <2>1, <2>2, <2>3, <2>4, Unfiled
<1> QED
  BY <1>1, <1>2, <1>3, <1>4 DEF CommandStops

LEMMA StartStep ==
    ASSUME NoticesInv,
           \/ RetryHook
           \/ \E p \in PullRequests : ToolAsks(p) \/ Settles(p) \/ AutoStarts(p) \/ SettleReturns(p)
           \/ \E a \in asking : ToolStarts(a) \/ ToolReturns(a)
    PROVE  NoticesInv' /\ StopStep
<1> USE InvTypes
<1>0. Sound(memory, strays) /\ ArmedIsAlone /\ AfterTheSession /\ disposed \in BOOLEAN
  BY DEF NoticesInv, RestTypeOK
<1>1. CASE RetryHook \/ \E p \in PullRequests : Settles(p) \/ SettleReturns(p)
  <2>1. /\ UNCHANGED <<memory, filed, disposed, strays, onWay, checkVars, asking>>
        /\ autostart' \subseteq PullRequests /\ due' \subseteq PullRequests
        /\ settling' \subseteq PullRequests
    BY <1>1 DEF RetryHook, Settles, SettleReturns, RestTypeOK
  <2>2. RestTypeOK' /\ AfterTheSession' /\ onWay' \subseteq onWay
    BY <1>0, <2>1 DEF RestTypeOK, AfterTheSession, checkVars
  <2> QED
    BY <2>1, <2>2, Left
<1>2. ASSUME NEW p \in PullRequests, ToolAsks(p) PROVE NoticesInv' /\ StopStep
  <2>1. /\ UNCHANGED <<memory, filed, disposed, strays, onWay, checkVars, autostart, due, settling>>
        /\ ~disposed /\ asking' = asking \cup {[pr |-> p, own |-> TRUE]}
    BY <1>2 DEF ToolAsks
  <2>2. [pr |-> p, own |-> TRUE] \in [pr : PullRequests, own : BOOLEAN]
    BY Zenon
  <2>3. asking' \subseteq [pr : PullRequests, own : BOOLEAN]
    BY <2>1, <2>2, Zenon DEF RestTypeOK
  <2>4. RestTypeOK' /\ AfterTheSession' /\ onWay' \subseteq onWay
    BY <1>0, <2>1, <2>3 DEF RestTypeOK, AfterTheSession, checkVars
  <2> QED
    BY <2>1, <2>4, Left
<1>3. ASSUME NEW a \in asking, ToolReturns(a) PROVE NoticesInv' /\ StopStep
  <2>1. /\ UNCHANGED <<memory, filed, disposed, strays, onWay, checkVars, due, settling>>
        /\ autostart' \subseteq PullRequests /\ asking' \subseteq asking
    BY <1>3 DEF ToolReturns, RestTypeOK
  <2>2. RestTypeOK' /\ AfterTheSession' /\ onWay' \subseteq onWay
    BY <1>0, <2>1 DEF RestTypeOK, AfterTheSession, checkVars
  <2> QED
    BY <2>1, <2>2, Left
<1>4. ASSUME NEW p \in PullRequests, AutoStarts(p) PROVE NoticesInv' /\ StopStep
  <2> DEFINE n == StartObserving(memory, p, FALSE)
             m == Announce(n, p)
  <2>1. /\ n \in Memory
        /\ n.observed = memory.observed \cup {p}
        /\ n.announced = memory.announced \ {p}
        /\ n.deferred = memory.deferred /\ n.timers = memory.timers /\ n.suppress = memory.suppress
        /\ n.attached = memory.attached /\ n.broken = memory.broken /\ n.told = memory.told
    BY StartFields
  <2>2. /\ Becomes(m) /\ p \in settling
        /\ UNCHANGED <<disposed, strays, onWay, checkVars, due, asking>>
        /\ autostart' \subseteq autostart /\ settling' \subseteq settling
    BY <1>4 DEF AutoStarts
  <2> HIDE DEF n
  <2>3. /\ m \in Memory
        /\ m.observed = n.observed /\ m.announced = n.announced
        /\ m.attached = n.attached /\ m.broken = n.broken /\ m.suppress = n.suppress
        /\ m.timers = n.timers
        /\ n.deferred \subseteq m.deferred /\ n.told \subseteq m.told
        /\ ~disposed => p \in m.deferred \cup m.told
    BY <1>0, <2>1, AnnounceSound
  <2> HIDE DEF m
  <2>4. Sound(m, strays)
    BY <1>0, <2>1, <2>3 DEF Sound
  <2>5. RestTypeOK' /\ AfterTheSession'
    BY <1>0, <2>2 DEF RestTypeOK, AfterTheSession, checkVars
  <2>6. /\ \A q \in m.observed \ memory.observed : q \in settling
        /\ memory.told \subseteq m.told
        /\ m.attached /\ ~m.broken => "other" \notin onWay'
        /\ strays \subseteq strays' /\ Sound(m, strays')
    BY <1>0, <2>1, <2>2, <2>3, <2>4 DEF ArmedIsAlone
  <2> QED
    BY <2>2, <2>3, <2>5, <2>6, Handled
<1>5. ASSUME NEW a \in asking, ToolStarts(a) PROVE NoticesInv' /\ StopStep
  <2> DEFINE n == StartObserving(memory, a.pr, TRUE)
             m == IF a.own THEN Tells(n, {a.pr}) ELSE n
  <2>0. a.pr \in PullRequests /\ a.own \in BOOLEAN
    BY DEF RestTypeOK
  <2>1. /\ n \in Memory
        /\ n.observed = memory.observed \cup {a.pr}
        /\ n.announced = memory.announced \cup {a.pr} /\ n.stopped = memory.stopped \ {a.pr}
        /\ n.deferred = memory.deferred /\ n.timers = memory.timers /\ n.suppress = memory.suppress
        /\ n.attached = memory.attached /\ n.broken = memory.broken /\ n.told = memory.told
    <3>1. memory \in Memory /\ TRUE \in BOOLEAN
      BY InvTypes
    <3> HIDE DEF n
    <3>2. n = StartObserving(memory, a.pr, TRUE)
      BY DEF n
    <3> QED
      BY <2>0, <3>1, <3>2, StartFields
  <2>2. /\ Becomes(m)
        /\ strays' = IF a.own THEN strays ELSE strays \cup {a.pr}
        /\ UNCHANGED <<disposed, onWay, checkVars, due, settling>>
        /\ autostart' \subseteq autostart /\ asking' \subseteq asking
    BY <1>5 DEF ToolStarts
  <2>3. a.own => ~disposed
    BY <1>0 DEF AfterTheSession
  <2> HIDE DEF n
  <2>4. /\ m \in Memory
        /\ m.observed = n.observed /\ m.announced = n.announced /\ m.stopped = n.stopped
        /\ m.deferred = n.deferred /\ m.timers = n.timers /\ m.suppress = n.suppress
        /\ m.attached = n.attached /\ m.broken = n.broken
        /\ m.told = IF a.own THEN n.told \cup {a.pr} ELSE n.told
    <3>1. CASE a.own
      <4>1. m = [n EXCEPT !.told = n.told \cup {a.pr}]
        BY <3>1, <2>3 DEF Tells
      <4> HIDE DEF m
      <4> QED
        BY <2>0, <2>1, <3>1, <4>1 DEF Memory
    <3>2. CASE ~a.own
      BY <2>1, <3>2
    <3> QED
      BY <3>1, <3>2, <2>0
  <2> HIDE DEF m
  <2>5. Sound(m, strays')
    BY <1>0, <2>0, <2>1, <2>2, <2>3, <2>4 DEF Sound
  <2>6. strays' \subseteq PullRequests
    BY <2>0, <2>2 DEF RestTypeOK
  <2>7. RestTypeOK' /\ AfterTheSession'
    BY <1>0, <2>2, <2>6 DEF RestTypeOK, AfterTheSession, checkVars
  <2>8. /\ \A q \in m.observed \ memory.observed : q \notin m.stopped
        /\ memory.told \subseteq m.told
        /\ m.attached /\ ~m.broken => "other" \notin onWay'
        /\ strays \subseteq strays'
    BY <1>0, <2>1, <2>2, <2>4 DEF ArmedIsAlone
  <2> QED
    BY <2>2, <2>4, <2>5, <2>7, <2>8, Handled
<1> QED
  BY <1>1, <1>2, <1>3, <1>4, <1>5

LEMMA PromptStep ==
    ASSUME NoticesInv, Says \/ SaysCommand \/ OtherPrompt \/ PromptDies
    PROVE  NoticesInv' /\ StopStep
<1> USE InvTypes
<1>0. Sound(memory, strays) /\ ArmedIsAlone /\ AfterTheSession /\ disposed \in BOOLEAN
  BY DEF NoticesInv, RestTypeOK
<1>1. CASE PromptDies
  <2>1. /\ UNCHANGED <<memory, filed, disposed, checkVars, startVars>>
        /\ onWay' \subseteq onWay
    BY <1>1 DEF PromptDies
  <2>2. RestTypeOK' /\ AfterTheSession' /\ UNCHANGED strays
    BY <1>0, <2>1 DEF RestTypeOK, AfterTheSession, checkVars, startVars
  <2> QED
    BY <2>1, <2>2, Left
<1> DEFINE m == [memory EXCEPT !.userTurn = TRUE]
           c == [m EXCEPT !.attached = TRUE, !.broken = FALSE, !.carries = m.deferred]
           Same(x) == /\ x \in Memory
                      /\ x.observed = memory.observed /\ x.announced = memory.announced
                      /\ x.stopped = memory.stopped /\ x.told = memory.told
                      /\ x.deferred = memory.deferred /\ x.timers = memory.timers
                      /\ x.suppress = memory.suppress
<1>2. Same(m) /\ m.attached = memory.attached /\ m.broken = memory.broken
  BY DEF Memory
<1>3. Same(c) /\ c.attached /\ ~c.broken
  BY <1>2 DEF Memory
<1>4. Same(memory)
  OBVIOUS
<1> HIDE DEF c, m
<1>5. \A x : Same(x) /\ x.attached = memory.attached =>
         LET i == Interposed(x)
         IN  Same(i) /\ i.attached = memory.attached /\ (i.attached => i.broken)
  BY InterposedFields
<1>6. CASE Says \/ SaysCommand \/ OtherPrompt
  <2>1. /\ ~disposed /\ UNCHANGED <<filed, disposed, checkVars, startVars>>
        /\ onWay' \subseteq {"armed", "other"}
        /\ \/ memory' = c /\ onWay' = {"armed"}
           \/ memory' = Interposed(m) \/ memory' = Interposed(memory)
    BY <1>6 DEF Says, SaysCommand, OtherPrompt, RestTypeOK, m, c
  <2>2. /\ Same(memory')
        /\ memory'.attached = memory.attached \/ memory'.attached
        /\ memory'.attached /\ ~memory'.broken => onWay' = {"armed"}
    BY <2>1, <1>2, <1>3, <1>4, <1>5
  <2>3. RestTypeOK' /\ AfterTheSession' /\ ArmedIsAlone' /\ UNCHANGED strays
    BY <2>1, <2>2 DEF RestTypeOK, AfterTheSession, checkVars, startVars, ArmedIsAlone
  <2>4. Sound(memory', strays)
    BY <1>0, <2>1, <2>2 DEF Sound
  <2> QED
    BY <2>1, <2>2, <2>3, <2>4, Unfiled
<1> QED
  BY <1>1, <1>6

LEMMA RunStep ==
    ASSUME NoticesInv, NEW prompt \in {"armed", "other"}, AgentStarts(prompt)
    PROVE  NoticesInv' /\ StopStep
<1> USE InvTypes
<1>0. Sound(memory, strays) /\ ArmedIsAlone /\ AfterTheSession /\ disposed \in BOOLEAN
  BY DEF NoticesInv, RestTypeOK
<1>1. PICK read \in SUBSET memory.carries :
         /\ prompt = "armed" => read = memory.carries
         /\ Becomes(RunStarted(Tells(memory, read)))
  BY DEF AgentStarts
<1>2. /\ UNCHANGED <<disposed, strays>> /\ onWay' = {} /\ RestTypeOK' /\ AfterTheSession'
      /\ prompt \in onWay /\ ~disposed
  BY <1>0 DEF AgentStarts, checkVars, startVars, RestTypeOK, AfterTheSession
<1> DEFINE t == Tells(memory, read)
           d == Delivered(t, t.carries)
           u == CASE ~t.attached /\ ~t.userTurn -> t
                  [] t.attached /\ ~t.broken    -> d
                  [] OTHER                      -> [t EXCEPT !.suppress = FALSE]
           m == RunStarted(t)
<1>3. memory.carries \in SUBSET PullRequests /\ read \in SUBSET PullRequests
  BY DEF Memory
<1>4. /\ t \in Memory /\ Sound(t, strays)
      /\ t.observed = memory.observed /\ t.attached = memory.attached /\ t.broken = memory.broken
      /\ t.carries = memory.carries /\ memory.told \subseteq t.told /\ read \subseteq t.told
  BY <1>0, <1>2, <1>3, TellsSound
<1>5. m = [u EXCEPT !.hasRun = TRUE, !.attached = FALSE, !.carries = {}, !.broken = FALSE, !.userTurn = FALSE]
  BY DEF RunStarted
<1>6. Becomes(m)
  BY <1>1
<1> HIDE DEF t, m
<1>7. /\ d \in Memory
      /\ t.carries \subseteq t.told => Sound(d, strays)
      /\ d.observed = t.observed /\ d.told = t.told
      /\ d.suppress => d.deferred # {}
  BY <1>0, <1>3, <1>4, DeliveredSound
<1> HIDE DEF d
<1>8. /\ u \in Memory /\ Sound(u, strays) /\ u.observed = memory.observed
      /\ memory.told \subseteq u.told
      /\ u.suppress => u.deferred # {}
  <2>1. CASE ~t.attached /\ ~t.userTurn
    <3>1. u = t
      BY <2>1
    <3> QED
      BY <1>4, <2>1, <3>1 DEF Sound
  <2>2. CASE t.attached /\ ~t.broken
    <3>1. u = d
      BY <2>2
    <3>2. read = memory.carries
      BY <1>0, <1>1, <1>2, <1>4, <2>2 DEF ArmedIsAlone
    <3>3. t.carries \subseteq t.told
      BY <1>4, <3>2
    <3> QED
      BY <1>4, <1>7, <3>1, <3>3
  <2>3. CASE ~(~t.attached /\ ~t.userTurn) /\ ~(t.attached /\ ~t.broken)
    <3>1. u = [t EXCEPT !.suppress = FALSE]
      BY <2>3
    <3> HIDE DEF u
    <3> QED
      BY <1>4, <3>1 DEF Memory, Sound
  <2> QED
    BY <2>1, <2>2, <2>3
<1> HIDE DEF u
<1>9. /\ m \in Memory /\ m.observed = u.observed /\ m.announced = u.announced
      /\ m.deferred = u.deferred /\ m.timers = u.timers /\ m.told = u.told
      /\ m.suppress = u.suppress /\ ~m.attached
  BY <1>5, <1>8 DEF Memory
<1>10. Sound(m, strays)
  BY <1>8, <1>9 DEF Sound
<1>11. /\ m.observed \ memory.observed = {} /\ memory.told \subseteq m.told
       /\ strays \subseteq strays' /\ Sound(m, strays')
  BY <1>2, <1>8, <1>9, <1>10
<1> QED
  BY <1>2, <1>6, <1>9, <1>11, Handled

LEMMA NextKeeps == NoticesInv /\ [NoticesNext]_noticesVars => NoticesInv' /\ StopStep
<1> SUFFICES ASSUME NoticesInv, [NoticesNext]_noticesVars PROVE NoticesInv' /\ StopStep
  OBVIOUS
<1>1. CASE UNCHANGED noticesVars
  BY <1>1, InvTypes, Left DEF noticesVars, RestTypeOK, AfterTheSession, NoticesInv
<1>2. CASE NoticesNext
  BY <1>2, SessionStep, CheckStep, PollStep, StartStep, PromptStep, RunStep DEF NoticesNext
<1> QED
  BY <1>1, <1>2

-----------------------------------------------------------------------------
(* Theorems *)

LEMMA NoticesInvariant == NoticesSpec => []NoticesInv
<1>1. NoticesInv /\ [NoticesNext]_noticesVars => NoticesInv'
  BY NextKeeps
<1> QED
  BY <1>1, InitSound, PTL DEF NoticesSpec

\* The variables keep their types.
THEOREM NoticesTypeCorrect == NoticesSpec => []NoticesTypeOK
<1>1. NoticesInv => NoticesTypeOK
  BY DEF NoticesInv
<1> QED
  BY <1>1, NoticesInvariant, PTL

\* For any set of pull requests, the agent has heard of each observed one or a
\* notice waits, what counts as announced was, and updates are silenced only
\* while a notice waits (startObserving, restoreState, agent_start, observe_pr).
THEOREM NoticesDoArrive == NoticesSpec => []NoticesArrive
<1>1. NoticesInv => NoticesArrive
  BY DEF NoticesInv, Sound, FileAgrees, NoticesArrive, NoticesAreKept, SuppressionHasAReason
<1> QED
  BY <1>1, NoticesInvariant, PTL

\* For any set of them, no branch check, poll or resumed session observes a
\* stopped pull request again (stopObserving, checkTrackedBranches, restoreState).
THEOREM StopsDoStick == NoticesSpec => StopsStick
<1>1. NoticesInv /\ [NoticesNext]_noticesVars =>
         [~disposed' => \A p \in filed.stopped \ memory.observed :
             p \in memory'.observed => p \in settling \/ p \notin filed'.stopped]_noticesVars
  BY NextKeeps DEF StopStep
<1> QED
  BY <1>1, NoticesInvariant, PTL DEF NoticesSpec, StopsStick

-----------------------------------------------------------------------------
(* GhHealth *)

\* A held slot will be given back.
HeldByCaller == health.inFlight => \E c \in Callers : pc[c] = "claimed"

\* The note for release() is about the slot as it is.
NoteIsCurrent ==
    health.pendingWhileBusy => health.inFlight /\ health.wait = 0 /\ health.failures > 0

\* In an outage with no timer armed, the slot is due.
NoTimerMeansDue == health.failures > 0 /\ ~health.timer => health.wait = 0

HealthInv ==
    /\ HealthTypeOK /\ OneDriver /\ WaitersAreDriven
    /\ HeldByCaller /\ NoteIsCurrent /\ NoTimerMeansDue

USE HealthAssumption

\* The initial state satisfies HealthInv.
LEMMA HealthInitInv == HealthInit => HealthInv
BY DEF HealthInit, Healthy, HealthInv, HealthTypeOK, OneDriver, WaitersAreDriven, HeldByCaller,
       NoteIsCurrent, NoTimerMeansDue

\* A step of a caller that is let through, claims the slot or is refused.
LEMMA AcquireKeeps ==
  ASSUME HealthInv, NEW c \in Callers, LetThrough(c) \/ Claim(c) \/ IsRefused(c)
  PROVE  HealthInv'
<1> USE DEF HealthInv, HealthTypeOK, OneDriver, WaitersAreDriven, HeldByCaller, NoteIsCurrent,
            NoTimerMeansDue
<1>1. CASE LetThrough(c)
  BY <1>1 DEF LetThrough
<1>2. CASE Claim(c)
  BY <1>2 DEF Claim, Claimable, SlotDue
<1>3. CASE IsRefused(c)
  BY <1>3 DEF IsRefused, Claimable, Refused, SlotDue
<1>4. QED
  BY <1>1, <1>2, <1>3

\* The object after an outcome has been recorded and before the slot is given
\* back.
Settled(h) ==
    /\ h \in [failures : 0..(FastRetries + 1), wait : Nat,
              windowUsed : BOOLEAN, inFlight : BOOLEAN,
              pendingWhileBusy : BOOLEAN, timer : BOOLEAN, recovering : BOOLEAN]
    /\ h.inFlight = health.inFlight
    /\ h.windowUsed => h.inFlight
    /\ h.timer => h.failures > 0
    /\ h.recovering => h.failures = 0
    /\ h.pendingWhileBusy => h.inFlight /\ h.wait = 0 /\ h.failures > 0
    /\ h.failures > 0 /\ ~h.timer => h.wait = 0
    /\ h = health \/ h.timer \/ h.recovering

\* Recording an outcome leaves a consistent object: unchanged, or with a driver.
LEMMA RecordedFacts ==
  ASSUME HealthInv, NEW outcome \in {"answer", "unreachable", "other"}
  PROVE  Settled(Recorded(health, outcome))
<1>1. Settled(health)
  BY DEF Settled, HealthInv, HealthTypeOK, OneDriver, NoteIsCurrent, NoTimerMeansDue
<1>2. CASE outcome = "answer"
  <2>1. CASE health.failures = 0
    BY <1>1, <1>2, <2>1 DEF Recorded, RecordSuccess
  <2>2. CASE health.failures # 0
    <3>. DEFINE h == [failures |-> 0, wait |-> 0, windowUsed |-> FALSE,
                      inFlight |-> health.inFlight, pendingWhileBusy |-> FALSE,
                      timer |-> FALSE, recovering |-> TRUE]
    <3>1. Recorded(health, outcome) = h
      BY <1>2, <2>2 DEF Recorded, RecordSuccess, Recovered, HealthInv, HealthTypeOK
    <3>2. Settled(h)
      BY DEF Settled, HealthInv, HealthTypeOK
    <3>3. QED
      BY <3>1, <3>2
  <2>3. QED
    BY <2>1, <2>2
<1>3. CASE outcome = "unreachable"
  <2>. DEFINE n == IF health.failures <= FastRetries THEN health.failures + 1
                   ELSE health.failures
              h == [failures |-> n, wait |-> Interval(n), windowUsed |-> FALSE,
                    inFlight |-> health.inFlight, pendingWhileBusy |-> FALSE,
                    timer |-> TRUE, recovering |-> FALSE]
  <2>1. n \in 1..(FastRetries + 1) /\ Interval(n) \in Nat
    BY DEF Interval, HealthInv, HealthTypeOK
  <2>2. Recorded(health, outcome) = h
    BY <1>3 DEF Recorded, RecordFailure, Paced, HealthInv, HealthTypeOK
  <2>3. Settled(h)
    <3>. HIDE DEF n
    <3>1. QED
      BY <2>1 DEF Settled, HealthInv, HealthTypeOK
  <2>4. QED
    BY <2>2, <2>3
<1>4. CASE outcome = "other"
  BY <1>1, <1>4 DEF Recorded
<1>5. QED
  BY <1>2, <1>3, <1>4

\* The end of a call.
LEMMA EndsKeeps ==
  ASSUME HealthInv, NEW c \in Callers, NEW outcome \in {"answer", "unreachable", "other"},
         Ends(c, outcome)
  PROVE  HealthInv'
<1>. DEFINE h == Recorded(health, outcome)
<1>1. Settled(h)
  BY RecordedFacts
<1>2. /\ health' = IF h.inFlight THEN Release(h) ELSE h
      /\ Hooks(ReleaseRunsHooks(h))
      /\ pc[c] \in {"free", "claimed"} /\ pc' = [pc EXCEPT ![c] = "idle"]
      /\ stray' = stray
  BY DEF Ends
<1>. HIDE DEF h
<1>3. CASE h.inFlight
  BY <1>1, <1>2, <1>3 DEF Settled, Release, Hooks, ReleaseRunsHooks, HealthInv, HealthTypeOK, OneDriver,
     WaitersAreDriven, HeldByCaller, NoteIsCurrent, NoTimerMeansDue
<1>4. CASE ~h.inFlight
  BY <1>1, <1>2, <1>4 DEF Settled, Hooks, ReleaseRunsHooks, HealthInv, HealthTypeOK, OneDriver,
     WaitersAreDriven, HeldByCaller, NoteIsCurrent, NoTimerMeansDue
<1>5. QED
  BY <1>3, <1>4

\* A watcher closes, and its exit is classified.
LEMMA WatchKeeps ==
  ASSUME HealthInv, NEW c \in Callers, NEW outcome \in {"answer", "unreachable", "other"},
         WatchCloses(c) \/ WatchClassified(c, outcome)
  PROVE  HealthInv'
<1> USE DEF HealthInv, HealthTypeOK, OneDriver, WaitersAreDriven, HeldByCaller, NoteIsCurrent,
            NoTimerMeansDue
<1>1. CASE WatchCloses(c)
  BY <1>1 DEF WatchCloses, Release, Hooks, ReleaseRunsHooks
<1>2. CASE WatchClassified(c, outcome)
  <2>1. /\ health' = Recorded(health, outcome)
        /\ pc[c] = "closing" /\ pc' = [pc EXCEPT ![c] = "idle"]
        /\ UNCHANGED <<woken, waiting, stray>>
    BY <1>2 DEF WatchClassified
  <2>2. QED
    BY <2>1, RecordedFacts DEF Settled
<1>3. QED
  BY <1>1, <1>2

\* A failure without a slot.
LEMMA StrayKeeps ==
  ASSUME HealthInv, StrayFailure
  PROVE  HealthInv'
<1>1. /\ health' = Recorded(health, "unreachable")
      /\ stray' \in 0..MaxStray
      /\ UNCHANGED <<pc, woken, waiting>>
  BY DEF StrayFailure, Recorded, HealthInv, HealthTypeOK
<1>2. QED
  BY <1>1, RecordedFacts DEF Settled, HealthInv, HealthTypeOK, OneDriver, WaitersAreDriven, HeldByCaller,
     NoteIsCurrent, NoTimerMeansDue

\* Time, timers and the end of a session.
LEMMA TimeKeeps ==
  ASSUME HealthInv, Tick \/ RetryTimerFires \/ RecoveryTick \/ Reset
  PROVE  HealthInv'
<1> USE DEF HealthInv, HealthTypeOK, OneDriver, WaitersAreDriven, HeldByCaller, NoteIsCurrent,
            NoTimerMeansDue
<1>1. CASE Tick
  BY <1>1 DEF Tick
<1>2. CASE RetryTimerFires
  BY <1>2 DEF RetryTimerFires, TimerSpent, SlotDue, Hooks
<1>3. CASE RecoveryTick
  BY <1>3 DEF RecoveryTick, Hooks
<1>4. CASE Reset
  BY <1>4 DEF Reset, Healthy
<1>5. QED
  BY <1>1, <1>2, <1>3, <1>4

\* Every step keeps HealthInv.
LEMMA HealthNextKeeps == HealthInv /\ [HealthNext]_healthVars => HealthInv'
<1> SUFFICES ASSUME HealthInv, [HealthNext]_healthVars PROVE HealthInv'
  OBVIOUS
<1>1. CASE UNCHANGED healthVars
  BY <1>1 DEF healthVars, HealthInv, HealthTypeOK, OneDriver, WaitersAreDriven, HeldByCaller,
     NoteIsCurrent, NoTimerMeansDue
<1>2. CASE HealthNext
  BY <1>2, AcquireKeeps, EndsKeeps, WatchKeeps, StrayKeeps, TimeKeeps DEF HealthNext
<1>3. QED
  BY <1>1, <1>2

\* The object, its callers and their drivers stay consistent for ever.
THEOREM HealthInvariance == HealthSpec => []HealthInv
<1>1. QED
  BY HealthInitInv, HealthNextKeeps, PTL DEF HealthSpec

\* Every reachable state is well typed, and a consumed window has a holder.
THEOREM HealthTypeCorrect == HealthSpec => []HealthTypeOK
<1>1. HealthInv => HealthTypeOK
  BY DEF HealthInv
<1>2. QED
  BY <1>1, HealthInvariance, PTL

\* Work refused in an outage always has something that will start it again.
THEOREM NobodyStranded == HealthSpec => []WaitersAreDriven
<1>1. HealthInv => WaitersAreDriven
  BY DEF HealthInv
<1>2. QED
  BY <1>1, HealthInvariance, PTL

\* The outage timer and the recovery tick exclude each other.
THEOREM DriversExclude == HealthSpec => []OneDriver
<1>1. HealthInv => OneDriver
  BY DEF HealthInv
<1>2. QED
  BY <1>1, HealthInvariance, PTL

\* Both together: refused work is driven, by one driver.
THEOREM RefusedDrivenOnce == HealthSpec => []RefusedAreDrivenOnce
<1>1. WaitersAreDriven /\ OneDriver => RefusedAreDrivenOnce
  BY DEF RefusedAreDrivenOnce
<1>2. QED
  BY <1>1, NobodyStranded, DriversExclude, PTL

\* Hooks that run in an outage find the slot due.
THEOREM NoWastedRetry == HealthSpec => HooksFindSlotDue
<1>1. HealthInv /\ [HealthNext]_healthVars =>
         [~(woken' \subseteq woken) /\ health'.failures > 0 => health.wait = 0]_healthVars
  <2> SUFFICES ASSUME HealthInv, HealthNext, ~(woken' \subseteq woken), health'.failures > 0
               PROVE  health.wait = 0
    BY DEF healthVars
  <2>1. CASE \E c \in Callers : LetThrough(c) \/ Claim(c) \/ IsRefused(c)
    BY <2>1 DEF LetThrough, Claim, IsRefused
  <2>2. ASSUME NEW c \in Callers, NEW outcome \in {"answer", "unreachable", "other"},
               Ends(c, outcome)
        PROVE  health.wait = 0
    <3>. DEFINE h == Recorded(health, outcome)
    <3>1. h.pendingWhileBusy
      BY <2>2 DEF Ends, Hooks, ReleaseRunsHooks
    <3>2. h = health
      <4>1. outcome = "answer" => h = health
        BY <3>1 DEF Recorded, RecordSuccess, Recovered, HealthInv, HealthTypeOK
      <4>2. outcome # "unreachable"
        BY <3>1 DEF Recorded, RecordFailure, Paced, HealthInv, HealthTypeOK
      <4>3. QED
        BY <4>1, <4>2 DEF Recorded
    <3>3. QED
      BY <3>1, <3>2 DEF HealthInv, NoteIsCurrent
  <2>3. CASE \E c \in Callers : WatchCloses(c)
    BY <2>3 DEF WatchCloses, Hooks, ReleaseRunsHooks, HealthInv, NoteIsCurrent
  <2>4. CASE \E c \in Callers, outcome \in {"answer", "unreachable", "other"} :
                WatchClassified(c, outcome)
    BY <2>4 DEF WatchClassified
  <2>5. CASE StrayFailure \/ Tick \/ Reset
    BY <2>5 DEF StrayFailure, Tick, Reset
  <2>6. CASE RetryTimerFires
    BY <2>6 DEF RetryTimerFires, Hooks, SlotDue
  <2>7. CASE RecoveryTick
    BY <2>7 DEF RecoveryTick, HealthInv, HealthTypeOK, OneDriver
  <2>8. QED
    BY <2>1, <2>2, <2>3, <2>4, <2>5, <2>6, <2>7 DEF HealthNext
<1>2. QED
  BY <1>1, HealthInvariance, PTL DEF HealthSpec, HooksFindSlotDue

=============================================================================
