-------------------------- MODULE PrObserverProofs --------------------------
(***************************************************************************)
(* Proofs about the pr-observer plugin and the task manager that it shares     *)
(* with the pi extension: of the hooks (PrHooks) first, then of the review     *)
(* tasks in both programs (ReviewHosts).                                     *)
(*                                                                           *)
(* The hooks, for any number of notifiers, pull requests, changes and any      *)
(* lengths of the watch and its polls.  WatchIsBounded needs that the start    *)
(* of a watch is kept by everyone who holds a copy of the state file           *)
(* (WatchIsKept), which is so because no notifier runs while a stop is judged  *)
(* (StopIsAlone).  TheAgentIsUpToDate needs that what the file holds for known *)
(* was heard (Known) or will be by the notifier that is on its way to tell     *)
(* (NoteIsSound).                                                            *)
(*                                                                           *)
(* The tasks, for any set of suggestions, answers, lines, calls and budgets.   *)
(* A comment may lose its thread, its place and its id; what it says is kept   *)
(* in no variable once no list and no task has it.  Typed(w) therefore         *)
(* describes the state by a history w that has the words of every comment      *)
(* there ever was: what counts as seen in a task was heard by then (HeardOf).  *)
(* One edit of a suggestion rests on the turns of a task (Locked: only the     *)
(* first in its queue is past its turn), on the lists that actions wait for    *)
(* (Asked: nobody goes on but who waits), and on the note that the edit        *)
(* leaves in the same step (Written).                                        *)
(***************************************************************************)
EXTENDS PrHooks, ReviewHosts, FiniteSetTheorems, SequenceTheorems, WellFoundedInduction, TLAPS

-----------------------------------------------------------------------------
(* The hooks of the plugin and their state file *)

\* What gh reads of a pull request, and what the state file keeps of it.
Seen == [number : Numbers, kind : PRKinds, merge : Merges, ci : Verdicts \cup {"unreadable"}]
Kept == [number : Numbers \cup {0}, kind : PRKinds \cup {"none", "gone"},
         merge : Merges \cup {"none"}, ci : {"none", "unknown", "passed", "failed"}]
Files == [created : BOOLEAN, checkedAt : Int, last : Kept, watch : Int]
Tidings == Problems \cup {"mergeable again", "passed", "failed", "running again", "gone", "draft"}
Hooks == [pc : {"idle", "read", "write", "tell"}, state : Files, at : Int, snap : Seen \cup {NoPR},
          news : SUBSET Tidings]
Stops == [pc : {"idle", "read", "sleep"}, number : Numbers \cup {0}, watch : Int, chunkEnd : Int, since : Int]
Beliefs == [merge : Merges \cup {"none"}, ci : Verdicts \cup {"none", "unreadable"}]

HooksTypes ==
    /\ now \in Nat /\ pr \in PRs /\ file \in Files
    /\ agent \in {"working", "stopping", "idle"}
    /\ notes \in [Notifiers -> Hooks] /\ stop \in Stops
    /\ heard \in Beliefs /\ heldSince \in Int
    /\ started \in BOOLEAN /\ clean \in BOOLEAN

\* While a stop is judged no tool call, and so no notifier, is under way.
StopIsAlone == stop # NoStop => agent = "stopping" /\ \A n \in Notifiers : notes[n] = NoNote

\* Each copy of the state, in the file and with a notifier, has the start of the watch.
WatchIsKept ==
    started => /\ file.created /\ file.watch = heldSince
               /\ \A n \in Notifiers : notes[n] # NoNote =>
                     notes[n].state.created /\ notes[n].state.watch = heldSince

\* A watcher sleeps before its deadline, one poll at a time.
SleepIsShort ==
    stop.pc = "sleep" => /\ stop.since <= now /\ now <= stop.since + 1
                         /\ started => stop.watch = heldSince
                         /\ stop.since < stop.watch + WatchMax

WatchInv == HooksTypes /\ StopIsAlone /\ WatchIsKept /\ SleepIsShort

\* What is kept as known was heard; no problem is believed in that is not kept.
Known(last, h) ==
    last.kind = "open" =>
        /\ last.ci \in {"passed", "failed"} => h.ci = last.ci
        /\ last.merge \in Problems => h.merge = last.merge
        /\ last.merge \notin Problems => h.merge \notin Problems

\* A snapshot of no open pull request has no verdict and no merge state.
Blank(last) == last.kind # "open" => last.merge = "none" /\ last.ci = "none"

\* What has been heard once the news is told.
Heard(h, news, s) ==
    [h EXCEPT !.merge = IF news \cap Problems # {} THEN s.merge
                        ELSE IF "mergeable again" \in news THEN "mergeable" ELSE @,
              !.ci = IF news \cap {"passed", "failed", "running again"} # {} THEN s.ci ELSE @]

\* A notifier starts from what was heard; one that has written will make it so.
NoteIsSound(n) ==
    /\ notes[n].pc \in {"read", "write"} => Known(notes[n].state.last, heard) /\ Known(file.last, heard)
    /\ notes[n].pc \in {"write", "tell"} => notes[n].snap \in Seen
    /\ notes[n].pc = "write" => notes[n].news = News(notes[n].state.last, notes[n].snap)
    /\ notes[n].pc = "tell" => Known(file.last, Heard(heard, notes[n].news, notes[n].snap))

KnownInv ==
    /\ HooksTypes /\ Blank(file.last)
    /\ \A n \in Notifiers : notes[n].pc = "idle" => notes[n] = NoNote
    /\ \A n \in Notifiers : Blank(notes[n].state.last)
    /\ clean => /\ \A m, n \in Notifiers : notes[m] # NoNote /\ notes[n] # NoNote => m = n
                /\ \A n \in Notifiers : NoteIsSound(n)
                /\ (\A n \in Notifiers : notes[n] = NoNote) => Known(file.last, heard)

LEMMA InitTypes == HooksInit => HooksTypes
BY HooksAssumption DEF HooksInit, HooksTypes, PRs, Files, Kept, Hooks, Stops, Beliefs, NoFile, NoPR, NoNote,
     NoStop, NothingHeard, Never, Merges, Problems, PRKinds, Verdicts, Tidings, Seen

LEMMA SnapshotIsKept ==
  ASSUME NEW last \in Kept, NEW s \in Seen \cup {NoPR}
  PROVE  Snapshot(last, s) \in Kept
<1>1. NoPR \in Kept /\ NoPR.number = 0 /\ NoPR.kind = "none"
  BY DEF NoPR, Kept
<1>2. s.number \in Numbers \cup {0}
  BY <1>1 DEF Seen
<1>3. CASE s.kind = "open"
  <2>1. s \in Seen
    BY <1>1, <1>3
  <2> QED
    BY <1>3, <2>1 DEF Snapshot, Verdict, Seen, Kept, Verdicts
<1>4. CASE s.kind # "open"
  <2>1. ASSUME NEW x \in Numbers \cup {0}, NEW k \in {"draft", "gone"}
        PROVE  [NoPR EXCEPT !.number = x, !.kind = k] \in Kept
    <3>1. ASSUME NEW p \in Kept PROVE [p EXCEPT !.number = x, !.kind = k] \in Kept
      BY DEF Kept, PRKinds
    <3> QED
      BY <1>1, <3>1
  <2>2. last.number \in Numbers \cup {0}
    BY DEF Kept
  <2> QED
    BY <1>1, <1>2, <1>4, <2>1, <2>2 DEF Snapshot
<1> QED
  BY <1>3, <1>4

LEMMA SleepIsStop ==
  ASSUME NEW s \in Stops, NEW t \in Int PROVE [s EXCEPT !.pc = "sleep", !.since = t] \in Stops
BY DEF Stops

LEMMA NextTypes == HooksTypes /\ [HooksNext]_hooksVars => HooksTypes'
<1> SUFFICES ASSUME HooksTypes, [HooksNext]_hooksVars PROVE HooksTypes'
  OBVIOUS
<1> USE DEF HooksTypes
<1>0. Chunk \in Nat /\ WatchMax \in Nat
  BY HooksAssumption
<1>1. NoPR \in Kept /\ NoFile \in Files /\ NoNote \in Hooks /\ NoStop \in Stops
  <2>1. NoPR \in Kept
    BY DEF NoPR, Kept
  <2>2. NoFile \in Files
    BY <2>1 DEF NoFile, Never, Files
  <2>3. NoNote \in Hooks
    BY <2>2 DEF NoNote, Hooks
  <2> QED
    BY <2>1, <2>2, <2>3 DEF NoStop, Stops
<1>2. CASE Tick
  BY <1>2 DEF Tick
<1>3. CASE PullRequestChanges
  BY <1>3 DEF PullRequestChanges, PRs
<1>4. CASE UserPrompts
  BY <1>4 DEF UserPrompts
<1>5. CASE SessionInits
  BY <1>1, <1>5 DEF SessionInits, Files
<1>6. ASSUME NEW n \in Notifiers, Notify(n) PROVE HooksTypes'
  <2>1. CASE NotifyStarts(n)
    <3>1. [NoNote EXCEPT !.pc = "read", !.state = file, !.at = now] \in Hooks
      <4>1. now \in Int
        OBVIOUS
      <4> QED
        BY <1>1, <4>1 DEF Hooks
    <3> QED
      BY <1>6, <2>1, <3>1 DEF NotifyStarts
  <2>2. CASE NotifyFails(n)
    BY <1>1, <2>2 DEF NotifyFails
  <2>3. CASE NotifyReads(n)
    <3>1. PICK s \in MayRead(pr) :
             notes' = [notes EXCEPT ![n].pc = "write", ![n].snap = s, ![n].news = News(notes[n].state.last, s)]
      BY <2>3 DEF NotifyReads
    <3>2. s \in Seen
      BY DEF MayRead, Seen, PRs
    <3>3. News(notes[n].state.last, s) \in SUBSET Tidings
      BY <3>2 DEF News, MergeNews, CiNews, Tidings, Seen, Verdicts, Problems
    <3>4. notes' \in [Notifiers -> Hooks]
      BY <1>6, <3>1, <3>2, <3>3 DEF Hooks
    <3> QED
      BY <2>3, <3>4 DEF NotifyReads
  <2>4. CASE NotifyPersists(n)
    <3>1. notes[n].snap \in Seen \cup {NoPR} /\ notes[n].state \in Files /\ notes[n].at \in Int
      BY DEF Hooks
    <3>2. notes[n].snap.kind = "open" => notes[n].snap \in Seen
      BY <3>1 DEF NoPR
    <3>3. Snapshot(notes[n].state.last, notes[n].snap) \in Kept
      BY <1>6, <3>1, SnapshotIsKept DEF Files
    <3>4. heard' \in Beliefs
      <4>1. heard' \in {heard, NothingHeard, [merge |-> notes[n].snap.merge, ci |-> notes[n].snap.ci]}
        BY <2>4 DEF NotifyPersists
      <4>2. heard' = [merge |-> notes[n].snap.merge, ci |-> notes[n].snap.ci] =>
              notes[n].snap.kind = "open" \/ heard' = heard \/ heard' = NothingHeard
        BY <2>4 DEF NotifyPersists
      <4> QED
        BY <3>2, <4>1, <4>2 DEF Beliefs, Seen, NothingHeard
    <3>5. file' \in Files
      BY <2>4, <3>1, <3>3 DEF NotifyPersists, Files
    <3>6. notes' \in [Notifiers -> Hooks]
      BY <1>1, <2>4 DEF NotifyPersists, Hooks
    <3> QED
      BY <2>4, <3>4, <3>5, <3>6 DEF NotifyPersists
  <2>5. CASE NotifyTells(n)
    <3> DEFINE s == notes[n].snap
    <3>1. s.merge \in Merges \cup {"none"} /\ s.ci \in Verdicts \cup {"none", "unreadable"}
      <4>1. s \in Seen \cup {NoPR}
        BY <1>6 DEF Hooks
      <4> QED
        BY <4>1 DEF Seen, NoPR
    <3>2. "mergeable" \in Merges
      BY DEF Merges
    <3>3. heard' \in Beliefs
      BY <2>5, <3>1, <3>2 DEF NotifyTells, Beliefs
    <3> QED
      BY <1>1, <2>5, <3>3 DEF NotifyTells
  <2>6. CASE NotifyIsKilled(n)
    BY <1>1, <2>6 DEF NotifyIsKilled
  <2> QED
    BY <1>6, <2>1, <2>2, <2>3, <2>4, <2>5, <2>6 DEF Notify
<1>7. CASE StopFires
  BY <1>1, <1>7 DEF StopFires, Stops
<1>8. CASE StopReads
  <2>1. PICK s \in MayRead(pr) :
          \/ /\ s.kind # "open" \/ (~Actionable(s) /\ s.ci # "running")
             /\ Allow /\ UNCHANGED <<file, heldSince>>
          \/ s.kind = "open" /\ Actionable(s) /\ Block /\ UNCHANGED <<file, heldSince>>
          \/ /\ s.kind = "open" /\ ~Actionable(s) /\ s.ci = "running"
             /\ LET watch == IF file.watch = Never THEN now ELSE file.watch
                IN  IF now - watch >= WatchMax THEN Allow /\ UNCHANGED <<file, heldSince>>
                    ELSE /\ file' = IF file.watch = Never THEN WatchFrom(now) ELSE file
                         /\ Sleep([stop EXCEPT !.number = s.number, !.watch = watch, !.chunkEnd = now + Chunk])
                         /\ heldSince' = IF heldSince = Never THEN now ELSE heldSince
                         /\ UNCHANGED agent
    BY <1>8 DEF StopReads
  <2>2. s.number \in Numbers
    BY DEF MayRead, PRs
  <2>3. UNCHANGED <<now, pr, notes, changes, heard, started, clean>>
    BY <1>8 DEF StopReads
  <2>4. file' \in Files /\ heldSince' \in Int /\ agent' \in {"working", "stopping", "idle"}
    BY <2>1 DEF Allow, Block, WatchFrom, Files
  <2>5. stop' \in Stops
    <3>1. CASE stop' = NoStop
      BY <1>1, <3>1
    <3>2. CASE \E w \in Int : Sleep([stop EXCEPT !.number = s.number, !.watch = w, !.chunkEnd = now + Chunk])
      <4>1. PICK w \in Int : Sleep([stop EXCEPT !.number = s.number, !.watch = w, !.chunkEnd = now + Chunk])
        BY <3>2
      <4>2. now + Chunk \in Int /\ now \in Int
        BY <1>0
      <4>3. [stop EXCEPT !.number = s.number, !.watch = w, !.chunkEnd = now + Chunk] \in Stops
        BY <2>2, <4>2 DEF Stops
      <4> QED
        BY <4>1, <4>2, <4>3, SleepIsStop DEF Sleep
    <3>3. file.watch \in Int
      BY DEF Files
    <3>4. CASE stop' # NoStop
      <4> DEFINE watch == IF file.watch = Never THEN now ELSE file.watch
      <4>1. watch \in Int
        BY <3>3
      <4>2. Sleep([stop EXCEPT !.number = s.number, !.watch = watch, !.chunkEnd = now + Chunk])
        BY <2>1, <3>4 DEF Allow, Block
      <4> QED
        BY <3>2, <4>1, <4>2
    <3> QED
      BY <3>1, <3>4
  <2> QED
    BY <2>3, <2>4, <2>5
<1>9. CASE StopReadFails
  BY <1>1, <1>9 DEF StopReadFails, Allow
<1>10. CASE StopPolls
  <2>1. UNCHANGED <<now, pr, notes, changes, heard, heldSince, started, clean>>
    BY <1>10 DEF StopPolls
  <2>2. GoesOnWatching \/ ((Allow \/ Block) /\ UNCHANGED file)
    BY <1>10 DEF StopPolls
  <2> QED
    <3>1. CASE Sleep(stop) /\ UNCHANGED <<agent, file>>
      <4>1. now \in Int
        OBVIOUS
      <4> QED
        BY <2>1, <3>1, <4>1, SleepIsStop DEF Sleep
    <3>2. CASE ~ (Sleep(stop) /\ UNCHANGED <<agent, file>>)
      <4>1. stop.watch \in Int /\ file.watch \in Int
        BY DEF Stops, Files
      <4>2. file' \in Files
        BY <2>2, <3>2, <4>1 DEF GoesOnWatching, Files
      <4> QED
        BY <1>1, <2>1, <2>2, <3>2, <4>2 DEF GoesOnWatching, Allow, Block
    <3> QED
      BY <3>1, <3>2
<1>11. CASE StopIsKilled
  BY <1>1, <1>11 DEF StopIsKilled, Allow, Block
<1>12. CASE UNCHANGED hooksVars
  BY <1>12 DEF hooksVars
<1> QED
  BY <1>2, <1>3, <1>4, <1>5, <1>6, <1>7, <1>8, <1>9, <1>10, <1>11, <1>12 DEF HooksNext

LEMMA InitWatch == HooksInit => WatchInv
<1> SUFFICES ASSUME HooksInit PROVE WatchInv
  OBVIOUS
<1>1. HooksTypes
  BY InitTypes
<1> QED
  BY <1>1 DEF WatchInv, StopIsAlone, WatchIsKept, SleepIsShort, HooksInit, NoFile, NoStop, NoNote, Never

\* A stop that goes through or is blocked.
LEMMA StopOver ==
  ASSUME WatchInv, HooksTypes', stop' = NoStop, agent' \in {"idle", "working"},
         UNCHANGED <<now, notes, heldSince, started>>,
         file'.created = file.created, started => file'.watch = heldSince
  PROVE  WatchInv'
BY DEF WatchInv, StopIsAlone, WatchIsKept, SleepIsShort, NoStop

LEMMA NextWatch == WatchInv /\ [HooksNext]_hooksVars => WatchInv'
<1> SUFFICES ASSUME WatchInv, [HooksNext]_hooksVars PROVE WatchInv'
  OBVIOUS
<1>0. /\ HooksTypes /\ HooksTypes' /\ now \in Nat /\ file.watch \in Int /\ heldSince \in Int
      /\ stop.since \in Int /\ stop.watch \in Int /\ WatchMax \in Nat
  BY NextTypes, HooksAssumption DEF WatchInv, HooksTypes, Stops, Files
<1>1. StopIsAlone /\ WatchIsKept /\ SleepIsShort
  BY DEF WatchInv
<1> USE DEF StopIsAlone, WatchIsKept, SleepIsShort
<1>2. CASE Tick
  BY <1>0, <1>1, <1>2 DEF Tick, WatchInv
<1>3. CASE PullRequestChanges
  BY <1>0, <1>1, <1>3 DEF PullRequestChanges, WatchInv
<1>4. CASE UserPrompts
  BY <1>0, <1>1, <1>4 DEF UserPrompts, WatchInv
<1>5. CASE SessionInits
  BY <1>0, <1>1, <1>5 DEF SessionInits, WatchInv
<1>6. ASSUME NEW n \in Notifiers, Notify(n) PROVE WatchInv'
  <2>1. stop = NoStop /\ stop' = NoStop
    <3>1. notes[n] # NoNote \/ agent = "working"
      <4>1. NoNote.pc = "idle"
        BY DEF NoNote
      <4> QED
        BY <1>6, <4>1 DEF Notify, NotifyStarts, NotifyFails, NotifyReads, NotifyPersists, NotifyTells, NotifyIsKilled
    <3> QED
      BY <1>1, <1>6, <3>1 DEF Notify, NotifyStarts, NotifyFails, NotifyReads, NotifyPersists, NotifyTells, NotifyIsKilled
  <2>2. NoStop.pc # "sleep"
    BY DEF NoStop
  <2>3. UNCHANGED <<heldSince, started>>
    BY <1>6 DEF Notify, NotifyStarts, NotifyFails, NotifyReads, NotifyPersists, NotifyTells, NotifyIsKilled
  <2>4. notes \in [Notifiers -> Hooks]
    BY <1>0 DEF HooksTypes
  <2>5. ASSUME started
        PROVE  /\ file'.created /\ file'.watch = heldSince
               /\ \A k \in Notifiers : notes'[k] # NoNote => notes'[k].state.created /\ notes'[k].state.watch = heldSince
    <3>1. CASE NotifyStarts(n)
      <4>1. notes'[n].state = file
        BY <2>4, <3>1 DEF NotifyStarts, NoNote
      <4>2. \A k \in Notifiers : k # n => notes'[k] = notes[k]
        BY <2>4, <3>1 DEF NotifyStarts
      <4> QED
        BY <1>1, <2>5, <3>1, <4>1, <4>2 DEF NotifyStarts
    <3>2. CASE NotifyReads(n)
      <4>1. notes'[n].state = notes[n].state /\ notes[n] # NoNote
        BY <2>4, <3>2 DEF NotifyReads, NoNote, Hooks
      <4>2. \A k \in Notifiers : k # n => notes'[k] = notes[k]
        BY <2>4, <3>2 DEF NotifyReads
      <4> QED
        BY <1>1, <2>5, <3>2, <4>1, <4>2 DEF NotifyReads
    <3>3. CASE NotifyPersists(n)
      <4>1. notes'[n] = NoNote \/ notes'[n].state = notes[n].state
        BY <2>4, <3>3 DEF NotifyPersists, Hooks
      <4>2. \A k \in Notifiers : k # n => notes'[k] = notes[k]
        BY <2>4, <3>3 DEF NotifyPersists
      <4>3. notes[n] # NoNote
        BY <3>3 DEF NotifyPersists, NoNote
      <4>4. file'.created = notes[n].state.created /\ file'.watch = notes[n].state.watch
        <5>1. notes[n].state \in Files
          BY <1>6, <2>4 DEF Hooks
        <5> QED
          BY <3>3, <5>1 DEF NotifyPersists, Files
      <4> QED
        BY <1>1, <2>5, <4>1, <4>2, <4>3, <4>4
    <3>4. CASE NotifyFails(n) \/ NotifyTells(n) \/ NotifyIsKilled(n)
      BY <1>1, <2>4, <2>5, <3>4 DEF NotifyFails, NotifyTells, NotifyIsKilled
    <3> QED
      BY <1>6, <3>1, <3>2, <3>3, <3>4 DEF Notify
  <2> QED
    BY <1>0, <2>1, <2>2, <2>3, <2>5 DEF WatchInv
<1>7. CASE StopFires
  BY <1>0, <1>1, <1>7 DEF StopFires, WatchInv, NoStop
<1>8. CASE StopReads
  <2>1. UNCHANGED <<now, notes, started>>
    BY <1>8 DEF StopReads
  <2>2. CASE (Allow \/ Block) /\ UNCHANGED <<file, heldSince>>
    BY <1>0, <1>1, <2>1, <2>2, StopOver DEF Allow, Block
  <2>3. CASE ~((Allow \/ Block) /\ UNCHANGED <<file, heldSince>>)
    <3> DEFINE watch == IF file.watch = Never THEN now ELSE file.watch
    <3>1. PICK k :
            /\ ~(now - watch >= WatchMax)
            /\ file' = IF file.watch = Never THEN WatchFrom(now) ELSE file
            /\ Sleep([stop EXCEPT !.number = k, !.watch = watch, !.chunkEnd = now + Chunk])
            /\ heldSince' = IF heldSince = Never THEN now ELSE heldSince
            /\ UNCHANGED agent
      BY <1>8, <2>3 DEF StopReads
    <3>2. watch \in Int
      BY <1>0
    <3>3. now < watch + WatchMax
      BY <1>0, <3>1, <3>2
    <3>4. stop'.pc = "sleep" /\ stop'.since = now /\ stop'.watch = watch
      <4>1. stop \in Stops
        BY <1>0 DEF HooksTypes
      <4> QED
        BY <3>1, <4>1 DEF Sleep, Stops
    <3>5. file'.created = file.created /\ file'.watch = watch
      <4>1. file \in Files
        BY <1>0 DEF HooksTypes
      <4> QED
        BY <3>1, <4>1 DEF WatchFrom, Files
    <3>6. stop # NoStop
      BY <1>8 DEF StopReads, NoStop
    <3>7. started => heldSince' = watch
      BY <1>1, <3>1
    <3> HIDE DEF watch
    <3>8. now <= now + 1
      BY <1>0
    <3> QED
      BY <1>0, <1>1, <2>1, <3>1, <3>3, <3>4, <3>5, <3>6, <3>7, <3>8 DEF WatchInv
  <2> QED
    BY <2>2, <2>3
<1>9. CASE StopReadFails
  BY <1>0, <1>1, <1>9, StopOver DEF StopReadFails, Allow
<1>10. CASE StopPolls
  <2>1. UNCHANGED <<now, notes, heldSince, started>> /\ stop.pc = "sleep" /\ stop # NoStop
    BY <1>10 DEF StopPolls, NoStop
  <2>2. GoesOnWatching \/ ((Allow \/ Block) /\ UNCHANGED file)
    BY <1>10 DEF StopPolls
  <2>3. CASE Sleep(stop) /\ UNCHANGED <<agent, file>> /\ now < Deadline
    <3>1. stop'.pc = "sleep" /\ stop'.since = now /\ stop'.watch = stop.watch
      <4>1. stop \in Stops
        BY <1>0 DEF HooksTypes
      <4> QED
        BY <2>3, <4>1 DEF Sleep, Stops
    <3>2. now <= now + 1
      BY <1>0
    <3> QED
      BY <1>0, <1>1, <2>1, <2>3, <3>1, <3>2 DEF WatchInv, Deadline
  <2>4. CASE (Allow \/ Block) /\ file' = [file EXCEPT !.watch = IF @ = Never THEN stop.watch ELSE @]
    <3>1. file'.created = file.created /\ file'.watch = IF file.watch = Never THEN stop.watch ELSE file.watch
      <4>1. file \in Files
        BY <1>0 DEF HooksTypes
      <4> QED
        BY <2>4, <4>1 DEF Files
    <3> QED
      BY <1>0, <1>1, <2>1, <2>4, <3>1, StopOver DEF Allow, Block
  <2>5. CASE (Allow \/ Block) /\ UNCHANGED file
    BY <1>0, <1>1, <2>1, <2>5, StopOver DEF Allow, Block
  <2> QED
    BY <2>2, <2>3, <2>4, <2>5 DEF GoesOnWatching
<1>11. CASE StopIsKilled
  BY <1>0, <1>1, <1>11, StopOver DEF StopIsKilled, Allow, Block
<1>12. CASE UNCHANGED hooksVars
  BY <1>0, <1>1, <1>12 DEF hooksVars, WatchInv
<1> QED
  BY <1>2, <1>3, <1>4, <1>5, <1>6, <1>7, <1>8, <1>9, <1>10, <1>11, <1>12 DEF HooksNext

\* No stop is held for CI once WATCH_MAX_MS has passed since the first one was,
\* for any budget, chunk and interval and any number of hooks at once.
THEOREM WatchStaysBounded == HooksSpec => []WatchIsBounded
<1>1. ASSUME WatchInv PROVE WatchIsBounded
  <2>1. now \in Nat /\ stop.since \in Int /\ heldSince \in Int /\ WatchMax \in Nat
    BY <1>1, HooksAssumption DEF WatchInv, HooksTypes, Stops
  <2> QED
    BY <1>1, <2>1 DEF WatchInv, SleepIsShort, WatchIsBounded
<1> QED
  BY InitWatch, NextWatch, <1>1, PTL DEF HooksSpec

\* What the agent believes when the news of a read has been told is what is kept.
LEMMA NewsSuffice ==
  ASSUME NEW last \in Kept, Blank(last), NEW s \in Seen, NEW h \in Beliefs, Known(last, h),
         NEW g, g = IF last.kind # "open" THEN NothingHeard ELSE h,
         s.kind = "open", last.number = s.number
  PROVE  Known(Snapshot(last, s), Heard(g, News(last, s), s))
<1>1. /\ Snapshot(last, s).kind = "open" /\ Snapshot(last, s).merge = s.merge
      /\ Snapshot(last, s).ci = Verdict(s.ci)
  BY DEF Snapshot, Seen
<1>2. News(last, s) = MergeNews(last, s) \cup CiNews(last, s)
  BY DEF News
<1>3. g \in Beliefs /\ s.merge \in Merges /\ s.ci \in Verdicts \cup {"unreadable"}
  BY DEF NothingHeard, Beliefs, Seen
<1>4. /\ last.merge \notin Problems => g.merge \notin Problems
      /\ last.merge \in Problems => g.merge = last.merge
      /\ last.ci \in {"passed", "failed"} => g.ci = last.ci
  BY DEF Blank, Known, NothingHeard, Problems
<1> DEFINE n == News(last, s)
           f == Heard(g, n, s)
<1>5. /\ f.merge = IF n \cap Problems # {} THEN s.merge
                   ELSE IF "mergeable again" \in n THEN "mergeable" ELSE g.merge
      /\ f.ci = IF n \cap {"passed", "failed", "running again"} # {} THEN s.ci ELSE g.ci
  BY <1>3 DEF Heard, Beliefs
<1>6. /\ s.merge \in Problems => f.merge = s.merge
      /\ s.merge \notin Problems => f.merge \notin Problems
  <2>1. CiNews(last, s) \subseteq {"passed", "failed", "running again"}
    BY DEF CiNews
  <2>2. CiNews(last, s) \cap Problems = {} /\ "mergeable again" \notin CiNews(last, s)
    BY <2>1 DEF Problems
  <2>3. CASE last.merge = s.merge
    <3>1. MergeNews(last, s) = {}
      BY <2>3 DEF MergeNews
    <3> QED
      BY <1>2, <1>4, <1>5, <2>2, <2>3, <3>1
  <2>4. CASE last.merge # s.merge /\ s.merge \in Problems
    <3>1. MergeNews(last, s) = {s.merge}
      BY <2>4 DEF MergeNews
    <3> QED
      BY <1>2, <1>5, <2>4, <3>1
  <2>5. CASE last.merge # s.merge /\ s.merge \notin Problems
    <3>1. MergeNews(last, s) = IF last.merge \in Problems THEN {"mergeable again"} ELSE {}
      BY <2>5 DEF MergeNews
    <3>2. "mergeable" \notin Problems /\ "mergeable again" \notin Problems
      BY DEF Problems
    <3> QED
      BY <1>2, <1>4, <1>5, <2>2, <2>5, <3>1, <3>2
  <2> QED
    BY <2>3, <2>4, <2>5
<1>7. Verdict(s.ci) \in {"passed", "failed"} => f.ci = Verdict(s.ci)
  <2>1. MergeNews(last, s) \cap {"passed", "failed", "running again"} = {}
    BY DEF MergeNews, Problems
  <2> SUFFICES ASSUME s.ci \in {"passed", "failed"} PROVE f.ci = s.ci
    BY DEF Verdict
  <2>2. CASE last.ci = s.ci
    <3>1. CiNews(last, s) = {}
      BY <2>2 DEF CiNews, Verdict
    <3> QED
      BY <1>2, <1>4, <1>5, <2>1, <2>2, <3>1
  <2>3. CASE last.ci # s.ci
    <3>1. CiNews(last, s) = {s.ci}
      BY <2>3 DEF CiNews, Verdict
    <3> QED
      BY <1>2, <1>5, <3>1
  <2> QED
    BY <2>2, <2>3
<1> QED
  BY <1>1, <1>6, <1>7 DEF Known

\* The first sight of a pull request is what the agent takes for known.
LEMMA BaselineIsKnown ==
  ASSUME NEW last \in Kept, NEW s \in Seen, s.kind = "open"
  PROVE  Known(Snapshot(last, s), [merge |-> s.merge, ci |-> s.ci])
BY DEF Known, Snapshot, Verdict, Seen

LEMMA SnapshotIsBlank ==
  ASSUME NEW last \in Kept, NEW s \in Seen
  PROVE  Blank(Snapshot(last, s)) /\ (s.kind # "open" => Snapshot(last, s).kind # "open")
<1>1. CASE s.kind = "open"
  BY <1>1 DEF Snapshot, Blank, Seen
<1>2. CASE s.kind # "open"
  BY <1>2 DEF Snapshot, Blank, NoPR
<1> QED
  BY <1>1, <1>2

LEMMA NothingNew == ASSUME NEW h \in Beliefs, NEW s PROVE Heard(h, {}, s) = h
BY DEF Heard, Beliefs

LEMMA InitKnown == HooksInit => KnownInv
<1> SUFFICES ASSUME HooksInit PROVE KnownInv
  OBVIOUS
<1>1. HooksTypes
  BY InitTypes
<1>2. NoNote.pc = "idle" /\ NoNote.state.last = NoPR /\ NoPR.kind = "none" /\ Blank(NoPR)
  BY DEF NoNote, NoFile, NoPR, Blank
<1>3. file.last = NoPR /\ \A n \in Notifiers : notes[n] = NoNote
  BY DEF HooksInit, NoFile
<1> QED
  BY <1>1, <1>2, <1>3 DEF KnownInv, NoteIsSound, Known

LEMMA NextKnown == KnownInv /\ [HooksNext]_hooksVars => KnownInv'
<1> SUFFICES ASSUME KnownInv, [HooksNext]_hooksVars PROVE KnownInv'
  OBVIOUS
<1>0. HooksTypes /\ HooksTypes' /\ notes \in [Notifiers -> Hooks] /\ file \in Files /\ heard \in Beliefs
  BY NextTypes DEF KnownInv, HooksTypes
<1>1. NoNote.pc = "idle" /\ NoNote.state.last = NoPR /\ NoPR.kind = "none" /\ Blank(NoPR)
  BY DEF NoNote, NoFile, NoPR, Blank
<1>2. ASSUME UNCHANGED <<notes, heard, clean>>, file'.last = file.last \/ file'.last = NoPR PROVE KnownInv'
  BY <1>0, <1>1, <1>2 DEF KnownInv, NoteIsSound, Known
<1>3. CASE Tick \/ PullRequestChanges \/ UserPrompts \/ StopFires \/ StopReadFails \/ StopIsKilled \/ UNCHANGED hooksVars
  BY <1>2, <1>3 DEF Tick, PullRequestChanges, UserPrompts, StopFires, StopReadFails, StopIsKilled, hooksVars
<1>4. CASE SessionInits
  <2>1. file'.last = file.last \/ file'.last = NoPR
    BY <1>4 DEF SessionInits, NoFile
  <2> QED
    BY <1>2, <1>4, <2>1 DEF SessionInits
<1>5. CASE StopReads \/ StopPolls
  <2>1. file' = file \/ \E w : file' = [file EXCEPT !.watch = w]
    BY <1>5 DEF StopReads, StopPolls, GoesOnWatching, Allow, Block, Sleep, WatchFrom
  <2>2. file'.last = file.last
    BY <1>0, <2>1 DEF Files
  <2> QED
    BY <1>2, <1>5, <2>2 DEF StopReads, StopPolls
<1>6. ASSUME NEW n \in Notifiers, Notify(n) PROVE KnownInv'
  <2> DEFINE last == notes[n].state.last
             s == notes[n].snap
  <2>1. last \in Kept /\ Blank(last) /\ Blank(file.last)
    BY <1>0, <1>6 DEF KnownInv, Hooks, Files
  <2>2. CASE NotifyStarts(n)
    <3>1. /\ notes'[n].pc = "read" /\ notes'[n].state = file
          /\ \A k \in Notifiers : k # n => notes'[k] = notes[k]
      BY <1>0, <2>2 DEF NotifyStarts, NoNote
    <3>2. UNCHANGED <<file, heard>> /\ clean' = (clean /\ \A m \in Notifiers : notes[m] = NoNote)
      BY <2>2 DEF NotifyStarts
    <3> QED
      BY <1>0, <1>1, <3>1, <3>2 DEF KnownInv, NoteIsSound
  <2>3. CASE NotifyFails(n) \/ NotifyIsKilled(n)
    <3>1. notes' = [notes EXCEPT ![n] = NoNote] /\ UNCHANGED <<file, heard>>
      BY <2>3 DEF NotifyFails, NotifyIsKilled
    <3>2. clean' => clean /\ notes[n].pc # "tell" /\ notes[n] # NoNote
      BY <1>1, <2>3 DEF NotifyFails, NotifyIsKilled
    <3>3. notes[n].pc \in {"idle", "read", "write", "tell"}
      BY <1>0, <1>6 DEF Hooks
    <3>4. clean' => Known(file.last, heard)
      BY <1>6, <3>2, <3>3 DEF KnownInv, NoteIsSound
    <3>5. notes'[n] = NoNote /\ \A k \in Notifiers : k # n => notes'[k] = notes[k]
      BY <1>0, <3>1
    <3>6. clean' \in BOOLEAN
      BY <1>0 DEF HooksTypes
    <3> QED
      BY <1>0, <1>1, <3>1, <3>2, <3>4, <3>5, <3>6 DEF KnownInv, NoteIsSound
  <2>4. CASE NotifyReads(n)
    <3>1. PICK r \in MayRead(pr) :
             notes' = [notes EXCEPT ![n].pc = "write", ![n].snap = r, ![n].news = News(notes[n].state.last, r)]
      BY <2>4 DEF NotifyReads
    <3>2. r \in Seen
      <4>1. pr \in PRs
        BY <1>0 DEF HooksTypes
      <4> QED
        BY <4>1 DEF MayRead, Seen, PRs
    <3>3. /\ notes'[n].pc = "write" /\ notes'[n].snap = r /\ notes'[n].state = notes[n].state
          /\ notes'[n].news = News(last, r)
          /\ \A k \in Notifiers : k # n => notes'[k] = notes[k]
      BY <1>0, <1>6, <3>1 DEF Hooks
    <3>4. notes[n].pc = "read" /\ notes[n] # NoNote /\ UNCHANGED <<file, heard, clean>>
      BY <1>1, <2>4 DEF NotifyReads
    <3> QED
      BY <1>0, <1>1, <1>6, <3>2, <3>3, <3>4 DEF KnownInv, NoteIsSound
  <2>5. CASE NotifyPersists(n)
    <3>1. notes[n].pc = "write" /\ notes[n] # NoNote /\ UNCHANGED clean
      BY <1>1, <2>5 DEF NotifyPersists
    <3>2. /\ file'.last = Snapshot(last, s)
          /\ heard' = IF s.kind # "open" THEN heard
                      ELSE IF last.number # s.number THEN [merge |-> s.merge, ci |-> s.ci]
                      ELSE IF last.kind # "open" THEN NothingHeard ELSE heard
      <4>1. notes[n].state \in Files
        BY <1>0, <1>6 DEF Hooks
      <4> QED
        BY <2>5, <4>1 DEF NotifyPersists, Files
    <3>3. /\ notes'[n] = IF notes[n].news = {} THEN NoNote ELSE [notes[n] EXCEPT !.pc = "tell"]
          /\ \A k \in Notifiers : k # n => notes'[k] = notes[k]
      BY <1>0, <2>5 DEF NotifyPersists
    <3>4. Blank(file'.last) /\ Blank(notes'[n].state.last)
      <4>1. s \in Seen \cup {NoPR}
        BY <1>0, <1>6 DEF Hooks
      <4>2. Blank(Snapshot(last, s))
        BY <1>1, <2>1, <4>1, SnapshotIsBlank DEF Snapshot, Blank, NoPR
      <4>3. notes'[n].state = NoNote.state \/ notes'[n].state = notes[n].state
        BY <1>0, <1>6, <3>3 DEF Hooks
      <4> QED
        BY <1>1, <2>1, <3>2, <4>2, <4>3
    <3>5. ASSUME clean
          PROVE  /\ s \in Seen /\ notes[n].news = News(last, s)
                 /\ Known(file'.last, Heard(heard', notes[n].news, s))
      <4>1. s \in Seen /\ notes[n].news = News(last, s) /\ Known(last, heard)
        BY <1>6, <3>1, <3>5 DEF KnownInv, NoteIsSound
      <4>2. CASE s.kind # "open"
        BY <2>1, <3>2, <4>1, <4>2, SnapshotIsBlank DEF Known
      <4>3. CASE s.kind = "open" /\ last.number # s.number
        <5>1. News(last, s) = {}
          BY <4>3 DEF News
        <5>2. heard' \in Beliefs
          BY <1>0 DEF HooksTypes
        <5> QED
          BY <2>1, <3>2, <4>1, <4>3, <5>1, <5>2, BaselineIsKnown, NothingNew
      <4>4. CASE s.kind = "open" /\ last.number = s.number
        <5>1. heard' = IF last.kind # "open" THEN NothingHeard ELSE heard
          BY <3>2, <4>4
        <5> QED
          BY <1>0, <2>1, <3>2, <4>1, <4>4, <5>1, NewsSuffice
      <4> QED
        BY <4>1, <4>2, <4>3, <4>4
    <3>6. CASE notes[n].news = {}
      <4>1. notes'[n] = NoNote
        BY <3>3, <3>6
      <4>2. heard' \in Beliefs
        BY <1>0 DEF HooksTypes
      <4>3. clean => Known(file'.last, heard')
        BY <3>5, <3>6, <4>2, NothingNew
      <4> QED
        BY <1>0, <1>1, <1>6, <3>1, <3>3, <3>4, <4>1, <4>3 DEF KnownInv, NoteIsSound
    <3>7. CASE notes[n].news # {}
      <4>1. /\ notes'[n].pc = "tell" /\ notes'[n].snap = s /\ notes'[n].news = notes[n].news
        BY <1>0, <1>6, <3>3, <3>7 DEF Hooks
      <4>2. notes'[n] # NoNote
        BY <1>1, <4>1
      <4> QED
        BY <1>0, <1>1, <1>6, <3>1, <3>3, <3>4, <3>5, <4>1, <4>2 DEF KnownInv, NoteIsSound
    <3> QED
      BY <3>6, <3>7
  <2>6. CASE NotifyTells(n)
    <3>1. notes[n].pc = "tell" /\ notes[n] # NoNote /\ UNCHANGED <<file, clean>>
      BY <1>1, <2>6 DEF NotifyTells
    <3>2. heard' = Heard(heard, notes[n].news, s)
      BY <2>6 DEF NotifyTells, Heard
    <3>3. notes'[n] = NoNote /\ \A k \in Notifiers : k # n => notes'[k] = notes[k]
      BY <1>0, <2>6 DEF NotifyTells
    <3>4. clean => Known(file.last, heard')
      BY <1>6, <3>1, <3>2 DEF KnownInv, NoteIsSound
    <3> QED
      BY <1>0, <1>1, <1>6, <3>1, <3>3, <3>4 DEF KnownInv, NoteIsSound
  <2> QED
    BY <1>6, <2>2, <2>3, <2>4, <2>5, <2>6 DEF Notify
<1> QED
  BY <1>3, <1>4, <1>5, <1>6 DEF HooksNext

\* What the state file holds for known the agent knows, for any number of
\* notifiers, pull requests and changes, as long as notifiers do not overlap and
\* none is killed with news to tell.
THEOREM AgentStaysUpToDate == HooksSpec => []TheAgentIsUpToDate
<1>1. ASSUME KnownInv PROVE TheAgentIsUpToDate
  <2>1. "mergeable" \notin Problems
    BY DEF Problems
  <2> QED
    BY <1>1, <2>1 DEF KnownInv, Known, TheAgentIsUpToDate
<1> QED
  BY InitKnown, NextKnown, <1>1, PTL DEF HooksSpec

-----------------------------------------------------------------------------
(* Lists *)

\* A set of numbers has a least one.
LEMMA LeastNat ==
    ASSUME NEW S \in SUBSET Nat, S # {}
    PROVE  \E m \in S : \A k \in S : m <= k
<1>1. \E m \in S : \A k \in S : ~ (<<k, m>> \in OpToRel(<, Nat))
  BY WFMin, NatLessThanWellFounded, Zenon
<1>2. PICK m \in S : \A k \in S : ~ (<<k, m>> \in OpToRel(<, Nat))
  BY <1>1
<1>3. \A k \in S : ~ (k < m)
  BY <1>2 DEF OpToRel
<1> QED
  BY <1>3

\* A set of numbers up to n has a greatest one.
LEMMA GreatestBelow ==
    ASSUME NEW n \in Nat, NEW S \in SUBSET (0..n), S # {}
    PROVE  \E m \in S : \A k \in S : k <= m
<1> DEFINE D == {d \in 0..n : n - d \in S}
<1>1. D \in SUBSET Nat /\ D # {}
  <2>1. PICK k \in S : TRUE
    OBVIOUS
  <2>2. k \in 0..n
    OBVIOUS
  <2>3. n - k \in 0..n /\ n - (n - k) = k
    BY <2>2
  <2>4. n - k \in D
    BY <2>3
  <2>5. \A d \in D : d \in Nat
    OBVIOUS
  <2> HIDE DEF D
  <2> QED
    BY <2>4, <2>5
<1>2. PICK d \in D : \A e \in D : d <= e
  BY <1>1, LeastNat
<1>3. \A k \in S : n - k \in D
  <2> TAKE k \in S
  <2>1. n - k \in 0..n /\ n - (n - k) = k
    OBVIOUS
  <2> QED
    BY <2>1
<1>4. n - d \in S /\ \A k \in S : k <= n - d
  BY <1>2, <1>3
<1> QED
  BY <1>4

\* The first and the last of the positions of a list.
LEMMA FirstOf ==
    ASSUME NEW S \in SUBSET Nat, S # {}
    PROVE  First(S) \in S /\ \A j \in S : First(S) <= j
BY LeastNat DEF First

\* And the last of them.
LEMMA LatestOf ==
    ASSUME NEW n \in Nat, NEW S \in SUBSET (1..n), S # {}
    PROVE  Latest(S) \in S /\ \A j \in S : Latest(S) >= j
<1>1. S \in SUBSET (0..n)
  OBVIOUS
<1>2. \E m \in S : \A k \in S : k <= m
  BY <1>1, GreatestBelow
<1>3. \E m \in S : \A k \in S : m >= k
  <2>1. PICK m \in S : \A k \in S : k <= m
    BY <1>2
  <2>2. \A k \in S : m >= k
    BY <2>1
  <2> QED
    BY <2>2
<1> QED
  BY <1>3 DEF Latest

\* What Those computes, up to each position of the list.
Filtered(f, s, S) ==
    f = [n \in 0..Len(s) |->
            IF n = 0 THEN <<>> ELSE IF s[n] \in S THEN Append(f[n - 1], s[n]) ELSE f[n - 1]]

\* The part of it that goes up to m.
FilteredTo(g, s, S, m) ==
    /\ DOMAIN g = 0..m /\ g[0] = <<>>
    /\ \A n \in 1..m : g[n] = IF s[n] \in S THEN Append(g[n - 1], s[n]) ELSE g[n - 1]

\* What is computed position by position exists.
LEMMA FilterExists ==
    ASSUME NEW A, NEW s \in Seq(A), NEW S
    PROVE  \E f : Filtered(f, s, S)
<1> DEFINE D == {m \in 0..Len(s) : ~ \E g : FilteredTo(g, s, S, m)}
<1>1. D = {}
  <2>1. SUFFICES ASSUME D # {} PROVE FALSE
    OBVIOUS
  <2>2. PICK d \in D : \A e \in D : d <= e
    <3>1. D \in SUBSET Nat
      OBVIOUS
    <3> HIDE DEF D
    <3> QED
      BY <2>1, <3>1, LeastNat
  <2>3. d # 0
    <3>1. FilteredTo([n \in 0..0 |-> <<>>], s, S, 0)
      BY DEF FilteredTo
    <3> QED
      BY <3>1, <2>2
  <2>4. d - 1 \in 0..Len(s) /\ d - 1 \notin D
    BY <2>2, <2>3
  <2>5. PICK g : FilteredTo(g, s, S, d - 1)
    BY <2>4
  <2> DEFINE h == [n \in 0..d |-> IF n = d THEN (IF s[d] \in S THEN Append(g[d - 1], s[d]) ELSE g[d - 1])
                                  ELSE g[n]]
  <2>6. FilteredTo(h, s, S, d)
    <3>1. DOMAIN h = 0..d /\ h[0] = <<>>
      BY <2>3, <2>4, <2>5 DEF FilteredTo
    <3>2. ASSUME NEW n \in 1..d
          PROVE  h[n] = IF s[n] \in S THEN Append(h[n - 1], s[n]) ELSE h[n - 1]
      <4>1. CASE n = d
        BY <4>1, <2>4
      <4>2. CASE n # d
        <5>1. n \in 1..(d - 1) /\ n - 1 \in 0..d /\ n - 1 # d
          BY <4>2, <2>4
        <5>2. h[n] = g[n] /\ h[n - 1] = g[n - 1]
          BY <5>1
        <5>3. g[n] = IF s[n] \in S THEN Append(g[n - 1], s[n]) ELSE g[n - 1]
          BY <5>1, <2>5 DEF FilteredTo
        <5> QED
          BY <5>2, <5>3
      <4> QED
        BY <4>1, <4>2
    <3> HIDE DEF h
    <3> QED
      BY <3>1, <3>2 DEF FilteredTo
  <2> HIDE DEF h
  <2> QED
    BY <2>2, <2>6
<1>2. Len(s) \in 0..Len(s)
  OBVIOUS
<1>3. PICK g : FilteredTo(g, s, S, Len(s))
  BY <1>1, <1>2
<1> DEFINE f == [n \in 0..Len(s) |-> g[n]]
<1>4. ASSUME NEW n \in 0..Len(s)
      PROVE  f[n] = IF n = 0 THEN <<>> ELSE IF s[n] \in S THEN Append(f[n - 1], s[n]) ELSE f[n - 1]
  <2>1. CASE n = 0
    BY <2>1, <1>3 DEF FilteredTo
  <2>2. CASE n # 0
    <3>1. n \in 1..Len(s) /\ n - 1 \in 0..Len(s)
      BY <2>2
    <3>2. g[n] = IF s[n] \in S THEN Append(g[n - 1], s[n]) ELSE g[n - 1]
      BY <3>1, <1>3 DEF FilteredTo
    <3> QED
      BY <3>1, <3>2, <2>2
  <2> QED
    BY <2>1, <2>2
<1>5. Filtered(f, s, S)
  <2> HIDE DEF f
  <2>1. DOMAIN f = 0..Len(s) /\ f = [n \in 0..Len(s) |-> f[n]]
    BY DEF f
  <2> QED
    BY <1>4, <2>1 DEF Filtered
<1> QED
  BY <1>5

\* What is left of a list are elements of it, all of those that are in S.
LEMMA ThoseOf ==
    ASSUME NEW A, NEW s \in Seq(A), NEW S
    PROVE  Those(s, S) \in Seq(A \cap S)
<1> DEFINE f == CHOOSE f : Filtered(f, s, S)
<1>1. Filtered(f, s, S)
  BY FilterExists, Zenon
<1>2. Those(s, S) = f[Len(s)]
  BY DEF Those, Filtered
<1> HIDE DEF f
<1> DEFINE D == {m \in 0..Len(s) : f[m] \notin Seq(A \cap S)}
<1>3. D = {}
  <2>1. SUFFICES ASSUME D # {} PROVE FALSE
    OBVIOUS
  <2>2. PICK d \in D : \A e \in D : d <= e
    <3>1. D \in SUBSET Nat
      OBVIOUS
    <3> HIDE DEF D
    <3> QED
      BY <2>1, <3>1, LeastNat
  <2>3. d # 0
    BY <1>1, <2>2 DEF Filtered
  <2>4. d - 1 \in 0..Len(s) /\ d - 1 \notin D /\ d \in 1..Len(s)
    BY <2>2, <2>3
  <2>5. f[d - 1] \in Seq(A \cap S) /\ s[d] \in A
    BY <2>4
  <2>6. f[d] = IF s[d] \in S THEN Append(f[d - 1], s[d]) ELSE f[d - 1]
    BY <1>1, <2>3, <2>4 DEF Filtered
  <2>7. f[d] \in Seq(A \cap S)
    BY <2>5, <2>6
  <2> QED
    BY <2>2, <2>7
<1> QED
  BY <1>2, <1>3

-----------------------------------------------------------------------------
(* Comments, threads and tasks *)

\* Who writes comments, and what: all texts, and those of the agent's replies to a task.
People == {"reviewer", Me}
Texts  == Suggestions \cup Answers \cup Messages
OwnTexts   == {"done", "doneApplied", "question"}

\* When a comment was written, and how often GitHub gave it a new id since.
CommentIds == Nat \X Nat

\* Who writes what.
Sayings == {c \in [born : Nat, gen : Nat, by : People, text : Texts] :
               c.text \in Messages <=> c.by = Me}

\* Reviewers edit their suggestions, and nothing else.
Lasting(c) == IF c.text \in Suggestions THEN <<c.by, None>> ELSE Words(c)

\* w: the words of every comment that there was (words), the time (stamp), the
\* replies of the agent (authored) and the words that it was shown (told).
Comments(w) ==
    {c \in Sayings : /\ c.born \in 1..w.stamp /\ w.words[c.born] = Lasting(c)
                     /\ c.text \in OwnTexts <=> c.born \in w.authored}

\* Only the root of a thread has a suggestion.
Replies(w) == {c \in Comments(w) : c.text \notin Suggestions}

\* Threads: what follows the root are replies.
Nodes(w) ==
    {n \in [id : Nat, line : Lines, comments : Seq(Comments(w)),
            resolved : BOOLEAN, ok : BOOLEAN, mine : BOOLEAN] :
        \A j \in 2..Len(n.comments) : n.comments[j] \in Replies(w)}

\* What a task may be.
Statuses == {"UNRESOLVED", "BLOCKED", "STALE", "RESOLVED"}

\* The types of its fields.
TaskFields(w) ==
    [thread : Nat, line : Lines, conv : CommentIds, aliases : SUBSET CommentIds,
     leading : SUBSET CommentIds, replies : Seq(Replies(w)), own : Seq(Replies(w)),
     dead : SUBSET Nat, by : People, born : Nat, text : Texts, suggests : BOOLEAN,
     applied : Texts \cup {None}, seenText : Texts \cup {None}, seen : SUBSET CommentIds,
     blocked : BOOLEAN, baseline : SUBSET CommentIds, replied : BOOLEAN, upstream : BOOLEAN,
     listed : BOOLEAN, fresh : BOOLEAN, status : Statuses]

\* A reply that the agent was shown the words of, or posted itself.
HeardOf(id, w) == id[1] \in 1..w.stamp /\ (w.words[id[1]] \in w.told \/ id[1] \in w.authored)

\* A comment that replied to another.
Followed(id, w) == id[1] \in 1..w.stamp /\ w.words[id[1]][2] # None

\* What counts as seen, or known when the agent asked, was heard; and what leads a thread whose root was deleted had
\* followed another comment.
Tasks(w) ==
    {t \in TaskFields(w) :
        /\ t.suggests => t.text \in Suggestions
        /\ \A id \in t.seen \cup t.baseline : HeardOf(id, w)
        /\ \A id \in t.leading : Followed(id, w)}

\* The time goes on: comments are added, and more of them are shown.
Grows(w, v) ==
    /\ w.stamp \in Nat /\ v.stamp \in Nat /\ w.stamp <= v.stamp /\ w.told \subseteq v.told
    /\ \A b \in 1..w.stamp : v.words[b] = w.words[b] /\ (b \in v.authored <=> b \in w.authored)

\* Lists over a larger set.
LEMMA SeqGrows ==
    ASSUME NEW A, NEW B, A \subseteq B
    PROVE  Seq(A) \subseteq Seq(B)
OBVIOUS

\* A list whose elements are in B.
LEMMA ListOf ==
    \A A, B : \A s \in Seq(A) : (\A j \in 1..Len(s) : s[j] \in B) => s \in Seq(B)
<1>1. ASSUME NEW A, NEW B, NEW s \in Seq(A), \A j \in 1..Len(s) : s[j] \in B
      PROVE  s \in Seq(B)
  <2>1. s \in [1..Len(s) -> B] /\ Len(s) \in Nat
    BY <1>1
  <2> QED
    BY <2>1
<1> QED
  BY <1>1

\* What is a comment stays one,
LEMMA CommentsGrow ==
    ASSUME NEW w, NEW v, Grows(w, v)
    PROVE  Comments(w) \subseteq Comments(v) /\ Replies(w) \subseteq Replies(v)
<1>1. ASSUME NEW c \in Comments(w)
      PROVE  c \in Comments(v)
  <2>1. c \in Sayings /\ c.born \in 1..w.stamp
    BY DEF Comments
  <2>2. c.born \in 1..v.stamp
    BY <2>1 DEF Grows
  <2> QED
    BY <2>1, <2>2 DEF Comments, Grows
<1> QED
  BY <1>1 DEF Replies

\* so do threads,
LEMMA NodesGrow ==
    ASSUME NEW w, NEW v, Grows(w, v)
    PROVE  Nodes(w) \subseteq Nodes(v)
<1>1. Comments(w) \subseteq Comments(v) /\ Replies(w) \subseteq Replies(v)
  BY CommentsGrow
<1>2. Seq(Comments(w)) \subseteq Seq(Comments(v))
  BY <1>1, SeqGrows
<1> QED
  BY <1>1, <1>2 DEF Nodes

\* and tasks.
LEMMA TasksGrow ==
    ASSUME NEW w, NEW v, Grows(w, v)
    PROVE  Tasks(w) \subseteq Tasks(v)
<1>1. Seq(Replies(w)) \subseteq Seq(Replies(v))
  BY CommentsGrow, SeqGrows
<1>2. TaskFields(w) \subseteq TaskFields(v)
  BY <1>1 DEF TaskFields
<1>3. ASSUME NEW id, HeardOf(id, w)
      PROVE  HeardOf(id, v)
  <2>1. id[1] \in 1..w.stamp /\ id[1] \in 1..v.stamp
    BY <1>3 DEF HeardOf, Grows
  <2> QED
    BY <1>3, <2>1 DEF HeardOf, Grows
<1>4. ASSUME NEW id, Followed(id, w)
      PROVE  Followed(id, v)
  <2>1. id[1] \in 1..w.stamp /\ id[1] \in 1..v.stamp
    BY <1>4 DEF Followed, Grows
  <2> QED
    BY <1>4, <2>1 DEF Followed, Grows
<1> QED
  BY <1>2, <1>3, <1>4 DEF Tasks

\* A task with one other field is a task.
LEMMA OneField ==
    ASSUME NEW w, NEW t \in TaskFields(w)
    PROVE  /\ \A x \in Nat : [t EXCEPT !.thread = x] \in TaskFields(w)
           /\ \A x \in Lines : [t EXCEPT !.line = x] \in TaskFields(w)
           /\ \A x \in CommentIds : [t EXCEPT !.conv = x] \in TaskFields(w)
           /\ \A x \in SUBSET CommentIds : [t EXCEPT !.aliases = x] \in TaskFields(w)
           /\ \A x \in SUBSET CommentIds : [t EXCEPT !.leading = x] \in TaskFields(w)
           /\ \A x \in Seq(Replies(w)) : [t EXCEPT !.replies = x] \in TaskFields(w)
           /\ \A x \in Seq(Replies(w)) : [t EXCEPT !.own = x] \in TaskFields(w)
           /\ \A x \in SUBSET Nat : [t EXCEPT !.dead = x] \in TaskFields(w)
           /\ \A x \in People : [t EXCEPT !.by = x] \in TaskFields(w)
           /\ \A x \in Nat : [t EXCEPT !.born = x] \in TaskFields(w)
           /\ \A x \in Texts : [t EXCEPT !.text = x] \in TaskFields(w)
           /\ \A x \in BOOLEAN : [t EXCEPT !.suggests = x] \in TaskFields(w)
           /\ \A x \in Texts \cup {None} : [t EXCEPT !.applied = x] \in TaskFields(w)
           /\ \A x \in Texts \cup {None} : [t EXCEPT !.seenText = x] \in TaskFields(w)
           /\ \A x \in SUBSET CommentIds : [t EXCEPT !.seen = x] \in TaskFields(w)
           /\ \A x \in BOOLEAN : [t EXCEPT !.blocked = x] \in TaskFields(w)
           /\ \A x \in SUBSET CommentIds : [t EXCEPT !.baseline = x] \in TaskFields(w)
           /\ \A x \in BOOLEAN : [t EXCEPT !.replied = x] \in TaskFields(w)
           /\ \A x \in BOOLEAN : [t EXCEPT !.upstream = x] \in TaskFields(w)
           /\ \A x \in BOOLEAN : [t EXCEPT !.listed = x] \in TaskFields(w)
           /\ \A x \in BOOLEAN : [t EXCEPT !.fresh = x] \in TaskFields(w)
           /\ \A x \in Statuses : [t EXCEPT !.status = x] \in TaskFields(w)
BY DEF TaskFields

\* A status leaves what the agent said, heard and wrote.
LEMMA SetStatusKeeps ==
    ASSUME NEW w, NEW t \in Tasks(w), NEW s \in Statuses
    PROVE  /\ SetStatus(t, s) \in Tasks(w)
           /\ SetStatus(t, s).applied = t.applied /\ SetStatus(t, s).replies = t.replies
           /\ SetStatus(t, s).status = s /\ SetStatus(t, s).text = t.text
<1> DEFINE u1 == [t EXCEPT !.status = s]
           u2 == [u1 EXCEPT !.blocked = t.blocked /\ s \in {"BLOCKED", "STALE"}]
           u3 == [u2 EXCEPT !.baseline = IF s \in {"BLOCKED", "STALE"} THEN t.baseline ELSE {}]
           u4 == [u3 EXCEPT !.replied = t.replied /\ s # "RESOLVED"]
<1>0. t \in TaskFields(w)
  BY DEF Tasks
<1>1. u1 \in TaskFields(w)
  BY <1>0, OneField
<1>2. u2 \in TaskFields(w)
  <2> HIDE DEF u1
  <2> QED
    BY <1>1, OneField
<1>3. u3 \in TaskFields(w)
  <2> HIDE DEF u2
  <2>1. (IF s \in {"BLOCKED", "STALE"} THEN t.baseline ELSE {}) \in SUBSET CommentIds
    BY <1>0 DEF TaskFields
  <2> QED
    BY <1>2, <2>1, OneField
<1>4. u4 \in TaskFields(w)
  <2> HIDE DEF u3
  <2> QED
    BY <1>3, OneField
<1>5. SetStatus(t, s) = u4
  BY <1>0 DEF SetStatus, TaskFields
<1>6. /\ u4.seen = t.seen /\ u4.baseline \subseteq t.baseline /\ u4.leading = t.leading
      /\ u4.suggests = t.suggests /\ u4.text = t.text /\ u4.applied = t.applied
      /\ u4.replies = t.replies /\ u4.status = s
  BY <1>0 DEF TaskFields
<1> HIDE DEF u4
<1> QED
  BY <1>4, <1>5, <1>6 DEF Tasks

\* So does a task that is opened again.
LEMMA ReopenedKeeps ==
    ASSUME NEW w, NEW t \in Tasks(w), NEW b \in BOOLEAN
    PROVE  Reopened(t, b) \in Tasks(w) /\ Reopened(t, b).applied = t.applied
           /\ Reopened(t, b).replies = t.replies
BY SetStatusKeeps DEF Reopened, Statuses

\* A reply is known by the time it was written.
LEMMA WordsOfReplies ==
    ASSUME NEW w, NEW c \in Replies(w)
    PROVE  w.words[c.born] = Words(c) /\ c.born \in 1..w.stamp /\ Id(c) \in CommentIds /\ Id(c)[1] = c.born
BY DEF Replies, Comments, Lasting, Words, Id, CommentIds, Sayings

\* It followed another comment,
LEMMA RepliesFollow ==
    ASSUME NEW w, NEW c \in Replies(w)
    PROVE  Followed(Id(c), w)
<1>1. c.text # None
  BY ReviewAssumption DEF Replies, Comments, Sayings, Texts, Messages, None
<1> QED
  BY <1>1, WordsOfReplies DEF Followed, Words

\* and what did so is a reply: no suggestion.
LEMMA FollowersReply ==
    ASSUME NEW w, NEW c \in Comments(w), Followed(Id(c), w)
    PROVE  c \in Replies(w)
<1>1. Id(c)[1] = c.born
  BY DEF Id
<1> QED
  BY <1>1 DEF Followed, Replies, Comments, Lasting

\* The root of a thread, and its replies.
LEMMA NodeParts ==
    ASSUME NEW w, NEW n \in Nodes(w), n.comments # <<>>
    PROVE  /\ Head(n.comments) \in Comments(w) /\ Tail(n.comments) \in Seq(Replies(w))
           /\ ConversationId(n) \in CommentIds /\ n.comments = <<Head(n.comments)>> \o Tail(n.comments)
<1> DEFINE cs == n.comments
<1>1. cs \in Seq(Comments(w)) /\ Len(cs) \in Nat /\ \A j \in 2..Len(cs) : cs[j] \in Replies(w)
  BY DEF Nodes
<1>2. cs # <<>>
  OBVIOUS
<1> HIDE DEF cs
<1>3. Head(cs) \in Comments(w)
  BY <1>1, <1>2
<1>4. Len(Tail(cs)) = Len(cs) - 1 /\ Tail(cs) \in Seq(Comments(w)) /\ \A j \in 1..Len(Tail(cs)) : Tail(cs)[j] = cs[j + 1]
  BY <1>1, <1>2
<1>5. ASSUME NEW j \in 1..Len(Tail(cs)) PROVE Tail(cs)[j] \in Replies(w)
  <2>1. j + 1 \in 2..Len(cs)
    BY <1>1, <1>4
  <2> QED
    BY <1>1, <1>4, <2>1
<1>6. Tail(cs) \in Seq(Replies(w))
  BY <1>4, <1>5, ListOf
<1>7. Id(Head(cs)) \in CommentIds
  BY <1>3 DEF Id, CommentIds, Comments, Sayings
<1>8. cs = <<Head(cs)>> \o Tail(cs)
  BY <1>1, <1>2
<1> QED
  BY <1>3, <1>6, <1>7, <1>8 DEF cs, ConversationId

\* A new task.
LEMMA CreateTaskTypes ==
    ASSUME NEW w, NEW n \in Nodes(w), n.comments # <<>>
    PROVE  CreateTask(n) \in Tasks(w) /\ CreateTask(n).applied = None
<1> DEFINE root == Head(n.comments)
           rs == Tail(n.comments)
           cv == ConversationId(n)
<1>1. /\ root \in Comments(w) /\ rs \in Seq(Replies(w)) /\ cv \in CommentIds
  BY NodeParts
<1>2. root.by \in People /\ root.born \in Nat /\ root.text \in Texts /\ (root.text \in Suggestions) \in BOOLEAN
  BY <1>1 DEF Comments, Sayings
<1>3. n.id \in Nat /\ n.line \in Lines /\ n.resolved \in BOOLEAN
  BY DEF Nodes
<1> HIDE DEF root, rs, cv
<1>5. <<>> \in Seq(Replies(w)) /\ None \in Texts \cup {None}
  OBVIOUS
<1> DEFINE st == IF n.resolved THEN "RESOLVED" ELSE "UNRESOLVED"
           u == [thread |-> n.id, line |-> n.line, conv |-> cv, aliases |-> {},
         leading |-> {}, replies |-> rs, own |-> <<>>, dead |-> {},
         by |-> root.by, born |-> root.born, text |-> root.text,
         suggests |-> root.text \in Suggestions, applied |-> None, seenText |-> None,
         seen |-> {}, blocked |-> FALSE, baseline |-> {}, replied |-> FALSE,
         upstream |-> n.resolved, listed |-> TRUE, fresh |-> FALSE,
         status |-> st]
<1>4. CreateTask(n) = u
  BY DEF CreateTask, root, rs, cv, None
<1>6. st \in Statuses
  BY DEF Statuses
<1> HIDE DEF st
<1>7. u \in TaskFields(w)
  BY <1>1, <1>2, <1>3, <1>5, <1>6 DEF TaskFields
<1>8. u \in Tasks(w) /\ u.applied = None
  BY <1>7 DEF Tasks
<1> QED
  BY <1>4, <1>8

-----------------------------------------------------------------------------
(* What the agent hears of *)

\* The ids of a list of replies.
LEMMA IdsOf ==
    ASSUME NEW w, NEW rs \in Seq(Replies(w))
    PROVE  /\ ToSet(rs) \subseteq Replies(w) /\ Ids(ToSet(rs)) \subseteq CommentIds
           /\ \A c \in ToSet(rs) : Id(c) \in Ids(ToSet(rs))
<1>1. ToSet(rs) \subseteq Replies(w)
  BY DEF ToSet
<1>2. \A c \in Replies(w) : Id(c) \in CommentIds
  BY WordsOfReplies
<1> QED
  BY <1>1, <1>2 DEF Ids

\* Two replies of the same words are both heard or both not.
LEMMA HeardByWords ==
    ASSUME NEW w, NEW c \in Replies(w), NEW d \in Replies(w), Words(c) = Words(d), HeardOf(Id(c), w)
    PROVE  HeardOf(Id(d), w)
<1>1. /\ w.words[c.born] = Words(c) /\ c.born \in 1..w.stamp /\ Id(c)[1] = c.born
      /\ w.words[d.born] = Words(d) /\ d.born \in 1..w.stamp /\ Id(d)[1] = d.born
  BY WordsOfReplies
<1>2. /\ c.text \in OwnTexts <=> c.born \in w.authored
      /\ d.text \in OwnTexts <=> d.born \in w.authored
  BY DEF Replies, Comments
<1>3. c.text = d.text
  BY DEF Words
<1> QED
  BY <1>1, <1>2, <1>3 DEF HeardOf

\* When GitHub replaced a thread, no reply that was not heard is taken for one
\* that was (carryReplyIds).
LEMMA CarryKeeps ==
    ASSUME NEW w, NEW ids \in SUBSET CommentIds, \A id \in ids : HeardOf(id, w),
           NEW before \in SUBSET Replies(w), NEW after \in Seq(Replies(w))
    PROVE  /\ CarryReplyIds(ids, before, after) \in SUBSET CommentIds
           /\ \A id \in CarryReplyIds(ids, before, after) : HeardOf(id, w)
<1> DEFINE gone == {c \in before : Id(c) \in ids \ Ids(ToSet(after))}
           new  == {m \in DOMAIN after : Id(after[m]) \notin ids}
           Alike(m) == {k \in new : k <= m /\ Words(after[k]) = Words(after[m])}
           Wanted(m) == {c \in gone : Words(c) = Words(after[m])}
           kept == {k \in new : Cardinality(Alike(k)) <= Cardinality(Wanted(k))}
<1>1. CarryReplyIds(ids, before, after) = (ids \cap Ids(ToSet(after))) \cup {Id(after[m]) : m \in kept}
  BY DEF CarryReplyIds
<1>2. \A m \in DOMAIN after : after[m] \in Replies(w) /\ Id(after[m]) \in CommentIds
  BY WordsOfReplies
<1>3. ASSUME NEW m \in kept
      PROVE  HeardOf(Id(after[m]), w)
  <2>1. IsFiniteSet(Alike(m))
    <3>0. Len(after) \in Int /\ 1 \in Int
      OBVIOUS
    <3>2. IsFiniteSet(1..Len(after))
      BY <3>0, FS_Interval
    <3>1. IsFiniteSet(1..Len(after)) /\ Alike(m) \subseteq 1..Len(after)
      BY <3>2
    <3> QED
      BY <3>1, FS_Subset
  <2>2. m \in Alike(m)
    <3>1. m \in 1..Len(after) /\ m \in new
      OBVIOUS
    <3> QED
      BY <3>1
  <2> DEFINE al == Alike(m)
  <2>3. Cardinality(al) \in Nat /\ Cardinality(al) # 0
    <3>1. IsFiniteSet(al) /\ m \in al
      BY <2>1, <2>2
    <3> HIDE DEF al
    <3>2. Cardinality(al) \in Nat /\ (Cardinality(al) = 0 <=> al = {})
      BY <3>1, FS_CardinalityType, FS_EmptySet
    <3> QED
      BY <3>1, <3>2
  <2>4. Cardinality(al) <= Cardinality(Wanted(m))
    OBVIOUS
  <2>5. Wanted(m) # {}
    <3> DEFINE wa == Wanted(m)
    <3>0. Cardinality(al) <= Cardinality(wa)
      BY <2>4
    <3> HIDE DEF al, wa
    <3>1. SUFFICES ASSUME wa = {} PROVE FALSE
      BY DEF wa
    <3>2. Cardinality(wa) = 0
      BY <3>1, FS_EmptySet
    <3> QED
      BY <3>0, <3>2, <2>3
  <2>6. PICK c \in before : Id(c) \in ids /\ Words(c) = Words(after[m])
    BY <2>5
  <2>7. after[m] \in Replies(w) /\ c \in Replies(w)
    BY <1>2
  <2> QED
    BY <2>6, <2>7, HeardByWords
<1> HIDE DEF kept
<1>4. kept \subseteq DOMAIN after
  BY DEF kept
<1> QED
  BY <1>1, <1>2, <1>3, <1>4

\* A deleted root leaves a thread that a reply heads.
LEMMA HeadReplies ==
    ASSUME NEW w, NEW t \in Tasks(w), NEW n \in Nodes(w), n.comments # <<>>, RootDeleted(t, n)
    PROVE  Head(n.comments) \in Replies(w) /\ n.comments \in Seq(Replies(w))
<1> DEFINE root == Head(n.comments)
<1>0. root \in Comments(w) /\ Tail(n.comments) \in Seq(Replies(w)) /\ n.comments = <<root>> \o Tail(n.comments)
  BY NodeParts
<1>1. t.replies \in Seq(Replies(w)) /\ t.leading \subseteq CommentIds /\ \A id \in t.leading : Followed(id, w)
  BY DEF Tasks, TaskFields
<1>2. n.comments[1] = root
  BY DEF Nodes
<1> HIDE DEF root
<1>3. CASE Id(root) \in t.leading
  BY <1>0, <1>1, <1>3, FollowersReply
<1>4. CASE Id(root) \in Ids(ToSet(t.replies))
  <2>1. PICK c \in ToSet(t.replies) : Id(c) = Id(root)
    BY <1>4 DEF Ids
  <2>2. c \in Replies(w)
    BY <1>1, <2>1 DEF ToSet
  <2>3. Followed(Id(root), w)
    BY <2>1, <2>2, RepliesFollow
  <2> QED
    BY <1>0, <2>3, FollowersReply
<1>5. CASE ContinuesReplies(n, t.replies)
  <2>1. 1 \in DOMAIN t.replies /\ t.replies[1] \in Replies(w)
    BY <1>1, <1>5 DEF ContinuesReplies
  <2>2. CASE Id(t.replies[1]) = Id(root)
    <3>1. Followed(Id(root), w)
      BY <2>1, <2>2, RepliesFollow
    <3> QED
      BY <1>0, <3>1, FollowersReply
  <2>3. CASE Words(t.replies[1]) = Words(root)
    BY <1>0, <2>1, <2>3 DEF Words, Replies
  <2> QED
    BY <1>2, <1>5, <2>1, <2>2, <2>3 DEF ContinuesReplies
<1>6. root \in Replies(w)
  BY <1>3, <1>4, <1>5 DEF RootDeleted, ConversationId, root
<1>7. n.comments \in Seq(Replies(w))
  <2> DEFINE tl == Tail(n.comments)
  <2>1. tl \in Seq(Replies(w)) /\ <<root>> \in Seq(Replies(w)) /\ n.comments = <<root>> \o tl
    BY <1>0, <1>6
  <2> HIDE DEF tl
  <2> QED
    BY <2>1
<1> QED
  BY <1>6, <1>7 DEF root

\* A set with an element has a cardinality above none, if it is finite.
LEMMA SomeAreNotNone ==
    ASSUME NEW S, NEW T, NEW x \in S, IsFiniteSet(S), Cardinality(S) <= Cardinality(T)
    PROVE  T # {}
<1>1. Cardinality(S) \in Nat /\ (Cardinality(S) = 0 <=> S = {})
  BY FS_CardinalityType, FS_EmptySet
<1>2. SUFFICES ASSUME T = {} PROVE FALSE
  OBVIOUS
<1>3. Cardinality(T) = 0
  BY <1>2, FS_EmptySet
<1> QED
  BY <1>1, <1>3

\* A reply that a list shows while it is being posted is the agent's own.
LEMMA PendingKeeps ==
    ASSUME NEW w, NEW t \in Tasks(w), NEW pending, \A p \in pending : p.text \in OwnTexts, NEW known
    PROVE  /\ PendingReplies(t, pending, known) \in SUBSET CommentIds
           /\ \A id \in PendingReplies(t, pending, known) : HeardOf(id, w)
<1> DEFINE rs == t.replies
           mine == {m \in DOMAIN rs : /\ known => rs[m].by = Me
                                      /\ Id(rs[m]) \notin t.seen}
           Alike(m) == {k \in mine : k >= m /\ rs[k].text = rs[m].text}
           Expected(m) == {p \in pending : p.text = rs[m].text}
           kept == {k \in mine : Cardinality(Alike(k)) <= Cardinality(Expected(k))}
<1>1. PendingReplies(t, pending, known) = {Id(rs[m]) : m \in kept}
  BY DEF PendingReplies
<1>2. rs \in Seq(Replies(w))
  BY DEF Tasks, TaskFields
<1> HIDE DEF rs
<1>3. \A m \in DOMAIN rs : m \in Int /\ rs[m] \in Replies(w) /\ Id(rs[m]) \in CommentIds
  BY <1>2, WordsOfReplies
<1>4. ASSUME NEW m \in kept
      PROVE  HeardOf(Id(rs[m]), w)
  <2> DEFINE al == Alike(m)
             ex == Expected(m)
  <2>1. IsFiniteSet(al)
    <3>0. Len(rs) \in Int /\ 1 \in Int
      BY <1>2
    <3>2. IsFiniteSet(1..Len(rs))
      BY <3>0, FS_Interval
    <3>1. IsFiniteSet(1..Len(rs)) /\ al \subseteq 1..Len(rs)
      BY <1>2, <3>2
    <3> QED
      BY <3>1, FS_Subset
  <2>2. m \in al
    BY <1>3
  <2>3. Cardinality(al) <= Cardinality(ex)
    OBVIOUS
  <2>4. ex # {}
    <3> HIDE DEF al, ex
    <3> QED
      BY <2>1, <2>2, <2>3, SomeAreNotNone
  <2>5. rs[m].text \in OwnTexts
    BY <2>4
  <2>6. rs[m] \in Replies(w)
    BY <1>3
  <2>7. rs[m].born \in w.authored /\ rs[m].born \in 1..w.stamp /\ Id(rs[m])[1] = rs[m].born
    BY <2>5, <2>6, WordsOfReplies DEF Replies, Comments
  <2> QED
    BY <2>7 DEF HeardOf
<1> HIDE DEF kept
<1>5. kept \subseteq DOMAIN rs
  BY DEF kept
<1> QED
  BY <1>1, <1>3, <1>4, <1>5

\* Replies that were heard may count as seen.
LEMMA RecordKeeps ==
    ASSUME NEW w, NEW t \in Tasks(w), NEW ids \in SUBSET CommentIds, \A id \in ids : HeardOf(id, w)
    PROVE  /\ RecordOwnReplies(t, ids) \in Tasks(w)
           /\ RecordOwnReplies(t, ids).applied = t.applied
           /\ RecordOwnReplies(t, ids).replies = t.replies
           /\ RecordOwnReplies(t, ids).status = t.status
<1> DEFINE b  == IF t.blocked THEN t.baseline \cup ids ELSE t.baseline
           u1 == [t EXCEPT !.seen = t.seen \cup ids]
           u2 == [u1 EXCEPT !.baseline = b]
<1>0. t \in TaskFields(w) /\ t.seen \in SUBSET CommentIds /\ t.baseline \in SUBSET CommentIds
  BY DEF Tasks, TaskFields
<1>1. u1 \in TaskFields(w)
  BY <1>0, OneField
<1>2. u2 \in TaskFields(w)
  <2>1. b \in SUBSET CommentIds
    BY <1>0
  <2> HIDE DEF u1, b
  <2> QED
    BY <1>1, <2>1, OneField
<1>3. RecordOwnReplies(t, ids) = u2
  BY <1>0 DEF RecordOwnReplies, TaskFields
<1>4. /\ u2.seen = t.seen \cup ids /\ u2.baseline \subseteq t.baseline \cup ids
      /\ u2.leading = t.leading /\ u2.suggests = t.suggests /\ u2.text = t.text
      /\ u2.applied = t.applied /\ u2.replies = t.replies /\ u2.status = t.status
  BY <1>0 DEF TaskFields
<1> HIDE DEF u2
<1> QED
  BY <1>2, <1>3, <1>4 DEF Tasks

\* The replies on their way are the agent's, if they read as what it is posting.
LEMMA TakePendingKeeps ==
    ASSUME NEW w, NEW t \in Tasks(w), NEW pending, \A p \in pending : p.text \in OwnTexts, NEW known
    PROVE  TakePending(t, pending, known) \in Tasks(w) /\ TakePending(t, pending, known).applied = t.applied
BY PendingKeeps, RecordKeeps DEF TakePending

\* The task that takes the comments of a node.
LEMMA RelinkedKeeps ==
    ASSUME NEW w, NEW t \in Tasks(w), NEW n \in Nodes(w), n.comments # <<>>, NEW gone \in BOOLEAN,
           gone => RootDeleted(t, n)
    PROVE  Relinked(t, n, gone) \in Tasks(w) /\ Relinked(t, n, gone).applied = t.applied
<1> DEFINE root  == Head(n.comments)
           conv  == ConversationId(n)
           moved == conv # t.conv /\ ~gone
           lead  == gone /\ conv \notin t.leading
           below == IF gone THEN n.comments ELSE Tail(n.comments)
           before == ToSet(t.replies) \cup ToSet(t.own)
           Carried(ids) == IF t.thread = n.id THEN ids ELSE CarryReplyIds(ids, before, below)
           ns == Carried(t.seen)
           nb == Carried(t.baseline)
           nl == IF lead THEN t.leading \cup {conv} ELSE t.leading
           na == IF lead THEN t.aliases \cup {conv}
                 ELSE IF moved THEN (t.aliases \ {conv}) \cup {t.conv} ELSE t.aliases
           nc == IF moved THEN conv ELSE t.conv
           ny == IF gone THEN t.by ELSE root.by
           no == IF gone THEN t.born ELSE root.born
           nt == IF gone THEN t.text ELSE root.text
           ng == ~gone /\ root.text \in Suggestions
<1>0. /\ t \in TaskFields(w) /\ (t.suggests => t.text \in Suggestions)
      /\ \A id \in t.seen \cup t.baseline : HeardOf(id, w)
      /\ \A id \in t.leading : Followed(id, w)
  BY DEF Tasks
<1>t. /\ t.conv \in CommentIds /\ t.aliases \in SUBSET CommentIds /\ t.leading \in SUBSET CommentIds
      /\ t.replies \in Seq(Replies(w)) /\ t.own \in Seq(Replies(w)) /\ t.by \in People /\ t.born \in Nat
      /\ t.text \in Texts /\ t.seen \in SUBSET CommentIds /\ t.baseline \in SUBSET CommentIds
  <2>0. t \in TaskFields(w)
    BY <1>0
  <2>1. t.conv \in CommentIds /\ t.aliases \in SUBSET CommentIds /\ t.leading \in SUBSET CommentIds
    BY <2>0 DEF TaskFields
  <2>2. t.replies \in Seq(Replies(w)) /\ t.own \in Seq(Replies(w)) /\ t.by \in People /\ t.born \in Nat
    BY <2>0 DEF TaskFields
  <2>3. t.text \in Texts /\ t.seen \in SUBSET CommentIds /\ t.baseline \in SUBSET CommentIds
    BY <2>0 DEF TaskFields
  <2> QED
    BY <2>1, <2>2, <2>3
<1>1. /\ root \in Comments(w) /\ Tail(n.comments) \in Seq(Replies(w)) /\ conv \in CommentIds
  BY NodeParts
<1>2. root.by \in People /\ root.born \in Nat /\ root.text \in Texts
  BY <1>1 DEF Comments, Sayings
<1>3. gone => root \in Replies(w) /\ n.comments \in Seq(Replies(w))
  BY HeadReplies
<1>4. below \in Seq(Replies(w))
  BY <1>1, <1>3
<1>5. before \in SUBSET Replies(w)
  BY <1>t, IdsOf
<1>6. n.id \in Nat /\ n.line \in Lines
  BY DEF Nodes
<1>c. conv = Id(root)
  BY DEF ConversationId
<1> HIDE DEF root, conv, below, before
<1>7. /\ ns \in SUBSET CommentIds /\ \A id \in ns : HeardOf(id, w)
      /\ nb \in SUBSET CommentIds /\ \A id \in nb : HeardOf(id, w)
  BY <1>0, <1>t, <1>4, <1>5, CarryKeeps
<1>8. nl \in SUBSET CommentIds /\ \A id \in nl : Followed(id, w)
  BY <1>0, <1>t, <1>1, <1>3, <1>c, RepliesFollow
<1>9. na \in SUBSET CommentIds /\ nc \in CommentIds
  BY <1>t, <1>1
<1>10. ny \in People /\ no \in Nat /\ nt \in Texts /\ ng \in BOOLEAN /\ (ng => nt \in Suggestions)
  BY <1>t, <1>2
<1> DEFINE v1 == [t EXCEPT !.thread = n.id]
           v2 == [v1 EXCEPT !.line = n.line]
           v3 == [v2 EXCEPT !.replies = below]
           v4 == [v3 EXCEPT !.seen = ns]
           v5 == [v4 EXCEPT !.baseline = nb]
           v6 == [v5 EXCEPT !.leading = nl]
           v7 == [v6 EXCEPT !.aliases = na]
           v8 == [v7 EXCEPT !.conv = nc]
           v9 == [v8 EXCEPT !.by = ny]
           v10 == [v9 EXCEPT !.born = no]
           v11 == [v10 EXCEPT !.text = nt]
           v12 == [v11 EXCEPT !.suggests = ng]
<1>11. Relinked(t, n, gone) = v12
  BY <1>0 DEF Relinked, TaskFields, root, conv, below, before
<1> HIDE DEF ns, nb, nl, na, nc, ny, no, nt, ng
<1>12. v12.seen = ns /\ v12.baseline = nb /\ v12.leading = nl /\ v12.text = nt /\ v12.suggests = ng
       /\ v12.applied = t.applied
  BY <1>0 DEF TaskFields
<1>21. v1 \in TaskFields(w)
  <2>1. t \in TaskFields(w) /\ n.id \in Nat
    BY <1>0, <1>6
  <2> QED
    BY <2>1, OneField
<1> HIDE DEF v1
<1>22. v2 \in TaskFields(w)
  BY <1>21, <1>6, OneField
<1> HIDE DEF v2
<1>23. v3 \in TaskFields(w)
  BY <1>22, <1>4, OneField
<1> HIDE DEF v3
<1>24. v4 \in TaskFields(w)
  BY <1>23, <1>7, OneField
<1> HIDE DEF v4
<1>25. v5 \in TaskFields(w)
  BY <1>24, <1>7, OneField
<1> HIDE DEF v5
<1>26. v6 \in TaskFields(w)
  BY <1>25, <1>8, OneField
<1> HIDE DEF v6
<1>27. v7 \in TaskFields(w)
  BY <1>26, <1>9, OneField
<1> HIDE DEF v7
<1>28. v8 \in TaskFields(w)
  BY <1>27, <1>9, OneField
<1> HIDE DEF v8
<1>29. v9 \in TaskFields(w)
  BY <1>28, <1>10, OneField
<1> HIDE DEF v9
<1>30. v10 \in TaskFields(w)
  BY <1>29, <1>10, OneField
<1> HIDE DEF v10
<1>31. v11 \in TaskFields(w)
  BY <1>30, <1>10, OneField
<1> HIDE DEF v11
<1>32. v12 \in TaskFields(w)
  BY <1>31, <1>10, OneField
<1> HIDE DEF v12
<1>33. v12 \in Tasks(w)
  BY <1>32, <1>12, <1>7, <1>8, <1>10 DEF Tasks
<1> QED
  BY <1>11, <1>12, <1>33

\* A list brings the comments of a task.
LEMMA TakeCommentsKeeps ==
    ASSUME NEW w, NEW t \in Tasks(w), NEW n \in Nodes(w), n.comments # <<>>
    PROVE  TakeComments(t, n) \in Tasks(w) /\ TakeComments(t, n).applied = t.applied
<1> DEFINE g == RootDeleted(t, n)
           r == IsRepost(t, n) /\ t.status = "BLOCKED"
           u == Relinked(t, n, g)
<1>1. g \in BOOLEAN /\ r \in BOOLEAN
  BY DEF RootDeleted, IsRepost
<1>2. TakeComments(t, n) = Reopened(u, r)
  BY DEF TakeComments
<1>3. u \in Tasks(w) /\ u.applied = t.applied
  <2> DEFINE gg == g
  <2>1. gg \in BOOLEAN /\ (gg => RootDeleted(t, n))
    BY <1>1
  <2> HIDE DEF gg
  <2>2. Relinked(t, n, gg) \in Tasks(w) /\ Relinked(t, n, gg).applied = t.applied
    BY <2>1, RelinkedKeeps
  <2> QED
    BY <2>2 DEF gg
<1> HIDE DEF u, r
<1> QED
  BY <1>1, <1>2, <1>3, ReopenedKeeps

\* It says who opened or closed the thread,
LEMMA UpstreamKeeps ==
    ASSUME NEW w, NEW t \in Tasks(w), NEW b \in BOOLEAN
    PROVE  /\ [t EXCEPT !.upstream = b] \in Tasks(w)
           /\ [t EXCEPT !.upstream = b].applied = t.applied /\ [t EXCEPT !.upstream = b].replies = t.replies
<1> DEFINE u == [t EXCEPT !.upstream = b]
<1>0. t \in TaskFields(w)
  BY DEF Tasks
<1>1. u \in TaskFields(w)
  BY <1>0, OneField
<1>2. /\ u.seen = t.seen /\ u.baseline = t.baseline /\ u.leading = t.leading
      /\ u.suggests = t.suggests /\ u.text = t.text /\ u.applied = t.applied
      /\ u.replies = t.replies
  BY <1>0 DEF TaskFields
<1> HIDE DEF u
<1>3. u \in Tasks(w) /\ u.applied = t.applied /\ u.replies = t.replies
  BY <1>1, <1>2 DEF Tasks
<1> QED
  BY <1>3 DEF u

\* and with that the status of the task.
LEMMA TakeStateKeeps ==
    ASSUME NEW w, NEW t \in Tasks(w), NEW n \in Nodes(w), NEW was, NEW predates
    PROVE  TakeState(t, n, was, predates) \in Tasks(w) /\ TakeState(t, n, was, predates).applied = t.applied
<1> DEFINE b == IF predates /\ ~n.resolved THEN t.upstream ELSE n.resolved
           u == [t EXCEPT !.upstream = IF predates /\ ~n.resolved THEN @ ELSE n.resolved]
<1>1. b \in BOOLEAN
  BY DEF Nodes, Tasks, TaskFields
<1>2. u = [t EXCEPT !.upstream = b]
  OBVIOUS
<1> HIDE DEF b
<1>3. u \in Tasks(w) /\ u.applied = t.applied
  BY <1>1, <1>2, UpstreamKeeps
<1> DEFINE r == TakeState(t, n, was, predates)
<1>4. r = u \/ \E s \in Statuses : r = SetStatus(u, s)
  BY DEF TakeState, Statuses
<1> HIDE DEF u, r
<1>5. r \in Tasks(w) /\ r.applied = t.applied
  BY <1>3, <1>4, SetStatusKeeps
<1> QED
  BY <1>5 DEF r

\* The node of a list as the task takes it.
LEMMA UpdatedKeeps ==
    ASSUME NEW w, NEW t \in Tasks(w), NEW n \in Nodes(w), NEW i, NEW ctx,
           \A p \in ctx.pending[i] : p.text \in OwnTexts
    PROVE  /\ ApplyThreadNode(t, n, i, ctx).task \in Tasks(w)
           /\ ApplyThreadNode(t, n, i, ctx).task.applied = t.applied
<1> DEFINE a == IF n.comments = <<>> THEN t
                ELSE TakePending(TakeComments(t, n), ctx.pending[i], ctx.login)
           u == Updated(t, n, i, ctx)
           b == u.status = "BLOCKED" /\ {m \in DOMAIN u.replies : Id(u.replies[m]) \notin u.baseline} # {}
<1>1. a \in Tasks(w) /\ a.applied = t.applied
  BY TakeCommentsKeeps, TakePendingKeeps
<1>2. u = TakeState(a, n, t, t.status = "RESOLVED" /\ (i \in ctx.before \/ t.fresh))
  BY DEF Updated
<1> HIDE DEF a
<1>3. u \in Tasks(w) /\ u.applied = t.applied
  BY <1>1, <1>2, TakeStateKeeps
<1>4. ApplyThreadNode(t, n, i, ctx).task = Reopened(u, b)
  BY DEF ApplyThreadNode, Answered
<1> HIDE DEF u
<1>5. b \in BOOLEAN
  OBVIOUS
<1> HIDE DEF b
<1> QED
  BY <1>3, <1>4, <1>5, ReopenedKeeps

-----------------------------------------------------------------------------
(* The manager's other calls *)

\* Fields that no condition on tasks is about.
LEMMA PlainField ==
    ASSUME NEW w, NEW t \in Tasks(w)
    PROVE  /\ \A x \in SUBSET Nat : [t EXCEPT !.dead = x] \in Tasks(w)
           /\ \A x \in Texts \cup {None} : [t EXCEPT !.seenText = x] \in Tasks(w)
           /\ \A x \in BOOLEAN : [t EXCEPT !.blocked = x] \in Tasks(w)
           /\ \A x \in BOOLEAN : [t EXCEPT !.replied = x] \in Tasks(w)
           /\ \A x \in BOOLEAN : [t EXCEPT !.upstream = x] \in Tasks(w)
           /\ \A x \in BOOLEAN : [t EXCEPT !.listed = x] \in Tasks(w)
           /\ \A x \in BOOLEAN : [t EXCEPT !.fresh = x] \in Tasks(w)
           /\ \A x \in Texts \cup {None} : [t EXCEPT !.applied = x] \in Tasks(w)
<1>0. t \in TaskFields(w)
  BY DEF Tasks
<1>1. ASSUME NEW x \in SUBSET Nat PROVE [t EXCEPT !.dead = x] \in Tasks(w)
  <2> DEFINE u == [t EXCEPT !.dead = x]
  <2>1. u \in TaskFields(w)
    BY <1>0, OneField
  <2>2. /\ u.seen = t.seen /\ u.baseline = t.baseline /\ u.leading = t.leading
        /\ u.suggests = t.suggests /\ u.text = t.text
    BY <1>0 DEF TaskFields
  <2> HIDE DEF u
  <2>3. u \in Tasks(w)
    BY <2>1, <2>2 DEF Tasks
  <2> QED
    BY <2>3 DEF u
<1>2. ASSUME NEW x \in Texts \cup {None} PROVE [t EXCEPT !.seenText = x] \in Tasks(w)
  <2> DEFINE u == [t EXCEPT !.seenText = x]
  <2>1. u \in TaskFields(w)
    BY <1>0, OneField
  <2>2. /\ u.seen = t.seen /\ u.baseline = t.baseline /\ u.leading = t.leading
        /\ u.suggests = t.suggests /\ u.text = t.text
    BY <1>0 DEF TaskFields
  <2> HIDE DEF u
  <2>3. u \in Tasks(w)
    BY <2>1, <2>2 DEF Tasks
  <2> QED
    BY <2>3 DEF u
<1>3. ASSUME NEW x \in BOOLEAN PROVE [t EXCEPT !.blocked = x] \in Tasks(w)
  <2> DEFINE u == [t EXCEPT !.blocked = x]
  <2>1. u \in TaskFields(w)
    BY <1>0, OneField
  <2>2. /\ u.seen = t.seen /\ u.baseline = t.baseline /\ u.leading = t.leading
        /\ u.suggests = t.suggests /\ u.text = t.text
    BY <1>0 DEF TaskFields
  <2> HIDE DEF u
  <2>3. u \in Tasks(w)
    BY <2>1, <2>2 DEF Tasks
  <2> QED
    BY <2>3 DEF u
<1>4. ASSUME NEW x \in BOOLEAN PROVE [t EXCEPT !.replied = x] \in Tasks(w)
  <2> DEFINE u == [t EXCEPT !.replied = x]
  <2>1. u \in TaskFields(w)
    BY <1>0, OneField
  <2>2. /\ u.seen = t.seen /\ u.baseline = t.baseline /\ u.leading = t.leading
        /\ u.suggests = t.suggests /\ u.text = t.text
    BY <1>0 DEF TaskFields
  <2> HIDE DEF u
  <2>3. u \in Tasks(w)
    BY <2>1, <2>2 DEF Tasks
  <2> QED
    BY <2>3 DEF u
<1>5. ASSUME NEW x \in BOOLEAN PROVE [t EXCEPT !.upstream = x] \in Tasks(w)
  <2> DEFINE u == [t EXCEPT !.upstream = x]
  <2>1. u \in TaskFields(w)
    BY <1>0, OneField
  <2>2. /\ u.seen = t.seen /\ u.baseline = t.baseline /\ u.leading = t.leading
        /\ u.suggests = t.suggests /\ u.text = t.text
    BY <1>0 DEF TaskFields
  <2> HIDE DEF u
  <2>3. u \in Tasks(w)
    BY <2>1, <2>2 DEF Tasks
  <2> QED
    BY <2>3 DEF u
<1>6. ASSUME NEW x \in BOOLEAN PROVE [t EXCEPT !.listed = x] \in Tasks(w)
  <2> DEFINE u == [t EXCEPT !.listed = x]
  <2>1. u \in TaskFields(w)
    BY <1>0, OneField
  <2>2. /\ u.seen = t.seen /\ u.baseline = t.baseline /\ u.leading = t.leading
        /\ u.suggests = t.suggests /\ u.text = t.text
    BY <1>0 DEF TaskFields
  <2> HIDE DEF u
  <2>3. u \in Tasks(w)
    BY <2>1, <2>2 DEF Tasks
  <2> QED
    BY <2>3 DEF u
<1>7. ASSUME NEW x \in BOOLEAN PROVE [t EXCEPT !.fresh = x] \in Tasks(w)
  <2> DEFINE u == [t EXCEPT !.fresh = x]
  <2>1. u \in TaskFields(w)
    BY <1>0, OneField
  <2>2. /\ u.seen = t.seen /\ u.baseline = t.baseline /\ u.leading = t.leading
        /\ u.suggests = t.suggests /\ u.text = t.text
    BY <1>0 DEF TaskFields
  <2> HIDE DEF u
  <2>3. u \in Tasks(w)
    BY <2>1, <2>2 DEF Tasks
  <2> QED
    BY <2>3 DEF u
<1>8. ASSUME NEW x \in Texts \cup {None} PROVE [t EXCEPT !.applied = x] \in Tasks(w)
  <2> DEFINE u == [t EXCEPT !.applied = x]
  <2>1. u \in TaskFields(w)
    BY <1>0, OneField
  <2>2. /\ u.seen = t.seen /\ u.baseline = t.baseline /\ u.leading = t.leading
        /\ u.suggests = t.suggests /\ u.text = t.text
    BY <1>0 DEF TaskFields
  <2> HIDE DEF u
  <2>3. u \in Tasks(w)
    BY <2>1, <2>2 DEF Tasks
  <2> QED
    BY <2>3 DEF u
<1> QED
  BY <1>1, <1>2, <1>3, <1>4, <1>5, <1>6, <1>7, <1>8

\* The task is resolved,
LEMMA MarkResolvedKeeps ==
    ASSUME NEW w, NEW t \in Tasks(w), NEW up \in BOOLEAN
    PROVE  MarkResolved(t, up) \in Tasks(w) /\ MarkResolved(t, up).applied = t.applied
<1> DEFINE v == SetStatus(t, "RESOLVED")
           u1 == [v EXCEPT !.fresh = TRUE]
           b == v.upstream \/ up
           u2 == [u1 EXCEPT !.upstream = b]
<1>1. v \in Tasks(w) /\ v.applied = t.applied
  BY SetStatusKeeps DEF Statuses
<1>2. MarkResolved(t, up) = [v EXCEPT !.fresh = TRUE, !.upstream = @ \/ up]
  BY DEF MarkResolved
<1> HIDE DEF v
<1>3. MarkResolved(t, up) = u2
  BY <1>1, <1>2 DEF Tasks, TaskFields
<1>4. u2.applied = v.applied
  BY <1>1 DEF Tasks, TaskFields
<1>5. b \in BOOLEAN
  OBVIOUS
<1> HIDE DEF b
<1>6. u1 \in Tasks(w)
  BY <1>1, PlainField
<1> HIDE DEF u1
<1>7. u2 \in Tasks(w)
  BY <1>5, <1>6, PlainField
<1> QED
  BY <1>1, <1>3, <1>4, <1>7

\* its thread was rejected,
LEMMA MarkDeadThreadKeeps ==
    ASSUME NEW w, NEW t \in Tasks(w)
    PROVE  MarkDeadThread(t) \in Tasks(w) /\ MarkDeadThread(t).applied = t.applied
<1>1. t.dead \cup {t.thread} \in SUBSET Nat
  BY DEF Tasks, TaskFields
<1>2. [t EXCEPT !.dead = t.dead \cup {t.thread}] \in Tasks(w)
  BY <1>1, PlainField
<1>3. MarkDeadThread(t) = [t EXCEPT !.dead = t.dead \cup {t.thread}]
  BY DEF MarkDeadThread
<1>4. MarkDeadThread(t).applied = t.applied
  BY DEF MarkDeadThread, Tasks, TaskFields
<1> QED
  BY <1>2, <1>3, <1>4

\* its code has changed,
LEMMA MarkStaleKeeps ==
    ASSUME NEW w, NEW t \in Tasks(w)
    PROVE  MarkStale(t) \in Tasks(w) /\ MarkStale(t).applied = t.applied
BY SetStatusKeeps DEF MarkStale, Statuses

\* its thread is accepted,
LEMMA ThreadAcceptedKeeps ==
    ASSUME NEW w, NEW t \in Tasks(w), NEW thread
    PROVE  ThreadAccepted(t, thread) \in Tasks(w) /\ ThreadAccepted(t, thread).applied = t.applied
<1> DEFINE u == [t EXCEPT !.dead = @ \ {thread}]
           r == ThreadAccepted(t, thread)
<1>1. t.dead \ {thread} \in SUBSET Nat
  BY DEF Tasks, TaskFields
<1>2. u \in Tasks(w)
  BY <1>1, PlainField
<1>3. u.applied = t.applied
  BY DEF Tasks, TaskFields
<1>4. r = u \/ \E s \in Statuses : r = SetStatus(u, s)
  BY DEF ThreadAccepted, Statuses
<1> HIDE DEF u, r
<1>5. r \in Tasks(w) /\ r.applied = t.applied
  BY <1>2, <1>3, <1>4, SetStatusKeeps
<1> QED
  BY <1>5 DEF r

\* or it waits for an answer.
LEMMA MarkBlockedKeeps ==
    ASSUME NEW w, NEW t \in Tasks(w)
    PROVE  MarkBlocked(t) \in Tasks(w) /\ MarkBlocked(t).applied = t.applied
<1> DEFINE v == SetStatus(t, "BLOCKED")
           u1 == [v EXCEPT !.blocked = TRUE]
           u2 == [u1 EXCEPT !.baseline = t.seen]
<1>1. v \in Tasks(w) /\ v.applied = t.applied
  BY SetStatusKeeps DEF Statuses
<1>2. MarkBlocked(t) = u2
  BY <1>1 DEF MarkBlocked, Tasks, TaskFields
<1> HIDE DEF v
<1>3. u1 \in Tasks(w) /\ u1.applied = t.applied
  <2>1. u1 \in Tasks(w)
    BY <1>1, PlainField
  <2>2. u1.applied = v.applied
    BY <1>1 DEF Tasks, TaskFields
  <2> QED
    BY <1>1, <2>1, <2>2
<1>4. t.seen \in SUBSET CommentIds /\ \A id \in t.seen : HeardOf(id, w)
  BY DEF Tasks, TaskFields
<1> HIDE DEF u1
<1>5. u2 \in TaskFields(w)
  BY <1>3, <1>4, OneField DEF Tasks
<1>6. u2.seen = u1.seen /\ u2.baseline = t.seen /\ u2.leading = u1.leading /\ u2.suggests = u1.suggests
      /\ u2.text = u1.text /\ u2.applied = u1.applied
  BY <1>3 DEF Tasks, TaskFields
<1> HIDE DEF u2
<1>7. u2 \in Tasks(w)
  BY <1>3, <1>4, <1>5, <1>6 DEF Tasks
<1> QED
  BY <1>2, <1>3, <1>6, <1>7

\* A reply that the agent posted goes to the task.
LEMMA AddReplyKeeps ==
    ASSUME NEW w, NEW t \in Tasks(w), NEW c \in Replies(w), c.text \in OwnTexts
    PROVE  AddReply(t, c) \in Tasks(w) /\ AddReply(t, c).applied = t.applied
           /\ AddReply(t, c).status = t.status
<1> DEFINE rs == IF Id(c) \in Ids(ToSet(t.replies)) THEN t.replies ELSE Append(t.replies, c)
           os == Append(t.own, c)
           u1 == [t EXCEPT !.replies = rs]
           u2 == [u1 EXCEPT !.own = os]
<1>0. t \in TaskFields(w) /\ t.replies \in Seq(Replies(w)) /\ t.own \in Seq(Replies(w))
  BY DEF Tasks, TaskFields
<1>1. rs \in Seq(Replies(w)) /\ os \in Seq(Replies(w))
  BY <1>0
<1>2. AddReply(t, c) = RecordOwnReplies(u2, {Id(c)})
  BY <1>0 DEF AddReply, TaskFields
<1> HIDE DEF rs, os
<1>3. u1 \in TaskFields(w)
  BY <1>0, <1>1, OneField
<1>4. u2.seen = t.seen /\ u2.baseline = t.baseline /\ u2.leading = t.leading /\ u2.suggests = t.suggests
      /\ u2.text = t.text /\ u2.applied = t.applied /\ u2.status = t.status
  BY <1>0 DEF TaskFields
<1> HIDE DEF u1
<1>5. u2 \in TaskFields(w)
  BY <1>1, <1>3, OneField
<1> HIDE DEF u2
<1>6. u2 \in Tasks(w)
  BY <1>4, <1>5 DEF Tasks
<1>7. {Id(c)} \in SUBSET CommentIds /\ \A id \in {Id(c)} : HeardOf(id, w)
  <2>1. Id(c) \in CommentIds /\ Id(c)[1] = c.born /\ c.born \in 1..w.stamp
    BY WordsOfReplies
  <2>2. c.born \in w.authored
    BY DEF Replies, Comments
  <2> QED
    BY <2>1, <2>2 DEF HeardOf
<1> DEFINE ids == {Id(c)}
<1> HIDE DEF ids
<1>8. RecordOwnReplies(u2, ids) \in Tasks(w) /\ RecordOwnReplies(u2, ids).applied = u2.applied
      /\ RecordOwnReplies(u2, ids).status = u2.status
  BY <1>6, <1>7, RecordKeeps DEF ids
<1> QED
  BY <1>2, <1>4, <1>8 DEF ids

\* Replies whose words the agent was shown are seen,
LEMMA MarkRepliesShownKeeps ==
    ASSUME NEW w, NEW t \in Tasks(w), NEW cs \in SUBSET Replies(w), \A c \in cs : Words(c) \in w.told
    PROVE  MarkRepliesShown(t, cs) \in Tasks(w) /\ MarkRepliesShown(t, cs).applied = t.applied
           /\ MarkRepliesShown(t, cs).text = t.text
<1> DEFINE ids == Ids(cs)
           u == [t EXCEPT !.seen = t.seen \cup ids]
<1>1. \A id \in ids : id \in CommentIds /\ HeardOf(id, w)
  <2>1. ASSUME NEW c \in cs PROVE Id(c) \in CommentIds /\ HeardOf(Id(c), w)
    BY WordsOfReplies DEF HeardOf
  <2> QED
    BY <2>1 DEF Ids
<1>2. MarkRepliesShown(t, cs) = u
  BY DEF MarkRepliesShown
<1> HIDE DEF ids
<1>3. t \in TaskFields(w) /\ t.seen \cup ids \in SUBSET CommentIds
  BY <1>1 DEF Tasks, TaskFields
<1>4. u \in TaskFields(w)
  BY <1>3, OneField
<1>5. u.seen = t.seen \cup ids /\ u.baseline = t.baseline /\ u.leading = t.leading /\ u.suggests = t.suggests
      /\ u.text = t.text /\ u.applied = t.applied
  BY <1>3 DEF TaskFields
<1> HIDE DEF u
<1>6. u \in Tasks(w)
  BY <1>1, <1>4, <1>5 DEF Tasks
<1> QED
  BY <1>2, <1>5, <1>6

\* with the root of their thread.
LEMMA MarkShownKeeps ==
    ASSUME NEW w, NEW t \in Tasks(w), NEW cs \in SUBSET Replies(w), \A c \in cs : Words(c) \in w.told
    PROVE  MarkShown(t, cs) \in Tasks(w) /\ MarkShown(t, cs).applied = t.applied
<1> DEFINE u == MarkRepliesShown(t, cs)
<1>1. u \in Tasks(w) /\ u.applied = t.applied
  BY MarkRepliesShownKeeps
<1>2. MarkShown(t, cs) = [u EXCEPT !.seenText = t.text]
  BY DEF MarkShown
<1> HIDE DEF u
<1>3. t.text \in Texts \cup {None}
  BY DEF Tasks, TaskFields
<1>4. [u EXCEPT !.seenText = t.text] \in Tasks(w)
  BY <1>1, <1>3, PlainField
<1>5. [u EXCEPT !.seenText = t.text].applied = u.applied
  BY <1>1 DEF Tasks, TaskFields
<1> QED
  BY <1>1, <1>2, <1>4, <1>5

\* What is shown before an action goes on are replies.
LEMMA UnseenAreReplies ==
    ASSUME NEW w, NEW t \in Tasks(w)
    PROVE  UnseenReplies(t) \in SUBSET Replies(w) /\ ToSet(t.replies) \in SUBSET Replies(w)
<1>1. t.replies \in Seq(Replies(w))
  BY DEF Tasks, TaskFields
<1>2. ToSet(t.replies) \subseteq Replies(w)
  BY <1>1, IdsOf
<1> QED
  BY <1>2 DEF UnseenReplies

\* Some tasks are shown.
LEMMA ShownKeeps ==
    ASSUME NEW w, NEW ts \in Seq(Tasks(w)), NEW S, NEW replies \in BOOLEAN,
           replies => \A i \in DOMAIN ts \cap S : \A c \in ToSet(ts[i].replies) : Words(c) \in w.told
    PROVE  /\ Shown(ts, S, replies) \in Seq(Tasks(w)) /\ Len(Shown(ts, S, replies)) = Len(ts)
           /\ \A i \in DOMAIN ts : Shown(ts, S, replies)[i].applied = ts[i].applied
<1> DEFINE cs(i) == IF replies THEN ToSet(ts[i].replies) ELSE {}
           u(i) == IF i \in S THEN MarkShown(ts[i], cs(i)) ELSE ts[i]
<1>1. ASSUME NEW i \in DOMAIN ts
      PROVE  u(i) \in Tasks(w) /\ u(i).applied = ts[i].applied
  <2>1. ts[i] \in Tasks(w)
    OBVIOUS
  <2>2. CASE i \in S
    <3> DEFINE ci == cs(i)
    <3>1. ci \in SUBSET Replies(w) /\ \A c \in ci : Words(c) \in w.told
      BY <2>1, <2>2, UnseenAreReplies
    <3> HIDE DEF ci
    <3>2. MarkShown(ts[i], ci) \in Tasks(w) /\ MarkShown(ts[i], ci).applied = ts[i].applied
      BY <2>1, <3>1, MarkShownKeeps
    <3> QED
      BY <2>2, <3>2 DEF ci
  <2> QED
    BY <2>1, <2>2
<1>2. Shown(ts, S, replies) = [i \in DOMAIN ts |-> u(i)]
  BY DEF Shown
<1> HIDE DEF u
<1> QED
  BY <1>1, <1>2

-----------------------------------------------------------------------------
(* One list of threads *)

\* The node that a conversation is met through is one of the list's.
LEMMA GroupsOf ==
    ASSUME NEW w, NEW ts, NEW nodes \in Seq(Nodes(w))
    PROVE  /\ DOMAIN Groups(ts, nodes) \subseteq DOMAIN nodes
           /\ \A k \in DOMAIN Groups(ts, nodes) :
                 Groups(ts, nodes)[k].node \in Nodes(w) /\ Groups(ts, nodes)[k].node.comments # <<>>
<1>1. Groups(ts, nodes) = [k \in {j \in DOMAIN nodes : Begins(nodes, j)} |-> Group(ts, nodes, ConversationId(nodes[k]))]
  BY DEF Groups
<1>2. ASSUME NEW k \in DOMAIN nodes, Begins(nodes, k)
      PROVE  LET n == Group(ts, nodes, ConversationId(nodes[k])).node IN n \in Nodes(w) /\ n.comments # <<>>
  <2> DEFINE conv == ConversationId(nodes[k])
             deadIds == UNION {ts[i].dead : i \in DOMAIN ts}
             all     == {j \in DOMAIN nodes : nodes[j].comments # <<>> /\ ConversationId(nodes[j]) = conv}
             usable  == {j \in all : nodes[j].id \notin deadIds}
             pool    == IF usable = {} THEN all ELSE usable
             used    == {j \in pool : \E i \in DOMAIN ts : ts[i].thread = nodes[j].id}
             m       == IF used = {} THEN Latest(pool) ELSE First(used)
  <2>1. Group(ts, nodes, conv).node = nodes[m]
    BY DEF Group
  <2>2. k \in all /\ all \subseteq DOMAIN nodes /\ \A j \in all : nodes[j].comments # <<>>
    BY <1>2 DEF Begins
  <2>3. DOMAIN nodes = 1..Len(nodes) /\ Len(nodes) \in Nat
    OBVIOUS
  <2> HIDE DEF all, conv
  <2>4. pool \subseteq all /\ pool # {}
    BY <2>2
  <2> HIDE DEF pool, usable
  <2>5. used \subseteq pool
    OBVIOUS
  <2> HIDE DEF used
  <2>6. m \in all
    <3>1. CASE used = {}
      <4>1. pool \in SUBSET (1..Len(nodes))
        BY <2>2, <2>3, <2>4
      <4>2. Latest(pool) \in pool
        BY <2>3, <2>4, <4>1, LatestOf
      <4> QED
        BY <2>4, <3>1, <4>2
    <3>2. CASE used # {}
      <4>1. used \in SUBSET Nat
        BY <2>2, <2>3, <2>4, <2>5
      <4>2. First(used) \in used
        BY <3>2, <4>1, FirstOf
      <4> QED
        BY <2>4, <2>5, <3>2, <4>2
    <3> QED
      BY <3>1, <3>2
  <2> HIDE DEF m
  <2>7. nodes[m] \in Nodes(w) /\ nodes[m].comments # <<>>
    BY <2>2, <2>6
  <2> QED
    BY <2>1, <2>7 DEF conv
<1> QED
  BY <1>1, <1>2

\* Whether the last list had the thread of a task.
LEMMA ListedKeeps ==
    ASSUME NEW w, NEW t \in Tasks(w), NEW b \in BOOLEAN
    PROVE  [t EXCEPT !.listed = b] \in Tasks(w) /\ [t EXCEPT !.listed = b].applied = t.applied
<1>1. [t EXCEPT !.listed = b] \in Tasks(w)
  BY PlainField
<1> QED
  BY <1>1 DEF Tasks, TaskFields

\* Whatever was claimed, a list leaves every task a task, with the suggestion
\* that was applied to it, and adds tasks to which none was.
LEMMA SettledKeeps ==
    ASSUME NEW w, NEW ts \in Seq(Tasks(w)), NEW nodes \in Seq(Nodes(w)), NEW all, NEW ctx,
           \A i \in DOMAIN ts : \A p \in ctx.pending[i] : p.text \in OwnTexts
    PROVE  LET us == Settled(ts, nodes, Groups(ts, nodes), all, ctx).tasks
           IN  /\ us \in Seq(Tasks(w)) /\ Len(us) >= Len(ts)
               /\ \A i \in DOMAIN us : us[i].applied = IF i \in DOMAIN ts THEN ts[i].applied ELSE None
<1> DEFINE groups == Groups(ts, nodes)
           claimed == {i \in DOMAIN ts : \E k \in DOMAIN nodes : <<i, k>> \in all.claims}
           at(i)   == CHOOSE k \in DOMAIN nodes : <<i, k>> \in all.claims
           NodeAt(k) == IF k \in DOMAIN groups THEN groups[k].node ELSE nodes[k]
           Met     == [i \in claimed |-> ApplyThreadNode(ts[i], NodeAt(at(i)), i, ctx)]
           Task(i) == IF i \in claimed THEN [Met[i].task EXCEPT !.listed = TRUE] ELSE Unlisted(ts[i])
           new == Those([k \in DOMAIN nodes |-> k], DOMAIN groups \cap all.unmatched)
           old == [i \in DOMAIN ts |-> Task(i)]
           add == [m \in DOMAIN new |-> CreateTask(groups[new[m]].node)]
           us == Settled(ts, nodes, groups, all, ctx).tasks
<1>1. us = old \o add
  BY DEF Settled
<1>2. ASSUME NEW i \in DOMAIN ts
      PROVE  Task(i) \in Tasks(w) /\ Task(i).applied = ts[i].applied
  <2>1. ts[i] \in Tasks(w)
    OBVIOUS
  <2>2. CASE i \in claimed
    <3> DEFINE n == NodeAt(at(i))
               u == ApplyThreadNode(ts[i], n, i, ctx).task
    <3>1. n \in Nodes(w)
      <4>1. at(i) \in DOMAIN nodes
        BY <2>2
      <4> DEFINE a == at(i)
      <4>2. nodes[a] \in Nodes(w)
        BY <4>1
      <4> HIDE DEF a
      <4>3. NodeAt(a) \in Nodes(w)
        BY <4>2, GroupsOf
      <4> QED
        BY <4>3 DEF a
    <3> HIDE DEF n
    <3>2. u \in Tasks(w) /\ u.applied = ts[i].applied
      BY <2>1, <3>1, UpdatedKeeps
    <3>3. Task(i) = [u EXCEPT !.listed = TRUE]
      BY <2>2 DEF n
    <3> HIDE DEF u, Task
    <3> QED
      BY <3>2, <3>3, ListedKeeps
  <2>3. CASE i \notin claimed /\ ts[i].status \in Open
    <3> DEFINE u == SetStatus(ts[i], "STALE")
    <3>1. u \in Tasks(w) /\ u.applied = ts[i].applied
      BY <2>1, SetStatusKeeps DEF Statuses
    <3>2. Task(i) = [u EXCEPT !.listed = FALSE]
      BY <2>3 DEF Unlisted
    <3> HIDE DEF u, Task
    <3> QED
      BY <3>1, <3>2, ListedKeeps
  <2>4. CASE i \notin claimed /\ ~(ts[i].status \in Open)
    <3>1. Task(i) = [ts[i] EXCEPT !.listed = FALSE]
      BY <2>4 DEF Unlisted
    <3> HIDE DEF Task
    <3> QED
      BY <2>1, <3>1, ListedKeeps
  <2> HIDE DEF claimed, Task
  <2> QED
    BY <2>2, <2>3, <2>4
<1>3. new \in Seq(DOMAIN groups)
  <2> DEFINE ks == [k \in DOMAIN nodes |-> k]
  <2>1. ks \in Seq(DOMAIN nodes)
    OBVIOUS
  <2> HIDE DEF ks, groups
  <2>2. Those(ks, DOMAIN groups \cap all.unmatched) \in Seq(DOMAIN nodes \cap (DOMAIN groups \cap all.unmatched))
    BY <2>1, ThoseOf
  <2>3. Seq(DOMAIN nodes \cap (DOMAIN groups \cap all.unmatched)) \subseteq Seq(DOMAIN groups)
    <3>1. DOMAIN nodes \cap (DOMAIN groups \cap all.unmatched) \subseteq DOMAIN groups
      OBVIOUS
    <3> QED
      BY <3>1, SeqGrows
  <2> QED
    BY <2>2, <2>3 DEF ks
<1>4. \A k \in DOMAIN groups : CreateTask(groups[k].node) \in Tasks(w) /\ CreateTask(groups[k].node).applied = None
  BY GroupsOf, CreateTaskTypes
<1> HIDE DEF Task, new, groups, us
<1>5. /\ old \in Seq(Tasks(w)) /\ Len(old) = Len(ts) /\ DOMAIN old = DOMAIN ts
      /\ \A i \in DOMAIN ts : old[i].applied = ts[i].applied
  BY <1>2
<1>6. /\ add \in Seq(Tasks(w)) /\ \A m \in DOMAIN add : add[m].applied = None
  BY <1>3, <1>4
<1> HIDE DEF old, add
<1>7. us \in Seq(Tasks(w)) /\ Len(us) = Len(old) + Len(add) /\ Len(add) \in Nat /\ Len(old) \in Nat
  <2> DEFINE S == Tasks(w)
  <2>1. old \in Seq(S) /\ add \in Seq(S)
    BY <1>5, <1>6
  <2> HIDE DEF S
  <2>2. old \o add \in Seq(S) /\ Len(old \o add) = Len(old) + Len(add) /\ Len(add) \in Nat /\ Len(old) \in Nat
    BY <2>1
  <2> QED
    BY <1>1, <2>2 DEF S
<1>8. ASSUME NEW i \in DOMAIN us
      PROVE  us[i].applied = IF i \in DOMAIN ts THEN ts[i].applied ELSE None
  <2>1. i \in 1..(Len(old) + Len(add))
    BY <1>7
  <2>2. CASE i <= Len(old)
    <3>1. us[i] = old[i] /\ i \in DOMAIN ts
      BY <1>1, <1>5, <1>6, <2>1, <2>2
    <3> QED
      BY <1>5, <3>1
  <2>3. CASE i > Len(old)
    <3>1. us[i] = add[i - Len(old)] /\ i \notin DOMAIN ts /\ i - Len(old) \in DOMAIN add
      BY <1>1, <1>5, <1>6, <2>1, <2>3
    <3> QED
      BY <1>6, <3>1
  <2> QED
    BY <1>7, <2>1, <2>2, <2>3
<1>9. us \in Seq(Tasks(w)) /\ Len(us) >= Len(ts)
  BY <1>5, <1>7
<1> QED
  BY <1>8, <1>9 DEF us, groups

\* A list changes no note of a suggestion that was written, and drops no task.
LEMMA SyncKeeps ==
    ASSUME NEW w, NEW ts \in Seq(Tasks(w)), NEW nodes \in Seq(Nodes(w)), NEW ctx,
           \A i \in DOMAIN ts : \A p \in ctx.pending[i] : p.text \in OwnTexts
    PROVE  LET us == Sync(ts, nodes, ctx).tasks
           IN  /\ us \in Seq(Tasks(w)) /\ Len(us) >= Len(ts)
               /\ \A i \in DOMAIN us : us[i].applied = IF i \in DOMAIN ts THEN ts[i].applied ELSE None
<1> DEFINE all == Matched(ts, nodes, Groups(ts, nodes))
<1>1. Sync(ts, nodes, ctx) = Settled(ts, nodes, Groups(ts, nodes), all, ctx)
  BY DEF Sync
<1> HIDE DEF all
<1> QED
  BY <1>1, SettledKeeps

-----------------------------------------------------------------------------
(* The state *)

\* The types of the calls and the lists.
CallPcs == {"idle", "turn", "refresh", "edit", "reply", "replied", "rereply", "final",
            "resolve", "resolved", "reresolve"}
Outs    == Texts \cup {None, "ok", "lost", "fail", "dead", "declined"}

\* Lists under way.
ThreadLists(w) ==
    [by : Calls \cup {0}, read : BOOLEAN, nodes : Seq(Nodes(w)), behind : BOOLEAN,
     late : BOOLEAN, before : SUBSET Nat]

\* The actions: the reply that one has posted is a comment, and what it writes is a suggestion.
Actions(w) ==
    {a \in [kind : Kinds \cup {None}, task : Nat, pc : CallPcs, first : Nat, thread : Nat,
            born : Nat, out : Outs, stale : BOOLEAN] :
        /\ a.pc = "replied" /\ a.out = "ok" => Comment(a.born, Me, Text(a.kind)) \in Replies(w)
        /\ a.pc = "edit" => a.out \in Suggestions}

\* Who says what; None: a suggestion, which may be edited.
Sayable == People \X (Texts \cup {None})

\* w is a history.
Timed(w) ==
    /\ w.words \in [Nat -> Sayable] /\ w.stamp \in Nat /\ w.authored \subseteq 1..w.stamp

\* w describes the state.
Typed(w) ==
    /\ Timed(w) /\ w.stamp = stamp /\ w.authored = authored /\ w.told = told
    /\ threads \in Seq(Nodes(w))
    /\ tasks \in Seq(Tasks(w)) /\ tasks # <<>>
    /\ fetches \in Seq(ThreadLists(w))
    /\ calls \in [Calls -> Actions(w)]
    /\ \A c \in Calls : calls[c].task \in DOMAIN tasks

\* One more comment, which says x; own: the agent's reply to a task.
Then(w, x, own) ==
    [words |-> [w.words EXCEPT ![w.stamp + 1] = x], stamp |-> w.stamp + 1,
     authored |-> IF own THEN w.authored \cup {w.stamp + 1} ELSE w.authored, told |-> w.told]

\* More words that the agent was shown.
Hearing(w, show) == [words |-> w.words, stamp |-> w.stamp, authored |-> w.authored, told |-> w.told \cup show]

\* One more comment changes nothing of those before.
LEMMA ThenGrows ==
    ASSUME NEW w, Timed(w), NEW x \in Sayable, NEW own \in BOOLEAN
    PROVE  /\ Timed(Then(w, x, own)) /\ Grows(w, Then(w, x, own))
           /\ Then(w, x, own).words[w.stamp + 1] = x
           /\ w.stamp + 1 \in Then(w, x, own).authored <=> own
<1> DEFINE s == w.stamp + 1
           v == Then(w, x, own)
<1>1. w.stamp \in Nat /\ s \in Nat /\ s \notin 1..w.stamp /\ s # 0 /\ w.stamp <= s /\ w.authored \subseteq 1..w.stamp
      /\ w.words \in [Nat -> Sayable]
  BY DEF Timed
<1>2. v.words = [w.words EXCEPT ![s] = x] /\ v.stamp = s /\ v.told = w.told
      /\ v.authored = IF own THEN w.authored \cup {s} ELSE w.authored
  BY DEF Then
<1>3. \A b \in 1..w.stamp : b \in 1..s /\ b \in Nat /\ b # s
  BY <1>1
<1> HIDE DEF v
<1>4. Timed(v)
  <2>1. v.words \in [Nat -> Sayable] /\ v.stamp \in Nat
    BY <1>1, <1>2
  <2>2. s \in 1..s
    BY <1>1
  <2>3. v.authored \subseteq 1..v.stamp
    BY <1>1, <1>2, <1>3, <2>2
  <2> QED
    BY <2>1, <2>3 DEF Timed
<1>5. Grows(w, v)
  BY <1>1, <1>2, <1>3 DEF Grows
<1>6. v.words[s] = x /\ (s \in v.authored <=> own)
  BY <1>1, <1>2
<1> QED
  BY <1>4, <1>5, <1>6 DEF v

\* Nor do words that are shown.
LEMMA HearingGrows ==
    ASSUME NEW w, Timed(w), NEW show
    PROVE  Timed(Hearing(w, show)) /\ Grows(w, Hearing(w, show)) /\ show \subseteq Hearing(w, show).told
BY DEF Timed, Hearing, Grows

\* Lists under way and actions stay what they are.
LEMMA ListsGrow ==
    ASSUME NEW w, NEW v, Grows(w, v)
    PROVE  ThreadLists(w) \subseteq ThreadLists(v) /\ Actions(w) \subseteq Actions(v)
<1>1. Seq(Nodes(w)) \subseteq Seq(Nodes(v))
  BY NodesGrow, SeqGrows
<1>2. ThreadLists(w) \subseteq ThreadLists(v)
  BY <1>1 DEF ThreadLists
<1>3. Actions(w) \subseteq Actions(v)
  BY CommentsGrow DEF Actions
<1> QED
  BY <1>2, <1>3

\* What a reviewer writes.
LEMMA ReviewerSays ==
    ASSUME NEW w, Timed(w), NEW c, c.by = "reviewer", c.text \in Suggestions \cup Answers,
           c \in [born : Nat, gen : Nat, by : People, text : Texts], c.born = w.stamp + 1
    PROVE  /\ Lasting(c) \in Sayable
           /\ c \in Comments(Then(w, Lasting(c), FALSE))
           /\ c.text \in Answers => c \in Replies(Then(w, Lasting(c), FALSE))
<1> DEFINE x == Lasting(c)
           v == Then(w, x, FALSE)
<1>1. x \in Sayable
  BY DEF Lasting, Sayable, Words
<1>2. /\ Timed(v) /\ Grows(w, v) /\ v.words[w.stamp + 1] = x
      /\ w.stamp + 1 \notin v.authored
  <2> HIDE DEF x
  <2> QED
    BY <1>1, ThenGrows
<1>3. c.text \notin Messages /\ c.by # Me /\ (c.text \in Answers => c.text \notin Suggestions)
  BY ReviewAssumption
<1>4. c \in Sayings
  BY <1>3 DEF Sayings
<1>5. c.text \notin OwnTexts
  BY <1>3 DEF Messages, OwnTexts
<1>6. v.stamp = w.stamp + 1 /\ w.stamp + 1 \in 1..(w.stamp + 1)
  BY DEF Then, Timed
<1> HIDE DEF v, x
<1>7. c \in Comments(v)
  BY <1>2, <1>4, <1>5, <1>6 DEF Comments, x
<1>8. c.text \in Answers => c \in Replies(v)
  BY <1>3, <1>7 DEF Replies
<1> QED
  BY <1>1, <1>7, <1>8 DEF v, x

\* What the agent or its user writes.
LEMMA AgentSays ==
    ASSUME NEW w, Timed(w), NEW kind
    PROVE  LET c == Comment(w.stamp + 1, Me, Text(kind))
           IN  Words(c) \in Sayable /\ c \in Replies(Then(w, Words(c), Own(kind)))
<1> DEFINE c == Comment(w.stamp + 1, Me, Text(kind))
           x == Words(c)
           v == Then(w, x, Own(kind))
<1>1. c.born = w.stamp + 1 /\ c.gen = 0 /\ c.by = Me /\ c.text = Text(kind)
  BY DEF Comment
<1>2. Text(kind) \in Messages /\ (Text(kind) \in OwnTexts <=> Own(kind)) /\ Own(kind) \in BOOLEAN
  BY DEF Text, Own, Messages, OwnTexts
<1>3. x \in Sayable /\ c \in Sayings
  BY <1>1, <1>2 DEF Words, Sayable, People, Texts, Sayings, Comment, Timed
<1>4. /\ Timed(v) /\ Grows(w, v) /\ v.words[w.stamp + 1] = x
      /\ w.stamp + 1 \in v.authored <=> Own(kind)
  <2> HIDE DEF x
  <2> QED
    BY <1>2, <1>3, ThenGrows
<1>5. c.text \notin Suggestions
  BY <1>1, <1>2, ReviewAssumption
<1>6. v.stamp = w.stamp + 1 /\ w.stamp + 1 \in 1..(w.stamp + 1)
  BY DEF Then, Timed
<1> HIDE DEF v, c
<1>7. Lasting(c) = x
  BY <1>5 DEF Lasting
<1>8. c \in Comments(v)
  BY <1>1, <1>2, <1>3, <1>4, <1>6, <1>7 DEF Comments
<1>9. c \in Replies(v)
  BY <1>5, <1>8 DEF Replies
<1> QED
  BY <1>3, <1>9 DEF v, c

\* Two lists in a row.
LEMMA Joining ==
    ASSUME NEW S, NEW a \in Seq(S), NEW b \in Seq(S)
    PROVE  /\ a \o b \in Seq(S) /\ Len(a \o b) = Len(a) + Len(b)
           /\ \A j \in 1..Len(a) : (a \o b)[j] = a[j]
           /\ \A j \in 1..Len(b) : (a \o b)[Len(a) + j] = b[j]
BY ConcatProperties

\* A list with one other element.
LEMMA SetAt ==
    ASSUME NEW S, NEW s \in Seq(S), NEW k, NEW e \in S
    PROVE  [s EXCEPT ![k] = e] \in Seq(S) /\ Len([s EXCEPT ![k] = e]) = Len(s)
<1>1. Len(s) \in Nat /\ DOMAIN s = 1..Len(s) /\ \A j \in 1..Len(s) : s[j] \in S
  OBVIOUS
<1> DEFINE r == [s EXCEPT ![k] = e]
<1>2. r \in [1..Len(s) -> S]
  BY <1>1
<1> HIDE DEF r
<1>3. r \in Seq(S) /\ Len(r) = Len(s)
  BY <1>1, <1>2
<1> QED
  BY <1>3 DEF r

\* A list without one element.
LEMMA RemoveAtOf ==
    ASSUME NEW S, NEW s \in Seq(S), NEW k \in DOMAIN s
    PROVE  /\ RemoveAt(s, k) \in Seq(S) /\ Len(RemoveAt(s, k)) = Len(s) - 1
           /\ \A j \in DOMAIN RemoveAt(s, k) : RemoveAt(s, k)[j] = s[IF j < k THEN j ELSE j + 1]
<1> DEFINE a == SubSeq(s, 1, k - 1)
           b == SubSeq(s, k + 1, Len(s))
<1>1. k \in 1..Len(s) /\ Len(s) \in Nat
  OBVIOUS
<1>2. a \in Seq(S) /\ Len(a) = k - 1 /\ \A j \in 1..(k - 1) : a[j] = s[j]
  BY <1>1
<1>3. b \in Seq(S) /\ Len(b) = Len(s) - k /\ \A j \in 1..(Len(s) - k) : b[j] = s[k + j]
  BY <1>1
<1>4. RemoveAt(s, k) = a \o b
  BY DEF RemoveAt
<1> HIDE DEF a, b
<1> DEFINE r == a \o b
<1>5. r \in Seq(S) /\ Len(r) = Len(a) + Len(b)
      /\ (\A j \in 1..Len(a) : r[j] = a[j]) /\ \A j \in 1..Len(b) : r[Len(a) + j] = b[j]
  <2>1. a \in Seq(S) /\ b \in Seq(S)
    BY <1>2, <1>3
  <2> QED
    BY <2>1, Joining
<1> HIDE DEF r
<1>6. ASSUME NEW j \in DOMAIN r PROVE r[j] = s[IF j < k THEN j ELSE j + 1]
  <2>1. j \in 1..(Len(a) + Len(b))
    BY <1>5
  <2>2. CASE j < k
    <3>1. j \in 1..(k - 1) /\ r[j] = a[j]
      BY <1>1, <1>2, <1>3, <1>5, <2>1, <2>2
    <3> QED
      BY <1>2, <2>2, <3>1
  <2>3. CASE ~(j < k)
    <3>0. j \in Int /\ k \in Int /\ Len(s) \in Int /\ k <= j /\ j <= Len(s) - 1 /\ k >= 1
      <4>1. Len(a) = k - 1 /\ Len(b) = Len(s) - k /\ Len(s) \in Int /\ k \in Int /\ k >= 1
        BY <1>1, <1>2, <1>3
      <4>2. j \in Int /\ j <= Len(a) + Len(b)
        BY <2>1
      <4> QED
        BY <2>3, <4>1, <4>2
    <3>1. j - (k - 1) \in 1..(Len(s) - k) /\ (k - 1) + (j - (k - 1)) = j /\ k + (j - (k - 1)) = j + 1
      BY <3>0
    <3>2. r[(k - 1) + (j - (k - 1))] = b[j - (k - 1)]
      BY <1>2, <1>3, <1>5, <3>1
    <3>3. b[j - (k - 1)] = s[k + (j - (k - 1))]
      BY <1>3, <3>1
    <3> QED
      BY <2>3, <3>1, <3>2, <3>3
  <2> QED
    BY <2>2, <2>3
<1>7. Len(r) = Len(s) - 1
  BY <1>1, <1>2, <1>3, <1>5
<1> QED
  BY <1>4, <1>5, <1>6, <1>7 DEF r

\* The state fits a longer history.
LEMMA TypedGrows ==
    ASSUME NEW w, Typed(w), NEW v, Grows(w, v)
    PROVE  /\ threads \in Seq(Nodes(v)) /\ tasks \in Seq(Tasks(v))
           /\ fetches \in Seq(ThreadLists(v)) /\ calls \in [Calls -> Actions(v)]
<1>1. threads \in Seq(Nodes(w)) /\ tasks \in Seq(Tasks(w)) /\ fetches \in Seq(ThreadLists(w))
      /\ calls \in [Calls -> Actions(w)]
  BY DEF Typed
<1>2. Seq(Nodes(w)) \subseteq Seq(Nodes(v))
  BY NodesGrow, SeqGrows
<1>3. Seq(Tasks(w)) \subseteq Seq(Tasks(v))
  BY TasksGrow, SeqGrows
<1>4. Seq(ThreadLists(w)) \subseteq Seq(ThreadLists(v))
  BY ListsGrow, SeqGrows
<1>5. calls \in [Calls -> Actions(v)]
  BY <1>1, ListsGrow
<1> QED
  BY <1>1, <1>2, <1>3, <1>4, <1>5

-----------------------------------------------------------------------------
(* What reviewers and GitHub do *)

\* An event that adds a comment.
LEMMA EventKeeps ==
    ASSUME NEW w, Typed(w), NEW x \in Sayable, NEW kind, NEW ts \in Seq(Nodes(Then(w, x, FALSE))),
           Event(kind, ts)
    PROVE  \E v : Typed(v)'
<1> DEFINE v == Then(w, x, FALSE)
<1>1. Timed(v) /\ Grows(w, v)
  BY ThenGrows DEF Typed
<1>2. v.stamp = stamp + 1 /\ v.authored = authored /\ v.told = told
  BY DEF Then, Typed
<1> HIDE DEF v
<1>3. threads' = ts /\ stamp' = stamp + 1 /\ UNCHANGED <<tasks, fetches, calls, told, authored>>
  BY DEF Event
<1>4. /\ tasks \in Seq(Tasks(v))
      /\ fetches \in Seq(ThreadLists(v)) /\ calls \in [Calls -> Actions(v)]
  BY <1>1, TypedGrows
<1>5. tasks # <<>> /\ \A c \in Calls : calls[c].task \in DOMAIN tasks
  BY DEF Typed
<1>6. ts \in Seq(Nodes(v))
  BY DEF v
<1>7. Typed(v)'
  BY <1>1, <1>2, <1>3, <1>4, <1>5, <1>6 DEF Typed
<1> QED
  BY <1>7

\* An event without a new comment.
Unsaid == <<"reviewer", None>>

\* One that adds none.
LEMMA QuietEvent ==
    ASSUME NEW w, Typed(w), NEW kind, NEW ts \in Seq(Nodes(w)), Event(kind, ts)
    PROVE  \E v : Typed(v)'
<1>1. Unsaid \in Sayable
  BY DEF Unsaid, Sayable, People
<1>2. Grows(w, Then(w, Unsaid, FALSE))
  BY <1>1, ThenGrows DEF Typed
<1>3. ts \in Seq(Nodes(Then(w, Unsaid, FALSE)))
  BY <1>2, NodesGrow, SeqGrows
<1> QED
  BY <1>1, <1>3, EventKeeps

\* A thread that GitHub accepts has comments.
LEMMA UsableIs ==
    ASSUME NEW w, Typed(w), NEW k \in Usable
    PROVE  k \in DOMAIN threads /\ threads[k] \in Nodes(w) /\ threads[k].comments # <<>>
BY DEF Usable, Typed

\* A new thread.
LEMMA NodeTypes ==
    ASSUME NEW w, NEW id \in Nat, NEW l \in Lines, NEW c \in Comments(w)
    PROVE  Node(id, l, <<c>>) \in Nodes(w)
BY DEF Node, Nodes

\* A comment of a node changes, or one is added, or the first is lost.
LEMMA NodeFields ==
    ASSUME NEW w, NEW n \in Nodes(w)
    PROVE  /\ \A b \in BOOLEAN : [n EXCEPT !.resolved = b] \in Nodes(w)
           /\ \A b \in BOOLEAN : [n EXCEPT !.resolved = FALSE, !.mine = b] \in Nodes(w)
           /\ \A b \in BOOLEAN : [n EXCEPT !.resolved = TRUE, !.mine = b] \in Nodes(w)
           /\ \A c \in Replies(w) : n.comments # <<>> => [n EXCEPT !.comments = Append(@, c)] \in Nodes(w)
           /\ n.comments # <<>> => [n EXCEPT !.comments = Tail(@)] \in Nodes(w)
<1>1. \A b \in BOOLEAN : [n EXCEPT !.resolved = b] \in Nodes(w)
  BY DEF Nodes
<1>2. \A b \in BOOLEAN : [n EXCEPT !.resolved = FALSE, !.mine = b] \in Nodes(w)
  BY DEF Nodes
<1>3. \A b \in BOOLEAN : [n EXCEPT !.resolved = TRUE, !.mine = b] \in Nodes(w)
  BY DEF Nodes
<1>4. ASSUME NEW c \in Replies(w), n.comments # <<>>
      PROVE  [n EXCEPT !.comments = Append(@, c)] \in Nodes(w)
  <2> DEFINE cs == Append(n.comments, c)
  <2>1. n.comments \in Seq(Comments(w)) /\ c \in Comments(w)
    BY DEF Nodes, Replies
  <2>2. cs \in Seq(Comments(w)) /\ Len(cs) = Len(n.comments) + 1
    BY <2>1
  <2>3. ASSUME NEW j \in 2..Len(cs) PROVE cs[j] \in Replies(w)
    <3>1. CASE j = Len(n.comments) + 1
      BY <2>1, <3>1
    <3>2. CASE j # Len(n.comments) + 1
      <4>1. j \in 2..Len(n.comments) /\ cs[j] = n.comments[j]
        BY <2>1, <2>2, <3>2
      <4> QED
        BY <4>1 DEF Nodes
    <3> QED
      BY <3>1, <3>2
  <2> HIDE DEF cs
  <2>4. [n EXCEPT !.comments = cs] \in Nodes(w)
    BY <2>2, <2>3 DEF Nodes
  <2> QED
    BY <2>4 DEF cs
<1>5. ASSUME n.comments # <<>>
      PROVE  [n EXCEPT !.comments = Tail(@)] \in Nodes(w)
  <2> DEFINE cs == Tail(n.comments)
  <2>1. cs \in Seq(Replies(w))
    BY <1>5, NodeParts
  <2>2. Seq(Replies(w)) \subseteq Seq(Comments(w))
    BY SeqGrows DEF Replies
  <2> HIDE DEF cs
  <2>3. cs \in Seq(Comments(w)) /\ \A j \in 2..Len(cs) : cs[j] \in Replies(w)
    BY <2>1, <2>2
  <2>4. [n EXCEPT !.comments = cs] \in Nodes(w)
    BY <2>3 DEF Nodes
  <2> QED
    BY <2>4 DEF cs
<1> QED
  BY <1>1, <1>2, <1>3, <1>4, <1>5

\* A reviewer opens a thread,
LEMMA ReviewerOpensKeeps ==
    ASSUME NEW w, Typed(w), ReviewerOpens
    PROVE  \E v : Typed(v)'
<1>1. PICK x \in Suggestions, l \in Lines :
          Event("open", Append(threads, Node(stamp + 1, l, <<Comment(stamp + 1, "reviewer", x)>>)))
  BY DEF ReviewerOpens
<1> DEFINE c == Comment(stamp + 1, "reviewer", x)
           v == Then(w, Lasting(c), FALSE)
<1>2. Timed(w) /\ stamp \in Nat /\ w.stamp = stamp
  BY DEF Typed, Timed
<1>3. /\ c \in [born : Nat, gen : Nat, by : People, text : Texts] /\ c.by = "reviewer"
      /\ c.text \in Suggestions \cup Answers /\ c.born = w.stamp + 1
  BY <1>2 DEF Comment, People, Texts
<1> HIDE DEF c
<1>4. Lasting(c) \in Sayable /\ c \in Comments(v)
  BY <1>2, <1>3, ReviewerSays
<1>5. Grows(w, v)
  BY <1>2, <1>4, ThenGrows
<1> HIDE DEF v
<1>6. threads \in Seq(Nodes(v))
  BY <1>5, TypedGrows
<1> DEFINE ts == Append(threads, Node(stamp + 1, l, <<c>>))
<1>7. ts \in Seq(Nodes(v))
  <2>1. stamp + 1 \in Nat
    BY <1>2
  <2>2. Node(stamp + 1, l, <<c>>) \in Nodes(v)
    BY <1>4, <2>1, NodeTypes
  <2> QED
    BY <1>6, <2>2
<1>8. Event("open", ts)
  BY <1>1 DEF c
<1> HIDE DEF ts
<1> QED
  BY <1>4, <1>7, <1>8, EventKeeps DEF v

\* replies,
LEMMA ReviewerRepliesKeeps ==
    ASSUME NEW w, Typed(w), ReviewerReplies
    PROVE  \E v : Typed(v)'
<1>1. PICK k \in Usable, x \in Answers :
          Event("reply", [threads EXCEPT ![k].comments = Append(@, Comment(stamp + 1, "reviewer", x))])
  BY DEF ReviewerReplies
<1> DEFINE c == Comment(stamp + 1, "reviewer", x)
           v == Then(w, Lasting(c), FALSE)
<1>2. Timed(w) /\ stamp \in Nat /\ w.stamp = stamp
  BY DEF Typed, Timed
<1>3. /\ c \in [born : Nat, gen : Nat, by : People, text : Texts] /\ c.by = "reviewer"
      /\ c.text \in Suggestions \cup Answers /\ c.born = w.stamp + 1 /\ c.text \in Answers
  BY <1>2 DEF Comment, People, Texts
<1> HIDE DEF c
<1>4. Lasting(c) \in Sayable /\ c \in Replies(v)
  BY <1>2, <1>3, ReviewerSays
<1>5. Grows(w, v)
  BY <1>2, <1>4, ThenGrows
<1> HIDE DEF v
<1>6. threads \in Seq(Nodes(v)) /\ Nodes(w) \subseteq Nodes(v)
  BY <1>5, TypedGrows, NodesGrow
<1> DEFINE n == [threads[k] EXCEPT !.comments = Append(@, c)]
           ts == [threads EXCEPT ![k] = n]
<1>7. n \in Nodes(v)
  BY <1>4, <1>6, UsableIs, NodeFields
<1>8. Event("reply", ts)
  BY <1>1 DEF c
<1> HIDE DEF n
<1>9. ts \in Seq(Nodes(v))
  BY <1>6, <1>7, SetAt
<1> HIDE DEF ts
<1> QED
  BY <1>4, <1>8, <1>9, EventKeeps DEF v

\* resolves one,
LEMMA ReviewerResolvesKeeps ==
    ASSUME NEW w, Typed(w), ReviewerResolves
    PROVE  \E v : Typed(v)'
<1>1. PICK k \in Usable : Event("resolve", [threads EXCEPT ![k].resolved = TRUE])
  BY DEF ReviewerResolves
<1> DEFINE n == [threads[k] EXCEPT !.resolved = TRUE]
           ts == [threads EXCEPT ![k] = n]
<1>2. n \in Nodes(w)
  BY UsableIs, NodeFields
<1>3. Event("resolve", ts)
  BY <1>1
<1> HIDE DEF n
<1>4. ts \in Seq(Nodes(w))
  BY <1>2, SetAt DEF Typed
<1> HIDE DEF ts
<1> QED
  BY <1>3, <1>4, QuietEvent

\* opens it again,
LEMMA ReviewerReopensKeeps ==
    ASSUME NEW w, Typed(w), ReviewerReopens
    PROVE  \E v : Typed(v)'
<1>1. PICK k \in Usable : Event("reopen", [threads EXCEPT ![k].resolved = FALSE, ![k].mine = FALSE])
  BY DEF ReviewerReopens
<1> DEFINE n == [threads[k] EXCEPT !.resolved = FALSE, !.mine = FALSE]
           ts == [threads EXCEPT ![k] = n]
<1>2. n \in Nodes(w)
  BY UsableIs, NodeFields
<1>3. Event("reopen", ts)
  <2>1. [threads EXCEPT ![k].resolved = FALSE, ![k].mine = FALSE] = ts
    BY UsableIs
  <2> QED
    BY <1>1, <2>1
<1> HIDE DEF n
<1>4. ts \in Seq(Nodes(w))
  BY <1>2, SetAt DEF Typed
<1> HIDE DEF ts
<1> QED
  BY <1>3, <1>4, QuietEvent

\* A suggestion is edited to be another.
LEMMA EditedNode ==
    ASSUME NEW w, NEW n \in Nodes(w), n.comments # <<>>, NEW x \in Suggestions,
           n.comments[1].text \in Suggestions
    PROVE  [n EXCEPT !.comments[1].text = x] \in Nodes(w)
<1> DEFINE c == [n.comments[1] EXCEPT !.text = x]
           cs == [n.comments EXCEPT ![1] = c]
<1>1. n.comments \in Seq(Comments(w)) /\ 1 \in DOMAIN n.comments /\ Len(n.comments) \in Nat
  BY DEF Nodes
<1>2. n.comments[1] \in Comments(w)
  BY <1>1
<1>3. x \notin Messages /\ n.comments[1].text \notin Messages
  BY ReviewAssumption
<1>4. c \in Comments(w)
  <2>1. c \in Sayings
    BY <1>2, <1>3 DEF Comments, Sayings, Texts
  <2>2. c.born = n.comments[1].born /\ c.by = n.comments[1].by /\ c.text = x
    BY <1>2 DEF Comments, Sayings
  <2>3. Lasting(c) = Lasting(n.comments[1])
    BY <2>2 DEF Lasting
  <2>4. c.text \notin OwnTexts /\ n.comments[1].text \notin OwnTexts
    BY <1>3, <2>2 DEF OwnTexts, Messages
  <2> QED
    BY <1>2, <2>1, <2>2, <2>3, <2>4 DEF Comments
<1>5. [n EXCEPT !.comments[1].text = x] = [n EXCEPT !.comments = cs]
  OBVIOUS
<1> HIDE DEF c
<1>6. cs \in Seq(Comments(w)) /\ Len(cs) = Len(n.comments) /\ \A j \in 2..Len(n.comments) : cs[j] = n.comments[j]
  BY <1>1, <1>4
<1> HIDE DEF cs
<1>7. \A j \in 2..Len(n.comments) : n.comments[j] \in Replies(w)
  BY DEF Nodes
<1>8. \A j \in 2..Len(cs) : cs[j] \in Replies(w)
  BY <1>6, <1>7
<1>9. [n EXCEPT !.comments = cs] \in Nodes(w)
  BY <1>6, <1>8 DEF Nodes
<1> QED
  BY <1>5, <1>9

\* or edits a suggestion.
LEMMA ReviewerEditsKeeps ==
    ASSUME NEW w, Typed(w), ReviewerEdits
    PROVE  \E v : Typed(v)'
<1>1. PICK k \in Usable, x \in Suggestions :
          /\ threads[k].comments[1].text \in Suggestions
          /\ Event("edit", [threads EXCEPT ![k].comments[1].text = x])
  BY DEF ReviewerEdits
<1> DEFINE n == [threads[k] EXCEPT !.comments[1].text = x]
           ts == [threads EXCEPT ![k] = n]
<1>2. n \in Nodes(w)
  BY <1>1, UsableIs, EditedNode
<1>3. Event("edit", ts)
  BY <1>1
<1> HIDE DEF n
<1>4. ts \in Seq(Nodes(w))
  BY <1>2, SetAt DEF Typed
<1> HIDE DEF ts
<1> QED
  BY <1>3, <1>4, QuietEvent

\* The root of a thread, written again.
LEMMA Reposted ==
    ASSUME NEW w, NEW d \in Comments(w), NEW s \in Nat
    PROVE  LET c == [d EXCEPT !.born = s, !.gen = 0]
           IN  /\ c \in [born : Nat, gen : Nat, by : People, text : Texts]
               /\ c.by = d.by /\ c.text = d.text /\ c.born = s
BY DEF Comments, Sayings

\* A reviewer posts a thread anew.
LEMMA ReviewerRepostsKeeps ==
    ASSUME NEW w, Typed(w), ReviewerReposts
    PROVE  \E v : Typed(v)'
<1>1. PICK k \in Usable, l \in Lines :
          /\ threads[k].comments[1].by = "reviewer"
          /\ Event("repost", Append(RemoveAt(threads, k),
                        Node(stamp + 1, l, <<[threads[k].comments[1] EXCEPT !.born = stamp + 1, !.gen = 0]>>)))
  BY DEF ReviewerReposts
<1> DEFINE d == threads[k].comments[1]
           c == [d EXCEPT !.born = stamp + 1, !.gen = 0]
           v == Then(w, Lasting(c), FALSE)
<1>2. Timed(w) /\ stamp \in Nat /\ w.stamp = stamp
  BY DEF Typed, Timed
<1>3. d \in Comments(w)
  <2>1. threads[k].comments \in Seq(Comments(w)) /\ threads[k].comments # <<>>
    BY UsableIs DEF Nodes
  <2> QED
    BY <2>1
<1>4. d.text \in Suggestions \cup Answers
  <2>1. d.text \notin Messages /\ d.text \in Texts
    BY <1>1, <1>3, ReviewAssumption DEF Comments, Sayings
  <2> QED
    BY <2>1 DEF Texts
<1>5. /\ c \in [born : Nat, gen : Nat, by : People, text : Texts] /\ c.by = "reviewer"
      /\ c.text \in Suggestions \cup Answers /\ c.born = w.stamp + 1
  <2> DEFINE s == stamp + 1
  <2>1. d.by = "reviewer" /\ s \in Nat /\ s = w.stamp + 1
    BY <1>1, <1>2
  <2>2. c = [d EXCEPT !.born = s, !.gen = 0]
    OBVIOUS
  <2> HIDE DEF s, c, d
  <2>3. /\ c \in [born : Nat, gen : Nat, by : People, text : Texts]
        /\ c.by = d.by /\ c.text = d.text /\ c.born = s
    BY <1>3, <2>1, <2>2, Reposted
  <2> QED
    BY <1>4, <2>1, <2>3
<1> HIDE DEF c, d
<1>6. Lasting(c) \in Sayable /\ c \in Comments(v)
  BY <1>2, <1>5, ReviewerSays
<1>7. Grows(w, v)
  BY <1>2, <1>6, ThenGrows
<1> HIDE DEF v
<1>8. RemoveAt(threads, k) \in Seq(Nodes(v))
  <2>1. threads \in Seq(Nodes(v)) /\ k \in DOMAIN threads
    BY <1>7, TypedGrows, UsableIs
  <2> DEFINE S == Nodes(v)
  <2> HIDE DEF S
  <2> QED
    BY <2>1, RemoveAtOf DEF S
<1> DEFINE r == RemoveAt(threads, k)
           ts == Append(r, Node(stamp + 1, l, <<c>>))
<1> HIDE DEF r
<1>9. ts \in Seq(Nodes(v))
  <2>1. stamp + 1 \in Nat
    BY <1>2
  <2>2. Node(stamp + 1, l, <<c>>) \in Nodes(v)
    BY <1>6, <2>1, NodeTypes
  <2> QED
    BY <1>8, <2>2 DEF r
<1>10. Event("repost", ts)
  BY <1>1 DEF c, d, r
<1> HIDE DEF ts
<1> QED
  BY <1>6, <1>9, <1>10, EventKeeps DEF v

\* Threads without one of them.
LEMMA ThreadsWithout ==
    ASSUME NEW w, Typed(w), NEW k \in Usable
    PROVE  RemoveAt(threads, k) \in Seq(Nodes(w))
<1> DEFINE S == Nodes(w)
<1>1. threads \in Seq(S) /\ k \in DOMAIN threads
  BY UsableIs DEF Typed
<1> HIDE DEF S
<1>2. RemoveAt(threads, k) \in Seq(S)
  BY <1>1, RemoveAtOf
<1> QED
  BY <1>2 DEF S

\* The root of a thread is deleted: a reply is the new one.
LEMMA RootIsDeletedKeeps ==
    ASSUME NEW w, Typed(w), RootIsDeleted
    PROVE  \E v : Typed(v)'
<1>1. PICK k \in Usable :
        Event("delete", IF Len(threads[k].comments) = 1 THEN RemoveAt(threads, k)
                 ELSE [threads EXCEPT ![k].comments = Tail(@)])
  BY DEF RootIsDeleted
<1> DEFINE n == [threads[k] EXCEPT !.comments = Tail(@)]
           us == [threads EXCEPT ![k] = n]
           ts == IF Len(threads[k].comments) = 1 THEN RemoveAt(threads, k) ELSE us
<1>2. n \in Nodes(w)
  BY UsableIs, NodeFields
<1>3. Event("delete", ts)
  BY <1>1
<1> HIDE DEF n
<1>4. us \in Seq(Nodes(w))
  BY <1>2, SetAt DEF Typed
<1>5. RemoveAt(threads, k) \in Seq(Nodes(w))
  BY ThreadsWithout
<1>6. ts \in Seq(Nodes(w))
  BY <1>4, <1>5
<1> HIDE DEF ts
<1> QED
  BY <1>3, <1>6, QuietEvent

\* GitHub may give the comments of a thread new ids.
LEMMA ReissuedNode ==
    ASSUME NEW w, NEW n \in Nodes(w), NEW reissue \in BOOLEAN, NEW id \in Nat
    PROVE  [n EXCEPT !.id = id, !.comments = Reissued(@, reissue)] \in Nodes(w)
<1> DEFINE e(d) == [d EXCEPT !.gen = IF reissue THEN @ + 1 ELSE @]
           cs == Reissued(n.comments, reissue)
<1>1. n.comments \in Seq(Comments(w)) /\ \A j \in 2..Len(n.comments) : n.comments[j] \in Replies(w)
  BY DEF Nodes
<1>2. ASSUME NEW d \in Comments(w)
      PROVE  e(d) \in Comments(w) /\ (d \in Replies(w) => e(d) \in Replies(w))
  <2> DEFINE f == e(d)
  <2>1. f \in Sayings /\ f.born = d.born /\ f.by = d.by /\ f.text = d.text
    BY DEF Comments, Sayings
  <2> HIDE DEF f
  <2>2. Lasting(f) = Lasting(d)
    BY <2>1 DEF Lasting, Words
  <2>3. f \in Comments(w)
    BY <2>1, <2>2 DEF Comments
  <2>4. d \in Replies(w) => f \in Replies(w)
    BY <2>1, <2>3 DEF Replies
  <2> QED
    BY <2>3, <2>4 DEF f
<1>3. cs = [j \in DOMAIN n.comments |-> e(n.comments[j])]
  BY DEF Reissued
<1> HIDE DEF e, cs
<1>4. \A j \in DOMAIN n.comments : cs[j] \in Comments(w) /\ (n.comments[j] \in Replies(w) => cs[j] \in Replies(w))
  BY <1>1, <1>2, <1>3
<1>5. cs \in Seq(Comments(w)) /\ Len(cs) = Len(n.comments)
  BY <1>1, <1>3, <1>4
<1>6. ASSUME NEW j \in 2..Len(cs) PROVE cs[j] \in Replies(w)
  <2>1. j \in DOMAIN n.comments /\ j \in 2..Len(n.comments)
    BY <1>1, <1>5
  <2> QED
    BY <1>1, <1>4, <2>1
<1>7. [n EXCEPT !.id = id, !.comments = cs] \in Nodes(w)
  BY <1>5, <1>6 DEF Nodes
<1> QED
  BY <1>7 DEF cs

\* A node that GitHub rejects.
LEMMA RejectedNodeTypes ==
    ASSUME NEW w, NEW n \in Nodes(w), NEW b \in BOOLEAN
    PROVE  [n EXCEPT !.ok = FALSE, !.comments = IF b THEN <<>> ELSE @] \in Nodes(w)
<1> DEFINE cs == IF b THEN <<>> ELSE n.comments
<1>1. cs \in Seq(Comments(w)) /\ \A j \in 2..Len(cs) : cs[j] \in Replies(w)
  <2>1. CASE b
    BY <2>1
  <2>2. CASE ~b
    BY <2>2 DEF Nodes
  <2> QED
    BY <2>1, <2>2
<1> HIDE DEF cs
<1>2. [n EXCEPT !.ok = FALSE, !.comments = cs] \in Nodes(w)
  BY <1>1 DEF Nodes
<1> QED
  BY <1>2 DEF cs

\* A thread gets another node, and maybe its comments other ids.
LEMMA ThreadIsReplacedKeeps ==
    ASSUME NEW w, Typed(w), ThreadIsReplaced
    PROVE  \E v : Typed(v)'
<1> DEFINE old(k, rest) == [threads[k] EXCEPT !.ok = FALSE,
                                      !.comments = IF rest = "commentless" THEN <<>> ELSE @]
           new(k, reissue) == [threads[k] EXCEPT !.id = stamp + 1, !.comments = Reissued(@, reissue)]
<1>1. PICK k \in Usable, reissue \in BOOLEAN, rest \in {"gone", "listed", "commentless"} :
         Event("replace", IF rest = "gone" THEN Append(RemoveAt(threads, k), new(k, reissue))
                     ELSE Append([threads EXCEPT ![k] = old(k, rest)], new(k, reissue)))
  BY DEF ThreadIsReplaced
<1> DEFINE o == old(k, rest)
           m == new(k, reissue)
           us == [threads EXCEPT ![k] = o]
           ts == IF rest = "gone" THEN Append(RemoveAt(threads, k), m) ELSE Append(us, m)
<1>2. threads[k] \in Nodes(w) /\ stamp + 1 \in Nat
  BY UsableIs DEF Typed, Timed
<1>3. m \in Nodes(w)
  <2> DEFINE n == threads[k]
             i == stamp + 1
  <2>1. n \in Nodes(w) /\ i \in Nat
    BY <1>2
  <2>2. m = [n EXCEPT !.id = i, !.comments = Reissued(@, reissue)]
    OBVIOUS
  <2> HIDE DEF n, i, m
  <2> QED
    BY <2>1, <2>2, ReissuedNode
<1>4. o \in Nodes(w)
  BY <1>2, RejectedNodeTypes
<1>5. Event("replace", ts)
  BY <1>1
<1> HIDE DEF o, m
<1>6. us \in Seq(Nodes(w))
  BY <1>4, SetAt DEF Typed
<1>7. RemoveAt(threads, k) \in Seq(Nodes(w))
  BY ThreadsWithout
<1> HIDE DEF us
<1>8. ts \in Seq(Nodes(w))
  BY <1>3, <1>6, <1>7
<1> HIDE DEF ts
<1> QED
  BY <1>5, <1>8, QuietEvent

\* Whatever reviewers and GitHub do, there is a history of the state.
LEMMA GitHubKeeps ==
    ASSUME NEW w, Typed(w), GitHub
    PROVE  \E v : Typed(v)'
BY ReviewerOpensKeeps, ReviewerRepliesKeeps, ReviewerResolvesKeeps, ReviewerReopensKeeps,
   ReviewerEditsKeeps, ReviewerRepostsKeeps, RootIsDeletedKeeps, ThreadIsReplacedKeeps
   DEF GitHub

-----------------------------------------------------------------------------
(* The start *)

\* There is one initially.
LEMMA InitTyped ==
    ASSUME ReviewInit
    PROVE  \E v : Typed(v)
<1> DEFINE root == Comment(1, "reviewer", CHOOSE x \in Suggestions : TRUE)
           line == CHOOSE l \in Lines : TRUE
           n0 == Node(1, line, <<root>>)
           seeded == CreateTask(n0)
           Mine(kind) == Comment(2, Me, Text(kind))
           Begin(replies, t, written) ==
            /\ threads = <<Node(1, seeded.line, <<root>> \o replies)>> /\ tasks = <<t>>
            /\ stamp = 1 + Len(replies)
            /\ login = (replies # <<>>) /\ authored = {c.born : c \in ToSet(replies)}
            /\ edits = [i \in TaskIndex |-> IF i = 1 THEN written ELSE 0]
           none == [words |-> [b \in Nat |-> Unsaid], stamp |-> 0, authored |-> {}, told |-> {}]
           w1 == Then(none, Lasting(root), FALSE)
           w2(kind) == Then(w1, Words(Mine(kind)), Own(kind))
<1>0. line \in Lines /\ root.text \in Suggestions /\ root.by = "reviewer" /\ root.born = 1
      /\ root \in [born : Nat, gen : Nat, by : People, text : Texts]
  BY ReviewAssumption DEF Comment, People, Texts
<1>1. Timed(none) /\ none.stamp = 0 /\ none.told = {} /\ none.authored = {}
  BY DEF Timed, Unsaid, Sayable, People
<1> HIDE DEF root, none, line
<1>2. Timed(w1) /\ root \in Comments(w1) /\ Lasting(root) \in Sayable
  <2>0. root.born = none.stamp + 1 /\ root.text \in Suggestions \cup Answers
    BY <1>0, <1>1
  <2>1. Lasting(root) \in Sayable /\ root \in Comments(w1)
    BY <1>0, <1>1, <2>0, ReviewerSays
  <2> QED
    BY <1>1, <2>1, ThenGrows
<1>3. w1.stamp = 1 /\ w1.told = {} /\ w1.authored = {}
  BY <1>1 DEF Then
<1> HIDE DEF w1
<1>4. n0 \in Nodes(w1) /\ n0.comments # <<>> /\ n0.line = line
  <2>1. n0 \in Nodes(w1)
    BY <1>0, <1>2, NodeTypes
  <2> QED
    BY <2>1 DEF Node
<1>5. seeded \in Tasks(w1) /\ seeded.line = line
  <2>1. seeded \in Tasks(w1)
    BY <1>4, CreateTaskTypes
  <2>2. seeded.line = n0.line
    BY DEF CreateTask
  <2> QED
    BY <1>4, <2>1, <2>2
<1> HIDE DEF n0, seeded
<1>6. ASSUME NEW w, Timed(w), w.stamp = stamp, w.authored = authored, w.told = told,
             NEW n \in Nodes(w), NEW t \in Tasks(w), threads = <<n>>, tasks = <<t>>
      PROVE  Typed(w)
  <2>1. fetches = <<>> /\ calls = [c \in Calls |-> Idle]
    BY DEF ReviewInit
  <2>2. Idle \in Actions(w) /\ Idle.task = 1
    BY DEF Idle, Actions, CallPcs, Outs, None, Texts
  <2>3. threads \in Seq(Nodes(w)) /\ tasks \in Seq(Tasks(w)) /\ tasks # <<>> /\ 1 \in DOMAIN tasks
    BY <1>6
  <2> QED
    BY <1>6, <2>1, <2>2, <2>3 DEF Typed
<1>7. told = {}
  BY DEF ReviewInit
<1>8. CASE Begin(<<>>, seeded, 0)
  <2>1. threads = <<n0>> /\ tasks = <<seeded>>
    BY <1>4, <1>5, <1>8 DEF n0
  <2>2. stamp = 1 /\ authored = {}
    <3>1. stamp = 1
      BY <1>8
    <3>2. authored = {}
      BY <1>8 DEF ToSet
    <3> QED
      BY <3>1, <3>2
  <2> QED
    BY <1>2, <1>3, <1>4, <1>5, <1>6, <1>7, <2>1, <2>2
<1>9. ASSUME NEW kind \in {"block", "accept"}
      PROVE  /\ Timed(w2(kind)) /\ w2(kind).stamp = 2 /\ w2(kind).authored = {2} /\ w2(kind).told = {}
             /\ Mine(kind) \in Replies(w2(kind)) /\ Mine(kind).text \in OwnTexts /\ Mine(kind).born = 2
             /\ seeded \in Tasks(w2(kind)) /\ Node(1, line, <<root>> \o <<Mine(kind)>>) \in Nodes(w2(kind))
  <2> DEFINE c == Mine(kind)
             x == Words(c)
             w == w2(kind)
  <2>1. Own(kind) = TRUE
    BY DEF Own
  <2>2. c.text \in OwnTexts /\ c.born = 2
    BY DEF Comment, Text, OwnTexts
  <2>3. x \in Sayable /\ c \in Replies(w)
    BY <1>2, <1>3, AgentSays
  <2>4. Timed(w) /\ Grows(w1, w)
    <3> DEFINE own == Own(kind)
    <3>1. own \in BOOLEAN /\ w = Then(w1, x, own)
      BY <2>1
    <3> HIDE DEF x, w, own
    <3> QED
      BY <1>2, <2>3, <3>1, ThenGrows
  <2>5. w.stamp = 2 /\ w.authored = {2} /\ w.told = {}
    BY <1>3, <2>1 DEF Then
  <2> HIDE DEF w, c
  <2>6. seeded \in Tasks(w)
    BY <1>5, <2>4, TasksGrow
  <2>7. n0 \in Nodes(w)
    BY <1>4, <2>4, NodesGrow
  <2> DEFINE n1 == [n0 EXCEPT !.comments = Append(@, c)]
  <2>8. n1 \in Nodes(w)
    BY <1>4, <2>3, <2>7, NodeFields
  <2>9. n1 = Node(1, line, <<root>> \o <<c>>)
    <3>1. Append(<<root>>, c) = <<root>> \o <<c>>
      OBVIOUS
    <3>2. n0.comments = <<root>>
      BY DEF n0, Node
    <3> DEFINE cs == <<root>> \o <<c>>
    <3>3. n1 = [n0 EXCEPT !.comments = cs]
      BY <3>1, <3>2
    <3> HIDE DEF cs, n1
    <3>4. n1 = Node(1, line, cs)
      BY <3>3 DEF n0, Node
    <3> QED
      BY <3>4 DEF cs
  <2> HIDE DEF n1
  <2> QED
    BY <2>2, <2>3, <2>4, <2>5, <2>6, <2>8, <2>9 DEF w, c
<1>10. ASSUME NEW kind, NEW t, NEW k, Begin(<<Mine(kind)>>, t, k)
       PROVE  /\ threads = <<Node(1, line, <<root>> \o <<Mine(kind)>>)>> /\ tasks = <<t>>
              /\ stamp = 2 /\ authored = {2}
  <2>1. stamp = 2
    BY <1>10
  <2>2. authored = {2}
    BY <1>10 DEF ToSet, Comment
  <2> QED
    BY <1>5, <1>10, <2>1, <2>2
<1>11. CASE Begin(<<Mine("block")>>, MarkBlocked(AddReply(seeded, Mine("block"))), 0)
  <2> DEFINE c == Mine("block")
             w == w2("block")
             n == Node(1, line, <<root>> \o <<c>>)
             u == AddReply(seeded, c)
             t == MarkBlocked(u)
  <2>1. /\ Timed(w) /\ w.stamp = 2 /\ w.authored = {2} /\ w.told = {}
        /\ c \in Replies(w) /\ c.text \in OwnTexts /\ seeded \in Tasks(w) /\ n \in Nodes(w)
    BY <1>9
  <2>2. threads = <<n>> /\ tasks = <<t>> /\ stamp = 2 /\ authored = {2}
    BY <1>10, <1>11
  <2> HIDE DEF c, w, n
  <2>3. u \in Tasks(w)
    BY <2>1, AddReplyKeeps
  <2> HIDE DEF u
  <2>4. t \in Tasks(w)
    BY <2>3, MarkBlockedKeeps
  <2> HIDE DEF t
  <2> QED
    BY <1>6, <1>7, <2>1, <2>2, <2>4
<1>12. CASE Begin(<<Mine("accept")>>,
                 [AddReply(MarkShown(seeded, {}), Mine("accept")) EXCEPT
                     !.replied = TRUE, !.applied = root.text], 1)
  <2> DEFINE c == Mine("accept")
             w == w2("accept")
             n == Node(1, line, <<root>> \o <<c>>)
             u == AddReply(MarkShown(seeded, {}), c)
             u1 == [u EXCEPT !.replied = TRUE]
             t == [u EXCEPT !.replied = TRUE, !.applied = root.text]
  <2>1. /\ Timed(w) /\ w.stamp = 2 /\ w.authored = {2} /\ w.told = {}
        /\ c \in Replies(w) /\ c.text \in OwnTexts /\ seeded \in Tasks(w) /\ n \in Nodes(w)
    BY <1>9
  <2>2. threads = <<n>> /\ tasks = <<t>> /\ stamp = 2 /\ authored = {2}
    BY <1>10, <1>12
  <2> HIDE DEF c, w, n
  <2>3. u \in Tasks(w)
    <3>1. MarkShown(seeded, {}) \in Tasks(w)
      BY <2>1, MarkShownKeeps
    <3> QED
      BY <2>1, <3>1, AddReplyKeeps
  <2>4. t = [u1 EXCEPT !.applied = root.text]
    OBVIOUS
  <2> HIDE DEF u
  <2>5. u1 \in Tasks(w)
    BY <2>3, PlainField
  <2> HIDE DEF u1
  <2>6. root.text \in Texts \cup {None}
    BY <1>0 DEF Texts
  <2>7. t \in Tasks(w)
    BY <2>4, <2>5, <2>6, PlainField
  <2> HIDE DEF t
  <2> QED
    BY <1>6, <1>7, <2>1, <2>2, <2>7
<1>13. Begin(<<>>, seeded, 0) \/ Begin(<<Mine("block")>>, MarkBlocked(AddReply(seeded, Mine("block"))), 0)
       \/ Begin(<<Mine("accept")>>, [AddReply(MarkShown(seeded, {}), Mine("accept")) EXCEPT
                     !.replied = TRUE, !.applied = root.text], 1)
  BY DEF ReviewInit, FirstThread, root, line, n0, seeded
<1> QED
  BY <1>8, <1>11, <1>12, <1>13

-----------------------------------------------------------------------------
(* Thread lists *)

\* What a list may read are threads.
LEMMA ReadsTypes ==
    ASSUME NEW w, Typed(w), NEW nodes \in Reads
    PROVE  nodes \in Seq(Nodes(w))
<1>1. PICK lag \in BOOLEAN :
         nodes = [j \in DOMAIN threads |-> [threads[j] EXCEPT !.resolved = @ /\ ~(lag /\ Lagging(j))]]
  BY DEF Reads
<1>2. threads \in Seq(Nodes(w))
  BY DEF Typed
<1>3. ASSUME NEW j \in DOMAIN threads
      PROVE  [threads[j] EXCEPT !.resolved = @ /\ ~(lag /\ Lagging(j))] \in Nodes(w)
  <2> DEFINE b == threads[j].resolved /\ ~(lag /\ Lagging(j))
  <2>1. b \in BOOLEAN
    OBVIOUS
  <2>2. threads[j] \in Nodes(w)
    BY <1>2
  <2> HIDE DEF b
  <2>3. [threads[j] EXCEPT !.resolved = b] \in Nodes(w)
    BY <2>1, <2>2, NodeFields
  <2> QED
    BY <2>3 DEF b
<1> DEFINE f(j) == [threads[j] EXCEPT !.resolved = @ /\ ~(lag /\ Lagging(j))]
           S == Nodes(w)
<1>4. nodes = [j \in DOMAIN threads |-> f(j)]
  BY <1>1
<1>5. \A j \in DOMAIN threads : f(j) \in S
  BY <1>3
<1>6. threads \in Seq(S)
  BY <1>2
<1> HIDE DEF f, S
<1>7. nodes \in Seq(S)
  BY <1>4, <1>5, <1>6
<1> QED
  BY <1>7 DEF S

\* What may become of a list under way.
LEMMA ListFields ==
    ASSUME NEW w, NEW f \in ThreadLists(w)
    PROVE  /\ \A b \in BOOLEAN : [f EXCEPT !.late = b] \in ThreadLists(w)
           /\ \A i \in Nat : [f EXCEPT !.before = @ \cup {i}] \in ThreadLists(w)
           /\ \A ns \in Seq(Nodes(w)), b \in BOOLEAN :
                 [f EXCEPT !.read = TRUE, !.nodes = ns, !.behind = b] \in ThreadLists(w)
<1>1. \A b \in BOOLEAN : [f EXCEPT !.late = b] \in ThreadLists(w)
  BY DEF ThreadLists
<1>2. \A i \in Nat : [f EXCEPT !.before = @ \cup {i}] \in ThreadLists(w)
  BY DEF ThreadLists
<1>3. \A ns \in Seq(Nodes(w)), b \in BOOLEAN :
         [f EXCEPT !.read = TRUE, !.nodes = ns, !.behind = b] \in ThreadLists(w)
  BY DEF ThreadLists
<1> QED
  BY <1>1, <1>2, <1>3

\* It is read,
LEMMA ReadAtTypes ==
    ASSUME NEW w, NEW fs \in Seq(ThreadLists(w)), NEW k \in DOMAIN fs, NEW nodes \in Seq(Nodes(w))
    PROVE  /\ ReadAt(fs, k, nodes) \in Seq(ThreadLists(w)) /\ DOMAIN ReadAt(fs, k, nodes) = DOMAIN fs
           /\ \A j \in DOMAIN fs : ReadAt(fs, k, nodes)[j].by = fs[j].by
<1> DEFINE b == nodes # threads
           f == [fs[k] EXCEPT !.read = TRUE, !.nodes = nodes, !.behind = b]
           S == ThreadLists(w)
           gs == [fs EXCEPT ![k] = f]
<1>1. fs[k] \in S /\ b \in BOOLEAN
  OBVIOUS
<1>2. ReadAt(fs, k, nodes) = gs
  BY DEF ReadAt
<1> HIDE DEF b
<1>3. f \in S
  BY <1>1, ListFields
<1>4. f.by = fs[k].by
  BY <1>1 DEF ThreadLists
<1> HIDE DEF f, S
<1>5. gs \in Seq(S) /\ Len(gs) = Len(fs)
  BY <1>3, SetAt DEF S
<1>6. DOMAIN gs = DOMAIN fs /\ \A j \in DOMAIN fs : gs[j] = IF j = k THEN f ELSE fs[j]
  OBVIOUS
<1> HIDE DEF gs
<1> QED
  BY <1>2, <1>4, <1>5, <1>6 DEF S

\* another one is asked for,
LEMMA BeginFetchTypes ==
    ASSUME NEW w, Typed(w), NEW c \in Calls \cup {0}
    PROVE  /\ BeginFetch(c) \in Seq(ThreadLists(w)) /\ Len(BeginFetch(c)) = Len(fetches) + 1
           /\ \A j \in DOMAIN fetches : BeginFetch(c)[j] = fetches[j]
           /\ BeginFetch(c)[Len(fetches) + 1].by = c
<1> DEFINE f == [by |-> c, read |-> FALSE, nodes |-> <<>>, behind |-> FALSE, late |-> FALSE, before |-> {}]
<1>1. f \in ThreadLists(w) /\ f.by = c
  BY DEF ThreadLists
<1>2. BeginFetch(c) = Append(fetches, f) /\ fetches \in Seq(ThreadLists(w))
  BY DEF BeginFetch, Typed
<1> HIDE DEF f
<1> QED
  BY <1>1, <1>2

\* it arrives,
LEMMA AfterListTypes ==
    ASSUME NEW w, Typed(w), NEW k \in DOMAIN fetches
    PROVE  /\ AfterList(k) \in Seq(ThreadLists(w)) /\ Len(AfterList(k)) = Len(fetches) - 1
           /\ \A j \in DOMAIN AfterList(k) : AfterList(k)[j].by = fetches[IF j < k THEN j ELSE j + 1].by
<1> DEFINE b(j) == fetches[j].late \/ (j < k /\ ~fetches[k].late)
           f(j) == [fetches[j] EXCEPT !.late = b(j)]
           fs == [j \in DOMAIN fetches |-> f(j)]
           S == ThreadLists(w)
<1>1. fetches \in Seq(S)
  BY DEF Typed
<1>2. AfterList(k) = RemoveAt(fs, k)
  BY DEF AfterList
<1>3. ASSUME NEW j \in DOMAIN fetches PROVE f(j) \in S /\ f(j).by = fetches[j].by
  <2>1. b(j) \in BOOLEAN /\ fetches[j] \in S
    BY <1>1
  <2> HIDE DEF b
  <2>2. f(j) \in S
    BY <2>1, ListFields
  <2>3. f(j).by = fetches[j].by
    BY <2>1 DEF ThreadLists
  <2> QED
    BY <2>2, <2>3
<1> HIDE DEF f, S
<1>4. fs \in Seq(S) /\ Len(fs) = Len(fetches) /\ DOMAIN fs = DOMAIN fetches
  BY <1>1, <1>3
<1>5. \A j \in DOMAIN fetches : fs[j].by = fetches[j].by
  BY <1>3
<1> HIDE DEF fs
<1> DEFINE r == RemoveAt(fs, k)
<1>6. /\ r \in Seq(S) /\ Len(r) = Len(fs) - 1
      /\ \A j \in DOMAIN r : r[j] = fs[IF j < k THEN j ELSE j + 1]
  BY <1>4, RemoveAtOf
<1> HIDE DEF r
<1>7. ASSUME NEW j \in DOMAIN r PROVE r[j].by = fetches[IF j < k THEN j ELSE j + 1].by
  <2> DEFINE m == IF j < k THEN j ELSE j + 1
  <2>1. m \in DOMAIN fetches
    <3>1. j \in 1..(Len(fetches) - 1) /\ Len(fetches) \in Nat /\ k \in 1..Len(fetches)
      BY <1>1, <1>4, <1>6
    <3>2. m \in 1..Len(fetches)
      BY <3>1
    <3> QED
      BY <1>1, <3>2
  <2>2. r[j] = fs[m]
    BY <1>6
  <2> HIDE DEF m
  <2> QED
    BY <1>5, <2>1, <2>2 DEF m
<1> QED
  BY <1>2, <1>4, <1>6, <1>7 DEF r, S

\* it fails,
LEMMA WithoutListTypes ==
    ASSUME NEW w, Typed(w), NEW k \in DOMAIN fetches
    PROVE  /\ RemoveAt(fetches, k) \in Seq(ThreadLists(w)) /\ Len(RemoveAt(fetches, k)) = Len(fetches) - 1
           /\ \A j \in DOMAIN RemoveAt(fetches, k) : RemoveAt(fetches, k)[j] = fetches[IF j < k THEN j ELSE j + 1]
<1> DEFINE S == ThreadLists(w)
<1>1. fetches \in Seq(S)
  BY DEF Typed
<1> HIDE DEF S
<1>2. /\ RemoveAt(fetches, k) \in Seq(S) /\ Len(RemoveAt(fetches, k)) = Len(fetches) - 1
      /\ \A j \in DOMAIN RemoveAt(fetches, k) : RemoveAt(fetches, k)[j] = fetches[IF j < k THEN j ELSE j + 1]
  BY <1>1, RemoveAtOf
<1> QED
  BY <1>2 DEF S

\* or a resolve comes after it.
LEMMA AfterResolveTypes ==
    ASSUME NEW w, NEW fs \in Seq(ThreadLists(w)), NEW i \in Nat
    PROVE  /\ AfterResolve(fs, i) \in Seq(ThreadLists(w)) /\ DOMAIN AfterResolve(fs, i) = DOMAIN fs
           /\ \A j \in DOMAIN fs : AfterResolve(fs, i)[j].by = fs[j].by
<1> DEFINE f(j) == [fs[j] EXCEPT !.before = @ \cup {i}]
           S == ThreadLists(w)
<1>1. ASSUME NEW j \in DOMAIN fs PROVE f(j) \in S /\ f(j).by = fs[j].by
  <2>1. fs[j] \in S
    OBVIOUS
  <2>2. f(j) \in S
    BY <2>1, ListFields
  <2>3. f(j).by = fs[j].by
    BY <2>1 DEF ThreadLists
  <2> QED
    BY <2>2, <2>3
<1>2. AfterResolve(fs, i) = [j \in DOMAIN fs |-> f(j)]
  BY DEF AfterResolve
<1> HIDE DEF f, S
<1>3. fs \in Seq(S)
  BY DEF S
<1>4. [j \in DOMAIN fs |-> f(j)] \in Seq(S)
  BY <1>1, <1>3
<1> QED
  BY <1>1, <1>2, <1>4 DEF S

\* What the manager makes of list k.
LEMMA SyncedKeeps ==
    ASSUME NEW w, Typed(w), NEW k \in DOMAIN fetches
    PROVE  /\ Synced(k).tasks \in Seq(Tasks(w)) /\ Len(Synced(k).tasks) >= Len(tasks)
           /\ \A i \in DOMAIN Synced(k).tasks :
                 Synced(k).tasks[i].applied = IF i \in DOMAIN tasks THEN tasks[i].applied ELSE None
<1>0. tasks \in Seq(Tasks(w)) /\ Len(tasks) \in Nat
  BY DEF Typed
<1>1. CASE fetches[k].late
  <2>1. Synced(k).tasks = tasks
    BY <1>1 DEF Synced
  <2> QED
    BY <1>0, <2>1
<1>2. CASE ~fetches[k].late
  <2> DEFINE ctx == [before |-> fetches[k].before, login |-> login, pending |-> [i \in DOMAIN tasks |-> Pending(i)]]
             nodes == fetches[k].nodes
  <2>1. Synced(k) = Sync(tasks, nodes, ctx)
    BY <1>2 DEF Synced
  <2>2. nodes \in Seq(Nodes(w))
    <3>1. fetches[k] \in ThreadLists(w)
      BY DEF Typed
    <3> QED
      BY <3>1 DEF ThreadLists
  <2>3. \A i \in DOMAIN tasks : \A p \in ctx.pending[i] : p.text \in OwnTexts
    BY DEF Pending, Text, Own, OwnTexts
  <2> HIDE DEF ctx, nodes
  <2> QED
    BY <1>0, <2>1, <2>2, <2>3, SyncKeeps
<1> QED
  BY <1>1, <1>2

\* GitHub reads a list.
LEMMA FetchReadsKeeps ==
    ASSUME NEW w, Typed(w), NEW k \in DOMAIN fetches, FetchReads(k)
    PROVE  Typed(w)'
<1>1. PICK nodes \in Reads : fetches' = ReadAt(fetches, k, nodes)
  BY DEF FetchReads
<1>2. fetches' \in Seq(ThreadLists(w))
  BY <1>1, ReadsTypes, ReadAtTypes DEF Typed
<1>3. UNCHANGED <<stamp, threads, authored, told, tasks, calls>>
  BY DEF FetchReads, githubVars, ghostVars, postVars
<1> QED
  BY <1>2, <1>3 DEF Typed

\* The replica has caught up.
LEMMA GraceEndsKeeps ==
    ASSUME NEW w, Typed(w), NEW i \in DOMAIN tasks, GraceEnds(i)
    PROVE  /\ Typed(w)' /\ DOMAIN tasks' = DOMAIN tasks
           /\ \A j \in DOMAIN tasks : tasks'[j].applied = tasks[j].applied
<1> DEFINE t == [tasks[i] EXCEPT !.fresh = FALSE]
           ts == [tasks EXCEPT ![i] = t]
<1>0. tasks \in Seq(Tasks(w)) /\ tasks[i] \in Tasks(w) /\ tasks # <<>>
  BY DEF Typed
<1>1. t \in Tasks(w) /\ t.applied = tasks[i].applied
  <2>1. t \in Tasks(w)
    BY <1>0, PlainField
  <2> QED
    BY <1>0, <2>1 DEF Tasks, TaskFields
<1>2. tasks' = ts
  BY DEF GraceEnds
<1> HIDE DEF t
<1>3. ts \in Seq(Tasks(w)) /\ Len(ts) = Len(tasks)
  BY <1>0, <1>1, SetAt
<1>4. DOMAIN ts = DOMAIN tasks /\ \A j \in DOMAIN tasks : ts[j].applied = tasks[j].applied
  BY <1>1
<1> HIDE DEF ts
<1>5. UNCHANGED <<stamp, threads, authored, told, fetches, calls>>
  BY DEF GraceEnds, githubVars, ghostVars, postVars
<1>6. ts # <<>>
  BY <1>0, <1>4
<1>7. Typed(w)'
  BY <1>2, <1>3, <1>4, <1>5, <1>6 DEF Typed
<1> QED
  BY <1>2, <1>4, <1>7

-----------------------------------------------------------------------------
(* Calls of gh *)

\* The fields of an action that a step changes.
WithAnswer(a, out, born) == [a EXCEPT !.pc = "replied", !.out = out, !.born = born]

\* The answer of a call that posts or resolves.
LEMMA AnswerTypes ==
    \A w, v, a, out, born :
        /\ Grows(w, v) /\ a \in Actions(w) /\ out \in Outs /\ born \in Nat
        /\ (out = "ok" => Comment(born, Me, Text(a.kind)) \in Replies(v))
        => WithAnswer(a, out, born) \in Actions(v) /\ WithAnswer(a, out, born).task = a.task
<1>1. ASSUME NEW w, NEW v, NEW a, NEW out, NEW born,
             Grows(w, v), a \in Actions(w), out \in Outs, born \in Nat,
             out = "ok" => Comment(born, Me, Text(a.kind)) \in Replies(v)
      PROVE  WithAnswer(a, out, born) \in Actions(v) /\ WithAnswer(a, out, born).task = a.task
  <2> DEFINE b == WithAnswer(a, out, born)
  <2>1. /\ b.pc = "replied" /\ b.out = out /\ b.born = born /\ b.kind = a.kind /\ b.task = a.task
        /\ b \in [kind : Kinds \cup {None}, task : Nat, pc : CallPcs, first : Nat, thread : Nat,
                  born : Nat, out : Outs, stale : BOOLEAN]
    BY <1>1 DEF Actions, CallPcs, WithAnswer
  <2> HIDE DEF b
  <2>2. b \in Actions(v)
    BY <1>1, <2>1 DEF Actions
  <2> QED
    BY <2>1, <2>2 DEF b
<1> QED
  BY <1>1

\* A reply is posted, and its answer may get lost.
LEMMA ReplyIsPostedKeeps ==
    ASSUME NEW w, Typed(w), NEW c \in Calls, ReplyIsPosted(c)
    PROVE  \E v : Typed(v)'
<1> DEFINE a == calls[c]
           kind == a.kind
           m == Comment(stamp + 1, Me, Text(kind))
           v == Then(w, Words(m), Own(kind))
<1>0. /\ Timed(w) /\ stamp \in Nat /\ w.stamp = stamp /\ calls \in [Calls -> Actions(w)] /\ a \in Actions(w)
      /\ \A d \in Calls : calls[d].task \in DOMAIN tasks
  BY DEF Typed, Timed
<1>1. UNCHANGED <<tasks, fetches, told>>
  BY DEF ReplyIsPosted
<1>2. a.kind \in Kinds \cup {None} /\ a.born \in Nat /\ stamp + 1 \in Nat
  BY <1>0 DEF Actions
<1>3. Grows(w, w)
  BY <1>0 DEF Grows, Timed
<1>4. ASSUME NEW out \in {"dead", "fail"}, Answer(c, out), UNCHANGED <<githubVars, authored>>
      PROVE  Typed(w)'
  <2> DEFINE b == [a EXCEPT !.pc = "replied", !.out = out, !.born = a.born]
  <2>1. b \in Actions(w) /\ b.task = a.task
    <3>1. out \in Outs /\ out # "ok"
      BY DEF Outs
    <3>2. /\ a \in Actions(w) /\ a.kind \in Kinds \cup {None} /\ a.born \in Nat
          /\ out = "ok" => Comment(a.born, Me, Text(a.kind)) \in Replies(w)
      BY <1>0, <1>2
    <3>3. b = WithAnswer(a, out, a.born)
      BY DEF WithAnswer
    <3> HIDE DEF a, b
    <3> QED
      BY <1>3, <3>1, <3>2, <3>3, AnswerTypes
  <2>2. calls' = [calls EXCEPT ![c] = b]
    BY <1>4 DEF Answer
  <2> HIDE DEF b
  <2>3. calls' \in [Calls -> Actions(w)] /\ \A d \in Calls : calls'[d].task \in DOMAIN tasks
    BY <1>0, <2>1, <2>2
  <2> QED
    BY <1>1, <1>4, <2>3 DEF Typed, githubVars
<1>5. ASSUME NEW k \in Targets(c), NEW out \in {"ok", "lost"}, Answer(c, out),
             threads' = [threads EXCEPT ![k].comments = Append(@, m)],
             stamp' = stamp + 1,
             authored' = IF Own(kind) THEN authored \cup {stamp + 1} ELSE authored
      PROVE  \E u : Typed(u)'
  <2> DEFINE b == [a EXCEPT !.pc = "replied", !.out = out, !.born = stamp + 1]
  <2>1. Words(m) \in Sayable /\ m \in Replies(v)
    BY <1>0, AgentSays
  <2>2. Timed(v) /\ Grows(w, v)
    <3> DEFINE x == Words(m)
               own == Own(kind)
    <3>1. own \in BOOLEAN /\ v = Then(w, x, own)
      BY DEF Own
    <3> HIDE DEF x, own, v
    <3> QED
      BY <1>0, <2>1, <3>1, ThenGrows DEF x
  <2>3. v.stamp = stamp' /\ v.authored = authored' /\ v.told = told'
    BY <1>0, <1>1, <1>5 DEF Then, Typed
  <2>b. Words(m) \in Sayable /\ Comment(stamp + 1, Me, Text(kind)) \in Replies(v)
    BY <2>1
  <2> HIDE DEF v
  <2>c. PICK u : u = v
    OBVIOUS
  <2>d. /\ m \in Replies(u) /\ Comment(stamp + 1, Me, Text(kind)) \in Replies(u) /\ Timed(u) /\ Grows(w, u)
        /\ u.stamp = stamp' /\ u.authored = authored' /\ u.told = told'
    BY <2>1, <2>2, <2>3, <2>b, <2>c
  <2> HIDE DEF m
  <2>4. b \in Actions(u) /\ b.task = a.task
    <3>1. out \in Outs
      BY DEF Outs
    <3> DEFINE s == stamp + 1
    <3>2. s \in Nat /\ Comment(s, Me, Text(a.kind)) \in Replies(u)
      BY <1>2, <2>d
    <3>4. a \in Actions(w) /\ a.kind \in Kinds \cup {None} /\ Grows(w, u)
      BY <1>0, <1>2, <2>d
    <3> HIDE DEF a, s
    <3>3. WithAnswer(a, out, s) \in Actions(u) /\ WithAnswer(a, out, s).task = a.task
      BY <3>1, <3>2, <3>4, AnswerTypes
    <3> QED
      BY <3>3 DEF s, WithAnswer
  <2>5. calls' = [calls EXCEPT ![c] = b]
    BY <1>5 DEF Answer
  <2>6. threads \in Seq(Nodes(u)) /\ tasks \in Seq(Tasks(u)) /\ fetches \in Seq(ThreadLists(u))
        /\ calls \in [Calls -> Actions(u)]
    BY <2>d, TypedGrows
  <2> HIDE DEF b
  <2>7. calls' \in [Calls -> Actions(u)] /\ \A d \in Calls : calls'[d].task \in DOMAIN tasks
    BY <1>0, <2>4, <2>5, <2>6
  <2> DEFINE n == [threads[k] EXCEPT !.comments = Append(@, m)]
             ts == [threads EXCEPT ![k] = n]
  <2>8. threads' = ts
    BY <1>5
  <2>9. n \in Nodes(u)
    <3>1. threads[k] \in Nodes(u)
      BY <2>6 DEF Targets
    <3>2. threads[k].comments # <<>> => n \in Nodes(u)
      BY <2>d, <3>1, NodeFields
    <3>3. CASE threads[k].comments = <<>>
      <4>1. n = [threads[k] EXCEPT !.comments = <<m>>]
        BY <3>3
      <4>2. m \in Comments(u)
        BY <2>d DEF Replies
      <4> QED
        BY <3>1, <4>1, <4>2 DEF Nodes
    <3> QED
      BY <3>2, <3>3
  <2> HIDE DEF n
  <2>10. ts \in Seq(Nodes(u))
    BY <2>6, <2>9, SetAt
  <2> HIDE DEF ts
  <2>11. tasks # <<>>
    BY DEF Typed
  <2>12. Typed(u)'
    BY <1>1, <2>d, <2>6, <2>7, <2>8, <2>10, <2>11 DEF Typed
  <2> QED
    BY <2>12
<1>6. CASE RejectedNode(c) /\ Answer(c, "dead")
  BY <1>4, <1>6 DEF RejectedNode
<1>7. CASE MutationFails(c) /\ Answer(c, "fail")
  BY <1>4, <1>7 DEF MutationFails
<1>8. CASE \E k \in Targets(c), out \in {"ok", "lost"} :
             /\ IF out = "lost" THEN CallFails ELSE UNCHANGED left
             /\ threads' = [threads EXCEPT ![k].comments =
                               Append(@, Comment(stamp + 1, Me, Text(calls[c].kind)))]
             /\ stamp' = stamp + 1
             /\ Answer(c, out)
             /\ authored' = IF Own(calls[c].kind) THEN authored \cup {stamp + 1} ELSE authored
             /\ UNCHANGED closed
  BY <1>5, <1>8
<1> QED
  BY <1>6, <1>7, <1>8 DEF ReplyIsPosted

\* A thread is resolved.
LEMMA ThreadIsResolvedKeeps ==
    ASSUME NEW w, Typed(w), NEW c \in Calls, ThreadIsResolved(c)
    PROVE  Typed(w)'
<1> DEFINE a == calls[c]
<1>0. /\ calls \in [Calls -> Actions(w)] /\ a \in Actions(w)
      /\ \A d \in Calls : calls[d].task \in DOMAIN tasks
  BY DEF Typed
<1>1. UNCHANGED <<tasks, fetches, told>>
  BY DEF ThreadIsResolved
<1>2. ASSUME NEW out \in Outs, ResolveAnswer(c, out)
      PROVE  calls' \in [Calls -> Actions(w)] /\ \A d \in Calls : calls'[d].task \in DOMAIN tasks
  <2> DEFINE b == [a EXCEPT !.pc = "resolved", !.out = out]
  <2>1. b \in Actions(w) /\ b.task = a.task
    BY <1>0 DEF Actions, CallPcs
  <2>2. calls' = [calls EXCEPT ![c] = b]
    BY <1>2 DEF ResolveAnswer
  <2> HIDE DEF b
  <2> QED
    BY <1>0, <2>1, <2>2
<1>3. CASE (RejectedNode(c) \/ MutationFails(c)) /\ \E out \in {"dead", "fail", "declined"} : ResolveAnswer(c, out)
  <2>1. UNCHANGED <<stamp, threads, authored>>
    BY <1>3 DEF RejectedNode, MutationFails, githubVars
  <2>2. calls' \in [Calls -> Actions(w)] /\ \A d \in Calls : calls'[d].task \in DOMAIN tasks
    BY <1>2, <1>3 DEF Outs
  <2> QED
    BY <1>1, <2>1, <2>2 DEF Typed
<1>4. CASE \E k \in Targets(c), out \in {"ok", "lost"} :
             /\ threads' = [threads EXCEPT ![k].resolved = TRUE, ![k].mine = out = "ok"]
             /\ ResolveAnswer(c, out)
             /\ UNCHANGED <<stamp, authored>>
  <2>1. PICK k \in Targets(c), out \in {"ok", "lost"} :
             /\ threads' = [threads EXCEPT ![k].resolved = TRUE, ![k].mine = out = "ok"]
             /\ ResolveAnswer(c, out)
             /\ UNCHANGED <<stamp, authored>>
    BY <1>4
  <2> DEFINE b == out = "ok"
             n == [threads[k] EXCEPT !.resolved = TRUE, !.mine = b]
             ts == [threads EXCEPT ![k] = n]
  <2>2. threads \in Seq(Nodes(w)) /\ threads[k] \in Nodes(w) /\ k \in DOMAIN threads /\ b \in BOOLEAN
    BY DEF Typed, Targets
  <2>3. threads' = ts
    BY <2>1, <2>2
  <2> HIDE DEF b
  <2>4. n \in Nodes(w)
    BY <2>2, NodeFields
  <2> HIDE DEF n
  <2>5. ts \in Seq(Nodes(w))
    BY <2>2, <2>4, SetAt
  <2>6. calls' \in [Calls -> Actions(w)] /\ \A d \in Calls : calls'[d].task \in DOMAIN tasks
    BY <1>2, <2>1 DEF Outs
  <2> HIDE DEF ts
  <2> QED
    BY <1>1, <2>1, <2>3, <2>5, <2>6 DEF Typed
<1> QED
  BY <1>3, <1>4 DEF ThreadIsResolved

\* The agent is shown some tasks.
LEMMA ShowKeeps ==
    ASSUME NEW w, Typed(w), NEW S, NEW replies \in BOOLEAN, S \subseteq DOMAIN tasks, Show(S, replies)
    PROVE  /\ \E v : Typed(v)'
           /\ DOMAIN tasks' = DOMAIN tasks /\ \A i \in DOMAIN tasks : tasks'[i].applied = tasks[i].applied
<1> DEFINE more == IF replies THEN {Words(c) : c \in UNION {ToSet(tasks[i].replies) : i \in S}} ELSE {}
           v == Hearing(w, more)
<1>1. told' = told \cup more /\ tasks' = Shown(tasks, S, replies) /\ UNCHANGED <<stamp, threads, authored, fetches, calls>>
  BY DEF Show, githubVars, postVars
<1>2. Timed(w) /\ w.told = told /\ w.stamp = stamp /\ w.authored = authored /\ Timed(v) /\ Grows(w, v)
  BY HearingGrows DEF Typed
<1>3. v.stamp = stamp' /\ v.authored = authored' /\ v.told = told'
  BY <1>1, <1>2 DEF Hearing
<1>4. threads \in Seq(Nodes(v)) /\ tasks \in Seq(Tasks(v)) /\ fetches \in Seq(ThreadLists(v))
      /\ calls \in [Calls -> Actions(v)]
  BY <1>2, TypedGrows
<1>5. replies => \A i \in DOMAIN tasks \cap S : \A c \in ToSet(tasks[i].replies) : Words(c) \in v.told
  BY DEF Hearing
<1> HIDE DEF v, more
<1>c. PICK u : u = v
  OBVIOUS
<1>6. /\ tasks' \in Seq(Tasks(v)) /\ Len(tasks') = Len(tasks)
      /\ \A i \in DOMAIN tasks : tasks'[i].applied = tasks[i].applied
  BY <1>1, <1>4, <1>5, ShownKeeps
<1>7. DOMAIN tasks' = DOMAIN tasks /\ tasks' # <<>>
  BY <1>4, <1>6 DEF Typed
<1>8. \A c \in Calls : calls'[c].task \in DOMAIN tasks'
  BY <1>1, <1>7 DEF Typed
<1>9. Typed(u)'
  BY <1>c, <1>1, <1>2, <1>3, <1>4, <1>6, <1>7, <1>8 DEF Typed
<1> QED
  BY <1>6, <1>7, <1>9

-----------------------------------------------------------------------------
(* The steps of an action of the extension *)

\* Where a step leaves an action.
NextPcs == {"idle", "reply", "resolve", "edit", "final"}

\* A step r from task t.
Sound(r, w, t) ==
    /\ r.task \in Tasks(Hearing(w, r.show)) /\ r.task.applied = t.applied /\ r.pc \in NextPcs
    /\ r.pc = "edit" => r.task.text \in Suggestions

\* It goes on,
LEMMA GoOnSound ==
    ASSUME NEW w, Timed(w), NEW pc \in NextPcs, NEW t \in Tasks(w), pc = "edit" => t.text \in Suggestions
    PROVE  Sound(GoOn(pc, t), w, t) /\ GoOn(pc, t).pc = pc /\ GoOn(pc, t).task = t
<1> DEFINE r == GoOn(pc, t)
<1>1. r.pc = pc /\ r.task = t /\ r.show = {}
  BY DEF GoOn
<1>2. t \in Tasks(Hearing(w, {}))
  <2> DEFINE e == {}
  <2> HIDE DEF e
  <2>1. t \in Tasks(Hearing(w, e))
    BY HearingGrows, TasksGrow
  <2> QED
    BY <2>1 DEF e
<1> HIDE DEF r
<1>3. Sound(r, w, t)
  BY <1>1, <1>2 DEF Sound
<1> QED
  BY <1>1, <1>3 DEF r

\* it is done,
LEMMA ReturnSound ==
    ASSUME NEW w, Timed(w), NEW t \in Tasks(w)
    PROVE  Sound(Return(t), w, t) /\ Return(t).pc = "idle" /\ Return(t).task = t
<1>1. "idle" \in NextPcs /\ "idle" # "edit"
  BY DEF NextPcs
<1> DEFINE p == "idle"
<1> HIDE DEF p
<1>2. Sound(GoOn(p, t), w, t) /\ GoOn(p, t).pc = p /\ GoOn(p, t).task = t
  BY <1>1, GoOnSound DEF p
<1> QED
  BY <1>2 DEF Return, p

\* also with a task that changed,
LEMMA ReturnsSound ==
    ASSUME NEW w, Timed(w), NEW t, NEW u \in Tasks(w), u.applied = t.applied
    PROVE  Sound(Return(u), w, t) /\ Return(u).pc = "idle"
BY ReturnSound DEF Sound

\* the task is resolved,
LEMMA ResolveSound ==
    ASSUME NEW w, Timed(w), NEW t, NEW u \in Tasks(w), u.applied = t.applied, NEW up \in BOOLEAN
    PROVE  Sound(Resolve(u, up), w, t) /\ Resolve(u, up).pc = "idle"
<1> DEFINE m == MarkResolved(u, up)
           r == Resolve(u, up)
<1>1. m \in Tasks(w) /\ m.applied = t.applied
  BY MarkResolvedKeeps
<1>2. r = [Return(m) EXCEPT !.resolves = TRUE]
  BY DEF Resolve
<1> HIDE DEF m, r
<1>3. Sound(Return(m), w, t)
  BY <1>1, ReturnsSound
<1>4. r.pc = "idle" /\ r.task = Return(m).task /\ r.show = Return(m).show
  BY <1>2 DEF Return, GoOn
<1>5. Sound(r, w, t)
  BY <1>3, <1>4 DEF Sound, NextPcs
<1> QED
  BY <1>4, <1>5 DEF r

\* or replies are shown instead.
LEMMA ShowUnseenSound ==
    ASSUME NEW w, Timed(w), NEW t \in Tasks(w)
    PROVE  Sound(ShowUnseen(t), w, t) /\ ShowUnseen(t).pc = "idle"
<1> DEFINE cs == UnseenReplies(t)
           show == {Words(c) : c \in cs}
           u == MarkRepliesShown(t, cs)
           r == ShowUnseen(t)
           v == Hearing(w, show)
<1>1. r.pc = "idle" /\ r.task = u /\ r.show = show
  BY DEF ShowUnseen, Return, GoOn
<1>2. \A c \in cs : Words(c) \in v.told
  BY DEF Hearing
<1> HIDE DEF show
<1>3. Grows(w, v)
  BY HearingGrows
<1> HIDE DEF v, r, cs
<1>4. t \in Tasks(v)
  BY <1>3, TasksGrow
<1>5. cs \in SUBSET Replies(v)
  BY <1>4, UnseenAreReplies DEF cs
<1>6. u \in Tasks(v) /\ u.applied = t.applied
  BY <1>2, <1>4, <1>5, MarkRepliesShownKeeps
<1> HIDE DEF u
<1>7. Sound(r, w, t)
  BY <1>1, <1>6 DEF Sound, NextPcs, v
<1> QED
  BY <1>1, <1>7 DEF r

\* An edit that begins is the first of the task.
Edits(r, kind, t) == r.pc = "edit" => kind = "accept" /\ t.applied = None

\* A suggestion is written only if none is noted.
LEMMA BeforeEditSound ==
    ASSUME NEW w, Timed(w), NEW t \in Tasks(w), t.suggests, NEW placed
    PROVE  Sound(BeforeEdit(t, placed), w, t) /\ Edits(BeforeEdit(t, placed), "accept", t)
<1> DEFINE r == BeforeEdit(t, placed)
<1>1. CASE t.applied # None \/ ~placed
  <2>1. r = Return(t)
    BY <1>1 DEF BeforeEdit
  <2> HIDE DEF r
  <2>2. Sound(r, w, t) /\ r.pc = "idle"
    BY <2>1, ReturnSound
  <2> QED
    BY <2>2 DEF r, Edits
<1>2. CASE ~(t.applied # None \/ ~placed) /\ t.seenText # t.text
  <2>1. r = Return(MarkShown(t, {}))
    BY <1>2 DEF BeforeEdit
  <2>2. MarkShown(t, {}) \in Tasks(w) /\ MarkShown(t, {}).applied = t.applied
    BY MarkShownKeeps
  <2> HIDE DEF r
  <2>3. Sound(r, w, t) /\ r.pc = "idle"
    BY <2>1, <2>2, ReturnsSound
  <2> QED
    BY <2>3 DEF r, Edits
<1>3. CASE ~(t.applied # None \/ ~placed) /\ ~(t.seenText # t.text)
  <2>1. r = GoOn("edit", t) /\ t.applied = None
    BY <1>3 DEF BeforeEdit
  <2>2. t.text \in Suggestions
    BY DEF Tasks
  <2> DEFINE p == "edit"
  <2>3. p \in NextPcs
    BY DEF NextPcs
  <2> HIDE DEF r, p
  <2>4. Sound(r, w, t)
    BY <2>1, <2>2, <2>3, GoOnSound DEF p
  <2> QED
    BY <2>1, <2>4 DEF r, Edits
<1> QED
  BY <1>1, <1>2, <1>3

\* What a resolve does once it has the list,
LEMMA ResolveCheckedSound ==
    ASSUME NEW w, Timed(w), NEW t \in Tasks(w), NEW kind, NEW up, NEW was, NEW placed
    PROVE  /\ Sound(ResolveChecked(kind, t, up, was, placed), w, t)
           /\ Edits(ResolveChecked(kind, t, up, was, placed), kind, t)
<1> DEFINE r == ResolveChecked(kind, t, up, was, placed)
<1>1. \/ r = Return(t) \/ r = Resolve(t, FALSE) \/ r = Return(MarkShown(t, {})) \/ r = ShowUnseen(t)
      \/ r = GoOn("resolve", t) \/ r = GoOn("reply", t)
      \/ kind = "accept" /\ t.suggests /\ r = BeforeEdit(t, placed)
  <2>1. t.suggests \in BOOLEAN
    BY DEF Tasks, TaskFields
  <2>2. CASE kind = "accept" /\ ~t.suggests
    <3>1. r = Return(t) \/ r = Resolve(t, FALSE)
      BY <2>2, Zenon DEF ResolveChecked
    <3> QED
      BY <3>1
  <2>3. CASE ~(kind = "accept" /\ ~t.suggests)
    <3>1. \/ r = Return(t) \/ r = Resolve(t, FALSE) \/ r = Return(MarkShown(t, {})) \/ r = ShowUnseen(t)
          \/ r = GoOn("resolve", t) \/ r = GoOn("reply", t)
          \/ kind = "accept" /\ r = BeforeEdit(t, placed)
      BY <2>3, Zenon DEF ResolveChecked
    <3> QED
      BY <2>1, <2>3, <3>1
  <2> QED
    BY <2>2, <2>3
<1>2. MarkShown(t, {}) \in Tasks(w) /\ MarkShown(t, {}).applied = t.applied
  BY MarkShownKeeps
<1> HIDE DEF r
<1>3. CASE r = Return(t) \/ r = Resolve(t, FALSE) \/ r = Return(MarkShown(t, {})) \/ r = ShowUnseen(t)
  <2>1. Sound(r, w, t) /\ r.pc = "idle"
    BY <1>2, <1>3, ReturnsSound, ResolveSound, ShowUnseenSound
  <2> QED
    BY <2>1 DEF r, Edits
<1>4. ASSUME NEW p \in {"resolve", "reply"}, r = GoOn(p, t)
      PROVE  Sound(r, w, t) /\ Edits(r, kind, t)
  <2>1. p \in NextPcs /\ p # "edit"
    BY DEF NextPcs
  <2>2. Sound(r, w, t) /\ r.pc = p
    BY <1>4, <2>1, GoOnSound
  <2> QED
    BY <2>1, <2>2 DEF Edits
<1>5. CASE kind = "accept" /\ t.suggests /\ r = BeforeEdit(t, placed)
  BY <1>5, BeforeEditSound DEF r
<1>6. CASE r = GoOn("resolve", t) \/ r = GoOn("reply", t)
  BY <1>4, <1>6 DEF r
<1> QED
  BY <1>1, <1>3, <1>5, <1>6 DEF r

\* and any action.
LEMMA CheckedSound ==
    ASSUME NEW w, Timed(w), NEW t \in Tasks(w), NEW call, NEW placed
    PROVE  /\ Sound(Checked(call, t, placed), w, t) /\ Edits(Checked(call, t, placed), call.kind, t)
           /\ Checked(call, t, placed).pc # "final"
<1> DEFINE r == Checked(call, t, placed)
<1>1. \/ r = ResolveChecked(call.kind, t, Upstream(t), call.stale, placed)
      \/ r = Return(t) \/ r = ShowUnseen(t) \/ r = GoOn("reply", t)
  BY DEF Checked
<1>p. r.pc # "final"
  BY DEF Checked, ResolveChecked, BeforeEdit, Return, Resolve, ShowUnseen, GoOn
<1> HIDE DEF r
<1>2. CASE r = Return(t) \/ r = ShowUnseen(t)
  <2>1. Sound(r, w, t) /\ r.pc = "idle"
    BY <1>2, ReturnSound, ShowUnseenSound
  <2> QED
    BY <1>p, <2>1 DEF r, Edits
<1>3. CASE r = GoOn("reply", t)
  <2> DEFINE p == "reply"
  <2>1. p \in NextPcs /\ p # "edit"
    BY DEF NextPcs
  <2> HIDE DEF p
  <2>2. Sound(r, w, t) /\ r.pc = p
    BY <1>3, <2>1, GoOnSound DEF p
  <2> QED
    BY <1>p, <2>1, <2>2 DEF r, Edits
<1>4. CASE r = ResolveChecked(call.kind, t, Upstream(t), call.stale, placed)
  BY <1>p, <1>4, ResolveCheckedSound DEF r
<1> QED
  BY <1>1, <1>2, <1>3, <1>4

\* The thread was rejected, and the task is stale if no list has it.
LEMMA MarkThreadDeadKeeps ==
    ASSUME NEW w, NEW t \in Tasks(w)
    PROVE  MarkThreadDead(t) \in Tasks(w) /\ MarkThreadDead(t).applied = t.applied
BY MarkDeadThreadKeeps, MarkStaleKeeps DEF MarkThreadDead

\* An action goes on with the thread that the task has now.
LEMMA AgainSound ==
    ASSUME NEW w, Timed(w), NEW t \in Tasks(w), NEW call
    PROVE  Sound(Again(call, t), w, t) /\ Again(call, t).pc \in {"idle", "reply", "resolve"}
<1> DEFINE r == Again(call, t)
<1>1. \/ r = Return(t) \/ r = Return(MarkThreadDead(t)) \/ r = Resolve(t, FALSE)
      \/ r = GoOn("reply", t) \/ r = GoOn("resolve", t)
  BY DEF Again
<1> HIDE DEF r
<1>2. CASE r = Return(t) \/ r = Return(MarkThreadDead(t)) \/ r = Resolve(t, FALSE)
  <2>1. Sound(r, w, t) /\ r.pc = "idle"
    <3>1. MarkThreadDead(t) \in Tasks(w) /\ MarkThreadDead(t).applied = t.applied
      BY MarkThreadDeadKeeps
    <3>2. Sound(Return(t), w, t) /\ Return(t).pc = "idle"
      BY ReturnSound
    <3>3. Sound(Return(MarkThreadDead(t)), w, t) /\ Return(MarkThreadDead(t)).pc = "idle"
      BY <3>1, ReturnsSound
    <3>4. Sound(Resolve(t, FALSE), w, t) /\ Resolve(t, FALSE).pc = "idle"
      BY ResolveSound
    <3> QED
      BY <1>2, <3>2, <3>3, <3>4
  <2> QED
    BY <2>1 DEF r
<1>3. ASSUME NEW p \in {"reply", "resolve"}, r = GoOn(p, t)
      PROVE  Sound(r, w, t) /\ r.pc \in {"idle", "reply", "resolve"}
  <2>1. p \in NextPcs /\ p # "edit"
    BY DEF NextPcs
  <2>2. Sound(r, w, t) /\ r.pc = p
    BY <1>3, <2>1, GoOnSound
  <2> QED
    BY <2>1, <2>2
<1>4. CASE r = GoOn("reply", t) \/ r = GoOn("resolve", t)
  BY <1>3, <1>4 DEF r
<1> QED
  BY <1>1, <1>2, <1>4 DEF r

\* Its reply was posted.
LEMMA RepliedSound ==
    ASSUME NEW w, Timed(w), NEW t \in Tasks(w), NEW call,
           Comment(call.born, Me, Text(call.kind)) \in Replies(w)
    PROVE  Sound(Replied(call, t), w, t) /\ Replied(call, t).pc \in {"idle", "final", "resolve"}
           /\ (call.kind = "userReply" => Replied(call, t).pc = "final")
           /\ (Replied(call, t).pc = "final" => call.kind = "userReply")
           /\ Replied(call, t).task \in Tasks(w) /\ Replied(call, t).task.applied = t.applied
<1> DEFINE mine == Comment(call.born, Me, Text(call.kind))
           u == ThreadAccepted(t, call.thread)
           v == IF Own(call.kind) THEN AddReply(u, mine) ELSE u
           x == IF v.status \in {"RESOLVED", "STALE"} THEN v ELSE MarkBlocked(v)
           y == [v EXCEPT !.replied = TRUE]
           r == Replied(call, t)
<1>1. \/ call.kind = "block" /\ r = Return(x)
      \/ call.kind = "userReply" /\ r = GoOn("final", v)
      \/ call.kind # "userReply" /\ r = GoOn("resolve", y)
  BY DEF Replied
<1>2. mine \in Replies(w) /\ (Own(call.kind) => mine.text \in OwnTexts)
  BY DEF Comment, Text, Own, OwnTexts
<1> HIDE DEF mine
<1>3. u \in Tasks(w) /\ u.applied = t.applied
  BY ThreadAcceptedKeeps
<1> HIDE DEF u
<1>4. v \in Tasks(w) /\ v.applied = t.applied
  BY <1>2, <1>3, AddReplyKeeps
<1> HIDE DEF v
<1>5. x \in Tasks(w) /\ x.applied = t.applied
  BY <1>4, MarkBlockedKeeps
<1>6. y \in Tasks(w) /\ y.applied = t.applied
  <2>1. y \in Tasks(w)
    BY <1>4, PlainField
  <2> QED
    BY <1>4, <2>1 DEF Tasks, TaskFields
<1> HIDE DEF x, y, r
<1>7. CASE call.kind = "block" /\ r = Return(x)
  <2>1. Sound(r, w, t) /\ r.pc = "idle" /\ r.task = x
    BY <1>5, <1>7, ReturnsSound, ReturnSound
  <2> QED
    BY <1>5, <1>7, <2>1 DEF r
<1>8. ASSUME NEW p \in {"final", "resolve"}, NEW z \in Tasks(w), z.applied = t.applied, r = GoOn(p, z)
      PROVE  Sound(r, w, t) /\ r.pc = p /\ r.task = z
  <2>1. p \in NextPcs /\ p # "edit"
    BY DEF NextPcs
  <2>2. Sound(r, w, z) /\ r.pc = p /\ r.task = z
    BY <1>8, <2>1, GoOnSound
  <2> QED
    BY <1>8, <2>2 DEF Sound
<1>9. CASE call.kind = "userReply" /\ r = GoOn("final", v)
  BY <1>4, <1>8, <1>9 DEF r
<1>10. CASE call.kind # "userReply" /\ r = GoOn("resolve", y)
  BY <1>6, <1>8, <1>10 DEF r
<1> QED
  BY <1>1, <1>7, <1>9, <1>10

-----------------------------------------------------------------------------
(* What a step of an action of the extension leaves behind *)

\* Of action c and its task i: what the properties of the lock and of the
\* edits depend on.  b: the action after the step.
Moved(c, i, b, applied, ts, fs) ==
    /\ calls' = [calls EXCEPT ![c] = b]
    /\ queue' = IF b.pc = "idle" /\ queue[i] # <<>> /\ Head(queue[i]) = c
                THEN [queue EXCEPT ![i] = Tail(@)] ELSE queue
    /\ DOMAIN tasks' = DOMAIN ts
    /\ \A j \in DOMAIN ts : tasks'[j].applied = IF j = i THEN applied ELSE ts[j].applied
    /\ DOMAIN fetches' = DOMAIN fs /\ \A k \in DOMAIN fs : fetches'[k].by = fs[k].by

\* What becomes of the call.
NextAction(call, r) ==
    IF r.pc = "idle" THEN Idle
    ELSE [call EXCEPT !.pc = r.pc, !.thread = r.task.thread,
                      !.out = IF r.pc = "edit" THEN r.task.text ELSE None,
                      !.first = IF call.pc \in {"rereply", "reresolve"} THEN @ ELSE r.task.thread]

\* A call that is free.
LEMMA IdleTypes ==
    \A w : Idle \in Actions(w) /\ Idle.task = 1 /\ Idle.pc = "idle" /\ Idle.kind = None
BY DEF Idle, Actions, CallPcs, Outs

\* The next state of the call has its type.
LEMMA NextActionTypes ==
    ASSUME NEW w, NEW v, NEW t, NEW call \in Actions(w), NEW r, Sound(r, w, t), r.task \in Tasks(v), Grows(w, v)
    PROVE  /\ NextAction(call, r) \in Actions(v) /\ NextAction(call, r).pc = r.pc
           /\ r.pc # "idle" => NextAction(call, r).task = call.task /\ NextAction(call, r).kind = call.kind
           /\ r.pc = "idle" => NextAction(call, r) = Idle
<1> DEFINE out == IF r.pc = "edit" THEN r.task.text ELSE None
           first == IF call.pc \in {"rereply", "reresolve"} THEN call.first ELSE r.task.thread
           b == [call EXCEPT !.pc = r.pc, !.thread = r.task.thread, !.out = out, !.first = first]
<1>1. call \in Actions(v)
  BY ListsGrow
<1>2. r.pc \in NextPcs /\ r.task.thread \in Nat /\ r.task.text \in Texts /\ (r.pc = "edit" => r.task.text \in Suggestions)
  BY DEF Sound, Tasks, TaskFields
<1>3. out \in Outs /\ first \in Nat /\ (r.pc = "edit" => out \in Suggestions)
  BY <1>1, <1>2 DEF Outs, Actions
<1>4. r.pc \in CallPcs /\ r.pc # "replied"
  BY <1>2 DEF NextPcs, CallPcs
<1> HIDE DEF out, first
<1>5. /\ b \in [kind : Kinds \cup {None}, task : Nat, pc : CallPcs, first : Nat, thread : Nat,
                born : Nat, out : Outs, stale : BOOLEAN]
      /\ b.pc = r.pc /\ b.out = out /\ b.task = call.task /\ b.kind = call.kind
  BY <1>1, <1>2, <1>3, <1>4 DEF Actions
<1>6. NextAction(call, r) = IF r.pc = "idle" THEN Idle ELSE b
  BY DEF NextAction, out, first
<1> HIDE DEF b
<1>7. b \in Actions(v)
  BY <1>3, <1>4, <1>5 DEF Actions
<1> QED
  BY <1>5, <1>6, <1>7, IdleTypes

\* A step of an action leaves a state with a history.
LEMMA ContinueKeeps ==
    ASSUME NEW w, Typed(w), NEW c \in Calls, NEW call \in Actions(w), call.task \in DOMAIN tasks,
           NEW t, NEW r, Sound(r, w, t), NEW ts \in Seq(Tasks(w)), Len(ts) >= Len(tasks),
           NEW fs \in Seq(ThreadLists(w)), NEW answers,
           Continue(c, call, r, ts, fs, answers), UNCHANGED <<stamp, threads, authored>>
    PROVE  /\ \E v : Typed(v)'
           /\ Moved(c, call.task, NextAction(call, r), t.applied, ts, fs)
           /\ NextAction(call, r).pc = r.pc
           /\ r.pc # "idle" => NextAction(call, r).task = call.task /\ NextAction(call, r).kind = call.kind
<1> DEFINE i == call.task
           b == NextAction(call, r)
           final == [ts EXCEPT ![i] = r.task]
           q == IF r.pc = "idle" /\ queue[i] # <<>> /\ Head(queue[i]) = c
                THEN [queue EXCEPT ![i] = Tail(@)] ELSE queue
           tell == Tell(answers, final, q)
           more == r.show \cup {Words(a.reply) : a \in tell.said}
           v0 == Hearing(w, more)
<1>1. tasks' = final /\ queue' = q /\ told' = told \cup more
      /\ fetches' = IF r.resolves THEN AfterResolve(fs, i) ELSE fs
  BY DEF Continue, Announces
<1>2. calls' = [calls EXCEPT ![c] = b]
  BY DEF Continue, NextAction
<1>3. Timed(w) /\ w.told = told /\ w.stamp = stamp /\ w.authored = authored /\ tasks # <<>>
      /\ Len(tasks) \in Nat /\ DOMAIN tasks = 1..Len(tasks)
      /\ \A d \in Calls : calls[d].task \in DOMAIN tasks
  BY DEF Typed
<1> HIDE DEF q, tell
<1>4. Timed(v0) /\ Grows(w, v0) /\ v0.stamp = stamp /\ v0.authored = authored /\ v0.told = told \cup more
  <2> HIDE DEF more
  <2> QED
    BY <1>3, HearingGrows DEF Hearing
<1>5. Grows(Hearing(w, r.show), v0)
  BY <1>3 DEF Grows, Hearing, Timed
<1>6. r.task \in Tasks(v0) /\ r.task.applied = t.applied
  BY <1>5, TasksGrow DEF Sound
<1> HIDE DEF v0, more
<1>7. PICK u : u = v0
  OBVIOUS
<1>8. threads \in Seq(Nodes(u)) /\ calls \in [Calls -> Actions(u)]
  BY <1>4, <1>7, TypedGrows
<1>9. ts \in Seq(Tasks(u)) /\ r.task \in Tasks(u)
  BY <1>4, <1>6, <1>7, TasksGrow, SeqGrows
<1>10. fs \in Seq(ThreadLists(u))
  BY <1>4, <1>7, ListsGrow, SeqGrows
<1>11. final \in Seq(Tasks(u)) /\ Len(final) = Len(ts)
  BY <1>9, SetAt
<1>12. DOMAIN final = DOMAIN ts /\ \A j \in DOMAIN ts : final[j] = IF j = i THEN r.task ELSE ts[j]
  BY <1>9
<1>t. DOMAIN tasks \subseteq DOMAIN final /\ final # <<>>
  <2>1. DOMAIN final = 1..Len(ts) /\ Len(ts) \in Nat
    BY <1>9, <1>12
  <2>2. DOMAIN tasks \subseteq DOMAIN final
    BY <1>3, <2>1
  <2>3. 1 \in DOMAIN tasks
    BY <1>3
  <2> QED
    BY <2>2, <2>3
<1> HIDE DEF final
<1>13. /\ b \in Actions(u) /\ b.pc = r.pc
       /\ r.pc # "idle" => b.task = call.task /\ b.kind = call.kind
       /\ r.pc = "idle" => b = Idle
  <2>1. Grows(w, u)
    BY <1>4, <1>7
  <2> QED
    BY <1>9, <2>1, NextActionTypes
<1>14. b.task \in DOMAIN tasks
  <2>1. 1 \in DOMAIN tasks
    BY <1>3
  <2> QED
    BY <1>13, <2>1, IdleTypes
<1> HIDE DEF b
<1>15. calls' \in [Calls -> Actions(u)] /\ \A d \in Calls : calls'[d].task \in DOMAIN final
  <2>1. \A d \in Calls : calls'[d] = IF d = c THEN b ELSE calls[d]
    BY <1>2, <1>8
  <2>2. \A d \in Calls : calls'[d].task \in DOMAIN tasks
    BY <1>3, <1>14, <2>1
  <2> QED
    BY <1>2, <1>8, <1>13, <1>t, <2>2
<1>16. fetches' \in Seq(ThreadLists(u)) /\ DOMAIN fetches' = DOMAIN fs /\ \A k \in DOMAIN fs : fetches'[k].by = fs[k].by
  <2>1. i \in Nat
    BY <1>3
  <2>2. /\ AfterResolve(fs, i) \in Seq(ThreadLists(u)) /\ DOMAIN AfterResolve(fs, i) = DOMAIN fs
        /\ \A j \in DOMAIN fs : AfterResolve(fs, i)[j].by = fs[j].by
    BY <1>10, <2>1, AfterResolveTypes
  <2> QED
    BY <1>1, <1>10, <2>2
<1>17. Typed(u)'
  <2>1. Timed(u) /\ u.stamp = stamp /\ u.authored = authored /\ u.told = told \cup more
    BY <1>4, <1>7
  <2> QED
    BY <1>1, <1>8, <1>11, <1>t, <1>15, <1>16, <2>1 DEF Typed
<1>18. Moved(c, i, b, t.applied, ts, fs)
  BY <1>1, <1>2, <1>6, <1>12, <1>13, <1>16 DEF Moved, q
<1> QED
  BY <1>13, <1>17, <1>18 DEF b

-----------------------------------------------------------------------------
(* The turns of a task, the lists that actions wait for, and the edits *)

\* Action a is at place m of the queue of task i.
Queued(a, i, m) ==
    a.task = i /\ a.kind # "userReply" /\ a.pc # "idle" /\ (m # 1 => a.pc = "turn")

\* The actions on a task (but /tasks reply) are in its queue, and only the
\* first is past its turn.
QueueTypes   == queue \in [TaskIndex -> Seq(Calls)]
QueueMembers == \A i \in TaskIndex : \A m \in 1..Len(queue[i]) : Queued(calls[queue[i][m]], i, m)
QueuedOnce   == \A i \in TaskIndex : \A m, n \in 1..Len(queue[i]) : queue[i][m] = queue[i][n] => m = n
InQueue      ==
    \A c \in Calls :
        calls[c].pc # "idle" /\ calls[c].kind # "userReply" /\ calls[c].task \in TaskIndex
        => \E m \in 1..Len(queue[calls[c].task]) : queue[calls[c].task][m] = c

\* The turns of a task.
Locked == QueueTypes /\ QueueMembers /\ QueuedOnce /\ InQueue

\* Where an action waits for a list.
WaitPcs == {"refresh", "final", "rereply", "reresolve"}

\* An action that a list is for waits for it, and for no other.
Asked ==
    /\ \A k \in DOMAIN fetches :
          fetches[k].by # 0 => calls[fetches[k].by].pc \in WaitPcs
    /\ \A j, k \in DOMAIN fetches : fetches[j].by = fetches[k].by /\ fetches[j].by # 0 => j = k

\* A suggestion that was written is noted, and one is written only if none is.
Written ==
    /\ edits \in [TaskIndex -> {0, 1}]
    /\ \A i \in TaskIndex : edits[i] = 1 => i \in DOMAIN tasks /\ tasks[i].applied # None
    /\ \A c \in Calls :
          calls[c].pc = "edit" =>
              calls[c].kind = "accept" /\ (calls[c].task \in TaskIndex => tasks[calls[c].task].applied = None)

\* The invariant of the extension.
Works == Locked /\ Asked /\ Written

\* It is the turn of action c.
Holds(c) ==
    /\ calls[c].pc # "idle"
    /\ calls[c].kind # "userReply" /\ calls[c].task \in TaskIndex
       => queue[calls[c].task] # <<>> /\ Head(queue[calls[c].task]) = c

\* What is past its turn is the first,
LEMMA PastTurnHolds ==
    ASSUME Locked, NEW c \in Calls, calls[c].pc \notin {"idle", "turn"}
    PROVE  Holds(c)
<1> DEFINE i == calls[c].task
<1>1. ASSUME calls[c].kind # "userReply", i \in TaskIndex
      PROVE  queue[i] # <<>> /\ Head(queue[i]) = c
  <2>1. PICK m \in 1..Len(queue[i]) : queue[i][m] = c
    BY <1>1 DEF Locked, QueueTypes, QueueMembers, QueuedOnce, InQueue, Queued
  <2>2. m = 1
    BY <1>1, <2>1 DEF Locked, QueueTypes, QueueMembers, QueuedOnce, InQueue, Queued
  <2>3. queue[i] \in Seq(Calls)
    BY <1>1 DEF Locked, QueueTypes, QueueMembers, QueuedOnce, InQueue, Queued
  <2> QED
    BY <2>1, <2>2, <2>3
<1> QED
  BY <1>1 DEF Holds

\* and what has its turn.
LEMMA TurnHolds ==
    ASSUME Locked, NEW c \in Calls, HasTurn(c)
    PROVE  Holds(c)
<1> DEFINE i == calls[c].task
<1>0. calls[c].pc = "turn" /\ calls[c].pc # "idle"
  BY DEF HasTurn
<1>1. ASSUME calls[c].kind # "userReply", i \in TaskIndex
      PROVE  queue[i] # <<>> /\ Head(queue[i]) = c
  <2>1. PICK m \in 1..Len(queue[i]) : queue[i][m] = c
    BY <1>0, <1>1 DEF Locked, QueueTypes, QueueMembers, QueuedOnce, InQueue, Queued
  <2>2. queue[i] \in Seq(Calls)
    BY <1>1 DEF Locked, QueueTypes, QueueMembers, QueuedOnce, InQueue, Queued
  <2> QED
    BY <1>1, <2>1, <2>2 DEF HasTurn
<1> QED
  BY <1>0, <1>1 DEF Holds

\* Another action on the task is not past its turn.
LEMMA OneHolds ==
    ASSUME Locked, NEW c \in Calls, Holds(c), NEW d \in Calls, d # c, calls[d].task = calls[c].task,
           calls[c].task \in TaskIndex, calls[c].kind # "userReply", calls[d].kind # "userReply"
    PROVE  calls[d].pc \in {"idle", "turn"}
<1>1. SUFFICES ASSUME calls[d].pc \notin {"idle", "turn"} PROVE FALSE
  OBVIOUS
<1>2. Holds(d)
  BY <1>1, PastTurnHolds
<1> QED
  BY <1>2 DEF Holds

\* A queue without its first.
LEMMA TailOf ==
    ASSUME NEW S, NEW q \in Seq(S), q # <<>>
    PROVE  /\ Len(q) \in Nat /\ 1 \in 1..Len(q) /\ Head(q) = q[1] /\ Tail(q) \in Seq(S)
           /\ \A m \in 1..Len(Tail(q)) : Tail(q)[m] = q[m + 1] /\ m + 1 \in 1..Len(q) /\ m + 1 # 1 /\ m \in Nat
           /\ \A m \in 1..Len(q) : m # 1 => m - 1 \in 1..Len(Tail(q)) /\ Tail(q)[m - 1] = q[m]
<1>1. Len(q) \in Nat /\ 1 \in 1..Len(q) /\ Head(q) = q[1] /\ Tail(q) \in Seq(S) /\ Len(Tail(q)) = Len(q) - 1
      /\ \A m \in 1..(Len(q) - 1) : Tail(q)[m] = q[m + 1]
  OBVIOUS
<1> DEFINE r == Tail(q)
<1> HIDE DEF r
<1>2. Len(q) \in Nat /\ Len(r) = Len(q) - 1 /\ \A m \in 1..(Len(q) - 1) : r[m] = q[m + 1]
  BY <1>1 DEF r
<1>3. \A m \in 1..Len(r) : r[m] = q[m + 1] /\ m + 1 \in 1..Len(q) /\ m + 1 # 1 /\ m \in Nat
  BY <1>2
<1>4. ASSUME NEW m \in 1..Len(q), m # 1 PROVE m - 1 \in 1..Len(r) /\ r[m - 1] = q[m]
  <2>1. m - 1 \in 1..Len(r) /\ m - 1 \in 1..(Len(q) - 1) /\ (m - 1) + 1 = m
    BY <1>2, <1>4
  <2> QED
    BY <1>2, <2>1
<1> QED
  BY <1>1, <1>3, <1>4 DEF r

\* Action c becomes b; its queue loses it when it is over.
LEMMA LockMoves ==
    ASSUME Locked, NEW c \in Calls, Holds(c), NEW b, NEW i, i = calls[c].task,
           b.pc # "idle" => b.kind = calls[c].kind /\ b.task = i,
           NEW S, calls \in [Calls -> S],
           calls' = [calls EXCEPT ![c] = b],
           queue' = IF b.pc = "idle" /\ queue[i] # <<>> /\ Head(queue[i]) = c
                    THEN [queue EXCEPT ![i] = Tail(@)] ELSE queue
    PROVE  Locked'
<1>0. queue \in [TaskIndex -> Seq(Calls)]
  BY DEF Locked, QueueTypes
<1>1. calls'[c] = b /\ \A d \in Calls : d # c => calls'[d] = calls[d]
  OBVIOUS
<1>2. \A j \in TaskIndex : \A m \in 1..Len(queue[j]) : queue[j][m] \in Calls
  BY <1>0
<1>c. ASSUME NEW j \in TaskIndex, NEW m \in 1..Len(queue[j]), queue[j][m] = c
      PROVE  j = i /\ m = 1 /\ calls[c].kind # "userReply" /\ queue[i] # <<>> /\ Head(queue[i]) = c
  <2>1. j = i /\ calls[c].kind # "userReply"
    BY <1>c DEF Locked, QueueMembers, Queued
  <2>2. queue[i] # <<>> /\ Head(queue[i]) = c /\ queue[i] \in Seq(Calls)
    BY <1>0, <2>1 DEF Holds
  <2> DEFINE q == queue[i]
             S0 == Calls
  <2> HIDE DEF q, S0
  <2>3. q[1] = c /\ 1 \in 1..Len(q)
    BY <2>2, TailOf DEF q, S0
  <2>4. m = 1
    BY <1>c, <2>1, <2>3 DEF Locked, QueuedOnce, q
  <2> QED
    BY <2>1, <2>2, <2>4
<1>3. ASSUME queue' = queue, b.pc = "idle" => \A j \in TaskIndex : \A m \in 1..Len(queue[j]) : queue[j][m] # c
      PROVE  Locked'
  <2>1. QueueTypes'
    BY <1>0, <1>3 DEF QueueTypes
  <2>2. ASSUME NEW j \in TaskIndex, NEW m \in 1..Len(queue[j])
        PROVE  Queued(calls'[queue[j][m]], j, m)
    <3>1. CASE queue[j][m] = c
      BY <1>1, <1>3, <1>c, <3>1 DEF Queued, Holds
    <3>2. CASE queue[j][m] # c
      <4>1. calls'[queue[j][m]] = calls[queue[j][m]]
        BY <1>1, <1>2, <3>2
      <4> QED
        BY <4>1 DEF Locked, QueueMembers
    <3> QED
      BY <3>1, <3>2
  <2>3. QueueMembers'
    BY <1>3, <2>2 DEF QueueMembers
  <2>4. QueuedOnce'
    BY <1>3 DEF Locked, QueuedOnce
  <2>5. ASSUME NEW d \in Calls, calls'[d].pc # "idle", calls'[d].kind # "userReply", calls'[d].task \in TaskIndex
        PROVE  \E m \in 1..Len(queue[calls'[d].task]) : queue[calls'[d].task][m] = d
    <3>1. calls[d].pc # "idle" /\ calls[d].kind = calls'[d].kind /\ calls[d].task = calls'[d].task
      BY <1>1, <2>5 DEF Holds
    <3> QED
      BY <2>5, <3>1 DEF Locked, InQueue
  <2>6. InQueue'
    BY <1>3, <2>5 DEF InQueue
  <2> QED
    BY <2>1, <2>3, <2>4, <2>6 DEF Locked
<1>4. CASE b.pc # "idle"
  BY <1>3, <1>4
<1>5. CASE b.pc = "idle" /\ ~(i \in TaskIndex /\ queue[i] # <<>> /\ Head(queue[i]) = c)
  <2>1. queue' = queue
    <3>1. CASE i \in TaskIndex
      BY <1>5, <3>1
    <3>2. CASE i \notin TaskIndex
      <4>1. [queue EXCEPT ![i] = Tail(@)] = queue
        BY <1>0, <3>2
      <4> QED
        BY <4>1
    <3> QED
      BY <3>1, <3>2
  <2>2. \A j \in TaskIndex : \A m \in 1..Len(queue[j]) : queue[j][m] # c
    BY <1>5, <1>c
  <2> QED
    BY <1>3, <2>1, <2>2
<1>6. CASE b.pc = "idle" /\ i \in TaskIndex /\ queue[i] # <<>> /\ Head(queue[i]) = c
  <2> DEFINE q == queue[i]
             r == Tail(q)
             S0 == Calls
  <2>1. queue' = [queue EXCEPT ![i] = r]
    BY <1>6
  <2>2. q \in Seq(S0) /\ q # <<>>
    BY <1>0, <1>6
  <2> HIDE DEF q, S0
  <2>3. /\ Len(q) \in Nat /\ 1 \in 1..Len(q) /\ Head(q) = q[1] /\ r \in Seq(S0)
        /\ \A m \in 1..Len(r) : r[m] = q[m + 1] /\ m + 1 \in 1..Len(q) /\ m + 1 # 1 /\ m \in Nat
        /\ \A m \in 1..Len(q) : m # 1 => m - 1 \in 1..Len(r) /\ r[m - 1] = q[m]
    BY <2>2, TailOf
  <2> HIDE DEF r
  <2>4. /\ queue' \in [TaskIndex -> Seq(Calls)] /\ queue'[i] = r
        /\ \A j \in TaskIndex : j # i => queue'[j] = queue[j]
    BY <1>0, <1>6, <2>1, <2>3 DEF S0
  <2>5. \A m \in 1..Len(q) : q[m] = c => m = 1
    BY <1>6, <1>c DEF q
  <2>6. ASSUME NEW j \in TaskIndex, NEW m \in 1..Len(queue'[j])
        PROVE  Queued(calls'[queue'[j][m]], j, m)
    <3>1. CASE j = i
      <4>1. m \in 1..Len(r) /\ queue'[j][m] = r[m]
        BY <2>4, <3>1
      <4>2. r[m] = q[m + 1] /\ m + 1 \in 1..Len(q) /\ m + 1 # 1
        BY <2>3, <4>1
      <4>3. q[m + 1] # c /\ q[m + 1] \in Calls
        BY <1>2, <1>6, <2>5, <4>2 DEF q
      <4>4. Queued(calls[q[m + 1]], i, m + 1)
        BY <1>6, <4>2 DEF Locked, QueueMembers, q
      <4>5. calls'[queue'[j][m]] = calls[q[m + 1]]
        BY <1>1, <4>1, <4>2, <4>3
      <4> QED
        BY <3>1, <4>2, <4>4, <4>5 DEF Queued
    <3>2. CASE j # i
      <4>1. queue'[j] = queue[j] /\ m \in 1..Len(queue[j])
        BY <2>4, <3>2
      <4>2. queue[j][m] # c
        BY <1>c, <3>2, <4>1
      <4>3. calls'[queue'[j][m]] = calls[queue[j][m]]
        BY <1>1, <1>2, <4>1, <4>2
      <4> QED
        BY <4>1, <4>3 DEF Locked, QueueMembers
    <3> QED
      BY <3>1, <3>2
  <2>7. ASSUME NEW j \in TaskIndex, NEW m \in 1..Len(queue'[j]), NEW n \in 1..Len(queue'[j]), queue'[j][m] = queue'[j][n]
        PROVE  m = n
    <3>1. CASE j = i
      <4>1. m \in 1..Len(r) /\ n \in 1..Len(r) /\ r[m] = r[n]
        BY <2>4, <2>7, <3>1
      <4>2. r[m] = q[m + 1] /\ m + 1 \in 1..Len(q) /\ r[n] = q[n + 1] /\ n + 1 \in 1..Len(q) /\ m \in Nat /\ n \in Nat
        BY <2>3, <4>1
      <4>3. m + 1 = n + 1
        BY <1>6, <4>1, <4>2 DEF Locked, QueuedOnce, q
      <4> QED
        BY <4>2, <4>3
    <3>2. CASE j # i
      BY <2>4, <2>7, <3>2 DEF Locked, QueuedOnce
    <3> QED
      BY <3>1, <3>2
  <2>8. ASSUME NEW d \in Calls, calls'[d].pc # "idle", calls'[d].kind # "userReply", calls'[d].task \in TaskIndex
        PROVE  \E m \in 1..Len(queue'[calls'[d].task]) : queue'[calls'[d].task][m] = d
    <3>1. d # c /\ calls'[d] = calls[d]
      BY <1>1, <1>6, <2>8
    <3>2. PICK m \in 1..Len(queue[calls[d].task]) : queue[calls[d].task][m] = d
      BY <2>8, <3>1 DEF Locked, InQueue
    <3>3. CASE calls[d].task = i
      <4>1. m \in 1..Len(q) /\ q[m] = d
        BY <3>2, <3>3 DEF q
      <4>2. q[1] = c
        BY <1>6, <2>3 DEF q
      <4>3. m - 1 \in 1..Len(r) /\ r[m - 1] = d
        BY <2>3, <3>1, <4>1, <4>2
      <4> QED
        BY <2>4, <3>1, <3>3, <4>3
    <3>4. CASE calls[d].task # i
      BY <2>4, <2>8, <3>1, <3>2, <3>4
    <3> QED
      BY <3>3, <3>4
  <2>9. QueueTypes'
    BY <2>4 DEF QueueTypes
  <2>10. QueueMembers'
    BY <2>6 DEF QueueMembers
  <2>11. QueuedOnce'
    BY <2>7 DEF QueuedOnce
  <2>12. InQueue'
    BY <2>8 DEF InQueue
  <2> QED
    BY <2>9, <2>10, <2>11, <2>12 DEF Locked
<1> QED
  BY <1>4, <1>5, <1>6

\* The lists fs are for actions that those under way are for, but maybe one
\* for action c, which becomes b.
StillAsked(fs) ==
    /\ \A k \in DOMAIN fs : fs[k].by # 0 => \E j \in DOMAIN fetches : fetches[j].by = fs[k].by
    /\ \A j, k \in DOMAIN fs : fs[j].by = fs[k].by /\ fs[j].by # 0 => j = k

\* The lists fs fit the calls when call c is b: who a list is for waits for it.
Waited(fs, c, b) ==
    /\ \A k \in DOMAIN fs :
          fs[k].by # 0 => IF fs[k].by = c THEN b.pc \in WaitPcs
                          ELSE \E j \in DOMAIN fetches : fetches[j].by = fs[k].by
    /\ \A j, k \in DOMAIN fs : fs[j].by = fs[k].by /\ fs[j].by # 0 => j = k

\* They do if c waits, or none is for it.
LEMMA KeptWaits ==
    ASSUME NEW fs, StillAsked(fs), NEW c, NEW b, b.pc \in WaitPcs \/ \A k \in DOMAIN fs : fs[k].by # c \/ fs[k].by = 0
    PROVE  Waited(fs, c, b)
BY DEF StillAsked, Waited

\* Lists that are for whom they were for.
LEMMA SameKept ==
    ASSUME Asked, NEW fs, DOMAIN fs = DOMAIN fetches, \A j \in DOMAIN fetches : fs[j].by = fetches[j].by
    PROVE  StillAsked(fs)
BY DEF Asked, StillAsked

\* List k is taken away.
LEMMA OneLess ==
    ASSUME NEW w, Typed(w), Asked, NEW k \in DOMAIN fetches, NEW fs \in Seq(ThreadLists(w)), Len(fs) = Len(fetches) - 1,
           \A j \in DOMAIN fs : fs[j].by = fetches[IF j < k THEN j ELSE j + 1].by
    PROVE  StillAsked(fs) /\ \A j \in DOMAIN fs : fs[j].by # 0 => fs[j].by # fetches[k].by
<1> DEFINE m(j) == IF j < k THEN j ELSE j + 1
<1>0. fetches \in Seq(ThreadLists(w)) /\ Len(fetches) \in Nat /\ k \in 1..Len(fetches) /\ DOMAIN fs = 1..(Len(fetches) - 1)
      /\ DOMAIN fetches = 1..Len(fetches)
  BY DEF Typed
<1>1. ASSUME NEW j \in DOMAIN fs PROVE m(j) \in DOMAIN fetches /\ m(j) # k
  BY <1>0
<1>2. ASSUME NEW j \in DOMAIN fs, NEW n \in DOMAIN fs, m(j) = m(n) PROVE j = n
  BY <1>0, <1>2
<1>3. \A j \in DOMAIN fs : fs[j].by = fetches[m(j)].by
  OBVIOUS
<1> HIDE DEF m
<1>4. \A j \in DOMAIN fs : fs[j].by # 0 => \E n \in DOMAIN fetches : fetches[n].by = fs[j].by
  BY <1>1, <1>3
<1>5. ASSUME NEW j \in DOMAIN fs, NEW n \in DOMAIN fs, fs[j].by = fs[n].by, fs[j].by # 0 PROVE j = n
  <2>1. m(j) = m(n)
    BY <1>1, <1>3, <1>5 DEF Asked
  <2> QED
    BY <1>2, <2>1
<1>6. ASSUME NEW j \in DOMAIN fs, fs[j].by # 0, fs[j].by = fetches[k].by PROVE FALSE
  BY <1>1, <1>3, <1>6 DEF Asked
<1> QED
  BY <1>4, <1>5, <1>6 DEF StillAsked

\* Action c asks for a list.
LEMMA OneMore ==
    ASSUME NEW w, Typed(w), Asked, NEW c \in Calls, calls[c].pc \notin WaitPcs, NEW b, b.pc \in WaitPcs
    PROVE  Waited(BeginFetch(c), c, b)
<1> DEFINE fs == BeginFetch(c)
<1>1. fetches \in Seq(ThreadLists(w)) /\ Len(fetches) \in Nat /\ DOMAIN fetches = 1..Len(fetches)
  BY DEF Typed
<1>2. fs \in Seq(ThreadLists(w)) /\ Len(fs) = Len(fetches) + 1 /\ (\A j \in DOMAIN fetches : fs[j] = fetches[j])
      /\ fs[Len(fetches) + 1].by = c
  BY BeginFetchTypes
<1> HIDE DEF fs
<1>3. \A k \in DOMAIN fs : k \in DOMAIN fetches \/ k = Len(fetches) + 1
  BY <1>1, <1>2
<1>4. \A k \in DOMAIN fetches : fetches[k].by # 0 => fetches[k].by # c
  BY DEF Asked
<1>5. \A j, k \in DOMAIN fs : fs[j].by = fs[k].by /\ fs[j].by # 0 => j = k
  BY <1>2, <1>3, <1>4 DEF Asked
<1>6. \A k \in DOMAIN fs : fs[k].by # 0 => fs[k].by = c \/ \E j \in DOMAIN fetches : fetches[j].by = fs[k].by
  BY <1>2, <1>3
<1> QED
  BY <1>5, <1>6 DEF Waited, fs

\* Who a list is for still waits for it.
LEMMA AskedMoves ==
    ASSUME NEW w, Typed(w), Asked, NEW c \in Calls, NEW b, NEW fs, Waited(fs, c, b),
           calls' = [calls EXCEPT ![c] = b],
           DOMAIN fetches' = DOMAIN fs, \A k \in DOMAIN fs : fetches'[k].by = fs[k].by
    PROVE  Asked'
<1>1. ASSUME NEW k \in DOMAIN fetches PROVE fetches[k].by \in Calls \cup {0}
  <2>1. fetches \in Seq(ThreadLists(w))
    BY DEF Typed
  <2>2. fetches[k] \in ThreadLists(w)
    BY <2>1
  <2> QED
    BY <2>2 DEF ThreadLists
<1>2. calls'[c] = b /\ \A d \in Calls : d # c => calls'[d] = calls[d]
  BY DEF Typed
<1>3. ASSUME NEW k \in DOMAIN fs, fs[k].by # 0 PROVE calls'[fs[k].by].pc \in WaitPcs
  <2>1. CASE fs[k].by = c
    BY <1>2, <1>3, <2>1 DEF Waited
  <2>2. CASE fs[k].by # c
    <3>1. PICK j \in DOMAIN fetches : fetches[j].by = fs[k].by
      BY <1>3, <2>2 DEF Waited
    <3>2. calls[fs[k].by].pc \in WaitPcs /\ fs[k].by \in Calls
      BY <1>1, <1>3, <3>1 DEF Asked
    <3> QED
      BY <1>2, <2>2, <3>2
  <2> QED
    BY <2>1, <2>2
<1>4. \A k \in DOMAIN fetches' : fetches'[k].by # 0 => calls'[fetches'[k].by].pc \in WaitPcs
  BY <1>3
<1>5. \A j, k \in DOMAIN fetches' : fetches'[j].by = fetches'[k].by /\ fetches'[j].by # 0 => j = k
  BY DEF Waited
<1> QED
  BY <1>4, <1>5 DEF Asked

\* What no step takes away: the tasks, and what was applied.
Lasts(ts) == DOMAIN tasks \subseteq DOMAIN ts /\ \A j \in DOMAIN tasks : ts[j].applied = tasks[j].applied

\* An action that has its turn moves on.
LEMMA WorksMoves ==
    ASSUME NEW w, Typed(w), Works, NEW c \in Calls, Holds(c), NEW i, i = calls[c].task, NEW b,
           NEW ts, Lasts(ts), NEW fs, Waited(fs, c, b),
           Moved(c, i, b, tasks[i].applied, ts, fs),
           b.pc # "idle" => b.task = i /\ b.kind = calls[c].kind,
           b.pc = "edit" => b.kind = "accept" /\ tasks[i].applied = None,
           UNCHANGED edits
    PROVE  Works'
<1>0. i \in DOMAIN tasks /\ calls \in [Calls -> Actions(w)] /\ \A d \in Calls : calls[d].task \in DOMAIN tasks
  BY DEF Typed
<1>1. calls' = [calls EXCEPT ![c] = b]
  BY DEF Moved
<1>2. Locked'
  <2> DEFINE S == Actions(w)
  <2> HIDE DEF S
  <2>1. calls \in [Calls -> S]
    BY <1>0 DEF S
  <2>2. Locked
    BY DEF Works
  <2>3. queue' = IF b.pc = "idle" /\ queue[i] # <<>> /\ Head(queue[i]) = c
                 THEN [queue EXCEPT ![i] = Tail(@)] ELSE queue
    BY DEF Moved
  <2>4. b.pc # "idle" => b.kind = calls[c].kind /\ b.task = i
    OBVIOUS
  <2> QED
    BY <1>1, <2>1, <2>2, <2>3, <2>4, LockMoves
<1>3. Asked'
  BY <1>1, AskedMoves DEF Moved, Works
<1>4. Lasts(tasks')
  BY <1>0 DEF Lasts, Moved
<1>5. Written'
  <2>1. edits' \in [TaskIndex -> {0, 1}]
    BY DEF Works, Written
  <2>2. \A j \in TaskIndex : edits'[j] = 1 => j \in DOMAIN tasks' /\ tasks'[j].applied # None
    BY <1>4 DEF Works, Written, Lasts
  <2>3. ASSUME NEW d \in Calls, calls'[d].pc = "edit"
        PROVE  calls'[d].kind = "accept" /\ (calls'[d].task \in TaskIndex => tasks'[calls'[d].task].applied = None)
    <3>1. CASE d = c
      <4>1. calls'[d] = b
        BY <1>0, <1>1, <3>1
      <4>2. b.pc = "edit" /\ b.pc # "idle"
        BY <2>3, <4>1
      <4> QED
        BY <1>0, <1>4, <4>1, <4>2 DEF Lasts
    <3>2. CASE d # c
      <4>1. calls'[d] = calls[d]
        BY <1>0, <1>1, <3>2
      <4> QED
        BY <1>0, <1>4, <2>3, <4>1 DEF Works, Written, Lasts
    <3> QED
      BY <3>1, <3>2
  <2> QED
    BY <2>1, <2>2, <2>3 DEF Written
<1> QED
  BY <1>2, <1>3, <1>5 DEF Works

\* No action moves.
LEMMA WorksSame ==
    ASSUME NEW w, Typed(w), Works, UNCHANGED <<calls, queue, edits>>, Lasts(tasks'), StillAsked(fetches')
    PROVE  Works'
<1>1. Locked'
  BY DEF Works, Locked, QueueTypes, QueueMembers, QueuedOnce, InQueue
<1>2. Asked'
  <2>1. \A k \in DOMAIN fetches' : fetches'[k].by # 0 => calls[fetches'[k].by].pc \in WaitPcs
    BY DEF Works, Asked, StillAsked
  <2> QED
    BY <2>1 DEF Asked, StillAsked
<1>3. Written'
  <2>1. \A d \in Calls : calls[d].task \in DOMAIN tasks
    BY DEF Typed
  <2> QED
    BY <2>1 DEF Works, Written, Lasts
<1> QED
  BY <1>1, <1>2, <1>3 DEF Works

-----------------------------------------------------------------------------
(* The actions of the extension *)

\* A step of it keeps the turns, the lists and the edits.
LEMMA ContinueWorks ==
    ASSUME NEW w, Typed(w), Works, NEW c \in Calls, Holds(c),
           NEW call \in Actions(w), call.task = calls[c].task, call.kind = calls[c].kind,
           NEW t, NEW r, Sound(r, w, t), t.applied = tasks[call.task].applied, Edits(r, call.kind, t),
           NEW ts \in Seq(Tasks(w)), Len(ts) >= Len(tasks), Lasts(ts),
           NEW fs \in Seq(ThreadLists(w)),
           StillAsked(fs), r.pc \in WaitPcs \/ \A k \in DOMAIN fs : fs[k].by # c \/ fs[k].by = 0,
           NEW answers, Continue(c, call, r, ts, fs, answers), UNCHANGED <<stamp, threads, authored, edits>>
    PROVE  (\E v : Typed(v)') /\ Works'
<1> DEFINE i == call.task
           b == NextAction(call, r)
<1>1. i \in DOMAIN tasks
  BY DEF Typed
<1>2. /\ \E v : Typed(v)'
      /\ Moved(c, i, b, t.applied, ts, fs) /\ b.pc = r.pc
      /\ r.pc # "idle" => b.task = i /\ b.kind = call.kind
  BY <1>1, ContinueKeeps
<1> HIDE DEF b, i
<1>3. b.pc = "edit" => b.kind = "accept" /\ tasks[i].applied = None
  BY <1>2 DEF Edits, i
<1>4. Waited(fs, c, b)
  BY <1>2, KeptWaits
<1>5. Moved(c, i, b, tasks[i].applied, ts, fs) /\ i = calls[c].task
  BY <1>2 DEF i
<1>6. b.pc # "idle" => b.task = i /\ b.kind = calls[c].kind
  BY <1>2
<1>7. Works'
  BY <1>3, <1>4, <1>5, <1>6, WorksMoves
<1> QED
  BY <1>2, <1>7

\* No task loses its note when none changes.
LEMMA LastsSame ==
    ASSUME NEW w, Typed(w)
    PROVE  Lasts(tasks) /\ tasks \in Seq(Tasks(w)) /\ Len(tasks) >= Len(tasks) /\ fetches \in Seq(ThreadLists(w))
<1>1. tasks \in Seq(Tasks(w)) /\ fetches \in Seq(ThreadLists(w)) /\ Len(tasks) \in Nat
  BY DEF Typed
<1> QED
  BY <1>1 DEF Lasts

\* No list is for an action that does not wait for one.
LEMMA FreeOfLists ==
    ASSUME Asked, NEW c \in Calls, calls[c].pc \notin WaitPcs
    PROVE  StillAsked(fetches) /\ \A k \in DOMAIN fetches : fetches[k].by # c \/ fetches[k].by = 0
BY SameKept DEF Asked

\* Action c goes on, without a list.
LEMMA GoesOnWorks ==
    ASSUME NEW w, Typed(w), Works, NEW c \in Calls, Holds(c), calls[c].pc \notin WaitPcs,
           NEW call \in Actions(w), call.task = calls[c].task, call.kind = calls[c].kind,
           NEW t, NEW r, Sound(r, w, t), t.applied = tasks[call.task].applied, Edits(r, call.kind, t),
           Continue(c, call, r, tasks, fetches, {}), UNCHANGED <<stamp, threads, authored, edits>>
    PROVE  (\E v : Typed(v)') /\ Works'
<1>1. Lasts(tasks) /\ tasks \in Seq(Tasks(w)) /\ Len(tasks) >= Len(tasks) /\ fetches \in Seq(ThreadLists(w))
  BY LastsSame
<1>2. StillAsked(fetches) /\ \A k \in DOMAIN fetches : fetches[k].by # c \/ fetches[k].by = 0
  BY FreeOfLists DEF Works
<1> DEFINE fs == fetches
           ts == tasks
           none == {}
<1>3. Continue(c, call, r, ts, fs, none)
  OBVIOUS
<1>4. ts \in Seq(Tasks(w)) /\ Len(ts) >= Len(tasks) /\ Lasts(ts) /\ fs \in Seq(ThreadLists(w)) /\ StillAsked(fs)
      /\ (r.pc \in WaitPcs \/ \A k \in DOMAIN fs : fs[k].by # c \/ fs[k].by = 0)
  BY <1>1, <1>2
<1> HIDE DEF fs, ts, none
<1> QED
  BY <1>3, <1>4, ContinueWorks

\* An action asks for a list, or goes by what is cached.
LEMMA RefreshKeeps ==
    ASSUME NEW w, Typed(w), Works, NEW c \in Calls, Holds(c), calls[c].pc \notin WaitPcs,
           NEW call \in Actions(w), call.task = calls[c].task, call.kind = calls[c].kind, call.pc \in WaitPcs,
           NEW t \in Tasks(w), t.applied = tasks[call.task].applied,
           NEW r, Sound(r, w, t), Edits(r, call.kind, t),
           Refresh(c, call, t, r), UNCHANGED <<stamp, threads, authored, edits>>
    PROVE  (\E v : Typed(v)') /\ Works'
<1>1. CASE degraded /\ Continue(c, call, r, tasks, fetches, {})
  BY <1>1, GoesOnWorks
<1>2. CASE /\ fetches' = BeginFetch(c)
           /\ calls' = [calls EXCEPT ![c] = call]
           /\ tasks' = [tasks EXCEPT ![call.task] = t]
           /\ UNCHANGED <<queue, held, misled, told>>
  <2> DEFINE i == call.task
             fs == BeginFetch(c)
             ts == [tasks EXCEPT ![i] = t]
  <2>1. i \in DOMAIN tasks /\ tasks \in Seq(Tasks(w)) /\ calls \in [Calls -> Actions(w)]
        /\ tasks # <<>> /\ \A d \in Calls : calls[d].task \in DOMAIN tasks
    BY DEF Typed
  <2>2. fs \in Seq(ThreadLists(w)) /\ Waited(fs, c, call)
    BY BeginFetchTypes, OneMore DEF Works
  <2>3. ts \in Seq(Tasks(w)) /\ Len(ts) = Len(tasks)
    BY <2>1, SetAt
  <2>4. DOMAIN ts = DOMAIN tasks /\ \A j \in DOMAIN tasks : ts[j].applied = tasks[j].applied
    BY <2>1
  <2>5. Lasts(tasks)
    BY LastsSame
  <2>6. call.pc # "idle" /\ call.pc # "edit"
    BY DEF WaitPcs
  <2>7. calls' \in [Calls -> Actions(w)] /\ \A d \in Calls : calls'[d].task \in DOMAIN tasks
    BY <1>2, <2>1
  <2>8. Typed(w)'
    <3> HIDE DEF ts, fs
    <3>1. tasks' = ts /\ fetches' = fs
      BY <1>2 DEF ts, fs
    <3>2. ts # <<>>
      BY <2>1, <2>4
    <3> QED
      BY <1>2, <2>2, <2>3, <2>4, <2>7, <3>1, <3>2 DEF Typed
  <2>9. Moved(c, i, call, tasks[i].applied, tasks, fs)
    <3> HIDE DEF ts, fs
    <3>1. tasks' = ts /\ fetches' = fs
      BY <1>2 DEF ts, fs
    <3> QED
      BY <1>2, <2>4, <2>6, <3>1 DEF Moved
  <2>10. i = calls[c].task
    OBVIOUS
  <2> HIDE DEF i, fs, ts
  <2>a. (call.pc # "idle" => call.task = i /\ call.kind = calls[c].kind)
        /\ (call.pc = "edit" => call.kind = "accept" /\ tasks[i].applied = None)
    BY <2>6 DEF i
  <2>11. Works'
    BY <2>2, <2>5, <2>9, <2>10, <2>a, WorksMoves
  <2> QED
    BY <2>8, <2>11
<1> QED
  BY <1>1, <1>2 DEF Refresh

\* Fields of an action that the program sets while it goes on.
Turned(a, pc) == [a EXCEPT !.pc = pc]
\* An action that waits for its first list.
Checks(a, stale) == [a EXCEPT !.pc = "refresh", !.stale = stale]

\* An action that waits for one.
LEMMA TurnedTypes ==
    ASSUME NEW w, NEW a \in Actions(w)
    PROVE  /\ \A pc \in WaitPcs : Turned(a, pc) \in Actions(w) /\ Turned(a, pc).pc = pc
                                  /\ Turned(a, pc).task = a.task /\ Turned(a, pc).kind = a.kind
           /\ \A stale \in BOOLEAN : Checks(a, stale) \in Actions(w) /\ Checks(a, stale).pc = "refresh"
                                  /\ Checks(a, stale).task = a.task /\ Checks(a, stale).kind = a.kind
<1>1. ASSUME NEW pc \in WaitPcs
      PROVE  Turned(a, pc) \in Actions(w) /\ Turned(a, pc).pc = pc /\ Turned(a, pc).task = a.task /\ Turned(a, pc).kind = a.kind
  <2> DEFINE b == Turned(a, pc)
  <2>0. pc \in CallPcs /\ pc # "replied" /\ pc # "edit"
    BY DEF WaitPcs, CallPcs
  <2>1. /\ b.pc = pc /\ b.kind = a.kind /\ b.task = a.task /\ b.out = a.out
        /\ b \in [kind : Kinds \cup {None}, task : Nat, pc : CallPcs, first : Nat, thread : Nat,
                  born : Nat, out : Outs, stale : BOOLEAN]
    BY <2>0 DEF Actions, Turned
  <2> HIDE DEF b
  <2>2. b \in Actions(w)
    BY <2>0, <2>1 DEF Actions
  <2> QED
    BY <2>1, <2>2 DEF b
<1>2. ASSUME NEW stale \in BOOLEAN
      PROVE  Checks(a, stale) \in Actions(w) /\ Checks(a, stale).pc = "refresh"
             /\ Checks(a, stale).task = a.task /\ Checks(a, stale).kind = a.kind
  <2> DEFINE b == Checks(a, stale)
  <2>1. /\ b.pc = "refresh" /\ b.kind = a.kind /\ b.task = a.task /\ b.out = a.out
        /\ b \in [kind : Kinds \cup {None}, task : Nat, pc : CallPcs, first : Nat, thread : Nat,
                  born : Nat, out : Outs, stale : BOOLEAN]
    BY DEF Actions, Checks, CallPcs
  <2> HIDE DEF b
  <2>2. b \in Actions(w)
    BY <2>1 DEF Actions
  <2> QED
    BY <2>1, <2>2 DEF b
<1> QED
  BY <1>1, <1>2

\* An action is called.
LEMMA ActionStartsKeeps ==
    ASSUME NEW w, Typed(w), Works, NEW c \in Calls, NEW kind \in Kinds, NEW i \in DOMAIN tasks, ActionStarts(c, kind, i)
    PROVE  Typed(w)' /\ Works'
<1> DEFINE b == [Idle EXCEPT !.kind = kind, !.task = i, !.pc = "turn"]
<1>0. /\ calls[c].pc = "idle" /\ calls' = [calls EXCEPT ![c] = b]
      /\ queue' = IF kind = "userReply" THEN queue ELSE [queue EXCEPT ![i] = Append(@, c)]
      /\ UNCHANGED <<stamp, threads, authored, told, tasks, fetches, edits>>
  BY DEF ActionStarts, githubVars, ghostVars, postVars
<1>1. tasks \in Seq(Tasks(w)) /\ calls \in [Calls -> Actions(w)] /\ i \in Nat /\ \A d \in Calls : calls[d].task \in DOMAIN tasks
  BY DEF Typed
<1>2. b \in Actions(w) /\ b.kind = kind /\ b.task = i /\ b.pc = "turn"
  BY <1>1 DEF Idle, Actions, CallPcs, Outs
<1> HIDE DEF b
<1>3. calls'[c] = b /\ \A d \in Calls : d # c => calls'[d] = calls[d]
  BY <1>0, <1>1
<1>4. calls' \in [Calls -> Actions(w)] /\ \A d \in Calls : calls'[d].task \in DOMAIN tasks
  BY <1>0, <1>1, <1>2
<1>5. Typed(w)'
  BY <1>0, <1>4 DEF Typed
<1>6. queue \in [TaskIndex -> Seq(Calls)]
  BY DEF Works, Locked, QueueTypes
<1>7. \A j \in TaskIndex : \A m \in 1..Len(queue[j]) : queue[j][m] \in Calls /\ queue[j][m] # c
  BY <1>0, <1>6 DEF Works, Locked, QueueMembers, Queued
<1>8. \A j \in TaskIndex : \A m \in 1..Len(queue[j]) : Queued(calls'[queue[j][m]], j, m)
  BY <1>3, <1>7 DEF Works, Locked, QueueMembers
<1>9. ASSUME kind = "userReply" \/ i \notin TaskIndex PROVE Locked'
  <2>1. queue' = queue
    <3>1. CASE i \notin TaskIndex
      <4>1. [queue EXCEPT ![i] = Append(@, c)] = queue
        BY <1>6, <3>1
      <4> QED
        BY <1>0, <4>1
    <3> QED
      BY <1>0, <1>9, <3>1
  <2>2. QueueMembers'
    BY <1>8, <2>1 DEF QueueMembers
  <2>3. InQueue'
    <3>1. ASSUME NEW d \in Calls, calls'[d].pc # "idle", calls'[d].kind # "userReply", calls'[d].task \in TaskIndex
          PROVE  \E m \in 1..Len(queue[calls'[d].task]) : queue[calls'[d].task][m] = d
      <4>1. d # c /\ calls'[d] = calls[d]
        BY <1>2, <1>3, <1>9, <3>1
      <4> QED
        BY <3>1, <4>1 DEF Works, Locked, InQueue
    <3> QED
      BY <2>1, <3>1 DEF InQueue
  <2> QED
    BY <2>1, <2>2, <2>3 DEF Works, Locked, QueueTypes, QueuedOnce
<1>10. ASSUME ~(kind = "userReply" \/ i \notin TaskIndex) PROVE Locked'
  <2> DEFINE q == queue[i]
             r == Append(q, c)
             S0 == Calls
  <2>1. queue' = [queue EXCEPT ![i] = r]
    BY <1>0, <1>10
  <2>2. q \in Seq(S0) /\ c \in S0
    BY <1>6, <1>10
  <2> HIDE DEF q, S0
  <2>3. r \in Seq(S0) /\ Len(q) \in Nat /\ Len(r) = Len(q) + 1 /\ r[Len(q) + 1] = c
        /\ \A m \in 1..Len(q) : r[m] = q[m]
    BY <2>2
  <2>4. \A m \in 1..Len(r) : m \in 1..Len(q) \/ (m = Len(q) + 1 /\ m \in Nat)
    BY <2>3
  <2>5. Len(q) + 1 \in 1..Len(r) /\ \A m \in 1..Len(q) : m \in 1..Len(r)
    BY <2>3
  <2> HIDE DEF r
  <2>6. queue' \in [TaskIndex -> Seq(Calls)] /\ queue'[i] = r /\ \A j \in TaskIndex : j # i => queue'[j] = queue[j]
    BY <1>6, <1>10, <2>1, <2>3 DEF S0
  <2>7. \A m \in 1..Len(q) : q[m] # c
    BY <1>7, <1>10 DEF q
  <2>8. ASSUME NEW j \in TaskIndex, NEW m \in 1..Len(queue'[j])
        PROVE  Queued(calls'[queue'[j][m]], j, m)
    <3>1. CASE j # i
      BY <1>8, <2>6, <3>1
    <3>2. CASE j = i /\ m \in 1..Len(q)
      <4>1. queue'[j][m] = queue[j][m] /\ m \in 1..Len(queue[j])
        BY <2>3, <2>6, <3>2 DEF q
      <4> QED
        BY <1>8, <4>1
    <3>3. CASE j = i /\ m = Len(q) + 1
      <4>1. calls'[queue'[j][m]] = b
        BY <1>3, <2>3, <2>6, <3>3
      <4> QED
        BY <1>2, <1>10, <3>3, <4>1 DEF Queued
    <3> QED
      BY <2>4, <2>6, <3>1, <3>2, <3>3
  <2>9. ASSUME NEW j \in TaskIndex, NEW m \in 1..Len(queue'[j]), NEW n \in 1..Len(queue'[j]), queue'[j][m] = queue'[j][n]
        PROVE  m = n
    <3>1. CASE j # i
      BY <2>6, <2>9, <3>1 DEF Works, Locked, QueuedOnce
    <3>2. CASE j = i
      <4>1. m \in 1..Len(r) /\ n \in 1..Len(r) /\ r[m] = r[n]
        BY <2>6, <2>9, <3>2
      <4>2. CASE m \in 1..Len(q) /\ n \in 1..Len(q)
        <5>1. q[m] = q[n]
          BY <2>3, <4>1, <4>2
        <5> QED
          BY <1>10, <4>2, <5>1 DEF Works, Locked, QueuedOnce, q
      <4> QED
        BY <2>3, <2>4, <2>7, <4>1, <4>2
    <3> QED
      BY <3>1, <3>2
  <2>10. ASSUME NEW d \in Calls, calls'[d].pc # "idle", calls'[d].kind # "userReply", calls'[d].task \in TaskIndex
         PROVE  \E m \in 1..Len(queue'[calls'[d].task]) : queue'[calls'[d].task][m] = d
    <3>1. CASE d = c
      BY <1>2, <1>3, <2>3, <2>5, <2>6, <3>1
    <3>2. CASE d # c
      <4>1. calls'[d] = calls[d]
        BY <1>3, <3>2
      <4>2. PICK m \in 1..Len(queue[calls[d].task]) : queue[calls[d].task][m] = d
        BY <2>10, <4>1 DEF Works, Locked, InQueue
      <4>3. CASE calls[d].task = i
        <5>1. m \in 1..Len(q) /\ q[m] = d
          BY <4>2, <4>3 DEF q
        <5> QED
          BY <2>3, <2>5, <2>6, <4>1, <4>3, <5>1
      <4>4. CASE calls[d].task # i
        BY <2>6, <2>10, <4>1, <4>2, <4>4
      <4> QED
        BY <4>3, <4>4
    <3> QED
      BY <3>1, <3>2
  <2>11. QueueTypes'
    BY <2>6 DEF QueueTypes
  <2>12. QueueMembers'
    BY <2>8 DEF QueueMembers
  <2>13. QueuedOnce'
    BY <2>9 DEF QueuedOnce
  <2>14. InQueue'
    BY <2>10 DEF InQueue
  <2> QED
    BY <2>11, <2>12, <2>13, <2>14 DEF Locked
<1>11. Asked'
  <2>1. \A k \in DOMAIN fetches : fetches[k].by # 0 => fetches[k].by # c
    BY <1>0 DEF Works, Asked, WaitPcs
  <2>2. ASSUME NEW k \in DOMAIN fetches, fetches[k].by # 0 PROVE calls'[fetches[k].by].pc \in WaitPcs
    <3>1. fetches[k].by \in Calls
      <4>1. fetches \in Seq(ThreadLists(w))
        BY DEF Typed
      <4>2. fetches[k] \in ThreadLists(w)
        BY <4>1
      <4> QED
        BY <2>2, <4>2 DEF ThreadLists
    <3> QED
      BY <1>3, <2>1, <2>2, <3>1 DEF Works, Asked
  <2> QED
    BY <1>0, <2>2 DEF Works, Asked
<1>12. Written'
  <2>1. ASSUME NEW d \in Calls, calls'[d].pc = "edit" PROVE calls'[d] = calls[d]
    BY <1>2, <1>3, <2>1
  <2> QED
    BY <1>0, <2>1 DEF Works, Written
<1> QED
  BY <1>5, <1>9, <1>10, <1>11, <1>12 DEF Works

\* An action and its task.
LEMMA HolderTypes ==
    ASSUME NEW w, Typed(w), NEW c \in Calls
    PROVE  /\ calls[c] \in Actions(w) /\ calls[c].task \in DOMAIN tasks /\ tasks[calls[c].task] \in Tasks(w)
           /\ calls[c].task \in Nat
BY DEF Typed

\* It has its turn.
LEMMA ActionChecksKeeps ==
    ASSUME NEW w, Typed(w), Works, NEW c \in Calls, ActionChecks(c)
    PROVE  (\E v : Typed(v)') /\ Works'
<1> DEFINE a == calls[c]
           t == tasks[a.task]
           stale == t.status = "STALE"
           call == Checks(a, stale)
<1>1. Holds(c)
  BY TurnHolds DEF ActionChecks, Works
<1>2. calls[c].pc \notin WaitPcs
  BY DEF ActionChecks, HasTurn, WaitPcs
<1>3. a \in Actions(w) /\ t \in Tasks(w) /\ stale \in BOOLEAN
  BY HolderTypes
<1>4. PICK placed \in BOOLEAN : Refresh(c, call, t, Checked(call, t, placed))
  BY DEF ActionChecks, Checks
<1>5. UNCHANGED <<stamp, threads, authored, edits>>
  BY DEF ActionChecks, githubVars, postVars
<1> HIDE DEF stale
<1>6. call \in Actions(w) /\ call.pc \in WaitPcs /\ call.task = a.task /\ call.kind = a.kind
  BY <1>3, TurnedTypes DEF WaitPcs
<1>7. t.applied = tasks[call.task].applied
  BY <1>6
<1> HIDE DEF call
<1> DEFINE r == Checked(call, t, placed)
<1>8. Sound(r, w, t) /\ Edits(r, call.kind, t)
  <2>1. Timed(w)
    BY DEF Typed
  <2> HIDE DEF t
  <2> QED
    BY <1>3, <2>1, CheckedSound
<1>9. Refresh(c, call, t, r)
  BY <1>4
<1>10. call.task = calls[c].task /\ call.kind = calls[c].kind
  BY <1>6
<1> HIDE DEF r, t
<1> QED
  BY <1>1, <1>2, <1>3, <1>5, <1>6, <1>7, <1>8, <1>9, <1>10, RefreshKeeps DEF t

\* A list leaves the notes.
LEMMA SyncedLasts ==
    ASSUME NEW w, Typed(w), NEW k \in DOMAIN fetches
    PROVE  /\ Synced(k).tasks \in Seq(Tasks(w)) /\ Len(Synced(k).tasks) >= Len(tasks) /\ Lasts(Synced(k).tasks)
           /\ Synced(k).tasks # <<>>
<1> DEFINE ts == Synced(k).tasks
<1>1. /\ ts \in Seq(Tasks(w)) /\ Len(ts) >= Len(tasks)
      /\ \A i \in DOMAIN ts : ts[i].applied = IF i \in DOMAIN tasks THEN tasks[i].applied ELSE None
  BY SyncedKeeps
<1>2. tasks \in Seq(Tasks(w)) /\ tasks # <<>>
  BY DEF Typed
<1> HIDE DEF ts
<1>3. DOMAIN tasks = 1..Len(tasks) /\ DOMAIN ts = 1..Len(ts) /\ Len(tasks) \in Nat /\ Len(ts) \in Nat /\ Len(tasks) # 0
  BY <1>1, <1>2
<1>4. DOMAIN tasks \subseteq DOMAIN ts /\ Len(ts) # 0
  BY <1>1, <1>3
<1>5. Lasts(ts)
  BY <1>1, <1>4 DEF Lasts
<1> QED
  BY <1>1, <1>4, <1>5 DEF ts

\* The lists after list k arrived, or failed.
LEMMA AfterListWaits ==
    ASSUME NEW w, Typed(w), Asked, NEW k \in DOMAIN fetches, NEW fs \in {AfterList(k), RemoveAt(fetches, k)}
    PROVE  /\ fs \in Seq(ThreadLists(w)) /\ StillAsked(fs)
           /\ \A j \in DOMAIN fs : fs[j].by # 0 => fs[j].by # fetches[k].by
<1>1. /\ fs \in Seq(ThreadLists(w)) /\ Len(fs) = Len(fetches) - 1
      /\ \A j \in DOMAIN fs : fs[j].by = fetches[IF j < k THEN j ELSE j + 1].by
  BY AfterListTypes, WithoutListTypes
<1> QED
  BY <1>1, OneLess

\* The list of an action arrives,
LEMMA ListArrivesKeeps ==
    ASSUME NEW w, Typed(w), Works, NEW k \in DOMAIN fetches, ListArrives(k)
    PROVE  (\E v : Typed(v)') /\ Works'
<1> DEFINE c == fetches[k].by
           ts == Synced(k).tasks
           i == calls[c].task
           t == ts[i]
           fs == AfterList(k)
           answers == Synced(k).answers
<1>0. fetches[k].by # 0 /\ UNCHANGED <<stamp, threads, authored, edits>>
  BY DEF ListArrives, githubVars, postVars
<1>1. c \in Calls /\ calls[c].pc \in WaitPcs
  <2>1. fetches \in Seq(ThreadLists(w))
    BY DEF Typed
  <2>2. fetches[k] \in ThreadLists(w)
    BY <2>1
  <2> QED
    BY <1>0, <2>2 DEF Works, Asked, ThreadLists
<1>2. Holds(c)
  BY <1>1, PastTurnHolds DEF Works, WaitPcs
<1>3. ts \in Seq(Tasks(w)) /\ Len(ts) >= Len(tasks) /\ Lasts(ts)
  BY SyncedLasts
<1>4. calls[c] \in Actions(w) /\ i \in DOMAIN tasks
  BY <1>1, HolderTypes
<1>5. t \in Tasks(w) /\ t.applied = tasks[i].applied
  BY <1>3, <1>4 DEF Lasts
<1>6. PICK placed \in BOOLEAN :
        Continue(c, calls[c],
                 CASE calls[c].pc = "refresh" -> Checked(calls[c], t, placed)
                   [] calls[c].pc = "final" -> Return(t)
                   [] OTHER -> Again(calls[c], t),
                 ts, fs, answers)
  BY DEF ListArrives, ListApplies, GoesOn
<1> DEFINE r == CASE calls[c].pc = "refresh" -> Checked(calls[c], t, placed)
                  [] calls[c].pc = "final" -> Return(t)
                  [] OTHER -> Again(calls[c], t)
<1>7. Continue(c, calls[c], r, ts, fs, answers)
  BY <1>6
<1>8. fs \in Seq(ThreadLists(w)) /\ StillAsked(fs) /\ \A j \in DOMAIN fs : fs[j].by # c \/ fs[j].by = 0
  BY AfterListWaits DEF Works
<1>9. \/ r = Checked(calls[c], t, placed)
      \/ r = Return(t) \/ r = Again(calls[c], t)
  OBVIOUS
<1> HIDE DEF r, t, ts, fs, answers, c, i
<1>10. Sound(r, w, t) /\ Edits(r, calls[c].kind, t)
  <2>1. Timed(w)
    BY DEF Typed
  <2>2. CASE r = Checked(calls[c], t, placed)
    BY <1>5, <2>1, <2>2, CheckedSound
  <2>3. CASE r = Return(t)
    <3>1. Sound(Return(t), w, t) /\ Return(t).pc = "idle"
      BY <1>5, <2>1, ReturnSound
    <3> QED
      BY <2>3, <3>1 DEF Edits
  <2>4. CASE r = Again(calls[c], t)
    <3>1. Sound(Again(calls[c], t), w, t) /\ Again(calls[c], t).pc \in {"idle", "reply", "resolve"}
      BY <1>5, <2>1, AgainSound
    <3> QED
      BY <2>4, <3>1 DEF Edits
  <2> QED
    BY <1>9, <2>2, <2>3, <2>4
<1>11. calls[c].task = calls[c].task /\ calls[c].kind = calls[c].kind
       /\ t.applied = tasks[calls[c].task].applied
  BY <1>5 DEF i
<1> DEFINE call == calls[c]
<1>12. Continue(c, call, r, ts, fs, answers) /\ call \in Actions(w) /\ call.task = calls[c].task /\ call.kind = calls[c].kind
       /\ t.applied = tasks[call.task].applied /\ Edits(r, call.kind, t)
  BY <1>4, <1>7, <1>10, <1>11
<1> HIDE DEF call
<1> QED
  BY <1>0, <1>1, <1>2, <1>3, <1>8, <1>10, <1>12, ContinueWorks

\* or fails.
LEMMA ListFailsKeeps ==
    ASSUME NEW w, Typed(w), Works, NEW k \in DOMAIN fetches, ListFails(k)
    PROVE  (\E v : Typed(v)') /\ Works'
<1> DEFINE c == fetches[k].by
           call == calls[c]
           t == tasks[call.task]
           fs == RemoveAt(fetches, k)
           r == Return(t)
           none == {}
           ts == tasks
<1>0. fetches[k].by # 0 /\ UNCHANGED <<stamp, threads, authored, edits>>
  BY DEF ListFails, githubVars, postVars
<1>1. c \in Calls /\ calls[c].pc \in WaitPcs
  <2>1. fetches \in Seq(ThreadLists(w))
    BY DEF Typed
  <2>2. fetches[k] \in ThreadLists(w)
    BY <2>1
  <2> QED
    BY <1>0, <2>2 DEF Works, Asked, ThreadLists
<1>2. Holds(c)
  BY <1>1, PastTurnHolds DEF Works, WaitPcs
<1>3. call \in Actions(w) /\ t \in Tasks(w)
  BY <1>1, HolderTypes
<1>4. Continue(c, call, r, ts, fs, none)
  BY DEF ListFails
<1>5. fs \in Seq(ThreadLists(w)) /\ StillAsked(fs) /\ \A j \in DOMAIN fs : fs[j].by # c \/ fs[j].by = 0
  BY AfterListWaits DEF Works
<1>6. Sound(r, w, t) /\ Edits(r, call.kind, t)
  <2>1. Timed(w)
    BY DEF Typed
  <2>2. Sound(r, w, t) /\ r.pc = "idle"
    BY <1>3, <2>1, ReturnSound
  <2> QED
    BY <2>2 DEF Edits
<1>7. Lasts(ts) /\ ts \in Seq(Tasks(w)) /\ Len(ts) >= Len(tasks)
  BY LastsSame
<1>8. call.task = calls[c].task /\ call.kind = calls[c].kind /\ t.applied = tasks[call.task].applied
  OBVIOUS
<1> HIDE DEF c, call, t, fs, r, none, ts
<1> QED
  BY <1>0, <1>1, <1>2, <1>3, <1>4, <1>5, <1>6, <1>7, <1>8, ContinueWorks

-----------------------------------------------------------------------------
(* Background syncs *)

\* A sync of the background begins,
LEMMA SyncStartsKeeps ==
    ASSUME NEW w, Typed(w), Works, SyncStarts
    PROVE  Typed(w)' /\ Works'
<1> DEFINE n == Len(fetches) + 1
           gs == BeginFetch(0)
<1>1. PICK nodes \in Reads : fetches' = ReadAt(gs, n, nodes)
  BY DEF SyncStarts
<1>2. UNCHANGED <<stamp, threads, authored, told, tasks, calls, queue, edits>>
  BY DEF SyncStarts, githubVars, ghostVars, postVars, piVars
<1>3. /\ gs \in Seq(ThreadLists(w)) /\ Len(gs) = n /\ (\A j \in DOMAIN fetches : gs[j] = fetches[j])
      /\ gs[n].by = 0
  <2> DEFINE z == 0
  <2>1. z \in Calls \cup {0}
    OBVIOUS
  <2> HIDE DEF z
  <2>2. /\ BeginFetch(z) \in Seq(ThreadLists(w)) /\ Len(BeginFetch(z)) = n /\ (\A j \in DOMAIN fetches : BeginFetch(z)[j] = fetches[j])
        /\ BeginFetch(z)[n].by = z
    BY <2>1, BeginFetchTypes
  <2> QED
    BY <2>2 DEF z
<1>4. nodes \in Seq(Nodes(w))
  BY ReadsTypes
<1>5. fetches \in Seq(ThreadLists(w)) /\ Len(fetches) \in Nat /\ DOMAIN fetches = 1..Len(fetches)
  BY DEF Typed
<1> HIDE DEF gs
<1>6. DOMAIN gs = 1..n /\ n \in DOMAIN gs /\ \A j \in DOMAIN gs : j \in DOMAIN fetches \/ j = n
  BY <1>3, <1>5
<1> HIDE DEF n
<1> DEFINE fs == ReadAt(gs, n, nodes)
<1>7. fs \in Seq(ThreadLists(w)) /\ DOMAIN fs = DOMAIN gs /\ \A j \in DOMAIN gs : fs[j].by = gs[j].by
  <2>1. gs \in Seq(ThreadLists(w)) /\ n \in DOMAIN gs /\ nodes \in Seq(Nodes(w))
    BY <1>3, <1>4, <1>6
  <2> QED
    BY <2>1, ReadAtTypes
<1> HIDE DEF fs
<1>8. StillAsked(fs)
  <2>1. \A j \in DOMAIN fs : fs[j].by # 0 => j \in DOMAIN fetches /\ fs[j].by = fetches[j].by
    BY <1>3, <1>6, <1>7
  <2> QED
    BY <2>1 DEF StillAsked, Works, Asked
<1>9. fetches' = fs
  BY <1>1 DEF fs
<1>10. Typed(w)'
  BY <1>2, <1>7, <1>9 DEF Typed
<1>11. Lasts(tasks')
  BY <1>2 DEF Lasts
<1> QED
  BY <1>2, <1>8, <1>9, <1>10, <1>11, WorksSame

\* has its list,
LEMMA SyncArrivesKeeps ==
    ASSUME NEW w, Typed(w), Works, NEW k \in DOMAIN fetches, SyncArrives(k)
    PROVE  (\E v : Typed(v)') /\ Works'
<1> DEFINE s == Synced(k)
           tell == Tell(s.answers, s.tasks, queue)
           more == {} \cup {Words(a.reply) : a \in tell.said}
           v0 == Hearing(w, more)
           ts == s.tasks
           fs == AfterList(k)
<1>1. tasks' = ts /\ told' = told \cup more /\ fetches' = fs /\ UNCHANGED <<stamp, threads, authored, calls, queue, edits>>
  BY DEF SyncArrives, SyncApplies, Announces, githubVars, postVars
<1> HIDE DEF tell
<1>2. Timed(w) /\ w.told = told /\ w.stamp = stamp /\ w.authored = authored
      /\ \A c \in Calls : calls[c].task \in DOMAIN tasks
  BY DEF Typed
<1>3. Timed(v0) /\ Grows(w, v0) /\ v0.stamp = stamp /\ v0.authored = authored /\ v0.told = told \cup more
  <2> HIDE DEF more
  <2> QED
    BY <1>2, HearingGrows DEF Hearing
<1> HIDE DEF v0, more
<1>4. PICK u : u = v0
  OBVIOUS
<1>5. threads \in Seq(Nodes(u)) /\ calls \in [Calls -> Actions(u)]
  BY <1>3, <1>4, TypedGrows
<1>6. ts \in Seq(Tasks(w)) /\ Lasts(ts) /\ ts # <<>>
  BY SyncedLasts
<1>7. ts \in Seq(Tasks(u))
  BY <1>3, <1>4, <1>6, TasksGrow, SeqGrows
<1>8. fs \in Seq(ThreadLists(w)) /\ StillAsked(fs)
  BY AfterListWaits DEF Works
<1>9. fs \in Seq(ThreadLists(u))
  BY <1>3, <1>4, <1>8, ListsGrow, SeqGrows
<1> HIDE DEF ts, fs
<1>10. Typed(u)'
  <2>1. \A c \in Calls : calls[c].task \in DOMAIN ts
    BY <1>2, <1>6 DEF Lasts
  <2> QED
    BY <1>1, <1>3, <1>4, <1>5, <1>6, <1>7, <1>9, <2>1 DEF Typed
<1>11. Lasts(tasks') /\ StillAsked(fetches')
  <2>1. Lasts(tasks')
    BY <1>1, <1>6 DEF Lasts
  <2>2. StillAsked(fetches')
    BY <1>1, <1>8 DEF StillAsked
  <2> QED
    BY <2>1, <2>2
<1>12. Works'
  BY <1>1, <1>11, WorksSame
<1> QED
  BY <1>10, <1>12

\* or fails.
LEMMA SyncFailsKeeps ==
    ASSUME NEW w, Typed(w), Works, NEW k \in DOMAIN fetches, SyncFails(k)
    PROVE  Typed(w)' /\ Works'
<1> DEFINE fs == RemoveAt(fetches, k)
<1>1. fetches' = fs /\ UNCHANGED <<stamp, threads, authored, told, tasks, calls, queue, edits>>
  BY DEF SyncFails, githubVars, ghostVars, postVars, CallFails
<1>2. fs \in Seq(ThreadLists(w)) /\ StillAsked(fs)
  BY AfterListWaits DEF Works
<1> HIDE DEF fs
<1>3. Typed(w)'
  BY <1>1, <1>2 DEF Typed
<1>4. Lasts(tasks') /\ StillAsked(fetches')
  BY <1>1, <1>2 DEF Lasts, StillAsked
<1> QED
  BY <1>1, <1>3, <1>4, WorksSame

\* A suggestion is written, and noted in the same step.
LEMMA SuggestionIsWrittenKeeps ==
    ASSUME NEW w, Typed(w), Works, NEW c \in Calls, SuggestionIsWritten(c)
    PROVE  (\E v : Typed(v)') /\ Works'
<1> DEFINE call == calls[c]
           i == call.task
           t == [tasks[i] EXCEPT !.applied = call.out]
<1>0. call.pc = "edit" /\ UNCHANGED <<stamp, threads, authored>>
  BY DEF SuggestionIsWritten, githubVars, postVars
<1>1. call \in Actions(w) /\ i \in DOMAIN tasks /\ tasks[i] \in Tasks(w) /\ Timed(w)
  BY HolderTypes DEF Typed
<1>2. Holds(c)
  BY <1>0, PastTurnHolds DEF Works
<1>3. calls[c].pc \notin WaitPcs
  BY <1>0 DEF WaitPcs
<1>4. CASE Continue(c, call, Return(tasks[i]), tasks, fetches, {}) /\ UNCHANGED edits
  <2> DEFINE r == Return(tasks[i])
             u == tasks[i]
  <2>1. Sound(r, w, u) /\ Edits(r, call.kind, u)
    <3>1. Sound(Return(u), w, u) /\ Return(u).pc = "idle"
      BY <1>1, ReturnSound
    <3> QED
      BY <3>1 DEF Edits
  <2>2. Continue(c, call, r, tasks, fetches, {}) /\ u.applied = tasks[call.task].applied
        /\ call.task = calls[c].task /\ call.kind = calls[c].kind
    BY <1>4
  <2> HIDE DEF r, u, call
  <2> QED
    BY <1>0, <1>1, <1>2, <1>3, <1>4, <2>1, <2>2, GoesOnWorks
<1>5. CASE /\ Continue(c, call, GoOn("reply", t), tasks, fetches, {})
           /\ edits' = [edits EXCEPT ![i] = @ + 1]
  <2> DEFINE r == GoOn("reply", t)
             b == NextAction(call, r)
             ts == tasks
             fs == fetches
             none == {}
  <2>1. call.out \in Suggestions /\ call.out \in Texts /\ call.out # None
    BY <1>0, <1>1, ReviewAssumption DEF Actions, Texts
  <2>2. t \in Tasks(w) /\ t.applied = call.out
    <3>1. t \in Tasks(w)
      BY <1>1, <2>1, PlainField
    <3> DEFINE u == tasks[i]
               x == call.out
    <3>2. u \in Tasks(w) /\ t = [u EXCEPT !.applied = x]
      BY <1>1
    <3> HIDE DEF u, x, t
    <3>3. t.applied = x
      BY <3>2 DEF Tasks, TaskFields
    <3> QED
      BY <3>1, <3>3 DEF x
  <2> HIDE DEF t
  <2>3. Sound(r, w, t) /\ r.pc = "reply"
    <3> DEFINE p == "reply"
    <3>1. p \in NextPcs /\ p # "edit"
      BY DEF NextPcs
    <3> HIDE DEF p
    <3>2. Sound(GoOn(p, t), w, t) /\ GoOn(p, t).pc = p
      BY <1>1, <2>2, <3>1, GoOnSound
    <3> QED
      BY <3>2 DEF p
  <2>4. ts \in Seq(Tasks(w)) /\ Len(ts) >= Len(tasks) /\ Lasts(ts) /\ fs \in Seq(ThreadLists(w))
    BY LastsSame
  <2>5. Continue(c, call, r, ts, fs, none)
    BY <1>5
  <2>6. StillAsked(fs) /\ \A k \in DOMAIN fs : fs[k].by # c \/ fs[k].by = 0
    BY <1>3, FreeOfLists DEF Works
  <2> HIDE DEF ts, fs, none, r
  <2>7. /\ \E v : Typed(v)'
        /\ Moved(c, i, b, t.applied, ts, fs) /\ b.pc = r.pc
        /\ r.pc # "idle" => b.task = i /\ b.kind = call.kind
    BY <1>0, <1>1, <2>3, <2>4, <2>5, ContinueKeeps
  <2> HIDE DEF b
  <2>8. b.pc = "reply" /\ b.task = i /\ b.kind = call.kind
    BY <2>3, <2>7
  <2>9. calls' = [calls EXCEPT ![c] = b]
    BY <2>7 DEF Moved
  <2>10. Locked'
    <3> DEFINE S == Actions(w)
    <3> HIDE DEF S
    <3>1. calls \in [Calls -> S]
      BY DEF S, Typed
    <3>2. queue' = IF b.pc = "idle" /\ queue[i] # <<>> /\ Head(queue[i]) = c
                   THEN [queue EXCEPT ![i] = Tail(@)] ELSE queue
      BY <2>7 DEF Moved
    <3>3. Locked /\ i = calls[c].task /\ (b.pc # "idle" => b.kind = calls[c].kind /\ b.task = i)
      BY <2>8 DEF Works
    <3> HIDE DEF i
    <3> QED
      BY <1>2, <2>9, <3>1, <3>2, <3>3, LockMoves
  <2>11. Asked'
    <3>1. Waited(fs, c, b)
      BY <2>6, KeptWaits
    <3>2. DOMAIN fetches' = DOMAIN fs /\ \A k \in DOMAIN fs : fetches'[k].by = fs[k].by
      BY <2>7 DEF Moved
    <3> QED
      BY <2>9, <3>1, <3>2, AskedMoves DEF Works
  <2>12. Written'
    <3>1. /\ DOMAIN tasks' = DOMAIN tasks
          /\ \A j \in DOMAIN tasks : tasks'[j].applied = IF j = i THEN call.out ELSE tasks[j].applied
      BY <2>2, <2>7 DEF Moved, ts
    <3>2. edits \in [TaskIndex -> {0, 1}] /\ call.kind = "accept" /\ (i \in TaskIndex => tasks[i].applied = None)
      BY <1>0 DEF Works, Written
    <3>3. i \in TaskIndex => edits[i] = 0
      BY <3>2 DEF Works, Written
    <3>4. edits' \in [TaskIndex -> {0, 1}] /\ \A j \in TaskIndex : edits'[j] = IF j = i THEN 1 ELSE edits[j]
      <4>1. edits' = [edits EXCEPT ![i] = edits[i] + 1]
        BY <1>5
      <4>2. CASE i \in TaskIndex
        <5>1. edits' = [edits EXCEPT ![i] = 1]
          <6>1. edits[i] + 1 = 1
            BY <3>3, <4>2
          <6> HIDE DEF i
          <6> QED
            BY <4>1, <6>1
        <5> HIDE DEF i
        <5> QED
          BY <3>2, <5>1
      <4>3. CASE i \notin TaskIndex
        <5>1. edits' = edits
          BY <3>2, <4>1, <4>3
        <5> QED
          BY <3>2, <4>3, <5>1
      <4> QED
        BY <4>2, <4>3
    <3>5. \A j \in TaskIndex : edits'[j] = 1 => j \in DOMAIN tasks' /\ tasks'[j].applied # None
      BY <1>1, <2>1, <3>1, <3>4 DEF Works, Written
    <3>6. ASSUME NEW d \in Calls, calls'[d].pc = "edit"
          PROVE  calls'[d].kind = "accept" /\ (calls'[d].task \in TaskIndex => tasks'[calls'[d].task].applied = None)
      <4>1. d # c /\ calls'[d] = calls[d] /\ calls[d].task \in DOMAIN tasks
        BY <2>8, <2>9, <3>6 DEF Typed
      <4>2. calls[d].kind = "accept" /\ (calls[d].task \in TaskIndex => tasks[calls[d].task].applied = None)
        BY <3>6, <4>1 DEF Works, Written
      <4>3. calls[d].task \in TaskIndex => calls[d].task # i
        <5>1. SUFFICES ASSUME calls[d].task \in TaskIndex, calls[d].task = i PROVE FALSE
          OBVIOUS
        <5>2. calls[d].pc \in {"idle", "turn"}
          <6>1. calls[d].task = calls[c].task /\ calls[c].task \in TaskIndex
                /\ calls[c].kind # "userReply" /\ calls[d].kind # "userReply" /\ Locked
            BY <3>2, <4>2, <5>1 DEF Works
          <6> QED
            BY <1>2, <4>1, <6>1, OneHolds
        <5> QED
          BY <3>6, <4>1, <5>2
      <4> QED
        BY <3>1, <4>1, <4>2, <4>3
    <3> QED
      BY <3>4, <3>5, <3>6 DEF Written
  <2> QED
    BY <2>7, <2>10, <2>11, <2>12 DEF Works
<1> QED
  BY <1>4, <1>5 DEF SuggestionIsWritten

\* A call was rejected: the action asks for the thread of its task.
LEMMA RejectedKeeps ==
    ASSUME NEW w, Typed(w), Works, NEW c \in Calls, calls[c].pc \notin WaitPcs \cup {"idle", "turn"},
           NEW pc \in {"rereply", "reresolve"}, Rejected(c, pc), UNCHANGED <<stamp, threads, authored, edits>>
    PROVE  (\E v : Typed(v)') /\ Works'
<1> DEFINE call == calls[c]
           t == tasks[call.task]
           asks == Turned(call, pc)
           dead == MarkDeadThread(t)
<1>1. call \in Actions(w) /\ t \in Tasks(w) /\ Timed(w)
  BY HolderTypes DEF Typed
<1>2. Holds(c)
  BY PastTurnHolds DEF Works
<1>3. CASE Refresh(c, asks, dead, Again(asks, dead))
  <2> DEFINE r == Again(asks, dead)
  <2>1. asks \in Actions(w) /\ asks.pc \in WaitPcs /\ asks.task = call.task /\ asks.kind = call.kind
    <3>1. pc \in WaitPcs
      BY DEF WaitPcs
    <3> HIDE DEF call
    <3> QED
      BY <1>1, <3>1, TurnedTypes
  <2>2. dead \in Tasks(w) /\ dead.applied = t.applied
    BY <1>1, MarkDeadThreadKeeps
  <2> HIDE DEF asks, dead
  <2>3. Sound(r, w, dead) /\ Edits(r, asks.kind, dead)
    <3>1. Sound(r, w, dead) /\ r.pc \in {"idle", "reply", "resolve"}
      BY <1>1, <2>2, AgainSound
    <3> QED
      BY <3>1 DEF Edits
  <2>4. Refresh(c, asks, dead, r) /\ dead.applied = tasks[asks.task].applied /\ asks.task = calls[c].task /\ asks.kind = calls[c].kind
    BY <1>3, <2>1, <2>2
  <2> HIDE DEF r
  <2> QED
    BY <1>2, <2>1, <2>2, <2>3, <2>4, RefreshKeeps
<1>4. CASE Continue(c, call, Return(MarkThreadDead(t)), tasks, fetches, {})
  <2> DEFINE u == MarkThreadDead(t)
             r == Return(u)
  <2>1. u \in Tasks(w) /\ u.applied = t.applied
    BY <1>1, MarkThreadDeadKeeps
  <2>2. Sound(r, w, t) /\ Edits(r, call.kind, t)
    <3>1. Sound(Return(u), w, t) /\ Return(u).pc = "idle"
      BY <1>1, <2>1, ReturnsSound
    <3> QED
      BY <3>1 DEF Edits
  <2>3. Continue(c, call, r, tasks, fetches, {}) /\ t.applied = tasks[call.task].applied
        /\ call.task = calls[c].task /\ call.kind = calls[c].kind
    BY <1>4
  <2> HIDE DEF r, t, call
  <2> QED
    BY <1>1, <1>2, <2>2, <2>3, GoesOnWorks
<1> QED
  BY <1>3, <1>4 DEF Rejected, Turned

\* A reply has its answer,
LEMMA ReplyReturnsKeeps ==
    ASSUME NEW w, Typed(w), Works, NEW c \in Calls, ReplyReturns(c)
    PROVE  (\E v : Typed(v)') /\ Works'
<1> DEFINE call == calls[c]
           t == tasks[call.task]
           r == Replied(call, t)
<1>0. calls[c].pc = "replied" /\ UNCHANGED <<stamp, threads, authored, edits>>
  BY DEF ReplyReturns, githubVars, postVars
<1>1. call \in Actions(w) /\ t \in Tasks(w) /\ Timed(w)
  BY HolderTypes DEF Typed
<1>2. Holds(c)
  BY <1>0, PastTurnHolds DEF Works
<1>3. calls[c].pc \notin WaitPcs \cup {"idle", "turn"} /\ calls[c].pc \notin WaitPcs
  BY <1>0 DEF WaitPcs
<1>4. CASE call.out = "ok"
  <2>1. Comment(call.born, Me, Text(call.kind)) \in Replies(w)
    BY <1>0, <1>1, <1>4 DEF Actions
  <2>2. /\ Sound(r, w, t) /\ r.pc \in {"idle", "final", "resolve"}
        /\ r.task \in Tasks(w) /\ r.task.applied = t.applied
    <3> HIDE DEF call, t
    <3> QED
      BY <1>1, <2>1, RepliedSound
  <2>3. \/ r.pc = "final" /\ Continue(c, call, r, tasks, BeginFetch(c), {})
        \/ Continue(c, call, Return(r.task), tasks, fetches, {})
        \/ Continue(c, call, r, tasks, fetches, {})
    BY <1>4 DEF ReplyReturns
  <2>4. Edits(r, call.kind, t) /\ t.applied = tasks[call.task].applied /\ call.task = calls[c].task /\ call.kind = calls[c].kind
    BY <2>2 DEF Edits
  <2>5. CASE Continue(c, call, r, tasks, fetches, {})
    <3> HIDE DEF r, t, call
    <3> QED
      BY <1>0, <1>1, <1>2, <1>3, <2>2, <2>4, <2>5, GoesOnWorks
  <2>6. CASE Continue(c, call, Return(r.task), tasks, fetches, {})
    <3> DEFINE x == r.task
               y == Return(x)
    <3>1. Sound(y, w, t) /\ y.pc = "idle"
      <4>1. x \in Tasks(w) /\ x.applied = t.applied
        BY <2>2
      <4> HIDE DEF x, t
      <4> QED
        BY <1>1, <4>1, ReturnsSound
    <3>2. Edits(y, call.kind, t) /\ Continue(c, call, y, tasks, fetches, {})
      BY <2>6, <3>1 DEF Edits
    <3> HIDE DEF y, t, call
    <3> QED
      BY <1>0, <1>1, <1>2, <1>3, <2>4, <3>1, <3>2, GoesOnWorks
  <2>7. CASE r.pc = "final" /\ Continue(c, call, r, tasks, BeginFetch(c), {})
    <3> DEFINE fs == BeginFetch(c)
               ts == tasks
               none == {}
               b == NextAction(call, r)
               i == call.task
    <3>1. ts \in Seq(Tasks(w)) /\ Len(ts) >= Len(tasks) /\ Lasts(ts) /\ i \in DOMAIN tasks
      BY LastsSame DEF Typed
    <3>2. fs \in Seq(ThreadLists(w))
      BY BeginFetchTypes
    <3>3. Continue(c, call, r, ts, fs, none)
      BY <2>7
    <3> HIDE DEF fs, ts, none, r, t, call
    <3>4. /\ \E v : Typed(v)'
          /\ Moved(c, i, b, t.applied, ts, fs) /\ b.pc = r.pc
          /\ r.pc # "idle" => b.task = i /\ b.kind = call.kind
      BY <1>0, <1>1, <2>2, <3>1, <3>2, <3>3, ContinueKeeps
    <3> HIDE DEF b, i
    <3>5. b.pc = "final" /\ b.pc \in WaitPcs /\ b.pc # "edit"
      BY <2>7, <3>4 DEF WaitPcs
    <3>6. Waited(fs, c, b)
      BY <1>3, <3>5, OneMore DEF fs, Works
    <3>7. Moved(c, i, b, tasks[i].applied, ts, fs) /\ i = calls[c].task
      BY <2>4, <3>4 DEF i
    <3>8. (b.pc # "idle" => b.task = i /\ b.kind = calls[c].kind)
          /\ (b.pc = "edit" => b.kind = "accept" /\ tasks[i].applied = None)
      BY <2>4, <3>4, <3>5
    <3>9. Works'
      BY <1>0, <1>2, <3>1, <3>6, <3>7, <3>8, WorksMoves
    <3> QED
      BY <3>4, <3>9
  <2> QED
    BY <2>3, <2>5, <2>6, <2>7
<1>5. CASE call.out = "dead"
  <2> DEFINE p == "rereply"
  <2>1. p \in {"rereply", "reresolve"} /\ Rejected(c, p)
    BY <1>5 DEF ReplyReturns
  <2> HIDE DEF p
  <2> QED
    BY <1>0, <1>3, <2>1, RejectedKeeps
<1>6. CASE call.out # "ok" /\ call.out # "dead"
  <2> DEFINE y == Return(t)
  <2>1. Continue(c, call, y, tasks, fetches, {})
    BY <1>6 DEF ReplyReturns
  <2>2. Sound(y, w, t) /\ Edits(y, call.kind, t)
    <3> HIDE DEF t
    <3>1. Sound(y, w, t) /\ y.pc = "idle"
      BY <1>1, ReturnSound
    <3> QED
      BY <3>1 DEF Edits
  <2>3. t.applied = tasks[call.task].applied /\ call.task = calls[c].task /\ call.kind = calls[c].kind
    OBVIOUS
  <2> HIDE DEF y, t, call
  <2> QED
    BY <1>0, <1>1, <1>2, <1>3, <2>1, <2>2, <2>3, GoesOnWorks
<1> QED
  BY <1>4, <1>5, <1>6

\* and a resolve.
LEMMA ResolveReturnsKeeps ==
    ASSUME NEW w, Typed(w), Works, NEW c \in Calls, ResolveReturns(c)
    PROVE  (\E v : Typed(v)') /\ Works'
<1> DEFINE call == calls[c]
           t == tasks[call.task]
           u == ThreadAccepted(t, call.thread)
<1>0. calls[c].pc = "resolved" /\ UNCHANGED <<stamp, threads, authored, edits>>
  BY DEF ResolveReturns, githubVars, postVars
<1>1. call \in Actions(w) /\ t \in Tasks(w) /\ Timed(w)
  BY HolderTypes DEF Typed
<1>2. Holds(c)
  BY <1>0, PastTurnHolds DEF Works
<1>3. calls[c].pc \notin WaitPcs \cup {"idle", "turn"} /\ calls[c].pc \notin WaitPcs
  BY <1>0 DEF WaitPcs
<1>4. ASSUME NEW y, y = Resolve(u, TRUE) \/ y = Return(u) \/ y = Return(t), Continue(c, call, y, tasks, fetches, {})
      PROVE  (\E v : Typed(v)') /\ Works'
  <2>1. u \in Tasks(w) /\ u.applied = t.applied
    <3> HIDE DEF t
    <3> QED
      BY <1>1, ThreadAcceptedKeeps
  <2>2. Sound(y, w, t) /\ Edits(y, call.kind, t)
    <3> DEFINE yes == TRUE
    <3>0. yes \in BOOLEAN
      OBVIOUS
    <3>e. y = Resolve(u, yes) \/ y = Return(u) \/ y = Return(t)
      BY <1>4
    <3> HIDE DEF t, u, yes
    <3>1. Sound(Resolve(u, yes), w, t) /\ Resolve(u, yes).pc = "idle"
      BY <1>1, <2>1, <3>0, ResolveSound
    <3>2. Sound(Return(u), w, t) /\ Return(u).pc = "idle"
      BY <1>1, <2>1, ReturnsSound
    <3>3. Sound(Return(t), w, t) /\ Return(t).pc = "idle"
      BY <1>1, ReturnSound
    <3> QED
      BY <3>e, <3>1, <3>2, <3>3 DEF Edits
  <2>3. t.applied = tasks[call.task].applied /\ call.task = calls[c].task /\ call.kind = calls[c].kind
    OBVIOUS
  <2> HIDE DEF t, call
  <2> QED
    BY <1>0, <1>1, <1>2, <1>3, <1>4, <2>2, <2>3, GoesOnWorks
<1>5. CASE call.out = "dead"
  <2> DEFINE p == "reresolve"
  <2>1. p \in {"rereply", "reresolve"} /\ Rejected(c, p)
    BY <1>5 DEF ResolveReturns
  <2> HIDE DEF p
  <2> QED
    BY <1>0, <1>3, <2>1, RejectedKeeps
<1>6. CASE call.out # "dead"
  <2>1. \/ Continue(c, call, Resolve(u, TRUE), tasks, fetches, {})
        \/ Continue(c, call, Return(u), tasks, fetches, {})
        \/ Continue(c, call, Return(t), tasks, fetches, {})
    BY <1>6 DEF ResolveReturns
  <2> QED
    BY <1>4, <2>1
<1> QED
  BY <1>5, <1>6

\* A step that leaves the extension's own variables alone.
LEMMA PostsWork ==
    ASSUME NEW w, Typed(w), Works, NEW c \in Calls, ReplyIsPosted(c) \/ ThreadIsResolved(c), UNCHANGED piVars
    PROVE  Works'
<1> DEFINE a == calls[c]
           i == a.task
           fs == fetches
           ts == tasks
<1>0. a.pc \in {"reply", "resolve"} /\ UNCHANGED <<tasks, fetches, edits, queue>>
  BY DEF ReplyIsPosted, ThreadIsResolved, piVars
<1>1. a \in Actions(w) /\ i \in DOMAIN tasks
  BY HolderTypes
<1>2. Holds(c)
  BY <1>0, PastTurnHolds DEF Works
<1>3. PICK b : calls' = [calls EXCEPT ![c] = b] /\ b.pc \in {"replied", "resolved"} /\ b.task = i /\ b.kind = a.kind
  <2>0. \A out, born : LET b == [a EXCEPT !.pc = "replied", !.out = out, !.born = born]
                           d == [a EXCEPT !.pc = "resolved", !.out = out]
                       IN  /\ b.pc = "replied" /\ b.task = i /\ b.kind = a.kind
                           /\ d.pc = "resolved" /\ d.task = i /\ d.kind = a.kind
    <3> HIDE DEF a
    <3> QED
      BY <1>1 DEF Actions, i
  <2>1. CASE ReplyIsPosted(c)
    <3>1. PICK out : Answer(c, out)
      BY <2>1 DEF ReplyIsPosted
    <3> DEFINE b == [a EXCEPT !.pc = "replied", !.out = out,
                              !.born = IF out \in {"ok", "lost"} THEN stamp + 1 ELSE a.born]
    <3>2. calls' = [calls EXCEPT ![c] = b]
      BY <3>1 DEF Answer
    <3>3. b.pc = "replied" /\ b.task = i /\ b.kind = a.kind
      BY <2>0
    <3> HIDE DEF b
    <3> QED
      BY <3>2, <3>3
  <2>2. CASE ThreadIsResolved(c)
    <3>1. PICK out : ResolveAnswer(c, out)
      BY <2>2 DEF ThreadIsResolved
    <3> DEFINE b == [a EXCEPT !.pc = "resolved", !.out = out]
    <3>2. calls' = [calls EXCEPT ![c] = b]
      BY <3>1 DEF ResolveAnswer
    <3>3. b.pc = "resolved" /\ b.task = i /\ b.kind = a.kind
      BY <2>0
    <3> HIDE DEF b
    <3> QED
      BY <3>2, <3>3
  <2> QED
    BY <2>1, <2>2
<1>4. b.pc # "idle" /\ b.pc # "edit"
  BY <1>3
<1>5. Moved(c, i, b, tasks[i].applied, ts, fs)
  BY <1>0, <1>3, <1>4 DEF Moved
<1>6. Lasts(ts)
  BY LastsSame
<1>7. Waited(fs, c, b)
  <2>1. StillAsked(fs) /\ \A k \in DOMAIN fs : fs[k].by # c \/ fs[k].by = 0
    BY <1>0, FreeOfLists DEF Works, WaitPcs
  <2> HIDE DEF fs
  <2> QED
    BY <2>1, KeptWaits
<1>8. UNCHANGED edits /\ i = calls[c].task /\ b.kind = calls[c].kind /\ b.task = i
  BY <1>0, <1>3
<1> HIDE DEF i, a, fs, ts
<1> QED
  BY <1>2, <1>4, <1>5, <1>6, <1>7, <1>8, WorksMoves

\* What leaves calls, queues, edits, lists and notes.
LEMMA QuietWorks ==
    ASSUME NEW w, Typed(w), Works, UNCHANGED <<calls, queue, edits, fetches>>,
           DOMAIN tasks' = DOMAIN tasks, \A i \in DOMAIN tasks : tasks'[i].applied = tasks[i].applied
    PROVE  Works'
<1>1. StillAsked(fetches)
  BY SameKept DEF Works
<1>2. StillAsked(fetches') /\ Lasts(tasks')
  BY <1>1 DEF StillAsked, Lasts
<1> QED
  BY <1>2, WorksSame

\* The extension shows tasks.
LEMMA PiShowsKeeps ==
    ASSUME NEW w, Typed(w), PiShows
    PROVE  /\ \E v : Typed(v)'
           /\ DOMAIN tasks' = DOMAIN tasks /\ \A i \in DOMAIN tasks : tasks'[i].applied = tasks[i].applied
<1>1. ASSUME NEW S, NEW replies \in BOOLEAN, S \subseteq DOMAIN tasks, Show(S, replies)
      PROVE  /\ \E v : Typed(v)'
             /\ DOMAIN tasks' = DOMAIN tasks /\ \A i \in DOMAIN tasks : tasks'[i].applied = tasks[i].applied
  BY <1>1, ShowKeeps
<1>2. \/ \E i \in DOMAIN tasks : Show({i}, TRUE)
      \/ Show(Visible, FALSE) \/ Show(DOMAIN tasks, FALSE) \/ Show(Unresolved, FALSE)
  BY DEF PiShows, DetailShows, ListShows, SettleNudges
<1>3. Visible \subseteq DOMAIN tasks /\ Unresolved \subseteq DOMAIN tasks
  BY DEF Visible, Unresolved
<1> QED
  BY <1>1, <1>2, <1>3

\* That a list is read disturbs no action.
LEMMA FetchReadsWorks ==
    ASSUME NEW w, Typed(w), Works, NEW k \in DOMAIN fetches, FetchReads(k), UNCHANGED piVars
    PROVE  Works'
<1>1. PICK nodes \in Reads : fetches' = ReadAt(fetches, k, nodes)
  BY DEF FetchReads
<1> DEFINE fs == ReadAt(fetches, k, nodes)
<1>2. DOMAIN fs = DOMAIN fetches /\ \A j \in DOMAIN fetches : fs[j].by = fetches[j].by
  <2>1. nodes \in Seq(Nodes(w)) /\ fetches \in Seq(ThreadLists(w))
    BY ReadsTypes DEF Typed
  <2> QED
    BY <2>1, ReadAtTypes
<1>3. fetches' = fs
  BY <1>1
<1> HIDE DEF fs
<1>4. StillAsked(fs)
  BY <1>2, SameKept DEF Works
<1>5. UNCHANGED <<calls, queue, edits>> /\ Lasts(tasks') /\ StillAsked(fetches')
  <2>1. UNCHANGED <<calls, queue, edits, tasks>>
    BY DEF FetchReads, ghostVars, piVars
  <2> QED
    BY <1>3, <1>4, <2>1 DEF Lasts, StillAsked
<1> QED
  BY <1>5, WorksSame

\* Every step of the extension keeps its invariant.
LEMMA PiNextKeeps ==
    ASSUME NEW w, Typed(w), Works, PiNext
    PROVE  (\E v : Typed(v)') /\ Works'
<1>1. CASE GitHub /\ UNCHANGED piVars
  <2>1. \E v : Typed(v)'
    BY <1>1, GitHubKeeps
  <2>2. UNCHANGED <<calls, queue, edits, fetches, tasks>>
    BY <1>1 DEF GitHub, ReviewerOpens, ReviewerReplies, ReviewerResolves, ReviewerReopens,
                ReviewerEdits, ReviewerReposts, RootIsDeleted, ThreadIsReplaced, Event, piVars
  <2>3. Works'
    BY <2>2, QuietWorks
  <2> QED
    BY <2>1, <2>3
<1>2. CASE (\E i \in DOMAIN tasks : GraceEnds(i)) /\ UNCHANGED piVars
  <2>1. PICK i \in DOMAIN tasks : GraceEnds(i)
    BY <1>2
  <2>2. /\ Typed(w)' /\ DOMAIN tasks' = DOMAIN tasks
        /\ \A j \in DOMAIN tasks : tasks'[j].applied = tasks[j].applied
    BY <2>1, GraceEndsKeeps
  <2>3. UNCHANGED <<calls, queue, edits, fetches>>
    BY <1>2, <2>1 DEF GraceEnds, ghostVars, piVars
  <2>4. Works'
    BY <2>2, <2>3, QuietWorks
  <2> QED
    BY <2>2, <2>4
<1>3. CASE SyncStarts
  BY <1>3, SyncStartsKeeps
<1>4. ASSUME NEW k \in DOMAIN fetches, PiList(k) \/ SyncFails(k) \/ ListFails(k)
      PROVE  (\E v : Typed(v)') /\ Works'
  <2>1. CASE SyncArrives(k)
    BY <2>1, SyncArrivesKeeps
  <2>2. CASE ListArrives(k)
    BY <2>2, ListArrivesKeeps
  <2>3. CASE FetchReads(k) /\ UNCHANGED piVars
    BY <2>3, FetchReadsKeeps, FetchReadsWorks
  <2>4. CASE SyncFails(k)
    BY <2>4, SyncFailsKeeps
  <2>5. CASE ListFails(k)
    BY <2>5, ListFailsKeeps
  <2> QED
    BY <1>4, <2>1, <2>2, <2>3, <2>4, <2>5 DEF PiList
<1>5. ASSUME NEW c \in Calls, NEW kind \in Kinds, NEW i \in DOMAIN tasks, ActionStarts(c, kind, i)
      PROVE  (\E v : Typed(v)') /\ Works'
  BY <1>5, ActionStartsKeeps
<1>6. ASSUME NEW c \in Calls, PiAction(c)
      PROVE  (\E v : Typed(v)') /\ Works'
  <2>1. CASE ActionChecks(c)
    BY <2>1, ActionChecksKeeps
  <2>2. CASE SuggestionIsWritten(c)
    BY <2>2, SuggestionIsWrittenKeeps
  <2>3. CASE ReplyReturns(c)
    BY <2>3, ReplyReturnsKeeps
  <2>4. CASE ResolveReturns(c)
    BY <2>4, ResolveReturnsKeeps
  <2>5. CASE (ReplyIsPosted(c) \/ ThreadIsResolved(c)) /\ UNCHANGED piVars
    <3>1. Works'
      BY <2>5, PostsWork
    <3>2. \E v : Typed(v)'
      BY <2>5, ReplyIsPostedKeeps, ThreadIsResolvedKeeps
    <3> QED
      BY <3>1, <3>2
  <2> QED
    BY <1>6, <2>1, <2>2, <2>3, <2>4, <2>5 DEF PiAction
<1>7. CASE PiShows
  <2>1. /\ \E v : Typed(v)'
        /\ DOMAIN tasks' = DOMAIN tasks /\ \A i \in DOMAIN tasks : tasks'[i].applied = tasks[i].applied
    BY <1>7, PiShowsKeeps
  <2>2. UNCHANGED <<calls, queue, edits, fetches>>
    BY <1>7 DEF PiShows, DetailShows, ListShows, SettleNudges, Show, piVars
  <2>3. Works'
    BY <2>1, <2>2, QuietWorks
  <2> QED
    BY <2>1, <2>3
<1> QED
  BY <1>1, <1>2, <1>3, <1>4, <1>5, <1>6, <1>7 DEF PiNext

-----------------------------------------------------------------------------
(* The MCP server *)

\* Its actions all post as the agent.
Tooled == \A c \in Calls : calls[c].pc # "idle" => Own(calls[c].kind)

\* A step r that an action of the server may take.
Sane(r, w) ==
    r.task \in Tasks(w) /\ r.pc \in NextPcs /\ (r.pc = "edit" => r.task.text \in Suggestions)

\* The steps of a tool change a task as they may.
LEMMA ToolStepSane ==
    ASSUME NEW w, NEW t \in Tasks(w)
    PROVE  /\ Sane(Ends(t), w) /\ Sane(EndsResolved(t), w)
           /\ \A pc \in {"reply", "resolve"} : Sane(Goes(pc, t), w)
           /\ \A placed \in BOOLEAN : Sane(SuggestionGuard(t, placed), w)
           /\ \A kind : \A placed \in BOOLEAN : Sane(Starts(kind, t, placed), w)
<1>1. ASSUME NEW u \in Tasks(w) PROVE Sane(Ends(u), w)
  BY DEF Ends, Goes, Sane, NextPcs
<1>2. Sane(EndsResolved(t), w)
  <2> DEFINE m == MarkResolved(t, TRUE)
             r == EndsResolved(t)
  <2>1. m \in Tasks(w)
    <3> DEFINE yes == TRUE
    <3>1. yes \in BOOLEAN
      OBVIOUS
    <3> HIDE DEF yes
    <3>2. MarkResolved(t, yes) \in Tasks(w)
      BY <3>1, MarkResolvedKeeps
    <3> QED
      BY <3>2 DEF yes
  <2>2. r.task = m /\ r.pc = "idle"
    BY DEF EndsResolved, Ends, Goes
  <2> HIDE DEF m, r
  <2> QED
    BY <2>1, <2>2 DEF Sane, NextPcs, r
<1>3. ASSUME NEW pc \in {"reply", "resolve"} PROVE Sane(Goes(pc, t), w)
  BY DEF Goes, Sane, NextPcs
<1>4. ASSUME NEW placed \in BOOLEAN PROVE Sane(SuggestionGuard(t, placed), w)
  <2> DEFINE r == SuggestionGuard(t, placed)
  <2>1. \/ r = Ends(t) \/ r = Ends(MarkShown(t, {}))
        \/ t.suggests /\ r = Goes("edit", t)
    <3>1. t.suggests \in BOOLEAN
      BY DEF Tasks, TaskFields
    <3>2. CASE ~t.suggests
      BY <3>2 DEF SuggestionGuard
    <3>3. CASE ~(~t.suggests)
      <4>1. r = Ends(t) \/ r = Ends(MarkShown(t, {})) \/ r = Goes("edit", t)
        BY DEF SuggestionGuard
      <4>2. t.suggests
        BY <3>1, <3>3
      <4> QED
        BY <4>1, <4>2
    <3> QED
      BY <3>2, <3>3
  <2>2. MarkShown(t, {}) \in Tasks(w)
    BY MarkShownKeeps
  <2>3. CASE t.suggests /\ r = Goes("edit", t)
    <3>1. t.text \in Suggestions
      BY <2>3 DEF Tasks
    <3>2. r.task = t /\ r.pc = "edit"
      BY <2>3 DEF Goes
    <3> HIDE DEF r
    <3>3. Sane(r, w)
      BY <3>1, <3>2 DEF Sane, NextPcs
    <3> QED
      BY <3>3 DEF r
  <2> HIDE DEF r
  <2>4. CASE r = Ends(t) \/ r = Ends(MarkShown(t, {}))
    <3>1. Sane(r, w)
      BY <1>1, <2>2, <2>4
    <3> QED
      BY <3>1 DEF r
  <2> QED
    BY <2>1, <2>3, <2>4
<1>5. ASSUME NEW kind, NEW placed \in BOOLEAN PROVE Sane(Starts(kind, t, placed), w)
  <2> DEFINE r == Starts(kind, t, placed)
  <2>1. r = Ends(t) \/ r = EndsResolved(t) \/ r = SuggestionGuard(t, placed) \/ r = Goes("reply", t)
    BY DEF Starts
  <2> HIDE DEF r
  <2>2. Sane(r, w)
    BY <1>1, <1>2, <1>3, <1>4, <2>1
  <2> QED
    BY <2>2 DEF r
<1> QED
  BY <1>1, <1>2, <1>3, <1>4, <1>5

\* A tool goes on.
LEMMA ProceedKeeps ==
    ASSUME NEW w, Typed(w), Tooled, NEW c \in Calls, NEW call \in Actions(w), call.task \in DOMAIN tasks, Own(call.kind),
           NEW r, Sane(r, w), Proceed(c, call, r), UNCHANGED <<stamp, threads, authored, told>>
    PROVE  Typed(w)' /\ Tooled'
<1> DEFINE i == call.task
           ts == [tasks EXCEPT ![i] = r.task]
           out == IF r.pc = "edit" THEN r.task.text ELSE None
           n == [call EXCEPT !.pc = r.pc, !.thread = r.task.thread, !.first = r.task.thread, !.out = out]
           b == IF r.pc = "idle" THEN Idle ELSE n
           fs == IF r.resolves THEN AfterResolve(fetches, i) ELSE fetches
<1>0. tasks' = ts /\ fetches' = fs /\ calls' = [calls EXCEPT ![c] = b]
  BY DEF Proceed
<1>1. /\ tasks \in Seq(Tasks(w)) /\ tasks # <<>> /\ fetches \in Seq(ThreadLists(w)) /\ calls \in [Calls -> Actions(w)]
      /\ \A d \in Calls : calls[d].task \in DOMAIN tasks
  BY DEF Typed
<1>2. r.task \in Tasks(w) /\ r.pc \in NextPcs /\ r.task.thread \in Nat /\ r.task.text \in Texts
      /\ (r.pc = "edit" => r.task.text \in Suggestions)
  BY DEF Sane, Tasks, TaskFields
<1>3. ts \in Seq(Tasks(w)) /\ Len(ts) = Len(tasks)
  BY <1>1, <1>2, SetAt
<1>4. DOMAIN ts = DOMAIN tasks
  BY <1>1
<1>5. i \in Nat /\ 1 \in DOMAIN tasks
  BY <1>1
<1>6. fs \in Seq(ThreadLists(w))
  BY <1>1, <1>5, AfterResolveTypes
<1>7. out \in Outs /\ (r.pc = "edit" => out \in Suggestions) /\ r.pc \in CallPcs /\ r.pc # "replied"
  BY <1>2 DEF Outs, NextPcs, CallPcs
<1> HIDE DEF out
<1>8. /\ n \in [kind : Kinds \cup {None}, task : Nat, pc : CallPcs, first : Nat, thread : Nat,
                born : Nat, out : Outs, stale : BOOLEAN]
      /\ n.pc = r.pc /\ n.out = out /\ n.task = i /\ n.kind = call.kind
  BY <1>2, <1>7 DEF Actions
<1> HIDE DEF n
<1>9. n \in Actions(w)
  BY <1>7, <1>8 DEF Actions
<1>10. b \in Actions(w) /\ b.task \in DOMAIN tasks /\ (b.pc # "idle" => Own(b.kind))
  BY <1>5, <1>8, <1>9, IdleTypes
<1> HIDE DEF b, ts, fs
<1>11. calls' \in [Calls -> Actions(w)] /\ \A d \in Calls : calls'[d] = IF d = c THEN b ELSE calls[d]
  BY <1>0, <1>1, <1>10
<1>12. ts # <<>>
  BY <1>1, <1>4
<1>13. \A d \in Calls : calls'[d].task \in DOMAIN ts
  BY <1>1, <1>4, <1>10, <1>11
<1>14. Typed(w)'
  BY <1>0, <1>3, <1>6, <1>11, <1>12, <1>13 DEF Typed
<1>15. Tooled'
  BY <1>10, <1>11 DEF Tooled
<1> QED
  BY <1>14, <1>15

\* A tool is called,
LEMMA ToolIsCalledKeeps ==
    ASSUME NEW w, Typed(w), Tooled, NEW c \in Calls, NEW kind \in {"resolve", "accept", "block"}, NEW i \in DOMAIN tasks,
           ToolIsCalled(c, kind, i)
    PROVE  Typed(w)' /\ Tooled'
<1> DEFINE call == [Idle EXCEPT !.kind = kind, !.task = i]
<1>1. PICK placed \in BOOLEAN : Proceed(c, call, Starts(kind, tasks[i], placed))
  BY DEF ToolIsCalled
<1>2. tasks \in Seq(Tasks(w)) /\ i \in Nat /\ tasks[i] \in Tasks(w)
  BY DEF Typed
<1>3. call \in Actions(w) /\ call.task = i /\ call.kind = kind
  BY <1>2 DEF Idle, Actions, CallPcs, Outs, Kinds
<1>4. Own(call.kind)
  BY <1>3 DEF Own
<1>5. UNCHANGED <<stamp, threads, authored, told>>
  BY DEF ToolIsCalled, githubVars, ghostVars, postVars
<1> DEFINE t == tasks[i]
           r == Starts(kind, t, placed)
<1>6. Sane(r, w)
  <2>1. t \in Tasks(w)
    BY <1>2
  <2> HIDE DEF t
  <2> QED
    BY <2>1, ToolStepSane
<1>7. Proceed(c, call, r)
  BY <1>1
<1> HIDE DEF call, r
<1> QED
  BY <1>3, <1>4, <1>5, <1>6, <1>7, ProceedKeeps

\* An action goes on from where it waits.
LEMMA ToolGoesOn ==
    ASSUME NEW w, Typed(w), Tooled, NEW c \in Calls, calls[c].pc # "idle", NEW r, Sane(r, w),
           Proceed(c, calls[c], r), UNCHANGED <<stamp, threads, authored, told>>
    PROVE  Typed(w)' /\ Tooled'
<1> DEFINE call == calls[c]
<1>1. call \in Actions(w) /\ call.task \in DOMAIN tasks /\ Own(call.kind) /\ Proceed(c, call, r)
  BY HolderTypes DEF Tooled
<1> HIDE DEF call
<1> QED
  BY <1>1, ProceedKeeps

\* writes a suggestion,
LEMMA ToolWritesSuggestionKeeps ==
    ASSUME NEW w, Typed(w), Tooled, NEW c \in Calls, ToolWritesSuggestion(c)
    PROVE  Typed(w)' /\ Tooled'
<1> DEFINE t == tasks[calls[c].task]
           x == calls[c].out
           u == [t EXCEPT !.applied = x]
<1>0. calls[c].pc = "edit" /\ calls[c].pc # "idle" /\ UNCHANGED <<stamp, threads, authored, told>>
  BY DEF ToolWritesSuggestion, githubVars, postVars
<1>1. calls[c] \in Actions(w) /\ t \in Tasks(w)
  BY HolderTypes
<1>2. x \in Texts \cup {None}
  BY <1>0, <1>1 DEF Actions, Texts
<1>3. u \in Tasks(w)
  BY <1>1, <1>2, PlainField
<1>4. \/ Proceed(c, calls[c], Goes("reply", u)) \/ Proceed(c, calls[c], Ends(t))
  BY DEF ToolWritesSuggestion
<1> HIDE DEF u, t, x
<1>5. Sane(Goes("reply", u), w) /\ Sane(Ends(t), w)
  BY <1>1, <1>3, ToolStepSane
<1> QED
  BY <1>0, <1>4, <1>5, ToolGoesOn

\* is told that the thread is none,
LEMMA ToolRejectedKeeps ==
    ASSUME NEW w, Typed(w), Tooled, NEW c \in Calls, calls[c].pc # "idle", NEW pc \in {"rereply", "reresolve"},
           ToolRejected(c, pc), UNCHANGED <<stamp, threads, authored, told>>
    PROVE  Typed(w)' /\ Tooled'
<1> DEFINE call == calls[c]
           i == call.task
           t == tasks[i]
           b == Turned(call, pc)
           u == MarkDeadThread(t)
           ts == [tasks EXCEPT ![i] = u]
<1>1. call \in Actions(w) /\ i \in DOMAIN tasks /\ t \in Tasks(w) /\ Own(call.kind)
      /\ tasks \in Seq(Tasks(w)) /\ tasks # <<>> /\ fetches \in Seq(ThreadLists(w)) /\ calls \in [Calls -> Actions(w)]
      /\ \A d \in Calls : calls[d].task \in DOMAIN tasks
  BY HolderTypes DEF Tooled, Typed
<1>2. CASE tasks' = ts /\ fetches' = Joined /\ calls' = [calls EXCEPT ![c] = b]
  <2>1. b \in Actions(w) /\ b.task = i /\ b.kind = call.kind
    <3>1. pc \in WaitPcs
      BY DEF WaitPcs
    <3> HIDE DEF call
    <3> QED
      BY <1>1, <3>1, TurnedTypes DEF i
  <2>2. u \in Tasks(w)
    <3> HIDE DEF t
    <3> QED
      BY <1>1, MarkDeadThreadKeeps
  <2>3. Joined \in Seq(ThreadLists(w))
    <3> DEFINE z == 0
    <3>1. z \in Calls \cup {0}
      OBVIOUS
    <3> HIDE DEF z
    <3>2. BeginFetch(z) \in Seq(ThreadLists(w))
      BY <3>1, BeginFetchTypes
    <3> QED
      BY <1>1, <3>2 DEF Joined, z
  <2> HIDE DEF b, u
  <2>4. ts \in Seq(Tasks(w)) /\ Len(ts) = Len(tasks)
    BY <1>1, <2>2, SetAt
  <2>5. DOMAIN ts = DOMAIN tasks
    BY <1>1
  <2> HIDE DEF ts
  <2>6. ts # <<>>
    BY <1>1, <2>5
  <2>7. calls' \in [Calls -> Actions(w)] /\ \A d \in Calls : calls'[d] = IF d = c THEN b ELSE calls[d]
    BY <1>1, <1>2, <2>1
  <2>8. \A d \in Calls : calls'[d].task \in DOMAIN ts
    BY <1>1, <2>1, <2>5, <2>7
  <2>9. Typed(w)'
    BY <1>2, <2>3, <2>4, <2>6, <2>7, <2>8 DEF Typed
  <2>10. Tooled'
    BY <1>1, <2>1, <2>7 DEF Tooled
  <2> QED
    BY <2>9, <2>10
<1>3. CASE Proceed(c, call, Ends(MarkStale(t)))
  <2> DEFINE m == MarkStale(t)
             r == Ends(m)
  <2>1. m \in Tasks(w)
    <3> HIDE DEF t
    <3> QED
      BY <1>1, MarkStaleKeeps
  <2> HIDE DEF m
  <2>2. Sane(r, w)
    BY <2>1, ToolStepSane
  <2>3. Proceed(c, calls[c], r)
    BY <1>3 DEF m
  <2> HIDE DEF r
  <2> QED
    BY <2>2, <2>3, ToolGoesOn
<1> QED
  BY <1>2, <1>3 DEF ToolRejected, Turned

\* has the answer of its reply,
LEMMA ToolReplyReturnsKeeps ==
    ASSUME NEW w, Typed(w), Tooled, NEW c \in Calls, ToolReplyReturns(c)
    PROVE  Typed(w)' /\ Tooled'
<1> DEFINE call == calls[c]
           t == tasks[call.task]
<1>0. calls[c].pc = "replied" /\ calls[c].pc # "idle" /\ UNCHANGED <<stamp, threads, authored, told>>
  BY DEF ToolReplyReturns, githubVars, ghostVars, postVars
<1>1. call \in Actions(w) /\ t \in Tasks(w) /\ Own(call.kind)
  BY <1>0, HolderTypes DEF Tooled
<1>2. CASE call.out = "ok"
  <2> DEFINE mine == Comment(call.born, Me, Text(call.kind))
             a == ThreadAccepted(t, call.thread)
             u == AddReply(a, mine)
             m == MarkBlocked(u)
             r == ToolReplied(call, t)
  <2>1. mine \in Replies(w) /\ mine.text \in OwnTexts
    <3>1. mine \in Replies(w)
      BY <1>0, <1>1, <1>2 DEF Actions
    <3>2. mine.text \in OwnTexts
      BY <1>1 DEF Comment, Text, Own, OwnTexts
    <3> QED
      BY <3>1, <3>2
  <2>2. r = Ends(m) \/ r = Goes("resolve", u)
    BY DEF ToolReplied
  <2>3. Proceed(c, calls[c], r)
    BY <1>2 DEF ToolReplyReturns
  <2> HIDE DEF mine, t, r
  <2>4. a \in Tasks(w)
    BY <1>1, ThreadAcceptedKeeps
  <2> HIDE DEF a
  <2>5. u \in Tasks(w)
    BY <2>1, <2>4, AddReplyKeeps
  <2> HIDE DEF u
  <2>6. m \in Tasks(w)
    BY <2>5, MarkBlockedKeeps
  <2> HIDE DEF m
  <2>7. Sane(r, w)
    BY <2>2, <2>5, <2>6, ToolStepSane
  <2> QED
    BY <1>0, <2>3, <2>7, ToolGoesOn
<1>3. CASE call.out = "dead"
  <2> DEFINE p == "rereply"
  <2>1. p \in {"rereply", "reresolve"} /\ ToolRejected(c, p)
    BY <1>3 DEF ToolReplyReturns
  <2> HIDE DEF p
  <2> QED
    BY <1>0, <2>1, ToolRejectedKeeps
<1>4. CASE call.out # "ok" /\ call.out # "dead"
  <2>1. Proceed(c, calls[c], Ends(t))
    BY <1>4 DEF ToolReplyReturns
  <2>2. Sane(Ends(t), w)
    <3> HIDE DEF t
    <3> QED
      BY <1>1, ToolStepSane
  <2> HIDE DEF t
  <2> QED
    BY <1>0, <2>1, <2>2, ToolGoesOn
<1> QED
  BY <1>2, <1>3, <1>4

\* or of its resolve.
LEMMA ToolResolveReturnsKeeps ==
    ASSUME NEW w, Typed(w), Tooled, NEW c \in Calls, ToolResolveReturns(c)
    PROVE  Typed(w)' /\ Tooled'
<1> DEFINE call == calls[c]
           t == tasks[call.task]
           u == ThreadAccepted(t, call.thread)
<1>0. calls[c].pc = "resolved" /\ calls[c].pc # "idle" /\ UNCHANGED <<stamp, threads, authored, told>>
  BY DEF ToolResolveReturns, githubVars, ghostVars, postVars
<1>1. call \in Actions(w) /\ t \in Tasks(w)
  BY HolderTypes
<1>2. u \in Tasks(w)
  <2> HIDE DEF t
  <2> QED
    BY <1>1, ThreadAcceptedKeeps
<1>3. CASE call.out = "dead"
  <2> DEFINE p == "reresolve"
  <2>1. p \in {"rereply", "reresolve"} /\ ToolRejected(c, p)
    BY <1>3 DEF ToolResolveReturns
  <2> HIDE DEF p
  <2> QED
    BY <1>0, <2>1, ToolRejectedKeeps
<1>4. CASE call.out # "dead"
  <2>1. Proceed(c, calls[c], EndsResolved(u)) \/ Proceed(c, calls[c], Ends(u)) \/ Proceed(c, calls[c], Ends(t))
    BY <1>4 DEF ToolResolveReturns
  <2> HIDE DEF t, u
  <2>2. Sane(EndsResolved(u), w) /\ Sane(Ends(u), w) /\ Sane(Ends(t), w)
    BY <1>1, <1>2, ToolStepSane
  <2> QED
    BY <1>0, <2>1, <2>2, ToolGoesOn
<1> QED
  BY <1>3, <1>4

\* Action c tries its task's new thread.
RetryOf(a, pc, thread) == [a EXCEPT !.pc = pc, !.out = None, !.thread = thread]

\* A call that is made again, with another thread.
LEMMA RetryTypes ==
    \A w : \A a \in Actions(w), pc \in {"reply", "resolve"}, thread \in Nat :
        LET b == RetryOf(a, pc, thread)
        IN  b \in Actions(w) /\ b.task = a.task /\ b.kind = a.kind
<1> SUFFICES ASSUME NEW w, NEW a \in Actions(w), NEW pc \in {"reply", "resolve"}, NEW thread \in Nat
             PROVE  LET b == RetryOf(a, pc, thread)
                    IN  b \in Actions(w) /\ b.task = a.task /\ b.kind = a.kind
  OBVIOUS
<1> DEFINE b == RetryOf(a, pc, thread)
<1>1. /\ b.pc = pc /\ b.kind = a.kind /\ b.task = a.task /\ b.out = None
      /\ b \in [kind : Kinds \cup {None}, task : Nat, pc : CallPcs, first : Nat, thread : Nat,
                born : Nat, out : Outs, stale : BOOLEAN]
  BY DEF Actions, CallPcs, Outs, RetryOf
<1> HIDE DEF b
<1>2. b \in Actions(w)
  BY <1>1 DEF Actions
<1> QED
  BY <1>1, <1>2 DEF b

\* Those that waited for a list go on.
LEMMA RetriesTypes ==
    ASSUME NEW w, Typed(w), Tooled, NEW s, s.tasks \in Seq(Tasks(w)), DOMAIN tasks \subseteq DOMAIN s.tasks,
           NEW moved \in SUBSET Waiting
    PROVE  /\ Retries(s, moved) \in [Calls -> Actions(w)]
           /\ \A c \in Calls : /\ Retries(s, moved)[c].task \in DOMAIN tasks
                               /\ Retries(s, moved)[c].pc # "idle" => Own(Retries(s, moved)[c].kind)
<1> DEFINE thread(c) == s.tasks[calls[c].task].thread
           pc(c) == IF calls[c].pc = "rereply" THEN "reply" ELSE "resolve"
           b(c) == RetryOf(calls[c], pc(c), thread(c))
           n(c) == IF c \in moved THEN b(c) ELSE IF c \in Waiting THEN Idle ELSE calls[c]
<1>0. calls \in [Calls -> Actions(w)] /\ tasks \in Seq(Tasks(w)) /\ tasks # <<>> /\ 1 \in DOMAIN tasks
      /\ \A c \in Calls : calls[c].task \in DOMAIN tasks
  BY DEF Typed
<1>1. Retries(s, moved) = [c \in Calls |-> n(c)]
  BY DEF Retries, RetryOf
<1>2. ASSUME NEW c \in Calls
      PROVE  n(c) \in Actions(w) /\ n(c).task \in DOMAIN tasks /\ (n(c).pc # "idle" => Own(n(c).kind))
  <2>1. calls[c] \in Actions(w) /\ calls[c].task \in DOMAIN tasks
    BY <1>0
  <2>2. CASE c \in moved
    <3>1. s.tasks[calls[c].task] \in Tasks(w)
      BY <1>0, <2>1
    <3>2. thread(c) \in Nat /\ pc(c) \in {"reply", "resolve"}
      BY <3>1 DEF Tasks, TaskFields
    <3> HIDE DEF thread, pc
    <3>3. b(c) \in Actions(w) /\ b(c).task = calls[c].task /\ b(c).kind = calls[c].kind
      BY <2>1, <3>2, RetryTypes
    <3>4. Own(calls[c].kind)
      BY <2>2 DEF Waiting, Tooled
    <3> HIDE DEF b
    <3> QED
      BY <2>1, <2>2, <3>3, <3>4
  <2>3. CASE c \notin moved /\ c \in Waiting
    BY <1>0, <2>3, IdleTypes
  <2>4. CASE c \notin moved /\ c \notin Waiting
    BY <2>1, <2>4 DEF Tooled
  <2> QED
    BY <2>2, <2>3, <2>4
<1> HIDE DEF n
<1> QED
  BY <1>1, <1>2

\* A list arrives,
LEMMA ServerListArrivesKeeps ==
    ASSUME NEW w, Typed(w), Tooled, NEW k \in DOMAIN fetches, ServerListArrives(k)
    PROVE  Typed(w)' /\ Tooled'
<1> DEFINE s == Synced(k)
           moved == {c \in Waiting : s.tasks[calls[c].task].thread # calls[c].first}
           stuck == {calls[c].task : c \in Waiting \ moved}
           u(i) == IF i \in stuck THEN MarkStale(s.tasks[i]) ELSE s.tasks[i]
           ts == AfterRelink(s, moved)
           fs == AfterList(k)
           cs == Retries(s, moved)
<1>1. fetches' = fs /\ calls' = cs /\ Lists(ts) /\ UNCHANGED <<stamp, threads, authored, told>>
  BY DEF ServerListArrives, ServerApplies, ServerTakes, githubVars, postVars
<1>2. s.tasks \in Seq(Tasks(w)) /\ Lasts(s.tasks) /\ s.tasks # <<>>
  BY SyncedLasts
<1>3. moved \in SUBSET Waiting
  OBVIOUS
<1> HIDE DEF moved, stuck
<1>4. ts = [i \in DOMAIN s.tasks |-> u(i)]
  BY DEF AfterRelink, stuck
<1> HIDE DEF s, ts
<1>5. ASSUME NEW i \in DOMAIN s.tasks PROVE u(i) \in Tasks(w)
  <2> DEFINE t == s.tasks[i]
  <2>1. t \in Tasks(w)
    BY <1>2
  <2> HIDE DEF t
  <2>2. MarkStale(t) \in Tasks(w)
    BY <2>1, MarkStaleKeeps
  <2> QED
    BY <2>1, <2>2 DEF t
<1> DEFINE S == Tasks(w)
<1> HIDE DEF S, u
<1>6. ts \in Seq(S) /\ Len(ts) = Len(s.tasks) /\ DOMAIN ts = DOMAIN s.tasks
  <2>1. s.tasks \in Seq(S) /\ \A i \in DOMAIN s.tasks : u(i) \in S
    BY <1>2, <1>5 DEF S
  <2> QED
    BY <1>4, <2>1
<1>7. PICK listing : tasks' = Shown(ts, listing, FALSE)
  BY <1>1 DEF Lists
<1>8. tasks' \in Seq(Tasks(w)) /\ Len(tasks') = Len(ts)
  <2> DEFINE no == FALSE
  <2>1. no \in BOOLEAN /\ ~no /\ tasks' = Shown(ts, listing, no)
    BY <1>7
  <2> HIDE DEF no
  <2>2. ts \in Seq(Tasks(w))
    BY <1>6 DEF S
  <2> QED
    BY <2>1, <2>2, ShownKeeps
<1>9. DOMAIN tasks' = DOMAIN s.tasks /\ tasks' # <<>> /\ DOMAIN tasks \subseteq DOMAIN s.tasks
  <2>1. DOMAIN ts = 1..Len(ts) /\ DOMAIN tasks' = 1..Len(tasks')
    BY <1>6, <1>8
  <2>2. DOMAIN tasks' = DOMAIN s.tasks
    BY <1>6, <1>8, <2>1
  <2>3. 1 \in DOMAIN s.tasks
    BY <1>2
  <2> QED
    BY <1>2, <2>2, <2>3 DEF Lasts
<1>10. cs \in [Calls -> Actions(w)] /\ \A c \in Calls : cs[c].task \in DOMAIN tasks /\ (cs[c].pc # "idle" => Own(cs[c].kind))
  <2>1. s.tasks \in Seq(Tasks(w)) /\ DOMAIN tasks \subseteq DOMAIN s.tasks
    BY <1>2, <1>9
  <2> QED
    BY <1>3, <2>1, RetriesTypes
<1>11. fs \in Seq(ThreadLists(w))
  BY AfterListTypes
<1> HIDE DEF cs, fs
<1>12. Typed(w)'
  <2>1. \A c \in Calls : calls'[c].task \in DOMAIN tasks'
    BY <1>1, <1>9, <1>10
  <2> QED
    BY <1>1, <1>8, <1>9, <1>10, <1>11, <2>1 DEF Typed
<1>13. Tooled'
  BY <1>1, <1>10 DEF Tooled
<1> QED
  BY <1>12, <1>13

\* or fails.
LEMMA ServerListFailsKeeps ==
    ASSUME NEW w, Typed(w), Tooled, NEW k \in DOMAIN fetches, ServerListFails(k)
    PROVE  Typed(w)' /\ Tooled'
<1> DEFINE fs == RemoveAt(fetches, k)
<1>1. fetches' = fs /\ UNCHANGED <<stamp, threads, authored, told, tasks>>
      /\ calls' = [c \in Calls |-> IF c \in Waiting THEN Idle ELSE calls[c]]
  BY DEF ServerListFails, githubVars, ghostVars, postVars
<1>2. fs \in Seq(ThreadLists(w))
  BY WithoutListTypes
<1> HIDE DEF fs
<1>3. calls \in [Calls -> Actions(w)] /\ 1 \in DOMAIN tasks /\ \A c \in Calls : calls[c].task \in DOMAIN tasks
  BY DEF Typed
<1>4. calls' \in [Calls -> Actions(w)] /\ \A c \in Calls : calls'[c].task \in DOMAIN tasks
  BY <1>1, <1>3, IdleTypes
<1>5. Typed(w)'
  BY <1>1, <1>2, <1>4 DEF Typed
<1>6. Tooled'
  BY <1>1, IdleTypes DEF Tooled
<1> QED
  BY <1>5, <1>6

\* A list is asked for.
LEMMA ListIsCalledKeeps ==
    ASSUME NEW w, Typed(w), Tooled, ListIsCalled
    PROVE  Typed(w)' /\ Tooled'
<1> DEFINE z == 0
           fs == BeginFetch(z)
<1>1. fetches' = fs /\ UNCHANGED <<stamp, threads, authored, told, tasks, calls>>
  BY DEF ListIsCalled, githubVars, ghostVars, postVars
<1>2. z \in Calls \cup {0}
  OBVIOUS
<1> HIDE DEF z
<1>3. fs \in Seq(ThreadLists(w))
  BY <1>2, BeginFetchTypes
<1> HIDE DEF fs
<1> QED
  BY <1>1, <1>3 DEF Typed, Tooled

\* What gh posts leaves the tools.
LEMMA PostsTool ==
    ASSUME NEW w, Typed(w), Tooled, NEW c \in Calls, ReplyIsPosted(c) \/ ThreadIsResolved(c)
    PROVE  Tooled'
<1> DEFINE a == calls[c]
<1>1. a \in Actions(w) /\ calls \in [Calls -> Actions(w)]
  BY DEF Typed
<1>2. Own(a.kind)
  BY DEF ReplyIsPosted, ThreadIsResolved, Tooled
<1>3. PICK b : calls' = [calls EXCEPT ![c] = b] /\ b.kind = a.kind
  <2>1. CASE ReplyIsPosted(c)
    <3>1. PICK out : Answer(c, out)
      BY <2>1 DEF ReplyIsPosted
    <3> DEFINE b == [a EXCEPT !.pc = "replied", !.out = out,
                              !.born = IF out \in {"ok", "lost"} THEN stamp + 1 ELSE a.born]
    <3>2. calls' = [calls EXCEPT ![c] = b]
      BY <3>1 DEF Answer
    <3>3. b.kind = a.kind
      BY <1>1 DEF Actions
    <3> HIDE DEF b
    <3> QED
      BY <3>2, <3>3
  <2>2. CASE ThreadIsResolved(c)
    <3>1. PICK out : ResolveAnswer(c, out)
      BY <2>2 DEF ThreadIsResolved
    <3> DEFINE b == [a EXCEPT !.pc = "resolved", !.out = out]
    <3>2. calls' = [calls EXCEPT ![c] = b]
      BY <3>1 DEF ResolveAnswer
    <3>3. b.kind = a.kind
      BY <1>1 DEF Actions
    <3> HIDE DEF b
    <3> QED
      BY <3>2, <3>3
  <2> QED
    BY <2>1, <2>2
<1>4. \A d \in Calls : calls'[d] = IF d = c THEN b ELSE calls[d]
  BY <1>1, <1>3
<1> HIDE DEF a
<1> QED
  BY <1>2, <1>3, <1>4 DEF Tooled

\* Every step of the server keeps its invariant.
LEMMA ServerNextKeeps ==
    ASSUME NEW w, Typed(w), Tooled, ServerNext
    PROVE  (\E v : Typed(v)') /\ Tooled'
<1>1. CASE GitHub
  <2>1. \E v : Typed(v)'
    BY <1>1, GitHubKeeps
  <2>2. UNCHANGED calls
    BY <1>1 DEF GitHub, ReviewerOpens, ReviewerReplies, ReviewerResolves, ReviewerReopens,
                ReviewerEdits, ReviewerReposts, RootIsDeleted, ThreadIsReplaced, Event
  <2> QED
    BY <2>1, <2>2 DEF Tooled
<1>2. ASSUME NEW i \in DOMAIN tasks, GraceEnds(i) PROVE (\E v : Typed(v)') /\ Tooled'
  <2>1. Typed(w)'
    BY <1>2, GraceEndsKeeps
  <2>2. UNCHANGED calls
    BY <1>2 DEF GraceEnds
  <2> QED
    BY <2>1, <2>2 DEF Tooled
<1>3. CASE ListIsCalled
  BY <1>3, ListIsCalledKeeps
<1>4. ASSUME NEW k \in DOMAIN fetches, FetchReads(k) \/ ServerListArrives(k) \/ ServerListFails(k)
      PROVE  (\E v : Typed(v)') /\ Tooled'
  <2>1. CASE FetchReads(k)
    <3>1. Typed(w)'
      BY <2>1, FetchReadsKeeps
    <3>2. UNCHANGED calls
      BY <2>1 DEF FetchReads
    <3> QED
      BY <3>1, <3>2 DEF Tooled
  <2> QED
    BY <1>4, <2>1, ServerListArrivesKeeps, ServerListFailsKeeps
<1>5. ASSUME NEW c \in Calls, NEW kind \in {"resolve", "accept", "block"}, NEW i \in DOMAIN tasks, ToolIsCalled(c, kind, i)
      PROVE  (\E v : Typed(v)') /\ Tooled'
  BY <1>5, ToolIsCalledKeeps
<1>6. ASSUME NEW c \in Calls, \/ ToolWritesSuggestion(c) \/ ReplyIsPosted(c) \/ ToolReplyReturns(c)
                              \/ ThreadIsResolved(c) \/ ToolResolveReturns(c)
      PROVE  (\E v : Typed(v)') /\ Tooled'
  <2>1. CASE ReplyIsPosted(c)
    BY <2>1, ReplyIsPostedKeeps, PostsTool
  <2>2. CASE ThreadIsResolved(c)
    BY <2>2, ThreadIsResolvedKeeps, PostsTool
  <2> QED
    BY <1>6, <2>1, <2>2, ToolWritesSuggestionKeeps, ToolReplyReturnsKeeps, ToolResolveReturnsKeeps
<1>7. ASSUME NEW i \in DOMAIN tasks, Show({i}, TRUE) PROVE (\E v : Typed(v)') /\ Tooled'
  <2>1. \E v : Typed(v)'
    <3> DEFINE yes == TRUE
               S == {i}
    <3>1. yes \in BOOLEAN /\ S \subseteq DOMAIN tasks /\ Show(S, yes)
      BY <1>7
    <3> HIDE DEF yes, S
    <3> QED
      BY <3>1, ShowKeeps
  <2>2. UNCHANGED calls
    BY <1>7 DEF Show
  <2> QED
    BY <2>1, <2>2 DEF Tooled
<1> QED
  BY <1>1, <1>2, <1>3, <1>4, <1>5, <1>6, <1>7 DEF ServerNext, TaskDetail

-----------------------------------------------------------------------------
(* The theorems *)

\* The inductive invariant: some history explains what is read, known and under way.
ReviewInv ==
    /\ \E w : Typed(w)
    /\ host = "pi" => Works
    /\ host = "mcp" => Tooled

\* A reply that is noted changes no set of fields.
LEMMA AlteredFields ==
    ASSUME NEW t, NEW c, NEW S
    PROVE  DOMAIN AddReply(MarkShown(t, S), c) = DOMAIN t
<1> DEFINE u == MarkShown(t, S)
<1>1. DOMAIN u = DOMAIN t
  BY DEF MarkShown, MarkRepliesShown
<1> HIDE DEF u
<1>2. DOMAIN AddReply(u, c) = DOMAIN u
  BY DEF AddReply, RecordOwnReplies
<1> QED
  BY <1>1, <1>2 DEF u

\* It holds initially.
LEMMA InitInv == Init => ReviewInv
<1> SUFFICES ASSUME Init PROVE ReviewInv
  OBVIOUS
<1>0. ReviewInit /\ queue = [i \in TaskIndex |-> <<>>]
  BY DEF Init, PiInit
<1>1. fetches = <<>> /\ calls = [c \in Calls |-> Idle] /\ FirstThread
  BY <1>0 DEF ReviewInit
<1>2. \A c \in Calls : calls[c].pc = "idle"
  BY <1>1, IdleTypes
<1>3. Locked
  <2>1. queue \in [TaskIndex -> Seq(Calls)]
    BY <1>0
  <2>2. \A i \in TaskIndex : 1..Len(queue[i]) = {}
    BY <1>0
  <2> QED
    BY <1>2, <2>1, <2>2 DEF Locked, QueueTypes, QueueMembers, QueuedOnce, InQueue
<1>4. Asked
  BY <1>1 DEF Asked
<1>5. Written
  <2>1. PICK t : \E n \in {0, 1} :
          /\ tasks = <<t>> /\ edits = [i \in TaskIndex |-> IF i = 1 THEN n ELSE 0]
          /\ n = 1 => t.applied # None
    <3> DEFINE x == CHOOSE x \in Suggestions : TRUE
               root == Comment(1, "reviewer", x)
               seeded == CreateTask(Node(1, CHOOSE l \in Lines : TRUE, <<root>>))
               Mine(kind) == Comment(2, Me, Text(kind))
               u == AddReply(MarkShown(seeded, {}), Mine("accept"))
               last == [u EXCEPT !.replied = TRUE, !.applied = root.text]
    <3>1. x \in Suggestions /\ x # None
      BY ReviewAssumption
    <3>2. root.text = x
      BY DEF Comment
    <3>3. last.applied = x
      <4>1. "applied" \in DOMAIN seeded
        BY DEF CreateTask
      <4>2. DOMAIN u = DOMAIN seeded
        <5> HIDE DEF seeded
        <5> QED
          BY AlteredFields
      <4> HIDE DEF u
      <4> QED
        BY <3>2, <4>1, <4>2
    <3>4. \/ /\ tasks = <<seeded>>
             /\ edits = [i \in TaskIndex |-> IF i = 1 THEN 0 ELSE 0]
          \/ /\ tasks = <<MarkBlocked(AddReply(seeded, Mine("block")))>>
             /\ edits = [i \in TaskIndex |-> IF i = 1 THEN 0 ELSE 0]
          \/ /\ tasks = <<last>>
             /\ edits = [i \in TaskIndex |-> IF i = 1 THEN 1 ELSE 0]
      BY <1>1 DEF FirstThread
    <3> HIDE DEF last, seeded, x
    <3>5. ASSUME NEW t, NEW n \in {0, 1}, tasks = <<t>>,
                 edits = [i \in TaskIndex |-> IF i = 1 THEN n ELSE 0], n = 1 => t.applied # None
          PROVE  \E b : \E m \in {0, 1} :
                   /\ tasks = <<b>> /\ edits = [i \in TaskIndex |-> IF i = 1 THEN m ELSE 0]
                   /\ m = 1 => b.applied # None
      BY <3>5
    <3>6. 0 \in {0, 1} /\ 1 \in {0, 1} /\ 0 # 1
      OBVIOUS
    <3> DEFINE asked == MarkBlocked(AddReply(seeded, Mine("block")))
    <3> HIDE DEF asked
    <3>7. CASE tasks = <<seeded>> /\ edits = [i \in TaskIndex |-> IF i = 1 THEN 0 ELSE 0]
      BY <3>5, <3>6, <3>7
    <3>8. CASE tasks = <<asked>> /\ edits = [i \in TaskIndex |-> IF i = 1 THEN 0 ELSE 0]
      BY <3>5, <3>6, <3>8
    <3>9. CASE tasks = <<last>> /\ edits = [i \in TaskIndex |-> IF i = 1 THEN 1 ELSE 0]
      BY <3>1, <3>3, <3>5, <3>6, <3>9
    <3> QED
      BY <3>4, <3>7, <3>8, <3>9 DEF asked
  <2>2. edits \in [TaskIndex -> {0, 1}]
    BY <2>1
  <2>3. \A i \in TaskIndex : edits[i] = 1 => i \in DOMAIN tasks /\ tasks[i].applied # None
    BY <2>1
  <2> QED
    BY <1>2, <2>2, <2>3 DEF Written
<1>6. Tooled
  BY <1>2 DEF Tooled
<1>7. \E w : Typed(w)
  BY <1>0, InitTyped
<1> QED
  BY <1>3, <1>4, <1>5, <1>6, <1>7 DEF ReviewInv, Works

\* Nothing that GitHub does changes the program,
LEMMA GitHubHost ==
    ASSUME \/ GitHub \/ \E i \in DOMAIN tasks : GraceEnds(i)
           \/ \E k \in DOMAIN fetches : FetchReads(k)
           \/ \E c \in Calls : ReplyIsPosted(c) \/ ThreadIsResolved(c)
    PROVE  host' = host
BY DEF GitHub, ReviewerOpens, ReviewerReplies, ReviewerResolves, ReviewerReopens, ReviewerEdits,
       ReviewerReposts, RootIsDeleted, ThreadIsReplaced, Event, GraceEnds, FetchReads, ReplyIsPosted,
       ThreadIsResolved, githubVars

\* no step of the extension,
LEMMA PiHost ==
    ASSUME PiNext
    PROVE  host' = host
<1>1. CASE SyncStarts \/ PiShows \/ \E c \in Calls, kind \in Kinds, i \in DOMAIN tasks : ActionStarts(c, kind, i)
  BY <1>1 DEF SyncStarts, PiShows, DetailShows, ListShows, SettleNudges, Show, ActionStarts, githubVars
<1>2. CASE \E k \in DOMAIN fetches : SyncArrives(k) \/ ListArrives(k) \/ SyncFails(k) \/ ListFails(k)
  BY <1>2 DEF SyncArrives, ListArrives, SyncFails, ListFails, githubVars
<1>3. CASE \E c \in Calls : ActionChecks(c) \/ SuggestionIsWritten(c) \/ ReplyReturns(c) \/ ResolveReturns(c)
  BY <1>3 DEF ActionChecks, SuggestionIsWritten, ReplyReturns, ResolveReturns, githubVars
<1> QED
  BY <1>1, <1>2, <1>3, GitHubHost DEF PiNext, PiList, PiAction

\* and none of the server.
LEMMA ServerHost ==
    ASSUME ServerNext
    PROVE  host' = host
<1>1. CASE \/ ListIsCalled \/ TaskDetail
           \/ \E k \in DOMAIN fetches : ServerListArrives(k) \/ ServerListFails(k)
  BY <1>1 DEF ListIsCalled, TaskDetail, Show, ServerListArrives, ServerListFails, githubVars
<1>2. CASE \/ \E c \in Calls, kind \in {"resolve", "accept", "block"}, i \in DOMAIN tasks : ToolIsCalled(c, kind, i)
           \/ \E c \in Calls : ToolWritesSuggestion(c) \/ ToolReplyReturns(c) \/ ToolResolveReturns(c)
  BY <1>2 DEF ToolIsCalled, ToolWritesSuggestion, ToolReplyReturns, ToolResolveReturns, githubVars
<1> QED
  BY <1>1, <1>2, GitHubHost DEF ServerNext

\* Every step keeps the invariant.
LEMMA NextInv == ReviewInv /\ [Next]_vars => ReviewInv'
<1> SUFFICES ASSUME ReviewInv, [Next]_vars PROVE ReviewInv'
  OBVIOUS
<1>1. PICK w : Typed(w)
  BY DEF ReviewInv
<1>2. CASE host = "pi" /\ PiNext
  <2>1. (\E v : Typed(v)') /\ Works'
    BY <1>1, <1>2, PiNextKeeps DEF ReviewInv
  <2>2. host' = "pi"
    BY <1>2, PiHost
  <2> QED
    BY <2>1, <2>2 DEF ReviewInv
<1>3. CASE host = "mcp" /\ ServerNext /\ UNCHANGED piVars
  <2>1. (\E v : Typed(v)') /\ Tooled'
    BY <1>1, <1>3, ServerNextKeeps DEF ReviewInv
  <2>2. host' = "mcp"
    BY <1>3, ServerHost
  <2> QED
    BY <2>1, <2>2 DEF ReviewInv
<1>4. CASE UNCHANGED vars
  <2>1. UNCHANGED <<host, threads, stamp, tasks, fetches, calls, told, authored, edits, queue>>
    BY <1>4 DEF vars, reviewVars, piVars, githubVars, ghostVars, postVars
  <2>2. Typed(w)'
    BY <1>1, <2>1 DEF Typed
  <2>3. Tooled' <=> Tooled
    BY <2>1 DEF Tooled
  <2>4. Works' <=> Works
    <3>1. Locked' <=> Locked
      BY <2>1 DEF Locked, QueueTypes, QueueMembers, QueuedOnce, InQueue
    <3>2. Asked' <=> Asked
      BY <2>1 DEF Asked
    <3>3. Written' <=> Written
      BY <2>1 DEF Written
    <3> QED
      BY <3>1, <3>2, <3>3 DEF Works
  <2> QED
    BY <2>1, <2>2, <2>3, <2>4 DEF ReviewInv
<1> QED
  BY <1>2, <1>3, <1>4 DEF Next

\* In both programs, for any set of tasks, threads, replies and lists under way, the state has its types, and there is a
\* history of comments that explains every reply that counts as seen.
THEOREM ReviewIsTyped == Spec => []ReviewInv
<1>1. Init => ReviewInv
  BY InitInv
<1>2. ReviewInv /\ [Next]_vars => ReviewInv'
  BY NextInv
<1> QED
  BY <1>1, <1>2, PTL DEF Spec

\* Such a history has what the agent was shown.
LEMMA HeardReplies == ReviewInv => SeenRepliesWereShown
<1> SUFFICES ASSUME ReviewInv, NEW i \in DOMAIN tasks, NEW c \in ToSet(tasks[i].replies),
                    Id(c) \in tasks[i].seen \cup tasks[i].baseline
             PROVE  Words(c) \in told \/ c.born \in authored
  BY DEF SeenRepliesWereShown
<1>1. PICK w : Typed(w)
  BY DEF ReviewInv
<1>2. tasks[i] \in Tasks(w) /\ w.told = told /\ w.authored = authored
  BY <1>1 DEF Typed
<1>3. HeardOf(Id(c), w)
  BY <1>2 DEF Tasks
<1>4. Id(c)[1] = c.born
  BY DEF Id
<1>5. c \in Replies(w)
  <2> DEFINE rs == tasks[i].replies
             S == Replies(w)
  <2>1. rs \in Seq(S) /\ c \in ToSet(rs)
    BY <1>2 DEF Tasks, TaskFields
  <2> HIDE DEF rs, S
  <2>2. c \in S
    BY <2>1 DEF ToSet
  <2> QED
    BY <2>2 DEF S
<1>6. w.words[c.born] = Words(c)
  BY <1>5 DEF Replies, Comments, Lasting
<1> QED
  BY <1>2, <1>3, <1>4, <1>6 DEF HeardOf

\* No reply of a reviewer is passed over: what counts as seen, or as known when the agent asked, was shown to it or
\* posted by it (markRepliesSeen, markBlocked, carryReplyIds).
THEOREM SeenWereShown == Spec => []SeenRepliesWereShown
BY ReviewIsTyped, HeardReplies, PTL

\* A suggestion that was written is noted, and one is written only if none is.
LEMMA OneEdit == ReviewInv => SuggestionIsAppliedOnce
BY DEF ReviewInv, Works, Written, SuggestionIsAppliedOnce

\* In the extension a suggestion is written to the file at most once, whatever is retried and edited
\* (resolveTaskLocked: the check and the note are one step with the edit).
THEOREM AppliedOnce == Spec => []SuggestionIsAppliedOnce
BY ReviewIsTyped, OneEdit, PTL

\* In the extension at most one action of the agent on a task is past its turn,
\* however many the agent calls at once and whatever lists move the task
\* meanwhile (withTaskLock); what /tasks replies for the user waits for nobody.
OneAtATime ==
    host = "pi" =>
        \A c, d \in Calls :
            /\ calls[c].kind # "userReply" /\ calls[d].kind # "userReply"
            /\ calls[c].pc \notin {"idle", "turn"} /\ calls[d].pc \notin {"idle", "turn"}
            /\ calls[c].task = calls[d].task /\ calls[c].task \in TaskIndex
            => c = d

\* Only the first of the queue is past its turn.
LEMMA OnlyOneHolds == ReviewInv => OneAtATime
<1> SUFFICES ASSUME Works, NEW c \in Calls, NEW d \in Calls, d # c,
                    calls[c].kind # "userReply", calls[d].kind # "userReply",
                    calls[c].pc \notin {"idle", "turn"}, calls[d].pc \notin {"idle", "turn"},
                    calls[c].task = calls[d].task, calls[c].task \in TaskIndex
             PROVE  FALSE
  BY DEF OneAtATime, ReviewInv
<1>1. Locked
  BY DEF Works
<1>2. Holds(c)
  BY <1>1, PastTurnHolds
<1> QED
  BY <1>1, <1>2, OneHolds

\* Two actions of the agent are never under way on one task (withTaskLock).
THEOREM ActionsTakeTurns == Spec => []OneAtATime
BY ReviewIsTyped, OnlyOneHolds, PTL

=============================================================================
