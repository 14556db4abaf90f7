------------------------------ MODULE PrTasks -------------------------------
(***************************************************************************)
(* pr-tasks.ts: the pi extension on the task manager.  Background syncs, the    *)
(* check of GitHub before an action, one action at a time per task, replies     *)
(* and resolves that follow a replaced thread, and the notices to the agent.    *)
(*                                                                           *)
(* One session.  Messages without a say in the state (new and stale             *)
(* conversations, a re-posted comment) are left out, and so are the folders.    *)
(***************************************************************************)
EXTENDS ReviewTasks

VARIABLES
    degraded,       \* ghHealth: a slot may be refused
    queue,          \* taskLocks: per task the actions in turn
    held            \* heldNotices: [task, reply]

piVars == <<degraded, queue, held>>
vars   == <<reviewVars, piVars>>

PiInit ==
    /\ ReviewInit
    /\ degraded = FALSE /\ held = {}
    /\ queue = [i \in TaskIndex |-> <<>>]

(* Notices *)

\* Answers to a block are told at once, or held while an action on the task is
\* under way.  final and q are the tasks and the queues after the step.
Tell(answers, final, q) ==
    LET direct  == {a \in answers : queue[a.task] = <<>>}
        waiting == held \cup (answers \ direct)
        over    == {a \in waiting : q[a.task] = <<>>}
        due     == {a \in over : /\ final[a.task].status = "UNRESOLVED"
                                 /\ Id(a.reply) \notin final[a.task].seen}
    IN  [said |-> direct \cup due, held |-> waiting \ over]

\* What the agent is told of them.
Announces(tell, show) ==
    /\ held' = tell.held
    /\ told' = told \cup show \cup {Words(a.reply) : a \in tell.said}
    /\ misled' = misled \cup Mistaken(tell.said)

(* The steps of an action.  They give the task and what comes next: "idle"   *)
(* (it returns), "reply", "resolve" or "edit"; show are the replies it shows.  *)

GoOn(pc, t) == [pc |-> pc, task |-> t, show |-> {}, resolves |-> FALSE]
Return(t)   == GoOn("idle", t)
Resolve(t, upstream) == [Return(MarkResolved(t, upstream)) EXCEPT !.resolves = TRUE]

\* refreshTask: what the task says of its thread.
Upstream(t) ==
    IF t.status = "RESOLVED" /\ ~t.listed THEN "gone"
    ELSE IF t.upstream THEN "already_resolved"
    ELSE IF t.status = "STALE" /\ ~IsListedDeadThread(t) THEN "stale"
    ELSE None

BlocksPosting(kind, up) ==
    up \in {"stale", "gone"} \/ (up = "already_resolved" /\ kind # "userReply")

\* Mutant: the form with the suggestion noted is forgotten.
MutantForms(kind) == IF Own(kind) THEN {"done"} ELSE {Text(kind)}

\* A retry may drop or add accept_suggestion.
Forms(kind) == IF Own(kind) THEN {"done", "doneApplied"} ELSE {Text(kind)}

\* An earlier call posted the message, and it is still the latest reply.
IsRetry(kind, t) ==
    /\ t.replied /\ t.replies # <<>>
    /\ Last(t.replies).by = Me /\ Last(t.replies).text \in Forms(kind)
    /\ kind = "accept" => t.applied = t.text

ShowUnseen(t) == [Return(MarkRepliesShown(t, UnseenReplies(t)))
                  EXCEPT !.show = {Words(c) : c \in UnseenReplies(t)}]

\* Mutant: a suggestion that was written before is written again.
MutantBeforeEdit(t, placed) ==
    IF ~placed THEN Return(t)
    ELSE IF t.seenText # t.text THEN Return(MarkShown(t, {}))
    ELSE GoOn("edit", t)

\* Before a suggestion is written to the file.  placed: its lines are still
\* those of the comment.
BeforeEdit(t, placed) ==
    IF t.applied # None \/ ~placed THEN Return(t)
    ELSE IF t.seenText # t.text THEN Return(MarkShown(t, {}))
    ELSE GoOn("edit", t)

ResolveChecked(kind, t, up, wasStale, placed) ==
    IF kind = "accept" /\ up # "already_resolved" /\ t.status = "STALE" THEN Return(t)
    ELSE IF up = "stale" /\ wasStale THEN Resolve(t, FALSE)
    ELSE IF up # None \/ (kind = "accept" /\ ~t.suggests) THEN Return(t)
    ELSE IF Own(kind) /\ t.seenText \notin {None, t.text} THEN Return(MarkShown(t, {}))
    ELSE IF Own(kind) /\ UnseenReplies(t) # {} THEN ShowUnseen(t)
    ELSE IF IsRetry(kind, t) THEN GoOn("resolve", t)
    ELSE IF kind = "accept" /\ t.applied # t.text THEN BeforeEdit(t, placed)
    ELSE GoOn("reply", t)

\* The action has checked GitHub (or its cache, with gh degraded).
Checked(call, t, placed) ==
    LET up == Upstream(t)
        kind == call.kind
    IN  IF kind \in {"resolve", "accept", "userResolve"}
        THEN ResolveChecked(kind, t, up, call.stale, placed)
        ELSE IF up # None /\ BlocksPosting(kind, up) THEN Return(t)
        ELSE IF kind = "block" /\ UnseenReplies(t) # {} THEN ShowUnseen(t)
        ELSE GoOn("reply", t)

MarkThreadDead(t) == IF t.status = "RESOLVED" THEN t ELSE MarkStale(MarkDeadThread(t))

\* withCurrentThread, after GitHub rejected the id and the PR was synced again.
Again(call, t) ==
    LET up == Upstream(t)
    IN  IF call.pc = "rereply"
        THEN IF up # None /\ BlocksPosting(call.kind, up) THEN Return(t)
             ELSE IF t.thread # call.first THEN GoOn("reply", t)
             ELSE Return(MarkThreadDead(t))
        ELSE IF up # None /\ BlocksPosting("resolve", up)
             THEN IF up # "stale" /\ t.status # "RESOLVED" THEN Resolve(t, FALSE) ELSE Return(t)
             ELSE IF t.thread # call.first THEN GoOn("resolve", t)
             ELSE Return(MarkThreadDead(t))

\* Action c goes on as call with its step r, on the tasks ts and the lists fs;
\* some of the tasks had answers.
Continue(c, call, r, ts, fs, answers) ==
    LET i     == call.task
        final == [ts EXCEPT ![i] = r.task]
        q     == IF r.pc = "idle" /\ queue[i] # <<>> /\ Head(queue[i]) = c
                 THEN [queue EXCEPT ![i] = Tail(@)] ELSE queue
        tell  == Tell(answers, final, q)
        retry == call.pc \in {"rereply", "reresolve"}
    IN  /\ tasks' = final
        /\ queue' = q
        /\ Announces(tell, r.show)
        /\ fetches' = IF r.resolves THEN AfterResolve(fs, i) ELSE fs
        /\ calls' = [calls EXCEPT ![c] =
              IF r.pc = "idle" THEN Idle
              ELSE [call EXCEPT !.pc = r.pc, !.thread = r.task.thread,
                                !.out = IF r.pc = "edit" THEN r.task.text ELSE None,
                                !.first = IF retry THEN @ ELSE r.task.thread]]

(* Background syncs *)

SyncStarts ==
    /\ \A k \in DOMAIN fetches : fetches[k].by # 0
    /\ InTurn(Len(fetches) + 1)
    /\ \E nodes \in Reads : fetches' = ReadAt(BeginFetch(0), Len(fetches) + 1, nodes)
    /\ UNCHANGED <<githubVars, tasks, login, calls, left, ghostVars, piVars>>

\* What a list, after which the tasks are ts, says of the agent's replies: the
\* thread is resolved, or the one that the task moved to does not show them.
ListSays(ts) ==
    /\ closed' = closed \cup UNION {OwnBorn(i) : i \in {j \in DOMAIN tasks : ts[j].status = "RESOLVED"}}
    /\ unsure' = unsure \cup
          UNION {OwnBorn(i) \ {c.born : c \in ToSet(ts[i].replies)} :
                    i \in {j \in DOMAIN tasks : ts[j].thread # tasks[j].thread}}

SyncApplies(s) ==
    /\ tasks' = s.tasks /\ Announces(Tell(s.answers, s.tasks, queue), {})
    /\ ListSays(s.tasks)

SyncArrives(k) ==
    /\ fetches[k].by = 0 /\ fetches[k].read
    /\ SyncApplies(Synced(k))
    /\ fetches' = AfterList(k)
    /\ degraded' = FALSE
    /\ UNCHANGED <<githubVars, login, calls, left, authored, edits, queue>>

SyncFails(k) ==
    /\ fetches[k].by = 0 /\ CallFails
    /\ degraded' = TRUE
    /\ fetches' = RemoveAt(fetches, k)
    /\ UNCHANGED <<githubVars, tasks, login, calls, ghostVars, queue, held>>

(* Actions of the agent and of its user *)

\* pr_task_resolve, pr_task_blocked, /tasks resolve; /tasks reply takes no lock.
ActionStarts(c, kind, i) ==
    /\ left.calls > 0 /\ calls[c].pc = "idle"
    /\ \A d \in Calls : d < c => calls[d].pc # "idle"
    /\ left' = [left EXCEPT !.calls = @ - 1]
    /\ calls' = [calls EXCEPT ![c] = [Idle EXCEPT !.kind = kind, !.task = i, !.pc = "turn"]]
    /\ queue' = IF kind = "userReply" THEN queue ELSE [queue EXCEPT ![i] = Append(@, c)]
    /\ UNCHANGED <<githubVars, tasks, login, fetches, ghostVars, degraded, held>>

HasTurn(c) ==
    /\ calls[c].pc = "turn"
    /\ calls[c].kind # "userReply" => Head(queue[calls[c].task]) = c

\* refreshTask begins to ask GitHub, or (degraded, the slot not yet due) the
\* step r that it would lead to is taken at once.
Refresh(c, call, t, r) ==
    \/ /\ fetches' = BeginFetch(c)
       /\ calls' = [calls EXCEPT ![c] = call]
       /\ tasks' = [tasks EXCEPT ![call.task] = t]
       /\ UNCHANGED <<queue, held, misled, told, unsure>>
    \/ /\ degraded
       /\ Continue(c, call, r, tasks, fetches, {})
       /\ unsure' = unsure \cup OwnBorn(call.task)

ActionChecks(c) ==
    /\ HasTurn(c)
    /\ LET t == tasks[calls[c].task]
           call == [calls[c] EXCEPT !.pc = "refresh", !.stale = t.status = "STALE"]
       IN  \E placed \in BOOLEAN : Refresh(c, call, t, Checked(call, t, placed))
    /\ UNCHANGED <<githubVars, login, left, authored, closed, edits, degraded>>

\* Action c goes on with its task t, as list k left it.
GoesOn(k, c, s, t) ==
    \E placed \in BOOLEAN :
        Continue(c, calls[c],
                 CASE calls[c].pc = "refresh" -> Checked(calls[c], t, placed)
                   [] calls[c].pc = "final" -> Return(t)
                   [] OTHER -> Again(calls[c], t),
                 s.tasks, AfterList(k), s.answers)

ListApplies(k, c, s) ==
    GoesOn(k, c, s, s.tasks[calls[c].task]) /\ ListSays(s.tasks)

ListArrives(k) ==
    /\ fetches[k].by # 0 /\ fetches[k].read
    /\ ListApplies(k, fetches[k].by, Synced(k))
    /\ degraded' = FALSE
    /\ UNCHANGED <<githubVars, login, left, authored, edits>>

\* The action throws.
ListFails(k) ==
    /\ fetches[k].by # 0 /\ CallFails
    /\ LET c == fetches[k].by
       IN  Continue(c, calls[c], Return(tasks[calls[c].task]), tasks, RemoveAt(fetches, k), {})
    /\ degraded' = TRUE
    /\ UNCHANGED <<githubVars, login, postVars, edits>>

SuggestionIsWritten(c) ==
    /\ calls[c].pc = "edit"
    /\ LET i == calls[c].task
           t == [tasks[i] EXCEPT !.applied = calls[c].out]
       IN  \/ /\ Continue(c, calls[c], GoOn("reply", t), tasks, fetches, {})
              /\ edits' = [edits EXCEPT ![i] = @ + 1]
           \/ /\ Continue(c, calls[c], Return(tasks[i]), tasks, fetches, {})
              /\ UNCHANGED edits
    /\ UNCHANGED <<githubVars, login, left, postVars, degraded>>

\* The reply was posted: what the rest of the action does with the task.
Replied(call, t) ==
    LET mine == Comment(call.born, Me, Text(call.kind))
        u == ThreadAccepted(t, call.thread)
        v == IF Own(call.kind) THEN AddReply(u, mine) ELSE u
    IN  CASE call.kind = "block" -> Return(IF v.status \in {"RESOLVED", "STALE"} THEN v ELSE MarkBlocked(v))
          [] call.kind = "userReply" -> GoOn("final", v)
          [] OTHER -> GoOn("resolve", [v EXCEPT !.replied = TRUE])

\* GitHub rejected the thread's id: the first time, the PR is synced again.
Rejected(c, pc) ==
    LET call == calls[c]
        asks == [call EXCEPT !.pc = pc]
        t == tasks[call.task]
        dead == MarkDeadThread(t)
    IN  IF call.thread = call.first
        THEN Refresh(c, asks, dead, Again(asks, dead))
        ELSE Continue(c, call, Return(MarkThreadDead(t)), tasks, fetches, {}) /\ UNCHANGED unsure

ReplyReturns(c) ==
    /\ calls[c].pc = "replied"
    /\ LET call == calls[c]
           t == tasks[call.task]
           r == Replied(call, t)
       IN  CASE call.out = "ok" ->
                  /\ IF r.pc = "final"
                     THEN \/ Continue(c, call, r, tasks, BeginFetch(c), {})
                          \/ degraded /\ Continue(c, call, Return(r.task), tasks, fetches, {})
                     ELSE Continue(c, call, r, tasks, fetches, {})
                  /\ login' = (login \/ Own(call.kind)) /\ UNCHANGED unsure
             [] call.out = "dead" -> Rejected(c, "rereply") /\ UNCHANGED login
             [] OTHER -> Continue(c, call, Return(t), tasks, fetches, {}) /\ UNCHANGED <<login, unsure>>
    /\ UNCHANGED <<githubVars, left, authored, closed, edits, degraded>>

ResolveReturns(c) ==
    /\ calls[c].pc = "resolved"
    /\ LET call == calls[c]
           t == tasks[call.task]
           u == ThreadAccepted(t, call.thread)
           Ends(r) == Continue(c, call, r, tasks, fetches, {}) /\ UNCHANGED unsure
       IN  CASE call.out = "ok" -> Ends(Resolve(u, TRUE))
             [] call.out = "declined" -> Ends(Return(u))
             [] call.out = "dead" -> Rejected(c, "reresolve")
             [] OTHER -> Ends(Return(t))
    /\ UNCHANGED <<githubVars, login, left, authored, closed, edits, degraded>>

\* pr_task_detail
DetailShows == \E i \in DOMAIN tasks : Show({i}, TRUE)

\* pr_tasks_list, with or without show_all: the comments, but not the replies.
\* The sync that it awaits first is one of SyncStarts.
ListShows == Show(Visible, FALSE) \/ Show(DOMAIN tasks, FALSE)

\* agent_before_settle: what is unresolved is shown, from the tasks as they are
\* cached (the throttle and the cap on identical nudges are left open).
SettleNudges == Show(Unresolved, FALSE)

PiShows == (DetailShows \/ ListShows \/ SettleNudges) /\ UNCHANGED piVars

PiAction(c) ==
    \/ ActionChecks(c) \/ SuggestionIsWritten(c) \/ ReplyReturns(c) \/ ResolveReturns(c)
    \/ (ReplyIsPosted(c) \/ ThreadIsResolved(c)) /\ UNCHANGED piVars

PiList(k) == SyncArrives(k) \/ ListArrives(k) \/ (FetchReads(k) /\ UNCHANGED piVars)

Kinds == {"resolve", "accept", "block", "userResolve", "userReply"}

PiNext ==
    \/ (GitHub \/ \E i \in DOMAIN tasks : GraceEnds(i)) /\ UNCHANGED piVars
    \/ SyncStarts
    \/ \E k \in DOMAIN fetches : PiList(k) \/ SyncFails(k) \/ ListFails(k)
    \/ \E c \in Calls, kind \in Kinds, i \in DOMAIN tasks : ActionStarts(c, kind, i)
    \/ \E c \in Calls : PiAction(c)
    \/ PiShows
=============================================================================
