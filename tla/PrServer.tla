------------------------------ MODULE PrServer ------------------------------
(***************************************************************************)
(* mcp-server.mjs of the pr-observer plugin: the task manager behind the       *)
(* tools of an MCP server.  Calls run concurrently, with no turn per task, no   *)
(* notices and no check of GitHub before they post; one thread list at a time   *)
(* is under way, and everyone who needs one waits for it.                      *)
(*                                                                           *)
(* An unknown conversation is looked for on GitHub first: that is a list too,   *)
(* and here every call is for a task the manager has.                          *)
(***************************************************************************)
EXTENDS ReviewTasks

\* An action throws or answers, goes on with a step, or marks the task resolved.
Goes(pc, t) == [pc |-> pc, task |-> t, resolves |-> FALSE]
Ends(t)     == Goes("idle", t)
EndsResolved(t) == [Ends(MarkResolved(t, TRUE)) EXCEPT !.resolves = TRUE]

\* suggestionGuard, and whether the suggestion goes to the file.  placed: its
\* lines are still those of the comment.
SuggestionGuard(t, placed) ==
    IF ~t.suggests \/ t.applied \notin {None, t.text} \/ (t.applied = None /\ ~placed) THEN Ends(t)
    ELSE IF t.applied = None /\ t.seenText # t.text THEN Ends(MarkShown(t, {}))
    ELSE Goes("edit", t)

\* resolveTask and blockTask, up to what they wait for first.
Starts(kind, t, placed) ==
    CASE t.status = "RESOLVED" -> Ends(t)
      [] t.upstream /\ t.status # "RESOLVED" -> EndsResolved(t)
      [] OTHER -> IF kind = "accept" THEN SuggestionGuard(t, placed) ELSE Goes("reply", t)

\* Action c goes on as call with its step r.
Proceed(c, call, r) ==
    /\ tasks' = [tasks EXCEPT ![call.task] = r.task]
    /\ fetches' = IF r.resolves THEN AfterResolve(fetches, call.task) ELSE fetches
    /\ calls' = [calls EXCEPT ![c] =
          IF r.pc = "idle" THEN Idle
          ELSE [call EXCEPT !.pc = r.pc, !.thread = r.task.thread, !.first = r.task.thread,
                            !.out = IF r.pc = "edit" THEN r.task.text ELSE None]]

ToolIsCalled(c, kind, i) ==
    /\ left.calls > 0 /\ calls[c].pc = "idle"
    /\ \A d \in Calls : d < c => calls[d].pc # "idle"
    /\ left' = [left EXCEPT !.calls = @ - 1]
    /\ \E placed \in BOOLEAN :
          Proceed(c, [Idle EXCEPT !.kind = kind, !.task = i], Starts(kind, tasks[i], placed))
    /\ UNCHANGED <<githubVars, login, ghostVars>>

\* The edit is made, or refused.
ToolWritesSuggestion(c) ==
    /\ calls[c].pc = "edit"
    /\ LET i == calls[c].task
       IN  \/ /\ Proceed(c, calls[c], Goes("reply", [tasks[i] EXCEPT !.applied = calls[c].out]))
              /\ edits' = [edits EXCEPT ![i] = @ + 1]
           \/ Proceed(c, calls[c], Ends(tasks[i])) /\ UNCHANGED edits
    /\ UNCHANGED <<githubVars, login, left, told, misled, postVars>>

\* syncPR: a list is asked for, or the one under way will do.
Joined == IF fetches = <<>> THEN BeginFetch(0) ELSE fetches

\* withCurrentThread, after a rejection: the PR is synced, or (the second
\* time) the task is stale.
ToolRejected(c, pc) ==
    LET call == calls[c]
        i == call.task
    IN  IF call.thread = call.first
        THEN /\ tasks' = [tasks EXCEPT ![i] = MarkDeadThread(@)]
             /\ fetches' = Joined
             /\ calls' = [calls EXCEPT ![c] = [call EXCEPT !.pc = pc]]
        ELSE Proceed(c, call, Ends(MarkStale(tasks[i])))

ToolReplied(call, t) ==
    LET u == AddReply(ThreadAccepted(t, call.thread), Comment(call.born, Me, Text(call.kind)))
    IN  IF call.kind = "block" THEN Ends(MarkBlocked(u)) ELSE Goes("resolve", u)

ToolReplyReturns(c) ==
    /\ calls[c].pc = "replied"
    /\ LET call == calls[c]
       IN  CASE call.out = "ok" ->
                  Proceed(c, call, ToolReplied(call, tasks[call.task])) /\ login' = TRUE
             [] call.out = "dead" -> ToolRejected(c, "rereply") /\ UNCHANGED login
             [] OTHER -> Proceed(c, call, Ends(tasks[call.task])) /\ UNCHANGED login
    /\ UNCHANGED <<githubVars, left, ghostVars>>

ToolResolveReturns(c) ==
    /\ calls[c].pc = "resolved"
    /\ LET call == calls[c]
           accepted == ThreadAccepted(tasks[call.task], call.thread)
       IN  CASE call.out = "ok" -> Proceed(c, call, EndsResolved(accepted))
             [] call.out = "declined" -> Proceed(c, call, Ends(accepted))
             [] call.out = "dead" -> ToolRejected(c, "reresolve")
             [] OTHER -> Proceed(c, call, Ends(tasks[call.task]))
    /\ UNCHANGED <<githubVars, login, left, ghostVars>>

Waiting == {c \in Calls : calls[c].pc \in {"rereply", "reresolve"}}

\* pr_tasks_list, observe_pr
ListIsCalled ==
    /\ fetches = <<>> /\ fetches' = BeginFetch(0)
    /\ UNCHANGED <<githubVars, tasks, login, calls, left, ghostVars>>

\* s: what the list makes of the tasks; moved: the calls whose task it moved.
AfterRelink(s, moved) ==
    LET stuck == {calls[c].task : c \in Waiting \ moved}
    IN  [i \in DOMAIN s.tasks |-> IF i \in stuck THEN MarkStale(s.tasks[i]) ELSE s.tasks[i]]

Retries(s, moved) ==
    [c \in Calls |->
        IF c \in moved
        THEN [calls[c] EXCEPT !.pc = IF @ = "rereply" THEN "reply" ELSE "resolve", !.out = None,
                              !.thread = s.tasks[calls[c].task].thread]
        ELSE IF c \in Waiting THEN Idle ELSE calls[c]]

\* pr_tasks_list marks what it lists as shown, all tasks or the unresolved.
Lists(ts) ==
    \E listing \in {{}, DOMAIN ts, {i \in DOMAIN ts : ts[i].status # "RESOLVED"}} :
        tasks' = Shown(ts, listing, FALSE)

ServerTakes(s, moved) ==
    Lists(AfterRelink(s, moved)) /\ calls' = Retries(s, moved) /\ misled' = misled \cup Mistaken(s.answers)

ServerApplies(s) ==
    ServerTakes(s, {c \in Waiting : s.tasks[calls[c].task].thread # calls[c].first})

\* The list arrives for all who wait: actions try the task's new thread.
ServerListArrives(k) ==
    /\ fetches[k].read
    /\ ServerApplies(Synced(k))
    /\ fetches' = AfterList(k)
    /\ UNCHANGED <<githubVars, login, left, told, postVars, edits>>

ServerListFails(k) ==
    /\ CallFails
    /\ fetches' = RemoveAt(fetches, k)
    /\ calls' = [c \in Calls |-> IF c \in Waiting THEN Idle ELSE calls[c]]
    /\ UNCHANGED <<githubVars, tasks, login, ghostVars>>

\* pr_task_detail
TaskDetail == \E i \in DOMAIN tasks : Show({i}, TRUE)

ServerNext ==
    \/ GitHub \/ \E i \in DOMAIN tasks : GraceEnds(i)
    \/ ListIsCalled
    \/ \E k \in DOMAIN fetches : FetchReads(k) \/ ServerListArrives(k) \/ ServerListFails(k)
    \/ \E c \in Calls, kind \in {"resolve", "accept", "block"}, i \in DOMAIN tasks : ToolIsCalled(c, kind, i)
    \/ \E c \in Calls :
          \/ ToolWritesSuggestion(c) \/ ReplyIsPosted(c) \/ ToolReplyReturns(c)
          \/ ThreadIsResolved(c) \/ ToolResolveReturns(c)
    \/ TaskDetail
=============================================================================
