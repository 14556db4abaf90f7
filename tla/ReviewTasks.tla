----------------------------- MODULE ReviewTasks ----------------------------
(***************************************************************************)
(* The review threads of one pull request on GitHub, the thread lists on       *)
(* their way to the task manager, and the calls of gh that post a reply or     *)
(* resolve a thread.  PrTasks (the pi extension) and PrServer (the MCP         *)
(* server) add what each host does between them.                             *)
(*                                                                           *)
(* The manager's clock orders a list against other lists and against the       *)
(* agent's own resolves.  fetches holds the lists under way in the order they   *)
(* were asked for, with what the ticks would say when they arrive.            *)
(***************************************************************************)
EXTENDS TaskEngine

CONSTANTS
    MaxUnderWay,    \* bound on actions under way at once
    Lines,          \* lines a thread may be on
    Answers,        \* what a reviewer writes in a reply
    InOrder,        \* GitHub composes the lists in the order they are asked for
    Budgets         \* bounds per host, one of which a behaviour has: on the events of reviewers
                    \* and GitHub and their kinds, on the actions of the agent and its
                    \* user, and on the calls of gh that fail or whose answer is lost

EventKinds == {"open", "reply", "resolve", "reopen", "edit", "repost", "delete", "replace"}

Hosts == {"pi", "mcp"}

None     == "none"
\* What the agent and its user write: an accepted suggestion is noted in the message.
Messages == {"done", "doneApplied", "question", "said"}

ASSUME ReviewAssumption ==
    /\ InOrder \in BOOLEAN /\ Lines # {} /\ Suggestions # {} /\ Me # "reviewer"
    /\ Suggestions \cap Answers = {} /\ (Suggestions \cup Answers) \cap (Messages \cup {None}) = {}
    /\ MaxUnderWay \in Nat \ {0}
    /\ Budgets \in [Hosts -> SUBSET [events : Nat, kinds : SUBSET EventKinds,
                                     calls : Nat, fails : Nat]]

VARIABLES
    host,           \* the program the manager runs in
    threads,        \* GitHub: the nodes it lists, in order
    stamp,          \* time and node ids that GitHub gave out
    tasks,          \* PRTasksManager
    login,          \* agentLogin is known
    fetches,        \* thread lists under way, oldest first
    calls,          \* actions under way
    left,           \* what is left of the budget
    \* history, for the properties:
    told,           \* words of reviewers that the agent was shown or told of
    authored,       \* replies the agent posted
    misled,         \* those taken as an answer to its block: <<task, reply>>
    closed,         \* those whose thread was resolved after them, or so a list said
    unsure,         \* those out of sight: an action went by what was cached, or
                    \* the task moved to a thread that does not show them
    edits           \* how often a suggestion was written to the file, per task

githubVars == <<host, threads, stamp>>
postVars   == <<authored, closed, unsure>>
ghostVars  == <<told, misled, postVars, edits>>
reviewVars == <<githubVars, tasks, login, fetches, calls, left, ghostVars>>

Calls     == 1..MaxUnderWay
TaskIndex == 1..(1 + Max({b.events : b \in UNION Range(Budgets)}))
Idle == [kind |-> None, task |-> 1, pc |-> "idle", first |-> 0, thread |-> 0,
         born |-> 0, out |-> None, stale |-> FALSE]

OwnBorn(i) == {c.born : c \in ToSet(tasks[i].own)}

\* Replies of the agent, and what is written in them.
Own(kind)  == kind \in {"resolve", "accept", "block"}
Text(kind) == CASE kind = "resolve" -> "done"
                [] kind = "accept" -> "doneApplied"
                [] kind = "block" -> "question"
                [] OTHER -> "said"

Comment(born, by, text) == [born |-> born, gen |-> 0, by |-> by, text |-> text]
\* ok: GitHub accepts the id.  mine: the agent resolved it, was told so, and
\* nobody opened it since.
Node(id, line, comments) ==
    [id |-> id, line |-> line, comments |-> comments, resolved |-> FALSE, ok |-> TRUE, mine |-> FALSE]

\* One thread, and the first sync has seeded its task: nothing was done yet,
\* or the agent blocked it, or its suggestion was accepted and the reply posted
\* and then the resolve failed.
FirstThread ==
    LET root == Comment(1, "reviewer", CHOOSE x \in Suggestions : TRUE)
        seeded == CreateTask(Node(1, CHOOSE l \in Lines : TRUE, <<root>>))
        Mine(kind) == Comment(2, Me, Text(kind))
        Begin(replies, t, written) ==
            /\ threads = <<Node(1, seeded.line, <<root>> \o replies)>> /\ tasks = <<t>>
            /\ stamp = 1 + Len(replies)
            /\ login = (replies # <<>>) /\ authored = {c.born : c \in ToSet(replies)}
            /\ edits = [i \in TaskIndex |-> IF i = 1 THEN written ELSE 0]
    IN  \/ Begin(<<>>, seeded, 0)
        \/ Begin(<<Mine("block")>>, MarkBlocked(AddReply(seeded, Mine("block"))), 0)
        \/ Begin(<<Mine("accept")>>,
                 [AddReply(MarkShown(seeded, {}), Mine("accept")) EXCEPT
                     !.replied = TRUE, !.applied = root.text], 1)

ReviewInit ==
    /\ FirstThread /\ fetches = <<>> /\ host \in Hosts /\ left \in Budgets[host]
    /\ calls = [c \in Calls |-> Idle]
    /\ told = {} /\ misled = {} /\ closed = {} /\ unsure = {}

(* What reviewers and GitHub do *)

Usable == {k \in DOMAIN threads : threads[k].ok /\ threads[k].comments # <<>>}

Event(kind, ts) ==
    /\ left.events > 0 /\ kind \in left.kinds
    /\ threads' = ts /\ stamp' = stamp + 1 /\ left' = [left EXCEPT !.events = @ - 1]
    /\ UNCHANGED <<host, tasks, login, fetches, calls, told, misled, authored, unsure, edits>>

Born(k) == {threads[k].comments[j].born : j \in DOMAIN threads[k].comments}

ReviewerOpens ==
    \E x \in Suggestions, l \in Lines :
        Event("open", Append(threads, Node(stamp + 1, l, <<Comment(stamp + 1, "reviewer", x)>>)))
        /\ UNCHANGED closed

ReviewerReplies ==
    \E k \in Usable, x \in Answers :
        /\ Event("reply", [threads EXCEPT ![k].comments = Append(@, Comment(stamp + 1, "reviewer", x))])
        /\ UNCHANGED closed

ReviewerResolves ==
    \E k \in Usable :
        /\ ~threads[k].resolved
        /\ Event("resolve", [threads EXCEPT ![k].resolved = TRUE])
        /\ closed' = closed \cup (Born(k) \cap authored)

ReviewerReopens ==
    \E k \in Usable :
        /\ threads[k].resolved
        /\ Event("reopen", [threads EXCEPT ![k].resolved = FALSE, ![k].mine = FALSE])
        /\ UNCHANGED closed

ReviewerEdits ==
    \E k \in Usable, x \in Suggestions :
        /\ threads[k].comments[1].text \in Suggestions \ {x}
        /\ Event("edit", [threads EXCEPT ![k].comments[1].text = x])
        /\ UNCHANGED closed

\* The same comment, in a new thread; the old one is gone.
ReviewerReposts ==
    \E k \in Usable, l \in Lines :
        /\ threads[k].comments[1].by = "reviewer"
        /\ Event("repost", Append(RemoveAt(threads, k),
                        Node(stamp + 1, l, <<[threads[k].comments[1] EXCEPT !.born = stamp + 1, !.gen = 0]>>)))
        /\ UNCHANGED closed

RootIsDeleted ==
    \E k \in Usable :
        /\ Event("delete", IF Len(threads[k].comments) = 1 THEN RemoveAt(threads, k)
                 ELSE [threads EXCEPT ![k].comments = Tail(@)])
        /\ UNCHANGED closed

Reissued(cs, reissue) == [j \in DOMAIN cs |-> [cs[j] EXCEPT !.gen = IF reissue THEN @ + 1 ELSE @]]

\* GitHub gives the thread a new node (a merge does), maybe the comments new
\* ids, and may go on listing the old node, which it rejects, with or without
\* its comments.
ThreadIsReplaced ==
    \E k \in Usable, reissue \in BOOLEAN, rest \in {"gone", "listed", "commentless"} :
        LET old == [threads[k] EXCEPT !.ok = FALSE,
                                      !.comments = IF rest = "commentless" THEN <<>> ELSE @]
            new == [threads[k] EXCEPT !.id = stamp + 1, !.comments = Reissued(@, reissue)]
        IN  /\ Event("replace", IF rest = "gone" THEN Append(RemoveAt(threads, k), new)
                     ELSE Append([threads EXCEPT ![k] = old], new))
            /\ UNCHANGED closed

GitHub ==
    \/ ReviewerOpens \/ ReviewerReplies \/ ReviewerResolves \/ ReviewerReopens
    \/ ReviewerEdits \/ ReviewerReposts \/ RootIsDeleted \/ ThreadIsReplaced

(* Thread lists *)

\* by: the action it is for; 0, a background sync.
BeginFetch(by) == Append(fetches, [by |-> by, read |-> FALSE, nodes |-> <<>>, behind |-> FALSE, late |-> FALSE, before |-> {}])

\* For reopenGraceMs after the agent's resolve, a read may still show the
\* thread open.
Lagging(k) == \E i \in DOMAIN tasks :
                  tasks[i].fresh /\ tasks[i].upstream /\ tasks[i].thread = threads[k].id

\* Whether GitHub composes the next list, asked for after those before k.
InTurn(k) == InOrder => \A j \in 1..(k - 1) : fetches[j].read

Reads == {[j \in DOMAIN threads |-> [threads[j] EXCEPT !.resolved = @ /\ ~(lag /\ Lagging(j))]] :
             lag \in BOOLEAN}

ReadAt(fs, k, nodes) ==
    [fs EXCEPT ![k].read = TRUE, ![k].nodes = nodes, ![k].behind = nodes # threads]

FetchReads(k) ==
    /\ ~fetches[k].read /\ InTurn(k)
    /\ \E nodes \in Reads : fetches' = ReadAt(fetches, k, nodes)
    /\ UNCHANGED <<githubVars, tasks, login, calls, left, ghostVars>>

\* The ten seconds are over, and lists from a replica behind have arrived.
GraceEnds(i) ==
    /\ tasks[i].fresh /\ \A k \in DOMAIN fetches : ~fetches[k].behind
    /\ tasks' = [tasks EXCEPT ![i].fresh = FALSE]
    /\ UNCHANGED <<githubVars, login, fetches, calls, left, ghostVars>>

\* Mutant: no reply is expected.
MutantPending(i) == {}

\* The agent's replies to task i whose call has not returned.
Pending(i) ==
    {[call |-> c, text |-> Text(calls[c].kind)] :
        c \in {d \in Calls : /\ calls[d].task = i /\ Own(calls[d].kind)
                             /\ calls[d].pc \in {"reply", "replied", "rereply"}}}

\* The list of fetch k arrives, and the manager ignores one that was asked
\* for before the last one it took.
Synced(k) ==
    IF fetches[k].late
    THEN [tasks |-> tasks, answers |-> {}]
    ELSE Sync(tasks, fetches[k].nodes,
              [before |-> fetches[k].before, login |-> login,
               pending |-> [i \in DOMAIN tasks |-> Pending(i)]])

Mistaken(answers) == {<<a.task, a.reply.born>> : a \in {b \in answers : b.reply.by = Me}}

\* If list k is taken, those asked for earlier will not be.
AfterList(k) ==
    RemoveAt([j \in DOMAIN fetches |->
                 [fetches[j] EXCEPT !.late = @ \/ (j < k /\ ~fetches[k].late)]], k)

\* Mutant: a resolve is not ordered with the lists under way.
MutantAfterResolve(fs, i) == fs

\* markResolved takes a tick: lists under way are older than it.
AfterResolve(fs, i) == [j \in DOMAIN fs |-> [fs[j] EXCEPT !.before = @ \cup {i}]]

(* Calls of gh that change a thread: what they do, and later their answer *)

Targets(c) == {k \in DOMAIN threads : threads[k].id = calls[c].thread /\ threads[k].ok}

Answer(c, out) == calls' = [calls EXCEPT ![c].pc = "replied", ![c].out = out,
                                         ![c].born = IF out \in {"ok", "lost"} THEN stamp + 1 ELSE @]

CallFails == left.fails > 0 /\ left' = [left EXCEPT !.fails = @ - 1]

MutationFails(c) ==
    /\ CallFails
    /\ UNCHANGED <<githubVars, authored, closed>>

RejectedNode(c) ==
    /\ Targets(c) = {}
    /\ UNCHANGED <<githubVars, left, authored, closed>>

\* A reply is posted, and the answer may be lost after it was.
ReplyIsPosted(c) ==
    /\ calls[c].pc = "reply"
    /\ \/ RejectedNode(c) /\ Answer(c, "dead")
       \/ MutationFails(c) /\ Answer(c, "fail")
       \/ \E k \in Targets(c), out \in {"ok", "lost"} :
             /\ IF out = "lost" THEN CallFails ELSE UNCHANGED left
             /\ threads' = [threads EXCEPT ![k].comments =
                               Append(@, Comment(stamp + 1, Me, Text(calls[c].kind)))]
             /\ stamp' = stamp + 1
             /\ Answer(c, out)
             /\ authored' = IF Own(calls[c].kind) THEN authored \cup {stamp + 1} ELSE authored
             /\ UNCHANGED closed
    /\ UNCHANGED <<host, tasks, login, fetches, told, misled, unsure, edits>>

ResolveAnswer(c, out) == calls' = [calls EXCEPT ![c].pc = "resolved", ![c].out = out]

ThreadIsResolved(c) ==
    /\ calls[c].pc = "resolve"
    /\ \/ RejectedNode(c) /\ ResolveAnswer(c, "dead")
       \/ MutationFails(c) /\ \E out \in {"fail", "declined"} : ResolveAnswer(c, out)
       \/ \E k \in Targets(c), out \in {"ok", "lost"} :
             /\ IF out = "lost" THEN CallFails ELSE UNCHANGED left
             /\ threads' = [threads EXCEPT ![k].resolved = TRUE, ![k].mine = out = "ok"]
             /\ closed' = closed \cup (Born(k) \cap authored)
             /\ ResolveAnswer(c, out)
             /\ UNCHANGED <<stamp, authored>>
    /\ UNCHANGED <<host, tasks, login, fetches, told, misled, unsure, edits>>

(* What the agent is shown *)

Unresolved == {i \in DOMAIN tasks : tasks[i].status = "UNRESOLVED"}
Visible    == {i \in DOMAIN tasks : tasks[i].status # "RESOLVED"}

Shown(ts, S, replies) ==
    [i \in DOMAIN ts |-> IF i \in S THEN MarkShown(ts[i], IF replies THEN ToSet(ts[i].replies) ELSE {})
                         ELSE ts[i]]

Show(S, replies) ==
    /\ S # {} /\ tasks' = Shown(tasks, S, replies)
    /\ told' = IF replies THEN told \cup {Words(c) : c \in UNION {ToSet(tasks[i].replies) : i \in S}} ELSE told
    /\ UNCHANGED <<githubVars, login, fetches, calls, left, misled, postVars, edits>>
=============================================================================
