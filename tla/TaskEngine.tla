----------------------------- MODULE TaskEngine -----------------------------
(***************************************************************************)
(* PRTasksManager of lib/pr-tasks-manager.ts as operators: how one thread     *)
(* list of GitHub is reconciled with the tasks of a pull request, and what     *)
(* each of the manager's other calls does to a task.  The pi extension and     *)
(* the MCP server of the pr-observer plugin (with its own copy of the file)    *)
(* run on it.                                                                *)
(*                                                                           *)
(* A comment is [born, gen, by, text]: born is its creation time, and GitHub    *)
(* may give it a new id (gen) when it replaces the thread.  Lists of ids,       *)
(* which the code searches and never orders, are sets.  One pull request of     *)
(* one repository, comments on one file.                                     *)
(***************************************************************************)
EXTENDS Integers, Sequences, FiniteSets, SequencesExt

CONSTANTS
    Suggestions,    \* the texts of a root comment that hold a code suggestion
    Me              \* the login that the agent (and its user) writes as

Open == {"UNRESOLVED", "BLOCKED"}

Id(c)    == <<c.born, c.gen>>
Words(c) == <<c.by, c.text>>
Ids(cs)  == {Id(c) : c \in cs}
ConversationId(n) == Id(Head(n.comments))

\* The elements of a list that satisfy a condition are given as the set of
\* their positions, of which the code takes the first or the last.
First(S)  == CHOOSE i \in S : \A j \in S : i <= j
Latest(S) == CHOOSE i \in S : \A j \in S : i >= j

\* Those elements of a list that are in S, in their order.
Those(s, S) ==
    LET upTo[n \in 0..Len(s)] ==
            IF n = 0 THEN <<>>
            ELSE IF s[n] \in S THEN Append(upTo[n - 1], s[n]) ELSE upTo[n - 1]
    IN  upTo[Len(s)]

SetStatus(t, s) ==
    [t EXCEPT !.status = s,
              !.blocked = @ /\ s \in {"BLOCKED", "STALE"},
              !.baseline = IF s \in {"BLOCKED", "STALE"} THEN @ ELSE {},
              !.replied = @ /\ s # "RESOLVED"]

CreateTask(n) ==
    LET root == Head(n.comments)
    IN  [thread |-> n.id, line |-> n.line, conv |-> ConversationId(n), aliases |-> {},
         leading |-> {}, replies |-> Tail(n.comments), own |-> <<>>, dead |-> {},
         by |-> root.by, born |-> root.born, text |-> root.text,
         suggests |-> root.text \in Suggestions, applied |-> "none", seenText |-> "none",
         seen |-> {}, blocked |-> FALSE, baseline |-> {}, replied |-> FALSE,
         upstream |-> n.resolved, listed |-> TRUE, fresh |-> FALSE,
         status |-> IF n.resolved THEN "RESOLVED" ELSE "UNRESOLVED"]

(* Matching *)

IsRepostOf(n, t) == LET root == Head(n.comments) IN root.by = t.by /\ root.text = t.text

\* The comments begin with these replies: the root was deleted.
ContinuesReplies(n, rs) ==
    /\ rs # <<>> /\ Len(n.comments) >= Len(rs)
    /\ \A i \in DOMAIN rs : \/ Id(rs[i]) = Id(n.comments[i])
                            \/ Words(rs[i]) = Words(n.comments[i])

HasRoot(t, conv) == t.conv = conv \/ conv \in t.aliases

\* The ids of a list after GitHub replaced the thread: those that are still
\* there, and for each other one the first new reply of that author and text
\* that no other took.
CarryReplyIds(ids, before, after) ==
    LET gone == {c \in before : Id(c) \in ids \ Ids(ToSet(after))}
        new  == {m \in DOMAIN after : Id(after[m]) \notin ids}
        Alike(m) == {k \in new : k <= m /\ Words(after[k]) = Words(after[m])}
        Wanted(m) == {c \in gone : Words(c) = Words(after[m])}
    IN  (ids \cap Ids(ToSet(after)))
        \cup {Id(after[m]) : m \in {k \in new : Cardinality(Alike(k)) <= Cardinality(Wanted(k))}}

(* One node and its task *)

RecordOwnReplies(t, ids) ==
    [t EXCEPT !.seen = @ \cup ids, !.baseline = IF t.blocked THEN @ \cup ids ELSE @]

\* The agent's replies that are still being posted, if the list shows them:
\* for each message the last reply that it may be.
PendingReplies(t, pending, loginKnown) ==
    LET mine == {m \in DOMAIN t.replies : /\ loginKnown => t.replies[m].by = Me
                                          /\ Id(t.replies[m]) \notin t.seen}
        Alike(m) == {k \in mine : k >= m /\ t.replies[k].text = t.replies[m].text}
        Expected(m) == {p \in pending : p.text = t.replies[m].text}
    IN  {Id(t.replies[m]) : m \in {k \in mine : Cardinality(Alike(k)) <= Cardinality(Expected(k))}}

TakePending(t, pending, loginKnown) == RecordOwnReplies(t, PendingReplies(t, pending, loginKnown))

RootDeleted(t, n) ==
    LET conv == ConversationId(n)
    IN  /\ conv # t.conv
        /\ conv \in t.leading \cup Ids(ToSet(t.replies)) \/ ContinuesReplies(n, t.replies)

\* A comment that was posted anew, in a thread of its own.
IsRepost(t, n) ==
    /\ t.thread # n.id /\ ConversationId(n) # t.conv /\ ~RootDeleted(t, n)
    /\ ConversationId(n) \notin t.aliases /\ Head(n.comments).born # t.born

\* The task with the comments of the node; gone: its root comment was deleted.
Relinked(t, n, gone) ==
    LET root  == Head(n.comments)
        conv  == ConversationId(n)
        moved == conv # t.conv /\ ~gone
        lead  == gone /\ conv \notin t.leading
        now   == IF gone THEN n.comments ELSE Tail(n.comments)
        before == ToSet(t.replies) \cup ToSet(t.own)
        Carried(ids) == IF t.thread = n.id THEN ids ELSE CarryReplyIds(ids, before, now)
    IN  [t EXCEPT !.thread = n.id, !.line = n.line, !.replies = now,
                  !.seen = Carried(@), !.baseline = Carried(@),
                  !.leading = IF lead THEN @ \cup {conv} ELSE @,
                  !.aliases = IF lead THEN @ \cup {conv}
                              ELSE IF moved THEN (@ \ {conv}) \cup {t.conv} ELSE @,
                  !.conv = IF moved THEN conv ELSE @,
                  !.by   = IF gone THEN @ ELSE root.by,
                  !.born = IF gone THEN @ ELSE root.born,
                  !.text = IF gone THEN @ ELSE root.text,
                  !.suggests = ~gone /\ root.text \in Suggestions]

Reopened(t, again) == IF again THEN SetStatus(t, "UNRESOLVED") ELSE t

TakeComments(t, n) ==
    Reopened(Relinked(t, n, RootDeleted(t, n)), IsRepost(t, n) /\ t.status = "BLOCKED")

\* What the thread's state, open or resolved, says of the task.
\* `was' is the task before this list; `predates': the list may be older than
\* the agent's own resolve.
TakeState(t, n, was, predates) ==
    LET u == [t EXCEPT !.upstream = IF predates /\ ~n.resolved THEN @ ELSE n.resolved]
        newActivity == Ids(ToSet(u.replies)) \ (Ids(ToSet(was.replies)) \cup u.seen) # {}
    IN  CASE n.resolved -> IF u.status = "RESOLVED" THEN u ELSE SetStatus(u, "RESOLVED")
          [] ~n.resolved /\ u.status = "RESOLVED" /\ ~predates -> SetStatus(u, "UNRESOLVED")
          [] ~n.resolved /\ u.status = "STALE" /\ (n.id \notin u.dead \/ newActivity) ->
                SetStatus(u, IF u.blocked THEN "BLOCKED" ELSE "UNRESOLVED")
          [] OTHER -> u

\* An answer is the newest reply that was not known when the task was blocked.
Answered(t, i) ==
    LET new == {m \in DOMAIN t.replies : Id(t.replies[m]) \notin t.baseline}
        answered == t.status = "BLOCKED" /\ new # {}
    IN  [task |-> Reopened(t, answered),
         answers |-> IF answered THEN {[task |-> i, reply |-> t.replies[Latest(new)]]} ELSE {}]

\* ctx: before, the tasks the agent resolved since the list was asked for;
\* pending, per task the replies being posted; login, whether Me is known.
Updated(t, n, i, ctx) ==
    TakeState(IF n.comments = <<>> THEN t
              ELSE TakePending(TakeComments(t, n), ctx.pending[i], ctx.login),
              n, t, t.status = "RESOLVED" /\ (i \in ctx.before \/ t.fresh))

ApplyThreadNode(t, n, i, ctx) == Answered(Updated(t, n, i, ctx), i)

(* One list of threads *)

\* Where the list comes to a conversation for the first time.
Begins(nodes, k) ==
    /\ nodes[k].comments # <<>>
    /\ \A j \in 1..(k - 1) :
          nodes[j].comments # <<>> => ConversationId(nodes[j]) # ConversationId(nodes[k])

\* The nodes of one root comment are one conversation, met through one node:
\* one GitHub has not rejected, then the one a task uses, then the newest.
Group(tasks, nodes, conv) ==
    LET deadIds == UNION {tasks[i].dead : i \in DOMAIN tasks}
        all     == {k \in DOMAIN nodes : nodes[k].comments # <<>> /\ ConversationId(nodes[k]) = conv}
        usable  == {k \in all : nodes[k].id \notin deadIds}
        pool    == IF usable = {} THEN all ELSE usable
        used    == {k \in pool : \E i \in DOMAIN tasks : tasks[i].thread = nodes[k].id}
    IN  [conv |-> conv, live |-> usable # {}, ids |-> {nodes[k].id : k \in all},
         node |-> nodes[IF used = {} THEN Latest(pool) ELSE First(used)]]

\* The conversations of a list, each at the position where it begins.
Groups(tasks, nodes) ==
    [k \in {j \in DOMAIN nodes : Begins(nodes, j)} |-> Group(tasks, nodes, ConversationId(nodes[k]))]

\* acc, with positions of the list: what was claimed, <<task, position>>; the
\* groups without an exact match; those no task is for.  What a claim changes
\* in a task has no say in the claims after it, but for the roots that it has.
Claimed(acc) == {p[1] : p \in acc.claims}

Free(tasks, acc, P(_)) == {i \in DOMAIN tasks \ Claimed(acc) : P(tasks[i])}

Claim(acc, S, k) == [acc EXCEPT !.claims = @ \cup {<<First(S), k>>}]

ClaimFirst(acc, S, k) == IF S = {} THEN acc ELSE Claim(acc, S, k)

ExactMatch(tasks, groups, acc, k) ==
    LET S == Free(tasks, acc, LAMBDA t : t.thread \in groups[k].ids \/ t.conv = groups[k].conv)
    IN  IF S = {} THEN [acc EXCEPT !.rest = @ \cup {k}] ELSE Claim(acc, S, k)

AliasMatch(tasks, groups, acc, k) ==
    LET conv == groups[k].conv
        S    == Free(tasks, acc, LAMBDA t : conv \in t.aliases)
        met  == \/ Free(tasks, acc, LAMBDA t : HasRoot(t, conv)) # {}
                \/ \E p \in acc.claims : HasRoot(TakeComments(tasks[p[1]], groups[p[2]].node), conv)
    IN  IF S # {} THEN Claim(acc, S, k)
        ELSE IF met THEN acc
        ELSE [acc EXCEPT !.unmatched = @ \cup {k}]

\* A node that may stand for an orphaned task's conversation, posted again.
Replaces(n, t, nodes, deadGroups) ==
    LET deadListed == \E g \in deadGroups : g.ids \cap t.dead # {}
    IN  /\ IsRepostOf(n, t) \/ ContinuesReplies(n, t.replies)
        /\ ~\E k \in DOMAIN nodes : nodes[k].comments = <<>> /\ nodes[k].id = t.thread
        /\ deadListed => n.line = t.line

RepostMatch(tasks, nodes, groups, acc, k) ==
    LET dead  == {g \in Range(groups) : ~g.live}
        May(j, t) == Replaces(groups[j].node, t, nodes, dead)
        S     == Free(tasks, acc, LAMBDA t : t.status \in Open /\ May(k, t))
        rivals == {j \in acc.unmatched : May(j, tasks[First(S)])}
    IN  IF Cardinality(S) # 1 \/ Cardinality(rivals) # 1 THEN acc
        ELSE Claim([acc EXCEPT !.unmatched = @ \ {k}], S, k)

DeadMatch(tasks, groups, acc, k) ==
    LET g == groups[k]
    IN  ClaimFirst(acc, Free(tasks, acc, LAMBDA t : \/ t.thread \in g.ids \/ g.ids \cap t.dead # {}
                                                   \/ HasRoot(t, g.conv)), k)

CommentlessMatch(tasks, nodes, acc, k) ==
    IF nodes[k].comments # <<>> THEN acc
    ELSE ClaimFirst(acc, Free(tasks, acc, LAMBDA t : t.thread = nodes[k].id), k)

\* Each pass goes through the list in its order.
ExactMatches(tasks, nodes, groups, acc) ==
    FoldLeftDomain(LAMBDA a, k : IF k \in DOMAIN groups /\ groups[k].live
                                 THEN ExactMatch(tasks, groups, a, k) ELSE a, acc, nodes)
AliasMatches(tasks, nodes, groups, acc) ==
    FoldLeftDomain(LAMBDA a, k : IF k \in acc.rest THEN AliasMatch(tasks, groups, a, k) ELSE a, acc, nodes)
RepostMatches(tasks, nodes, groups, acc) ==
    FoldLeftDomain(LAMBDA a, k : IF k \in acc.unmatched
                                 THEN RepostMatch(tasks, nodes, groups, a, k) ELSE a, acc, nodes)
DeadMatches(tasks, nodes, groups, acc) ==
    FoldLeftDomain(LAMBDA a, k : IF k \in DOMAIN groups /\ ~groups[k].live
                                 THEN DeadMatch(tasks, groups, a, k) ELSE a, acc, nodes)
CommentlessMatches(tasks, nodes, acc) ==
    FoldLeftDomain(LAMBDA a, k : CommentlessMatch(tasks, nodes, a, k), acc, nodes)

\* The live groups find their tasks first, then those left over.
Matched(tasks, nodes, groups) ==
    LET none  == [claims |-> {}, rest |-> {}, unmatched |-> {}]
        exact == ExactMatches(tasks, nodes, groups, none)
        found == RepostMatches(tasks, nodes, groups, AliasMatches(tasks, nodes, groups, exact))
    IN  CommentlessMatches(tasks, nodes, DeadMatches(tasks, nodes, groups, found))

\* A task that no node of the list is for: what is open becomes stale.
\* Mutant: it stays open.
MutantUnlisted(t) == [t EXCEPT !.listed = FALSE]

Unlisted(t) == [(IF t.status \in Open THEN SetStatus(t, "STALE") ELSE t) EXCEPT !.listed = FALSE]

\* What was claimed takes its node; what no task is for becomes one.
Settled(tasks, nodes, groups, all, ctx) ==
    LET claimed == {i \in DOMAIN tasks : \E k \in DOMAIN nodes : <<i, k>> \in all.claims}
        at(i)   == CHOOSE k \in DOMAIN nodes : <<i, k>> \in all.claims
        Node(k) == IF k \in DOMAIN groups THEN groups[k].node ELSE nodes[k]
        Met     == [i \in claimed |-> ApplyThreadNode(tasks[i], Node(at(i)), i, ctx)]
        Task(i) == IF i \in claimed THEN [Met[i].task EXCEPT !.listed = TRUE] ELSE Unlisted(tasks[i])
        new == Those([k \in DOMAIN nodes |-> k], DOMAIN groups \cap all.unmatched)
    IN  [tasks |-> [i \in DOMAIN tasks |-> Task(i)] \o [m \in DOMAIN new |-> CreateTask(groups[new[m]].node)],
         answers |-> UNION {Met[i].answers : i \in claimed}]

\* syncFromGitHubThreads of a list that is not older than the last one applied.
Sync(tasks, nodes, ctx) ==
    LET groups == Groups(tasks, nodes)
    IN  Settled(tasks, nodes, groups, Matched(tasks, nodes, groups), ctx)

(* The manager's other calls *)

MarkResolved(t, upstream) ==
    [SetStatus(t, "RESOLVED") EXCEPT !.fresh = TRUE, !.upstream = @ \/ upstream]
MarkDeadThread(t) == [t EXCEPT !.dead = @ \cup {t.thread}]
ThreadAccepted(t, thread) ==
    LET u == [t EXCEPT !.dead = @ \ {thread}]
    IN  IF t.status = "STALE" /\ t.thread = thread
        THEN SetStatus(u, IF t.blocked THEN "BLOCKED" ELSE "UNRESOLVED") ELSE u
MarkStale(t) == SetStatus(t, "STALE")
\* Mutant: every listed reply is known when the task is blocked.
MutantMarkBlocked(t) == [SetStatus(t, "BLOCKED") EXCEPT !.blocked = TRUE, !.baseline = Ids(ToSet(t.replies))]

MarkBlocked(t) == [SetStatus(t, "BLOCKED") EXCEPT !.blocked = TRUE, !.baseline = t.seen]
AddReply(t, c) ==
    RecordOwnReplies([t EXCEPT !.replies = IF Id(c) \in Ids(ToSet(@)) THEN @ ELSE Append(@, c),
                               !.own = Append(@, c)], {Id(c)})
MarkRepliesShown(t, cs) == [t EXCEPT !.seen = @ \cup Ids(cs)]
MarkShown(t, cs) == [MarkRepliesShown(t, cs) EXCEPT !.seenText = t.text]
UnseenReplies(t) == {c \in ToSet(t.replies) : Id(c) \notin t.seen}
\* A rejected thread that the last list still shows.
IsListedDeadThread(t) == t.listed /\ t.thread \in t.dead
=============================================================================
