----------------------------- MODULE ReviewHosts ----------------------------
(***************************************************************************)
(* The two programs that the task manager runs in, and what they promise.     *)
(***************************************************************************)
EXTENDS PrTasks, PrServer

Init == PiInit

Next == \/ host = "pi" /\ PiNext
        \/ host = "mcp" /\ ServerNext /\ UNCHANGED piVars

\* The extension syncs on a timer and every gh call times out: its background
\* syncs go on being answered (a failure is one of a bounded number).
SyncsGoOn == host = "pi" => []<><<\E k \in DOMAIN fetches : SyncArrives(k)>>_vars

Spec == Init /\ [][Next]_vars /\ SyncsGoOn

\* A reply counts as seen, or as known when the agent asked its question, only
\* if the agent was shown it or posted it, through every move of the thread,
\* deleted root and reply id that GitHub gives anew: nothing a reviewer said is
\* passed over (markRepliesSeen, markBlocked, carryReplyIds).
SeenRepliesWereShown ==
    \A i \in DOMAIN tasks : \A c \in ToSet(tasks[i].replies) :
        Id(c) \in tasks[i].seen \cup tasks[i].baseline => Words(c) \in told \/ c.born \in authored

\* The agent is never told that its own reply is the answer it waits for,
\* though a list may show the reply before the call that posts it returns
\* (addReply: "so it never counts as a user reply that unblocks the task").
\* Out of reach of the code are a reply whose call lost its answer, with those
\* that read the same, and one that is out of sight for a while.
OwnRepliesAreNoAnswers ==
    host = "pi" =>
        \A i \in DOMAIN tasks : \A b \in OwnBorn(i) \ unsure :
            <<i, b>> \in misled => authored \ UNION {OwnBorn(j) : j \in DOMAIN tasks} # {}

\* A resolve that failed after its reply was posted, and is called again, does
\* not post the reply a second time below the first (resolveTask: "only the
\* resolve is retried"), unless the thread was closed in between or the reply
\* is out of sight: a list that was asked for before it takes it away again,
\* and with gh degraded the retry goes by that.
RepliesAreNotRepeated ==
    host = "pi" =>
        \A i \in DOMAIN tasks, k \in DOMAIN threads :
            LET cs == threads[k].comments
            IN  \A j \in 2..(Len(cs) - 1) :
                    {cs[j].born, cs[j + 1].born} \subseteq OwnBorn(i) /\ cs[j].text = cs[j + 1].text =>
                        cs[j].text = Text("block") \/ cs[j].born \in closed \cup unsure

\* The extension knows what the agent posted, whatever lists and calls of gh
\* land in between: it neither tells it as an answer nor posts it again.
OwnRepliesAreKnown == OwnRepliesAreNoAnswers /\ RepliesAreNotRepeated

\* The extension writes a suggestion to the file once, whatever is retried and
\* however the reviewer edits it: a second edit by line number would clobber
\* the code that the first put there.
SuggestionIsAppliedOnce == host = "pi" => \A i \in TaskIndex : edits[i] <= 1

\* The comments of others that a task stands for.
Said(t) == ({t.born} \cup {c.born : c \in ToSet(t.replies)}) \ authored

\* GitHub still lists a node of a conversation, known by the comment that began
\* it, that it no longer takes mutations for.
ListsDeadNode(born) ==
    \E k \in DOMAIN threads :
        /\ ~threads[k].ok
        /\ \/ threads[k].comments # <<>> /\ Head(threads[k].comments).born = born
           \/ \E i \in DOMAIN tasks : tasks[i].born = born /\ tasks[i].thread = threads[k].id

\* No two tasks claim one thread or one root comment, and no comment of a
\* reviewer is in two open tasks however GitHub moves its conversation to new
\* nodes and ids, edits or deletes the root: nothing is worked on twice
\* (syncFromGitHubThreads).  The code cannot tell a conversation that comes back
\* under new ids while its rejected node is still listed: that is open as two.
OneTaskPerConversation ==
    \A i, j \in DOMAIN tasks : i # j =>
        /\ tasks[i].thread # tasks[j].thread /\ tasks[i].conv # tasks[j].conv
        /\ Said(tasks[i]) \cap Said(tasks[j]) # {} /\ {tasks[i].status, tasks[j].status} \subseteq Open =>
               ListsDeadNode(tasks[i].born) \/ ListsDeadNode(tasks[j].born)

\* What the agent resolved stays so: a list that was asked for before, or that
\* GitHub composes from a replica behind, does not open the task again, only
\* somebody who opens its thread does.  (A task that GitHub reported resolved
\* while the agent's own call runs may still change.)
LocalResolveSticks ==
    [][\A i \in DOMAIN tasks :
          tasks[i].status = "RESOLVED" /\ tasks'[i].status = "UNRESOLVED" =>
              \/ \E c \in Calls : calls[c].task = i /\ calls[c].pc = "resolved"
              \/ \A k \in DOMAIN threads : threads[k].id = tasks'[i].thread => ~threads[k].mine]_vars

\* A reviewer's reply in the thread of a blocked task that the agent has not
\* seen.
Unheard(i) ==
    /\ host = "pi" /\ i \in DOMAIN tasks /\ tasks[i].status = "BLOCKED"
    /\ \E k \in Usable :
          /\ threads[k].id = tasks[i].thread /\ ~threads[k].resolved
          /\ \E c \in ToSet(Tail(threads[k].comments)) : c.by = "reviewer" /\ Id(c) \notin tasks[i].seen

\* An answer gets the task out of BLOCKED, also one that came while the
\* question was being posted.
AnswersUnblock == \A i \in TaskIndex : Unheard(i) ~> ~Unheard(i)
=============================================================================
