--------------------------- MODULE DevinWorktrees ---------------------------
(***************************************************************************)
(* The worktrees of Devin sessions: how a start gets one (createWorktree),  *)
(* who removes it and what is looked at before (checkWorktreeSafety,        *)
(* removeOrcaWorktree), next to the turns and requests of DevinPermissions. *)
(*                                                                          *)
(* A folder and its branch have one number, the N of <base>-dt<N>.  Every   *)
(* command (orca, git, gh) is awaited, so a check reads the folder, its pull *)
(* request and its commits at different times while Devin, other starts and  *)
(* other cleanups go on.  A cleanup is one call, or one turn of the loops    *)
(* over all sessions or child worktrees.                                     *)
(***************************************************************************)
EXTENDS DevinPermissions

CONSTANTS
    MaxIndex,      \* bound on the numbers of worktrees
    Budgets        \* what one behaviour may use, see budget

ASSUME WorktreesAssumption == MaxIndex \in Nat

VARIABLES
    budget,     \* [sessions, procs, cleanups: bounds; asks, isolated: what they do]
    start,      \* where the start of each session stands
    at,         \* the number createWorktree tries for it
    home,       \* worktreePath, by number; 0: none, it runs in the base folder
    released,   \* the sessions whose worktreeStatus is "released"
    folders,    \* the worktrees on disk
    branches,   \* the branches of the repository
    unsaved,    \* "uncommitted" and "unpushed" work in each folder
    pr,         \* the pull request of each branch, as GitHub has it
    cleanups    \* removals under way

Index == 1..MaxIndex
Start == {"none", "probe", "call", "git", "queued", "ready", "believed", "over"}
Work  == {"uncommitted", "unpushed"}

\* Who removes: devin_clean_worktree (for one or for all settled sessions) and
\* the same with force, the hook of a closed pull request, devin_cancel of a
\* session or of a queued restart, and orca_orchestration_release by folder or
\* for all child worktrees, which knows nothing of sessions.
Remover == {"tool", "force", "hook", "cancel", "dequeue", "release", "prune"}

\* held: the unsaved work of the time of the call that is still not saved;
\* why: what made the removal go on.
Cleanup == [by : Remover, session : Sessions \cup {0}, folder : Index,
            step : {"status", "pr", "ahead", "remove"}, held : SUBSET Work,
            why : {"", "gone", "closed", "no branch", "even", "unchecked"}]

startVars  == <<start, at, home>>
diskVars   == <<folders, branches, unsaved, pr>>
treeVars   == <<startVars, diskVars, released, cleanups>>
vars == <<sessionVars, askVars, treeVars, budget>>

Init ==
    /\ PermissionsInit
    /\ budget \in Budgets
    /\ start = [s \in Sessions |-> "none"]
    /\ at = [s \in Sessions |-> 0]
    /\ home = [s \in Sessions |-> 0]
    /\ released = {}
    /\ folders = {}
    /\ branches = {}
    /\ unsaved = [i \in Index |-> {}]
    /\ pr = [i \in Index |-> "none"]
    /\ cleanups = {}

-----------------------------------------------------------------------------
(* createWorktree *)

\* findNextWorktreeIndex: one above the highest branch; 1 when the branches
\* cannot be listed, which is a guess.
NextIndex(i) ==
    \/ i = 1
    \/ /\ i - 1 \in branches
       /\ \A b \in branches : b < i

\* A start begins: its turn in line, its slot and the spawning itself are
\* DevinDelegate's.
Begins(s) ==
    /\ start[s] = "none" /\ s <= budget.sessions
    /\ \A r \in Sessions : r < s => start[r] # "none"

BeginsListing(s) ==
    /\ budget.isolated
    /\ \E i \in Index :
         /\ NextIndex(i)
         /\ at' = [at EXCEPT ![s] = i]
    /\ start' = [start EXCEPT ![s] = "probe"]
    /\ UNCHANGED home

\* devin_delegate, or a queued task that is admitted.
Delegates(s) ==
    /\ Begins(s)
    /\ \/ BeginsListing(s)
       \/ /\ ~ budget.isolated
          /\ start' = [start EXCEPT ![s] = "ready"]
          /\ UNCHANGED <<at, home>>
    /\ UNCHANGED <<sessionVars, askVars, diskVars, released, cleanups, budget>>

\* Folders that are there are skipped, then orca is called.
Probes(s) ==
    /\ start[s] = "probe"
    /\ \E i \in Index \ folders :
         /\ i >= at[s]
         /\ \A j \in at[s]..(i-1) : j \in folders
         /\ at' = [at EXCEPT ![s] = i]
    /\ start' = [start EXCEPT ![s] = "call"]
    /\ UNCHANGED <<sessionVars, askVars, home, diskVars, released, cleanups, budget>>

Free(i) == i \notin folders /\ i \notin branches

\* orca or git makes the worktree, or does not: they refuse a name in use.
Makes(i, made) ==
    /\ made => Free(i)
    /\ folders' = IF made THEN folders \cup {i} ELSE folders
    /\ branches' = IF made THEN branches \cup {i} ELSE branches
    /\ UNCHANGED <<unsaved, pr>>

\* Whether orca exits with 0, and what it printed: its ok, which it says only of
\* a worktree it made, its refusal, JSON that says neither, or nothing to read.
OrcaReplies(made) ==
    {r \in [exit : BOOLEAN, body : {"ok", "refusal", "mute", "none"}] : r.body = "ok" => made}

MutantAccepts(r) == r.body \notin {"refusal", "none"}
Accepts(r) ==
    IF r.exit THEN r.body \notin {"refusal", "none"} ELSE r.body = "ok"

\* "believed": the start goes on as if there were a worktree.
OrcaAnswers(s) ==
    /\ start[s] = "call"
    /\ \E made \in BOOLEAN : \E r \in OrcaReplies(made) :
         /\ Makes(at[s], made)
         /\ start' = [start EXCEPT ![s] = IF ~ Accepts(r) THEN "git"
                                          ELSE IF r.exit /\ ~ made THEN "believed" ELSE "ready"]
         /\ home' = [home EXCEPT ![s] = IF Accepts(r) THEN at[s] ELSE 0]
         /\ at' = [at EXCEPT ![s] = IF Accepts(r) THEN 0 ELSE @]
    /\ UNCHANGED <<sessionVars, askVars, released, cleanups, budget>>

\* The fallback: git answers, or times out and may have made it all the same.
\* Without a worktree the tools give up; a dequeued task starts without one.
GitAnswers(s) ==
    /\ start[s] = "git"
    /\ \E made, answered \in BOOLEAN :
         /\ Makes(at[s], made)
         /\ home' = [home EXCEPT ![s] = IF made /\ answered THEN at[s] ELSE 0]
         /\ start' \in {[start EXCEPT ![s] = to] :
                          to \in IF made /\ answered THEN {"ready"} ELSE {"ready", "over"}}
    /\ at' = [at EXCEPT ![s] = 0]
    /\ UNCHANGED <<sessionVars, askVars, released, cleanups, budget>>

-----------------------------------------------------------------------------
(* Starts and turns *)

CwdExists(s) == home[s] = 0 \/ home[s] \in folders

Ready == {"ready", "believed", "queued"}

Registers(s) ==
    /\ start[s] \in Ready
    /\ start' = [start EXCEPT ![s] = "over"]
    /\ CwdExists(s)
    /\ Starts(s)
    /\ UNCHANGED <<at, home, diskVars, released, cleanups, budget>>

\* The spawn or the handshake fails; the worktree stays.
StartFails(s) ==
    /\ start[s] \in Ready
    /\ start' = [start EXCEPT ![s] = "over"]
    /\ UNCHANGED <<sessionVars, askVars, at, home, diskVars, released, cleanups, budget>>

StillThere(p) == p \notin released /\ home[p] \in folders

\* devin_restart of session p as s: in p's worktree if it is still there, in a
\* new one otherwise.
Restarts(p, s) ==
    /\ Begins(s)
    /\ status[p] = "settled" /\ client[p] = 0
    /\ \/ /\ budget.isolated => StillThere(p)
          /\ home' = [home EXCEPT ![s] = home[p]]
          /\ \E to \in {"ready", "queued"} : start' = [start EXCEPT ![s] = to]
          /\ UNCHANGED at
       \/ /\ ~ StillThere(p)
          /\ BeginsListing(s)
    /\ UNCHANGED <<sessionVars, askVars, diskVars, released, cleanups, budget>>

\* The steps of DevinPermissions that concern no worktree.
Turns(s) ==
    /\ \/ TurnEnds(s) \/ Exits(s) \/ Messages(s)
       \/ spawned[s] < budget.procs /\ CwdExists(s) /\ Reattaches(s)
    /\ UNCHANGED <<treeVars, budget>>

\* Asking sessions, and those that stall.
Attention(s) ==
    /\ budget.asks
    /\ \/ Asks(s) \/ AgentAnswers(s) \/ Stalls(s) \/ Resumes(s)
       \/ \E id \in 1..MaxAsks : TimerFires(s, id)
    /\ UNCHANGED <<treeVars, budget>>

-----------------------------------------------------------------------------
(* What Devin and its user do to the folder, the branch and the pull request *)

\* Work that a cleanup found unsaved is a commit now, or pushed, or gone.
HeldAfter(cs, i, f(_)) ==
    {[c EXCEPT !.held = IF c.folder = i THEN f(c.held) ELSE c.held] : c \in cs}

DevinIn(i) == i \in folders /\ \E s \in Sessions : home[s] = i /\ status[s] \in InTurn

Edits(i) ==
    /\ DevinIn(i)
    /\ unsaved' = [unsaved EXCEPT ![i] = @ \cup {"uncommitted"}]
    /\ UNCHANGED <<sessionVars, askVars, startVars, folders, branches, pr, released, cleanups, budget>>

Committed(w) == IF "uncommitted" \in w THEN {"unpushed"} ELSE w

Commits(i) ==
    /\ DevinIn(i) /\ "uncommitted" \in unsaved[i]
    /\ unsaved' = [unsaved EXCEPT ![i] = {"unpushed"}]
    /\ cleanups' = HeldAfter(cleanups, i, Committed)
    /\ UNCHANGED <<sessionVars, askVars, startVars, folders, branches, pr, released, budget>>

Pushed(w) == w \ {"unpushed"}

Gone(w) == {}

Pushes(i) ==
    /\ DevinIn(i) /\ "unpushed" \in unsaved[i]
    /\ unsaved' = [unsaved EXCEPT ![i] = @ \ {"unpushed"}]
    /\ pr' \in {pr, [pr EXCEPT ![i] = "open"]}
    /\ cleanups' = HeldAfter(cleanups, i, Pushed)
    /\ UNCHANGED <<sessionVars, askVars, startVars, folders, branches, released, budget>>

PrCloses(i) ==
    /\ pr[i] = "open"
    /\ pr' = [pr EXCEPT ![i] = "closed"]
    /\ UNCHANGED <<sessionVars, askVars, startVars, folders, branches, unsaved, released, cleanups, budget>>

-----------------------------------------------------------------------------
(* Cleanups: how they begin *)

\* A folder that is not there is safe to remove, without a further look.
NewCleanup(by, s, i, step) ==
    [by |-> by, session |-> s, folder |-> i,
     step |-> IF i \in folders THEN step ELSE "remove",
     held |-> IF i \in folders THEN unsaved[i] ELSE {},
     why |-> IF i \notin folders THEN "gone"
             ELSE IF step = "remove" THEN "unchecked" ELSE ""]

Room == Cardinality(cleanups) < budget.cleanups

HasWorktree(s) == home[s] # 0 /\ s \notin released

Settled(s) == HasWorktree(s) /\ status[s] = "settled"

Begin(by, s) ==
    /\ Room
    /\ cleanups' = cleanups \cup {NewCleanup(by, s, home[s], "status")}
    /\ UNCHANGED <<sessionVars, askVars, startVars, diskVars, released, budget>>

\* devin_clean_worktree looks at the session first.
Cleans(by, s) ==
    /\ by \in {"tool", "force"}
    /\ Settled(s)
    /\ Begin(by, s)

\* detectPullRequest and the stored number: session s is the closed request's.
Matches(s) == pr[home[s]] = "closed"

\* The hook observe-pr calls when a pull request is closed.
HookCleans(s) == Settled(s) /\ Matches(s) /\ Begin("hook", s)

\* devin_cancel cleans up behind the session in the background.
CancelsSession(s) ==
    /\ Cancels(s)
    /\ \/ /\ HasWorktree(s) /\ Room
          /\ cleanups' = cleanups \cup {NewCleanup("cancel", s, home[s], "status")}
       \/ ~ HasWorktree(s) /\ UNCHANGED cleanups
    /\ UNCHANGED <<startVars, diskVars, released, budget>>

\* A queued restart that is cancelled takes its worktree with it, unchecked.
CancelsQueued(s) ==
    /\ start[s] = "queued"
    /\ start' = [start EXCEPT ![s] = "over"]
    /\ \/ /\ home[s] # 0 /\ Room
          /\ cleanups' = cleanups \cup {NewCleanup("dequeue", s, home[s], "remove")}
       \/ home[s] = 0 /\ UNCHANGED cleanups
    /\ UNCHANGED <<sessionVars, askVars, at, home, diskVars, released, budget>>

\* orca_orchestration_release: any folder, whoever works in it.
Releases(by, i) ==
    /\ Room
    /\ by \in {"release", "prune"} /\ i \in folders
    /\ cleanups' = cleanups \cup {NewCleanup(by, 0, i, "status")}
    /\ UNCHANGED <<sessionVars, askVars, startVars, diskVars, released, budget>>

-----------------------------------------------------------------------------
(* Cleanups: checkWorktreeSafety *)

\* Step c goes on to a next step, or the folder is not safe to remove: then
\* only a forced call removes it.
GoesOn(c, step, why) ==
    cleanups' = (cleanups \ {c}) \cup {[c EXCEPT !.step = step, !.why = why]}

Unsafe(c) ==
    \/ c.by = "force" /\ GoesOn(c, "remove", "unchecked")
    \/ c.by # "force" /\ cleanups' = cleanups \ {c}

checkFrame == <<sessionVars, askVars, startVars, diskVars, released, budget>>

\* git status: what cannot be read is not clean.
Dirty(c, failed) == failed \/ "uncommitted" \in unsaved[c.folder]

ReadsStatus(c) ==
    /\ c.step = "status"
    /\ \E failed \in BOOLEAN :
         /\ c.folder \notin folders => failed
         /\ \/ Dirty(c, failed) /\ Unsafe(c)
            \/ ~ Dirty(c, failed) /\ GoesOn(c, "pr", "")
    /\ UNCHANGED checkFrame

\* Only those who hold the session are sure of the branch; the others ask orca,
\* which may not say, or git, and a detached HEAD has none: then neither the
\* request nor the commits are looked at.
BranchKnown(c) == c.by \notin {"hook", "release", "prune"}

\* gh's answer, or "error": not knowing is not "none".
ReadsPr(c) ==
    /\ c.step = "pr"
    /\ \/ ~ BranchKnown(c) /\ GoesOn(c, "remove", "no branch")
       \/ \E answer \in {pr[c.folder], "error"} :
            \/ answer \in {"open", "error"} /\ Unsafe(c)
            \/ answer = "closed" /\ GoesOn(c, "remove", "closed")
            \/ answer = "none" /\ GoesOn(c, "ahead", "")
    /\ UNCHANGED checkFrame

\* HEAD against its upstream, against origin's branch and against a base
\* branch: "absent" when git has no such revision.  The first there is decides.
Comparison(i) ==
    IF "unpushed" \in unsaved[i] THEN {"ahead", "error", "absent"}
                                 ELSE {"even", "ahead", "error", "absent"}

MutantNothingAhead(upstream, origin, base) ==
    "ahead" \notin {upstream, origin, base}
NothingAhead(upstream, origin, base) ==
    \/ upstream = "even"
    \/ upstream = "absent" /\ origin = "even"
    \/ upstream = "absent" /\ origin = "absent" /\ base = "even"

ReadsAhead(c) ==
    /\ c.step = "ahead"
    /\ \E upstream, origin, base \in Comparison(c.folder) :
         \/ NothingAhead(upstream, origin, base) /\ GoesOn(c, "remove", "even")
         \/ ~ NothingAhead(upstream, origin, base) /\ Unsafe(c)
    /\ UNCHANGED checkFrame

-----------------------------------------------------------------------------
(* Cleanups: removeOrcaWorktree *)

Forced(c) == c.by \notin {"cancel", "dequeue"}

\* orca removes folder and branch; if it fails git removes the folder and keeps
\* the branch, and if that fails nothing is gone.  Neither removes uncommitted
\* work unless forced.  An answer that is lost leaves the session "active".
Removes(c) ==
    /\ c.step = "remove"
    /\ \/ /\ c.folder \in folders
          /\ Forced(c) \/ "uncommitted" \notin unsaved[c.folder]
          /\ folders' = folders \ {c.folder}
          /\ branches' \in {branches, branches \ {c.folder}}
          /\ unsaved' = [unsaved EXCEPT ![c.folder] = {}]
          /\ cleanups' = HeldAfter(cleanups \ {c}, c.folder, Gone)
          /\ \/ UNCHANGED released
             \/ c.session # 0 /\ c.by # "dequeue" /\ released' = released \cup {c.session}
       \/ /\ cleanups' = cleanups \ {c}
          /\ UNCHANGED <<folders, branches, unsaved, released>>
    /\ UNCHANGED <<sessionVars, askVars, startVars, pr, budget>>

-----------------------------------------------------------------------------
Next ==
    \/ \E s \in Sessions :
         \/ Delegates(s) \/ Probes(s) \/ OrcaAnswers(s) \/ GitAnswers(s)
         \/ Registers(s) \/ StartFails(s)
         \/ Turns(s) \/ Attention(s)
         \/ HookCleans(s) \/ CancelsSession(s) \/ CancelsQueued(s)
         \/ \E p \in Sessions : Restarts(p, s)
         \/ \E by \in Remover : Cleans(by, s)
    \/ \E i \in Index :
         \/ Edits(i) \/ Commits(i) \/ Pushes(i) \/ PrCloses(i)
         \/ \E by \in Remover : Releases(by, i)
    \/ \E c \in cleanups : ReadsStatus(c) \/ ReadsPr(c) \/ ReadsAhead(c) \/ Removes(c)

Spec == Init /\ [][Next]_vars

\* The permission timers are armed and fire.
LiveSpec ==
    /\ Spec
    /\ \A s \in Sessions : \A id \in 1..MaxAsks :
         WF_vars(TimerFires(s, id) /\ UNCHANGED <<treeVars, budget>>)

-----------------------------------------------------------------------------
(* Properties *)

TypeOK ==
    /\ PermissionsTypeOK
    /\ start \in [Sessions -> Start]
    /\ at \in [Sessions -> 0..MaxIndex]
    /\ home \in [Sessions -> 0..MaxIndex]
    /\ released \subseteq Sessions
    /\ folders \subseteq Index
    /\ branches \subseteq Index
    /\ unsaved \in [Index -> SUBSET Work]
    /\ pr \in [Index -> {"none", "open", "closed"}]
    /\ cleanups \subseteq Cleanup

\* The worktree createWorktree hands to a start was made by this very call:
\* two starts that chose the same number, a guessed number, a failed call of
\* orca whatever it printed or a lost answer never give a start a folder that
\* is not its own.  An exit of 0 is believed unless orca refuses: a call that
\* made nothing and so ended is the only exception.
WorktreesAreFresh ==
    [][\A s \in Sessions : start[s] \in {"call", "git"} /\ home'[s] # 0 /\ start'[s] # "believed"
          => home'[s] \in folders' \ folders]_vars

\* c removes its folder in this step: other cleanups stay, with what they hold.
Removed(c) ==
    /\ c.folder \in folders \ folders'
    /\ \A d \in cleanups' : d # [c EXCEPT !.held = d.held]

\* Work that was finished before a cleanup was called and not saved since is
\* not removed by it: uncommitted work never, commits that are nowhere else only
\* when the branch's pull request is closed or the folder is on no branch; a
\* failed or impossible look is never read as "nothing there".  (Forced calls
\* and the cancellation of a queued restart do not look.)
FinishedWorkIsProtected ==
    [][\A c \in cleanups : Removed(c) /\ c.by \notin {"force", "dequeue"} =>
          /\ "uncommitted" \notin c.held
          /\ "unpushed" \in c.held =>
                c.why \in {"closed", "no branch"} \/ c.folder \in branches']_vars

=============================================================================
