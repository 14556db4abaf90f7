------------------------ MODULE DevinWorktreesProofs ------------------------
(***************************************************************************)
(* Proofs about DevinWorktrees and the permission requests of               *)
(* DevinPermissions, for any sessions, processes, requests and folders.     *)
(*                                                                          *)
(* AnswersFindTheAsker is inductive next to the types: a session gets a new *)
(* process only between two turns, and then its table is empty; and requests *)
(* of one process differ by their ids, so that an answer and its timer leave *)
(* together.  WorktreesAreFresh needs that a start has no folder before it  *)
(* is given one (HomesFit).  FinishedWorkIsProtected needs what a cleanup   *)
(* has established by each of its steps about the work it holds             *)
(* (CleanupsFit), though the folder changes between any two of them.        *)
(***************************************************************************)
EXTENDS DevinWorktrees, TLAPS

PermissionInv == PermissionsTypeOK /\ AnswersFindTheAsker

permissionVars == <<status, spawned, client, asked, waiting, pending, timers>>

\* The steps of DevinPermissions.
PermissionStep(s) ==
    \/ Asks(s) \/ AgentAnswers(s) \/ (\E id \in 1..MaxAsks : TimerFires(s, id))
    \/ TurnEnds(s) \/ Exits(s) \/ Cancels(s) \/ Stalls(s) \/ Resumes(s)
    \/ Starts(s) \/ Messages(s) \/ Reattaches(s)

-----------------------------------------------------------------------------
(* Asking and answering *)

LEMMA AsksKeeps ==
    ASSUME PermissionInv, NEW s \in Sessions, Asks(s)
    PROVE  PermissionInv'
<1> DEFINE r == [proc |-> client[s], id |-> asked[s] + 1]
<1> USE PermissionsAssumption
<1>1. /\ r \in Request /\ r.proc = client[s]
      /\ pending' = [pending EXCEPT ![s] = @ \cup {r}]
      /\ timers' = timers \cup {<<s, r.id>>}
  BY DEF Asks, AddToTable, PermissionInv, PermissionsTypeOK, Request, Proc
<1>2. PermissionsTypeOK'
  <2>1. asked' \in [Sessions -> 0..MaxAsks]
    BY DEF Asks, PermissionInv, PermissionsTypeOK
  <2>2. /\ pending' \in [Sessions -> SUBSET Request] /\ waiting' \in [Sessions -> SUBSET Request]
        /\ timers' \in SUBSET (Sessions \X (1..MaxAsks))
    BY <1>1 DEF Asks, PermissionInv, PermissionsTypeOK, Request
  <2> QED BY <2>1, <2>2 DEF Asks, PermissionInv, PermissionsTypeOK, Status, InTurn
<1>3. AnswersFindTheAsker'
  <2> SUFFICES ASSUME NEW q \in Sessions
               PROVE  /\ \A x \in pending'[q] : x.proc = client'[q] /\ status'[q] \in InTurn
                      /\ {<<q, x.id>> : x \in pending'[q]} = {t \in timers' : t[1] = q}
    BY DEF AnswersFindTheAsker
  <2>1. /\ \A x \in pending[q] : x.proc = client[q] /\ status[q] \in InTurn
        /\ {<<q, x.id>> : x \in pending[q]} = {t \in timers : t[1] = q}
    BY DEF PermissionInv, AnswersFindTheAsker
  <2>2. CASE q = s
    <3>1. pending'[q] = pending[q] \cup {r}
      BY <1>1, <2>2 DEF PermissionInv, PermissionsTypeOK
    <3>2. status'[q] = "running" /\ client'[q] = client[q]
      BY <2>2 DEF Asks, PermissionInv, PermissionsTypeOK
    <3> QED BY <1>1, <2>1, <2>2, <3>1, <3>2 DEF InTurn
  <2>3. CASE q # s
    <3>1. pending'[q] = pending[q] /\ status'[q] = status[q] /\ client'[q] = client[q]
      BY <1>1, <2>3 DEF Asks, PermissionInv, PermissionsTypeOK
    <3>2. {t \in timers' : t[1] = q} = {t \in timers : t[1] = q}
      BY <1>1, <2>3
    <3> QED BY <2>1, <3>1, <3>2
  <2> QED BY <2>2, <2>3
<1> QED BY <1>2, <1>3 DEF PermissionInv

\* An answer takes a request and its timer: no other request has its id.
LEMMA AnswersKeep ==
    ASSUME PermissionInv, NEW s \in Sessions, NEW found \in SUBSET pending[s],
           NEW ids \in SUBSET (1..MaxAsks),
           \A r \in pending[s] : r \in found <=> r.id \in ids,
           pending' = [pending EXCEPT ![s] = @ \ found],
           timers' = timers \ {<<s, id>> : id \in ids},
           waiting' \in [Sessions -> SUBSET Request],
           UNCHANGED <<asked, sessionVars>>
    PROVE  PermissionInv'
<1>1. PermissionsTypeOK'
  BY DEF PermissionInv, PermissionsTypeOK, sessionVars
<1>2. AnswersFindTheAsker'
  <2> SUFFICES ASSUME NEW q \in Sessions
               PROVE  /\ \A x \in pending'[q] : x.proc = client'[q] /\ status'[q] \in InTurn
                      /\ {<<q, x.id>> : x \in pending'[q]} = {t \in timers' : t[1] = q}
    BY DEF AnswersFindTheAsker
  <2>1. /\ \A x \in pending[q] : x.proc = client[q] /\ status[q] \in InTurn
        /\ {<<q, x.id>> : x \in pending[q]} = {t \in timers : t[1] = q}
        /\ status'[q] = status[q] /\ client'[q] = client[q]
    BY DEF PermissionInv, AnswersFindTheAsker, sessionVars
  <2>2. CASE q = s
    <3>1. pending'[q] = pending[q] \ found
      BY <2>2 DEF PermissionInv, PermissionsTypeOK
    <3>2. \A t \in timers : t[1] = q => \E x \in pending[q] : t = <<q, x.id>>
      BY <2>1
    <3>3. \A x \in pending'[q] : <<q, x.id>> \in timers'
      BY <2>1, <2>2, <3>1
    <3>4. \A t \in timers' : t[1] = q => \E x \in pending'[q] : t = <<q, x.id>>
      BY <2>2, <3>1, <3>2
    <3> QED BY <2>1, <3>1, <3>3, <3>4
  <2>3. CASE q # s
    <3>1. pending'[q] = pending[q]
      BY <2>3 DEF PermissionInv, PermissionsTypeOK
    <3>2. {t \in timers' : t[1] = q} = {t \in timers : t[1] = q}
      BY <2>3
    <3> QED BY <2>1, <3>1, <3>2
  <2> QED BY <2>2, <2>3
<1> QED BY <1>1, <1>2 DEF PermissionInv

LEMMA AgentKeeps ==
    ASSUME PermissionInv, NEW s \in Sessions, AgentAnswers(s)
    PROVE  PermissionInv'
<1>1. PICK r \in pending[s] : Answer(s, r)
  BY DEF AgentAnswers
<1> DEFINE found == {r}
           ids == {r.id}
<1>2. r \in Request /\ pending[s] \in SUBSET Request
  BY DEF PermissionInv, PermissionsTypeOK
<1>3. \A q \in pending[s] : q \in found <=> q.id \in ids
  <2> SUFFICES ASSUME NEW q \in pending[s], q.id = r.id PROVE q = r
    OBVIOUS
  <2>1. q.proc = r.proc
    BY DEF PermissionInv, AnswersFindTheAsker
  <2> QED BY <1>2, <2>1 DEF Request
<1>4. waiting' \in [Sessions -> SUBSET Request]
  BY <1>1 DEF Answer, PermissionInv, PermissionsTypeOK
<1>5. /\ pending' = [pending EXCEPT ![s] = @ \ found]
      /\ timers' = timers \ {<<s, id>> : id \in ids}
      /\ UNCHANGED <<asked, sessionVars>>
  BY <1>1 DEF Answer
<1>6. ids \in SUBSET (1..MaxAsks) /\ found \in SUBSET pending[s]
  BY <1>2 DEF Request
<1> HIDE DEF found, ids
<1> QED BY <1>3, <1>4, <1>5, <1>6, AnswersKeep

LEMMA TimerKeeps ==
    ASSUME PermissionInv, NEW s \in Sessions, NEW id \in 1..MaxAsks, TimerFires(s, id)
    PROVE  PermissionInv'
<1> DEFINE found == {r \in pending[s] : r.id = id}
<1>1. /\ pending' = [pending EXCEPT ![s] = @ \ found]
      /\ UNCHANGED <<asked, sessionVars>>
  BY DEF TimerFires
<1>2. waiting' \in [Sessions -> SUBSET Request]
  BY DEF TimerFires, PermissionInv, PermissionsTypeOK
<1>3. timers' = timers \ {<<s, i>> : i \in {id}}
  BY DEF TimerFires
<1>4. \A r \in pending[s] : r \in found <=> r.id \in {id}
  OBVIOUS
<1>5. found \in SUBSET pending[s] /\ {id} \in SUBSET (1..MaxAsks)
  OBVIOUS
<1> HIDE DEF found
<1> QED BY <1>1, <1>2, <1>3, <1>4, <1>5, AnswersKeep

-----------------------------------------------------------------------------
(* The end of a turn, and new turns *)

\* Whatever the session becomes, its table is empty.
LEMMA DropKeeps ==
    ASSUME PermissionInv, NEW s \in Sessions, DropsRequests(s),
           PermissionsTypeOK',
           \A q \in Sessions \ {s} : status'[q] = status[q] /\ client'[q] = client[q]
    PROVE  PermissionInv'
<1> SUFFICES ASSUME NEW q \in Sessions
             PROVE  /\ \A x \in pending'[q] : x.proc = client'[q] /\ status'[q] \in InTurn
                    /\ {<<q, x.id>> : x \in pending'[q]} = {t \in timers' : t[1] = q}
  BY DEF PermissionInv, AnswersFindTheAsker
<1>1. /\ \A x \in pending[q] : x.proc = client[q] /\ status[q] \in InTurn
      /\ {<<q, x.id>> : x \in pending[q]} = {t \in timers : t[1] = q}
  BY DEF PermissionInv, AnswersFindTheAsker
<1>2. CASE q = s
  <2>1. pending'[q] = {}
    BY <1>2 DEF DropsRequests, TableAfterTurn, PermissionInv, PermissionsTypeOK
  <2>2. timers' = timers \ {t \in timers : t[1] = s}
    BY <1>1, <1>2 DEF DropsRequests
  <2> QED BY <1>2, <2>1, <2>2
<1>3. CASE q # s
  <2>1. pending'[q] = pending[q] /\ status'[q] = status[q] /\ client'[q] = client[q]
    BY <1>3 DEF DropsRequests, TableAfterTurn, PermissionInv, PermissionsTypeOK
  <2>2. {t \in timers' : t[1] = q} = {t \in timers : t[1] = q}
    BY <1>3 DEF DropsRequests
  <2> QED BY <1>1, <2>1, <2>2
<1> QED BY <1>2, <1>3

LEMMA TurnsEndKeep ==
    ASSUME PermissionInv, NEW s \in Sessions, TurnEnds(s) \/ Exits(s) \/ Cancels(s)
    PROVE  PermissionInv'
<1>1. DropsRequests(s)
  BY DEF TurnEnds, Exits, Cancels
<1>2. pending' \in [Sessions -> SUBSET Request] /\ waiting' \in [Sessions -> SUBSET Request]
      /\ timers' \in SUBSET (Sessions \X (1..MaxAsks))
  BY <1>1 DEF DropsRequests, TableAfterTurn, PermissionInv, PermissionsTypeOK
<1>3. PermissionsTypeOK'
  BY <1>1, <1>2, PermissionsAssumption
     DEF DropsRequests, TurnEnds, Exits, Cancels, PermissionInv, PermissionsTypeOK, Status
<1>4. \A q \in Sessions \ {s} : status'[q] = status[q] /\ client'[q] = client[q]
  BY DEF TurnEnds, Exits, Cancels, PermissionInv, PermissionsTypeOK
<1> QED BY <1>1, <1>3, <1>4, DropKeeps

LEMMA TurnsBeginKeep ==
    ASSUME PermissionInv, NEW s \in Sessions,
           Stalls(s) \/ Resumes(s) \/ Starts(s) \/ Messages(s) \/ Reattaches(s)
    PROVE  PermissionInv'
<1> USE PermissionsAssumption DEF Attaches, Starts, Messages, Reattaches, Stalls, Resumes
<1>1. UNCHANGED <<waiting, pending, timers>>
  BY DEF askVars
<1>2. PermissionsTypeOK'
  BY <1>1 DEF PermissionInv, PermissionsTypeOK, Status, InTurn, askVars
<1>3. \A q \in Sessions : pending[q] # {} => client'[q] = client[q] /\ status'[q] \in InTurn
  BY DEF PermissionInv, PermissionsTypeOK, AnswersFindTheAsker, InTurn
<1> QED BY <1>1, <1>2, <1>3 DEF PermissionInv, AnswersFindTheAsker

-----------------------------------------------------------------------------
(* The whole system *)

LEMMA InitAsker == Init => PermissionInv
<1> SUFFICES ASSUME Init PROVE PermissionInv
  OBVIOUS
<1>1. PermissionsTypeOK
  BY PermissionsAssumption DEF Init, PermissionsInit, PermissionsTypeOK, Status
<1>2. AnswersFindTheAsker
  BY DEF Init, PermissionsInit, AnswersFindTheAsker
<1> QED BY <1>1, <1>2 DEF PermissionInv

\* Every step is one of DevinPermissions, or leaves its variables alone.
LEMMA StepsAsker ==
    ASSUME [Next]_vars
    PROVE  UNCHANGED permissionVars \/ \E s \in Sessions : PermissionStep(s)
<1> USE DEF permissionVars, sessionVars, askVars, PermissionStep
<1>1. ASSUME NEW s \in Sessions, Registers(s) \/ Turns(s) \/ Attention(s) \/ CancelsSession(s)
      PROVE  PermissionStep(s)
  BY <1>1 DEF Registers, Turns, Attention, CancelsSession
<1>2. ASSUME NEW s \in Sessions,
             \/ Delegates(s) \/ Probes(s) \/ OrcaAnswers(s) \/ GitAnswers(s)
             \/ StartFails(s) \/ HookCleans(s) \/ CancelsQueued(s)
             \/ (\E p \in Sessions : Restarts(p, s))
             \/ (\E by \in Remover : Cleans(by, s))
      PROVE  UNCHANGED permissionVars
  BY <1>2 DEF Delegates, Probes, OrcaAnswers, GitAnswers, StartFails, HookCleans, CancelsQueued,
     Restarts, Cleans, Begin
<1>3. ASSUME NEW i \in Index,
             \/ Edits(i) \/ Commits(i) \/ Pushes(i) \/ PrCloses(i)
             \/ (\E by \in Remover : Releases(by, i))
      PROVE  UNCHANGED permissionVars
  BY <1>3 DEF Edits, Commits, Pushes, PrCloses, Releases
<1>4. ASSUME NEW c \in cleanups, ReadsStatus(c) \/ ReadsPr(c) \/ ReadsAhead(c) \/ Removes(c)
      PROVE  UNCHANGED permissionVars
  BY <1>4 DEF ReadsStatus, ReadsPr, ReadsAhead, Removes, checkFrame
<1>5. ASSUME UNCHANGED vars PROVE UNCHANGED permissionVars
  BY <1>5 DEF vars
<1> QED BY <1>1, <1>2, <1>3, <1>4, <1>5 DEF Next

LEMMA NextAsker == PermissionInv /\ [Next]_vars => PermissionInv'
<1> SUFFICES ASSUME PermissionInv, [Next]_vars PROVE PermissionInv'
  OBVIOUS
<1>1. CASE UNCHANGED permissionVars
  BY <1>1 DEF permissionVars, PermissionInv, PermissionsTypeOK, AnswersFindTheAsker
<1>2. ASSUME NEW s \in Sessions, PermissionStep(s) PROVE PermissionInv'
  BY <1>2, AsksKeeps, AgentKeeps, TimerKeeps, TurnsEndKeep, TurnsBeginKeep DEF PermissionStep
<1> QED BY <1>1, <1>2, StepsAsker

\* An answer to a permission request, by the agent or by its timer, reaches the
\* process that asked, however processes are replaced and ids repeat.
THEOREM AnswersReachTheAsker == Spec => []AnswersFindTheAsker
<1>1. PermissionInv => AnswersFindTheAsker
  BY DEF PermissionInv
<1> QED BY InitAsker, NextAsker, <1>1, PTL DEF Spec

-----------------------------------------------------------------------------
(* The homes of the sessions *)

\* A start that has no worktree yet.
Preparing == {"none", "probe", "call", "git"}

HomesFit ==
    /\ start \in [Sessions -> Start]
    /\ at \in [Sessions -> 0..MaxIndex]
    /\ home \in [Sessions -> 0..MaxIndex]
    /\ \A s \in Sessions :
         /\ start[s] \in Preparing => home[s] = 0
         /\ start[s] \in {"probe", "call", "git"} => at[s] # 0

LEMMA IndexFacts == /\ \A i \in Index : i \in 0..MaxIndex /\ i # 0
                    /\ \A i \in 0..MaxIndex : i # 0 => i \in Index
                    /\ 0 \in 0..MaxIndex
BY WorktreesAssumption DEF Index

LEMMA NextHomes ==
    ASSUME HomesFit, [Next]_vars
    PROVE  HomesFit'
<1> USE DEF HomesFit
<1>1. ASSUME UNCHANGED startVars PROVE HomesFit'
  BY <1>1 DEF startVars
<1>2. ASSUME NEW s \in Sessions, BeginsListing(s), start[s] = "none" PROVE HomesFit'
  <2>1. PICK i \in Index : at' = [at EXCEPT ![s] = i]
    BY <1>2 DEF BeginsListing
  <2>. QED
    BY <1>2, <2>1, IndexFacts DEF BeginsListing, Preparing, Start
<1>3. ASSUME NEW s \in Sessions, Delegates(s) PROVE HomesFit'
  BY <1>2, <1>3, IndexFacts DEF Delegates, Begins, Preparing, Start
<1>4. ASSUME NEW s \in Sessions, Probes(s) PROVE HomesFit'
  <2>1. PICK i \in Index : at' = [at EXCEPT ![s] = i]
    BY <1>4 DEF Probes
  <2>. QED
    BY <1>4, <2>1, IndexFacts DEF Probes, Preparing, Start
<1>5. ASSUME NEW s \in Sessions, OrcaAnswers(s) PROVE HomesFit'
  <2>1. PICK made \in BOOLEAN : \E r \in OrcaReplies(made) :
          /\ \E to \in {"ready", "believed", "git"} :
               start' = [start EXCEPT ![s] = to] /\ (to = "git" <=> ~ Accepts(r))
          /\ home' = [home EXCEPT ![s] = IF Accepts(r) THEN at[s] ELSE 0]
          /\ at' = [at EXCEPT ![s] = IF Accepts(r) THEN 0 ELSE @]
    BY <1>5 DEF OrcaAnswers
  <2>2. PICK r \in OrcaReplies(made) :
          /\ \E to \in {"ready", "believed", "git"} :
               start' = [start EXCEPT ![s] = to] /\ (to = "git" <=> ~ Accepts(r))
          /\ home' = [home EXCEPT ![s] = IF Accepts(r) THEN at[s] ELSE 0]
          /\ at' = [at EXCEPT ![s] = IF Accepts(r) THEN 0 ELSE @]
    BY <2>1
  <2>3. PICK to \in {"ready", "believed", "git"} :
          start' = [start EXCEPT ![s] = to] /\ (to = "git" <=> ~ Accepts(r))
    BY <2>2
  <2>. QED
    BY <1>5, <2>2, <2>3, IndexFacts DEF OrcaAnswers, Preparing, Start
<1>6. ASSUME NEW s \in Sessions, GitAnswers(s) PROVE HomesFit'
  <2>1. PICK to \in {"ready", "over"}, n \in {0, at[s]} :
          start' = [start EXCEPT ![s] = to] /\ home' = [home EXCEPT ![s] = n]
    BY <1>6 DEF GitAnswers
  <2>2. at' = [at EXCEPT ![s] = 0]
    BY <1>6 DEF GitAnswers
  <2>. QED
    BY <2>1, <2>2, IndexFacts DEF Preparing, Start
<1>7. ASSUME NEW s \in Sessions, Registers(s) \/ StartFails(s) \/ CancelsQueued(s) PROVE HomesFit'
  <2>1. start' = [start EXCEPT ![s] = "over"] /\ UNCHANGED <<at, home>>
    BY <1>7 DEF Registers, StartFails, CancelsQueued
  <2>. QED
    BY <2>1 DEF Preparing, Start
<1>8. ASSUME NEW s \in Sessions, NEW p \in Sessions, Restarts(p, s) PROVE HomesFit'
  <2>1. CASE BeginsListing(s)
    BY <1>2, <1>8, <2>1 DEF Restarts, Begins
  <2>2. CASE /\ home' = [home EXCEPT ![s] = home[p]] /\ UNCHANGED at
             /\ \E to \in {"ready", "queued"} : start' = [start EXCEPT ![s] = to]
    BY <2>2 DEF Preparing, Start
  <2>. QED
    BY <1>8, <2>1, <2>2 DEF Restarts
<1>9. ASSUME NEW s \in Sessions,
             \/ Turns(s) \/ Attention(s) \/ HookCleans(s) \/ CancelsSession(s)
             \/ (\E by \in Remover : Cleans(by, s))
      PROVE  HomesFit'
  BY <1>1, <1>9 DEF Turns, Attention, HookCleans, CancelsSession, Cleans, Begin, treeVars
<1>10. ASSUME NEW i \in Index,
             \/ Edits(i) \/ Commits(i) \/ Pushes(i) \/ PrCloses(i)
             \/ (\E by \in Remover : Releases(by, i))
      PROVE  HomesFit'
  BY <1>1, <1>10 DEF Edits, Commits, Pushes, PrCloses, Releases
<1>11. ASSUME NEW c \in cleanups, ReadsStatus(c) \/ ReadsPr(c) \/ ReadsAhead(c) \/ Removes(c)
      PROVE  HomesFit'
  BY <1>1, <1>11 DEF ReadsStatus, ReadsPr, ReadsAhead, Removes, checkFrame
<1>12. ASSUME UNCHANGED vars PROVE HomesFit'
  BY <1>1, <1>12 DEF vars, treeVars
<1> HIDE DEF HomesFit
<1> QED
  BY <1>3, <1>4, <1>5, <1>6, <1>7, <1>8, <1>9, <1>10, <1>11, <1>12 DEF Next

LEMMA InitHomes == Init => HomesFit
BY IndexFacts DEF Init, HomesFit, Start

\* A session with a worktree, which is in its folder.
LEMMA HomeIsIndex ==
    ASSUME HomesFit, NEW s \in Sessions, home[s] # 0
    PROVE  home[s] \in Index
BY IndexFacts DEF HomesFit

-----------------------------------------------------------------------------
(* What a start gets *)

FreshStep ==
    \A s \in Sessions : start[s] \in {"call", "git"} /\ home'[s] # 0 /\ start'[s] # "believed"
       => home'[s] \in folders' \ folders

LEMMA OrcaIsFresh ==
    ASSUME HomesFit, NEW s \in Sessions, OrcaAnswers(s)
    PROVE  FreshStep
<1>1. PICK made \in BOOLEAN : \E r \in OrcaReplies(made) :
        /\ Makes(at[s], made)
        /\ home' = [home EXCEPT ![s] = IF Accepts(r) THEN at[s] ELSE 0]
        /\ start' = [start EXCEPT ![s] = IF ~ Accepts(r) THEN "git"
                                         ELSE IF r.exit /\ ~ made THEN "believed" ELSE "ready"]
  BY DEF OrcaAnswers
<1>2. PICK r \in OrcaReplies(made) :
        /\ Makes(at[s], made)
        /\ home' = [home EXCEPT ![s] = IF Accepts(r) THEN at[s] ELSE 0]
        /\ start' = [start EXCEPT ![s] = IF ~ Accepts(r) THEN "git"
                                         ELSE IF r.exit /\ ~ made THEN "believed" ELSE "ready"]
  BY <1>1
<1>3. Accepts(r) => made \/ start'[s] = "believed"
  <2>1. Accepts(r) /\ ~ made => r.exit
    BY DEF OrcaReplies, Accepts
  <2>. QED
    BY <1>2, <2>1 DEF HomesFit
<1>4. made => at[s] \in folders' \ folders
  BY <1>2 DEF Makes, Free
<1> QED
  BY <1>2, <1>3, <1>4 DEF HomesFit, FreshStep, Preparing

LEMMA GitIsFresh ==
    ASSUME HomesFit, NEW s \in Sessions, GitAnswers(s)
    PROVE  FreshStep
<1>1. PICK made \in BOOLEAN, answered \in BOOLEAN :
        /\ Makes(at[s], made)
        /\ home' = [home EXCEPT ![s] = IF made /\ answered THEN at[s] ELSE 0]
  BY DEF GitAnswers
<1>2. made => at[s] \in folders' \ folders
  BY <1>1 DEF Makes, Free
<1> QED
  BY <1>1, <1>2 DEF HomesFit, FreshStep, Preparing

\* Only an answer of orca or git gives a worktree to a start that waits for one.
LEMMA OthersGiveNone ==
    ASSUME HomesFit, [Next]_vars,
           \A s \in Sessions : ~ OrcaAnswers(s) /\ ~ GitAnswers(s)
    PROVE  FreshStep
<1>1. ASSUME UNCHANGED home PROVE FreshStep
  BY <1>1 DEF HomesFit, FreshStep, Preparing
<1>2. ASSUME NEW s \in Sessions, NEW p \in Sessions, Restarts(p, s) PROVE FreshStep
  BY <1>2 DEF Restarts, Begins, BeginsListing, HomesFit, FreshStep, Preparing
<1>3. ASSUME NEW s \in Sessions,
             \/ Delegates(s) \/ Probes(s) \/ Registers(s) \/ StartFails(s)
             \/ Turns(s) \/ Attention(s) \/ HookCleans(s) \/ CancelsSession(s)
             \/ CancelsQueued(s) \/ (\E by \in Remover : Cleans(by, s))
      PROVE  FreshStep
  BY <1>1, <1>3 DEF Delegates, BeginsListing, Probes, Registers, StartFails, Turns, Attention,
     HookCleans, CancelsSession, CancelsQueued, Cleans, Begin, treeVars, startVars
<1>4. ASSUME NEW i \in Index,
             \/ Edits(i) \/ Commits(i) \/ Pushes(i) \/ PrCloses(i)
             \/ (\E by \in Remover : Releases(by, i))
      PROVE  FreshStep
  BY <1>1, <1>4 DEF Edits, Commits, Pushes, PrCloses, Releases, startVars
<1>5. ASSUME NEW c \in cleanups, ReadsStatus(c) \/ ReadsPr(c) \/ ReadsAhead(c) \/ Removes(c)
      PROVE  FreshStep
  BY <1>1, <1>5 DEF ReadsStatus, ReadsPr, ReadsAhead, Removes, checkFrame, startVars
<1>6. ASSUME UNCHANGED vars PROVE FreshStep
  BY <1>1, <1>6 DEF vars, treeVars, startVars
<1> QED
  BY <1>2, <1>3, <1>4, <1>5, <1>6 DEF Next

\* A start gets the worktree its own call made, or none: two starts that chose
\* one number, a guess, a failed call of orca whatever it printed or a lost
\* answer never give it a folder that is not its own.  Only an exit of 0 that
\* does not refuse is believed without a worktree.
THEOREM StartsGetFreshWorktrees == Spec => WorktreesAreFresh
<1>1. ASSUME HomesFit, [Next]_vars
      PROVE  [\A s \in Sessions : start[s] \in {"call", "git"} /\ home'[s] # 0 /\ start'[s] # "believed"
                 => home'[s] \in folders' \ folders]_vars
  <2>1. FreshStep
    BY <1>1, OrcaIsFresh, GitIsFresh, OthersGiveNone
  <2>. QED
    BY <2>1 DEF FreshStep
<1>2. HomesFit /\ [Next]_vars => HomesFit'
  BY NextHomes
<1> QED
  BY InitHomes, <1>1, <1>2, PTL DEF Spec, WorktreesAreFresh

-----------------------------------------------------------------------------
(* What cleanups hold *)

\* The cleanups that look before they remove.
Looks(c) == c.by \notin {"force", "dequeue"}

\* What cleanup c holds is unsaved in its folder; once past git status it holds
\* no uncommitted work, and about to remove no unpushed work either, unless the
\* request was closed or the folder is on no branch.
CleanupFits(c, work) ==
    /\ c \in Cleanup
    /\ c.held \subseteq work[c.folder]
    /\ Looks(c) /\ c.step # "status" => "uncommitted" \notin c.held
    /\ Looks(c) /\ c.step = "remove" =>
         c.why \in {"closed", "no branch"} \/ "unpushed" \notin c.held

CleanupsFit ==
    /\ folders \subseteq Index
    /\ unsaved \in [Index -> SUBSET Work]
    /\ \A c \in cleanups : CleanupFits(c, unsaved)

\* A cleanup that begins.
LEMMA NewFits ==
    ASSUME CleanupsFit, NEW by \in Remover, NEW s \in Sessions \cup {0}, NEW i \in Index,
           NEW step \in {"status", "remove"}, step = "remove" => by = "dequeue"
    PROVE  CleanupFits(NewCleanup(by, s, i, step), unsaved)
<1> DEFINE c == NewCleanup(by, s, i, step)
<1>1. /\ c.by = by /\ c.folder = i
      /\ c.step = IF i \in folders THEN step ELSE "remove"
      /\ c.held = IF i \in folders THEN unsaved[i] ELSE {}
  BY DEF NewCleanup
<1>2. c \in Cleanup
  BY DEF NewCleanup, Cleanup, CleanupsFit
<1> HIDE DEF c
<1>3. CleanupFits(c, unsaved)
  BY <1>1, <1>2 DEF CleanupsFit, CleanupFits, Looks
<1> QED
  BY <1>3 DEF c

\* A cleanup that goes on to its next look.
LEMMA LookFits ==
    ASSUME CleanupsFit, NEW c \in cleanups, NEW step \in {"pr", "ahead", "remove"},
           NEW why \in {"gone", "closed", "no branch", "even", "unchecked", ""},
           Looks(c) => "uncommitted" \notin c.held,
           Looks(c) /\ step = "remove" => why \in {"closed", "no branch"} \/ "unpushed" \notin c.held,
           GoesOn(c, step, why), UNCHANGED <<folders, unsaved>>
    PROVE  CleanupsFit'
<1> DEFINE d == [c EXCEPT !.step = step, !.why = why]
<1>1. /\ d \in Cleanup /\ d.by = c.by /\ d.folder = c.folder /\ d.held = c.held
      /\ d.step = step /\ d.why = why
  BY DEF CleanupsFit, CleanupFits, Cleanup
<1>2. cleanups' = (cleanups \ {c}) \cup {d}
  BY DEF GoesOn
<1> HIDE DEF d
<1>3. CleanupFits(c, unsaved)
  BY DEF CleanupsFit
<1>4. CleanupFits(d, unsaved)
  BY <1>1, <1>3 DEF CleanupFits, Looks
<1> QED
  BY <1>2, <1>4 DEF CleanupsFit

\* Cleanups that lose what they held, when it is saved or gone.
LEMMA HeldFits ==
    ASSUME CleanupsFit, NEW i \in Index, NEW w \in SUBSET Work, NEW c \in cleanups,
           NEW h, c.folder = i, h \subseteq w,
           h \subseteq c.held \/ ("uncommitted" \in c.held /\ "uncommitted" \notin h)
    PROVE  CleanupFits([c EXCEPT !.held = h], [unsaved EXCEPT ![i] = w])
<1> DEFINE d == [c EXCEPT !.held = h]
<1>1. CleanupFits(c, unsaved)
  BY DEF CleanupsFit
<1>2. /\ d.by = c.by /\ d.folder = c.folder /\ d.held = h /\ d.step = c.step /\ d.why = c.why
      /\ d \in Cleanup
  BY <1>1 DEF CleanupFits, Cleanup
<1>3. [unsaved EXCEPT ![i] = w][i] = w
  BY DEF CleanupsFit
<1> HIDE DEF d
<1>4. CleanupFits(d, [unsaved EXCEPT ![i] = w])
  BY <1>1, <1>2, <1>3 DEF CleanupFits, Looks, Cleanup
<1> QED
  BY <1>4 DEF d

\* What becomes of the work in a folder concerns only its cleanups.
LEMMA ElsewhereFits ==
    ASSUME CleanupsFit, NEW i \in Index, NEW w, NEW c \in cleanups, c.folder # i
    PROVE  CleanupFits(c, [unsaved EXCEPT ![i] = w]) /\ [c EXCEPT !.held = c.held] = c
<1>1. CleanupFits(c, unsaved)
  BY DEF CleanupsFit
<1>2. [unsaved EXCEPT ![i] = w][c.folder] = unsaved[c.folder]
  BY <1>1 DEF CleanupsFit, CleanupFits, Cleanup
<1>3. [c EXCEPT !.held = c.held] = c
  BY <1>1 DEF CleanupFits, Cleanup
<1> QED
  BY <1>1, <1>2, <1>3 DEF CleanupFits

\* The steps that keep the disk and start cleanups or none.
LEMMA MoreFits ==
    ASSUME CleanupsFit, NEW c, CleanupFits(c, unsaved),
           cleanups' \subseteq cleanups \cup {c}, UNCHANGED <<folders, unsaved>>
    PROVE  CleanupsFit'
BY DEF CleanupsFit

LEMMA SameFits ==
    ASSUME CleanupsFit, folders' \subseteq Index, UNCHANGED unsaved,
           cleanups' \subseteq cleanups
    PROVE  CleanupsFit'
BY DEF CleanupsFit

\* The cleanups cs when each of folder i holds what f says.
HoldingNow(cs, i, f) ==
    {[c EXCEPT !.held = IF c.folder = i THEN f[c] ELSE c.held] : c \in cs}

\* Cleanups go from holding unsaved work to holding h, when only w is unsaved.
Sheds(c, h, w) ==
    /\ h \subseteq w
    /\ h \subseteq c.held \/ ("uncommitted" \in c.held /\ "uncommitted" \notin h)

\* A step that saves or loses work in folder i, where w stays unsaved.
SavesIn(i, w, cs, f) ==
    /\ w \in SUBSET Work /\ cs \in SUBSET cleanups
    /\ \A c \in cs : c.folder = i => Sheds(c, f[c], w)
    /\ unsaved' = [unsaved EXCEPT ![i] = w]
    /\ folders' \subseteq Index
    /\ cleanups' = HoldingNow(cs, i, f)

LEMMA SavesFits ==
    ASSUME CleanupsFit, NEW i \in Index, NEW w, NEW cs, NEW f, SavesIn(i, w, cs, f)
    PROVE  CleanupsFit'
<1>1. ASSUME NEW c \in cs
      PROVE  CleanupFits([c EXCEPT !.held = IF c.folder = i THEN f[c] ELSE c.held], unsaved')
  <2>1. CASE c.folder = i
    <3>1. CleanupFits([c EXCEPT !.held = f[c]], [unsaved EXCEPT ![i] = w])
      BY <2>1, HeldFits DEF SavesIn, Sheds
    <3> QED
      BY <2>1, <3>1 DEF SavesIn
  <2>2. CASE c.folder # i
    BY <2>2, ElsewhereFits DEF SavesIn
  <2> QED
    BY <2>1, <2>2 DEF SavesIn
<1>2. unsaved' \in [Index -> SUBSET Work]
  BY DEF CleanupsFit, SavesIn
<1> QED
  BY <1>1, <1>2 DEF CleanupsFit, HoldingNow, SavesIn


\* The steps of starts and turns.
LEMMA StartsCleanups ==
    ASSUME HomesFit, CleanupsFit, NEW s \in Sessions,
           \/ Delegates(s) \/ Probes(s) \/ OrcaAnswers(s) \/ GitAnswers(s)
           \/ Registers(s) \/ StartFails(s) \/ Turns(s) \/ Attention(s)
           \/ (\E p \in Sessions : Restarts(p, s))
    PROVE  CleanupsFit'
<1>1. CASE OrcaAnswers(s) \/ GitAnswers(s)
  <2>1. UNCHANGED cleanups /\ at[s] # 0
    BY <1>1 DEF OrcaAnswers, GitAnswers, HomesFit
  <2>2. PICK made \in BOOLEAN : Makes(at[s], made)
    BY <1>1 DEF OrcaAnswers, GitAnswers
  <2>3. UNCHANGED unsaved /\ folders' \subseteq folders \cup {at[s]}
    BY <2>2 DEF Makes
  <2>4. folders' \subseteq Index
    BY <2>1, <2>3, IndexFacts DEF HomesFit, CleanupsFit
  <2> QED
    BY <2>1, <2>3, <2>4, SameFits
<1>2. CASE ~ OrcaAnswers(s) /\ ~ GitAnswers(s)
  <2>1. UNCHANGED <<folders, unsaved, cleanups>>
    BY <1>2 DEF Delegates, Probes, Registers, StartFails, Turns, Attention, Restarts, treeVars, diskVars
  <2> QED
    BY <2>1, SameFits DEF CleanupsFit
<1> QED
  BY <1>1, <1>2

\* The steps that begin a cleanup.
LEMMA BeginningsCleanups ==
    ASSUME HomesFit, CleanupsFit, NEW s \in Sessions,
           \/ HookCleans(s) \/ CancelsSession(s) \/ CancelsQueued(s)
           \/ (\E by \in Remover : Cleans(by, s))
    PROVE  CleanupsFit'
<1>1. UNCHANGED <<folders, unsaved>>
  BY DEF HookCleans, CancelsSession, CancelsQueued, Cleans, Begin, diskVars
<1>2. ASSUME NEW by \in Remover, NEW step \in {"status", "remove"}, step = "remove" => by = "dequeue",
             home[s] # 0, cleanups' = cleanups \cup {NewCleanup(by, s, home[s], step)}
      PROVE  CleanupsFit'
  <2>1. home[s] \in Index
    BY <1>2, HomeIsIndex
  <2> DEFINE c == NewCleanup(by, s, home[s], step)
  <2>2. CleanupFits(c, unsaved)
    BY <1>2, <2>1, NewFits
  <2> HIDE DEF c
  <2>3. cleanups' \subseteq cleanups \cup {c}
    BY <1>2 DEF c
  <2> QED
    BY <1>1, <2>2, <2>3, MoreFits
<1>3. ASSUME UNCHANGED cleanups PROVE CleanupsFit'
  BY <1>1, <1>3, SameFits DEF CleanupsFit
<1>4. CASE HookCleans(s)
  BY <1>2, <1>4 DEF HookCleans, Begin, Settled, HasWorktree, Remover
<1>5. CASE CancelsSession(s)
  BY <1>2, <1>3, <1>5 DEF CancelsSession, HasWorktree, Remover
<1>6. CASE CancelsQueued(s)
  BY <1>2, <1>3, <1>6 DEF CancelsQueued, Remover
<1>7. ASSUME NEW by \in Remover, Cleans(by, s) PROVE CleanupsFit'
  BY <1>2, <1>7 DEF Cleans, Begin, Settled, HasWorktree
<1> QED
  BY <1>4, <1>5, <1>6, <1>7

\* The steps of Devin and its user in one folder.
LEMMA FolderCleanups ==
    ASSUME HomesFit, CleanupsFit, NEW i \in Index,
           \/ Edits(i) \/ Commits(i) \/ Pushes(i) \/ PrCloses(i)
           \/ (\E by \in Remover : Releases(by, i))
    PROVE  CleanupsFit'
<1>0. unsaved[i] \in SUBSET Work /\ unsaved \in [Index -> SUBSET Work] /\ folders \subseteq Index
      /\ \A c \in cleanups : c.held \subseteq unsaved[c.folder] /\ c.held \subseteq Work
  BY DEF CleanupsFit, CleanupFits, Cleanup
<1>1. CASE Edits(i)
  <2>1. unsaved' = [unsaved EXCEPT ![i] = unsaved[i] \cup {"uncommitted"}]
        /\ UNCHANGED <<cleanups, folders>>
    BY <1>1 DEF Edits
  <2>2. \A c \in cleanups : unsaved[c.folder] \subseteq unsaved'[c.folder]
    BY <1>0, <2>1 DEF CleanupsFit, CleanupFits, Cleanup
  <2>3. unsaved' \in [Index -> SUBSET Work]
    BY <1>0, <2>1 DEF Work
  <2> QED
    BY <1>0, <2>1, <2>2, <2>3 DEF CleanupsFit, CleanupFits
<1>2. CASE Commits(i)
  <2> DEFINE g == [c \in cleanups |-> Committed(c.held)]
  <2>1. /\ unsaved' = [unsaved EXCEPT ![i] = {"unpushed"}] /\ UNCHANGED folders
        /\ cleanups' = {[c EXCEPT !.held = IF c.folder = i THEN Committed(c.held) ELSE c.held] : c \in cleanups}
    BY <1>2 DEF Commits, HeldAfter
  <2>2. cleanups' = HoldingNow(cleanups, i, g)
    BY <2>1 DEF HoldingNow
  <2>3. \A c \in cleanups :
          /\ g[c] \subseteq {"unpushed"}
          /\ g[c] \subseteq c.held \/ ("uncommitted" \in c.held /\ "uncommitted" \notin g[c])
    BY <1>0 DEF Committed, Work
  <2>4. {"unpushed"} \in SUBSET Work
    BY DEF Work
  <2> HIDE DEF g
  <2>5. SavesIn(i, {"unpushed"}, cleanups, g)
    BY <1>0, <2>1, <2>2, <2>3, <2>4 DEF SavesIn, Sheds
  <2> QED
    BY <2>5, SavesFits
<1>3. CASE Pushes(i)
  <2> DEFINE g == [c \in cleanups |-> c.held \ {"unpushed"}]
             w == unsaved[i] \ {"unpushed"}
  <2>1. /\ unsaved' = [unsaved EXCEPT ![i] = unsaved[i] \ {"unpushed"}] /\ UNCHANGED folders
        /\ cleanups' = {[c EXCEPT !.held = IF c.folder = i THEN Pushed(c.held) ELSE c.held] : c \in cleanups}
    BY <1>3 DEF Pushes, HeldAfter
  <2>2. cleanups' = HoldingNow(cleanups, i, g)
    BY <2>1 DEF Pushed, HoldingNow
  <2>3. \A c \in cleanups : c.folder = i => g[c] \subseteq w /\ g[c] \subseteq c.held
    BY <1>0
  <2>4. w \in SUBSET Work /\ unsaved' = [unsaved EXCEPT ![i] = w]
    BY <1>0, <2>1
  <2> HIDE DEF g, w
  <2>5. SavesIn(i, w, cleanups, g)
    BY <1>0, <2>1, <2>2, <2>3, <2>4 DEF SavesIn, Sheds
  <2> QED
    BY <2>5, SavesFits
<1>4. CASE PrCloses(i)
  <2>1. UNCHANGED <<folders, unsaved, cleanups>>
    BY <1>4 DEF PrCloses
  <2> QED
    BY <1>0, <2>1, SameFits
<1>5. ASSUME NEW by \in Remover, Releases(by, i) PROVE CleanupsFit'
  <2> DEFINE c == NewCleanup(by, 0, i, "status")
  <2>1. CleanupFits(c, unsaved)
    BY NewFits
  <2> HIDE DEF c
  <2>2. UNCHANGED <<folders, unsaved>> /\ cleanups' \subseteq cleanups \cup {c}
    BY <1>5 DEF Releases, diskVars, c
  <2> QED
    BY <2>1, <2>2, MoreFits
<1> QED
  BY <1>1, <1>2, <1>3, <1>4, <1>5

\* The looks of cleanup c, and its removal.
LEMMA LooksCleanups ==
    ASSUME HomesFit, CleanupsFit, NEW c \in cleanups,
           ReadsStatus(c) \/ ReadsPr(c) \/ ReadsAhead(c) \/ Removes(c)
    PROVE  CleanupsFit'
<1>0. /\ CleanupFits(c, unsaved) /\ c.folder \in Index /\ folders \subseteq Index
      /\ c.held \subseteq unsaved[c.folder]
  BY DEF CleanupsFit, CleanupFits, Cleanup
<1>1. ASSUME Unsafe(c), UNCHANGED <<folders, unsaved>> PROVE CleanupsFit'
  <2>1. CASE c.by = "force"
    BY <1>1, <2>1, LookFits DEF Unsafe, Looks
  <2>2. CASE c.by # "force"
    BY <1>0, <1>1, <2>2, SameFits DEF Unsafe
  <2> QED
    BY <2>1, <2>2
<1>2. CASE ReadsStatus(c)
  <2>1. UNCHANGED <<folders, unsaved>>
    BY <1>2 DEF ReadsStatus, checkFrame, diskVars
  <2>2. Unsafe(c) \/ ("uncommitted" \notin unsaved[c.folder] /\ GoesOn(c, "pr", ""))
    BY <1>2 DEF ReadsStatus, Dirty
  <2> QED
    BY <1>0, <1>1, <2>1, <2>2, LookFits
<1>3. CASE ReadsPr(c)
  <2>1. UNCHANGED <<folders, unsaved>> /\ c.step = "pr"
    BY <1>3 DEF ReadsPr, checkFrame, diskVars
  <2>2. Looks(c) => "uncommitted" \notin c.held
    BY <1>0, <2>1 DEF CleanupFits
  <2>3. Unsafe(c) \/ GoesOn(c, "remove", "no branch") \/ GoesOn(c, "remove", "closed") \/ GoesOn(c, "ahead", "")
    BY <1>3 DEF ReadsPr
  <2> QED
    BY <1>1, <2>1, <2>2, <2>3, LookFits
<1>4. CASE ReadsAhead(c)
  <2>1. UNCHANGED <<folders, unsaved>> /\ c.step = "ahead"
    BY <1>4 DEF ReadsAhead, checkFrame, diskVars
  <2>2. Looks(c) => "uncommitted" \notin c.held
    BY <1>0, <2>1 DEF CleanupFits
  <2>3. Unsafe(c) \/ ("unpushed" \notin unsaved[c.folder] /\ GoesOn(c, "remove", "even"))
    <3>1. "unpushed" \in unsaved[c.folder] =>
            \A upstream, origin, base \in Comparison(c.folder) : ~ NothingAhead(upstream, origin, base)
      BY DEF Comparison, NothingAhead
    <3> QED
      BY <1>4, <3>1 DEF ReadsAhead
  <2> QED
    BY <1>0, <1>1, <2>1, <2>2, <2>3, LookFits
<1>5. CASE Removes(c)
  <2>1. CASE /\ folders' = folders \ {c.folder}
             /\ unsaved' = [unsaved EXCEPT ![c.folder] = {}]
             /\ cleanups' = HeldAfter(cleanups \ {c}, c.folder, Gone)
    <3> DEFINE cs == cleanups \ {c}
               g == [d \in cs |-> {}]
    <3>1. cleanups' = {[d EXCEPT !.held = IF d.folder = c.folder THEN Gone(d.held) ELSE d.held] : d \in cs}
      BY <2>1 DEF HeldAfter
    <3>2. cleanups' = HoldingNow(cs, c.folder, g)
      BY <3>1 DEF Gone, HoldingNow
    <3>3. /\ cs \in SUBSET cleanups /\ \A d \in cs : g[d] \subseteq {} /\ g[d] \subseteq d.held
          /\ {} \in SUBSET Work /\ folders' \subseteq Index
      BY <1>0, <2>1
    <3> HIDE DEF cs, g
    <3>4. SavesIn(c.folder, {}, cs, g)
      BY <2>1, <3>2, <3>3 DEF SavesIn, Sheds
    <3> QED
      BY <1>0, <3>4, SavesFits
  <2>2. CASE cleanups' = cleanups \ {c} /\ UNCHANGED <<folders, unsaved>>
    BY <1>0, <2>2, SameFits
  <2> QED
    BY <1>5, <2>1, <2>2 DEF Removes
<1> QED
  BY <1>2, <1>3, <1>4, <1>5

LEMMA NextCleanups ==
    ASSUME HomesFit, CleanupsFit, [Next]_vars
    PROVE  CleanupsFit'
<1>1. CASE UNCHANGED vars
  BY <1>1, SameFits DEF vars, treeVars, diskVars, CleanupsFit
<1>2. CASE Next
  BY <1>2, StartsCleanups, BeginningsCleanups, FolderCleanups, LooksCleanups DEF Next
<1> QED
  BY <1>1, <1>2

LEMMA InitCleanups == Init => CleanupsFit
BY DEF Init, CleanupsFit

-----------------------------------------------------------------------------
(* What a removal may take *)

\* Only the removal of c removes its folder.
LEMMA RemovedByItself ==
    ASSUME CleanupsFit, [Next]_vars, NEW c \in cleanups, Removed(c)
    PROVE  Removes(c)
<1>1. c.folder \in folders \ folders'
  BY DEF Removed
<1>2. PICK d \in cleanups : Removes(d)
  <2>1. ASSUME UNCHANGED folders \/ folders \subseteq folders' PROVE FALSE
    BY <1>1, <2>1
  <2>2. ASSUME UNCHANGED vars PROVE FALSE
    BY <2>1, <2>2 DEF vars, treeVars, diskVars
  <2>3. ASSUME NEW s \in Sessions,
               \/ Delegates(s) \/ Probes(s) \/ OrcaAnswers(s) \/ GitAnswers(s)
               \/ Registers(s) \/ StartFails(s) \/ Turns(s) \/ Attention(s)
               \/ HookCleans(s) \/ CancelsSession(s) \/ CancelsQueued(s)
               \/ (\E p \in Sessions : Restarts(p, s))
               \/ (\E by \in Remover : Cleans(by, s))
        PROVE  FALSE
    BY <2>1, <2>3 DEF Delegates, Probes, OrcaAnswers, GitAnswers, Makes, Registers, StartFails,
       Turns, Attention, HookCleans, CancelsSession, CancelsQueued, Restarts, Cleans, Begin,
       treeVars, diskVars
  <2>4. ASSUME NEW i \in Index,
               \/ Edits(i) \/ Commits(i) \/ Pushes(i) \/ PrCloses(i)
               \/ (\E by \in Remover : Releases(by, i))
        PROVE  FALSE
    BY <2>1, <2>4 DEF Edits, Commits, Pushes, PrCloses, Releases, diskVars
  <2>5. ASSUME NEW d \in cleanups, ReadsStatus(d) \/ ReadsPr(d) \/ ReadsAhead(d) PROVE FALSE
    BY <2>1, <2>5 DEF ReadsStatus, ReadsPr, ReadsAhead, checkFrame, diskVars
  <2> QED
    BY <2>2, <2>3, <2>4, <2>5 DEF Next
<1>3. /\ folders' = folders \ {d.folder}
      /\ cleanups' = HeldAfter(cleanups \ {d}, d.folder, Gone)
  BY <1>1, <1>2 DEF Removes
<1>4. CASE c = d
  BY <1>2, <1>4
<1>5. CASE c # d
  <2>1. c.folder = d.folder /\ c \in cleanups \ {d}
    BY <1>1, <1>3, <1>5
  <2>2. [c EXCEPT !.held = {}] \in cleanups'
    BY <1>3, <2>1 DEF HeldAfter, Gone
  <2>3. c \in Cleanup
    BY DEF CleanupsFit, CleanupFits
  <2>4. [c EXCEPT !.held = {}] = [c EXCEPT !.held = [c EXCEPT !.held = {}].held]
    BY <2>3 DEF Cleanup
  <2> QED
    BY <2>2, <2>4 DEF Removed
<1> QED
  BY <1>4, <1>5

\* Work that was finished before a cleanup was called, and not saved since, is
\* not removed by a cleanup that looks first: whatever Devin, other starts and
\* other cleanups do between two of its looks, and whichever of its commands fail.
THEOREM CleanupsSpareFinishedWork == Spec => FinishedWorkIsProtected
<1>1. ASSUME HomesFit, CleanupsFit, [Next]_vars
      PROVE  [\A c \in cleanups : Removed(c) /\ c.by \notin {"force", "dequeue"} =>
                /\ "uncommitted" \notin c.held
                /\ "unpushed" \in c.held =>
                     c.why \in {"closed", "no branch"} \/ c.folder \in branches']_vars
  <2>1. ASSUME NEW c \in cleanups, Removed(c), c.by \notin {"force", "dequeue"}
        PROVE  /\ "uncommitted" \notin c.held
               /\ "unpushed" \in c.held => c.why \in {"closed", "no branch"}
    <3>1. c.step = "remove" /\ Looks(c)
      BY <1>1, <2>1, RemovedByItself DEF Removes, Looks
    <3> QED
      BY <1>1, <3>1 DEF CleanupsFit, CleanupFits
  <2> QED
    BY <2>1
<1>2. HomesFit /\ [Next]_vars => HomesFit'
  BY NextHomes
<1>3. HomesFit /\ CleanupsFit /\ [Next]_vars => CleanupsFit'
  BY NextCleanups
<1> QED
  BY InitHomes, InitCleanups, <1>1, <1>2, <1>3, PTL DEF Spec, FinishedWorkIsProtected
=============================================================================
