--------------------------- MODULE TaskScopeProofs ---------------------------
(***************************************************************************)
(* Proofs about TaskScope, for every set of keys and of run identities: the  *)
(* safety properties of TaskScope.cfg, and that the scope implements         *)
(* CoalescedWork.  Inv ties the four places that describe a round (slot,     *)
(* entry, controller, follow-up flag) together.                              *)
(***************************************************************************)
EXTENDS TaskScope, TLAPS

\* A slot is held by a run of its own key, which is in its body or still
\* waits for it and has not been told to stop.
HoldersServe ==
    \A k \in Keys : holder[k] # NoRun =>
        run[holder[k]].key = k /\ holder[k] \in InBody \cup (Queued \ Stopped)

\* A follow-up is asked for only while a body is in progress.
FollowUpsWait == \A k \in again : holder[k] \in InBody

\* A tracked run is alive; it holds the slot of its key, if it has one; and
\* if it is queued, nobody has told it to stop.
TrackedHold ==
    \A r \in tracked :
        /\ r \in Live
        /\ run[r].key # Plain => holder[run[r].key] = r
        /\ r \in Queued => r \notin Stopped

\* A run that is alive and that the scope has forgotten has been told to stop.
OrphansStopped == Live \ tracked \subseteq Stopped

\* What is owed is what a queued run or a follow-up is going to do.
OwedExactly == owed = {k \in Keys : holder[k] \in Queued} \cup again

\* Nothing is tracked in a scope that is closed.
ClosedIsEmpty == aborted => tracked = {}

Inv ==
    /\ TypeOK /\ HoldersServe /\ FollowUpsWait /\ TrackedHold
    /\ OrphansStopped /\ OwedExactly /\ ClosedIsEmpty

-----------------------------------------------------------------------------
(* Inv is inductive *)

USE DEF Unused, Free, Live, Queued, InBody, Stopped

\* The initial state satisfies Inv.
LEMMA InitInv == Init => Inv
<1> SUFFICES ASSUME Init PROVE Inv
  OBVIOUS
<1> USE ScopeAssumption DEF Init
<1>1. TypeOK
  BY DEF TypeOK
<1>2. HoldersServe /\ FollowUpsWait /\ TrackedHold /\ OrphansStopped /\ ClosedIsEmpty
  BY DEF HoldersServe, FollowUpsWait, TrackedHold, OrphansStopped, ClosedIsEmpty
<1>3. OwedExactly
  BY DEF OwedExactly
<1> QED
  BY <1>1, <1>2, <1>3 DEF Inv

\* A plain task disturbs no slot.
LEMMA RunPlainKeeps == ASSUME Inv, NEW immediate \in BOOLEAN, RunPlain(immediate) PROVE Inv'
<1>1. PICK r \in Free : Started(r, Plain, immediate, run, tracked)
  BY DEF RunPlain
<1> USE <1>1, ScopeAssumption DEF Inv, RunPlain, Started, slots, TypeOK
<1>2. TypeOK'
  OBVIOUS
<1>3. \A k \in Keys : holder[k] # r
  BY DEF HoldersServe
<1>4. HoldersServe' /\ FollowUpsWait'
  BY <1>3 DEF HoldersServe, FollowUpsWait
<1>5. TrackedHold' /\ OrphansStopped' /\ ClosedIsEmpty'
  BY DEF TrackedHold, OrphansStopped, ClosedIsEmpty
<1>6. OwedExactly'
  BY <1>3 DEF OwedExactly
<1> QED
  BY <1>2, <1>4, <1>5, <1>6


\* A request for a key whose slot is held: the run that holds it does the new
\* work, or is followed by one that does.
LEMMA JoinKeeps ==
    ASSUME Inv, NEW k \in Keys, NEW immediate \in BOOLEAN, Schedule(k, immediate),
           holder[k] # NoRun
    PROVE  Inv'
<1> USE ScopeAssumption DEF Inv, Schedule, NeedsFollowUp, TypeOK
<1>1. TypeOK'
  OBVIOUS
<1>2. HoldersServe' /\ TrackedHold' /\ OrphansStopped' /\ ClosedIsEmpty'
  BY DEF HoldersServe, TrackedHold, OrphansStopped, ClosedIsEmpty
<1>3. FollowUpsWait'
  BY DEF FollowUpsWait
<1>4. OwedExactly'
  <2>1. holder[k] \in InBody \/ holder[k] \in Queued
    BY DEF HoldersServe
  <2>2. CASE holder[k] \in InBody
    BY <2>2 DEF OwedExactly
  <2>3. CASE holder[k] \in Queued
    BY <2>3 DEF OwedExactly
  <2> QED
    BY <2>1, <2>2, <2>3
<1> QED
  BY <1>1, <1>2, <1>3, <1>4

\* A request for a key whose slot is free begins a run.
LEMMA FirstKeeps ==
    ASSUME Inv, NEW k \in Keys, NEW immediate \in BOOLEAN, Schedule(k, immediate),
           holder[k] = NoRun
    PROVE  Inv'
<1>1. PICK r \in Free : Begun(r, k, immediate, run, tracked)
  BY DEF Schedule
<1> USE <1>1, ScopeAssumption DEF Inv, Schedule, Begun, Started, TypeOK
<1>2. TypeOK'
  OBVIOUS
<1>3. \A j \in Keys : holder[j] # r
  BY DEF HoldersServe
<1>4. HoldersServe'
  BY <1>3 DEF HoldersServe
<1>5. k \notin again
  BY DEF FollowUpsWait
<1>6. FollowUpsWait'
  BY <1>3, <1>5 DEF FollowUpsWait
<1>7. TrackedHold' /\ OrphansStopped' /\ ClosedIsEmpty'
  BY DEF TrackedHold, OrphansStopped, ClosedIsEmpty
<1>8. OwedExactly'
  <2>1. \A j \in Keys : j # k => (holder'[j] \in Queued' <=> holder[j] \in Queued)
    BY <1>3
  <2>2. holder'[k] \in Queued' <=> ~immediate
    OBVIOUS
  <2> QED
    BY <2>1, <2>2, <1>5 DEF OwedExactly
<1> QED
  BY <1>2, <1>4, <1>6, <1>7, <1>8

\* A body that is entered does what its key is owed.
LEMMA EnterKeeps == ASSUME Inv, NEW r \in Run, Enter(r) PROVE Inv'
<1> USE ScopeAssumption DEF Inv, Enter, slots, TypeOK
<1>1. TypeOK'
  OBVIOUS
<1>2. r \in tracked
  BY DEF OrphansStopped
<1>3. run' = [run EXCEPT ![r].state = "body"]
  OBVIOUS
<1>4. HoldersServe' /\ FollowUpsWait'
  BY <1>3 DEF HoldersServe, FollowUpsWait
<1>5. TrackedHold' /\ OrphansStopped' /\ ClosedIsEmpty'
  BY <1>3 DEF TrackedHold, OrphansStopped, ClosedIsEmpty
<1>6. OwedExactly'
  <2>1. \A k \in Keys : holder[k] = r <=> k = run[r].key
    BY <1>2 DEF HoldersServe, TrackedHold
  <2>2. \A k \in Keys : holder[k] \in Queued' <=> holder[k] \in Queued /\ k # run[r].key
    BY <2>1
  <2>3. run[r].key \notin again
    BY <2>1 DEF FollowUpsWait
  <2> QED
    BY <2>2, <2>3 DEF OwedExactly
<1> QED
  BY <1>1, <1>4, <1>5, <1>6

\* A budget that expires leaves the bookkeeping alone.
LEMMA BudgetKeeps == ASSUME Inv, NEW r \in Run, BudgetExpires(r) PROVE Inv'
<1> USE ScopeAssumption DEF Inv, BudgetExpires, slots, TypeOK
<1>1. TypeOK'
  OBVIOUS
<1>2. HoldersServe' /\ FollowUpsWait'
  BY DEF HoldersServe, FollowUpsWait
<1>3. TrackedHold' /\ OrphansStopped' /\ ClosedIsEmpty'
  BY DEF TrackedHold, OrphansStopped, ClosedIsEmpty
<1>4. OwedExactly'
  BY DEF OwedExactly
<1> QED
  BY <1>1, <1>2, <1>3, <1>4

\* The end of a run that no follow-up comes after.
LEMMA LastEndKeeps ==
    ASSUME Inv, NEW r \in Run, Ends(r), GivesUp(r) \cap again = {} \/ aborted
    PROVE  Inv'
<1> USE ScopeAssumption DEF Inv, Ends, TypeOK
<1>1. /\ run' = [run EXCEPT ![r] = Unused] /\ tracked' = tracked \ {r}
      /\ holder' = [k \in Keys |-> IF holder[k] = r THEN NoRun ELSE holder[k]]
      /\ again' = again \ GivesUp(r)
      /\ owed' = owed
      /\ UNCHANGED <<aborted, now>>
  BY DEF GivesUp
<1>2. again' = again
  <2>1. CASE aborted
    BY <2>1, <1>1 DEF ClosedIsEmpty, FollowUpsWait
  <2>2. CASE GivesUp(r) \cap again = {}
    BY <2>2, <1>1
  <2> QED
    BY <2>1, <2>2
<1>3. TypeOK'
  BY <1>1
<1>4. HoldersServe'
  BY <1>1 DEF HoldersServe
<1>5. FollowUpsWait'
  <2>1. \A k \in again : holder[k] # r
    BY DEF GivesUp, FollowUpsWait, ClosedIsEmpty
  <2> QED
    BY <2>1, <1>1, <1>2 DEF FollowUpsWait
<1>6. TrackedHold' /\ OrphansStopped' /\ ClosedIsEmpty'
  BY <1>1 DEF TrackedHold, OrphansStopped, ClosedIsEmpty
<1>7. OwedExactly'
  <2>1. \A k \in Keys : holder[k] = r => r \notin Queued
    BY DEF HoldersServe
  <2>2. \A k \in Keys : holder'[k] \in Queued' <=> holder[k] \in Queued
    BY <1>1, <2>1
  <2> QED
    BY <1>1, <1>2, <2>2 DEF OwedExactly
<1> QED
  BY <1>3, <1>4, <1>5, <1>6, <1>7

\* The end of a run whose follow-up begins at once.
LEMMA FollowedEndKeeps ==
    ASSUME Inv, NEW r \in Run, Ends(r), ~(GivesUp(r) \cap again = {} \/ aborted)
    PROVE  Inv'
<1>1. PICK k \in GivesUp(r) \cap again, q \in Free \cup {r} :
        Begun(q, k, k \in now, [run EXCEPT ![r] = Unused], tracked \ {r})
  BY DEF Ends
<1> USE <1>1, ScopeAssumption DEF Inv, Begun, Started, TypeOK
<1>2. again' = again \ GivesUp(r) /\ UNCHANGED <<aborted, now>>
  BY DEF Ends
<1>3. k \in Keys /\ holder[k] = r /\ r \in tracked /\ r \in InBody
  BY DEF GivesUp, FollowUpsWait, TypeOK
<1>4. \A j \in Keys : holder[j] = r <=> j = k
  BY <1>3 DEF HoldersServe
<1>5. again' = again \ {k}
  BY <1>2, <1>4 DEF GivesUp
<1>6. \A j \in Keys : holder[j] = q => j = k
  BY <1>4 DEF HoldersServe
<1>7. run' \in [Run -> [key : Keys \cup {Plain}, stopped : BOOLEAN,
                        state : {"unused", "queued", "body"}]]
  BY <1>3
<1>8. TypeOK'
  <2>1. tracked' \subseteq Run /\ q \in tracked' /\ tracked \ {r} \subseteq tracked'
    BY <1>3
  <2>2. \A j \in Keys : holder'[j] \in tracked' \cup {NoRun}
    BY <1>4, <2>1
  <2>3. holder' \in [Keys -> tracked' \cup {NoRun}]
    BY <2>2
  <2>4. again' \subseteq Keys /\ now' \subseteq Keys /\ owed' \subseteq Keys
    BY <1>2, <1>3, <1>5
  <2> QED
    BY <1>2, <1>7, <2>1, <2>3, <2>4
<1>9. \A p \in Run : p # r /\ p # q => run'[p] = run[p]
  OBVIOUS
<1>10. run'[q] = [key |-> k, stopped |-> FALSE, state |-> IF k \in now THEN "body" ELSE "queued"]
  OBVIOUS
<1>11. r # q => run'[r] = Unused
  OBVIOUS
<1>12. HoldersServe' /\ FollowUpsWait'
  BY <1>4, <1>5, <1>6, <1>9, <1>10 DEF HoldersServe, FollowUpsWait
<1>13. TrackedHold' /\ OrphansStopped' /\ ClosedIsEmpty'
  BY <1>2, <1>3, <1>4, <1>6, <1>9, <1>10, <1>11, <1>8
     DEF TrackedHold, OrphansStopped, ClosedIsEmpty
<1>14. OwedExactly'
  <2>1. \A j \in Keys : j # k => (holder'[j] \in Queued' <=> holder[j] \in Queued)
    BY <1>4, <1>6, <1>9
  <2>2. holder'[k] \in Queued' <=> k \notin now
    BY <1>3, <1>10
  <2>3. holder[k] \notin Queued
    BY <1>3
  <2> QED
    BY <1>3, <1>5, <2>1, <2>2, <2>3 DEF OwedExactly
<1> QED
  BY <1>8, <1>12, <1>13, <1>14

\* stopAll leaves no round and no debt behind, and every run told to stop.
LEMMA StopAllKeeps == ASSUME Inv, StopAll, aborted' \in BOOLEAN PROVE Inv'
<1> USE ScopeAssumption DEF Inv, StopAll, ToStop, TypeOK
<1>1. TypeOK'
  OBVIOUS
<1>2. HoldersServe' /\ FollowUpsWait' /\ TrackedHold' /\ ClosedIsEmpty'
  BY DEF HoldersServe, FollowUpsWait, TrackedHold, ClosedIsEmpty
<1>3. OrphansStopped'
  BY DEF OrphansStopped
<1>4. OwedExactly'
  BY DEF OwedExactly
<1> QED
  BY <1>1, <1>2, <1>3, <1>4

\* Every step keeps Inv.
LEMMA NextKeeps == ASSUME Inv, [Next]_vars PROVE Inv'
<1>1. ASSUME NEW immediate \in BOOLEAN, RunPlain(immediate) PROVE Inv'
  BY <1>1, RunPlainKeeps
<1>2. ASSUME NEW k \in Keys, NEW immediate \in BOOLEAN, Schedule(k, immediate) PROVE Inv'
  BY <1>2, JoinKeeps, FirstKeeps
<1>3. ASSUME NEW r \in Run, Enter(r) PROVE Inv'
  BY <1>3, EnterKeeps
<1>4. ASSUME NEW r \in Run, BudgetExpires(r) PROVE Inv'
  BY <1>4, BudgetKeeps
<1>5. ASSUME NEW r \in Run, Ends(r) PROVE Inv'
  BY <1>5, LastEndKeeps, FollowedEndKeeps
<1>6. CASE Abort \/ Resume
  BY <1>6, StopAllKeeps DEF Abort, Resume
<1>7. CASE UNCHANGED vars
  BY <1>7 DEF vars, Inv, TypeOK, HoldersServe, FollowUpsWait, TrackedHold,
       OrphansStopped, OwedExactly, ClosedIsEmpty
<1> QED
  BY <1>1, <1>2, <1>3, <1>4, <1>5, <1>6, <1>7 DEF Next


\* Inv holds in every reachable state.
THEOREM Invariance == Spec => []Inv
<1>1. Inv /\ [Next]_vars => Inv'
  BY NextKeeps
<1> QED
  BY InitInv, <1>1, PTL DEF Spec

-----------------------------------------------------------------------------
(* The properties *)

\* Every reachable state is well typed, and a slot is held by nobody or by a
\* run the scope counts.
THEOREM TypeCorrect == Spec => []TypeOK
<1>1. Inv => TypeOK
  BY DEF Inv
<1> QED
  BY Invariance, <1>1, PTL

\* Rounds of one key overlap only with rounds that have been told to stop.
THEOREM SingleFlight == Spec => []OverlapsAreStopped
<1>1. Inv => OverlapsAreStopped
  <2> SUFFICES ASSUME Inv, NEW r \in Live, NEW q \in Live, r # q,
                      run[r].key = run[q].key, run[r].key # Plain
               PROVE  \E s \in {r, q} : s \in Stopped /\ s \notin tracked
    BY DEF OverlapsAreStopped
  <2>1. ~(r \in tracked /\ q \in tracked)
    BY DEF Inv, TrackedHold
  <2> QED
    BY <2>1 DEF Inv, OrphansStopped
<1> QED
  BY Invariance, <1>1, PTL

\* No request is forgotten, and a scope with nothing pending owes nothing.
THEOREM NothingForgotten == Spec => []OwedIsOnItsWay
<1>1. Inv => OwedIsOnItsWay
  <2> SUFFICES ASSUME Inv, NEW k \in owed
               PROVE  \E r \in tracked :
                        /\ run[r].key = k
                        /\ r \in Queued \ Stopped \/ (r \in InBody /\ k \in again)
    BY DEF OwedIsOnItsWay
  <2>1. holder[k] \in tracked /\ run[holder[k]].key = k
    BY ScopeAssumption DEF Inv, TypeOK, OwedExactly, FollowUpsWait, HoldersServe
  <2>2. CASE k \in again
    BY <2>1, <2>2 DEF Inv, FollowUpsWait
  <2>3. CASE k \notin again
    BY <2>1, <2>3 DEF Inv, OwedExactly, TrackedHold
  <2> QED
    BY <2>2, <2>3
<1> QED
  BY Invariance, <1>1, PTL

\* While the scope is closed no body is entered, and all that is still alive
\* has been told to stop.
THEOREM ClosedScopeIsQuiet == Spec => AbortedIsQuiet
<1>1. ASSUME Inv, [Next]_vars, aborted, aborted'
      PROVE  InBody' \subseteq InBody /\ Live' \subseteq Stopped'
  <2>1. Inv'
    BY <1>1, NextKeeps
  <2>2. Live' \subseteq Stopped'
    BY <1>1, <2>1 DEF Inv, ClosedIsEmpty, OrphansStopped
  <2>3. Live \subseteq Stopped
    BY <1>1 DEF Inv, ClosedIsEmpty, OrphansStopped
  <2>4. ASSUME NEW r \in Run, Enter(r) PROVE FALSE
    BY <2>3, <2>4 DEF Enter
  <2>5. ASSUME NEW r \in Run, BudgetExpires(r) PROVE FALSE
    BY <2>3, <2>5 DEF BudgetExpires
  <2>6. ASSUME NEW r \in Run, Ends(r) PROVE InBody' \subseteq InBody
    BY <1>1, <2>6 DEF Ends, Inv, TypeOK
  <2>7. ASSUME Abort \/ Resume PROVE InBody' \subseteq InBody
    <3>1. \A r \in Run : run'[r].state = run[r].state
      BY <1>1, <2>7 DEF Abort, Resume, StopAll, Inv, TypeOK
    <3> QED
      BY <3>1
  <2>8. ASSUME UNCHANGED vars PROVE InBody' \subseteq InBody
    BY <2>8 DEF vars
  <2> QED
    BY <1>1, <2>2, <2>4, <2>5, <2>6, <2>7, <2>8 DEF Next, RunPlain, Schedule
<1> QED
  BY Invariance, <1>1, PTL DEF AbortedIsQuiet, Spec


-----------------------------------------------------------------------------
(* The scope implements CoalescedWork *)

USE DEF Busy

\* The scope starts as the abstract scope does.
LEMMA InitMaps == Init => Coalesced!Init
BY ScopeAssumption DEF Init, Coalesced!Init

\* A plain task is invisible.
LEMMA RunPlainMaps ==
    ASSUME Inv, NEW immediate \in BOOLEAN, RunPlain(immediate)
    PROVE  UNCHANGED Coalesced!vars
<1>1. PICK r \in Free : Started(r, Plain, immediate, run, tracked)
  BY DEF RunPlain
<1>2. \A k \in Keys : holder[k] # r
  BY ScopeAssumption DEF Inv, HoldersServe
<1>3. holder' = holder /\ owed' = owed /\ aborted' = aborted
  BY DEF RunPlain, slots
<1>4. \A q \in Run : q # r => run'[q] = run[q]
  BY <1>1 DEF Started, Inv, TypeOK
<1>5. \A k \in Keys : holder'[k] \in InBody' <=> holder[k] \in InBody
  BY <1>2, <1>3, <1>4
<1> QED
  BY <1>3, <1>5 DEF Coalesced!vars

\* A request is a request, or a request whose round begins on the spot.
LEMMA ScheduleMaps ==
    ASSUME Inv, NEW k \in Keys, NEW immediate \in BOOLEAN, Schedule(k, immediate)
    PROVE  Coalesced!Request(k) \/ Coalesced!RequestAndBegin(k)
<1>1. CASE holder[k] # NoRun
  BY <1>1 DEF Schedule, Coalesced!Request
<1>2. CASE holder[k] = NoRun
  <2>1. PICK r \in Free : Begun(r, k, immediate, run, tracked)
    BY <1>2 DEF Schedule
  <2>2. \A j \in Keys : holder[j] # r
    BY ScopeAssumption DEF Inv, TypeOK, HoldersServe
  <2>3. k \notin Busy /\ k \notin owed
    BY <1>2, ScopeAssumption DEF Inv, OwedExactly, FollowUpsWait
  <2>4. \A j \in Keys : j # k => (j \in Busy' <=> j \in Busy)
    BY <2>1, <2>2 DEF Begun, Started, Inv, TypeOK
  <2>5. k \in Busy' <=> immediate
    BY <2>1 DEF Begun, Started, Inv, TypeOK
  <2>6. Busy' = IF immediate THEN Busy \cup {k} ELSE Busy
    BY <2>3, <2>4, <2>5
  <2>7. owed' = IF immediate THEN owed ELSE owed \cup {k}
    BY <2>1, <2>3 DEF Begun
  <2>8. ~aborted /\ aborted' = aborted
    BY DEF Schedule
  <2> QED
    BY <2>3, <2>6, <2>7, <2>8 DEF Coalesced!Request, Coalesced!RequestAndBegin
<1> QED
  BY <1>1, <1>2

\* A body that is entered begins the round of its key; a plain one is invisible.
LEMMA EnterMaps ==
    ASSUME Inv, NEW r \in Run, Enter(r)
    PROVE  \/ \E k \in Keys : Coalesced!Begin(k)
           \/ UNCHANGED Coalesced!vars
<1> USE ScopeAssumption DEF Inv, Enter, TypeOK, slots
<1>1. r \in tracked /\ ~aborted
  BY DEF OrphansStopped, ClosedIsEmpty
<1>2. \A j \in Keys : holder[j] = r <=> j = run[r].key
  BY <1>1 DEF HoldersServe, TrackedHold
<1>3. Busy' = Busy \cup {k \in Keys : k = run[r].key}
  BY <1>2
<1>4. CASE run[r].key = Plain
  BY <1>3, <1>4 DEF Coalesced!vars
<1>5. CASE run[r].key # Plain
  <2> DEFINE k == run[r].key
  <2>1. k \in Keys /\ holder[k] = r
    BY <1>2, <1>5
  <2>2. k \in owed /\ k \notin Busy
    BY <2>1 DEF OwedExactly
  <2>3. Busy' = Busy \cup {k}
    BY <1>3, <2>1
  <2> QED
    BY <1>1, <2>1, <2>2, <2>3 DEF Coalesced!Begin
<1> QED
  BY <1>4, <1>5

\* The end of a run that holds its slot ends the round, and begins the next
\* one if that is immediate; the end of any other run is invisible.
LEMMA EndsMaps ==
    ASSUME Inv, NEW r \in Run, Ends(r)
    PROVE  \/ \E k \in Keys : Coalesced!End(k) \/ Coalesced!EndAndBegin(k)
           \/ UNCHANGED Coalesced!vars
<1> USE ScopeAssumption DEF Inv, TypeOK
<1>1. \A k \in Keys : holder[k] = r => r \in InBody /\ k = run[r].key
  BY DEF Ends, HoldersServe
<1>2. CASE GivesUp(r) \cap again = {} \/ aborted
  <2>1. Busy' = Busy \ GivesUp(r) /\ owed' = owed /\ aborted' = aborted
    BY <1>1, <1>2 DEF Ends, GivesUp
  <2>2. CASE GivesUp(r) = {}
    BY <2>1, <2>2 DEF Coalesced!vars
  <2>3. CASE GivesUp(r) # {}
    <3>1. PICK k \in GivesUp(r) : TRUE
      BY <2>3
    <3>2. k \in Keys /\ k \in Busy /\ GivesUp(r) = {k}
      BY <1>1, <3>1 DEF GivesUp
    <3> QED
      BY <2>1, <3>2 DEF Coalesced!End
  <2> QED
    BY <2>2, <2>3
<1>3. CASE ~(GivesUp(r) \cap again = {} \/ aborted)
  <2>1. PICK k \in GivesUp(r) \cap again, q \in Free \cup {r} :
          Begun(q, k, k \in now, [run EXCEPT ![r] = Unused], tracked \ {r})
    BY <1>3 DEF Ends
  <2>2. k \in Keys /\ k \in Busy /\ k \in owed
    BY <1>1, <2>1 DEF GivesUp, OwedExactly
  <2>3. \A j \in Keys : holder[j] = r \/ holder[j] = q => j = k
    BY <1>1, <2>1 DEF GivesUp, HoldersServe
  <2>4. \A j \in Keys : j # k => (j \in Busy' <=> j \in Busy)
    BY <2>1, <2>3 DEF Begun, Started
  <2>5. k \in Busy' <=> k \in now
    BY <2>1, <2>2 DEF Begun, Started
  <2>6. Busy' = IF k \in now THEN Busy ELSE Busy \ {k}
    BY <2>2, <2>4, <2>5
  <2>7. owed' = IF k \in now THEN owed \ {k} ELSE owed
    BY <2>1, <2>2 DEF Begun
  <2>8. ~aborted /\ aborted' = aborted
    BY <1>3 DEF Ends
  <2> QED
    BY <2>2, <2>6, <2>7, <2>8 DEF Coalesced!End, Coalesced!EndAndBegin
<1> QED
  BY <1>2, <1>3

\* Every step of the scope is a step of CoalescedWork, or changes nothing there.
LEMMA NextMaps == ASSUME Inv, [Next]_vars PROVE [Coalesced!Next]_(Coalesced!vars)
<1>1. ASSUME NEW immediate \in BOOLEAN, RunPlain(immediate) PROVE UNCHANGED Coalesced!vars
  BY <1>1, RunPlainMaps
<1>2. ASSUME NEW k \in Keys, NEW immediate \in BOOLEAN, Schedule(k, immediate)
      PROVE  Coalesced!Next
  BY <1>2, ScheduleMaps DEF Coalesced!Next
<1>3. ASSUME NEW r \in Run, Enter(r) PROVE [Coalesced!Next]_(Coalesced!vars)
  BY <1>3, EnterMaps DEF Coalesced!Next
<1>4. ASSUME NEW r \in Run, BudgetExpires(r) PROVE UNCHANGED Coalesced!vars
  <2>1. \A q \in Run : run'[q].state = run[q].state
    BY <1>4 DEF BudgetExpires, Inv, TypeOK
  <2> QED
    BY <1>4, <2>1 DEF BudgetExpires, slots, Coalesced!vars
<1>5. ASSUME NEW r \in Run, Ends(r) PROVE [Coalesced!Next]_(Coalesced!vars)
  BY <1>5, EndsMaps DEF Coalesced!Next
<1>6. ASSUME StopAll PROVE Busy' = {} /\ owed' = {}
  BY <1>6, ScopeAssumption DEF StopAll
<1>7. CASE Abort
  BY <1>6, <1>7 DEF Abort, StopAll, Coalesced!Next, Coalesced!Close
<1>8. CASE Resume
  BY <1>6, <1>8 DEF Resume, StopAll, Coalesced!Next, Coalesced!Open
<1>9. CASE UNCHANGED vars
  BY <1>9 DEF vars, Coalesced!vars
<1> QED
  BY <1>1, <1>2, <1>3, <1>4, <1>5, <1>7, <1>8, <1>9 DEF Next

\* The scope keeps the promise of CoalescedWork: one round per key, every round
\* answers a request, none is answered twice, none begins while it is closed.
THEOREM CoalescingImplemented == Spec => ImplementsCoalescing
<1>1. Inv /\ [Next]_vars => [Coalesced!Next]_(Coalesced!vars)
  BY NextMaps
<1> QED
  BY Invariance, InitMaps, <1>1, PTL DEF Spec, ImplementsCoalescing, Coalesced!Spec
=============================================================================
