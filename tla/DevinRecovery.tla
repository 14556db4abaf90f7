---------------------------- MODULE DevinRecovery ----------------------------
(***************************************************************************)
(* What devin-delegate keeps on disk, and what a pi session that comes back  *)
(* finds there: state.json (queue and session ids), one meta.json per        *)
(* session, the queue of pending writes in front of both, crashes of pi, and *)
(* recoverState, which rebuilds memory one file at a time.                   *)
(*                                                                           *)
(* Starting and ending sessions is reduced to what the files tell apart;     *)
(* DevinDelegate has the rest.  Worktrees, follow-up messages and restarts   *)
(* are left out here.  Writes do not fail (a failure is only logged).        *)
(***************************************************************************)
EXTENDS Integers, Sequences, FiniteSets

CONSTANTS
    MaxTasks,       \* tasks are q-1 .. q-MaxTasks
    Limit,          \* maxRuns
    MaxCrashes,     \* bound on the crashes of pi
    MaxWrites       \* bound on the writes waiting when a user or agent acts

ASSUME RecoveryAssumption ==
    /\ MaxTasks \in Nat /\ Limit \in Nat \ {0}
    /\ MaxCrashes \in Nat /\ MaxWrites \in Nat

Task    == 1..MaxTasks
Settled == {"idle", "interrupted", "failed", "cancelled"}
Status  == {"absent", "running"} \cup Settled

\* A write of the whole state.json, or of the meta.json of one session.  History:
\* partial, the memory it was taken from lacked what recovery had not restored.
StateWrite(q, ids, partial) == [file |-> 0, queue |-> q, ids |-> ids, partial |-> partial]
MetaWrite(t, s)             == [file |-> t, status |-> s]

NoState == [exists |-> FALSE, queue |-> <<>>, ids |-> {}, partial |-> FALSE]

VARIABLES
    phase,      \* "down"; "boot": recoverState awaits a file; "ready"
    queue,
    starting,   \* admitted tasks whose session is not registered yet
    sess,       \* the session table; "absent": not in it
    attached,   \* the sessions with a client of this pi process
    backfill,   \* sessions whose database lookup is on its way
    alive,      \* the sessions whose devin process runs
    toLoad,     \* the session ids recoverState has still to read
    restored,   \* the queue it read from state.json
    writes,     \* WriteQueue: the writes that have not landed
    diskState,  \* state.json
    diskMeta,   \* the meta.json files
    crashes,
    whole,      \* the last recovery ran to its end
    invoked,
    gone,       \* tasks that were cancelled in the queue or failed to start
    durable,    \* history: what crashes interrupted and recovery has to bring back
    lost        \* history: the part of it the last crash found overwritten

memVars  == <<queue, starting, sess, attached, backfill>>
diskVars == <<diskState, diskMeta>>
histVars == <<crashes, durable, lost>>
vars == <<phase, queue, starting, sess, attached, backfill, alive, toLoad, restored,
          writes, diskState, diskMeta, crashes, whole, invoked, gone, durable, lost>>

Ids(s)     == {t \in Task : s[t] # "absent"}
Running(s) == {t \in Task : s[t] = "running"}
Queued(q)  == {q[i] : i \in 1..Len(q)}
Known      == Queued(queue) \cup starting \cup Ids(sess)
OnDisk     == Queued(diskState.queue) \cup diskState.ids

Init ==
    /\ phase = "down"
    /\ queue = <<>> /\ starting = {} /\ attached = {} /\ backfill = {} /\ alive = {}
    /\ sess = [t \in Task |-> "absent"]
    /\ toLoad = {} /\ restored = <<>>
    /\ writes = <<>>
    /\ diskState = NoState
    /\ diskMeta = [t \in Task |-> "absent"]
    /\ crashes = 0 /\ whole = TRUE /\ invoked = 0
    /\ gone = {} /\ durable = {} /\ lost = {}

-----------------------------------------------------------------------------
(* Persisting and draining *)

\* Memory is what recovery restores: it was not cut short, nor is it under way.
Partial == ~ (phase = "ready" /\ whole)

\* drainQueue on queue q and starts st, after the writes w: it admits tasks
\* while a slot is free and persists the state after each.  The caller has set
\* phase', whole' and sess'.
Drain(q, st, w) ==
    LET free == Limit - Cardinality(Running(sess')) - Cardinality(st)
        k == IF free < 0 THEN 0 ELSE IF free < Len(q) THEN free ELSE Len(q)
    IN  /\ queue' = SubSeq(q, k + 1, Len(q))
        /\ starting' = st \cup {q[i] : i \in 1..k}
        /\ writes' = w \o [i \in 1..k |-> StateWrite(SubSeq(q, i + 1, Len(q)), Ids(sess'), Partial')]

\* Every tool waits for the recovery before it reads or changes the state.
ToolMayRun == phase = "ready"

Acts == ToolMayRun /\ Len(writes) <= MaxWrites

\* The writes of a task that joins the queue q.
FaultNotPersisted(q) == <<>>
QueuedWrites(q) == <<StateWrite(q, Ids(sess), Partial)>>

Delegate ==
    LET t == invoked + 1
        free == Cardinality(Running(sess)) + Cardinality(starting) < Limit
    IN  /\ Acts
        /\ invoked < MaxTasks
        /\ invoked' = t
        /\ UNCHANGED <<phase, whole>>
        /\ \/ /\ queue = <<>> /\ free
              /\ starting' = starting \cup {t}
              /\ UNCHANGED <<queue, writes, sess>>
           \/ /\ ~ (queue = <<>> /\ free)
              /\ UNCHANGED sess
              /\ Drain(Append(queue, t), starting, writes \o QueuedWrites(Append(queue, t)))
        /\ UNCHANGED <<attached, backfill, alive, toLoad, restored, diskVars, gone, histVars>>

\* The files of a session that changed to s, in the order they are written:
\* meta.json first, then the state.json that names it.
FaultNoMeta(t, s, ids) ==
    IF s \in {"running", "cancelled"} THEN <<MetaWrite(t, s), StateWrite(queue, ids, Partial)>>
    ELSE <<StateWrite(queue, ids, Partial)>>
SessionWrites(t, s, ids) == <<MetaWrite(t, s), StateWrite(queue, ids, Partial)>>

\* session/new answered: the session is registered, its slot no longer reserved.
Registered(t) ==
    /\ phase # "down"
    /\ t \in starting
    /\ sess' = [sess EXCEPT ![t] = "running"]
    /\ UNCHANGED <<phase, whole>>
    /\ attached' = attached \cup {t}
    /\ alive' = alive \cup {t}
    /\ Drain(queue, starting \ {t}, writes \o SessionWrites(t, "running", Ids(sess')))
    /\ UNCHANGED <<backfill, toLoad, restored, diskVars, invoked, gone, histVars>>

\* The start fails; nothing is persisted, the dequeue already was.
StartFails(t) ==
    /\ phase # "down"
    /\ t \in starting
    /\ gone' = gone \cup {t}
    /\ UNCHANGED <<phase, whole, sess>>
    /\ Drain(queue, starting \ {t}, writes)
    /\ UNCHANGED <<attached, backfill, alive, toLoad, restored, diskVars, invoked, histVars>>

\* The clients left when a turn of t ended, with its process or not.
ClientsAfter(t, exits) == IF exits THEN attached \ {t} ELSE attached

\* A turn ends: answered, failed, or its process exited.
TurnEnds(t, s, exits) ==
    /\ phase # "down"
    /\ t \in attached /\ sess[t] = "running"
    /\ sess' = [sess EXCEPT ![t] = s]
    /\ UNCHANGED <<phase, whole>>
    /\ exits \/ s # "interrupted"
    /\ attached' = ClientsAfter(t, exits)
    /\ alive' = IF exits THEN alive \ {t} ELSE alive
    /\ Drain(queue, starting, writes \o SessionWrites(t, s, Ids(sess)))
    /\ UNCHANGED <<backfill, toLoad, restored, diskVars, invoked, gone, histVars>>

\* The process of a session that is not in a turn goes away.
ProcessExits(t) ==
    /\ t \in alive
    /\ sess[t] # "running" \/ t \notin attached
    /\ alive' = alive \ {t}
    /\ attached' = attached \ {t}
    /\ UNCHANGED <<phase, queue, starting, sess, backfill, toLoad, restored, writes, diskVars,
                   whole, invoked, gone, histVars>>

CancelQueued(i) ==
    /\ Acts
    /\ queue' = SubSeq(queue, 1, i - 1) \o SubSeq(queue, i + 1, Len(queue))
    /\ gone' = gone \cup {queue[i]}
    /\ writes' = Append(writes, StateWrite(queue', Ids(sess), Partial))
    /\ UNCHANGED <<phase, starting, sess, attached, backfill, alive, toLoad, restored, diskVars,
                   whole, invoked, histVars>>

\* The process group of t is killed, by its client or by its recorded pid (a
\* pid that another program has now is left alone).  The 1.5 s between SIGTERM
\* and SIGKILL are left out.
Killed(t) == alive \ {t}

CancelSession(t) ==
    /\ Acts
    /\ sess[t] \notin {"absent", "cancelled"}
    /\ sess' = [sess EXCEPT ![t] = "cancelled"]
    /\ UNCHANGED <<phase, whole>>
    /\ attached' = attached \ {t}
    /\ alive' = Killed(t)
    /\ Drain(queue, starting, writes \o SessionWrites(t, "cancelled", Ids(sess)))
    /\ UNCHANGED <<backfill, toLoad, restored, diskVars, invoked, gone, histVars>>

\* devin_cancel and /devin cancel: one path for a queued task and a session.
DevinCancel ==
    \/ \E i \in 1..Len(queue) : CancelQueued(i)
    \/ \E t \in Task : CancelSession(t)

-----------------------------------------------------------------------------
(* The disk, and the crash of pi *)

\* What recovery still owes once the write w landed: all of memory is on disk
\* again, or not.
OwedAfter(w) == IF w.file = 0 /\ ~ w.partial THEN {} ELSE durable

\* The oldest write lands: a temporary file is renamed over the old one.
WriteLands ==
    /\ writes # <<>>
    /\ writes' = Tail(writes)
    /\ LET w == Head(writes)
       IN  IF w.file = 0
           THEN /\ diskState' = [exists |-> TRUE, queue |-> w.queue, ids |-> w.ids,
                                 partial |-> w.partial]
                /\ UNCHANGED diskMeta
           ELSE /\ diskMeta' = [diskMeta EXCEPT ![w.file] = w.status]
                /\ UNCHANGED diskState
    /\ durable' = OwedAfter(Head(writes))
    /\ UNCHANGED <<phase, memVars, alive, toLoad, restored, whole, invoked, gone, crashes, lost>>

\* pi goes away with its memory and the pending writes.  A devin process may
\* outlive it.  Recovery owes what is on disk, or all of memory but the starts
\* on their way when nothing waited to be written; and all it owed before.  What
\* a partial state.json has overwritten of it by now is lost.
Crash(survivors) ==
    /\ phase # "down"
    /\ crashes < MaxCrashes
    /\ crashes' = crashes + 1
    /\ phase' = "down"
    /\ queue' = <<>> /\ starting' = {} /\ attached' = {} /\ backfill' = {}
    /\ sess' = [t \in Task |-> "absent"]
    /\ toLoad' = {} /\ restored' = <<>>
    /\ writes' = <<>>
    /\ alive' = survivors
    /\ durable' = durable \cup IF ~ Partial /\ writes = <<>> THEN Known \ starting
                              ELSE OnDisk
    /\ lost' = IF diskState.partial THEN durable \ OnDisk ELSE {}
    /\ UNCHANGED <<diskVars, whole, invoked, gone>>

-----------------------------------------------------------------------------
(* recoverState *)

\* state.json is read; without one the session starts empty.  If the boot
\* budget expires during the read, recoverState returns at once.
Boot ==
    /\ phase = "down"
    /\ \/ /\ diskState.exists
          /\ phase' = "boot"
          /\ toLoad' = diskState.ids
          /\ restored' = diskState.queue
          /\ UNCHANGED <<writes, whole>>
       \/ /\ ~ diskState.exists
          /\ phase' = "ready"
          /\ whole' = TRUE
          /\ writes' = <<StateWrite(<<>>, {}, FALSE)>>
          /\ UNCHANGED <<toLoad, restored>>
       \/ /\ phase' = "ready"
          /\ whole' = FALSE
          /\ UNCHANGED <<toLoad, restored, writes>>
    /\ UNCHANGED <<memVars, alive, diskVars, invoked, gone, histVars>>

\* The status the session t gets from the status m in its file: a turn whose
\* process survived is ended, one whose process is dead awaits its backfill.
RecoveredStatus(t, m) == IF m = "running" /\ t \in alive THEN "interrupted" ELSE m

\* One meta.json is read; an unreadable one is skipped.
LoadMeta(t) ==
    LET m == diskMeta[t]
        s == RecoveredStatus(t, m)
    IN  /\ phase = "boot"
        /\ t \in toLoad
        /\ toLoad' = toLoad \ {t}
        /\ sess' = [sess EXCEPT ![t] = s]
        /\ alive' = IF m = "running" THEN Killed(t) ELSE alive
        /\ backfill' = IF s = "running" THEN backfill \cup {t} ELSE backfill
        /\ writes' = IF m = "absent" THEN writes ELSE Append(writes, MetaWrite(t, s))
        /\ UNCHANGED <<phase, queue, starting, attached, restored, diskVars, whole,
                       invoked, gone, histVars>>

\* All are read: the queue that state.json held is restored over whatever is
\* there, persisted and drained.
FinishRecovery ==
    /\ phase = "boot"
    /\ toLoad = {}
    /\ phase' = "ready"
    /\ whole' = TRUE
    /\ UNCHANGED sess
    /\ Drain(restored, starting, Append(writes, StateWrite(restored, Ids(sess), FALSE)))
    /\ UNCHANGED <<attached, backfill, alive, toLoad, restored, diskVars, invoked,
                   gone, histVars>>

\* The boot budget expires: recoverState returns before its next read, without
\* the sessions it has not read and without the queue.
AbortRecovery ==
    /\ phase = "boot"
    /\ toLoad # {}
    /\ phase' = "ready"
    /\ whole' = FALSE
    /\ toLoad' = {}
    /\ UNCHANGED <<memVars, alive, restored, writes, diskVars, invoked, gone, histVars>>

\* The status of a dead turn once devin's database was asked: found, or not.
FaultOnlyIfFound(t, found) == IF found THEN "idle" ELSE sess[t]
Reconciled(t, found) == IF found THEN "idle" ELSE "interrupted"

\* The writes of the lookup itself: a text that it finds is noted, under the
\* status the session has then.
BackfillWrites(t, found) == IF found THEN <<MetaWrite(t, sess[t])>> ELSE <<>>

\* The lookup answers, whatever happened to the session meanwhile.
Backfill(t, found) ==
    LET s == Reconciled(t, found)
    IN  /\ phase # "down"
        /\ t \in backfill
        /\ backfill' = backfill \ {t}
        /\ sess' = [sess EXCEPT ![t] = s]
        /\ UNCHANGED <<phase, whole>>
        /\ Drain(queue, starting, writes \o BackfillWrites(t, found) \o SessionWrites(t, s, Ids(sess)))
        /\ UNCHANGED <<attached, alive, toLoad, restored, diskVars,
                       invoked, gone, histVars>>

-----------------------------------------------------------------------------
Next ==
    \/ Delegate \/ WriteLands \/ Boot \/ FinishRecovery \/ AbortRecovery
    \/ \E t \in Task : \/ Registered(t) \/ StartFails(t) \/ ProcessExits(t)
                       \/ LoadMeta(t)
                       \/ \E found \in BOOLEAN : Backfill(t, found)
                       \/ \E s \in {"idle", "interrupted", "failed"}, exits \in BOOLEAN :
                             TurnEnds(t, s, exits)
    \/ DevinCancel
    \/ \E survivors \in SUBSET alive : Crash(survivors)

Spec == Init /\ [][Next]_vars

\* A database lookup and a write answer, or their timeouts do.
LiveSpec ==
    /\ Spec
    /\ \A t \in Task : WF_vars(\E found \in BOOLEAN : Backfill(t, found))

-----------------------------------------------------------------------------
(* Properties *)

\* The shape of the state; a session with a client has a process.
TypeOK ==
    /\ phase \in {"down", "boot", "ready"}
    /\ queue \in Seq(Task) /\ restored \in Seq(Task)
    /\ sess \in [Task -> Status] /\ diskMeta \in [Task -> Status]
    /\ \A S \in {starting, attached, backfill, alive, toLoad, gone, durable, lost} :
          S \subseteq Task
    /\ \A i \in 1..Len(writes) : writes[i].file \in 0..MaxTasks
    /\ diskState.queue \in Seq(Task) /\ diskState.ids \subseteq Task
    /\ attached \subseteq alive
    /\ crashes \in 0..MaxCrashes /\ invoked \in 0..MaxTasks /\ whole \in BOOLEAN

\* While pi runs, no task disappears: it waits, starts or has a session until
\* it is cancelled in the queue or fails to start.  In particular the queue that
\* recovery restores overwrites no task delegated meanwhile.
NothingVanishes ==
    [][phase # "down" /\ phase' # "down" => Known \subseteq Known' \cup gone']_vars

\* state.json never names a session whose meta.json is not on disk: recovery
\* would skip it without a word.
MetaBeforeState == \A t \in diskState.ids : diskMeta[t] # "absent"

\* When nothing waits to be written, the files say what memory says, on every
\* path that changes a queue or a session (unless the boot budget cut the
\* recovery short).
DiskCatchesUp ==
    phase = "ready" /\ whole /\ writes = <<>> =>
       /\ diskState.queue = queue
       /\ diskState.ids = Ids(sess)
       /\ \A t \in Ids(sess) : diskMeta[t] = sess[t]

\* The files are consistent in every prefix of the queue of writes, and up to
\* date at its end.
FilesAreConsistent == MetaBeforeState /\ DiskCatchesUp

\* A recovery that runs to its end brings back every queued task and every
\* session that was on disk at the crash, and all of memory but the starts on
\* their way when nothing waited to be written; and so after several crashes in a
\* row, until a state.json with all of it is on disk.  The one exception: what a
\* state.json overwrote that a backfill wrote before recovery restored the queue,
\* or that was written after the boot budget cut the recovery short, is lost if
\* pi crashes before a complete one is on disk.
RecoveryKeepsDurable ==
    [][phase = "boot" /\ phase' = "ready" /\ whole'
          => durable \subseteq Known' \cup gone \cup lost]_vars

\* No task is lost, while pi runs or by a crash of it, but for that exception.
NothingIsLost == NothingVanishes /\ RecoveryKeepsDurable

\* A turn that was interrupted with pi does not stay running (and hold a slot)
\* for ever: the backfill ends it.
DeadTurnsSettle ==
    \A t \in Task :
       sess[t] = "running" /\ t \notin attached ~> sess[t] # "running" \/ phase = "down"

=============================================================================
