-------------------------- MODULE DevinPermissions --------------------------
(***************************************************************************)
(* Permission requests of Devin sessions (devin-delegate.ts).  Outside the  *)
(* mode `bypass` a Devin process asks before it runs a tool and blocks its  *)
(* turn until it is answered.  The extension keeps the open requests of a   *)
(* session in a table, each with a timer that rejects it; devin_permission  *)
(* answers the oldest.  Requests carry the JSON-RPC id their process gave   *)
(* them and the table is keyed by session, while a session may go through   *)
(* several processes: ids repeat from one process to the next.              *)
(*                                                                          *)
(* The admission, the handshakes and the prompts of these sessions are the  *)
(* subject of DevinDelegate; here a start or a re-attachment is one step.   *)
(***************************************************************************)
EXTENDS Integers, FiniteSets

CONSTANTS
    Sessions,   \* numbers of the sessions
    MaxProcs,   \* bound on the processes a session goes through
    MaxAsks     \* bound on the requests of one process

ASSUME PermissionsAssumption ==
    /\ Sessions \subseteq Nat \ {0}
    /\ MaxProcs \in Nat \ {0}
    /\ MaxAsks \in Nat

Proc    == 1..MaxProcs
Request == [proc : Proc, id : 1..MaxAsks]

InTurn  == {"running", "stalled"}

\* "settled" is idle, interrupted, failed or cancelled: nothing here tells them
\* apart.
Status  == {"absent", "settled"} \cup InTurn

VARIABLES
    status,   \* the session table
    spawned,  \* processes spawned for each session so far
    client,   \* activeClients: the process it holds, or 0
    asked,    \* requests the session's current process has made
    waiting,  \* the requests Devin still waits for an answer to
    pending,  \* pendingPermissions
    timers    \* their armed timers: a timer knows a session and an id

sessionVars == <<status, spawned, client>>
askVars     == <<asked, waiting, pending, timers>>

PermissionsInit ==
    /\ status = [s \in Sessions |-> "absent"]
    /\ spawned = [s \in Sessions |-> 0]
    /\ client = [s \in Sessions |-> 0]
    /\ asked = [s \in Sessions |-> 0]
    /\ waiting = [s \in Sessions |-> {}]
    /\ pending = [s \in Sessions |-> {}]
    /\ timers = {}

-----------------------------------------------------------------------------
(* Asking and answering *)

MutantAddToTable(s, r) == {r}
AddToTable(s, r) == pending[s] \cup {r}

\* session/request_permission arrives.  Asking is activity: a turn that was
\* marked stalled is running after all.
Asks(s) ==
    /\ client[s] # 0 /\ status[s] \in InTurn
    /\ asked[s] < MaxAsks
    /\ LET r == [proc |-> client[s], id |-> asked[s] + 1]
       IN  /\ asked' = [asked EXCEPT ![s] = r.id]
           /\ waiting' = [waiting EXCEPT ![s] = @ \cup {r}]
           /\ pending' = [pending EXCEPT ![s] = AddToTable(s, r)]
           /\ timers' = timers \cup {<<s, r.id>>}
    /\ status' = [status EXCEPT ![s] = "running"]
    /\ UNCHANGED <<spawned, client>>

\* answerPermission for request r: it leaves the table, its timer is cleared
\* and the answer goes to whichever client the session has.
Answer(s, r) ==
    /\ pending' = [pending EXCEPT ![s] = @ \ {r}]
    /\ timers' = timers \ {<<s, r.id>>}
    /\ waiting' = [waiting EXCEPT ![s] = @ \ {[proc |-> client[s], id |-> r.id]}]
    /\ UNCHANGED <<asked, sessionVars>>

\* devin_permission, with whatever decision: the oldest request.
AgentAnswers(s) ==
    \E r \in pending[s] :
        /\ \A q \in pending[s] : r.id <= q.id
        /\ Answer(s, r)

\* A timer rejects the request with its id; there may be none any more.
TimerFires(s, id) ==
    /\ <<s, id>> \in timers
    /\ timers' = timers \ {<<s, id>>}
    /\ LET found == {r \in pending[s] : r.id = id}
       IN  /\ pending' = [pending EXCEPT ![s] = @ \ found]
           /\ waiting' = [waiting EXCEPT ![s] =
                 @ \ {[proc |-> client[s], id |-> r.id] : r \in found}]
    /\ UNCHANGED <<asked, sessionVars>>

-----------------------------------------------------------------------------
(* What ends a turn ends its requests *)

MutantTableAfterTurn(s) == pending
TableAfterTurn(s) == [pending EXCEPT ![s] = {}]

\* dropPendingPermissions; Devin itself waits no more: it ended the turn, or
\* its process is gone.
DropsRequests(s) ==
    /\ timers' = timers \ {<<s, r.id>> : r \in pending[s]}
    /\ pending' = TableAfterTurn(s)
    /\ waiting' = [waiting EXCEPT ![s] = {}]
    /\ UNCHANGED asked

\* session/prompt answers, with a result or an error.
TurnEnds(s) ==
    /\ client[s] # 0 /\ status[s] \in InTurn
    /\ status' = [status EXCEPT ![s] = "settled"]
    /\ UNCHANGED <<spawned, client>>
    /\ DropsRequests(s)

\* The process exits by itself, in a turn or between two.
Exits(s) ==
    /\ client[s] # 0
    /\ status' = [status EXCEPT ![s] = "settled"]
    /\ client' = [client EXCEPT ![s] = 0]
    /\ UNCHANGED spawned
    /\ DropsRequests(s)

\* devin_cancel of a session, whatever its status: the client is disposed.
Cancels(s) ==
    /\ status[s] # "absent"
    /\ status' = [status EXCEPT ![s] = "settled"]
    /\ client' = [client EXCEPT ![s] = 0]
    /\ UNCHANGED spawned
    /\ DropsRequests(s)

\* The stall watchdog: a turn that waits for the agent is not stalled.
Stalls(s) ==
    /\ client[s] # 0 /\ status[s] = "running"
    /\ pending[s] = {}
    /\ status' = [status EXCEPT ![s] = "stalled"]
    /\ UNCHANGED <<spawned, client, askVars>>

\* A session/update of a stalled turn.
Resumes(s) ==
    /\ client[s] # 0 /\ status[s] = "stalled"
    /\ status' = [status EXCEPT ![s] = "running"]
    /\ UNCHANGED <<spawned, client, askVars>>

-----------------------------------------------------------------------------
(* New turns and new processes *)

Attaches(s) ==
    /\ spawned[s] < MaxProcs
    /\ spawned' = [spawned EXCEPT ![s] = @ + 1]
    /\ client' = [client EXCEPT ![s] = spawned[s] + 1]
    /\ status' = [status EXCEPT ![s] = "running"]
    /\ asked' = [asked EXCEPT ![s] = 0]
    /\ UNCHANGED <<waiting, pending, timers>>

\* startSession registers the session and sends its first prompt.
Starts(s) == status[s] = "absent" /\ Attaches(s)

\* devin_message to a session that kept its client ...
Messages(s) ==
    /\ status[s] = "settled" /\ client[s] # 0
    /\ status' = [status EXCEPT ![s] = "running"]
    /\ UNCHANGED <<spawned, client, askVars>>

\* ... and to one that has none and is re-attached.
Reattaches(s) == status[s] = "settled" /\ client[s] = 0 /\ Attaches(s)

-----------------------------------------------------------------------------
(* Properties *)

PermissionsTypeOK ==
    /\ status \in [Sessions -> Status]
    /\ spawned \in [Sessions -> 0..MaxProcs]
    /\ client \in [Sessions -> 0..MaxProcs]
    /\ asked \in [Sessions -> 0..MaxAsks]
    /\ waiting \in [Sessions -> SUBSET Request]
    /\ pending \in [Sessions -> SUBSET Request]
    /\ timers \in SUBSET (Sessions \X (1..MaxAsks))

\* An answer reaches the process that asked: whatever cancels, exits, restarts
\* and re-attachments happened in between, the table holds requests of the
\* session's present process only, in a turn of it; and every request of the
\* table has its timer, no timer outlives its request (an old one would reject
\* the request another process made under the same id).
AnswersFindTheAsker ==
    \A s \in Sessions :
       /\ \A r \in pending[s] : r.proc = client[s] /\ status[s] \in InTurn
       /\ {<<s, r.id>> : r \in pending[s]} = {t \in timers : t[1] = s}

\* Devin never waits for ever: a request is answered, or its turn ends.
AsksAreAnswered ==
    \A s \in Sessions : \A r \in Request : r \in waiting[s] ~> r \notin waiting[s]
=============================================================================
