------------------------------- MODULE AgyPeer -------------------------------
(***************************************************************************)
(* agy-acp as a process: the frames of its stdin (framing.ts), the JSON-RPC peer *)
(* (jsonrpc.ts), the methods of the server (server.ts), the table of its sessions *)
(* (session-registry.ts), and the way it leaves (shutdown.ts, main.ts).  What a  *)
(* session does inside is the subject of AgySession.                         *)
(*                                                                           *)
(* The code is one thread.  The lines of a chunk are handled one after the other, *)
(* then the promise reactions run in the order they were queued, and only then   *)
(* comes the next event of a stream, a process or a timer.                      *)
(***************************************************************************)
EXTENDS Integers, Sequences, FiniteSets, SequencesExt

CONSTANTS
    MaxMessages,    \* bounds: on what the client writes,
    MaxPerChunk,    \* and on the messages that begin in one chunk
    MaxFrame,       \* maxFrameBytes
    HasDeadline     \* AGY_ACP_SHUTDOWN_TIMEOUT_MS is not 0

ASSUME PeerAssumption ==
    /\ {MaxMessages, MaxPerChunk, MaxFrame} \subseteq Nat /\ MaxFrame > 0
    /\ HasDeadline \in BOOLEAN

Requests == 1..MaxMessages          \* a message is named by its place among those of the client
Sessions == {0} \cup Requests       \* 0 is open and takes the prompts; the others are named by their session/new

VARIABLES
    written,        \* how many messages the client has written
    unread,         \* what is not read yet of a message of which some bytes are
    buffered,       \* FrameDecoder.pending
    lines,          \* of the chunk, not handled yet, by the place where they end
    jobs,           \* the queued promise reactions
    input, closed,  \* inputEnded; closed: the hard close
    broken,         \* nobody reads stdout any more
    call,           \* session/request_permission of the turn: "none", "pending"
    out,            \* the frames written to stdout and not in the pipe yet
    session,        \* "none": it has no child; "starting", "live", "ending", or "abandoned": disposed, its child lives
    turn,           \* the prompt whose turn session 0 runs, or 0: what runTurn has not returned for
    turnAt,         \* "none", or in ensureDriver: "replacing", "probing", "dropping"; then "chosen", "sent", "puttingAway"
    turnOpen,       \* AgySession.pending: nothing has settled the turn yet
    busy,           \* AgySession.turn: as the turn, and until what it came to is handled
    registered,     \* SessionRegistry.sessions
    toDispose,      \* the sessions disposeOnce has still to go through
    tracked,        \* late sessions, disposed when they were added
    phase,          \* "up", "cleaning", "sweeping", "flushing", "exited"
    forced,
    flushed,        \* the frames written before the flush are out
    \* history, for the properties:
    unanswered,     \* requests of which the whole frame was read, and that have no answer
    delivered,      \* of the owed prompt: the client has read its answer
    twice,          \* a request was answered again
    handled,        \* the prompt or cancel acted upon last
    owed,           \* the prompt whose turn the disposal of its session met, that waits for its child
    late            \* sessions added when disposeAll had ended

inputVars    == <<written, unread, buffered>>
promptVars   == <<turn, turnAt, turnOpen, busy>>
registryVars == <<session, promptVars, registered, toDispose, tracked>>
exitVars     == <<phase, forced, flushed>>
replyVars    == <<unanswered, twice>>
historyVars  == <<replyVars, handled, owed, late>>
peerVars == <<inputVars, lines, jobs, input, closed, broken, call, out,
          registryVars, exitVars, delivered, historyVars>>

Message(type, id) == [type |-> type, id |-> id]
LF       == Message("LF", 0)
CR       == Message("CR", 0)
Filler   == Message("filler", 0)
TooLong  == Message("oversized", 0)
Methods  == {"session/new", "session/prompt", "unknown"}
Types    == Methods \cup {"session/cancel", "response", "garbage"}

Padded(m, n) == <<m>> \o [i \in 1..n |-> Filler]

\* Frames of a byte, one of as many as are allowed and a "\r", and one of one too many.
Encodings(id) == {<<Message(t, id), LF>> : t \in Types}
                 \cup {Padded(Message("session/prompt", id), MaxFrame - 1) \o <<CR, LF>>,
                       Padded(Message("garbage", id), MaxFrame) \o <<LF>>}

Running == phase # "exited"
Waiting == Running /\ lines = {} /\ jobs = <<>>

PeerInit ==
    /\ written = 0 /\ unread = <<>> /\ buffered = <<>> /\ unanswered = {}
    /\ lines = {} /\ jobs = <<>> /\ input = "open" /\ closed = FALSE /\ broken = FALSE
    /\ call = "none" /\ out = {} /\ delivered = {}
    /\ session = [s \in Sessions |-> IF s = 0 THEN "live" ELSE "none"]
    /\ turn = 0 /\ turnAt = "none" /\ turnOpen = FALSE /\ busy = 0
    /\ registered = <<0>> /\ toDispose = <<>> /\ tracked = {}
    /\ phase = "up" /\ forced = FALSE /\ flushed = FALSE
    /\ twice = FALSE /\ handled = 0 /\ owed = {} /\ late = {}

(* The pipe of stdout *)

PipeBreaks ==
    /\ Running /\ ~broken /\ broken' = TRUE
    /\ UNCHANGED <<inputVars, lines, jobs, input, closed, call, out, delivered,
                   registryVars, exitVars, historyVars>>

Delivers ==
    /\ Running /\ ~broken /\ out # {} /\ out' = {}
    /\ delivered' = delivered \cup (owed \cap {f.id : f \in out})
    /\ flushed' = (phase = "flushing")
    /\ UNCHANGED <<inputVars, lines, jobs, input, closed, broken, call,
                   registryVars, phase, forced, historyVars>>

(* FrameDecoder *)

Ends(bytes) == {j \in DOMAIN bytes : bytes[j] = LF}

\* Where the line begins that byte j ends, or would.
Start(bytes, j) ==
    CHOOSE i \in 1..j : (i = 1 \/ bytes[i - 1] = LF) /\ \A k \in i..(j - 1) : bytes[k] # LF

\* What is left behind the last newline.
Rest(bytes) == SubSeq(bytes, Start(bytes, Len(bytes) + 1), Len(bytes))

WithoutCR(bytes, i, j) == j - i - (IF i < j /\ bytes[j - 1] = CR THEN 1 ELSE 0)

\* The bytes of the line that byte j ends.
Size(bytes, j) == WithoutCR(bytes, Start(bytes, j), j)

\* What a line is to handleLine: only its beginning says what it asks.
Parsed(m) == IF m.type \in Types THEN m ELSE Message("garbage", 0)

\* The lines up to the first that is too long, which ends the stream; as an unfinished one does.
Decoded(bytes) ==
    LET long == {j \in Ends(bytes) : Size(bytes, j) > MaxFrame}
                \cup {j \in {Len(bytes) + 1} : Len(Rest(bytes)) > MaxFrame}
        whole == {j \in Ends(bytes) : Size(bytes, j) > 0 /\ \A l \in long : j < l}
    IN {[at |-> j, message |-> Parsed(bytes[Start(bytes, j)])] : j \in whole}
       \cup {[at |-> j, message |-> TooLong] : j \in {l \in long : \A k \in long : l <= k}}

\* The next messages, one after the other.
Written(from, n) ==
    LET w[k \in 0..n] == IF k = 0 THEN {<<>>} ELSE {some \o f : some \in w[k - 1], f \in Encodings(from + k)}
    IN  w[n]

Begun(bytes) == {i \in DOMAIN bytes : bytes[i].id > 0}

\* A chunk: the rest of a message, and more messages, of which the last may be cut anywhere.
Reads ==
    /\ Waiting /\ input = "open"
    /\ \E n \in {k \in 0..MaxPerChunk : written + k <= MaxMessages} :
       \E more \in Written(written, n), cut \in 0..MaxFrame + 1 :
       LET bytes == unread \o more
           chunk == SubSeq(bytes, 1, Len(bytes) - cut)
           rest  == SubSeq(bytes, Len(bytes) - cut + 1, Len(bytes))
           all   == buffered \o chunk
       IN /\ cut < Len(bytes) /\ Begun(rest) = {}
          /\ written' = written + n /\ unread' = rest
          /\ lines' = Decoded(all) /\ buffered' = Rest(all)
          /\ unanswered' = unanswered \cup {all[i].id : i \in {k \in Begun(all) : /\ all[k].type \in Methods
                                                                          /\ \E j \in k..Len(all) : all[j] = LF}}
    /\ UNCHANGED <<jobs, input, closed, broken, call, out, delivered,
                   registryVars, exitVars, twice, handled, owed, late>>

(* JsonRpcConnection *)

\* send: nothing once closed; into a broken pipe it throws, or the error comes later.
Sent(f) == IF closed \/ broken THEN out ELSE out \cup {f}

\* The turn is over: runTurn returns what it came to.
Returns(outcome, queued) ==
    /\ jobs' = Append(queued, Message(outcome, turn))
    /\ turn' = 0 /\ turnAt' = "none" /\ turnOpen' = FALSE /\ busy' = busy

\* settleCancelled: the turn's promise has its result.  One that still chooses its child, or puts it away, returns later.
Settled(queued) ==
    IF turnAt = "sent" THEN Returns("result", queued)
    ELSE jobs' = queued /\ turnOpen' = FALSE /\ UNCHANGED <<turn, turnAt, busy>>

\* A child lives that the session does not hold: it is replaced, or its probe failed.
DriverIsNull == turnAt \in {"replacing", "dropping"}

\* shutdown.begin, and disposeAll as far as its first await: session 0 is the first registered.
Begin(queued) ==
    IF phase = "up"
    THEN /\ phase' = "cleaning" /\ toDispose' = registered /\ registered' = <<>>
         /\ session' = [session EXCEPT ![0] = IF DriverIsNull THEN "abandoned" ELSE "ending"]
         /\ Settled(queued) /\ owed' = IF DriverIsNull THEN {} ELSE {turn} \ {0}
         /\ UNCHANGED tracked
    ELSE jobs' = queued /\ UNCHANGED <<phase, registryVars, owed>>

\* A response settles the request that waits for it; to one that timed out it is
\* ignored.  A connection that ends rejects all that wait: here the one there is.
SettleCall == call' = "none"

RejectPending == SettleCall

Close(queued) ==
    /\ closed' = TRUE /\ input' = "ended" /\ unread' = <<>> /\ buffered' = <<>> /\ RejectPending
    /\ IF input = "open" THEN Begin(queued)      \* notifyClosed, once
       ELSE jobs' = queued /\ UNCHANGED <<phase, registryVars, owed>>

InputEnds ==
    /\ Waiting /\ input = "open"
    /\ input' = "ended" /\ unread' = <<>> /\ buffered' = <<>>
    /\ RejectPending /\ Begin(jobs)
    /\ UNCHANGED <<written, lines, closed, broken, out, delivered, forced, flushed, replyVars, handled, late>>

OutputFails ==
    /\ Waiting /\ ~closed /\ broken /\ Close(jobs)
    /\ UNCHANGED <<written, lines, broken, out, delivered, forced, flushed, replyVars, handled, late>>

\* n frames answer the request, if the connection still sends (history).
Answered(r, n) ==
    IF closed \/ n = 0 THEN UNCHANGED <<unanswered, twice>>
    ELSE unanswered' = unanswered \ {r} /\ twice' = (twice \/ r \notin unanswered)

\* answer: a registered method is called in a reaction; another is refused at once.
Answer(m) ==
    IF m.type = "unknown"
    THEN /\ Answered(m.id, 1)
         /\ out' = Sent(Message("error", m.id)) /\ UNCHANGED jobs
    ELSE jobs' = Append(jobs, m) /\ UNCHANGED <<replyVars, out>>

\* onNotification of server.ts queues as the requests do; `acted` is what was done at once.
\* Mutant: a cancel is acted upon at once.
MutantNotified(m) == [jobs |-> jobs, acted |-> m.id]

Notified(m) == [jobs |-> Append(jobs, m), acted |-> handled]

HandleLine ==
    /\ Running
    /\ \E l \in lines :
       LET m == l.message
       IN /\ (\A k \in lines : l.at <= k.at) /\ lines' = lines \ {l}
          /\ m # TooLong => UNCHANGED <<unread, buffered>>
          /\ \/ m = TooLong /\ Close(jobs) /\ UNCHANGED <<replyVars, out, handled>>
             \/ m.type \in Methods /\ Answer(m) /\ UNCHANGED <<call, input, closed, phase, registryVars, handled, owed>>
             \/ /\ m.type = "session/cancel" /\ jobs' = Notified(m).jobs /\ handled' = Notified(m).acted
                /\ UNCHANGED <<replyVars, out, call, input, closed, phase, registryVars, owed>>
             \/ /\ m.type = "response" /\ SettleCall
                /\ UNCHANGED <<replyVars, out, jobs, input, closed, phase, registryVars, handled, owed>>
             \/ /\ m.type = "garbage" /\ out' = Sent(Message("error", 0))
                /\ UNCHANGED <<replyVars, jobs, call, input, closed, phase, registryVars, handled, owed>>
    /\ UNCHANGED <<written, broken, delivered, forced, flushed, late>>

\* sendResult and sendError: the frame for an outcome; what cannot be serialized becomes an error.
\* Mutant: nothing is sent for it.
MutantAnswers(outcome, r) == IF outcome = "unserializable" THEN <<>> ELSE <<Message(outcome, r)>>

Answers(outcome, r) ==
    IF outcome = "unserializable" THEN <<Message("error", r)>> ELSE <<Message(outcome, r)>>

Responds(outcome, r) ==
    /\ out' = IF Answers(outcome, r) = <<>> THEN out ELSE Sent(Head(Answers(outcome, r)))
    /\ Answered(r, Len(Answers(outcome, r)))

(* The handlers of server.ts, run as reactions *)

HandleSessionNew(r) ==
    /\ \/ session' = [session EXCEPT ![r] = "starting"] /\ jobs' = Tail(jobs)
       \/ jobs' = Append(Tail(jobs), Message("error", r)) /\ UNCHANGED session
    /\ UNCHANGED <<promptVars, handled>>

\* A session refuses a prompt while a turn runs; one that was disposed is unknown.  The child of the turn is at hand,
\* is to be replaced, or is to be launched (which of them it is, AgySession says).
HandleSessionPrompt(m) ==
    /\ handled' = m.id
    /\ IF registered # <<>> /\ busy = 0
       THEN /\ turn' = m.id /\ busy' = m.id /\ turnOpen' = TRUE
            /\ \/ turnAt' = "chosen" /\ jobs' = Append(Tail(jobs), Message("chosen", m.id))
               \/ turnAt' \in {"replacing", "probing"} /\ jobs' = Tail(jobs)
       ELSE jobs' = Append(Tail(jobs), Message("error", m.id)) /\ UNCHANGED promptVars
    /\ UNCHANGED session

\* A cancel settles the turn; for a session that was disposed it is dropped.
CancelSession(m) ==
    /\ handled' = m.id
    /\ IF registered # <<>> THEN Settled(Tail(jobs)) ELSE jobs' = Tail(jobs) /\ UNCHANGED promptVars
    /\ UNCHANGED session

\* runTurn has its child: the text is sent, or after a cancel the child is put away.
DriverChosen ==
    /\ turnAt' = IF turnOpen THEN "sent" ELSE "puttingAway"
    /\ jobs' = Tail(jobs) /\ UNCHANGED <<session, turn, turnOpen, busy, handled>>

RunJob ==
    /\ Running /\ lines = {} /\ jobs # <<>>
    /\ LET job == Head(jobs)
       IN \/ /\ \/ job.type = "session/new" /\ HandleSessionNew(job.id)
                \/ job.type = "session/prompt" /\ HandleSessionPrompt(job)
                \/ job.type = "session/cancel" /\ CancelSession(job)
                \/ job.type = "chosen" /\ DriverChosen
             /\ UNCHANGED <<out, replyVars>>
          \/ /\ job.type \in {"result", "error", "unserializable"} /\ Responds(job.type, job.id)
             /\ busy' = IF busy = job.id THEN 0 ELSE busy
             /\ jobs' = Tail(jobs) /\ UNCHANGED <<session, turn, turnAt, turnOpen, handled>>
    /\ UNCHANGED <<inputVars, lines, input, closed, broken, call, delivered,
                   registered, toDispose, tracked, exitVars, owed, late>>

(* What sessions do *)

\* The child's result, its exit, or a text that cannot be sent.
TurnEnds ==
    /\ Waiting /\ turnAt = "sent"
    /\ \E outcome \in {"result", "error", "unserializable"} : Returns(outcome, jobs)
    /\ UNCHANGED <<inputVars, lines, input, closed, broken, call, out, delivered,
                   session, registered, toDispose, tracked, exitVars, historyVars>>

\* ensureDriver goes on: the old child is gone, or the new one is; then that is asked for its conversation.
ChildMoves(from, to) ==
    /\ Waiting /\ turnAt = from /\ turnAt' = to
    /\ UNCHANGED <<inputVars, lines, input, closed, broken, call, out, delivered, session, turn, busy,
                   registered, toDispose, tracked, exitVars, historyVars>>

ChildReplaced == ChildMoves("replacing", "probing") /\ UNCHANGED <<jobs, turnOpen>>

\* A late result of the child that is replaced settles the turn.
StaleResult == ChildMoves("replacing", "replacing") /\ turnOpen /\ turnOpen' = FALSE /\ UNCHANGED jobs

Probed == ChildMoves("probing", "chosen") /\ jobs' = Append(jobs, Message("chosen", turn)) /\ UNCHANGED turnOpen

ProbeFails == ChildMoves("probing", "dropping") /\ UNCHANGED <<jobs, turnOpen>>

\* The child that was launched is gone, and the turn returns what it was settled with, or that the launch failed.
TurnChildGoes ==
    /\ Waiting /\ turnAt \in {"probing", "dropping", "puttingAway"}
    /\ Returns(IF turnOpen THEN "error" ELSE "result", jobs)
    /\ session' = [session EXCEPT ![0] = IF @ = "live" THEN @ ELSE "none"]
    /\ UNCHANGED <<inputVars, lines, input, closed, broken, call, out, delivered,
                   registered, toDispose, tracked, exitVars, historyVars>>

\* start() resolves and the session is added: a late one is disposed at once.
SessionStarts(s) ==
    /\ Waiting /\ session[s] = "starting"
    /\ IF phase = "up"
       THEN /\ session' = [session EXCEPT ![s] = "live"] /\ registered' = Append(registered, s)
            /\ UNCHANGED <<tracked, late>>
       ELSE /\ session' = [session EXCEPT ![s] = "ending"] /\ tracked' = tracked \cup {s}
            /\ late' = IF phase = "cleaning" THEN late ELSE late \cup {s}
            /\ UNCHANGED registered
    /\ jobs' = Append(jobs, Message("result", s))
    /\ UNCHANGED <<inputVars, lines, input, closed, broken, call, out, delivered,
                   promptVars, toDispose, exitVars, replyVars, handled, owed>>

OpeningFails(s) ==
    /\ Waiting /\ session[s] = "starting" /\ session' = [session EXCEPT ![s] = "none"]
    /\ jobs' = Append(jobs, Message("error", s))
    /\ UNCHANGED <<inputVars, lines, input, closed, broken, call, out, delivered,
                   promptVars, registered, toDispose, tracked, exitVars, historyVars>>

\* The child of a session that ends; while a turn waits for that child, TurnChildGoes.
ChildGoes(s) ==
    /\ Waiting /\ session[s] = "ending" /\ (s = 0 => turn = 0) /\ session' = [session EXCEPT ![s] = "none"]
    /\ UNCHANGED <<inputVars, lines, jobs, input, closed, broken, call, out, delivered,
                   promptVars, registered, toDispose, tracked, exitVars, historyVars>>

\* connection.request, for a permission the turn needs: after a failed write, or the end of the input, it is
\* rejected at once.
CallStarts ==
    /\ Waiting /\ turn # 0 /\ call = "none" /\ input = "open"
    /\ out' = Sent(Message("call", 0))
    /\ call' \in IF broken THEN {"pending", "none"} ELSE {"pending"}
    /\ UNCHANGED <<inputVars, lines, jobs, input, closed, broken, delivered,
                   registryVars, exitVars, historyVars>>

CallTimesOut ==
    /\ Waiting /\ call = "pending" /\ call' = "none"
    /\ UNCHANGED <<inputVars, lines, jobs, input, closed, broken, out, delivered,
                   registryVars, exitVars, historyVars>>

(* The way out *)

\* process.exit: what is not in the pipe is lost.
MemoryIsGone == unread' = <<>> /\ buffered' = <<>> /\ written' = 0 /\ out' = {} /\ call' = "none"

\* SIGTERM, SIGINT or SIGHUP; the second one ends it.
Signal ==
    /\ Waiting
    /\ IF phase = "up" THEN Begin(jobs) /\ UNCHANGED <<forced, inputVars, out, call>>
       ELSE phase' = "exited" /\ forced' = TRUE /\ MemoryIsGone /\ UNCHANGED <<jobs, registryVars, owed>>
    /\ UNCHANGED <<lines, input, closed, broken, delivered, flushed,
                   replyVars, handled, late>>

\* disposeOnce: one session after the other; for a child that its session does not hold it does not wait.
DisposalGoesOn ==
    /\ Waiting /\ toDispose # <<>> /\ session[Head(toDispose)] \in {"none", "abandoned"}
    /\ toDispose' = Tail(toDispose)
    /\ session' = [s \in Sessions |-> IF Tail(toDispose) # <<>> /\ s = Head(Tail(toDispose)) THEN "ending" ELSE session[s]]
    /\ UNCHANGED <<inputVars, lines, jobs, input, closed, broken, call, out, delivered,
                   promptVars, registered, tracked, exitVars, historyVars>>

\* Mutant: late sessions are not waited for.
MutantAllDisposed == toDispose = <<>>

AllDisposed == toDispose = <<>> /\ \A s \in tracked : session[s] = "none"

PhaseMoves(next) ==
    /\ phase' = next /\ flushed' = IF next = "flushing" THEN out = {} ELSE flushed
    /\ IF next = "exited" THEN MemoryIsGone ELSE UNCHANGED <<inputVars, out, call>>
    /\ UNCHANGED <<lines, jobs, input, closed, broken, delivered, registryVars, historyVars>>

DisposalEnds  == Waiting /\ phase = "cleaning" /\ AllDisposed /\ PhaseMoves("sweeping") /\ UNCHANGED forced

\* cleanupStaleBridges is done.
SweepEnds     == Waiting /\ phase = "sweeping" /\ PhaseMoves("flushing") /\ UNCHANGED forced

DeadlineFires ==
    /\ Waiting /\ HasDeadline /\ phase \in {"cleaning", "sweeping"} /\ PhaseMoves("flushing")
    /\ forced' = TRUE

\* flushStdout: what was written is out, or the timer ends it.
\* Mutant: nothing ends it while the client does not read.
MutantFlushGivesUp == broken

FlushGivesUp == TRUE

FlushEnds == Waiting /\ phase = "flushing" /\ (flushed \/ FlushGivesUp) /\ PhaseMoves("exited") /\ UNCHANGED forced

PeerNext ==
    \/ PipeBreaks \/ Delivers
    \/ Reads \/ InputEnds \/ OutputFails \/ HandleLine \/ RunJob
    \/ TurnEnds \/ ChildReplaced \/ StaleResult \/ Probed \/ ProbeFails \/ TurnChildGoes
    \/ \E s \in Sessions : SessionStarts(s) \/ OpeningFails(s) \/ ChildGoes(s)
    \/ CallStarts \/ CallTimesOut
    \/ Signal \/ DisposalGoesOn \/ DisposalEnds \/ SweepEnds \/ DeadlineFires \/ FlushEnds

PeerSpec == PeerInit /\ [][PeerNext]_peerVars

\* The code runs on, and its timers fire; the client, the pipe and the children may never do anything.
PeerLiveSpec == PeerSpec /\ WF_peerVars(HandleLine) /\ WF_peerVars(RunJob) /\ WF_peerVars(DeadlineFires) /\ WF_peerVars(FlushEnds)

(* Properties *)

\* Whatever the chunks in which it arrives, a request is answered once, unless its handler still runs or the connection
\* is closed; and no request of ours waits for a client that can no longer answer.
EveryRequestIsAnswered ==
    /\ ~twice
    /\ Waiting /\ ~closed => \A r \in unanswered : turn = r \/ session[r] = "starting"
    /\ call = "pending" => input = "open"

\* Prompts and cancels take effect in the order in which the client wrote them.
HandledInOrder == [][handled' >= handled]_peerVars

\* An exit with code 0 leaves no child of a session that was added while sessions were still being disposed, and the
\* prompt whose turn the disposal met has its answer if the client reads.  Both but for a session that the disposal meets
\* while ensureDriver waits for a child to die that it no longer holds: that child is not waited for, nor is the prompt.
CleanExitLeavesNothing ==
    phase = "exited" /\ ~forced =>
        /\ \A s \in Sessions \ late : session[s] \in {"none", "starting"} \/ (s = 0 /\ session[s] = "abandoned")
        /\ flushed /\ ~closed /\ ~broken => owed \subseteq delivered

\* Once begun, the exit happens: neither a child that does not die nor a client that does not read prevents it.
ShutdownEnds == phase = "cleaning" ~> phase = "exited"
=============================================================================
