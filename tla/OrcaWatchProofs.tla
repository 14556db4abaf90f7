--------------------------- MODULE OrcaWatchProofs ---------------------------
(***************************************************************************)
(* Proofs about OrcaWatch, for any number of runs, workers, check processes  *)
(* and disturbances.                                                         *)
(*                                                                           *)
(* OneWatcher is inductive with the types alone.  RepeatsHaveACause is not:  *)
(* that nothing is told twice follows from where a message can be.  It is    *)
(* unsaid, in one inbox, or in the one delivery Orca has not been            *)
(* acknowledged (SaidOnce); of that delivery nothing was told yet, or the    *)
(* next watcher is bound to acknowledge it before it waits (Deliveries); and *)
(* every process, spawn and note is about one run (OneRun).  Underway keeps  *)
(* a late discovery or dispatch from breaking this.                          *)
(***************************************************************************)
EXTENDS OrcaWatch, TLAPS

(* The watcher of orca's messages *)

Lives   == {"none", "live", "done", "exited", "released"}
MayRun  == Runs \cup {None}
Says    == Workers \X {"done", "question"}
Lines   == [id : Int, msgs : SUBSET Says]
Procs   == [pc : {"closed", "begin", "wait", "line", "exit"}, run : MayRun, ack : Int,
            killed : BOOLEAN, line : Lines]
Rows    == UNION {[D -> Lives] : D \in SUBSET Workers}
RoundTypes == [pc : {"idle", "current", "list"}, run : MayRun, task : BOOLEAN, aborted : BOOLEAN, rows : Rows]
CallTypes  == [kind : ToolKinds \cup {"none"}, worker : Workers, run : MayRun, life : Lives,
               pc : {"idle", "create", "start", "started", "show", "lookup", "released"}]
Lefts   == [calls : Nat, kinds : SUBSET ToolKinds, asks : SUBSET Workers, exits : Nat, ends : Nat,
            fails : Nat, limit : Nat]

WatchTypes ==
    /\ disposed \in BOOLEAN /\ run \in MayRun
    /\ proc \in Slots \cup {0} /\ procs \in [Slots -> Procs]
    /\ \A s \in Slots : procs[s].pc # "closed" => procs[s].run # None
    /\ spawn \in [run : MayRun, ack : Int] /\ (spawn # NoSpawn => spawn.run # None)
    /\ pending \in [id : Int, run : MayRun]
    /\ acks \subseteq Int /\ round \in RoundTypes /\ boot \in [asked : BOOLEAN, run : MayRun]
    /\ call \in CallTypes
    /\ left \in Lefts /\ bound \in MayRun
    /\ real \in [Workers -> [run : MayRun, life : Lives]]
    /\ inbox \in [Runs -> SUBSET Says] /\ open \in [Runs -> Lines] /\ issued \in Nat
    /\ told \in [Messages -> {0, 1, 2}] /\ smooth \in BOOLEAN /\ overtaken \in BOOLEAN

WatchInv == WatchTypes /\ OneWatcher

\* Of the delivery of run r that is not acknowledged nothing was told.
Unread(r) == open[r].id \notin acks /\ \A m \in open[r].msgs : told[m] = 0

\* It was told, and the next watcher acknowledges it before it waits.
Noted(r) ==
    \/ pending = [id |-> open[r].id, run |-> r]
    \/ \E s \in Slots : procs[s].pc = "begin" /\ procs[s].ack = open[r].id

\* All that is under way is about the one run there is.
OneRun ==
    /\ \A s \in Slots : procs[s].pc # "closed" => procs[s].run = run /\ run # None
    /\ \A s \in Slots : Running(s) => ~procs[s].killed /\ pending = NoAck
    /\ spawn # NoSpawn => spawn.run = run /\ spawn.ack = pending.id
    /\ pending # NoAck => pending.run = run /\ run # None
    /\ \A r \in Runs : r # run => open[r] = Nothing

Deliveries ==
    /\ acks \subseteq 1..issued
    /\ \A r \in Runs : open[r] = Nothing \/ (open[r].id \in 1..issued /\ (Unread(r) \/ Noted(r)))
    /\ \A r \in Runs, s \in Slots : procs[s].run = r =>
          /\ procs[s].pc = "wait" => open[r] = Nothing \/ Unread(r)
          /\ procs[s].pc = "line" => Unread(r) /\ procs[s].line = open[r] /\ open[r] # Nothing

\* Nobody has said m yet.
Unsaid(m) == told[m] = 0 /\ \A r \in Runs : m \notin inbox[r] /\ m \notin open[r].msgs

SaidOnce ==
    /\ \A m \in Says : told[m] <= 1
    /\ \A r \in Runs : \A m \in inbox[r] :
          told[m] = 0 /\ \A q \in Runs : m \notin open[q].msgs /\ (q # r => m \notin inbox[q])
    /\ \A w \in Workers : real[w].life \in {"none", "live"} => Unsaid(<<w, "done">>)
    /\ \A w \in Workers : w \in left.asks => Unsaid(<<w, "question">>)

\* A worker that a dispatch is about to start has no life yet, and boot-discovery
\* does not outlive the session.
Underway ==
    /\ call.pc \in {"create", "start"} => real[call.worker].life = "none"
    /\ disposed => ~boot.asked

InOrder == OneRun /\ Deliveries /\ SaidOnce

MessagesInv == WatchInv /\ Underway /\ (smooth => InOrder)

-----------------------------------------------------------------------------
(* Types *)

\* What the constants are, as the assumption says.
LEMMA ConstantTypes ==
  /\ NoSpawn \in [run : MayRun, ack : Int] /\ NoAck \in [id : Int, run : MayRun]
  /\ Nothing \in Lines /\ Closed \in Procs /\ NoBoot \in [asked : BOOLEAN, run : MayRun]
<1>1. Nothing \in Lines
  BY DEF Nothing, Lines
<1> QED
  BY <1>1 DEF NoSpawn, NoAck, Closed, NoBoot, Procs, MayRun

\* No process of the pool is the number of none.
LEMMA SlotsArePositive == 0 \notin Slots
BY OrcaAssumption

\* Lists of workers are rows.
LEMMA RowsTypes == <<>> \in Rows /\ \A f, D \in SUBSET Workers : f \in [D -> Lives] => f \in Rows
<1>1. <<>> \in [{} -> Lives]
  OBVIOUS
<1> QED
  BY <1>1 DEF Rows

\* The rounds a reconciliation is set to are of their type.
LEMMA RoundsTyped ==
  ASSUME WatchTypes
  PROVE  /\ NoRound \in RoundTypes /\ Current \in RoundTypes
         /\ \A r \in MayRun : List(r) \in RoundTypes
         /\ \A x \in RoundTypes, b \in BOOLEAN : [x EXCEPT !.task = b] \in RoundTypes
         /\ \A x \in RoundTypes, b \in BOOLEAN : [x EXCEPT !.aborted = b] \in RoundTypes
<1>1. NoRound \in RoundTypes
  BY RowsTypes DEF NoRound, RoundTypes, MayRun
<1>2. \A x \in RoundTypes, r \in MayRun : [x EXCEPT !.pc = "current", !.run = r] \in RoundTypes
  BY DEF RoundTypes
<1>3. \A x \in RoundTypes, r \in MayRun, f \in Rows : [x EXCEPT !.pc = "list", !.run = r, !.rows = f] \in RoundTypes
  BY DEF RoundTypes
<1>4. ASSUME NEW r \in MayRun
      PROVE  [w \in {v \in Workers : real[v].run = r} |-> real[w].life] \in Rows
  <2> DEFINE D == {v \in Workers : real[v].run = r}
  <2>1. [w \in D |-> real[w].life] \in [D -> Lives]
    BY DEF WatchTypes
  <2>2. D \in SUBSET Workers
    OBVIOUS
  <2> QED
    <3> HIDE DEF D
    <3>1. [w \in D |-> real[w].life] \in Rows
      BY <2>1, <2>2 DEF Rows
    <3> QED
      BY <3>1 DEF D
<1>5. Current \in RoundTypes
  BY <1>1, <1>2 DEF Current, WatchTypes
<1>6. \A r \in MayRun : List(r) \in RoundTypes
  BY <1>1, <1>3, <1>4 DEF List
<1> QED
  BY <1>1, <1>5, <1>6 DEF RoundTypes

\* A spawned process is of its type.
LEMMA BeginsTyped ==
  ASSUME WatchTypes, NEW b \in BOOLEAN PROVE BeginsRound(b) \in RoundTypes
<1>1. round \in RoundTypes /\ run \in MayRun
  BY DEF WatchTypes
<1>2. (IF run = None THEN Current ELSE List(run)) \in RoundTypes
  BY <1>1, RoundsTyped
<1> QED
  BY <1>1, <1>2, RoundsTyped DEF BeginsRound

\* The watcher's variables.
WatcherTypes ==
    /\ proc \in Slots \cup {0} /\ procs \in [Slots -> Procs]
    /\ \A s \in Slots : procs[s].pc # "closed" => procs[s].run # None
    /\ spawn \in [run : MayRun, ack : Int] /\ (spawn # NoSpawn => spawn.run # None)
    /\ smooth \in BOOLEAN

\* Killing the watcher keeps the types of the watch.
LEMMA StopTyped ==
  ASSUME WatchTypes, NEW next \in [run : MayRun, ack : Int], StopCheck(next), next # NoSpawn => next.run # None
  PROVE  WatcherTypes'
<1>1. \A s \in Slots : /\ [procs[s] EXCEPT !.killed = TRUE] \in Procs
                       /\ [procs[s] EXCEPT !.killed = TRUE].pc = procs[s].pc
                       /\ [procs[s] EXCEPT !.killed = TRUE].run = procs[s].run
  BY DEF WatchTypes, Procs
<1>2. procs' \in [Slots -> Procs]
  BY <1>1 DEF WatchTypes, StopCheck
<1>3. \A s \in Slots : procs'[s].pc = procs[s].pc /\ procs'[s].run = procs[s].run
  BY <1>1 DEF WatchTypes, StopCheck
<1> QED
  BY <1>2, <1>3 DEF WatchTypes, WatcherTypes, StopCheck

\* So does spawning the next one.
LEMMA StartTyped ==
  ASSUME WatchTypes, NEW r \in MayRun, StartCheckProcess(r)
  PROVE  WatcherTypes'
<1>1. [run |-> r, ack |-> PendingFor(r)] \in [run : MayRun, ack : Int]
  BY DEF PendingFor, WatchTypes
<1>2. CASE disposed \/ r = None
  BY <1>2 DEF StartCheckProcess, WatchTypes, WatcherTypes, watchVars
<1>3. CASE ~(disposed \/ r = None)
  BY <1>1, <1>3, StopTyped DEF StartCheckProcess
<1> QED
  BY <1>2, <1>3

\* What is left to the environment keeps its type when it is spent.
LEMMA LeftTyped ==
  ASSUME NEW x \in Lefts
  PROVE  /\ x.calls > 0 => [x EXCEPT !.calls = @ - 1] \in Lefts
         /\ x.fails > 0 => [x EXCEPT !.fails = @ - 1] \in Lefts
         /\ x.ends > 0 => [x EXCEPT !.ends = @ - 1] \in Lefts
         /\ x.exits > 0 => [x EXCEPT !.exits = @ - 1] \in Lefts
         /\ \A w \in x.asks : [x EXCEPT !.asks = @ \ {w}] \in Lefts /\ [x EXCEPT !.asks = @ \ {w}].asks = x.asks \ {w}
BY DEF Lefts

\* So does the call of a tool as it proceeds.
LEMMA CallsTyped ==
  ASSUME NEW k \in ToolKinds, NEW w \in Workers, NEW r \in MayRun, NEW l \in Lives,
         NEW p \in {"create", "start", "started", "show", "lookup", "released"}
  PROVE  /\ NoCall \in CallTypes
         /\ [NoCall EXCEPT !.kind = k, !.worker = w, !.run = r, !.pc = p] \in CallTypes
         /\ [NoCall EXCEPT !.kind = k, !.pc = p] \in CallTypes
         /\ [NoCall EXCEPT !.kind = k, !.pc = p, !.worker = w] \in CallTypes
         /\ [NoCall EXCEPT !.kind = k, !.pc = p, !.worker = w, !.run = r, !.life = l] \in CallTypes
<1>1. NoCall \in CallTypes
  <2>1. (CHOOSE v \in Workers : TRUE) \in Workers
    BY OrcaAssumption
  <2> QED
    BY <2>1 DEF NoCall, CallTypes, MayRun, Lives
<1>2. ASSUME NEW c \in CallTypes PROVE [c EXCEPT !.kind = k, !.worker = w, !.run = r, !.pc = p] \in CallTypes
  BY DEF CallTypes
<1>3. ASSUME NEW c \in CallTypes PROVE [c EXCEPT !.kind = k, !.pc = p] \in CallTypes
  BY DEF CallTypes
<1>4. ASSUME NEW c \in CallTypes PROVE [c EXCEPT !.kind = k, !.pc = p, !.worker = w] \in CallTypes
  BY DEF CallTypes
<1>5. ASSUME NEW c \in CallTypes PROVE [c EXCEPT !.kind = k, !.pc = p, !.worker = w, !.run = r, !.life = l] \in CallTypes
  BY DEF CallTypes
<1> QED
  BY <1>1, <1>2, <1>3, <1>4, <1>5

\* So does what the agent was told.
LEMMA TellTyped ==
  ASSUME WatchTypes, NEW ms, Tell(ms)
  PROVE  /\ told' \in [Messages -> {0, 1, 2}]
         /\ \A m \in Messages : told'[m] = IF m \in ms /\ told[m] < 2 THEN told[m] + 1 ELSE told[m]
BY DEF WatchTypes, Tell

\* The initial state is well typed.
LEMMA InitTypes == Init => WatchTypes
<1> SUFFICES ASSUME Init PROVE WatchTypes
  OBVIOUS
<1>1. bound \in MayRun
  <2>1. (CHOOSE r \in Runs : TRUE) \in Runs
    BY OrcaAssumption
  <2> QED
    BY <2>1 DEF Init, MayRun
<1>2. round \in RoundTypes
  BY RowsTypes DEF Init, NoRound, RoundTypes, MayRun
<1>3. left \in Lefts
  BY OrcaAssumption DEF Init, Lefts
<1>4. procs \in [Slots -> Procs] /\ open \in [Runs -> Lines] /\ inbox \in [Runs -> SUBSET Says]
  BY ConstantTypes DEF Init
<1>5. real \in [Workers -> [run : MayRun, life : Lives]]
  BY DEF Init, MayRun, Lives
<1>6. NoCall \in CallTypes
  <2>1. (CHOOSE v \in Workers : TRUE) \in Workers
    BY OrcaAssumption
  <2> QED
    BY <2>1 DEF NoCall, CallTypes, MayRun, Lives
<1>7. \A s \in Slots : procs[s].pc = "closed"
  BY DEF Init, Closed
<1>8. run \in MayRun /\ told \in [Messages -> {0, 1, 2}] /\ boot \in [asked : BOOLEAN, run : MayRun]
  BY <1>1 DEF Init, MayRun
<1> QED
  BY <1>1, <1>2, <1>3, <1>4, <1>5, <1>6, <1>7, <1>8, ConstantTypes DEF Init, WatchTypes

\* What the steps of a process make of it.
LEMMA ProcExits ==
  ASSUME NEW c \in Procs
  PROVE  [c EXCEPT !.pc = "exit"] \in Procs /\ [c EXCEPT !.pc = "exit"].run = c.run
BY DEF Procs

\* A process that has acknowledged waits.
LEMMA ProcWaits ==
  ASSUME NEW c \in Procs, NEW a \in Int
  PROVE  [c EXCEPT !.pc = "wait", !.ack = a] \in Procs /\ [c EXCEPT !.pc = "wait", !.ack = a].run = c.run
BY DEF Procs

\* A process that found messages prints them.
LEMMA ProcPrints ==
  ASSUME NEW c \in Procs, NEW p \in {"line", "exit"}, NEW l \in Lines
  PROVE  [c EXCEPT !.pc = p, !.line = l] \in Procs /\ [c EXCEPT !.pc = p, !.line = l].run = c.run
BY DEF Procs

\* One process gets another state, which has a run unless it is closed.
LEMMA ProcTyped ==
  ASSUME WatchTypes, NEW s \in Slots, NEW c \in Procs, c.pc # "closed" => c.run # None,
         procs' = [procs EXCEPT ![s] = c]
  PROVE  procs' \in [Slots -> Procs] /\ \A q \in Slots : procs'[q].pc # "closed" => procs'[q].run # None
BY DEF WatchTypes

\* The steps of a check process keep the types.
LEMMA CheckTypes ==
  ASSUME WatchTypes, NEW s \in Slots, Check(s) \/ CheckEnds(s)
  PROVE  WatchTypes'
<1> DEFINE c == procs[s]
<1>0. c \in Procs /\ open \in [Runs -> Lines] /\ inbox \in [Runs -> SUBSET Says] /\ issued \in Nat /\ left \in Lefts
  BY DEF WatchTypes
<1>1. Closed.pc = "closed" /\ Closed \in Procs
  BY ConstantTypes DEF Closed
<1>9. c.pc # "closed" => c.run # None
  BY DEF WatchTypes
<1>2. ASSUME NEW i, Acknowledge(i) PROVE open' \in [Runs -> Lines]
  BY <1>0, <1>2, ConstantTypes DEF Acknowledge
<1>3. CASE CheckBegins(s)
  <2>1. /\ c.pc = "begin" /\ procs' = [procs EXCEPT ![s] = [c EXCEPT !.pc = "wait", !.ack = 0]]
    BY <1>3 DEF CheckBegins
  <2>2. procs' \in [Slots -> Procs] /\ \A q \in Slots : procs'[q].pc # "closed" => procs'[q].run # None
    <3>1. [c EXCEPT !.pc = "wait", !.ack = 0] \in Procs /\ [c EXCEPT !.pc = "wait", !.ack = 0].run = c.run
      <4>1. PICK a \in Int : a = 0
        OBVIOUS
      <4>2. [c EXCEPT !.pc = "wait", !.ack = a] \in Procs /\ [c EXCEPT !.pc = "wait", !.ack = a].run = c.run
        BY <1>0, ProcWaits
      <4> QED
        BY <4>1, <4>2
    <3> QED
      BY <1>9, <2>1, <3>1, ProcTyped
  <2> QED
    BY <1>2, <1>3, <2>2 DEF CheckBegins, WatchTypes
<1>4. CASE CheckPrints(s)
  <2>1. c.pc = "wait" /\ c.run \in Runs
    BY <1>0, <1>4 DEF CheckPrints, WatchTypes, Procs, MayRun
  <2>2. open' \in [Runs -> Lines] /\ inbox' \in [Runs -> SUBSET Says] /\ issued' \in Nat
    <3>1. issued + 1 \in Int /\ [id |-> issued + 1, msgs |-> inbox[c.run]] \in Lines
      BY <1>0, <2>1 DEF Lines
    <3> QED
      BY <1>0, <1>4, <3>1 DEF CheckPrints
  <2>3. procs' = [procs EXCEPT ![s] = [c EXCEPT !.pc = "line", !.line = open'[c.run]]] /\ open'[c.run] \in Lines
    BY <1>4, <2>1, <2>2 DEF CheckPrints
  <2>4. procs' \in [Slots -> Procs] /\ \A q \in Slots : procs'[q].pc # "closed" => procs'[q].run # None
    <3> DEFINE l == open'[c.run]
    <3>1. [c EXCEPT !.pc = "line", !.line = l] \in Procs /\ [c EXCEPT !.pc = "line", !.line = l].run = c.run
      BY <1>0, <2>3, ProcPrints
    <3> QED
      BY <1>9, <2>1, <2>3, <3>1, ProcTyped
  <2> QED
    BY <1>4, <2>2, <2>4 DEF CheckPrints, WatchTypes
<1>5. CASE CheckTimesOut(s) \/ CheckEnds(s)
  <2>1. c.pc \in {"wait", "begin"} /\ procs' = [procs EXCEPT ![s] = [c EXCEPT !.pc = "exit"]]
    BY <1>5 DEF CheckTimesOut, CheckEnds
  <2>2. procs' \in [Slots -> Procs] /\ \A q \in Slots : procs'[q].pc # "closed" => procs'[q].run # None
    <3>1. [c EXCEPT !.pc = "exit"] \in Procs /\ [c EXCEPT !.pc = "exit"].run = c.run
      BY <1>0, ProcExits
    <3> QED
      BY <1>9, <2>1, <3>1, ProcTyped
  <2>3. left' \in Lefts /\ smooth' \in BOOLEAN
    BY <1>0, <1>5, LeftTyped DEF CheckTimesOut, CheckEnds, WatchTypes
  <2> QED
    BY <1>5, <2>2, <2>3 DEF CheckTimesOut, CheckEnds, WatchTypes, orcaVars
<1>6. CASE LineIsRead(s)
  <2>1. c.pc = "line" /\ procs' = [procs EXCEPT ![s] = [c EXCEPT !.pc = "exit", !.line = Nothing]]
    BY <1>6 DEF LineIsRead
  <2>2. procs' \in [Slots -> Procs] /\ \A q \in Slots : procs'[q].pc # "closed" => procs'[q].run # None
    <3>1. [c EXCEPT !.pc = "exit", !.line = Nothing] \in Procs /\ [c EXCEPT !.pc = "exit", !.line = Nothing].run = c.run
      BY <1>0, ConstantTypes, ProcPrints
    <3> QED
      BY <1>9, <2>1, <3>1, ProcTyped
  <2>3. told' \in [Messages -> {0, 1, 2}]
    BY <1>6, TellTyped DEF LineIsRead
  <2>4. acks' \subseteq Int /\ pending' \in [id : Int, run : MayRun]
    <3>1. c.line.id \in Int /\ c.run \in MayRun
      BY <1>0 DEF Procs, Lines
    <3> QED
      BY <1>6, <3>1 DEF LineIsRead, WatchTypes
  <2> QED
    BY <1>6, <2>2, <2>3, <2>4 DEF LineIsRead, WatchTypes, orcaVars
<1>7. CASE CheckCloses(s)
  <2>1. procs' \in [Slots -> Procs] /\ \A q \in Slots : procs'[q].pc # "closed" => procs'[q].run # None
    BY <1>1, <1>7, ProcTyped DEF CheckCloses
  <2> QED
    BY <1>7, <2>1 DEF CheckCloses, WatchTypes, orcaVars
<1> QED
  BY <1>3, <1>4, <1>5, <1>6, <1>7 DEF Check

\* The spawn of a process keeps them.
LEMMA SpawnTypes ==
  ASSUME WatchTypes, SpawnResolves PROVE WatchTypes'
<1> DEFINE c == [Closed EXCEPT !.pc = IF spawn.ack = 0 THEN "wait" ELSE "begin", !.run = spawn.run, !.ack = spawn.ack]
<1>1. spawn.run \in MayRun /\ spawn.ack \in Int /\ spawn.run # None
  BY DEF WatchTypes, SpawnResolves
<1>2. c \in Procs /\ c.run = spawn.run
  <2> DEFINE p == IF spawn.ack = 0 THEN "wait" ELSE "begin"
  <2>1. p \in {"wait", "begin"} /\ Closed \in Procs
    BY ConstantTypes
  <2> HIDE DEF p
  <2>2. ASSUME NEW e \in Procs PROVE LET d == [e EXCEPT !.pc = p, !.run = spawn.run, !.ack = spawn.ack] IN d \in Procs /\ d.run = spawn.run
    <3> HIDE DEF c
    <3> QED
      BY <1>1, <2>1 DEF Procs
  <2> QED
    BY <2>1, <2>2 DEF p
<1>3. PICK s \in Slots : procs' = [procs EXCEPT ![s] = c] /\ proc' = s
  BY DEF SpawnResolves
<1> HIDE DEF c
<1>4. procs' \in [Slots -> Procs] /\ \A q \in Slots : procs'[q].pc # "closed" => procs'[q].run # None
  BY <1>1, <1>2, <1>3, ProcTyped
<1> QED
  BY <1>3, <1>4, ConstantTypes DEF SpawnResolves, WatchTypes, orcaVars


\* Steps that leave the watcher alone, or do to it what a start or stop does.
LEMMA DiscoversTyped ==
  ASSUME WatchTypes, NEW r \in MayRun, Discovers(r)
  PROVE  WatcherTypes' /\ run' \in MayRun
<1>1. CASE r = None
  BY <1>1 DEF Discovers, WatchTypes, WatcherTypes, watchVars
<1>2. CASE r # None
  BY <1>2, StartTyped DEF Discovers
<1> QED
  BY <1>1, <1>2

\* The return of an acknowledgement keeps them.
LEMMA AckTypes ==
  ASSUME WatchTypes, NEW id \in acks, AckReturns(id) PROVE WatchTypes'
<1>1. open' \in [Runs -> Lines]
  BY ConstantTypes DEF AckReturns, Acknowledge, WatchTypes
<1>2. left' \in Lefts
  BY LeftTyped DEF AckReturns, WatchTypes
<1>3. acks' \subseteq Int
  BY DEF AckReturns, WatchTypes
<1> QED
  BY <1>1, <1>2, <1>3 DEF AckReturns, WatchTypes, watchVars

\* The restart timer keeps them.
LEMMA TimerTypes == ASSUME WatchTypes, TimerFires PROVE WatchTypes'
<1>1. WatcherTypes'
  <2>1. CASE ~disposed /\ proc = 0 /\ run # None
    BY <2>1, StartTyped DEF TimerFires, WatchTypes
  <2>2. CASE ~(~disposed /\ proc = 0 /\ run # None)
    BY <2>2 DEF TimerFires, WatchTypes, WatcherTypes
  <2> QED
    BY <2>1, <2>2
<1> QED
  BY <1>1 DEF TimerFires, WatchTypes, WatcherTypes, orcaVars

\* Reconciliation keeps them.
LEMMA RoundTypesKept ==
  ASSUME WatchTypes, RoundStarts \/ RunIsDiscovered \/ RoundLands \/ RoundFails \/ BootLands \/ BootFails
  PROVE  WatchTypes'
<1>0. TRUE \in BOOLEAN /\ round.task \in BOOLEAN /\ round \in RoundTypes /\ run \in MayRun /\ left \in Lefts
  BY DEF WatchTypes, RoundTypes
<1>1. CASE RoundStarts
  <2>1. round' \in RoundTypes
    BY <1>0, <1>1, BeginsTyped DEF RoundStarts
  <2> QED
    BY <1>1, <2>1 DEF RoundStarts, WatchTypes, watchVars, orcaVars
<1>2. CASE RunIsDiscovered
  <2>1. WatcherTypes' /\ run' \in MayRun
    <3>1. CASE round.aborted \/ disposed
      BY <1>2, <3>1 DEF RunIsDiscovered, WatchTypes, WatcherTypes, watchVars
    <3>2. CASE ~(round.aborted \/ disposed)
      <4>1. round.run \in MayRun
        BY <1>0 DEF RoundTypes
      <4> QED
        BY <1>2, <3>2, <4>1, DiscoversTyped DEF RunIsDiscovered
    <3> QED
      BY <3>1, <3>2
  <2>2. round' \in RoundTypes
    <3>1. List(run') \in RoundTypes /\ NoRound \in RoundTypes
      BY <2>1, RoundsTyped
    <3>2. [List(run') EXCEPT !.task = round.task] \in RoundTypes
      BY <1>0, <3>1, RoundsTyped
    <3> QED
      BY <1>2, <3>1, <3>2 DEF RunIsDiscovered
  <2> QED
    BY <1>2, <2>1, <2>2 DEF RunIsDiscovered, WatchTypes, WatcherTypes, orcaVars
<1>3. CASE RoundLands
  <2>1. told' \in [Messages -> {0, 1, 2}]
    <3>1. CASE UNCHANGED told
      BY <3>1 DEF WatchTypes
    <3>2. CASE Tell(Alerts(round.rows))
      BY <3>2, TellTyped
    <3> QED
      BY <1>3, <3>1, <3>2 DEF RoundLands
  <2>2. round' \in RoundTypes
    BY <1>3, RoundsTyped DEF RoundLands
  <2> QED
    BY <1>3, <2>1, <2>2 DEF RoundLands, WatchTypes, watchVars, orcaVars
<1>4. CASE RoundFails
  <2>1. round' \in RoundTypes
    <3>1. List(run) \in RoundTypes /\ NoRound \in RoundTypes
      BY <1>0, RoundsTyped
    <3>2. [List(run) EXCEPT !.task = round.task] \in RoundTypes
      BY <1>0, <3>1, RoundsTyped
    <3> QED
      BY <1>4, <3>1, <3>2 DEF RoundFails
  <2>2. left' \in Lefts
    BY <1>0, <1>4, LeftTyped DEF RoundFails
  <2> QED
    BY <1>4, <2>1, <2>2 DEF RoundFails, WatchTypes, watchVars, orcaVars
<1>5. CASE BootLands
  <2>1. WatcherTypes' /\ run' \in MayRun
    <3>1. boot.run \in MayRun
      BY DEF WatchTypes
    <3> QED
      BY <1>5, <3>1, DiscoversTyped DEF BootLands
  <2>2. round' \in RoundTypes
    BY <1>0, <1>5, <2>1, RoundsTyped DEF BootLands
  <2> QED
    BY <1>5, <2>1, <2>2, ConstantTypes DEF BootLands, WatchTypes, WatcherTypes, orcaVars
<1>6. CASE BootFails
  <2>1. round' \in RoundTypes /\ left' \in Lefts
    BY <1>0, <1>6, BeginsTyped, LeftTyped DEF BootFails
  <2> QED
    BY <1>6, <2>1, ConstantTypes DEF BootFails, WatchTypes, watchVars, orcaVars
<1> QED
  BY <1>1, <1>2, <1>3, <1>4, <1>5, <1>6

\* The start and end of a session keep them.
LEMMA SessionTypes ==
  ASSUME WatchTypes, SessionEnds \/ SessionStarts PROVE WatchTypes'
<1>1. CASE SessionEnds
  <2>1. WatcherTypes'
    BY <1>1, StopTyped, ConstantTypes DEF SessionEnds, StopCheckProcess
  <2>2. left' \in Lefts
    BY <1>1, LeftTyped DEF SessionEnds, WatchTypes
  <2>3. round' \in RoundTypes
    <3>1. (round.aborted \/ (round.pc # "idle" /\ round.task)) \in BOOLEAN /\ round \in RoundTypes
      BY DEF WatchTypes, RoundTypes
    <3> QED
      BY <1>1, <3>1, RoundsTyped DEF SessionEnds
  <2>4. run' \in MayRun
    BY <1>1 DEF SessionEnds, MayRun
  <2> QED
    BY <1>1, <2>1, <2>2, <2>3, <2>4, ConstantTypes DEF SessionEnds, WatchTypes, WatcherTypes, orcaVars
<1>2. CASE SessionStarts
  <2>1. boot' \in [asked : BOOLEAN, run : MayRun]
    BY <1>2 DEF SessionStarts, WatchTypes
  <2> QED
    BY <1>2, <2>1 DEF SessionStarts, WatchTypes, watchVars, orcaVars
<1> QED
  BY <1>1, <1>2

\* What the workers do keeps them.
LEMMA WorkerTypes ==
  ASSUME WatchTypes, NEW w \in Workers, WorkerReports(w) \/ WorkerAsks(w) \/ WorkerExits(w)
  PROVE  WatchTypes'
<1>0. /\ real \in [Workers -> [run : MayRun, life : Lives]]
      /\ left \in Lefts /\ inbox \in [Runs -> SUBSET Says]
  BY DEF WatchTypes
<1>1. ASSUME NEW l \in Lives, real' = [real EXCEPT ![w].life = l]
      PROVE  real' \in [Workers -> [run : MayRun, life : Lives]]
  <2>1. [real[w] EXCEPT !.life = l] \in [run : MayRun, life : Lives]
    BY <1>0
  <2> QED
    BY <1>0, <1>1, <2>1
<1>2. "done" \in Lives /\ "exited" \in Lives
  BY DEF Lives
<1>3. <<w, "done">> \in Says /\ <<w, "question">> \in Says
  BY DEF Says
<1>4. ASSUME NEW m \in Says, inbox' = [inbox EXCEPT ![real[w].run] = @ \cup {m}]
      PROVE  inbox' \in [Runs -> SUBSET Says]
  BY <1>0, <1>4
<1>5. CASE WorkerReports(w)
  <2>1. real' \in [Workers -> [run : MayRun, life : Lives]]
    BY <1>1, <1>2, <1>5 DEF WorkerReports
  <2>2. inbox' \in [Runs -> SUBSET Says]
    BY <1>3, <1>4, <1>5 DEF WorkerReports
  <2> QED
    BY <1>5, <2>1, <2>2 DEF WorkerReports, WatchTypes, watchVars
<1>6. CASE WorkerAsks(w)
  <2>1. inbox' \in [Runs -> SUBSET Says]
    BY <1>3, <1>4, <1>6 DEF WorkerAsks
  <2>2. left' \in Lefts
    BY <1>0, <1>6, LeftTyped DEF WorkerAsks
  <2> QED
    BY <1>6, <2>1, <2>2 DEF WorkerAsks, WatchTypes, watchVars
<1>7. CASE WorkerExits(w)
  <2>1. real' \in [Workers -> [run : MayRun, life : Lives]]
    BY <1>1, <1>2, <1>7 DEF WorkerExits
  <2>2. left' \in Lefts
    BY <1>0, <1>7, LeftTyped DEF WorkerExits
  <2> QED
    BY <1>7, <2>1, <2>2 DEF WorkerExits, WatchTypes, watchVars
<1> QED
  BY <1>5, <1>6, <1>7

\* A call that goes on to a next command keeps its type.
LEMMA CallTypesKept ==
  ASSUME NEW c \in CallTypes, NEW p \in {"create", "start", "started"}, NEW r \in MayRun
  PROVE  [c EXCEPT !.pc = p] \in CallTypes /\ [c EXCEPT !.pc = p, !.run = r] \in CallTypes
BY DEF CallTypes

\* A call that begins is counted.
LEMMA CallsLeft ==
  ASSUME WatchTypes, NEW k, Calls(k) PROVE left' \in Lefts /\ disposed = FALSE
BY LeftTyped DEF Calls, WatchTypes

\* Dispatches keep the types.
LEMMA ToolTypes ==
  ASSUME WatchTypes, Tool \/ DispatchFails PROVE WatchTypes'
<1>0. /\ call \in CallTypes /\ NoCall \in CallTypes /\ run \in MayRun /\ left \in Lefts
      /\ real \in [Workers -> [run : MayRun, life : Lives]]
  BY CallsTyped, OrcaAssumption DEF WatchTypes, ToolKinds, Lives, MayRun
<1>c. call.worker \in Workers /\ call.run \in MayRun
  BY <1>0 DEF CallTypes
<1>1. ASSUME NEW r \in Runs, RunIsCreated(r) PROVE WatchTypes'
  <2>1. r \in MayRun /\ "start" \in {"create", "start", "started"}
    BY DEF MayRun
  <2>2. call' \in CallTypes
    BY <1>0, <1>1, <2>1, CallTypesKept DEF RunIsCreated
  <2> QED
    BY <1>1, <2>1, <2>2 DEF RunIsCreated, WatchTypes
<1>2. CASE WorkerStarts
  <2>1. [run |-> call.run, life |-> "live"] \in [run : MayRun, life : Lives]
    BY <1>c DEF Lives
  <2>2. real' \in [Workers -> [run : MayRun, life : Lives]]
    BY <1>0, <1>2, <2>1 DEF WorkerStarts
  <2>3. call' \in CallTypes
    BY <1>0, <1>2, CallTypesKept DEF WorkerStarts
  <2> QED
    BY <1>2, <2>2, <2>3 DEF WorkerStarts, WatchTypes, watchVars
<1>3. CASE DispatchReturns
  <2>1. WatcherTypes'
    BY <1>0, <1>3, StartTyped DEF DispatchReturns, WatchTypes, WatcherTypes, watchVars
  <2> QED
    BY <1>0, <1>3, <2>1 DEF DispatchReturns, WatchTypes, WatcherTypes, orcaVars
<1>4. CASE ObservedReturns
  <2>1. WatcherTypes'
    BY <1>0, <1>4, StartTyped DEF ObservedReturns
  <2>2. round' \in RoundTypes
    BY <1>4, BeginsTyped DEF ObservedReturns
  <2> QED
    BY <1>0, <1>4, <2>1, <2>2 DEF ObservedReturns, WatchTypes, WatcherTypes, orcaVars
<1>5. CASE LookupReturns
  <2>1. WatcherTypes' /\ run' \in MayRun
    BY <1>0, <1>5, <1>c, StartTyped DEF LookupReturns, WatchTypes, WatcherTypes, watchVars
  <2> QED
    BY <1>0, <1>5, <2>1 DEF LookupReturns, WatchTypes, WatcherTypes, orcaVars
<1>6. CASE ReleaseReturns
  BY <1>0, <1>6 DEF ReleaseReturns, WatchTypes, watchVars, orcaVars
<1>7. CASE DispatchFails
  <2>1. left' \in Lefts
    BY <1>0, <1>7, LeftTyped DEF DispatchFails
  <2> QED
    BY <1>0, <1>7, <2>1 DEF DispatchFails, WatchTypes, watchVars, orcaVars
<1> QED
  BY <1>1, <1>2, <1>3, <1>4, <1>5, <1>6, <1>7 DEF Tool

\* The other tools keep them.
LEMMA CallingTypes ==
  ASSUME WatchTypes,
         \/ ObservationStarts \/ ObservationStops \/ \E r \in Runs : RunIsObserved(r)
         \/ \E w \in Workers : \/ DispatchIsCalled(w) \/ WorkerIsLookedUp(w)
                               \/ WorkerIsReleased(w) \/ WorkerIsForgotten(w)
  PROVE  WatchTypes'
<1>0. /\ run \in MayRun /\ real \in [Workers -> [run : MayRun, life : Lives]] /\ Runs \subseteq MayRun
      /\ {"dispatch", "observe", "lookup", "release"} \subseteq ToolKinds /\ None \in MayRun /\ "none" \in Lives
  BY DEF WatchTypes, ToolKinds, MayRun, Lives
<1>1. CASE ObservationStarts
  <2>1. WatcherTypes'
    BY <1>0, <1>1, StartTyped DEF ObservationStarts, WatchTypes, WatcherTypes, watchVars
  <2>2. round' \in RoundTypes /\ left' \in Lefts
    BY <1>1, BeginsTyped, CallsLeft DEF ObservationStarts
  <2> QED
    BY <1>1, <2>1, <2>2 DEF ObservationStarts, WatchTypes, WatcherTypes, orcaVars
<1>2. CASE ObservationStops
  <2>1. WatcherTypes'
    BY <1>2, StopTyped, ConstantTypes DEF ObservationStops, StopCheckProcess
  <2>2. left' \in Lefts
    BY <1>2, CallsLeft DEF ObservationStops
  <2> QED
    BY <1>0, <1>2, <2>1, <2>2 DEF ObservationStops, WatchTypes, WatcherTypes, orcaVars
<1>3. ASSUME NEW r \in Runs, RunIsObserved(r) PROVE WatchTypes'
  <2>1. left' \in Lefts
    BY <1>3, CallsLeft DEF RunIsObserved
  <2>2. call' \in CallTypes
    <3>1. PICK w \in Workers : TRUE
      BY OrcaAssumption
    <3>2. [NoCall EXCEPT !.kind = "observe", !.pc = "show"] \in CallTypes
      BY <1>0, <3>1, CallsTyped
    <3> QED
      BY <1>3, <3>2 DEF RunIsObserved
  <2> QED
    BY <1>0, <1>3, <2>1, <2>2 DEF RunIsObserved, WatchTypes, orcaVars
<1>4. ASSUME NEW w \in Workers, DispatchIsCalled(w) PROVE WatchTypes'
  <2>1. left' \in Lefts
    BY <1>4, CallsLeft DEF DispatchIsCalled
  <2>2. call' \in CallTypes
    <3> DEFINE p == IF run = None THEN "create" ELSE "start"
    <3>1. [NoCall EXCEPT !.kind = "dispatch", !.worker = w, !.run = run, !.pc = p] \in CallTypes
      <4>1. p \in {"create", "start", "started", "show", "lookup", "released"}
        OBVIOUS
      <4> HIDE DEF p
      <4> QED
        BY <1>0, <4>1, CallsTyped
    <3> QED
      BY <1>4, <3>1 DEF DispatchIsCalled
  <2> QED
    BY <1>4, <2>1, <2>2 DEF DispatchIsCalled, WatchTypes, watchVars, orcaVars
<1>5. ASSUME NEW w \in Workers, WorkerIsLookedUp(w) PROVE WatchTypes'
  <2>1. left' \in Lefts
    BY <1>5, CallsLeft DEF WorkerIsLookedUp
  <2>2. call' \in CallTypes
    <3>1. real[w].run \in MayRun /\ real[w].life \in Lives
      BY <1>0
    <3>2. [NoCall EXCEPT !.kind = "lookup", !.pc = "lookup", !.worker = w, !.run = real[w].run,
                         !.life = real[w].life] \in CallTypes
      BY <1>0, <3>1, CallsTyped
    <3> QED
      BY <1>5, <3>2 DEF WorkerIsLookedUp
  <2> QED
    BY <1>5, <2>1, <2>2 DEF WorkerIsLookedUp, WatchTypes, watchVars, orcaVars
<1>6. ASSUME NEW w \in Workers, WorkerIsReleased(w) PROVE WatchTypes'
  <2>1. left' \in Lefts
    BY <1>6, CallsLeft DEF WorkerIsReleased
  <2>2. call' \in CallTypes
    <3>1. [NoCall EXCEPT !.kind = "release", !.pc = "released", !.worker = w] \in CallTypes
      BY <1>0, CallsTyped
    <3> QED
      BY <1>6, <3>1 DEF WorkerIsReleased
  <2>3. real' \in [Workers -> [run : MayRun, life : Lives]]
    <3>1. [real[w] EXCEPT !.life = "released"] \in [run : MayRun, life : Lives]
      BY <1>0 DEF Lives
    <3> QED
      BY <1>0, <1>6, <3>1 DEF WorkerIsReleased
  <2> QED
    BY <1>6, <2>1, <2>2, <2>3 DEF WorkerIsReleased, WatchTypes, watchVars
<1>7. ASSUME NEW w \in Workers, WorkerIsForgotten(w) PROVE WatchTypes'
  <2>1. left' \in Lefts
    BY <1>7, CallsLeft DEF WorkerIsForgotten
  <2> QED
    BY <1>7, <2>1 DEF WorkerIsForgotten, WatchTypes, watchVars, orcaVars
<1> QED
  BY <1>1, <1>2, <1>3, <1>4, <1>5, <1>6, <1>7

\* Every step keeps the types.
LEMMA NextTypes == ASSUME WatchTypes, [Next]_vars PROVE WatchTypes'
<1>1. CASE UNCHANGED vars
  BY <1>1 DEF vars, WatchTypes, watchVars, orcaVars
<1>2. CASE Next
  BY <1>2, SpawnTypes, TimerTypes, CheckTypes, AckTypes, RoundTypesKept, SessionTypes, ToolTypes,
     CallingTypes, WorkerTypes DEF Next, Rounds
<1> QED
  BY <1>1, <1>2

-----------------------------------------------------------------------------
(* One watcher *)

\* Without a call none is under way.
LEMMA NoCallIsIdle == NoCall.pc = "idle" /\ NoCall.kind = "none"
BY DEF NoCall

\* A closed process does not run.
LEMMA ClosedFacts ==
  Closed.pc = "closed" /\ Closed.run = None /\ Closed.ack = 0 /\ Closed.killed = FALSE /\ Closed.line = Nothing
BY DEF Closed

\* What a kill leaves as it was.
LEMMA KilledFacts ==
  ASSUME NEW c \in Procs, NEW d, d = [c EXCEPT !.killed = TRUE]
  PROVE  d.pc = c.pc /\ d.run = c.run /\ d.ack = c.ack /\ d.killed = TRUE /\ d.line = c.line
BY DEF Procs

\* A stop kills the process the extension knows of.
LEMMA StopKills ==
  ASSUME WatchTypes, NEW next, StopCheck(next)
  PROVE  /\ proc' = 0 /\ spawn' = next
         /\ \A s \in Slots : /\ procs'[s].pc = procs[s].pc /\ procs'[s].run = procs[s].run
                             /\ procs'[s].ack = procs[s].ack /\ procs'[s].line = procs[s].line
         /\ \A s \in Slots : s # proc => procs'[s] = procs[s]
         /\ proc # 0 => procs'[proc].killed = TRUE
<1>1. ASSUME NEW s \in Slots
      PROVE  /\ procs'[s].pc = procs[s].pc /\ procs'[s].run = procs[s].run
             /\ procs'[s].ack = procs[s].ack /\ procs'[s].line = procs[s].line
             /\ s # proc => procs'[s] = procs[s]
             /\ s = proc => procs'[s].killed = TRUE
  <2>1. procs[s] \in Procs
    BY DEF WatchTypes
  <2>2. procs'[s] = IF s = proc THEN [procs[s] EXCEPT !.killed = TRUE] ELSE procs[s]
    BY DEF StopCheck
  <2> QED
    BY <2>1, <2>2, KilledFacts
<1> QED
  BY <1>1 DEF StopCheck, WatchTypes

\* The spawn a stop leaves is none, or one for the bound run.
LEMMA StoppedWatch ==
  ASSUME WatchTypes, OneWatcher, NEW next, StopCheck(next),
         next = NoSpawn \/ (~disposed' /\ run' # None /\ next.run = run')
  PROVE  OneWatcher'
<1>1. /\ proc' = 0 /\ spawn' = next
      /\ \A s \in Slots : procs'[s].pc = procs[s].pc
      /\ \A s \in Slots : s # proc => procs'[s] = procs[s]
      /\ proc # 0 => procs'[proc].killed = TRUE
  BY StopKills
<1>2. \A s \in Slots : ~(Running(s) /\ ~procs[s].killed)'
  BY <1>1, SlotsArePositive DEF OneWatcher, Running
<1> QED
  BY <1>1, <1>2 DEF OneWatcher

\* No run, or no session: no watcher.
LEMMA NoWatch ==
  ASSUME OneWatcher, UNCHANGED <<proc, procs, spawn>>, run = None \/ disposed
  PROVE  OneWatcher'
BY DEF OneWatcher, Running

\* One watcher remains if the processes, the spawn and the timer do.
LEMMA SameWatch ==
  ASSUME OneWatcher, UNCHANGED <<proc, procs, spawn, disposed, run, overtaken>>, Switching => Switching'
  PROVE  OneWatcher'
BY DEF OneWatcher, Running

\* Stopping the watcher and spawning the next leaves one.
LEMMA StartedWatch ==
  ASSUME WatchTypes, OneWatcher, NEW r, StartCheckProcess(r), disposed' = disposed, run' = r,
         r = None => run = None
  PROVE  OneWatcher'
<1>1. CASE disposed \/ r = None
  BY <1>1, NoWatch DEF StartCheckProcess, watchVars
<1>2. CASE ~(disposed \/ r = None)
  <2>1. StopCheck([run |-> r, ack |-> PendingFor(r)])
    BY <1>2 DEF StartCheckProcess
  <2> QED
    BY <1>2, <2>1, StoppedWatch
<1> QED
  BY <1>1, <1>2

\* So does the discovery of a run.
LEMMA DiscoveredWatch ==
  ASSUME WatchTypes, OneWatcher, NEW r, Discovers(r), UNCHANGED <<disposed, call, overtaken>>
  PROVE  OneWatcher'
<1>1. CASE r = None
  BY <1>1, SameWatch DEF Discovers, watchVars, Switching
<1>2. CASE r # None
  BY <1>2, StartedWatch DEF Discovers
<1> QED
  BY <1>1, <1>2

\* So does the spawn that resolves.
LEMMA SpawnWatch == ASSUME WatchTypes, OneWatcher, SpawnResolves PROVE OneWatcher'
<1> DEFINE c == [Closed EXCEPT !.pc = IF spawn.ack = 0 THEN "wait" ELSE "begin", !.run = spawn.run, !.ack = spawn.ack]
<1>1. PICK s \in Slots : procs' = [procs EXCEPT ![s] = c] /\ proc' = s
  BY DEF SpawnResolves
<1>2. c.pc \in {"wait", "begin"} /\ c.run = spawn.run /\ c.killed = FALSE
  BY DEF Closed
<1> HIDE DEF c
<1>3. procs'[s] = c /\ \A q \in Slots : q # s => procs'[q] = procs[q]
  BY <1>1 DEF WatchTypes
<1>4. spawn # NoSpawn /\ proc = 0
  BY DEF SpawnResolves, OneWatcher
<1>5. \A q \in Slots : q # s => ~(Running(q) /\ ~procs[q].killed)'
  BY <1>3, <1>4, SlotsArePositive DEF OneWatcher, Running
<1>6. UNCHANGED <<disposed, run, overtaken, call>> /\ spawn' = NoSpawn
  BY DEF SpawnResolves
<1> QED
  BY <1>1, <1>2, <1>3, <1>4, <1>5, <1>6 DEF OneWatcher, Switching

\* Steps of one process.
LEMMA ProcStepWatch ==
  ASSUME WatchTypes, OneWatcher, NEW s \in Slots, UNCHANGED <<proc, spawn, disposed, run, overtaken, call>>,
         \A q \in Slots : q # s => procs'[q] = procs[q],
         procs'[s].killed = procs[s].killed, procs'[s].run = procs[s].run, procs'[s].pc # "closed",
         procs'[s].pc \in {"begin", "wait", "line"} => procs[s].pc \in {"begin", "wait", "line"}
  PROVE  OneWatcher'
<1>1. \A q \in Slots : (Running(q) /\ ~procs[q].killed)' => Running(q) /\ ~procs[q].killed
  BY DEF Running
<1>2. proc # 0 => proc' \in Slots
  BY DEF WatchTypes
<1> QED
  BY <1>1, <1>2 DEF OneWatcher, Switching

\* The steps of a check process start no watcher.
LEMMA CheckWatch ==
  ASSUME WatchTypes, OneWatcher, NEW s \in Slots, Check(s) \/ CheckEnds(s)
  PROVE  OneWatcher'
<1>0. procs \in [Slots -> Procs] /\ procs[s] \in Procs
  BY DEF WatchTypes
<1>1. CASE CheckBegins(s) \/ CheckPrints(s) \/ CheckTimesOut(s) \/ CheckEnds(s) \/ LineIsRead(s)
  <2>1. \A q \in Slots : q # s => procs'[q] = procs[q]
    BY <1>0, <1>1 DEF CheckBegins, CheckPrints, CheckTimesOut, CheckEnds, LineIsRead
  <2>2. /\ procs'[s].killed = procs[s].killed /\ procs'[s].run = procs[s].run
        /\ procs'[s].pc \in {"wait", "line", "exit"}
        /\ procs'[s].pc # "exit" => procs[s].pc \in {"begin", "wait", "line"}
    BY <1>0, <1>1 DEF CheckBegins, CheckPrints, CheckTimesOut, CheckEnds, LineIsRead, Procs
  <2>3. UNCHANGED <<proc, spawn, disposed, run, overtaken, call>>
    BY <1>1 DEF CheckBegins, CheckPrints, CheckTimesOut, CheckEnds, LineIsRead
  <2> QED
    BY <2>1, <2>2, <2>3, ProcStepWatch
<1>2. CASE CheckCloses(s)
  <2>1. /\ procs'[s] = Closed /\ \A q \in Slots : q # s => procs'[q] = procs[q]
    BY <1>0, <1>2 DEF CheckCloses
  <2>2. UNCHANGED <<spawn, disposed, run, overtaken, call>> /\ proc' = IF ~disposed /\ proc = s THEN 0 ELSE proc
    BY <1>2 DEF CheckCloses
  <2>3. \A q \in Slots : (Running(q) /\ ~procs[q].killed)' => q # s /\ Running(q) /\ ~procs[q].killed
    BY <2>1, ClosedFacts DEF Running
  <2>4. proc' # s
    BY <2>2, SlotsArePositive DEF OneWatcher
  <2>5. proc' # 0 => proc' \in Slots /\ proc' = proc /\ procs'[proc] = procs[proc]
    BY <2>1, <2>2, <2>4 DEF WatchTypes
  <2>6. \A q \in Slots : (Running(q) /\ ~procs[q].killed)' => q = proc'
    BY <2>2, <2>3 DEF OneWatcher
  <2> QED
    BY <2>2, <2>5, <2>6 DEF OneWatcher, Switching
<1> QED
  BY <1>1, <1>2 DEF Check

\* Steps that leave the watcher, the run and the session alone.
QuietStep ==
    \/ RoundStarts \/ RoundLands \/ RoundFails \/ BootFails
    \/ WorkerStarts \/ ReleaseReturns \/ DispatchFails
    \/ \E id \in acks : AckReturns(id)
    \/ \E w \in Workers : \/ DispatchIsCalled(w) \/ WorkerIsLookedUp(w) \/ WorkerIsReleased(w)
                          \/ WorkerIsForgotten(w) \/ WorkerReports(w) \/ WorkerAsks(w) \/ WorkerExits(w)

\* Quiet steps touch nothing of the watch.
LEMMA QuietWatch == ASSUME QuietStep PROVE UNCHANGED <<disposed, run, watchVars, overtaken>> /\ (Switching => Switching')
<1>1. CASE RoundStarts \/ RoundLands \/ RoundFails \/ BootFails
  BY <1>1 DEF RoundStarts, RoundLands, RoundFails, BootFails, Switching
<1>2. CASE WorkerStarts \/ ReleaseReturns \/ DispatchFails
  BY <1>2 DEF WorkerStarts, ReleaseReturns, DispatchFails, Switching
<1>3. ASSUME NEW id \in acks, AckReturns(id) PROVE UNCHANGED <<disposed, run, watchVars, overtaken>> /\ (Switching => Switching')
  BY <1>3 DEF AckReturns, Switching
<1>4. ASSUME NEW w \in Workers, DispatchIsCalled(w) \/ WorkerIsLookedUp(w) \/ WorkerIsReleased(w) \/ WorkerIsForgotten(w)
      PROVE  UNCHANGED <<disposed, run, watchVars, overtaken>> /\ (Switching => Switching')
  BY <1>4, NoCallIsIdle DEF DispatchIsCalled, WorkerIsLookedUp, WorkerIsReleased, WorkerIsForgotten, Calls, Switching
<1>5. ASSUME NEW w \in Workers, WorkerReports(w) \/ WorkerAsks(w) \/ WorkerExits(w)
      PROVE  UNCHANGED <<disposed, run, watchVars, overtaken>> /\ (Switching => Switching')
  BY <1>5 DEF WorkerReports, WorkerAsks, WorkerExits, Switching
<1> QED
  BY <1>1, <1>2, <1>3, <1>4, <1>5 DEF QuietStep

\* Every step leaves one watcher.
LEMMA NextWatch == ASSUME WatchTypes, OneWatcher, [Next]_vars PROVE OneWatcher'
<1>1. CASE UNCHANGED vars
  BY <1>1, SameWatch DEF vars, watchVars, Switching
<1>2. CASE QuietStep
  BY <1>2, QuietWatch, SameWatch DEF watchVars
<1>3. CASE SpawnResolves
  BY <1>3, SpawnWatch
<1>4. CASE TimerFires
  <2>1. CASE ~disposed /\ proc = 0 /\ run # None
    BY <1>4, <2>1, StartedWatch DEF TimerFires
  <2>2. CASE ~(~disposed /\ proc = 0 /\ run # None)
    BY <1>4, <2>2, SameWatch DEF TimerFires, Switching
  <2> QED
    BY <2>1, <2>2
<1>5. ASSUME NEW s \in Slots, Check(s) \/ CheckEnds(s) PROVE OneWatcher'
  BY <1>5, CheckWatch
<1>6. CASE RunIsDiscovered
  <2>1. CASE round.aborted \/ disposed
    BY <1>6, <2>1, SameWatch DEF RunIsDiscovered, Switching, watchVars
  <2>2. CASE ~(round.aborted \/ disposed)
    BY <1>6, <2>2, DiscoveredWatch DEF RunIsDiscovered
  <2> QED
    BY <2>1, <2>2
<1>7. CASE BootLands
  BY <1>7, DiscoveredWatch DEF BootLands
<1>8. CASE SessionEnds \/ ObservationStops
  BY <1>8, StoppedWatch DEF SessionEnds, ObservationStops, StopCheckProcess
<1>9. CASE SessionStarts
  BY <1>9, NoWatch DEF SessionStarts, watchVars
<1>10. ASSUME NEW r \in Runs, RunIsCreated(r) PROVE OneWatcher'
  <2>1. CASE run = None
    BY <1>10, <2>1, NoWatch DEF RunIsCreated
  <2>2. CASE run # None
    <3>1. UNCHANGED <<proc, procs, spawn, disposed>> /\ overtaken' = TRUE /\ run' # None
      BY <1>10, <2>2, OrcaAssumption DEF RunIsCreated
    <3> QED
      BY <3>1 DEF OneWatcher, Running
  <2> QED
    BY <2>1, <2>2
<1>11. ASSUME NEW r \in Runs, RunIsObserved(r) PROVE OneWatcher'
  <2>1. UNCHANGED <<proc, procs, spawn, disposed>> /\ Switching' /\ run' # None
    BY <1>11, NoCallIsIdle, OrcaAssumption DEF RunIsObserved, Switching, NoCall
  <2> QED
    BY <2>1 DEF OneWatcher, Running
<1>12. CASE DispatchReturns
  <2>1. CASE proc = 0
    BY <1>12, <2>1, StartedWatch DEF DispatchReturns
  <2>2. CASE proc # 0
    BY <1>12, <2>2, SameWatch DEF DispatchReturns, watchVars, Switching
  <2> QED
    BY <2>1, <2>2
<1>13. CASE ObservedReturns
  BY <1>13, StartedWatch DEF ObservedReturns
<1>14. CASE LookupReturns
  <2>1. CASE run = None
    BY <1>14, <2>1, StartedWatch DEF LookupReturns
  <2>2. CASE run # None
    BY <1>14, <2>2, SameWatch DEF LookupReturns, watchVars, Switching
  <2> QED
    BY <2>1, <2>2
<1>15. CASE ObservationStarts
  <2>1. CASE proc = 0
    BY <1>15, <2>1, StartedWatch DEF ObservationStarts, Calls
  <2>2. CASE proc # 0
    BY <1>15, <2>2, SameWatch DEF ObservationStarts, watchVars, Switching
  <2> QED
    BY <2>1, <2>2
<1> QED
  BY <1>1, <1>2, <1>3, <1>4, <1>5, <1>6, <1>7, <1>8, <1>9, <1>10, <1>11, <1>12, <1>13, <1>14, <1>15
     DEF Next, Rounds, Tool, QuietStep

\* The watch begins well typed and with no watcher.
LEMMA WatchStarts == Init => WatchInv
BY InitTypes, SlotsArePositive, ClosedFacts DEF Init, WatchInv, OneWatcher, Running

\* Every step keeps both.
LEMMA WatchGoesOn == WatchInv /\ [Next]_vars => WatchInv'
BY NextTypes, NextWatch DEF WatchInv

\* One watcher is alive, it watches the bound run, and no spawn found late
\* watches a stopped one, for any number of runs, workers and processes and
\* through sessions, tools, timers and discoveries in any order.
THEOREM WatchersAreSingle == Spec => []OneWatcher
BY WatchStarts, WatchGoesOn, PTL DEF Spec, WatchInv

-----------------------------------------------------------------------------
(* What is told twice *)

\* Steps that send, deliver, acknowledge and tell no message but an exit.
MessagesFrame ==
    /\ UNCHANGED <<pending, open, acks, issued, inbox>>
    /\ \A m \in Says : told'[m] = told[m]
    /\ left'.asks = left.asks
    /\ \A w \in Workers : real'[w].life \in {"none", "live"} => real[w].life \in {"none", "live"}

\* A report and a question of a worker are messages.
LEMMA MessageTypes ==
  ASSUME WatchTypes
  PROVE  /\ Says \subseteq Messages
         /\ \A r \in Runs : open[r] \in Lines /\ open[r].msgs \subseteq Says /\ open[r].id \in Int /\ inbox[r] \subseteq Says
         /\ \A m \in Says : told[m] \in {0, 1, 2}
         /\ Nothing.id = 0 /\ Nothing.msgs = {} /\ issued \in Nat
BY DEF WatchTypes, Says, Messages, Lines, Nothing

\* Steps in this frame say nothing new.
LEMMA SaidSame ==
  ASSUME WatchTypes, SaidOnce, MessagesFrame PROVE SaidOnce'
<1>1. \A r \in Runs : open[r].msgs \subseteq Says /\ inbox[r] \subseteq Says
  BY MessageTypes
<1>2. \A w \in Workers : <<w, "done">> \in Says /\ <<w, "question">> \in Says
  BY DEF Says
<1>3. \A m \in Says : Unsaid(m) => Unsaid(m)'
  BY DEF Unsaid, MessagesFrame
<1>4. \A m \in Says : told'[m] <= 1
  BY DEF SaidOnce, MessagesFrame
<1>5. \A r \in Runs : \A m \in inbox'[r] :
          told'[m] = 0 /\ \A q \in Runs : m \notin open'[q].msgs /\ (q # r => m \notin inbox'[q])
  BY <1>1 DEF SaidOnce, MessagesFrame
<1>6. \A w \in Workers : real'[w].life \in {"none", "live"} => Unsaid(<<w, "done">>)'
  BY <1>2, <1>3 DEF SaidOnce, MessagesFrame
<1>7. \A w \in Workers : w \in left'.asks => Unsaid(<<w, "question">>)'
  BY <1>2, <1>3 DEF SaidOnce, MessagesFrame
<1> QED
  BY <1>4, <1>5, <1>6, <1>7 DEF SaidOnce

\* Steps in this frame leave unread what was.
LEMMA UnreadSame ==
  ASSUME WatchTypes, MessagesFrame, NEW r \in Runs, Unread(r) PROVE Unread(r)'
BY MessageTypes DEF Unread, MessagesFrame

\* Without a run there is no process, no spawn and no delivery.
LEMMA NoRunIsEmpty ==
  ASSUME WatchInv, OneRun, run = None
  PROVE  /\ \A s \in Slots : procs[s].pc = "closed"
         /\ spawn = NoSpawn /\ pending = NoAck /\ \A r \in Runs : open[r] = Nothing
BY OrcaAssumption DEF WatchInv, OneWatcher, OneRun

\* The first run that is watched comes with nothing told of it.
LEMMA NewRunInOrder ==
  ASSUME WatchInv, InOrder, MessagesFrame, run = None,
         \A s \in Slots : procs'[s].pc = procs[s].pc,
         spawn' # NoSpawn => spawn'.run = run' /\ spawn'.ack = 0
  PROVE  InOrder'
<1>1. /\ \A s \in Slots : procs[s].pc = "closed"
      /\ spawn = NoSpawn /\ pending = NoAck /\ \A r \in Runs : open[r] = Nothing
  BY NoRunIsEmpty DEF InOrder
<1>2. OneRun'
  BY <1>1 DEF OneRun, Running, MessagesFrame, NoAck
<1>3. Deliveries'
  BY <1>1 DEF Deliveries, InOrder, MessagesFrame
<1>4. SaidOnce'
  BY SaidSame DEF InOrder, WatchInv
<1> QED
  BY <1>2, <1>3, <1>4 DEF InOrder

\* The run and every process stay, but for the process that is killed, which
\* does not run any more.
LEMMA SameRunInOrder ==
  ASSUME WatchInv, InOrder, MessagesFrame, run' = run, run # None,
         \A s \in Slots : /\ procs'[s].pc = procs[s].pc /\ procs'[s].run = procs[s].run
                          /\ procs'[s].ack = procs[s].ack /\ procs'[s].line = procs[s].line
                          /\ procs'[s].killed = procs[s].killed \/ ~Running(s),
         spawn' # NoSpawn => spawn'.run = run /\ spawn'.ack = pending.id
  PROVE  InOrder'
<1>0. run \in Runs
  BY DEF WatchInv, WatchTypes, MayRun
<1>1. \A s \in Slots : Running(s)' <=> Running(s)
  BY DEF Running
<1>2. OneRun'
  BY <1>1 DEF OneRun, InOrder, MessagesFrame
<1>3. \A r \in Runs : Unread(r) => Unread(r)'
  BY UnreadSame DEF WatchInv
<1>4. \A r \in Runs : Noted(r) => Noted(r)'
  BY DEF Noted, MessagesFrame
<1>6. Deliveries'
  BY <1>3, <1>4 DEF Deliveries, InOrder, MessagesFrame
<1>7. SaidOnce'
  BY SaidSame DEF InOrder, WatchInv
<1> QED
  BY <1>2, <1>6, <1>7 DEF InOrder

\* Steps that leave the watch alone keep the order.
LEMMA SameInOrder ==
  ASSUME WatchInv, InOrder, MessagesFrame, UNCHANGED <<run, procs, spawn>>
  PROVE  InOrder'
<1>1. CASE run = None
  <2>1. spawn' = NoSpawn
    BY <1>1, NoRunIsEmpty DEF InOrder
  <2> QED
    BY <1>1, <2>1, NewRunInOrder
<1>2. CASE run # None
  <2>1. spawn' # NoSpawn => spawn'.run = run /\ spawn'.ack = pending.id
    BY DEF InOrder, OneRun
  <2> QED
    BY <1>2, <2>1, SameRunInOrder
<1> QED
  BY <1>1, <1>2

\* No process is killed with something to give, and no run is left, or it is
\* not smooth any more.
LEMMA StartedInOrder ==
  ASSUME WatchInv, InOrder, MessagesFrame, smooth', NEW r \in MayRun, StartCheckProcess(r), run' = r,
         r = None => run = None, disposed => run = None \/ run = r
  PROVE  InOrder'
<1>1. CASE disposed \/ r = None
  <2>1. UNCHANGED <<procs, spawn>>
    BY <1>1 DEF StartCheckProcess, watchVars
  <2>2. CASE run = None
    BY <2>1, <2>2, NewRunInOrder, NoRunIsEmpty DEF InOrder
  <2>3. CASE run # None
    BY <1>1, <2>1, <2>3, SameInOrder
  <2> QED
    BY <2>2, <2>3
<1>2. CASE ~(disposed \/ r = None)
  <2> DEFINE next == [run |-> r, ack |-> PendingFor(r)]
  <2>1. StopCheck(next) /\ next.run = r /\ next.ack = PendingFor(r)
    BY <1>2 DEF StartCheckProcess
  <2> HIDE DEF next
  <2>2. ~Running(proc) /\ run \in {None, r} /\ spawn' = next
    BY <2>1 DEF StopCheck
  <2>3. /\ \A s \in Slots : /\ procs'[s].pc = procs[s].pc /\ procs'[s].run = procs[s].run
                            /\ procs'[s].ack = procs[s].ack /\ procs'[s].line = procs[s].line
        /\ \A s \in Slots : s # proc => procs'[s] = procs[s]
    BY <2>1, StopKills DEF WatchInv
  <2>4. PendingFor(r) = pending.id
    BY <1>2, <2>2, NoRunIsEmpty DEF PendingFor, InOrder, OneRun, NoAck
  <2>5. CASE run = None
    <3>1. spawn'.ack = 0
      BY <2>1, <2>2, <2>4, <2>5, NoRunIsEmpty DEF InOrder, NoAck
    <3> QED
      BY <2>1, <2>2, <2>3, <2>5, <3>1, NewRunInOrder
  <2>6. CASE run = r
    BY <1>2, <2>1, <2>2, <2>3, <2>4, <2>6, SameRunInOrder
  <2> QED
    BY <2>2, <2>5, <2>6
<1> QED
  BY <1>1, <1>2

\* The discovery of a run keeps the order.
LEMMA DiscoveredInOrder ==
  ASSUME WatchInv, InOrder, MessagesFrame, smooth', NEW r \in MayRun, Discovers(r), ~disposed
  PROVE  InOrder'
<1>1. CASE r = None
  BY <1>1, SameInOrder DEF Discovers, watchVars
<1>2. CASE r # None
  BY <1>2, StartedInOrder DEF Discovers
<1> QED
  BY <1>1, <1>2

\* A stop that leaves no run: there was none, or it is not smooth any more.
LEMMA StoppedInOrder ==
  ASSUME WatchInv, InOrder, MessagesFrame, smooth', StopCheckProcess, run' = None
  PROVE  InOrder'
<1>1. run = None /\ spawn' = NoSpawn
  BY DEF StopCheckProcess, StopCheck, NoSpawn
<1>2. \A s \in Slots : procs'[s].pc = procs[s].pc
  BY StopKills DEF StopCheckProcess, WatchInv
<1> QED
  BY <1>1, <1>2, NewRunInOrder

\* The one process that runs is the one the extension knows of.
LEMMA RunningIsKnown ==
  ASSUME WatchInv, OneRun, NEW s \in Slots, Running(s)
  PROVE  /\ s = proc /\ procs[s].run = run /\ run \in Runs /\ pending = NoAck /\ ~procs[s].killed
         /\ spawn = NoSpawn
         /\ \A q \in Slots : Running(q) => q = s
BY SlotsArePositive DEF WatchInv, OneWatcher, OneRun, Running, WatchTypes, MayRun

\* Deliveries are numbered from 1.
LEMMA IdsArePositive ==
  ASSUME WatchInv, Deliveries, NEW r \in Runs, open[r] # Nothing
  PROVE  open[r].id \in 1..issued /\ open[r].id # 0 /\ open[r].id # Nothing.id
BY MessageTypes DEF Deliveries, WatchInv

\* A process that waits or is over ends or closes.
LEMMA LeavesInOrder ==
  ASSUME WatchInv, InOrder, MessagesFrame, UNCHANGED <<run, spawn>>, NEW s \in Slots,
         \A q \in Slots : q # s => procs'[q] = procs[q],
         procs[s].pc \in {"wait", "exit"}, procs'[s].pc \in {"exit", "closed"},
         procs'[s].pc = "exit" => procs'[s].run = procs[s].run
  PROVE  InOrder'
<1>0. run \in Runs
  BY DEF WatchInv, WatchTypes, MayRun, InOrder, OneRun
<1>1. \A q \in Slots : Running(q)' => q # s /\ Running(q) /\ procs'[q] = procs[q]
  BY DEF Running
<1>2. OneRun'
  BY <1>1 DEF OneRun, InOrder, MessagesFrame
<1>3. \A r \in Runs : Unread(r) => Unread(r)'
  BY UnreadSame DEF WatchInv
<1>4. \A r \in Runs : Noted(r) => Noted(r)'
  BY DEF Noted, MessagesFrame
<1>6. \A q \in Slots : procs'[q].pc \in {"wait", "line"} => procs'[q] = procs[q]
  OBVIOUS
<1>7. Deliveries'
  BY <1>3, <1>4, <1>6 DEF Deliveries, InOrder, MessagesFrame
<1>8. SaidOnce'
  BY SaidSame DEF InOrder, WatchInv
<1> QED
  BY <1>2, <1>7, <1>8 DEF InOrder

\* A spawn that resolves keeps the order.
LEMMA SpawnInOrder ==
  ASSUME WatchInv, InOrder, SpawnResolves PROVE InOrder'
<1> DEFINE c == [Closed EXCEPT !.pc = IF spawn.ack = 0 THEN "wait" ELSE "begin", !.run = spawn.run, !.ack = spawn.ack]
<1>1. PICK s \in Slots : procs[s] = Closed /\ procs' = [procs EXCEPT ![s] = c]
  BY DEF SpawnResolves
<1>2. /\ c.pc = (IF spawn.ack = 0 THEN "wait" ELSE "begin")
      /\ c.run = spawn.run /\ c.ack = spawn.ack /\ c.killed = FALSE
  BY DEF Closed
<1> HIDE DEF c
<1>3. procs'[s] = c /\ \A q \in Slots : q # s => procs'[q] = procs[q]
  BY <1>1 DEF WatchInv, WatchTypes
<1>4. spawn # NoSpawn /\ proc = 0 /\ spawn.run = run /\ spawn.ack = pending.id /\ run \in Runs
  BY DEF SpawnResolves, WatchInv, OneWatcher, InOrder, OneRun, WatchTypes, MayRun
<1>5. \A q \in Slots : ~Running(q)
  BY <1>4, RunningIsKnown, SlotsArePositive DEF InOrder
<1>6. pending' = NoAck /\ spawn' = NoSpawn /\ UNCHANGED <<run, open, acks, issued, told, inbox, real, left>>
  BY <1>4 DEF SpawnResolves, orcaVars
<1>7. OneRun'
  <2>1. \A q \in Slots : (Running(q))' => q = s
    BY <1>3, <1>5 DEF Running
  <2>2. run # None
    BY <1>4, OrcaAssumption
  <2> QED
    BY <1>2, <1>3, <1>4, <1>6, <2>1, <2>2 DEF OneRun, InOrder
<1>8. \A r \in Runs : Unread(r)' = Unread(r)
  BY <1>6 DEF Unread
<1>9. ASSUME NEW r \in Runs, open[r] # Nothing, Noted(r)
      PROVE  Noted(r)' /\ procs'[s].pc = "begin"
  <2>1. open[r].id # 0
    BY <1>9, IdsArePositive DEF InOrder
  <2>2. pending = [id |-> open[r].id, run |-> r]
    BY <1>5, <1>9, SlotsArePositive DEF Noted, Running
  <2>3. spawn.ack = open[r].id /\ spawn.ack # 0
    BY <1>4, <2>1, <2>2
  <2>4. procs'[s].pc = "begin" /\ procs'[s].ack = open'[r].id
    BY <1>2, <1>3, <1>6, <2>3
  <2> QED
    BY <2>4 DEF Noted
<1>10. Deliveries'
  <2>1. acks' \subseteq 1..issued'
    BY <1>6 DEF InOrder, Deliveries
  <2>2. ASSUME NEW r \in Runs, open'[r] # Nothing
        PROVE  open'[r].id \in 1..issued' /\ (Unread(r)' \/ Noted(r)')
    BY <1>6, <1>8, <1>9, <2>2 DEF InOrder, Deliveries
  <2>3. ASSUME NEW r \in Runs, NEW q \in Slots, procs'[q].run = r, procs'[q].pc = "wait"
        PROVE  open'[r] = Nothing \/ Unread(r)'
    <3>1. q = s
      BY <1>3, <1>5, <2>3, SlotsArePositive DEF Running
    <3>2. open[r] = Nothing \/ Unread(r)
      BY <1>9, <2>3, <3>1 DEF InOrder, Deliveries
    <3> QED
      BY <1>6, <1>8, <3>2
  <2>4. ASSUME NEW q \in Slots PROVE procs'[q].pc # "line"
    BY <1>2, <1>3, <1>5, SlotsArePositive DEF Running
  <2> QED
    BY <2>1, <2>2, <2>3, <2>4 DEF Deliveries
<1>11. SaidOnce'
  <2>1. MessagesFrame \/ pending' # pending
    BY <1>6 DEF MessagesFrame
  <2> QED
    BY <1>6 DEF SaidOnce, Unsaid, InOrder
<1> QED
  BY <1>7, <1>10, <1>11 DEF InOrder

\* An acknowledgement: what was not told is not acknowledged.
LEMMA AckInOrder ==
  ASSUME WatchInv, InOrder, NEW id \in acks, AckReturns(id) PROVE InOrder'
<1>0. /\ UNCHANGED <<run, procs, spawn, pending, issued, told, inbox, real>> /\ acks' = acks \ {id}
      /\ left'.asks = left.asks
  BY DEF AckReturns, watchVars, WatchInv, WatchTypes, Lefts
<1>1. \A r \in Runs : open'[r] = open[r] \/ (open'[r] = Nothing /\ open[r].id = id)
  BY DEF AckReturns, Acknowledge, WatchInv, WatchTypes
<1>2. ASSUME NEW r \in Runs, open'[r] # Nothing
      PROVE  /\ open'[r] = open[r] /\ (Unread(r) => Unread(r)') /\ (Noted(r) => Noted(r)')
  <2>1. open'[r] = open[r]
    BY <1>1, <1>2
  <2> QED
    BY <1>0, <2>1 DEF Unread, Noted
<1>3. ASSUME NEW r \in Runs, Unread(r), open[r] # Nothing PROVE open'[r] = open[r] /\ Unread(r)'
  BY <1>0, <1>1, <1>3 DEF Unread
<1>4. OneRun'
  <2>1. \A r \in Runs : r # run' => open'[r] = Nothing
    BY <1>0, <1>1 DEF InOrder, OneRun
  <2> QED
    BY <1>0, <2>1 DEF InOrder, OneRun, Running
<1>5. Deliveries'
  <2>1. acks' \subseteq 1..issued'
    BY <1>0 DEF InOrder, Deliveries
  <2>2. ASSUME NEW r \in Runs, open'[r] # Nothing
        PROVE  open'[r].id \in 1..issued' /\ (Unread(r)' \/ Noted(r)')
    BY <1>0, <1>2, <2>2 DEF InOrder, Deliveries
  <2>3. ASSUME NEW r \in Runs, NEW q \in Slots, procs'[q].run = r, procs'[q].pc = "wait"
        PROVE  open'[r] = Nothing \/ Unread(r)'
    BY <1>0, <1>1, <1>3, <2>3 DEF InOrder, Deliveries
  <2>4. ASSUME NEW r \in Runs, NEW q \in Slots, procs'[q].run = r, procs'[q].pc = "line"
        PROVE  Unread(r)' /\ procs'[q].line = open'[r] /\ open'[r] # Nothing
    <3>1. Unread(r) /\ procs[q].line = open[r] /\ open[r] # Nothing
      BY <1>0, <2>4 DEF InOrder, Deliveries
    <3> QED
      BY <1>0, <1>3, <3>1
  <2> QED
    BY <2>1, <2>2, <2>3, <2>4 DEF Deliveries
<1>6. SaidOnce'
  <2>1. \A r \in Runs : \A m \in Says : m \notin open[r].msgs => m \notin open'[r].msgs
    BY <1>1, MessageTypes DEF WatchInv
  <2>2. \A m \in Says : Unsaid(m) => Unsaid(m)'
    BY <1>0, <2>1 DEF Unsaid
  <2>3. \A w \in Workers : <<w, "done">> \in Says /\ <<w, "question">> \in Says
    BY DEF Says
  <2>4. \A r \in Runs : inbox[r] \subseteq Says
    BY MessageTypes DEF WatchInv
  <2>5. \A r \in Runs : \A m \in inbox'[r] :
          told'[m] = 0 /\ \A q \in Runs : m \notin open'[q].msgs /\ (q # r => m \notin inbox'[q])
    BY <1>0, <2>1, <2>4 DEF SaidOnce, InOrder
  <2>6. \A m \in Says : told'[m] <= 1
    BY <1>0 DEF SaidOnce, InOrder
  <2>7. \A w \in Workers : real'[w].life \in {"none", "live"} => Unsaid(<<w, "done">>)'
    BY <1>0, <2>2, <2>3 DEF SaidOnce, InOrder
  <2>8. \A w \in Workers : w \in left'.asks => Unsaid(<<w, "question">>)'
    BY <1>0, <2>2, <2>3 DEF SaidOnce, InOrder
  <2> QED
    BY <2>5, <2>6, <2>7, <2>8 DEF SaidOnce
<1> QED
  BY <1>4, <1>5, <1>6 DEF InOrder

\* A process acknowledges what was told, if anything was.
LEMMA BeginsInOrder ==
  ASSUME WatchInv, InOrder, NEW s \in Slots, CheckBegins(s) PROVE InOrder'
<1> DEFINE c == procs[s]
<1>1. /\ c.pc = "begin" /\ Running(s) /\ c \in Procs
      /\ procs' = [procs EXCEPT ![s] = [c EXCEPT !.pc = "wait", !.ack = 0]]
      /\ UNCHANGED <<run, spawn, pending, acks, issued, told, inbox, real, left>>
  BY SlotsArePositive DEF CheckBegins, Running, WatchInv, WatchTypes
<1>2. /\ procs'[s].pc = "wait" /\ procs'[s].run = c.run /\ procs'[s].killed = c.killed
      /\ \A q \in Slots : q # s => procs'[q] = procs[q]
  BY <1>1 DEF WatchInv, WatchTypes, Procs
<1>3. \A r \in Runs : open'[r] = IF open[r].id = c.ack THEN Nothing ELSE open[r]
  BY DEF CheckBegins, Acknowledge
<1>4. /\ c.run = run /\ run \in Runs /\ pending = NoAck /\ ~c.killed
      /\ \A q \in Slots : Running(q) => q = s
  BY <1>1, RunningIsKnown DEF InOrder
<1>5. \A q \in Slots : Running(q)' => q = s
  BY <1>2, <1>4 DEF Running
<1>6. ASSUME NEW r \in Runs, open'[r] # Nothing PROVE open'[r] = open[r] /\ Unread(r) /\ Unread(r)'
  <2>1. open'[r] = open[r] /\ open[r].id # c.ack
    BY <1>3, <1>6
  <2>2. ~Noted(r)
    <3>1. open[r].id # 0
      BY <1>6, <2>1, IdsArePositive DEF InOrder
    <3>2. pending # [id |-> open[r].id, run |-> r]
      BY <1>4, <3>1 DEF NoAck
    <3>3. \A q \in Slots : procs[q].pc = "begin" => q = s
      BY <1>4, SlotsArePositive DEF Running
    <3> QED
      BY <2>1, <3>2, <3>3 DEF Noted
  <2>3. Unread(r)
    BY <1>6, <2>1, <2>2 DEF InOrder, Deliveries
  <2> QED
    BY <1>1, <2>1, <2>3 DEF Unread
<1>7. OneRun'
  <2>1. \A r \in Runs : r # run' => open'[r] = Nothing
    BY <1>1, <1>3 DEF InOrder, OneRun
  <2> QED
    BY <1>1, <1>2, <1>4, <1>5, <2>1 DEF OneRun, InOrder
<1>8. Deliveries'
  <2>1. \A q \in Slots : procs'[q].pc # "line"
    BY <1>2, <1>5, SlotsArePositive DEF Running
  <2> QED
    BY <1>1, <1>6, <2>1 DEF Deliveries, InOrder
<1>9. SaidOnce'
  <2>1. \A r \in Runs : \A m \in Says : m \notin open[r].msgs => m \notin open'[r].msgs
    BY <1>3, MessageTypes DEF WatchInv
  <2>2. \A m \in Says : Unsaid(m) => Unsaid(m)'
    BY <1>1, <2>1 DEF Unsaid
  <2>3. \A w \in Workers : <<w, "done">> \in Says /\ <<w, "question">> \in Says
    BY DEF Says
  <2>4. \A r \in Runs : inbox[r] \subseteq Says
    BY MessageTypes DEF WatchInv
  <2>5. \A r \in Runs : \A m \in inbox'[r] :
          told'[m] = 0 /\ \A q \in Runs : m \notin open'[q].msgs /\ (q # r => m \notin inbox'[q])
    BY <1>1, <2>1, <2>4 DEF SaidOnce, InOrder
  <2>6. \A w \in Workers : real'[w].life \in {"none", "live"} => Unsaid(<<w, "done">>)'
    BY <1>1, <2>2, <2>3 DEF SaidOnce, InOrder
  <2>7. \A w \in Workers : w \in left'.asks => Unsaid(<<w, "question">>)'
    BY <1>1, <2>2, <2>3 DEF SaidOnce, InOrder
  <2> QED
    BY <1>1, <2>5, <2>6, <2>7 DEF SaidOnce, InOrder
<1> QED
  BY <1>7, <1>8, <1>9 DEF InOrder

\* The process that waits gives the delivery again that is not acknowledged, or
\* what came meanwhile.
LEMMA PrintsInOrder ==
  ASSUME WatchInv, InOrder, NEW s \in Slots, CheckPrints(s) PROVE InOrder'
<1> DEFINE c == procs[s]
<1>1. /\ c.pc = "wait" /\ Running(s) /\ c \in Procs
      /\ UNCHANGED <<run, spawn, pending, acks, told, real, left>>
  BY SlotsArePositive DEF CheckPrints, Running, WatchInv, WatchTypes
<1>2. /\ c.run = run /\ run \in Runs /\ pending = NoAck /\ ~c.killed
      /\ \A q \in Slots : Running(q) => q = s
  BY <1>1, RunningIsKnown DEF InOrder
<1>3. PICK r \in Runs : r = run
  BY <1>2
<1>4. procs' = [procs EXCEPT ![s] = [c EXCEPT !.pc = "line", !.line = open'[r]]]
  BY <1>2, <1>3 DEF CheckPrints
<1>5. /\ procs'[s].pc = "line" /\ procs'[s].run = c.run /\ procs'[s].killed = c.killed /\ procs'[s].line = open'[r]
      /\ \A q \in Slots : q # s => procs'[q] = procs[q]
  BY <1>1, <1>4 DEF WatchInv, WatchTypes, Procs
<1>6. \A q \in Slots : Running(q)' => q = s
  BY <1>2, <1>5 DEF Running
<1>7. open[r] = Nothing \/ Unread(r)
  BY <1>1, <1>2, <1>3 DEF InOrder, Deliveries
<1>8. CASE open[r] # Nothing
  <2>1. UNCHANGED <<open, inbox, issued>>
    BY <1>2, <1>3, <1>8 DEF CheckPrints
  <2>2. Unread(r)'
    BY <1>1, <1>7, <1>8, <2>1 DEF Unread
  <2>3. OneRun'
    BY <1>1, <1>2, <1>5, <1>6, <2>1 DEF OneRun, InOrder
  <2>4. Deliveries'
    <3>1. ASSUME NEW q \in Runs, open'[q] # Nothing PROVE q = r
      BY <1>3, <2>1, <3>1 DEF InOrder, OneRun
    <3>2. \A q \in Slots : procs'[q].pc \in {"wait", "line"} => q = s
      BY <1>6, SlotsArePositive DEF Running
    <3>3. acks' \subseteq 1..issued' /\ open'[r].id \in 1..issued'
      BY <1>1, <1>8, <2>1 DEF InOrder, Deliveries
    <3> QED
      BY <1>2, <1>3, <1>5, <1>8, <2>1, <2>2, <3>1, <3>2, <3>3 DEF Deliveries
  <2>5. SaidOnce'
    BY <1>1, <2>1 DEF InOrder, SaidOnce, Unsaid
  <2> QED
    BY <2>3, <2>4, <2>5 DEF InOrder
<1>9. CASE open[r] = Nothing
  <2>0. issued \in Nat /\ open \in [Runs -> Lines] /\ inbox \in [Runs -> SUBSET Says]
    BY DEF WatchInv, WatchTypes
  <2>1. /\ open' = [open EXCEPT ![r] = [id |-> issued + 1, msgs |-> inbox[r]]]
        /\ inbox' = [inbox EXCEPT ![r] = {}] /\ issued' = issued + 1
    BY <1>2, <1>3, <1>9 DEF CheckPrints
  <2>2. /\ open'[r].id = issued + 1 /\ open'[r].msgs = inbox[r] /\ inbox'[r] = {}
        /\ \A q \in Runs : q # r => open'[q] = open[q] /\ inbox'[q] = inbox[q]
    BY <2>0, <2>1
  <2>3. open'[r] # Nothing
    BY <2>0, <2>2 DEF Nothing
  <2>4. Unread(r)'
    <3>1. issued + 1 \notin acks
      BY <2>0 DEF InOrder, Deliveries
    <3>2. \A m \in inbox[r] : told[m] = 0
      BY DEF InOrder, SaidOnce
    <3> QED
      BY <1>1, <2>2, <3>1, <3>2 DEF Unread
  <2>5. OneRun'
    <3>1. \A q \in Runs : q # run' => open'[q] = Nothing
      BY <1>1, <1>3, <2>2 DEF InOrder, OneRun
    <3> QED
      BY <1>1, <1>2, <1>5, <1>6, <3>1 DEF OneRun, InOrder
  <2>6. Deliveries'
    <3>1. ASSUME NEW q \in Runs, open'[q] # Nothing PROVE q = r
      BY <1>3, <2>2, <3>1 DEF InOrder, OneRun
    <3>2. \A q \in Slots : procs'[q].pc \in {"wait", "line"} => q = s
      BY <1>6, SlotsArePositive DEF Running
    <3>3. acks' \subseteq 1..issued' /\ open'[r].id \in 1..issued'
      BY <1>1, <2>0, <2>1, <2>2 DEF InOrder, Deliveries
    <3> QED
      BY <1>2, <1>3, <1>5, <2>3, <2>4, <3>1, <3>2, <3>3 DEF Deliveries
  <2>7. SaidOnce'
    <3>1. \A q \in Runs : \A m \in inbox'[q] : q # r /\ m \in inbox[q]
      BY <2>2
    <3>2. \A q \in Runs : \A m \in inbox'[q] : told'[m] = 0
      BY <1>1, <3>1 DEF InOrder, SaidOnce
    <3>3. ASSUME NEW p \in Runs, NEW m \in inbox'[p], NEW q \in Runs
          PROVE  m \notin open'[q].msgs /\ (q # p => m \notin inbox'[q])
      <4>1. p # r /\ m \in inbox[p]
        BY <3>1
      <4>2. \A k \in Runs : m \notin open[k].msgs /\ (k # p => m \notin inbox[k])
        BY <4>1 DEF InOrder, SaidOnce
      <4> QED
        BY <2>2, <4>1, <4>2
    <3>4. \A m : Unsaid(m) => Unsaid(m)'
      BY <1>1, <2>2 DEF Unsaid
    <3> QED
      BY <1>1, <3>2, <3>3, <3>4 DEF InOrder, SaidOnce
  <2> QED
    BY <2>5, <2>6, <2>7 DEF InOrder
<1> QED
  BY <1>8, <1>9

\* A line tells what was not told before.
LEMMA ReadsInOrder ==
  ASSUME WatchInv, InOrder, NEW s \in Slots, LineIsRead(s) PROVE InOrder'
<1> DEFINE c == procs[s]
<1>1. /\ c.pc = "line" /\ Running(s) /\ c \in Procs
      /\ procs' = [procs EXCEPT ![s] = [c EXCEPT !.pc = "exit", !.line = Nothing]]
      /\ UNCHANGED <<run, spawn, open, inbox, issued, real, left>>
  BY SlotsArePositive DEF LineIsRead, Running, WatchInv, WatchTypes, orcaVars
<1>2. /\ c.run = run /\ run \in Runs /\ pending = NoAck /\ ~c.killed /\ spawn = NoSpawn
      /\ \A q \in Slots : Running(q) => q = s
  BY <1>1, RunningIsKnown DEF InOrder
<1>3. PICK r \in Runs : r = run
  BY <1>2
<1>4. Unread(r) /\ c.line = open[r] /\ open[r] # Nothing /\ open[r].id \in 1..issued
  BY <1>1, <1>2, <1>3 DEF InOrder, Deliveries
<1>5. /\ pending' = [id |-> open[r].id, run |-> r] /\ acks' = acks \cup {open[r].id} /\ Tell(open[r].msgs)
  BY <1>2, <1>3, <1>4 DEF LineIsRead
<1>6. /\ procs'[s].pc = "exit" /\ procs'[s].run = c.run
      /\ \A q \in Slots : q # s => procs'[q] = procs[q]
  BY <1>1 DEF WatchInv, WatchTypes, Procs
<1>7. \A q \in Slots : ~Running(q)'
  BY <1>2, <1>6 DEF Running
<1>8. \A m \in Says : told'[m] = IF m \in open[r].msgs THEN 1 ELSE told[m]
  <2>1. \A m \in Says : told'[m] = IF m \in open[r].msgs /\ told[m] < 2 THEN told[m] + 1 ELSE told[m]
    BY <1>5, TellTyped, MessageTypes DEF WatchInv
  <2>2. \A m \in open[r].msgs : told[m] = 0
    BY <1>4 DEF Unread
  <2> QED
    BY <2>1, <2>2
<1>9. OneRun'
  <2>1. pending'.run = run /\ run # None
    BY <1>2, <1>3, <1>5, OrcaAssumption
  <2> QED
    BY <1>1, <1>2, <1>6, <1>7, <2>1 DEF OneRun, InOrder
<1>10. Deliveries'
  <2>1. acks' \subseteq 1..issued'
    BY <1>1, <1>4, <1>5 DEF InOrder, Deliveries
  <2>2. ASSUME NEW q \in Runs, open'[q] # Nothing PROVE q = r
    BY <1>1, <1>3, <2>2 DEF InOrder, OneRun
  <2>3. Noted(r)'
    BY <1>1, <1>5 DEF Noted
  <2>4. \A q \in Slots : procs'[q].pc \notin {"wait", "line"}
    BY <1>7, SlotsArePositive DEF Running
  <2> QED
    BY <1>1, <1>4, <2>1, <2>2, <2>3, <2>4 DEF Deliveries
<1>11. SaidOnce'
  <2>1. \A m \in Says : m \notin open[r].msgs => told'[m] = told[m]
    BY <1>8
  <2>2. \A m \in Says : Unsaid(m) => Unsaid(m)'
    BY <1>1, <2>1 DEF Unsaid
  <2>3. \A w \in Workers : <<w, "done">> \in Says /\ <<w, "question">> \in Says
    BY DEF Says
  <2>4. \A q \in Runs : \A m \in inbox[q] : m \in Says /\ told[m] = 0 /\ m \notin open[r].msgs
    BY MessageTypes DEF WatchInv, InOrder, SaidOnce
  <2>5. \A q \in Runs : \A m \in inbox'[q] : told'[m] = 0
    BY <1>1, <2>1, <2>4
  <2>6. \A m \in Says : told'[m] <= 1
    BY <1>8 DEF InOrder, SaidOnce
  <2> QED
    BY <1>1, <2>2, <2>3, <2>5, <2>6 DEF InOrder, SaidOnce
<1> QED
  BY <1>9, <1>10, <1>11 DEF InOrder

\* A message that nobody has said yet.
LEMMA SaysInOrder ==
  ASSUME WatchInv, InOrder, NEW r \in MayRun, NEW m \in Says, Unsaid(m),
         inbox' = [inbox EXCEPT ![r] = @ \cup {m}],
         UNCHANGED <<run, procs, spawn, pending, open, acks, issued, told>>,
         \A w \in Workers : real'[w].life \in {"none", "live"} => real[w].life \in {"none", "live"} /\ m # <<w, "done">>,
         \A w \in Workers : w \in left'.asks => w \in left.asks /\ m # <<w, "question">>
  PROVE  InOrder'
<1>1. \A q \in Runs : inbox'[q] = IF q = r THEN inbox[q] \cup {m} ELSE inbox[q]
  BY DEF WatchInv, WatchTypes
<1>2. OneRun' /\ Deliveries'
  BY DEF InOrder, OneRun, Deliveries, Running, Unread, Noted
<1>3. \A n \in Says : Unsaid(n) /\ n # m => Unsaid(n)'
  BY <1>1 DEF Unsaid
<1>4. \A w \in Workers : <<w, "done">> \in Says /\ <<w, "question">> \in Says
  BY DEF Says
<1>5. ASSUME NEW p \in Runs, NEW n \in inbox'[p]
      PROVE  told'[n] = 0 /\ \A q \in Runs : n \notin open'[q].msgs /\ (q # p => n \notin inbox'[q])
  <2>1. CASE n = m
    BY <1>1, <1>5, <2>1 DEF InOrder, SaidOnce, Unsaid
  <2>2. CASE n # m
    <3>1. n \in inbox[p]
      BY <1>1, <2>2
    <3> QED
      BY <1>1, <2>2, <3>1 DEF InOrder, SaidOnce
  <2> QED
    BY <2>1, <2>2
<1>6. SaidOnce'
  BY <1>3, <1>4, <1>5 DEF InOrder, SaidOnce
<1> QED
  BY <1>2, <1>6 DEF InOrder

\* Quiet steps keep the order.
LEMMA QuietInOrder ==
  ASSUME WatchInv, Underway, InOrder, QuietStep
  PROVE  InOrder'
<1>0. QuietStep /\ UNCHANGED <<run, procs, spawn>>
  BY QuietWatch DEF watchVars
<1>1. real \in [Workers -> [run : MayRun, life : Lives]] /\ call \in CallTypes /\ left \in Lefts
  BY DEF WatchInv, WatchTypes
<1>2. \A w \in Workers : <<w, "done">> \in Says /\ <<w, "question">> \in Says
  BY DEF Says
<1>3. CASE RoundStarts \/ RoundFails \/ BootFails \/ ReleaseReturns \/ DispatchFails
  <2>1. MessagesFrame
    BY <1>1, <1>3 DEF RoundStarts, RoundFails, BootFails, ReleaseReturns, DispatchFails, MessagesFrame, orcaVars, Lefts
  <2> QED
    BY <1>0, <2>1, SameInOrder
<1>4. CASE RoundLands
  <2>1. \A m \in Says : m \notin Alerts(round.rows)
    BY DEF Says, Alerts
  <2>2. \A m \in Says : told'[m] = told[m]
    <3>1. CASE UNCHANGED told
      BY <3>1
    <3>2. CASE Tell(Alerts(round.rows))
      BY <2>1, <3>2, TellTyped, MessageTypes DEF WatchInv
    <3> QED
      BY <1>4, <3>1, <3>2 DEF RoundLands
  <2>3. MessagesFrame
    BY <1>4, <2>2 DEF RoundLands, MessagesFrame, orcaVars
  <2> QED
    BY <1>0, <2>3, SameInOrder
<1>5. CASE WorkerStarts
  <2>1. real[call.worker].life = "none" /\ call.worker \in Workers
    BY <1>1, <1>5 DEF WorkerStarts, Underway, CallTypes
  <2>2. \A w \in Workers : w # call.worker => real'[w] = real[w]
    BY <1>1, <1>5 DEF WorkerStarts
  <2>3. MessagesFrame
    BY <1>5, <2>1, <2>2 DEF WorkerStarts, MessagesFrame
  <2> QED
    BY <1>0, <2>3, SameInOrder
<1>6. ASSUME NEW id \in acks, AckReturns(id) PROVE InOrder'
  BY <1>6, AckInOrder
<1>7. ASSUME NEW w \in Workers, DispatchIsCalled(w) \/ WorkerIsLookedUp(w) \/ WorkerIsForgotten(w) PROVE InOrder'
  <2>1. MessagesFrame
    BY <1>1, <1>7 DEF DispatchIsCalled, WorkerIsLookedUp, WorkerIsForgotten, Calls, MessagesFrame, orcaVars, Lefts
  <2> QED
    BY <1>0, <2>1, SameInOrder
<1>8. ASSUME NEW w \in Workers, WorkerIsReleased(w) \/ WorkerExits(w) PROVE InOrder'
  <2>1. \A v \in Workers : real'[v].life \in {"none", "live"} => real[v].life \in {"none", "live"}
    BY <1>1, <1>8 DEF WorkerIsReleased, WorkerExits
  <2>2. MessagesFrame
    BY <1>1, <1>8, <2>1 DEF WorkerIsReleased, WorkerExits, Calls, MessagesFrame, Lefts
  <2> QED
    BY <1>0, <2>2, SameInOrder
<1>9. ASSUME NEW w \in Workers, WorkerReports(w) PROVE InOrder'
  <2> DEFINE m == <<w, "done">>
  <2>1. real[w].life = "live" /\ Unsaid(m) /\ m \in Says /\ real[w].run \in MayRun
    BY <1>1, <1>2, <1>9 DEF WorkerReports, InOrder, SaidOnce
  <2>2. \A v \in Workers : /\ real'[v].life \in {"none", "live"} => real[v].life \in {"none", "live"} /\ m # <<v, "done">>
                           /\ m # <<v, "question">>
    BY <1>1, <1>9 DEF WorkerReports
  <2>3. inbox' = [inbox EXCEPT ![real[w].run] = @ \cup {m}] /\ UNCHANGED <<left, pending, open, acks, issued, told>>
    BY <1>9 DEF WorkerReports
  <2> HIDE DEF m
  <2> QED
    BY <1>0, <2>1, <2>2, <2>3, SaysInOrder
<1>10. ASSUME NEW w \in Workers, WorkerAsks(w) PROVE InOrder'
  <2> DEFINE m == <<w, "question">>
  <2>1. w \in left.asks /\ Unsaid(m) /\ m \in Says /\ real[w].run \in MayRun
    BY <1>1, <1>2, <1>10 DEF WorkerAsks, InOrder, SaidOnce
  <2>2. \A v \in Workers : m # <<v, "done">>
    OBVIOUS
  <2>3. left'.asks = left.asks \ {w}
    BY <1>1, <1>10, LeftTyped DEF WorkerAsks
  <2>4. /\ inbox' = [inbox EXCEPT ![real[w].run] = @ \cup {m}]
        /\ UNCHANGED <<real, pending, open, acks, issued, told>>
    BY <1>10 DEF WorkerAsks
  <2>5. \A v \in Workers : real'[v].life \in {"none", "live"} =>
              real[v].life \in {"none", "live"} /\ m # <<v, "done">>
    BY <2>2, <2>4
  <2>6. \A v \in Workers : v \in left'.asks => v \in left.asks /\ m # <<v, "question">>
    BY <2>3
  <2>7. UNCHANGED <<run, procs, spawn, pending, open, acks, issued, told>>
    BY <1>0, <2>4
  <2> HIDE DEF m
  <2> QED
    BY <2>1, <2>4, <2>5, <2>6, <2>7, SaysInOrder
<1> QED
  BY <1>0, <1>3, <1>4, <1>5, <1>6, <1>7, <1>8, <1>9, <1>10 DEF QuietStep

\* Every step that keeps the run and the acknowledgements keeps the order.
LEMMA NextInOrder ==
  ASSUME WatchInv, Underway, InOrder, [Next]_vars, smooth'
  PROVE  InOrder'
<1>0. run \in MayRun /\ left \in Lefts /\ call \in CallTypes
  BY DEF WatchInv, WatchTypes
<1>1. CASE UNCHANGED vars
  <2>1. MessagesFrame /\ UNCHANGED <<run, procs, spawn>>
    BY <1>1 DEF vars, watchVars, orcaVars, MessagesFrame
  <2> QED
    BY <2>1, SameInOrder
<1>2. CASE QuietStep
  BY <1>2, QuietInOrder
<1>3. CASE SpawnResolves
  BY <1>3, SpawnInOrder
<1>4. CASE TimerFires
  <2>1. MessagesFrame /\ UNCHANGED <<run, disposed>>
    BY <1>4 DEF TimerFires, MessagesFrame, orcaVars
  <2>2. CASE ~disposed /\ proc = 0 /\ run # None
    BY <1>0, <1>4, <2>1, <2>2, StartedInOrder DEF TimerFires
  <2>3. CASE ~(~disposed /\ proc = 0 /\ run # None)
    BY <1>4, <2>1, <2>3, SameInOrder DEF TimerFires
  <2> QED
    BY <2>2, <2>3
<1>5. ASSUME NEW s \in Slots, Check(s) \/ CheckEnds(s) PROVE InOrder'
  <2>0. procs \in [Slots -> Procs] /\ procs[s] \in Procs
    BY DEF WatchInv, WatchTypes
  <2>1. CASE CheckTimesOut(s) \/ CheckEnds(s)
    <3>1. MessagesFrame /\ UNCHANGED <<run, spawn>>
      BY <1>0, <2>1 DEF CheckTimesOut, CheckEnds, MessagesFrame, orcaVars, Lefts
    <3>2. procs[s].pc = "wait"
      BY <2>1 DEF CheckTimesOut, CheckEnds
    <3>3. /\ procs'[s].pc = "exit" /\ procs'[s].run = procs[s].run
          /\ \A q \in Slots : q # s => procs'[q] = procs[q]
      BY <2>0, <2>1 DEF CheckTimesOut, CheckEnds, Procs
    <3> QED
      BY <3>1, <3>2, <3>3, LeavesInOrder
  <2>2. CASE CheckCloses(s)
    <3>1. MessagesFrame /\ UNCHANGED <<run, spawn>> /\ procs[s].pc = "exit"
      BY <2>2 DEF CheckCloses, MessagesFrame, orcaVars
    <3>2. procs'[s].pc = "closed" /\ \A q \in Slots : q # s => procs'[q] = procs[q]
      BY <2>0, <2>2, ClosedFacts DEF CheckCloses
    <3> QED
      BY <3>1, <3>2, LeavesInOrder
  <2> QED
    BY <1>5, <2>1, <2>2, BeginsInOrder, PrintsInOrder, ReadsInOrder DEF Check
<1>6. CASE RunIsDiscovered
  <2>1. MessagesFrame
    BY <1>6 DEF RunIsDiscovered, MessagesFrame, orcaVars
  <2>2. CASE round.aborted \/ disposed
    BY <1>6, <2>1, <2>2, SameInOrder DEF RunIsDiscovered, watchVars
  <2>3. CASE ~(round.aborted \/ disposed)
    <3>1. round.run \in MayRun
      BY DEF WatchInv, WatchTypes, RoundTypes
    <3> QED
      BY <1>6, <2>1, <2>3, <3>1, DiscoveredInOrder DEF RunIsDiscovered
  <2> QED
    BY <2>2, <2>3
<1>7. CASE BootLands
  <2>1. MessagesFrame /\ ~disposed /\ boot.run \in MayRun
    BY <1>7 DEF BootLands, MessagesFrame, orcaVars, Underway, WatchInv, WatchTypes
  <2> QED
    BY <1>7, <2>1, DiscoveredInOrder DEF BootLands
<1>8. CASE SessionEnds \/ ObservationStops
  <2>1. MessagesFrame
    BY <1>0, <1>8 DEF SessionEnds, ObservationStops, Calls, MessagesFrame, orcaVars, Lefts
  <2> QED
    BY <1>8, <2>1, StoppedInOrder DEF SessionEnds, ObservationStops
<1>9. CASE SessionStarts
  <2>1. MessagesFrame
    BY <1>9 DEF SessionStarts, MessagesFrame, orcaVars
  <2> QED
    BY <1>9, <2>1, SameInOrder DEF SessionStarts, watchVars
<1>10. ASSUME NEW r \in Runs, RunIsCreated(r) \/ RunIsObserved(r) PROVE InOrder'
  <2>1. MessagesFrame
    BY <1>0, <1>10 DEF RunIsCreated, RunIsObserved, Calls, MessagesFrame, orcaVars, Lefts
  <2>2. run = None /\ UNCHANGED <<procs, spawn>>
    BY <1>10 DEF RunIsCreated, RunIsObserved
  <2>3. spawn' = NoSpawn
    BY <2>2, NoRunIsEmpty DEF InOrder
  <2> QED
    BY <2>1, <2>2, <2>3, NewRunInOrder
<1>11. CASE DispatchReturns \/ ObservationStarts
  <2>1. MessagesFrame /\ UNCHANGED <<run, disposed>>
    BY <1>0, <1>11 DEF DispatchReturns, ObservationStarts, Calls, MessagesFrame, orcaVars, Lefts
  <2>2. CASE proc = 0
    BY <1>0, <1>11, <2>1, <2>2, StartedInOrder DEF DispatchReturns, ObservationStarts
  <2>3. CASE proc # 0
    BY <1>11, <2>1, <2>3, SameInOrder DEF DispatchReturns, ObservationStarts, watchVars
  <2> QED
    BY <2>2, <2>3
<1>12. CASE ObservedReturns
  <2>1. MessagesFrame
    BY <1>12 DEF ObservedReturns, MessagesFrame, orcaVars
  <2> QED
    BY <1>0, <1>12, <2>1, StartedInOrder DEF ObservedReturns
<1>13. CASE LookupReturns
  <2>1. MessagesFrame /\ call.run \in MayRun
    BY <1>0, <1>13 DEF LookupReturns, MessagesFrame, orcaVars, CallTypes
  <2>2. CASE run = None
    BY <1>13, <2>1, <2>2, StartedInOrder DEF LookupReturns
  <2>3. CASE run # None
    BY <1>13, <2>1, <2>3, SameInOrder DEF LookupReturns, watchVars
  <2> QED
    BY <2>2, <2>3
<1> QED
  BY <1>1, <1>2, <1>3, <1>4, <1>5, <1>6, <1>7, <1>8, <1>9, <1>10, <1>11, <1>12, <1>13
     DEF Next, Rounds, Tool, QuietStep

\* Every step keeps what is known of calls and discovery under way.
LEMMA NextUnderway ==
  ASSUME WatchTypes, Underway, [Next]_vars PROVE Underway'
<1>0. real \in [Workers -> [run : MayRun, life : Lives]] /\ call \in CallTypes /\ call.worker \in Workers
  BY DEF WatchTypes, CallTypes
<1>1. disposed' => ~boot'.asked
  <2>1. UNCHANGED <<disposed, boot>> \/ (disposed' = disposed /\ boot' = NoBoot) \/ SessionEnds \/ SessionStarts
    <3>1. CASE UNCHANGED vars
      BY <3>1 DEF vars
    <3>2. CASE QuietStep
      BY <3>2 DEF QuietStep, RoundStarts, RoundLands, RoundFails, BootFails, WorkerStarts, ReleaseReturns,
         DispatchFails, AckReturns, DispatchIsCalled, WorkerIsLookedUp, WorkerIsReleased, WorkerIsForgotten,
         WorkerReports, WorkerAsks, WorkerExits
    <3>3. CASE SpawnResolves \/ TimerFires \/ \E s \in Slots : Check(s) \/ CheckEnds(s)
      BY <3>3 DEF SpawnResolves, TimerFires, Check, CheckEnds, CheckBegins, CheckPrints, CheckTimesOut,
         LineIsRead, CheckCloses
    <3>4. CASE RunIsDiscovered \/ BootLands \/ DispatchReturns \/ ObservedReturns \/ LookupReturns
      BY <3>4 DEF RunIsDiscovered, BootLands, DispatchReturns, ObservedReturns, LookupReturns
    <3>5. CASE ObservationStarts \/ ObservationStops \/ \E r \in Runs : RunIsCreated(r) \/ RunIsObserved(r)
      BY <3>5 DEF ObservationStarts, ObservationStops, RunIsCreated, RunIsObserved
    <3> QED
      BY <3>1, <3>2, <3>3, <3>4, <3>5 DEF Next, QuietStep, Rounds, Tool
  <2>2. NoBoot.asked = FALSE
    BY DEF NoBoot
  <2>3. CASE SessionEnds
    BY <2>2, <2>3 DEF SessionEnds
  <2>4. CASE SessionStarts
    BY <2>4 DEF SessionStarts
  <2>5. CASE UNCHANGED <<disposed, boot>> \/ (disposed' = disposed /\ boot' = NoBoot)
    BY <2>2, <2>5 DEF Underway
  <2> QED
    BY <2>1, <2>3, <2>4, <2>5
<1>2. call'.pc \in {"create", "start"} => real'[call'.worker].life = "none"
  <2>1. CASE UNCHANGED <<real, call>>
    BY <2>1 DEF Underway
  <2>2. ASSUME NEW w \in Workers, DispatchIsCalled(w) PROVE real'[call'.worker].life = "none"
    <3>1. call'.worker = w /\ real' = real
      BY <2>2, CallsTyped, NoCallIsIdle DEF DispatchIsCalled, NoCall, orcaVars
    <3> QED
      BY <2>2, <3>1 DEF DispatchIsCalled
  <2>3. ASSUME NEW r \in Runs, RunIsCreated(r) PROVE real'[call'.worker].life = "none"
    <3>1. call'.worker = call.worker /\ real' = real /\ call.pc = "create"
      BY <1>0, <2>3 DEF RunIsCreated, CallTypes
    <3> QED
      BY <3>1 DEF Underway
  <2>4. ASSUME NEW w \in Workers, WorkerReports(w) \/ WorkerExits(w)
        PROVE  call'.pc \in {"create", "start"} => real'[call'.worker].life = "none"
    <3>1. call' = call /\ (\A v \in Workers : v # w => real'[v] = real[v]) /\ real[w].life # "none"
      BY <1>0, <2>4 DEF WorkerReports, WorkerExits, Live
    <3> QED
      BY <1>0, <3>1 DEF Underway
  <2>5. CASE \/ WorkerStarts \/ DispatchReturns \/ ObservedReturns \/ LookupReturns \/ ReleaseReturns \/ DispatchFails
             \/ (\E r \in Runs : RunIsObserved(r))
             \/ \E w \in Workers : WorkerIsLookedUp(w) \/ WorkerIsReleased(w)
    BY <1>0, <2>5, NoCallIsIdle DEF WorkerStarts, DispatchReturns, ObservedReturns, LookupReturns, ReleaseReturns,
       DispatchFails, RunIsObserved, WorkerIsLookedUp, WorkerIsReleased, CallTypes, NoCall
  <2>6. CASE \/ RoundStarts \/ RoundLands \/ RoundFails \/ BootFails \/ BootLands \/ RunIsDiscovered
             \/ SpawnResolves \/ TimerFires \/ SessionEnds \/ SessionStarts \/ ObservationStarts \/ ObservationStops
             \/ UNCHANGED vars
    BY <2>1, <2>6 DEF RoundStarts, RoundLands, RoundFails, BootFails, BootLands, RunIsDiscovered, SpawnResolves,
       TimerFires, SessionEnds, SessionStarts, ObservationStarts, ObservationStops, vars, orcaVars
  <2>7. CASE \/ \E s \in Slots : Check(s) \/ CheckEnds(s)
             \/ \E id \in acks : AckReturns(id)
             \/ \E w \in Workers : WorkerIsForgotten(w) \/ WorkerAsks(w)
    BY <2>1, <2>7 DEF Check, CheckEnds, CheckBegins, CheckPrints, CheckTimesOut, LineIsRead, CheckCloses,
       AckReturns, WorkerIsForgotten, WorkerAsks, orcaVars
  <2> QED
    BY <2>2, <2>3, <2>4, <2>5, <2>6, <2>7 DEF Next, Rounds, Tool
<1> QED
  BY <1>1, <1>2 DEF Underway

\* What was once disturbed stays so.
LEMMA SmoothBefore == ASSUME [Next]_vars, smooth' PROVE smooth
<1>1. CASE UNCHANGED vars
  BY <1>1 DEF vars, watchVars
<1>2. CASE QuietStep
  BY <1>2, QuietWatch DEF watchVars
<1>3. ASSUME NEW r, StartCheckProcess(r) PROVE smooth
  BY <1>3 DEF StartCheckProcess, StopCheck, watchVars
<1>4. CASE SpawnResolves \/ TimerFires \/ SessionStarts
  BY <1>3, <1>4 DEF SpawnResolves, TimerFires, SessionStarts, watchVars
<1>5. CASE \E s \in Slots : Check(s) \/ CheckEnds(s)
  BY <1>5 DEF Check, CheckEnds, CheckBegins, CheckPrints, CheckTimesOut, LineIsRead, CheckCloses
<1>6. CASE RunIsDiscovered \/ BootLands
  BY <1>3, <1>6 DEF RunIsDiscovered, BootLands, Discovers, watchVars
<1>7. CASE SessionEnds \/ ObservationStops
  BY <1>7 DEF SessionEnds, ObservationStops, StopCheckProcess, StopCheck
<1>8. CASE DispatchReturns \/ ObservedReturns \/ LookupReturns \/ ObservationStarts
  BY <1>3, <1>8 DEF DispatchReturns, ObservedReturns, LookupReturns, ObservationStarts, watchVars
<1>9. CASE \E r \in Runs : RunIsCreated(r) \/ RunIsObserved(r)
  BY <1>9 DEF RunIsCreated, RunIsObserved
<1> QED
  BY <1>1, <1>2, <1>4, <1>5, <1>6, <1>7, <1>8, <1>9 DEF Next, Rounds, Tool, QuietStep

\* The initial state is in order.
LEMMA InitInOrder == ASSUME Init PROVE Underway /\ InOrder
<1>1. \A s \in Slots : procs[s].pc = "closed"
  BY ClosedFacts DEF Init
<1>2. OneRun /\ Deliveries
  BY <1>1 DEF Init, OneRun, Deliveries, Running
<1>3. \A w \in Workers : Unsaid(<<w, "done">>) /\ Unsaid(<<w, "question">>)
  BY DEF Init, Unsaid, Messages, Nothing
<1>4. SaidOnce
  <2>1. \A m \in Says : told[m] <= 1
    BY DEF Init, Says, Messages
  <2>2. \A r \in Runs : inbox[r] = {}
    BY DEF Init
  <2> QED
    BY <1>3, <2>1, <2>2 DEF SaidOnce
<1>5. Underway
  BY NoCallIsIdle DEF Init, Underway
<1> QED
  BY <1>2, <1>4, <1>5 DEF InOrder

\* As long as no watcher is killed with an acknowledgement to give and no run is
\* left, no report and no question is told twice, for any number of runs,
\* workers, processes and failed acknowledgements: of what Orca has not been
\* acknowledged, nothing was told or the next watcher acknowledges it first.
THEOREM NothingIsToldTwice == Spec => []RepeatsHaveACause
<1>1. Init => MessagesInv
  BY WatchStarts, InitInOrder DEF MessagesInv
<1>2. MessagesInv /\ [Next]_vars => MessagesInv'
  BY WatchGoesOn, NextUnderway, NextInOrder, SmoothBefore DEF MessagesInv, WatchInv
<1>3. MessagesInv => RepeatsHaveACause
  BY DEF MessagesInv, InOrder, SaidOnce, Says, RepeatsHaveACause
<1> QED
  BY <1>1, <1>2, <1>3, PTL DEF Spec
=============================================================================
