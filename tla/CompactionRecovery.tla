------------------------- MODULE CompactionRecovery -------------------------
(***************************************************************************)
(* compaction-fail-recovery.ts: when pi fails to summarize its context, the  *)
(* extension replaces old tool responses by placeholders, runs the compaction *)
(* again from a timer, and sends the interrupted prompt again once it worked. *)
(*                                                                          *)
(* pi itself (the run, the compactions, the session) is external: what it may *)
(* do is taken from the comments and tests of the extension.  A prompt is its *)
(* text.  A recovery compresses every candidate, so the order in which        *)
(* planCompression ranks them and its token estimates make no difference.     *)
(***************************************************************************)
EXTENDS Integers, Sequences

CONSTANTS
    Prompts,      \* numbers of the prompts the user may send
    Keeps,        \* numbers of responses one may ask to keep
    DefaultKeep,  \* DEFAULTS.keepRecentToolResults
    MaxRounds,    \* bound on the setting maxRecoveryRounds
    MaxResults,   \* bound on the tool responses of a session
    MaxCuts       \* bound on the failures under one prompt, and on armed retries

Absent   == -1
NoPrompt == 0
\* A response below minCompressChars is not worth a placeholder.
Response == {"small", "large", "placeholder"}
Reasons  == {"overflow", "threshold", "manual"}
Failures == {"token cap", "other", "aborted"}

VARIABLES
    settings,    \* [enabled, flag, block, rounds]: the user's configuration
    results,     \* the tool responses of the session, in order
    from,        \* the first of them that is still projected into the context
    prompt,      \* the last user message of the session
    run,         \* "idle" or "busy": the agent's run
    compaction,  \* the compaction under way: its reason, and what it resends
    retries,     \* armed timers, counted by the prompt they carry
    rounds,      \* recoveryRounds
    cut,         \* failures that interrupted a run, by the last prompt then
    resent       \* how often each prompt was sent again

compactionVars == <<settings, results, from, prompt, run, compaction, retries, rounds, cut, resent>>

PromptOrNone == Prompts \cup {NoPrompt}
KeepOrAbsent == Keeps \cup {Absent}

NoCompaction == [reason |-> "none", resends |-> NoPrompt]
Compactions  == [reason : Reasons, resends : PromptOrNone] \cup {NoCompaction}

CompactionInit ==
    /\ settings \in [enabled : BOOLEAN, flag : KeepOrAbsent, block : KeepOrAbsent, rounds : 1..MaxRounds]
    /\ results = <<>>
    /\ from = 1
    /\ prompt = NoPrompt
    /\ run = "idle"
    /\ compaction = NoCompaction
    /\ retries = [p \in PromptOrNone |-> 0]
    /\ rounds = 0
    /\ cut = [p \in Prompts |-> 0]
    /\ resent = [p \in Prompts |-> 0]

-----------------------------------------------------------------------------
(* Settings and the compression pass *)

\* resolveRecoverySettings: argument, flag, settings file, default.
KeepRecent(arg) ==
    IF arg # Absent THEN arg
    ELSE IF settings.flag # Absent THEN settings.flag
    ELSE IF settings.block # Absent THEN settings.block
    ELSE DefaultKeep

Visible == Len(results) - from + 1

\* results.slice(length - keep) over the visible responses: the offset of the
\* first preserved one.  A negative start counts from the end.
PreservedFrom(keep) ==
    LET start == Visible - keep
    IN  IF start >= 0 THEN start
        ELSE IF Visible + start >= 0 THEN Visible + start ELSE 0

Candidate(i, keep) ==
    /\ i \in from..Len(results)
    /\ i < from + PreservedFrom(keep)
    /\ results[i] = "large"

\* planCompression with compressAll.
Compressed(keep) ==
    [i \in DOMAIN results |-> IF Candidate(i, keep) THEN "placeholder" ELSE results[i]]

\* runCompressionPass, when it is enabled and finds something to compress.
Compresses(keep) == settings.enabled /\ \E i \in DOMAIN results : Candidate(i, keep)

CompressionPass(keep) == results' = Compressed(keep)

-----------------------------------------------------------------------------
(* session_compact_failed *)

\* isRecoverableCompactionFailure
Recoverable(failure) ==
    /\ failure # "aborted"
    /\ compaction.reason = "overflow" \/ failure = "token cap"

\* The handler goes on to compress, and what it compresses is something.
Recovers(failure) ==
    /\ Recoverable(failure)
    /\ rounds < settings.rounds
    /\ Compresses(KeepRecent(Absent))

\* The prompt to send again: a manual compaction interrupted none.
LastPrompt == IF compaction.reason = "manual" THEN NoPrompt ELSE prompt

CompactionFails(failure) ==
    /\ compaction # NoCompaction
    /\ LastPrompt # NoPrompt => cut[LastPrompt] < MaxCuts
    /\ retries[LastPrompt] < MaxCuts
    /\ compaction' = NoCompaction
    /\ cut' = IF LastPrompt = NoPrompt THEN cut ELSE [cut EXCEPT ![LastPrompt] = @ + 1]
    /\ \/ /\ Recovers(failure)
          /\ CompressionPass(KeepRecent(Absent))
          /\ rounds' = rounds + 1
          /\ retries' = [retries EXCEPT ![LastPrompt] = @ + 1]
       \/ ~ Recovers(failure) /\ UNCHANGED <<results, rounds, retries>>
    /\ UNCHANGED <<settings, from, prompt, run, resent>>

\* The timer of a retry that carries prompt p: ctx.compact() aborts a run that
\* was started meanwhile; it may also throw, which is only told to the user.
RetryFires(p) ==
    /\ retries[p] > 0
    /\ retries' = [retries EXCEPT ![p] = @ - 1]
    /\ \/ /\ compaction = NoCompaction
          /\ compaction' = [reason |-> "manual", resends |-> p]
          /\ run' = "idle"
       \/ UNCHANGED <<compaction, run>>
    /\ UNCHANGED <<settings, results, from, prompt, rounds, cut, resent>>

\* onComplete: send the prompt again, unless another run was started meanwhile.
Resends == compaction.resends # NoPrompt /\ run = "idle"

\* A compaction ends well: older responses are summarized.  pi goes on with
\* the run it interrupted itself, and the extension sends the prompt again.
CompactionSucceeds ==
    /\ compaction # NoCompaction
    /\ from' \in from..(Len(results) + 1)
    /\ compaction' = NoCompaction
    /\ \/ /\ Resends
          /\ resent' = [resent EXCEPT ![compaction.resends] = @ + 1]
          /\ prompt' = compaction.resends
          /\ run' = "busy"
       \/ /\ ~ Resends
          /\ run' = IF compaction.reason = "manual" THEN run ELSE "busy"
          /\ UNCHANGED <<resent, prompt>>
    /\ UNCHANGED <<settings, results, retries, rounds, cut>>

-----------------------------------------------------------------------------
(* Commands, sessions, and what pi and its user do *)

\* /compact-recovery [keep]
CompactRecovery(arg) ==
    /\ compaction = NoCompaction
    /\ Compresses(KeepRecent(arg))
    /\ CompressionPass(KeepRecent(arg))
    /\ compaction' = [reason |-> "manual", resends |-> NoPrompt]
    /\ run' = "idle"
    /\ UNCHANGED <<settings, from, prompt, retries, rounds, cut, resent>>

\* A fresh session has a fresh budget.
FreshSession ==
    /\ compaction = NoCompaction /\ run = "idle"
    /\ results' = <<>>
    /\ from' = 1
    /\ prompt' = NoPrompt
    /\ rounds' = 0
    /\ UNCHANGED <<settings, run, compaction, retries, cut, resent>>

\* A reload or a resume keeps the budget; if pi runs the factory again for it,
\* there is a new counter.
SameSession ==
    /\ compaction = NoCompaction /\ run = "idle"
    /\ rounds' = 0
    /\ UNCHANGED <<settings, results, from, prompt, run, compaction, retries, cut, resent>>

UserPrompts(p) ==
    /\ run = "idle"
    /\ prompt' = p
    /\ run' = "busy"
    /\ UNCHANGED <<settings, results, from, compaction, retries, rounds, cut, resent>>

ToolResponds(size) ==
    /\ run = "busy" /\ Len(results) < MaxResults
    /\ results' = Append(results, size)
    /\ UNCHANGED <<settings, from, prompt, run, compaction, retries, rounds, cut, resent>>

RunEnds ==
    /\ run = "busy"
    /\ run' = "idle"
    /\ UNCHANGED <<settings, results, from, prompt, compaction, retries, rounds, cut, resent>>

\* pi compacts a run that overflows or grew past the threshold, or its user
\* asks for it.
CompactionBegins(reason) ==
    /\ compaction = NoCompaction
    /\ reason # "manual" => run = "busy"
    /\ compaction' = [reason |-> reason, resends |-> NoPrompt]
    /\ run' = "idle"
    /\ UNCHANGED <<settings, results, from, prompt, retries, rounds, cut, resent>>

CompactionNext ==
    \/ \E failure \in Failures : CompactionFails(failure)
    \/ \E p \in PromptOrNone : RetryFires(p)
    \/ CompactionSucceeds
    \/ \E arg \in KeepOrAbsent : CompactRecovery(arg)
    \/ FreshSession \/ SameSession
    \/ \E p \in Prompts : UserPrompts(p)
    \/ \E size \in {"small", "large"} : ToolResponds(size)
    \/ RunEnds
    \/ \E reason \in Reasons : CompactionBegins(reason)

CompactionSpec == CompactionInit /\ [][CompactionNext]_compactionVars

-----------------------------------------------------------------------------
(* Properties *)

CompactionTypeOK ==
    /\ settings \in [enabled : BOOLEAN, flag : KeepOrAbsent, block : KeepOrAbsent, rounds : 1..MaxRounds]
    /\ results \in Seq(Response)
    /\ from \in 1..(Len(results) + 1)
    /\ prompt \in PromptOrNone
    /\ run \in {"idle", "busy"}
    /\ compaction \in Compactions
    /\ retries \in [PromptOrNone -> Nat]
    /\ rounds \in 0..settings.rounds
    /\ cut \in [Prompts -> Nat]
    /\ resent \in [Prompts -> Nat]

\* The work that is promised to prompt p: a compaction that will send it again.
Carried(p) == IF compaction.resends = p THEN 1 ELSE 0

\* A prompt is sent again no more often than a compaction failed under it:
\* retries that pile up, retries that fail and fail again, prompts of the user
\* in between and new sessions never multiply it.
ResendsHaveACause ==
    \A p \in Prompts : resent[p] + retries[p] + Carried(p) <= cut[p]

\* With at least as many responses as are to be kept, a recovery leaves the
\* most recent of them alone.
RecentAreKeptOfMany ==
    [][rounds' > rounds /\ Visible >= KeepRecent(Absent) =>
          \A i \in DOMAIN results :
             i > Len(results) - KeepRecent(Absent) => results'[i] = results[i]]_compactionVars

-----------------------------------------------------------------------------
(* What the documentation says, and the code does not do *)

\* "The last N tool call responses (default 5, configurable) are never
\* compressed": a recovery leaves the N most recent responses alone.
RecentAreKept ==
    [][rounds' > rounds =>
          \A i \in DOMAIN results :
             i > Len(results) - KeepRecent(Absent) => results'[i] = results[i]]_compactionVars
=============================================================================
