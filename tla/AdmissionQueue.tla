---------------------------- MODULE AdmissionQueue ----------------------------
(***************************************************************************)
(* What devin-delegate promises about concurrency, and no more: jobs arrive, *)
(* wait in order of arrival, and enter service from the front of the line    *)
(* only while the number in service stays within the limit.  DevinDelegate   *)
(* is shown to implement it.                                                 *)
(*                                                                           *)
(* A job that was served may come back (a follow-up message): the promise    *)
(* says nothing of the limit there, because the code reserves no slot.       *)
(***************************************************************************)
EXTENDS Integers, Sequences, FiniteSets

CONSTANTS Job, Limits

VARIABLES limit, waiting, serving, seen

vars == <<limit, waiting, serving, seen>>

Init ==
    /\ limit \in Limits
    /\ waiting = <<>>
    /\ serving = {}
    /\ seen = {}

\* The first k jobs of line enter service next to those of base.
Enter(line, base, k) ==
    /\ waiting' = SubSeq(line, k + 1, Len(line))
    /\ serving' = base \cup {line[i] : i \in 1..k}
    /\ k > 0 => Cardinality(serving') <= limit'

Fill(line, base) == \E k \in 0..Len(line) : Enter(line, base, k)

Arrive(j) ==
    /\ j \notin seen
    /\ seen' = seen \cup {j}
    /\ UNCHANGED limit
    /\ Fill(Append(waiting, j), serving)

\* Jobs leave service; the others, and the line, may move up.
Leave(gone) ==
    /\ UNCHANGED <<limit, seen>>
    /\ Fill(waiting, serving \ gone)

Resize(n) ==
    /\ limit' = n
    /\ UNCHANGED seen
    /\ Fill(waiting, serving)

\* A waiting job is withdrawn; nobody else moves in the line.
Withdraw(i) ==
    /\ waiting' = SubSeq(waiting, 1, i - 1) \o SubSeq(waiting, i + 1, Len(waiting))
    /\ UNCHANGED <<limit, serving, seen>>

\* A job is refused before it reaches the line.
Refuse(j) ==
    /\ j \notin seen
    /\ seen' = seen \cup {j}
    /\ UNCHANGED <<limit, waiting, serving>>

Return(j) ==
    /\ j \in seen \ serving
    /\ \A i \in 1..Len(waiting) : waiting[i] # j
    /\ serving' = serving \cup {j}
    /\ UNCHANGED <<limit, waiting, seen>>

\* The line is closed: the waiting jobs are dropped.
Close(gone) ==
    /\ waiting' = <<>>
    /\ serving' = serving \ gone
    /\ UNCHANGED <<limit, seen>>

Next ==
    \/ \E j \in Job : Arrive(j) \/ Refuse(j) \/ Return(j)
    \/ \E gone \in SUBSET serving : Leave(gone) \/ Close(gone)
    \/ \E n \in Limits : Resize(n)
    \/ \E i \in 1..Len(waiting) : Withdraw(i)

Spec == Init /\ [][Next]_vars
=============================================================================
