------------------------ MODULE DevinDelegateProofs ------------------------
(***************************************************************************)
(* Proofs about DevinDelegate for every number of tasks, every limit and     *)
(* every number of re-attached processes.                                    *)
(*                                                                           *)
(* SlotAccounting is not inductive alone: an admission adds one slot per     *)
(* admitted task, which is right only if the queue holds every waiting task  *)
(* once, and tasks that are queued hold no slot.  Inv adds that, and what    *)
(* the drain loop knows about the task it awaits a worktree for.             *)
(*                                                                           *)
(* What a session, its client, its processes and their prompts have to do    *)
(* with each other depends on how far the start is: Sessions says it for     *)
(* each stage, NoSession, Opening and Established.  From Inv and Sessions    *)
(* follow the agreement of status and processes, that a cancel is final, and *)
(* that the extension implements AdmissionQueue, the abstract promise.       *)
(***************************************************************************)
EXTENDS DevinDelegate, FiniteSetTheorems, SequenceTheorems, TLAPS

HoldingOf(st) == {t \in Task : st[t] \in Starting}

Distinct(q) == \A i, j \in 1..Len(q) : q[i] = q[j] => i = j

Queued(q, st) == \A t \in Task : st[t] = "queued" <=> \E i \in 1..Len(q) : q[i] = t

\* The bookkeeping of a drain, for queue q, n reserved slots, stages st and
\* drain task d.
Consistent(q, n, st, d) ==
    /\ q \in Seq(Task) /\ n \in Nat /\ st \in [Task -> Stage] /\ d \in 0..MaxTasks
    /\ n = Cardinality(HoldingOf(st))
    /\ Distinct(q)
    /\ Queued(q, st)
    /\ d # 0 => st[d] = "worktree"

\* The tasks not yet delegated have no stage.
FreshTasks == \A t \in Task : t > invoked => stage[t] = "none"

Inv ==
    /\ TypeOK
    /\ Consistent(queue, pending, stage, drainTask)
    /\ FreshTasks

-----------------------------------------------------------------------------
(* Facts about sets of tasks and sequences *)

\* Every set of tasks is finite.
LEMMA TasksFinite ==
  ASSUME NEW S, S \subseteq Task
  PROVE  IsFiniteSet(S) /\ Cardinality(S) \in Nat
<1>1. IsFiniteSet(Task)
  BY FS_Interval, DelegateAssumption DEF Task
<1>2. IsFiniteSet(S)
  BY <1>1, FS_Subset
<1>. QED
  BY <1>2, FS_CardinalityType

\* The first k elements of a queue without duplicates are k tasks.
LEMMA PrefixCardinality ==
  ASSUME NEW q \in Seq(Task), Distinct(q), NEW k \in 0..Len(q)
  PROVE  Cardinality({q[i] : i \in 1..k}) = k
<1>. DEFINE P == {q[i] : i \in 1..k}
            f == [i \in 1..k |-> q[i]]
<1>1. Len(q) \in Nat /\ k \in Nat
  BY LenProperties
<1>2. f \in Surjection(1..k, P)
  BY DEF Surjection
<1>3. f \in Injection(1..k, P)
  BY <1>1 DEF Injection, IsInjective, Distinct
<1>4. IsFiniteSet(1..k) /\ Cardinality(1..k) = k
  BY <1>1, FS_Interval
<1>. QED
  BY <1>2, <1>3, <1>4, FS_Surjection

\* Two disjoint sets of tasks.
LEMMA DisjointCardinality ==
  ASSUME NEW A, NEW B, A \subseteq Task, B \subseteq Task, A \cap B = {}
  PROVE  Cardinality(A \cup B) = Cardinality(A) + Cardinality(B)
<1>1. IsFiniteSet(A) /\ IsFiniteSet(B) /\ Cardinality(A) \in Nat /\ Cardinality(B) \in Nat
  BY TasksFinite
<1>2. Cardinality(A \cap B) = 0
  BY FS_EmptySet
<1>3. Cardinality(A \cup B) = Cardinality(A) + Cardinality(B) - Cardinality(A \cap B)
  BY <1>1, FS_Union
<1>. QED
  BY <1>1, <1>2, <1>3

\* Two sets of tasks that may overlap.
LEMMA UnionCardinality ==
  ASSUME NEW A, NEW B, A \subseteq Task, B \subseteq Task
  PROVE  Cardinality(A \cup B) <= Cardinality(A) + Cardinality(B)
<1>1. /\ IsFiniteSet(A) /\ IsFiniteSet(B) /\ Cardinality(A) \in Nat
      /\ Cardinality(B) \in Nat /\ Cardinality(A \cap B) \in Nat
  BY TasksFinite
<1>2. Cardinality(A \cup B) = Cardinality(A) + Cardinality(B) - Cardinality(A \cap B)
  BY <1>1, FS_Union
<1>. QED
  BY <1>1, <1>2

\* Removing one position of a queue.
LEMMA SplicedFacts ==
  ASSUME NEW q \in Seq(Task), NEW i \in 1..Len(q)
  PROVE  /\ Spliced(q, i) \in Seq(Task)
         /\ Len(Spliced(q, i)) = Len(q) - 1
         /\ \A j \in 1..(Len(q) - 1) :
               Spliced(q, i)[j] = IF j < i THEN q[j] ELSE q[j + 1]
<1>. DEFINE a == SubSeq(q, 1, i - 1)
            b == SubSeq(q, i + 1, Len(q))
<1>1. Len(q) \in Nat /\ \A j \in 1..Len(q) : q[j] \in Task
  BY LenProperties, ElementOfSeq
<1>2. /\ a \in Seq(Task)
      /\ Len(a) = i - 1
      /\ \A j \in 1..(i - 1) : a[j] = q[j]
  BY <1>1, SubSeqProperties
<1>3. /\ b \in Seq(Task)
      /\ Len(b) = Len(q) - i
      /\ \A j \in 1..(Len(q) - i) : b[j] = q[i + j]
  <2>1. \A j \in (i + 1)..Len(q) : q[j] \in Task
    BY <1>1
  <2>2. /\ b \in Seq(Task)
        /\ Len(b) = IF i + 1 <= Len(q) THEN Len(q) - (i + 1) + 1 ELSE 0
        /\ \A j \in 1..(Len(q) - (i + 1) + 1) : b[j] = q[(i + 1) + j - 1]
    <3>. HIDE DEF b
    <3>. QED BY <1>1, <2>1, SubSeqProperties DEF b
  <2>. QED
    BY <1>1, <2>2
<1>4. /\ a \o b \in Seq(Task)
      /\ Len(a \o b) = Len(a) + Len(b)
      /\ \A j \in 1..(Len(a) + Len(b)) :
            (a \o b)[j] = IF j <= Len(a) THEN a[j] ELSE b[j - Len(a)]
  BY <1>2, <1>3, ConcatProperties
<1>5. Spliced(q, i) = a \o b
  BY DEF Spliced
<1>. HIDE DEF a, b
<1>6. ASSUME NEW j \in 1..(Len(q) - 1)
      PROVE  (a \o b)[j] = IF j < i THEN q[j] ELSE q[j + 1]
  <2>1. CASE j < i
    <3>1. j \in 1..(i - 1) /\ j <= Len(a) /\ j \in 1..(Len(a) + Len(b))
      BY <2>1, <1>1, <1>2, <1>3
    <3>. QED
      BY <3>1, <2>1, <1>2, <1>4
  <2>2. CASE ~ (j < i)
    <3>1. /\ ~ (j <= Len(a)) /\ j \in 1..(Len(a) + Len(b))
          /\ j - Len(a) \in 1..(Len(q) - i) /\ i + (j - Len(a)) = j + 1
      BY <2>2, <1>1, <1>2, <1>3
    <3>. QED
      BY <3>1, <2>2, <1>3, <1>4
  <2>. QED
    BY <2>1, <2>2
<1>7. Len(a \o b) = Len(q) - 1
  BY <1>1, <1>2, <1>3, <1>4
<1>. QED
  BY <1>4, <1>5, <1>6, <1>7

-----------------------------------------------------------------------------
(* What single changes of a stage do to the bookkeeping *)

\* A start moves on to the next await.
LEMMA Moves ==
  ASSUME NEW q, NEW n, NEW st, NEW d, Consistent(q, n, st, d),
         NEW t \in Task, t # d, st[t] \in Starting, NEW s \in Starting
  PROVE  Consistent(q, n, [st EXCEPT ![t] = s], d)
<1>1. HoldingOf([st EXCEPT ![t] = s]) = HoldingOf(st)
  BY DEF HoldingOf, Consistent
<1>2. Queued(q, [st EXCEPT ![t] = s])
  BY DEF Queued, Consistent, Starting
<1>. QED
  BY <1>1, <1>2 DEF Consistent, Starting, Stage

\* A start is over: its slot is given back.
LEMMA Leaves ==
  ASSUME NEW q, NEW n, NEW st, NEW d, Consistent(q, n, st, d),
         NEW t \in Task, t # d, st[t] \in Starting,
         NEW s \in Stage \ (Starting \cup {"queued"})
  PROVE  Consistent(q, n - 1, [st EXCEPT ![t] = s], d)
<1>. DEFINE st1 == [st EXCEPT ![t] = s]
<1>1. HoldingOf(st1) = HoldingOf(st) \ {t}
  BY DEF HoldingOf, Consistent
<1>2. IsFiniteSet(HoldingOf(st)) /\ t \in HoldingOf(st)
  BY TasksFinite DEF HoldingOf
<1>3. Cardinality(HoldingOf(st) \ {t}) = n - 1
  BY <1>2, FS_RemoveElement DEF Consistent
<1>4. n - 1 \in Nat
  BY <1>3, TasksFinite DEF HoldingOf
<1>5. Queued(q, st1)
  BY DEF Queued, Consistent, Starting
<1>6. st1 \in [Task -> Stage] /\ (d # 0 => st1[d] = "worktree")
  BY DEF Consistent, Task
<1>7. Consistent(q, n - 1, st1, d)
  <2>. HIDE DEF st1
  <2>. QED
    BY <1>1, <1>3, <1>4, <1>5, <1>6 DEF Consistent
<1>. QED
  BY <1>7

\* A task that neither waits nor holds a slot is admitted.
LEMMA Enters ==
  ASSUME NEW q, NEW n, NEW st, NEW d, Consistent(q, n, st, d),
         NEW t \in Task, st[t] \notin Starting \cup {"queued"}, NEW s \in Starting
  PROVE  Consistent(q, n + 1, [st EXCEPT ![t] = s], d)
<1>. DEFINE st1 == [st EXCEPT ![t] = s]
<1>1. HoldingOf(st1) = HoldingOf(st) \cup {t}
  BY DEF HoldingOf, Consistent
<1>2. IsFiniteSet(HoldingOf(st)) /\ t \notin HoldingOf(st)
  BY TasksFinite DEF HoldingOf
<1>3. Cardinality(HoldingOf(st) \cup {t}) = n + 1
  BY <1>2, FS_AddElement DEF Consistent
<1>4. Queued(q, st1)
  BY DEF Queued, Consistent, Starting
<1>5. d # t
  BY DEF Consistent, Starting, Task
<1>6. st1 \in [Task -> Stage] /\ (d # 0 => st1[d] = "worktree")
  BY <1>5 DEF Consistent, Task, Starting, Stage
<1>7. Consistent(q, n + 1, st1, d)
  <2>. HIDE DEF st1
  <2>. QED
    BY <1>1, <1>3, <1>4, <1>6 DEF Consistent
<1>. QED
  BY <1>7

\* It changes between stages that neither wait nor hold a slot.
LEMMA Idles ==
  ASSUME NEW q, NEW n, NEW st, NEW d, Consistent(q, n, st, d),
         NEW t \in Task, st[t] \notin Starting \cup {"queued"},
         NEW s \in Stage \ (Starting \cup {"queued"})
  PROVE  Consistent(q, n, [st EXCEPT ![t] = s], d)
<1>1. HoldingOf([st EXCEPT ![t] = s]) = HoldingOf(st)
  BY DEF HoldingOf, Consistent
<1>2. Queued(q, [st EXCEPT ![t] = s])
  BY DEF Queued, Consistent
<1>3. d # t
  BY DEF Consistent, Starting, Task
<1>. QED
  BY <1>1, <1>2, <1>3 DEF Consistent

\* It joins the end of the queue.
LEMMA Enqueues ==
  ASSUME NEW q, NEW n, NEW st, NEW d, Consistent(q, n, st, d),
         NEW t \in Task, st[t] \notin Starting \cup {"queued"}
  PROVE  Consistent(Append(q, t), n, [st EXCEPT ![t] = "queued"], d)
<1>. DEFINE r == Append(q, t)
            st1 == [st EXCEPT ![t] = "queued"]
<1>1. /\ r \in Seq(Task)
      /\ Len(r) = Len(q) + 1 /\ Len(q) \in Nat
      /\ \A i \in 1..Len(q) : r[i] = q[i]
      /\ r[Len(q) + 1] = t
  BY AppendProperties, LenProperties DEF Consistent
<1>2. \A i \in 1..Len(q) : q[i] # t
  BY DEF Consistent, Queued
<1>3. HoldingOf(st1) = HoldingOf(st)
  BY DEF HoldingOf, Consistent, Starting
<1>. HIDE DEF r
<1>4. Distinct(r)
  BY <1>1, <1>2 DEF Consistent, Distinct
<1>5. Queued(r, st1)
  <2>. SUFFICES ASSUME NEW u \in Task
                PROVE  st1[u] = "queued" <=> \E i \in 1..Len(r) : r[i] = u
    BY DEF Queued
  <2>1. CASE u = t
    BY <2>1, <1>1 DEF Consistent
  <2>2. CASE u # t
    <3>1. st1[u] = st[u]
      BY <2>2 DEF Consistent
    <3>2. (\E i \in 1..Len(q) : q[i] = u) <=> \E i \in 1..Len(r) : r[i] = u
      BY <2>2, <1>1
    <3>. QED
      BY <3>1, <3>2 DEF Consistent, Queued
  <2>. QED
    BY <2>1, <2>2
<1>6. d # t
  BY DEF Consistent, Starting, Task
<1>. QED
  BY <1>1, <1>3, <1>4, <1>5, <1>6 DEF Consistent, Stage, r

\* A queued task is withdrawn.
LEMMA Withdraws ==
  ASSUME NEW q, NEW n, NEW st, NEW d, Consistent(q, n, st, d), NEW i \in 1..Len(q)
  PROVE  Consistent(Spliced(q, i), n, [st EXCEPT ![q[i]] = "dropped"], d)
<1>. DEFINE r == Spliced(q, i)
            st1 == [st EXCEPT ![q[i]] = "dropped"]
<1>1. /\ q \in Seq(Task) /\ Len(q) \in Nat
      /\ \A j \in 1..Len(q) : q[j] \in Task /\ st[q[j]] = "queued"
  BY LenProperties, ElementOfSeq DEF Consistent, Queued
<1>2. /\ r \in Seq(Task)
      /\ Len(r) = Len(q) - 1
      /\ \A j \in 1..(Len(q) - 1) : r[j] = IF j < i THEN q[j] ELSE q[j + 1]
  BY <1>1, SplicedFacts
<1>. HIDE DEF r
<1>3. HoldingOf(st1) = HoldingOf(st)
  BY <1>1 DEF HoldingOf, Consistent, Starting
<1>4. Distinct(r)
  BY <1>1, <1>2 DEF Consistent, Distinct
<1>5. Queued(r, st1)
  <2>. SUFFICES ASSUME NEW u \in Task
                PROVE  st1[u] = "queued" <=> \E j \in 1..Len(r) : r[j] = u
    BY DEF Queued
  <2>1. CASE u = q[i]
    <3>1. \A j \in 1..Len(r) : r[j] # u
      BY <2>1, <1>1, <1>2 DEF Consistent, Distinct
    <3>. QED
      BY <3>1, <2>1, <1>1 DEF Consistent
  <2>2. CASE u # q[i]
    <3>1. st1[u] = st[u]
      BY <2>2, <1>1 DEF Consistent
    <3>2. ASSUME NEW j \in 1..Len(q), q[j] = u
          PROVE  \E k \in 1..Len(r) : r[k] = u
      <4>1. CASE j < i
        BY <4>1, <3>2, <1>1, <1>2
      <4>2. CASE j > i
        <5>1. j - 1 \in 1..Len(r) /\ r[j - 1] = q[j]
          BY <4>2, <1>1, <1>2
        <5>. QED
          BY <5>1, <3>2
      <4>. QED
        BY <4>1, <4>2, <3>2, <2>2, <1>1
    <3>3. ASSUME NEW k \in 1..Len(r), r[k] = u
          PROVE  \E j \in 1..Len(q) : q[j] = u
      BY <3>3, <1>1, <1>2
    <3>. QED
      BY <3>1, <3>2, <3>3 DEF Consistent, Queued
  <2>. QED
    BY <2>1, <2>2
<1>6. d # q[i]
  BY <1>1 DEF Consistent
<1>. QED
  BY <1>1, <1>2, <1>3, <1>4, <1>5, <1>6 DEF Consistent, Stage, r

\* A drain admits the first k tasks of the queue.
LEMMA Admits ==
  ASSUME NEW q, NEW n, NEW st, NEW d, Consistent(q, n, st, d), NEW k \in 0..Len(q),
         NEW st1 \in [Task -> Stage],
         \A t \in {q[i] : i \in 1..k} : st1[t] \in Starting,
         \A t \in Task \ {q[i] : i \in 1..k} : st1[t] = st[t],
         NEW e \in 0..MaxTasks, e # 0 => st1[e] = "worktree"
  PROVE  Consistent(SubSeq(q, k + 1, Len(q)), n + k, st1, e)
<1>. DEFINE P == {q[i] : i \in 1..k}
            r == SubSeq(q, k + 1, Len(q))
<1>1. /\ q \in Seq(Task) /\ Len(q) \in Nat /\ k \in Nat
      /\ \A i \in 1..Len(q) : q[i] \in Task /\ st[q[i]] = "queued"
  BY LenProperties, ElementOfSeq DEF Consistent, Queued
<1>2. /\ r \in Seq(Task)
      /\ Len(r) = Len(q) - k
      /\ \A i \in 1..(Len(q) - k) : r[i] = q[k + i]
  <2>1. \A i \in (k + 1)..Len(q) : q[i] \in Task
    BY <1>1
  <2>2. /\ r \in Seq(Task)
        /\ Len(r) = IF k + 1 <= Len(q) THEN Len(q) - (k + 1) + 1 ELSE 0
        /\ \A i \in 1..(Len(q) - (k + 1) + 1) : r[i] = q[(k + 1) + i - 1]
    <3>. HIDE DEF r
    <3>. QED BY <1>1, <2>1, SubSeqProperties DEF r
  <2>. QED
    BY <1>1, <2>2
<1>. HIDE DEF r
<1>3. P \subseteq Task /\ P \cap HoldingOf(st) = {}
  BY <1>1 DEF HoldingOf, Starting
<1>4. Cardinality(P) = k
  BY <1>1, PrefixCardinality DEF Consistent
<1>5. HoldingOf(st1) = HoldingOf(st) \cup P
  BY <1>3 DEF HoldingOf
<1>6. Cardinality(HoldingOf(st1)) = n + k
  <2>1. HoldingOf(st) \subseteq Task
    BY DEF HoldingOf
  <2>2. Cardinality(HoldingOf(st) \cup P) = Cardinality(HoldingOf(st)) + Cardinality(P)
    BY <1>3, <2>1, DisjointCardinality
  <2>. QED
    BY <2>2, <1>4, <1>5 DEF Consistent
<1>7. Distinct(r)
  BY <1>1, <1>2 DEF Consistent, Distinct
<1>8. Queued(r, st1)
  <2>. SUFFICES ASSUME NEW t \in Task
                PROVE  st1[t] = "queued" <=> \E i \in 1..Len(r) : r[i] = t
    BY DEF Queued
  <2>1. CASE t \in P
    <3>1. st1[t] # "queued"
      BY <2>1 DEF Starting
    <3>2. PICK h \in 1..k : t = q[h]
      BY <2>1
    <3>3. \A i \in 1..Len(r) : r[i] # t
      BY <3>2, <1>1, <1>2 DEF Consistent, Distinct
    <3>. QED
      BY <3>1, <3>3
  <2>2. CASE t \notin P
    <3>1. st1[t] = st[t]
      BY <2>2
    <3>2. ASSUME NEW j \in 1..Len(q), q[j] = t
          PROVE  \E i \in 1..Len(r) : r[i] = t
      <4>1. ~ (j <= k)
        BY <3>2, <2>2, <1>1
      <4>2. j - k \in 1..Len(r) /\ r[j - k] = q[j]
        BY <4>1, <1>1, <1>2
      <4>. QED
        BY <4>2, <3>2
    <3>3. ASSUME NEW i \in 1..Len(r), r[i] = t
          PROVE  \E j \in 1..Len(q) : q[j] = t
      BY <3>3, <1>1, <1>2
    <3>. QED
      BY <3>1, <3>2, <3>3 DEF Consistent, Queued
  <2>. QED
    BY <2>1, <2>2
<1>9. n + k \in Nat
  BY <1>1 DEF Consistent
<1>. QED
  BY <1>2, <1>6, <1>7, <1>8, <1>9 DEF Consistent, r

\* What a call of drainQueue leaves: the bookkeeping holds, undelegated tasks
\* are untouched, and only the front of the queue was admitted, within the
\* limit.
LEMMA DrainStep ==
  ASSUME NEW q, NEW n, NEW st, NEW d, Consistent(q, n, st, d),
         NEW pr \in [Proc -> ProcState], Drain(d, q, n, st, pr),
         maxRuns' \in Nat
  PROVE  /\ Consistent(queue', pending', stage', drainTask')
         /\ proc' \in [Proc -> ProcState]
         /\ \A t \in Task : st[t] = "none" => stage'[t] = "none"
         /\ \/ HoldingOf(stage') = HoldingOf(st)
            \/ Cardinality(Active(status')) + pending' <= maxRuns'
         /\ \E k \in 0..Len(q) :
               /\ queue' = SubSeq(q, k + 1, Len(q))
               /\ HoldingOf(stage') \subseteq HoldingOf(st) \cup {q[i] : i \in 1..k}
<1>0. /\ q \in Seq(Task) /\ Len(q) \in Nat /\ n \in Nat
      /\ \A i \in 1..Len(q) : q[i] \in Task /\ st[q[i]] = "queued"
  BY LenProperties, ElementOfSeq DEF Consistent, Queued
<1>00. Cardinality(Active(status')) \in Nat
  BY TasksFinite DEF Active
<1>1. CASE d # 0
  <2>1. /\ queue' = q /\ pending' = n /\ stage' = st
        /\ drainTask' = d /\ proc' = pr
    BY <1>1 DEF Drain
  <2>2. q = SubSeq(q, 0 + 1, Len(q)) /\ 0 \in 0..Len(q)
    BY <1>0, SubSeqFull
  <2>. QED
    BY <2>1, <2>2
<1>2. CASE d = 0
  <2>1. PICK k \in 0..Len(q) :
          /\ AdmitsPrefix(k, q, maxRuns' - Cardinality(Active(status')) - n, wt')
          /\ queue' = SubSeq(q, k + 1, Len(q))
          /\ pending' = n + k
          /\ stage' = [t \in Task |->
                          IF t \notin {q[i] : i \in 1..k} THEN st[t]
                          ELSE IF wt'[t] = "wanted" THEN "worktree" ELSE "spawn"]
          /\ proc' = [p \in Proc |->
                         IF p[2] = 0 /\ p[1] \in {q[i] : i \in 1..k} /\ wt'[p[1]] # "wanted"
                         THEN "handshake" ELSE pr[p]]
          /\ drainTask' = IF k > 0 /\ wt'[q[k]] = "wanted" THEN q[k] ELSE 0
    BY <1>2 DEF Drain
  <2>. DEFINE P == {q[i] : i \in 1..k}
  <2>2. /\ stage' \in [Task -> Stage]
        /\ \A t \in P : stage'[t] \in Starting
        /\ \A t \in Task \ P : stage'[t] = st[t]
        /\ P \subseteq Task
    <3>1. P \subseteq Task
      BY <1>0
    <3>. HIDE DEF P
    <3>. QED
      BY <2>1, <3>1 DEF Stage, Starting, P, Consistent
  <2>3. drainTask' \in 0..MaxTasks /\ (drainTask' # 0 => stage'[drainTask'] = "worktree")
    <3>1. CASE k > 0 /\ wt'[q[k]] = "wanted"
      <4>1. q[k] \in P /\ q[k] \in Task /\ drainTask' = q[k]
        BY <3>1, <2>1, <1>0
      <4>2. stage'[q[k]] = "worktree"
        BY <3>1, <4>1, <2>1
      <4>. QED
        BY <4>1, <4>2, DelegateAssumption DEF Task
    <3>2. CASE ~ (k > 0 /\ wt'[q[k]] = "wanted")
      BY <3>2, <2>1, DelegateAssumption
    <3>. QED
      BY <3>1, <3>2
  <2>4. Consistent(queue', pending', stage', drainTask')
    BY <2>1, <2>2, <2>3, Admits
  <2>5. proc' \in [Proc -> ProcState]
    BY <2>1 DEF ProcState
  <2>6. \A t \in Task : st[t] = "none" => stage'[t] = "none"
    BY <2>2, <1>0
  <2>7. HoldingOf(stage') \subseteq HoldingOf(st) \cup P
    BY <2>2 DEF HoldingOf
  <2>8. \/ HoldingOf(stage') = HoldingOf(st)
        \/ Cardinality(Active(status')) + pending' <= maxRuns'
    <3>1. CASE k = 0
      <4>1. P = {}
        BY <3>1
      <4>. QED
        BY <4>1, <2>2 DEF HoldingOf
    <3>2. CASE k > 0
      <4>1. k <= maxRuns' - Cardinality(Active(status')) - n
        BY <3>2, <2>1 DEF AdmitsPrefix
      <4>. QED
        BY <4>1, <2>1, <1>0, <1>00
    <3>. QED
      BY <3>1, <3>2, <1>0
  <2>. QED
    BY <2>1, <2>4, <2>5, <2>6, <2>7, <2>8
<1>. QED
  BY <1>1, <1>2

-----------------------------------------------------------------------------
(* What every step does to the bookkeeping *)

\* A step that admits a task leaves the reserved starts and the turns within
\* the limit.
WithinLimit ==
    \/ HoldingOf(stage') \subseteq HoldingOf(stage)
    \/ Cardinality(Active(status')) + pending' <= maxRuns'

\* A step admits no task past one that still waits.
InOrder ==
    \A t \in HoldingOf(stage') \ HoldingOf(stage) : \A i \in 1..Len(queue) :
       (\E j \in 1..Len(queue') : queue'[j] = queue[i]) => \E h \in 1..(i-1) : queue[h] = t

Bookkept ==
    /\ Consistent(queue', pending', stage', drainTask')
    /\ WithinLimit
    /\ InOrder

\* Steps that leave the queue and the starts alone.
LEMMA Untouched ==
  ASSUME Inv, UNCHANGED <<queue, pending, stage, drainTask>>
  PROVE  Bookkept
BY DEF Inv, Bookkept, WithinLimit, InOrder

\* Steps that change the stages themselves but admit nothing.
LEMMA NoAdmission ==
  ASSUME Inv, Consistent(queue', pending', stage', drainTask'),
         HoldingOf(stage') \subseteq HoldingOf(stage)
  PROVE  Bookkept
BY DEF Bookkept, WithinLimit, InOrder

\* Steps that drain the queue, possibly after a task joined its end.
LEMMA Drained ==
  ASSUME Inv, NEW q, NEW n, NEW st, NEW d, Consistent(q, n, st, d),
         NEW pr \in [Proc -> ProcState], Drain(d, q, n, st, pr),
         maxRuns' \in 1..MaxLimit,
         HoldingOf(st) \subseteq HoldingOf(stage),
         Len(queue) <= Len(q), \A i \in 1..Len(queue) : q[i] = queue[i]
  PROVE  /\ Bookkept
         /\ proc' \in [Proc -> ProcState]
         /\ \A t \in Task : st[t] = "none" => stage'[t] = "none"
<1>1. maxRuns' \in Nat
  BY DelegateAssumption
<1>2. /\ Consistent(queue', pending', stage', drainTask')
      /\ proc' \in [Proc -> ProcState]
      /\ \A t \in Task : st[t] = "none" => stage'[t] = "none"
      /\ \/ HoldingOf(stage') = HoldingOf(st)
         \/ Cardinality(Active(status')) + pending' <= maxRuns'
  BY <1>1, DrainStep
<1>3. PICK k \in 0..Len(q) :
        /\ queue' = SubSeq(q, k + 1, Len(q))
        /\ HoldingOf(stage') \subseteq HoldingOf(st) \cup {q[i] : i \in 1..k}
  BY <1>1, DrainStep
<1>4. WithinLimit
  BY <1>2 DEF WithinLimit
<1>5. /\ q \in Seq(Task) /\ Len(q) \in Nat /\ Len(queue) \in Nat
      /\ \A i \in 1..Len(q) : q[i] \in Task
  BY LenProperties, ElementOfSeq DEF Consistent, Inv
<1>6. /\ Len(queue') = Len(q) - k
      /\ \A i \in 1..(Len(q) - k) : queue'[i] = q[k + i]
  <2>1. \A i \in (k + 1)..Len(q) : q[i] \in Task
    BY <1>5
  <2>. DEFINE r == SubSeq(q, k + 1, Len(q))
  <2>2. /\ Len(r) = IF k + 1 <= Len(q) THEN Len(q) - (k + 1) + 1 ELSE 0
        /\ \A i \in 1..(Len(q) - (k + 1) + 1) : r[i] = q[(k + 1) + i - 1]
    <3>. HIDE DEF r
    <3>. QED BY <1>5, <2>1, SubSeqProperties DEF r
  <2>. HIDE DEF r
  <2>3. /\ Len(r) = Len(q) - k
        /\ \A i \in 1..(Len(q) - k) : r[i] = q[k + i]
    BY <1>5, <2>2
  <2>. QED
    BY <1>3, <2>3 DEF r
<1>7. InOrder
  <2>. SUFFICES ASSUME NEW t \in HoldingOf(stage') \ HoldingOf(stage),
                       NEW i \in 1..Len(queue),
                       NEW j \in 1..Len(queue'), queue'[j] = queue[i]
                PROVE  \E h \in 1..(i-1) : queue[h] = t
    BY DEF InOrder
  <2>1. PICK h \in 1..k : q[h] = t
    BY <1>3
  <2>2. /\ k + j \in 1..Len(q) /\ q[k + j] = q[i] /\ i \in 1..Len(q)
    BY <1>5, <1>6
  <2>3. i = k + j
    BY <2>2 DEF Consistent, Distinct
  <2>4. h \in 1..(i - 1) /\ h \in 1..Len(queue)
    BY <2>3, <1>5, <1>6
  <2>. QED
    BY <2>1, <2>4
<1>. QED
  BY <1>2, <1>4, <1>7 DEF Bookkept

\* The drain of the queue as it stands.
LEMMA DrainedAsIs ==
  ASSUME Inv, NEW n, NEW st, NEW d, Consistent(queue, n, st, d),
         NEW pr \in [Proc -> ProcState], Drain(d, queue, n, st, pr),
         maxRuns' \in 1..MaxLimit,
         HoldingOf(st) \subseteq HoldingOf(stage)
  PROVE  /\ Bookkept
         /\ proc' \in [Proc -> ProcState]
         /\ \A t \in Task : st[t] = "none" => stage'[t] = "none"
<1>1. Len(queue) <= Len(queue)
  BY LenProperties DEF Consistent
<1>. QED
  BY <1>1, Drained

\* The admission of a task: at once, or through the queue.
LEMMA Admitted ==
  ASSUME Inv, NEW t \in Task, stage[t] \notin Starting \cup {"queued"},
         NEW s \in {"worktree", "spawn"}, Admission(t, s),
         UNCHANGED <<status, maxRuns>>
  PROVE  /\ Bookkept
         /\ proc' \in [Proc -> ProcState]
         /\ \A u \in Task \ {t} : stage[u] = "none" => stage'[u] = "none"
<1>0. /\ Consistent(queue, pending, stage, drainTask) /\ proc \in [Proc -> ProcState]
      /\ maxRuns \in 1..MaxLimit /\ stage \in [Task -> Stage] /\ pending \in Nat
      /\ queue \in Seq(Task) /\ Len(queue) \in Nat
  BY LenProperties DEF Inv, TypeOK
<1>1. CASE MayStartNow
  <2>1. /\ queue = <<>> /\ InFlight < maxRuns
        /\ pending' = pending + 1
        /\ stage' = [stage EXCEPT ![t] = s]
        /\ proc' = IF s = "spawn" THEN [proc EXCEPT ![<<t, 0>>] = "handshake"] ELSE proc
        /\ UNCHANGED <<queue, drainTask>>
    BY <1>1 DEF Admission, MayStartNow, CanReserve
  <2>2. Consistent(queue', pending', stage', drainTask')
    BY <1>0, <2>1, Enters DEF Starting
  <2>3. WithinLimit
    <3>1. Cardinality(Active(status)) \in Nat
      BY TasksFinite DEF Active
    <3>. QED
      BY <1>0, <2>1, <3>1 DEF WithinLimit, InFlight
  <2>4. InOrder
    BY <1>0, <2>1 DEF InOrder
  <2>5. proc' \in [Proc -> ProcState]
    BY <1>0, <2>1 DEF ProcState
  <2>6. \A u \in Task \ {t} : stage'[u] = stage[u]
    BY <1>0, <2>1
  <2>. QED
    BY <2>2, <2>3, <2>4, <2>5, <2>6 DEF Bookkept
<1>2. CASE ~ MayStartNow
  <2>. DEFINE q == Append(queue, t)
              st == [stage EXCEPT ![t] = "queued"]
  <2>1. Drain(drainTask, q, pending, st, proc)
    BY <1>2 DEF Admission
  <2>2. Consistent(q, pending, st, drainTask)
    BY <1>0, Enqueues
  <2>3. HoldingOf(st) \subseteq HoldingOf(stage)
    BY <1>0 DEF HoldingOf, Starting
  <2>4. Len(queue) <= Len(q) /\ \A i \in 1..Len(queue) : q[i] = queue[i]
    BY <1>0, AppendProperties
  <2>5. \A u \in Task \ {t} : st[u] = stage[u]
    BY <1>0
  <2>. HIDE DEF q, st
  <2>6. /\ Bookkept
        /\ proc' \in [Proc -> ProcState]
        /\ \A u \in Task : st[u] = "none" => stage'[u] = "none"
    BY <1>0, <2>1, <2>2, <2>3, <2>4, Drained
  <2>. QED
    BY <2>5, <2>6
<1>. QED
  BY <1>1, <1>2

-----------------------------------------------------------------------------
(* One lemma per action *)

Keeps == Inv' /\ WithinLimit /\ InOrder

\* The types of the variables the bookkeeping does not cover.
OthersOK ==
    /\ open \in BOOLEAN
    /\ maxRuns \in 1..MaxLimit
    /\ invoked \in 0..MaxTasks
    /\ wt \in [Task -> {"no", "wanted", "have"}]
    /\ parent \in [Task -> 0..MaxTasks]
    /\ status \in [Task -> Status]
    /\ detecting \in [Task -> Nat]
    /\ killWait \in [Task -> Nat]
    /\ prompts \in [Proc -> Nat]
    /\ client \in [Task -> Proc \cup {NoProc}]
    /\ pid \in [Task -> Proc \cup {NoProc}]
    /\ raced \subseteq Task

LEMMA InvParts ==
  ASSUME Inv
  PROVE  /\ OthersOK
         /\ proc \in [Proc -> ProcState]
         /\ stage \in [Task -> Stage]
         /\ Consistent(queue, pending, stage, drainTask)
         /\ FreshTasks
BY DEF Inv, TypeOK, OthersOK

LEMMA KeepsParts ==
  ASSUME Bookkept, OthersOK', proc' \in [Proc -> ProcState], FreshTasks'
  PROVE  Keeps
BY DEF Keeps, Inv, TypeOK, OthersOK, Bookkept, Consistent

\* The bookkeeping part of a step that drains the queue as it stands, from
\* stages st that spare the tasks not yet delegated.
LEMMA KeepsDrained ==
  ASSUME Inv, NEW n, NEW st, NEW d, Consistent(queue, n, st, d),
         NEW pr \in [Proc -> ProcState], Drain(d, queue, n, st, pr),
         HoldingOf(st) \subseteq HoldingOf(stage),
         \A t \in Task : stage[t] = "none" => st[t] = "none",
         OthersOK', UNCHANGED invoked
  PROVE  Keeps
<1>1. /\ Bookkept
      /\ proc' \in [Proc -> ProcState]
      /\ \A t \in Task : st[t] = "none" => stage'[t] = "none"
  BY DrainedAsIs DEF OthersOK
<1>2. FreshTasks'
  BY <1>1 DEF Inv, FreshTasks
<1>. QED
  BY <1>1, <1>2, KeepsParts

LEMMA KeepsUntouched ==
  ASSUME Inv, UNCHANGED <<queue, pending, stage, drainTask, invoked>>,
         OthersOK', proc' \in [Proc -> ProcState]
  PROVE  Keeps
<1>1. FreshTasks'
  BY DEF Inv, FreshTasks
<1>. QED
  BY <1>1, Untouched, KeepsParts

LEMMA StallKeeps ==
  ASSUME Inv, NEW t \in Task, Stall(t)
  PROVE  Keeps
<1>1. OthersOK' /\ proc' \in [Proc -> ProcState]
  BY InvParts DEF Stall, OthersOK, tasksVars, procVars, Status, Settled, InTurn
<1>2. UNCHANGED <<queue, pending, stage, drainTask, invoked>>
  BY DEF Stall, tasksVars
<1>. QED
  BY <1>1, <1>2, KeepsUntouched

LEMMA ActivityKeeps ==
  ASSUME Inv, NEW p \in Proc, Activity(p)
  PROVE  Keeps
<1>1. OthersOK' /\ proc' \in [Proc -> ProcState]
  BY InvParts DEF Activity, OthersOK, tasksVars, procVars, Status, Settled, InTurn, Proc, Task
<1>2. UNCHANGED <<queue, pending, stage, drainTask, invoked>>
  BY DEF Activity, tasksVars
<1>. QED
  BY <1>1, <1>2, KeepsUntouched

LEMMA DiesKeeps ==
  ASSUME Inv, NEW p \in Proc, Dies(p)
  PROVE  Keeps
<1>1. OthersOK' /\ proc' \in [Proc -> ProcState]
  BY InvParts DEF Dies, OthersOK, tasksVars, procVars, ProcState
<1>2. UNCHANGED <<queue, pending, stage, drainTask, invoked>>
  BY DEF Dies, tasksVars
<1>. QED
  BY <1>1, <1>2, KeepsUntouched

LEMMA MessageKeeps ==
  ASSUME Inv, NEW t \in Task, Message(t)
  PROVE  Keeps
<1>1. OthersOK' /\ proc' \in [Proc -> ProcState]
  BY InvParts DEF Message, OthersOK, tasksVars, procVars, Status, Settled, InTurn
<1>2. UNCHANGED <<queue, pending, stage, drainTask, invoked>>
  BY DEF Message, tasksVars
<1>. QED
  BY <1>1, <1>2, KeepsUntouched

LEMMA MessageReattachKeeps ==
  ASSUME Inv, NEW t \in Task, MessageReattach(t)
  PROVE  Keeps
<1>1. OthersOK' /\ proc' \in [Proc -> ProcState]
  BY InvParts DEF MessageReattach, OthersOK, tasksVars, procVars, ProcState, Proc
<1>2. UNCHANGED <<queue, pending, stage, drainTask, invoked>>
  BY DEF MessageReattach, tasksVars
<1>. QED
  BY <1>1, <1>2, KeepsUntouched

LEMMA ReattachedKeeps ==
  ASSUME Inv, NEW p \in Proc, Reattached(p)
  PROVE  Keeps
<1>1. OthersOK' /\ proc' \in [Proc -> ProcState]
  BY InvParts DEF Reattached, OthersOK, tasksVars, procVars, ProcState, Status, Settled, InTurn, SetStatus, Proc
<1>2. UNCHANGED <<queue, pending, stage, drainTask, invoked>>
  BY DEF Reattached, tasksVars
<1>. QED
  BY <1>1, <1>2, KeepsUntouched

LEMMA ReattachFailsKeeps ==
  ASSUME Inv, NEW p \in Proc, ReattachFails(p)
  PROVE  Keeps
<1>1. OthersOK' /\ proc' \in [Proc -> ProcState]
  BY InvParts DEF ReattachFails, OthersOK, tasksVars, procVars, ProcState
<1>2. UNCHANGED <<queue, pending, stage, drainTask, invoked>>
  BY DEF ReattachFails, tasksVars
<1>. QED
  BY <1>1, <1>2, KeepsUntouched

LEMMA RestartKillsKeeps ==
  ASSUME Inv, NEW t \in Task, RestartKills(t)
  PROVE  Keeps
<1>1. OthersOK' /\ proc' \in [Proc -> ProcState]
  BY InvParts DEF RestartKills, OthersOK, tasksVars, procVars
<1>2. UNCHANGED <<queue, pending, stage, drainTask, invoked>>
  BY DEF RestartKills, tasksVars
<1>. QED
  BY <1>1, <1>2, KeepsUntouched

LEMMA RestartGivesUpKeeps ==
  ASSUME Inv, NEW t \in Task, RestartGivesUp(t)
  PROVE  Keeps
<1>1. OthersOK' /\ proc' \in [Proc -> ProcState]
  BY InvParts DEF RestartGivesUp, OthersOK, tasksVars, procVars
<1>2. UNCHANGED <<queue, pending, stage, drainTask, invoked>>
  BY DEF RestartGivesUp, tasksVars
<1>. QED
  BY <1>1, <1>2, KeepsUntouched

\* A new task arrives and is admitted or queued.
LEMMA DelegateKeeps ==
  ASSUME Inv, NEW w \in BOOLEAN, Delegate(w)
  PROVE  Keeps
<1>1. /\ invoked + 1 \in Task /\ invoked' = invoked + 1 /\ invoked \in Nat
      /\ stage[invoked + 1] = "none"
  BY InvParts, DelegateAssumption DEF Delegate, OthersOK, Task, FreshTasks
<1>2. OthersOK'
  BY <1>1, InvParts, DelegateAssumption DEF Delegate, OthersOK, procVars, Task
<1>3. /\ Bookkept
      /\ proc' \in [Proc -> ProcState]
      /\ \A u \in Task \ {invoked + 1} : stage[u] = "none" => stage'[u] = "none"
  BY <1>1, Admitted DEF Delegate, Starting
<1>4. FreshTasks'
  BY <1>1, <1>3, InvParts DEF FreshTasks, Task
<1>. QED
  BY <1>2, <1>3, <1>4, KeepsParts

\* The tail of devin_restart: a new task that is re-created first, or admitted
\* or queued.
LEMMA RestartGoKeeps ==
  ASSUME Inv, NEW t \in Task, RestartGo(t), UNCHANGED <<open, detecting, procVars>>,
         killWait' \in [Task -> Nat]
  PROVE  Keeps
<1>1. /\ invoked + 1 \in Task /\ invoked' = invoked + 1 /\ invoked \in Nat
      /\ stage[invoked + 1] = "none"
  BY InvParts, DelegateAssumption DEF RestartGo, OthersOK, Task, FreshTasks
<1>2. OthersOK'
  <2>1. parent' \in [Task -> 0..MaxTasks] /\ invoked' \in 0..MaxTasks
    BY <1>1, InvParts, DelegateAssumption DEF RestartGo, OthersOK, Task
  <2>2. wt' \in [Task -> {"no", "wanted", "have"}]
    BY <1>1, InvParts DEF RestartGo, OthersOK
  <2>3. UNCHANGED <<status, maxRuns>>
    BY DEF RestartGo
  <2>. QED
    BY <2>1, <2>2, <2>3, InvParts DEF OthersOK, procVars
<1>3. /\ Bookkept
      /\ proc' \in [Proc -> ProcState]
      /\ \A u \in Task \ {invoked + 1} : stage[u] = "none" => stage'[u] = "none"
  <2>1. CASE /\ stage' = [stage EXCEPT ![invoked + 1] = "recreate"]
             /\ UNCHANGED <<queue, pending, drainTask, proc>>
    <3>1. Consistent(queue', pending', stage', drainTask')
      BY <1>1, <2>1, InvParts, Idles DEF Starting, Stage
    <3>2. HoldingOf(stage') \subseteq HoldingOf(stage)
      BY <1>1, <2>1, InvParts DEF HoldingOf, Starting
    <3>. QED
      BY <1>1, <2>1, <3>1, <3>2, NoAdmission, InvParts
  <2>2. CASE Admission(invoked + 1, "spawn") /\ UNCHANGED <<status, maxRuns>>
    BY <1>1, <2>2, Admitted DEF Starting
  <2>. QED
    BY <2>1, <2>2 DEF RestartGo
<1>4. FreshTasks'
  BY <1>1, <1>3, InvParts DEF FreshTasks, Task
<1>. QED
  BY <1>2, <1>3, <1>4, KeepsParts

LEMMA RestartKeeps ==
  ASSUME Inv, NEW t \in Task, Restart(t)
  PROVE  Keeps
BY RestartGoKeeps, InvParts DEF Restart, OthersOK

LEMMA RestartAfterKillKeeps ==
  ASSUME Inv, NEW t \in Task, RestartAfterKill(t)
  PROVE  Keeps
<1>1. killWait' \in [Task -> Nat]
  BY InvParts DEF RestartAfterKill, OthersOK
<1>. QED
  BY <1>1, RestartGoKeeps DEF RestartAfterKill

LEMMA RecreatedKeeps ==
  ASSUME Inv, NEW t \in Task, Recreated(t)
  PROVE  Keeps
<1>1. OthersOK'
  BY InvParts DEF Recreated, OthersOK, procVars
<1>2. /\ Bookkept
      /\ proc' \in [Proc -> ProcState]
      /\ \A u \in Task \ {t} : stage[u] = "none" => stage'[u] = "none"
  BY Admitted DEF Recreated, Starting
<1>3. FreshTasks'
  BY <1>2, InvParts DEF FreshTasks, Recreated
<1>. QED
  BY <1>1, <1>2, <1>3, KeepsParts

LEMMA RecreateFailsKeeps ==
  ASSUME Inv, NEW t \in Task, RecreateFails(t)
  PROVE  Keeps
<1>1. OthersOK' /\ proc' \in [Proc -> ProcState]
  BY InvParts DEF RecreateFails, OthersOK, tasksVars, procVars
<1>2. Consistent(queue', pending', stage', drainTask')
  BY InvParts, Idles DEF RecreateFails, Starting, Stage
<1>3. HoldingOf(stage') \subseteq HoldingOf(stage)
  BY InvParts DEF HoldingOf, Starting, RecreateFails
<1>4. FreshTasks'
  BY InvParts DEF FreshTasks, RecreateFails, tasksVars
<1>. QED
  BY <1>1, <1>2, <1>3, <1>4, NoAdmission, KeepsParts

\* A queued task is cancelled.
LEMMA CancelQueuedKeeps ==
  ASSUME Inv, NEW i \in 1..Len(queue), CancelQueued(i)
  PROVE  Keeps
<1>1. OthersOK' /\ proc' \in [Proc -> ProcState]
  BY InvParts DEF CancelQueued, OthersOK, tasksVars, procVars
<1>2. queue[i] \in Task /\ stage[queue[i]] = "queued"
  BY InvParts, ElementOfSeq DEF Consistent, Queued
<1>3. Consistent(queue', pending', stage', drainTask')
  BY InvParts, Withdraws DEF CancelQueued
<1>4. HoldingOf(stage') \subseteq HoldingOf(stage)
  BY <1>2, InvParts DEF HoldingOf, Starting, CancelQueued
<1>5. FreshTasks'
  BY <1>2, InvParts DEF FreshTasks, CancelQueued, tasksVars
<1>. QED
  BY <1>1, <1>3, <1>4, <1>5, NoAdmission, KeepsParts

\* The worktree of a start the tool awaits is there.
LEMMA ToolWorktreeReadyKeeps ==
  ASSUME Inv, NEW t \in Task, ToolWorktreeReady(t)
  PROVE  Keeps
<1>1. OthersOK' /\ proc' \in [Proc -> ProcState]
  BY InvParts DEF ToolWorktreeReady, OthersOK, procVars, ProcState
<1>2. stage[t] \in Starting /\ t # drainTask
  BY DEF ToolWorktreeReady, Awaits, Starting
<1>3. Consistent(queue', pending', stage', drainTask')
  BY <1>2, InvParts, Moves DEF ToolWorktreeReady, Starting
<1>4. HoldingOf(stage') \subseteq HoldingOf(stage)
  BY <1>2, InvParts DEF HoldingOf, ToolWorktreeReady
<1>5. FreshTasks'
  BY <1>2, InvParts DEF FreshTasks, ToolWorktreeReady, Starting
<1>. QED
  BY <1>1, <1>3, <1>4, <1>5, NoAdmission, KeepsParts

LEMMA RegisterKeeps ==
  ASSUME Inv, NEW t \in Task, Register(t)
  PROVE  Keeps
<1>1. <<t, 0>> \in Proc
  BY DelegateAssumption DEF Proc
<1>2. OthersOK' /\ proc' \in [Proc -> ProcState]
  BY <1>1, InvParts DEF Register, OthersOK, tasksVars, ProcState, Status, InTurn
<1>3. stage[t] \in Starting /\ t # drainTask
  BY InvParts DEF Register, Awaits, Starting, Consistent, Task
<1>4. Consistent(queue', pending', stage', drainTask')
  BY <1>3, InvParts, Moves DEF Register, Starting
<1>5. HoldingOf(stage') \subseteq HoldingOf(stage)
  BY <1>3, InvParts DEF HoldingOf, Register
<1>6. FreshTasks'
  BY <1>3, InvParts DEF FreshTasks, Register, tasksVars, Starting
<1>. QED
  BY <1>2, <1>4, <1>5, <1>6, NoAdmission, KeepsParts

LEMMA ToolWorktreeFailsKeeps ==
  ASSUME Inv, NEW t \in Task, ToolWorktreeFails(t)
  PROVE  Keeps
<1>1. OthersOK'
  BY InvParts DEF ToolWorktreeFails, OthersOK, procVars, Proc
<1>2. stage[t] \in Starting /\ t # drainTask
  BY InvParts DEF ToolWorktreeFails, Awaits, Starting, Consistent, Task
<1>. DEFINE st == [stage EXCEPT ![t] = "failed"]
            pr == proc
<1>3. pr \in [Proc -> ProcState]
  BY InvParts DEF ProcState
<1>4. Consistent(queue, pending - 1, st, drainTask)
  BY <1>2, InvParts, Leaves DEF Starting, Stage
<1>5. HoldingOf(st) \subseteq HoldingOf(stage)
  BY <1>2, InvParts DEF HoldingOf
<1>6. \A u \in Task : stage[u] = "none" => st[u] = "none"
  BY <1>2, InvParts DEF Starting
<1>7. Drain(drainTask, queue, pending - 1, st, pr)
  BY DEF ToolWorktreeFails, Release
<1>8. UNCHANGED invoked
  BY DEF ToolWorktreeFails
<1>. HIDE DEF st, pr
<1>. QED
  BY <1>1, <1>3, <1>4, <1>5, <1>6, <1>7, <1>8, KeepsDrained

LEMMA StartFailsKeeps ==
  ASSUME Inv, NEW t \in Task, StartFails(t)
  PROVE  Keeps
<1>1. OthersOK'
  BY InvParts DEF StartFails, OthersOK, procVars, Proc
<1>2. stage[t] \in Starting /\ t # drainTask
  BY InvParts DEF StartFails, Awaits, Starting, Consistent, Task
<1>. DEFINE st == [stage EXCEPT ![t] = "failed"]
            pr == [proc EXCEPT ![<<t, 0>>] = "dying"]
<1>3. pr \in [Proc -> ProcState]
  BY InvParts DEF ProcState
<1>4. Consistent(queue, pending - 1, st, drainTask)
  BY <1>2, InvParts, Leaves DEF Starting, Stage
<1>5. HoldingOf(st) \subseteq HoldingOf(stage)
  BY <1>2, InvParts DEF HoldingOf
<1>6. \A u \in Task : stage[u] = "none" => st[u] = "none"
  BY <1>2, InvParts DEF Starting
<1>7. Drain(drainTask, queue, pending - 1, st, pr)
  BY DEF StartFails, Release
<1>8. UNCHANGED invoked
  BY DEF StartFails
<1>. HIDE DEF st, pr
<1>. QED
  BY <1>1, <1>3, <1>4, <1>5, <1>6, <1>7, <1>8, KeepsDrained

LEMMA ModeSetKeeps ==
  ASSUME Inv, NEW t \in Task, ModeSet(t)
  PROVE  Keeps
<1>1. OthersOK'
  <2>1. <<t, 0>> \in Proc
    BY DelegateAssumption DEF Proc
  <2>2. prompts' \in [Proc -> Nat]
    BY <2>1, InvParts DEF ModeSet, OthersOK
  <2>. QED
    BY <2>2, InvParts DEF ModeSet, OthersOK
<1>2. stage[t] \in Starting /\ t # drainTask
  BY InvParts DEF ModeSet, Awaits, Starting, Consistent, Task
<1>. DEFINE st == [stage EXCEPT ![t] = "done"]
            pr == proc
<1>3. pr \in [Proc -> ProcState]
  BY InvParts DEF ProcState
<1>4. Consistent(queue, pending - 1, st, drainTask)
  BY <1>2, InvParts, Leaves DEF Starting, Stage
<1>5. HoldingOf(st) \subseteq HoldingOf(stage)
  BY <1>2, InvParts DEF HoldingOf
<1>6. \A u \in Task : stage[u] = "none" => st[u] = "none"
  BY <1>2, InvParts DEF Starting
<1>7. Drain(drainTask, queue, pending - 1, st, pr)
  BY DEF ModeSet, Release
<1>8. UNCHANGED invoked
  BY DEF ModeSet
<1>. HIDE DEF st, pr
<1>. QED
  BY <1>1, <1>3, <1>4, <1>5, <1>6, <1>7, <1>8, KeepsDrained

\* The drain's own worktree answers: the session starts, the loop goes on.
LEMMA DrainWorktreeDoneKeeps ==
  ASSUME Inv, NEW made \in BOOLEAN, DrainWorktreeDone(made)
  PROVE  Keeps
<1>. DEFINE st == [stage EXCEPT ![drainTask] = "spawn"]
            pr == [proc EXCEPT ![<<drainTask, 0>>] = "handshake"]
<1>1. drainTask \in Task /\ stage[drainTask] = "worktree"
  BY InvParts, DelegateAssumption DEF DrainWorktreeDone, Consistent, Task
<1>2. OthersOK'
  BY InvParts DEF DrainWorktreeDone, OthersOK, procVars
<1>3. pr \in [Proc -> ProcState]
  BY InvParts DEF ProcState
<1>4. Consistent(queue, pending, stage, 0)
  BY InvParts, DelegateAssumption DEF Consistent
<1>5. Consistent(queue, pending, st, 0)
  <2>1. drainTask # 0
    BY DEF DrainWorktreeDone
  <2>. QED
    BY <1>1, <1>4, <2>1, Moves DEF Starting
<1>6. HoldingOf(st) \subseteq HoldingOf(stage)
  BY <1>1, InvParts DEF HoldingOf, Starting
<1>7. \A u \in Task : stage[u] = "none" => st[u] = "none"
  BY <1>1, InvParts
<1>8. Drain(0, queue, pending, st, pr) /\ UNCHANGED invoked
  BY DEF DrainWorktreeDone
<1>. HIDE DEF st, pr
<1>. QED
  BY <1>2, <1>3, <1>5, <1>6, <1>7, <1>8, KeepsDrained

LEMMA DetectedKeeps ==
  ASSUME Inv, NEW t \in Task, Detected(t)
  PROVE  Keeps
<1>1. OthersOK'
  BY InvParts DEF Detected, OthersOK, procVars
<1>. QED
  BY <1>1, InvParts, KeepsDrained DEF Detected

LEMMA SetLimitKeeps ==
  ASSUME Inv, NEW n \in 1..MaxLimit, SetLimit(n)
  PROVE  Keeps
<1>1. OthersOK'
  BY InvParts DEF SetLimit, OthersOK, procVars
<1>. QED
  BY <1>1, InvParts, KeepsDrained DEF SetLimit

\* Turns end, with an answer or with an error; both may drain.
LEMMA TurnEndsKeeps ==
  ASSUME Inv, NEW p \in Proc, TurnEnds(p)
  PROVE  Keeps
<1>1. OthersOK'
  BY InvParts DEF TurnEnds, OthersOK, SetStatus, Status, Settled, Proc
<1>2. CASE UNCHANGED <<queue, pending, drainTask, stage, proc>>
  BY <1>1, <1>2, InvParts, KeepsUntouched DEF TurnEnds
<1>3. CASE Drain(drainTask, queue, pending, stage, proc)
  BY <1>1, <1>3, InvParts, KeepsDrained DEF TurnEnds
<1>. QED
  BY <1>2, <1>3 DEF TurnEnds

LEMMA TurnErrorsKeeps ==
  ASSUME Inv, NEW p \in Proc, TurnErrors(p)
  PROVE  Keeps
<1>1. OthersOK'
  BY InvParts DEF TurnErrors, OthersOK, SetStatus, AfterReject, Status, Settled, Proc
<1>2. CASE UNCHANGED <<queue, pending, drainTask, stage, proc>>
  BY <1>1, <1>2, InvParts, KeepsUntouched DEF TurnErrors
<1>3. CASE Drain(drainTask, queue, pending, stage, proc)
  BY <1>1, <1>3, InvParts, KeepsDrained DEF TurnErrors
<1>. QED
  BY <1>2, <1>3 DEF TurnErrors

\* A start whose client went away in set_mode gives its slot back.
LEMMA AfterLoss ==
  ASSUME Inv, NEW t \in Task
  PROVE  /\ Consistent(queue, PendingAfterLoss(t), StageAfterLoss(t), drainTask)
         /\ HoldingOf(StageAfterLoss(t)) \subseteq HoldingOf(stage)
         /\ \A u \in Task : stage[u] = "none" => StageAfterLoss(t)[u] = "none"
<1>1. CASE stage[t] = "mode"
  <2>1. t # drainTask /\ stage[t] \in Starting
    BY <1>1, InvParts DEF Consistent, Starting, Task
  <2>2. Consistent(queue, pending - 1, [stage EXCEPT ![t] = "done"], drainTask)
    BY <2>1, InvParts, Leaves DEF Starting, Stage
  <2>3. HoldingOf([stage EXCEPT ![t] = "done"]) \subseteq HoldingOf(stage)
    BY InvParts DEF HoldingOf, Starting
  <2>. QED
    BY <1>1, <2>2, <2>3, InvParts DEF PendingAfterLoss, StageAfterLoss, Release
<1>2. CASE stage[t] # "mode"
  BY <1>2, InvParts DEF PendingAfterLoss, StageAfterLoss
<1>. QED
  BY <1>1, <1>2

LEMMA ExitsKeeps ==
  ASSUME Inv, NEW p \in Proc, NEW clean \in BOOLEAN, Exits(p, clean)
  PROVE  Keeps
<1>1. p[1] \in Task
  BY DEF Proc
<1>2. OthersOK'
  <2>1. status' \in [Task -> Status]
    BY <1>1, InvParts DEF Exits, OthersOK, SetStatus, AfterReject, Status, Settled
  <2>2. client' \in [Task -> Proc \cup {NoProc}] /\ prompts' \in [Proc -> Nat]
    BY <1>1, InvParts DEF Exits, OthersOK, ClientAfterExit
  <2>. QED
    BY <2>1, <2>2, InvParts DEF Exits, OthersOK
<1>. DEFINE gone == [proc EXCEPT ![p] = "dead"]
<1>3. gone \in [Proc -> ProcState]
  BY InvParts DEF ProcState
<1>4. UNCHANGED invoked
  BY DEF Exits
<1>5. CASE Drain(drainTask, queue, PendingAfterLoss(p[1]), StageAfterLoss(p[1]), gone)
  <2>. HIDE DEF gone
  <2>. QED
    BY <1>1, <1>2, <1>3, <1>4, <1>5, AfterLoss, KeepsDrained
<1>6. CASE proc' = gone /\ UNCHANGED <<queue, pending, drainTask, stage>>
  BY <1>2, <1>3, <1>4, <1>6, KeepsUntouched
<1>. QED
  BY <1>5, <1>6 DEF Exits

LEMMA CancelSessionKeeps ==
  ASSUME Inv, NEW t \in Task, CancelSession(t)
  PROVE  Keeps
<1>1. OthersOK'
  <2>1. status' \in [Task -> Status]
    BY InvParts DEF CancelSession, OthersOK, AfterReject, Status, Settled
  <2>2. client' \in [Task -> Proc \cup {NoProc}] /\ prompts' \in [Proc -> Nat]
    BY InvParts DEF CancelSession, OthersOK
  <2>. QED
    BY <2>1, <2>2, InvParts DEF CancelSession, OthersOK
<1>. DEFINE pr == IF client[t] = NoProc THEN proc ELSE [proc EXCEPT ![client[t]] = "dying"]
<1>2. pr \in [Proc -> ProcState]
  BY InvParts DEF ProcState
<1>3. /\ Drain(drainTask, queue, PendingAfterLoss(t), StageAfterLoss(t), pr)
      /\ UNCHANGED invoked
  BY DEF CancelSession
<1>. HIDE DEF pr
<1>. QED
  BY <1>1, <1>2, <1>3, AfterLoss, KeepsDrained

\* The shutdown empties the queue and ends the starts that await set_mode.
LEMMA ShutdownKeeps ==
  ASSUME Inv, Shutdown
  PROVE  Keeps
<1>. DEFINE M == {t \in Task : stage[t] = "mode"}
<1>0. /\ stage \in [Task -> Stage] /\ pending \in Nat /\ drainTask \in 0..MaxTasks
      /\ pending = Cardinality(HoldingOf(stage))
      /\ drainTask # 0 => stage[drainTask] = "worktree"
  BY InvParts DEF Consistent
<1>1. OthersOK' /\ proc' \in [Proc -> ProcState]
  BY InvParts DEF Shutdown, OthersOK, tasksVars, Status, ProcState
<1>2. HoldingOf(stage) = M \cup HoldingOf(stage') /\ M \cap HoldingOf(stage') = {}
  BY <1>0 DEF Shutdown, HoldingOf, Starting
<1>3. M \subseteq Task /\ HoldingOf(stage') \subseteq Task
  BY DEF HoldingOf
<1>4. /\ Cardinality(M \cup HoldingOf(stage')) = Cardinality(M) + Cardinality(HoldingOf(stage'))
      /\ Cardinality(M) \in Nat /\ Cardinality(HoldingOf(stage')) \in Nat
  BY <1>2, <1>3, DisjointCardinality, TasksFinite
<1>5. pending' = Cardinality(HoldingOf(stage')) /\ pending' \in Nat
  <2>1. pending' = pending - Cardinality(M)
    BY DEF Shutdown
  <2>2. pending = Cardinality(M) + Cardinality(HoldingOf(stage'))
    BY <1>0, <1>2, <1>4
  <2>. HIDE DEF M
  <2>. QED
    BY <1>4, <2>1, <2>2
<1>6. queue' = <<>> /\ queue' \in Seq(Task) /\ Len(queue') = 0
  BY DEF Shutdown
<1>7. /\ stage' \in [Task -> Stage]
      /\ \A t \in Task : stage'[t] # "queued"
      /\ \A t \in Task : stage[t] \in {"none", "worktree"} => stage'[t] = stage[t]
  BY <1>0 DEF Shutdown, Stage
<1>8. drainTask' = drainTask /\ (drainTask' # 0 => stage'[drainTask'] = "worktree")
  BY <1>0, <1>7 DEF Shutdown, Task
<1>9. Distinct(queue') /\ Queued(queue', stage')
  BY <1>6, <1>7 DEF Distinct, Queued
<1>10. Consistent(queue', pending', stage', drainTask')
  BY <1>0, <1>5, <1>6, <1>7, <1>8, <1>9 DEF Consistent
<1>11. FreshTasks'
  BY <1>7, InvParts DEF FreshTasks, Shutdown, tasksVars
<1>. QED
  BY <1>1, <1>2, <1>10, <1>11, NoAdmission, KeepsParts

-----------------------------------------------------------------------------
(* The theorems *)

LEMMA InitInv == Init => Inv
<1>. SUFFICES ASSUME Init PROVE Inv
  OBVIOUS
<1>1. TypeOK
  <2>1. <<>> \in Seq(Task)
    OBVIOUS
  <2>. QED
    BY <2>1, DelegateAssumption DEF Init, TypeOK, Stage, Status, ProcState
<1>2. HoldingOf(stage) = {}
  BY DEF Init, HoldingOf, Starting
<1>3. Cardinality(HoldingOf(stage)) = 0
  BY <1>2, FS_EmptySet
<1>4. Len(queue) = 0
  BY DEF Init
<1>5. Distinct(queue) /\ Queued(queue, stage)
  BY <1>4 DEF Init, Distinct, Queued
<1>6. Consistent(queue, pending, stage, drainTask)
  BY <1>1, <1>3, <1>5 DEF Init, Consistent, TypeOK
<1>. QED
  BY <1>1, <1>6 DEF Init, Inv, FreshTasks

LEMMA NextKeeps ==
  ASSUME Inv, Next
  PROVE  Keeps
<1>1. CASE Tool
  BY <1>1, DelegateKeeps, SetLimitKeeps, CancelQueuedKeeps, MessageKeeps,
     MessageReattachKeeps, CancelSessionKeeps, RestartKeeps, RestartKillsKeeps
     DEF Tool
<1>2. CASE Continuation
  BY <1>2, DrainWorktreeDoneKeeps, ToolWorktreeReadyKeeps, ToolWorktreeFailsKeeps,
     StartFailsKeeps, RegisterKeeps, ModeSetKeeps, DetectedKeeps,
     RestartAfterKillKeeps, RestartGivesUpKeeps, RecreatedKeeps, RecreateFailsKeeps,
     ReattachedKeeps, ReattachFailsKeeps, DiesKeeps
     DEF Continuation
<1>3. CASE Devin
  BY <1>3, StallKeeps, TurnEndsKeeps, TurnErrorsKeeps, ActivityKeeps, ExitsKeeps
     DEF Devin
<1>4. CASE Shutdown
  BY <1>4, ShutdownKeeps
<1>. QED
  BY <1>1, <1>2, <1>3, <1>4 DEF Next

\* Nothing the bookkeeping reads changes in a stuttering step.
LEMMA StutterKeeps ==
  ASSUME Inv, UNCHANGED vars
  PROVE  Keeps
<1>1. OthersOK' /\ proc' \in [Proc -> ProcState]
  BY InvParts DEF vars, OthersOK
<1>. QED
  BY <1>1, KeepsUntouched DEF vars

\* The inductive invariant: types, slots, queue, drain task, fresh tasks.
THEOREM Invariance == Spec => []Inv
<1>1. Inv /\ [Next]_vars => Inv'
  BY NextKeeps, StutterKeeps DEF Keeps
<1>. QED
  BY InitInv, <1>1, PTL DEF Spec

\* Type correctness.
THEOREM TypeCorrect == Spec => []TypeOK
<1>1. Inv => TypeOK
  BY DEF Inv
<1>. QED
  BY Invariance, <1>1, PTL

\* The reserved slots are the starts on their way: no path through a start
\* releases its slot twice, and none forgets it.
THEOREM SlotsExact == Spec => []SlotAccounting
<1>1. Inv => SlotAccounting
  BY DEF Inv, Consistent, SlotAccounting, Holding, HoldingOf
<1>. QED
  BY Invariance, <1>1, PTL

\* The queue holds each waiting task exactly once.
THEOREM QueueExact == Spec => []QueueMatchesStage
<1>1. Inv => QueueMatchesStage
  BY DEF Inv, Consistent, QueueMatchesStage, Queued, Distinct
<1>. QED
  BY Invariance, <1>1, PTL

\* Whoever admits a task, by a tool call or by a drain, leaves the admitted
\* starts and the turns within the limit.
THEOREM AdmissionRespectsLimit == Spec => AdmissionWithinLimit
<1>1. ASSUME Inv, [Next]_vars
      PROVE  [Holding' \ Holding # {} => Cardinality(Engaged') <= maxRuns']_vars
  <2>1. Inv' /\ WithinLimit
    BY <1>1, NextKeeps, StutterKeeps DEF Keeps
  <2>. SUFFICES ASSUME Holding' \ Holding # {}
                PROVE  Cardinality(Engaged') <= maxRuns'
    OBVIOUS
  <2>2. Cardinality(Active(status')) + pending' <= maxRuns'
    BY <2>1 DEF WithinLimit, Holding, HoldingOf
  <2>3. Engaged' = HoldingOf(stage') \cup Active(status')
    BY DEF Engaged, Holding, HoldingOf
  <2>4. HoldingOf(stage') \subseteq Task /\ Active(status') \subseteq Task
    BY DEF HoldingOf, Active
  <2>5. /\ Cardinality(HoldingOf(stage')) \in Nat /\ Cardinality(Active(status')) \in Nat
        /\ Cardinality(HoldingOf(stage') \cup Active(status')) \in Nat
        /\ Cardinality(HoldingOf(stage') \cup Active(status'))
              <= Cardinality(HoldingOf(stage')) + Cardinality(Active(status'))
    BY <2>4, UnionCardinality, TasksFinite
  <2>6. pending' = Cardinality(HoldingOf(stage')) /\ maxRuns' \in Nat
    BY <2>1, DelegateAssumption DEF Inv, Consistent, TypeOK
  <2>. QED
    BY <2>2, <2>3, <2>5, <2>6
<1>. QED
  BY Invariance, <1>1, PTL DEF Spec, AdmissionWithinLimit

\* No task is admitted past one that waited before it and still waits.
THEOREM FirstComeFirstServed == Spec => NoOvertaking
<1>1. ASSUME Inv, [Next]_vars
      PROVE  [\A t \in Holding' \ Holding : \A i \in 1..Len(queue) :
                (\E j \in 1..Len(queue') : queue'[j] = queue[i])
                   => \E h \in 1..(i-1) : queue[h] = t]_vars
  BY <1>1, NextKeeps, StutterKeeps DEF Keeps, InOrder, Holding, HoldingOf
<1>. QED
  BY Invariance, <1>1, PTL DEF Spec, NoOvertaking

-----------------------------------------------------------------------------
(* The sessions and their processes *)

Attempt == 0..MaxReattach

\* A task without a session: nothing registered, no process live, nothing
\* outstanding; at most the process of its start is in its handshake, or is
\* what a failed start left.
NoSession(t, s, x, c, pr, pm) ==
    /\ x = "absent" /\ c = NoProc
    /\ \A i \in Attempt : pr[<<t, i>>] # "live" /\ pm[<<t, i>>] = 0
    /\ \A i \in Attempt \ {0} : pr[<<t, i>>] = "unused"
    /\ s \notin {"spawn", "failed"} => pr[<<t, 0>>] = "unused"

\* A session that awaits set_mode: its first process, and no prompt yet.
Opening(t, x, c, pr, pm) ==
    /\ x = "running" /\ c = <<t, 0>> /\ pr[<<t, 0>>] = "live"
    /\ \A i \in Attempt : pm[<<t, i>>] = 0
    /\ \A i \in Attempt \ {0} : pr[<<t, i>>] = "unused"

\* No live process but the session's client: none is forgotten.
Alone(t, c, pr) == \A i \in Attempt : pr[<<t, i>>] = "live" => c = <<t, i>>

\* A started session: its client and the processes with prompts are live, a turn
\* has a prompt outstanding, a cancelled session has no client.  Unless a process
\* is forgotten, the client alone has prompts outstanding, one in a turn and none
\* after it.  And unless two messages raced, none is forgotten, and a process that
\* re-attaches the session is alone and finds no client.
Established(t, x, c, pr, pm, rc) ==
    /\ \A i \in Attempt : c = <<t, i>> \/ pm[<<t, i>>] > 0 => pr[<<t, i>>] = "live"
    /\ x \in InTurn => \E i \in Attempt : pm[<<t, i>>] > 0
    /\ x = "cancelled" => c = NoProc
    /\ Alone(t, c, pr) =>
         /\ x \in Settled => \A i \in Attempt : pm[<<t, i>>] = 0
         /\ x \in InTurn => \A i \in Attempt : c = <<t, i>> => pm[<<t, i>>] = 1
    /\ t \notin rc =>
         /\ Alone(t, c, pr)
         /\ \A i \in Attempt : pr[<<t, i>>] = "handshake" => c = NoProc
         /\ \A i, j \in Attempt :
              pr[<<t, i>>] = "handshake" /\ pr[<<t, j>>] = "handshake" => i = j

\* The session of task t in stage s, with status x and client c, among the
\* processes pr and the outstanding prompts pm, when messages raced in the
\* sessions rc.
SessionOf(t, s, x, c, pr, pm, rc) ==
    /\ c = NoProc \/ \E i \in Attempt : c = <<t, i>>
    /\ pr[<<t, 0>>] = "handshake" <=> s = "spawn"
    /\ s \notin {"mode", "done"} => NoSession(t, s, x, c, pr, pm)
    /\ s = "mode" => Opening(t, x, c, pr, pm)
    /\ s = "done" => Established(t, x, c, pr, pm, rc)

SessionsOf(st, ss, cl, pr, pm, rc) ==
    \A t \in Task : SessionOf(t, st[t], ss[t], cl[t], pr, pm, rc)

Sessions == SessionsOf(stage, status, client, proc, prompts, raced)

LEMMA ProcFacts ==
  /\ 0 \in Attempt
  /\ \A t \in Task : \A i \in Attempt : <<t, i>> \in Proc /\ <<t, i>> # NoProc
  /\ \A p \in Proc : p[1] \in Task /\ p[2] \in Attempt /\ p = <<p[1], p[2]>>
BY DelegateAssumption DEF Proc, Attempt, Task, NoProc

\* One process changes.
LEMMA ProcUpdate ==
  ASSUME NEW f, DOMAIN f = Proc, NEW t \in Task, NEW i \in Attempt, NEW v
  PROVE  \A u \in Task : \A j \in Attempt :
            [f EXCEPT ![<<t, i>>] = v][<<u, j>>]
               = IF u = t /\ j = i THEN v ELSE f[<<u, j>>]
<1>. SUFFICES ASSUME NEW u \in Task, NEW j \in Attempt
              PROVE  [f EXCEPT ![<<t, i>>] = v][<<u, j>>]
                        = IF u = t /\ j = i THEN v ELSE f[<<u, j>>]
  OBVIOUS
<1>1. <<t, i>> \in Proc /\ <<u, j>> \in Proc
  BY ProcFacts
<1>2. <<t, i>> = <<u, j>> <=> u = t /\ j = i
  OBVIOUS
<1>. QED
  BY <1>1, <1>2

\* A session whose stage, status, client, processes and prompts stay is as
\* good as it was.
LEMMA SameSession ==
  ASSUME NEW t \in Task, NEW s, NEW x, NEW c, NEW pr, NEW pm, NEW pr1, NEW pm1, NEW rc,
         SessionOf(t, s, x, c, pr, pm, rc),
         \A i \in Attempt : pr1[<<t, i>>] = pr[<<t, i>>] /\ pm1[<<t, i>>] = pm[<<t, i>>]
  PROVE  SessionOf(t, s, x, c, pr1, pm1, rc)
<1>1. NoSession(t, s, x, c, pr, pm) => NoSession(t, s, x, c, pr1, pm1)
  BY ProcFacts DEF NoSession
<1>2. Opening(t, x, c, pr, pm) => Opening(t, x, c, pr1, pm1)
  BY ProcFacts DEF Opening
<1>3. Established(t, x, c, pr, pm, rc) => Established(t, x, c, pr1, pm1, rc)
  <2>. SUFFICES ASSUME Established(t, x, c, pr, pm, rc)
                PROVE  Established(t, x, c, pr1, pm1, rc)
    OBVIOUS
  <2>1. Alone(t, c, pr) <=> Alone(t, c, pr1)
    BY DEF Alone
  <2>2. x \in InTurn => \E i \in Attempt : pm1[<<t, i>>] > 0
    BY DEF Established
  <2>. QED
    BY <2>1, <2>2 DEF Established
<1>. QED
  BY <1>1, <1>2, <1>3, ProcFacts DEF SessionOf

\* Functions of tasks, and of processes, that differ at task t only.
Elsewhere(t, f, g)  == \A u \in Task \ {t} : f[u] = g[u]
ElsewhereP(t, f, g) == \A u \in Task \ {t} : \A i \in Attempt : f[<<u, i>>] = g[<<u, i>>]

LEMMA ElsewhereUpdate ==
  ASSUME NEW f, DOMAIN f = Task, NEW t \in Task, NEW v
  PROVE  Elsewhere(t, [f EXCEPT ![t] = v], f) /\ [f EXCEPT ![t] = v][t] = v
BY DEF Elsewhere

LEMMA ElsewherePUpdate ==
  ASSUME NEW f, DOMAIN f = Proc, NEW t \in Task, NEW i \in Attempt, NEW v,
         NEW g, g = [f EXCEPT ![<<t, i>>] = v]
  PROVE  /\ ElsewhereP(t, g, f)
         /\ \A j \in Attempt : g[<<t, j>>] = IF j = i THEN v ELSE f[<<t, j>>]
BY ProcUpdate DEF ElsewhereP

\* Nothing differs from itself.
LEMMA ElsewhereSame ==
  ASSUME NEW t \in Task, NEW f
  PROVE  Elsewhere(t, f, f) /\ ElsewhereP(t, f, f)
BY DEF Elsewhere, ElsewhereP

\* A step that concerns the session of one task.
LEMMA OneSession ==
  ASSUME NEW st, NEW ss, NEW cl, NEW pr, NEW pm, NEW rc,
         NEW st1, NEW ss1, NEW cl1, NEW pr1, NEW pm1, NEW t \in Task,
         SessionsOf(st, ss, cl, pr, pm, rc),
         Elsewhere(t, st1, st), Elsewhere(t, ss1, ss), Elsewhere(t, cl1, cl),
         ElsewhereP(t, pr1, pr), ElsewhereP(t, pm1, pm),
         SessionOf(t, st1[t], ss1[t], cl1[t], pr1, pm1, rc)
  PROVE  SessionsOf(st1, ss1, cl1, pr1, pm1, rc)
<1>. SUFFICES ASSUME NEW u \in Task \ {t}
              PROVE  SessionOf(u, st1[u], ss1[u], cl1[u], pr1, pm1, rc)
  BY DEF SessionsOf
<1>1. SessionOf(u, st[u], ss[u], cl[u], pr, pm, rc)
  BY DEF SessionsOf
<1>2. SessionOf(u, st[u], ss[u], cl[u], pr1, pm1, rc)
  BY <1>1, SameSession DEF ElsewhereP
<1>. QED
  BY <1>2 DEF Elsewhere

\* The start of a queued task: it awaits its worktree or its handshake.
LEMMA SessionStarts ==
  ASSUME NEW t \in Task, NEW s, NEW x, NEW c, NEW pr, NEW pm, NEW s1, NEW pr1, NEW rc,
         SessionOf(t, s, x, c, pr, pm, rc), s \in {"none", "recreate", "queued", "worktree"},
         \/ s1 \in {"worktree", "queued", "recreate", "dropped"} /\ pr1[<<t, 0>>] = pr[<<t, 0>>]
         \/ s1 = "spawn" /\ pr1[<<t, 0>>] = "handshake",
         \A i \in Attempt \ {0} : pr1[<<t, i>>] = pr[<<t, i>>]
  PROVE  SessionOf(t, s1, x, c, pr1, pm, rc)
BY ProcFacts DEF SessionOf, NoSession

\* A drain keeps the sessions: it starts tasks that have none.
LEMMA DrainKeepsSessions ==
  ASSUME NEW q, NEW n, NEW st, NEW d, NEW pr, NEW ss, NEW cl, NEW pm, NEW rc,
         Consistent(q, n, st, d), pr \in [Proc -> ProcState], Drain(d, q, n, st, pr),
         SessionsOf(st, ss, cl, pr, pm, rc)
  PROVE  SessionsOf(stage', ss, cl, proc', pm, rc)
<1>0. /\ q \in Seq(Task) /\ Len(q) \in Nat
      /\ \A i \in 1..Len(q) : q[i] \in Task /\ st[q[i]] = "queued"
  BY LenProperties, ElementOfSeq DEF Consistent, Queued
<1>1. CASE d # 0
  BY <1>1 DEF Drain
<1>2. CASE d = 0
  <2>1. PICK k \in 0..Len(q) :
          /\ stage' = [t \in Task |->
                          IF t \notin {q[i] : i \in 1..k} THEN st[t]
                          ELSE IF wt'[t] = "wanted" THEN "worktree" ELSE "spawn"]
          /\ proc' = [p \in Proc |->
                         IF p[2] = 0 /\ p[1] \in {q[i] : i \in 1..k} /\ wt'[p[1]] # "wanted"
                         THEN "handshake" ELSE pr[p]]
    BY <1>2 DEF Drain
  <2>. DEFINE P == {q[i] : i \in 1..k}
  <2>2. \A t \in P : t \in Task /\ st[t] = "queued"
    BY <1>0
  <2>. HIDE DEF P
  <2>3. \A t \in Task : stage'[t] = IF t \notin P THEN st[t]
                                    ELSE IF wt'[t] = "wanted" THEN "worktree" ELSE "spawn"
    BY <2>1 DEF P
  <2>4. \A t \in Task : \A i \in Attempt :
           proc'[<<t, i>>] = IF i = 0 /\ t \in P /\ wt'[t] # "wanted"
                             THEN "handshake" ELSE pr[<<t, i>>]
    BY <2>1, ProcFacts DEF P
  <2>. SUFFICES ASSUME NEW t \in Task
                PROVE  SessionOf(t, stage'[t], ss[t], cl[t], proc', pm, rc)
    BY DEF SessionsOf
  <2>5. SessionOf(t, st[t], ss[t], cl[t], pr, pm, rc)
    BY DEF SessionsOf
  <2>6. CASE t \in P
    <3>1. st[t] = "queued" /\ \A i \in Attempt \ {0} : proc'[<<t, i>>] = pr[<<t, i>>]
      BY <2>6, <2>2, <2>4
    <3>2. \/ stage'[t] = "worktree" /\ proc'[<<t, 0>>] = pr[<<t, 0>>]
          \/ stage'[t] = "spawn" /\ proc'[<<t, 0>>] = "handshake"
      BY <2>6, <2>3, <2>4, ProcFacts
    <3>. QED
      BY <2>5, <3>1, <3>2, SessionStarts
  <2>7. CASE t \notin P
    <3>1. stage'[t] = st[t] /\ \A i \in Attempt : proc'[<<t, i>>] = pr[<<t, i>>]
      BY <2>7, <2>3, <2>4
    <3>2. SessionOf(t, st[t], ss[t], cl[t], proc', pm, rc)
      BY <2>5, <3>1, SameSession
    <3>. QED
      BY <3>1, <3>2
  <2>. QED
    BY <2>6, <2>7
<1>. QED
  BY <1>1, <1>2

\* The admission of a task that has no session.
LEMMA AdmissionSessions ==
  ASSUME Inv, Sessions, NEW t \in Task, stage[t] \in {"none", "recreate"},
         NEW s \in {"worktree", "spawn"}, Admission(t, s),
         UNCHANGED <<status, client, prompts, raced>>
  PROVE  Sessions'
<1>0. /\ stage \in [Task -> Stage] /\ proc \in [Proc -> ProcState]
      /\ Consistent(queue, pending, stage, drainTask)
      /\ SessionOf(t, stage[t], status[t], client[t], proc, prompts, raced)
  BY InvParts DEF Sessions, SessionsOf
<1>1. CASE MayStartNow
  <2>1. /\ stage' = [stage EXCEPT ![t] = s]
        /\ proc' = IF s = "spawn" THEN [proc EXCEPT ![<<t, 0>>] = "handshake"] ELSE proc
    BY <1>1 DEF Admission
  <2>2. \A u \in Task : \A i \in Attempt :
           proc'[<<u, i>>] = IF s = "spawn" /\ u = t /\ i = 0 THEN "handshake" ELSE proc[<<u, i>>]
    BY <1>0, <2>1, ProcUpdate, ProcFacts
  <2>3. \A u \in Task : stage'[u] = IF u = t THEN s ELSE stage[u]
    BY <1>0, <2>1
  <2>4. SessionOf(t, s, status[t], client[t], proc', prompts, raced)
    <3>1. \/ s = "worktree" /\ proc'[<<t, 0>>] = proc[<<t, 0>>]
          \/ s = "spawn" /\ proc'[<<t, 0>>] = "handshake"
      BY <2>2, ProcFacts
    <3>2. \A i \in Attempt \ {0} : proc'[<<t, i>>] = proc[<<t, i>>]
      BY <2>2
    <3>. QED
      BY <1>0, <3>1, <3>2, SessionStarts
  <2>5. SessionOf(t, stage'[t], status'[t], client'[t], proc', prompts', raced')
    BY <2>3, <2>4
  <2>6. /\ Elsewhere(t, stage', stage) /\ ElsewhereP(t, proc', proc)
        /\ Elsewhere(t, status', status) /\ Elsewhere(t, client', client)
        /\ ElsewhereP(t, prompts', prompts)
    BY <2>2, <2>3 DEF Elsewhere, ElsewhereP
  <2>. QED
    BY <2>5, <2>6, OneSession DEF Sessions
<1>2. CASE ~ MayStartNow
  <2>. DEFINE q == Append(queue, t)
              st == [stage EXCEPT ![t] = "queued"]
  <2>1. Drain(drainTask, q, pending, st, proc)
    BY <1>2 DEF Admission
  <2>2. Consistent(q, pending, st, drainTask)
    BY <1>0, Enqueues DEF Starting
  <2>3. \A u \in Task : st[u] = IF u = t THEN "queued" ELSE stage[u]
    BY <1>0
  <2>. HIDE DEF q, st
  <2>4. SessionOf(t, st[t], status[t], client[t], proc, prompts, raced)
    BY <1>0, <2>3, SessionStarts
  <2>5. SessionsOf(st, status, client, proc, prompts, raced)
    <3>1. Elsewhere(t, st, stage)
      BY <2>3 DEF Elsewhere
    <3>. QED
      BY <2>4, <3>1, ElsewhereSame, OneSession DEF Sessions
  <2>6. SessionsOf(stage', status, client, proc', prompts, raced)
    BY <1>0, <2>1, <2>2, <2>5, DrainKeepsSessions
  <2>. QED
    BY <2>6 DEF Sessions
<1>. QED
  BY <1>1, <1>2

\* How a session may stop being cancelled.
MayLeaveCancelled(t) ==
    \/ status'[t] = "absent"
    \/ client'[t] # client[t] /\ status'[t] = "running"
    \/ /\ t \in raced /\ status'[t] = "idle"
       /\ \E i \in Forgotten(t) : prompts'[<<t, i>>] < prompts[<<t, i>>]

CancelSticks ==
    \A t \in Task : status[t] = "cancelled" /\ status'[t] # "cancelled" => MayLeaveCancelled(t)

SessionStep == Sessions' /\ CancelSticks

\* Steps that drain the queue after they changed one session.
LEMMA SessionStepDrains ==
  ASSUME Inv, Sessions, NEW n, NEW st, NEW d, NEW pr, NEW t \in Task,
         Consistent(queue, n, st, d), pr \in [Proc -> ProcState],
         Drain(d, queue, n, st, pr),
         Elsewhere(t, st, stage), Elsewhere(t, status', status), Elsewhere(t, client', client),
         ElsewhereP(t, pr, proc), ElsewhereP(t, prompts', prompts), UNCHANGED raced,
         SessionOf(t, st[t], status'[t], client'[t], pr, prompts', raced')
  PROVE  Sessions'
<1>1. SessionsOf(st, status', client', pr, prompts', raced')
  BY OneSession DEF Sessions
<1>. QED
  BY <1>1, DrainKeepsSessions DEF Sessions

\* Steps that only drain.
LEMMA OnlyDrains ==
  ASSUME Inv, Sessions, NEW d,
         d = drainTask, Drain(d, queue, pending, stage, proc),
         UNCHANGED <<status, client, prompts, raced>>
  PROVE  SessionStep
<1>1. Sessions'
  BY InvParts, DrainKeepsSessions DEF Sessions
<1>. QED
  BY <1>1 DEF SessionStep, CancelSticks

\* Steps that change nothing a session consists of.
LEMMA NoSessionChanges ==
  ASSUME Sessions, UNCHANGED <<stage, status, client, proc, prompts, raced>>
  PROVE  SessionStep
BY DEF Sessions, SessionsOf, SessionOf, SessionStep, CancelSticks

\* A step whose status change concerns one task.
LEMMA CancelSticksAt ==
  ASSUME NEW t \in Task, Elsewhere(t, status', status),
         status[t] = "cancelled" => status'[t] = "cancelled" \/ MayLeaveCancelled(t)
  PROVE  CancelSticks
BY DEF CancelSticks, Elsewhere

LEMMA DelegateSessions ==
  ASSUME Inv, Sessions, NEW w \in BOOLEAN, Delegate(w)
  PROVE  SessionStep
<1>1. invoked + 1 \in Task /\ stage[invoked + 1] = "none"
  BY InvParts, DelegateAssumption DEF Delegate, OthersOK, Task, FreshTasks
<1>2. UNCHANGED <<status, client, prompts, raced>>
  BY DEF Delegate, procVars
<1>3. Sessions'
  BY <1>1, <1>2, AdmissionSessions DEF Delegate
<1>. QED
  BY <1>2, <1>3 DEF SessionStep, CancelSticks

LEMMA ToolWorktreeReadySessions ==
  ASSUME Inv, Sessions, NEW t \in Task, ToolWorktreeReady(t)
  PROVE  SessionStep
<1>0. /\ stage \in [Task -> Stage] /\ proc \in [Proc -> ProcState] /\ stage[t] = "worktree"
      /\ SessionOf(t, stage[t], status[t], client[t], proc, prompts, raced)
  BY InvParts DEF Sessions, SessionsOf, ToolWorktreeReady, Awaits
<1>1. UNCHANGED <<status, client, prompts, raced>>
  BY DEF ToolWorktreeReady, procVars
<1>2. Elsewhere(t, stage', stage) /\ stage'[t] = "spawn"
  BY <1>0, ElsewhereUpdate DEF ToolWorktreeReady
<1>3. /\ ElsewhereP(t, proc', proc)
      /\ \A j \in Attempt : proc'[<<t, j>>] = IF j = 0 THEN "handshake" ELSE proc[<<t, j>>]
  BY <1>0, ElsewherePUpdate, ProcFacts DEF ToolWorktreeReady
<1>4. SessionOf(t, "spawn", status[t], client[t], proc', prompts, raced)
  <2>1. proc'[<<t, 0>>] = "handshake" /\ \A j \in Attempt \ {0} : proc'[<<t, j>>] = proc[<<t, j>>]
    BY <1>3, ProcFacts
  <2>. QED
    BY <1>0, <2>1, SessionStarts
<1>5. SessionOf(t, stage'[t], status'[t], client'[t], proc', prompts', raced')
  BY <1>1, <1>2, <1>4
<1>6. Sessions'
  BY <1>1, <1>2, <1>3, <1>5, ElsewhereSame, OneSession DEF Sessions
<1>. QED
  BY <1>1, <1>6 DEF SessionStep, CancelSticks

LEMMA ToolWorktreeFailsSessions ==
  ASSUME Inv, Sessions, NEW t \in Task, ToolWorktreeFails(t)
  PROVE  SessionStep
<1>. DEFINE st == [stage EXCEPT ![t] = "failed"]
<1>0. /\ stage \in [Task -> Stage] /\ proc \in [Proc -> ProcState] /\ stage[t] = "worktree"
      /\ SessionOf(t, stage[t], status[t], client[t], proc, prompts, raced)
  BY InvParts DEF Sessions, SessionsOf, ToolWorktreeFails, Awaits
<1>1. UNCHANGED <<status, client, prompts, raced>> /\ t # drainTask
  BY DEF ToolWorktreeFails, procVars
<1>2. Elsewhere(t, st, stage) /\ st[t] = "failed"
  BY <1>0, ElsewhereUpdate
<1>3. Consistent(queue, pending - 1, st, drainTask)
  BY <1>0, <1>1, InvParts, Leaves DEF Starting, Stage
<1>4. Drain(drainTask, queue, pending - 1, st, proc)
  BY DEF ToolWorktreeFails, Release
<1>. HIDE DEF st
<1>5. SessionOf(t, st[t], status'[t], client'[t], proc, prompts', raced')
  BY <1>0, <1>1, <1>2 DEF SessionOf, NoSession
<1>6. Sessions'
  BY <1>0, <1>1, <1>2, <1>3, <1>4, <1>5, ElsewhereSame, SessionStepDrains
<1>. QED
  BY <1>1, <1>6 DEF SessionStep, CancelSticks

LEMMA DrainWorktreeDoneSessions ==
  ASSUME Inv, Sessions, NEW made \in BOOLEAN, DrainWorktreeDone(made)
  PROVE  SessionStep
<1>. DEFINE t == drainTask
            st == [stage EXCEPT ![t] = "spawn"]
            pr == [proc EXCEPT ![<<t, 0>>] = "handshake"]
<1>0. /\ t \in Task /\ stage[t] = "worktree"
      /\ stage \in [Task -> Stage] /\ proc \in [Proc -> ProcState]
      /\ SessionOf(t, stage[t], status[t], client[t], proc, prompts, raced)
  BY InvParts, DelegateAssumption DEF DrainWorktreeDone, Consistent, Task, Sessions, SessionsOf
<1>1. UNCHANGED <<status, client, prompts, raced>>
  BY DEF DrainWorktreeDone, procVars
<1>2. Elsewhere(t, st, stage) /\ st[t] = "spawn"
  BY <1>0, ElsewhereUpdate
<1>3. /\ ElsewhereP(t, pr, proc)
      /\ \A j \in Attempt : pr[<<t, j>>] = IF j = 0 THEN "handshake" ELSE proc[<<t, j>>]
  BY <1>0, ElsewherePUpdate, ProcFacts
<1>4. pr \in [Proc -> ProcState]
  BY <1>0 DEF ProcState
<1>5. Consistent(queue, pending, st, 0)
  <2>1. Consistent(queue, pending, stage, 0) /\ t # 0
    BY InvParts, DelegateAssumption DEF Consistent, DrainWorktreeDone
  <2>. QED
    BY <1>0, <2>1, Moves DEF Starting
<1>6. Drain(0, queue, pending, st, pr)
  BY DEF DrainWorktreeDone
<1>. HIDE DEF t, st, pr
<1>7. SessionOf(t, "spawn", status[t], client[t], pr, prompts, raced)
  <2>1. pr[<<t, 0>>] = "handshake" /\ \A j \in Attempt \ {0} : pr[<<t, j>>] = proc[<<t, j>>]
    BY <1>3, ProcFacts
  <2>. QED
    BY <1>0, <2>1, SessionStarts
<1>8. SessionOf(t, st[t], status'[t], client'[t], pr, prompts', raced')
  BY <1>1, <1>2, <1>7
<1>9. Sessions'
  BY <1>0, <1>1, <1>2, <1>3, <1>4, <1>5, <1>6, <1>8, ElsewhereSame, SessionStepDrains
<1>. QED
  BY <1>1, <1>9 DEF SessionStep, CancelSticks

LEMMA StartFailsSessions ==
  ASSUME Inv, Sessions, NEW t \in Task, StartFails(t)
  PROVE  SessionStep
<1>. DEFINE st == [stage EXCEPT ![t] = "failed"]
            pr == [proc EXCEPT ![<<t, 0>>] = "dying"]
<1>0. /\ stage \in [Task -> Stage] /\ proc \in [Proc -> ProcState] /\ stage[t] = "spawn"
      /\ SessionOf(t, stage[t], status[t], client[t], proc, prompts, raced)
  BY InvParts DEF Sessions, SessionsOf, StartFails, Awaits
<1>1. UNCHANGED <<status, client, prompts, raced>>
  BY DEF StartFails, procVars
<1>2. Elsewhere(t, st, stage) /\ st[t] = "failed"
  BY <1>0, ElsewhereUpdate
<1>3. /\ ElsewhereP(t, pr, proc)
      /\ \A j \in Attempt : pr[<<t, j>>] = IF j = 0 THEN "dying" ELSE proc[<<t, j>>]
  BY <1>0, ElsewherePUpdate, ProcFacts
<1>4. pr \in [Proc -> ProcState]
  BY <1>0 DEF ProcState
<1>5. Consistent(queue, pending - 1, st, drainTask)
  <2>1. t # drainTask
    BY <1>0, InvParts DEF Consistent, Task
  <2>. QED
    BY <1>0, <2>1, InvParts, Leaves DEF Starting, Stage
<1>6. Drain(drainTask, queue, pending - 1, st, pr)
  BY DEF StartFails, Release
<1>. HIDE DEF st, pr
<1>7. SessionOf(t, "failed", status[t], client[t], pr, prompts, raced)
  BY <1>0, <1>3, ProcFacts DEF SessionOf, NoSession
<1>8. SessionOf(t, st[t], status'[t], client'[t], pr, prompts', raced')
  BY <1>1, <1>2, <1>7
<1>9. Sessions'
  BY <1>0, <1>1, <1>2, <1>3, <1>4, <1>5, <1>6, <1>8, ElsewhereSame, SessionStepDrains
<1>. QED
  BY <1>1, <1>9 DEF SessionStep, CancelSticks

LEMMA RegisterSessions ==
  ASSUME Inv, Sessions, NEW t \in Task, Register(t)
  PROVE  SessionStep
<1>0. /\ stage \in [Task -> Stage] /\ proc \in [Proc -> ProcState] /\ stage[t] = "spawn"
      /\ status \in [Task -> Status] /\ client \in [Task -> Proc \cup {NoProc}]
      /\ SessionOf(t, stage[t], status[t], client[t], proc, prompts, raced)
  BY InvParts DEF Sessions, SessionsOf, Register, Awaits, OthersOK
<1>1. /\ Elsewhere(t, stage', stage) /\ stage'[t] = "mode"
      /\ Elsewhere(t, status', status) /\ status'[t] = "running"
      /\ Elsewhere(t, client', client) /\ client'[t] = <<t, 0>>
      /\ UNCHANGED <<prompts, raced>>
  BY <1>0, ElsewhereUpdate DEF Register
<1>2. /\ ElsewhereP(t, proc', proc)
      /\ \A j \in Attempt : proc'[<<t, j>>] = IF j = 0 THEN "live" ELSE proc[<<t, j>>]
  BY <1>0, ElsewherePUpdate, ProcFacts DEF Register
<1>3. SessionOf(t, "mode", "running", <<t, 0>>, proc', prompts, raced)
  BY <1>0, <1>2, ProcFacts DEF SessionOf, NoSession, Opening
<1>4. SessionOf(t, stage'[t], status'[t], client'[t], proc', prompts', raced')
  BY <1>1, <1>3
<1>5. Sessions'
  BY <1>1, <1>2, <1>4, ElsewhereSame, OneSession DEF Sessions
<1>6. status[t] = "absent"
  BY <1>0 DEF SessionOf, NoSession
<1>. QED
  BY <1>1, <1>5, <1>6, CancelSticksAt DEF SessionStep

LEMMA ModeSetSessions ==
  ASSUME Inv, Sessions, NEW t \in Task, ModeSet(t)
  PROVE  SessionStep
<1>. DEFINE st == [stage EXCEPT ![t] = "done"]
<1>0. /\ stage \in [Task -> Stage] /\ proc \in [Proc -> ProcState] /\ stage[t] = "mode"
      /\ prompts \in [Proc -> Nat] /\ 0 \in Attempt
      /\ SessionOf(t, stage[t], status[t], client[t], proc, prompts, raced)
  BY InvParts, ProcFacts DEF Sessions, SessionsOf, ModeSet, Awaits, OthersOK
<1>1. UNCHANGED <<status, client, raced>>
  BY DEF ModeSet
<1>2. Elsewhere(t, st, stage) /\ st[t] = "done"
  BY <1>0, ElsewhereUpdate
<1>3. /\ ElsewhereP(t, prompts', prompts)
      /\ \A j \in Attempt : prompts'[<<t, j>>] = IF j = 0 THEN prompts[<<t, 0>>] + 1
                                                  ELSE prompts[<<t, j>>]
  <2>1. prompts' = [prompts EXCEPT ![<<t, 0>>] = prompts[<<t, 0>>] + 1]
    BY DEF ModeSet
  <2>. QED
    BY <1>0, <2>1, ElsewherePUpdate, ProcFacts
<1>4. Consistent(queue, pending - 1, st, drainTask)
  <2>1. t # drainTask
    BY <1>0, InvParts DEF Consistent, Task
  <2>. QED
    BY <1>0, <2>1, InvParts, Leaves DEF Starting, Stage
<1>5. Drain(drainTask, queue, pending - 1, st, proc)
  BY DEF ModeSet, Release
<1>. HIDE DEF st
<1>6. Opening(t, status[t], client[t], proc, prompts)
  BY <1>0 DEF SessionOf
<1>7. Established(t, status[t], client[t], proc, prompts', raced)
  <2>1. \A j \in Attempt : <<t, 0>> = <<t, j>> <=> j = 0
    OBVIOUS
  <2>2. Alone(t, client[t], proc)
    BY <1>6, <2>1, ProcFacts DEF Opening, Alone
  <2>3. \A j \in Attempt : prompts'[<<t, j>>] = IF j = 0 THEN 1 ELSE 0
    BY <1>3, <1>6 DEF Opening
  <2>. QED
    BY <1>0, <1>6, <2>1, <2>2, <2>3, ProcFacts DEF Opening, Established, Settled
<1>8. SessionOf(t, st[t], status'[t], client'[t], proc, prompts', raced')
  BY <1>0, <1>1, <1>2, <1>6, <1>7 DEF SessionOf, Opening
<1>9. Sessions'
  BY <1>0, <1>1, <1>2, <1>3, <1>4, <1>5, <1>8, ElsewhereSame, SessionStepDrains
<1>. QED
  BY <1>1, <1>9 DEF SessionStep, CancelSticks

\* Only a started session has prompts outstanding.
LEMMA PromptFacts ==
  ASSUME Inv, Sessions, NEW t \in Task, NEW i \in Attempt, prompts[<<t, i>>] > 0
  PROVE  stage[t] = "done"
<1>1. SessionOf(t, stage[t], status[t], client[t], proc, prompts, raced)
  BY DEF Sessions, SessionsOf
<1>. QED
  BY <1>1 DEF SessionOf, NoSession, Opening

LEMMA TurnEndsSessions ==
  ASSUME Inv, Sessions, NEW t \in Task, NEW i \in Attempt, TurnEnds(<<t, i>>)
  PROVE  SessionStep
<1>0. /\ proc \in [Proc -> ProcState] /\ prompts \in [Proc -> Nat]
      /\ status \in [Task -> Status] /\ prompts[<<t, i>>] > 0
      /\ SessionOf(t, stage[t], status[t], client[t], proc, prompts, raced)
  BY InvParts, ProcFacts DEF Sessions, SessionsOf, OthersOK, TurnEnds
<1>1. UNCHANGED <<client, raced>>
  BY DEF TurnEnds
<1>2. /\ ElsewhereP(t, prompts', prompts)
      /\ \A j \in Attempt : prompts'[<<t, j>>] = IF j = i THEN prompts[<<t, i>>] - 1
                                                  ELSE prompts[<<t, j>>]
  <2>1. prompts' = [prompts EXCEPT ![<<t, i>>] = prompts[<<t, i>>] - 1]
    BY <1>0 DEF TurnEnds
  <2>. QED
    BY <1>0, <2>1, ElsewherePUpdate, ProcFacts
<1>3. /\ Elsewhere(t, status', status)
      /\ status'[t] = IF status[t] = "absent" THEN "absent" ELSE "idle"
  <2>1. status' = [status EXCEPT ![t] = IF status[t] = "absent" THEN "absent" ELSE "idle"]
    BY DEF TurnEnds, SetStatus
  <2>. QED
    BY <1>0, <2>1, ElsewhereUpdate
<1>4. UNCHANGED <<queue, pending, drainTask, stage, proc>>
      \/ Drain(drainTask, queue, pending, stage, proc)
  BY DEF TurnEnds
<1>5. stage[t] = "done"
  BY <1>0, PromptFacts
<1>6. Established(t, status'[t], client[t], proc, prompts', raced)
  <2>1. /\ Established(t, status[t], client[t], proc, prompts, raced)
        /\ proc[<<t, i>>] = "live"
    BY <1>0, <1>5 DEF SessionOf, TurnEnds
  <2>2. \A j \in Attempt : /\ prompts[<<t, j>>] \in Nat
                           /\ prompts'[<<t, j>>] > 0 => prompts[<<t, j>>] > 0
    BY <1>0, <1>2, ProcFacts
  <2>3. ASSUME Alone(t, client[t], proc), status'[t] \in Settled, NEW j \in Attempt
        PROVE  prompts'[<<t, j>>] = 0
    <3>1. status[t] \in InTurn
      BY <1>0, <1>3, <2>1, <2>3 DEF Established, Settled, InTurn, Status
    <3>2. client[t] = <<t, i>> /\ prompts[<<t, i>>] = 1
      BY <2>1, <2>3, <3>1 DEF Established, Alone
    <3>3. j # i => prompts[<<t, j>>] = 0
      <4>1. prompts[<<t, j>>] > 0 => <<t, j>> = <<t, i>>
        BY <2>1, <2>3, <3>2 DEF Established, Alone
      <4>. QED
        BY <2>2, <4>1
    <3>. QED
      BY <1>2, <3>2, <3>3
  <2>4. status'[t] \notin InTurn /\ (status'[t] = "cancelled" => client[t] = NoProc)
    BY <1>0, <1>3, <2>1 DEF Established, InTurn
  <2>. QED
    BY <2>1, <2>2, <2>3, <2>4 DEF Established
<1>7. SessionOf(t, stage[t], status'[t], client'[t], proc, prompts', raced')
  BY <1>0, <1>1, <1>5, <1>6 DEF SessionOf
<1>8. SessionsOf(stage, status', client', proc, prompts', raced')
  BY <1>0, <1>1, <1>2, <1>3, <1>7, ElsewhereSame, OneSession DEF Sessions
<1>9. Sessions'
  BY <1>4, <1>8, InvParts, DrainKeepsSessions DEF Sessions
<1>10. ASSUME status[t] = "cancelled" PROVE MayLeaveCancelled(t)
  <2>1. Established(t, status[t], client[t], proc, prompts, raced) /\ proc[<<t, i>>] = "live"
    BY <1>0, <1>5 DEF SessionOf, TurnEnds
  <2>2. client[t] = NoProc
    BY <1>10, <2>1 DEF Established
  <2>3. i \in Forgotten(t)
    BY <2>1, <2>2, ProcFacts DEF Forgotten, Attempt
  <2>4. t \in raced
    BY <2>1, <2>2, ProcFacts DEF Established, Alone
  <2>5. prompts'[<<t, i>>] < prompts[<<t, i>>]
    BY <1>0, <1>2, ProcFacts
  <2>. QED
    BY <1>3, <1>10, <2>3, <2>4, <2>5 DEF MayLeaveCancelled
<1>11. CancelSticks
  BY <1>3, <1>10, CancelSticksAt
<1>. QED
  BY <1>9, <1>11 DEF SessionStep

LEMMA TurnErrorsSessions ==
  ASSUME Inv, Sessions, NEW t \in Task, NEW i \in Attempt, TurnErrors(<<t, i>>)
  PROVE  SessionStep
<1>0. /\ proc \in [Proc -> ProcState] /\ prompts \in [Proc -> Nat]
      /\ status \in [Task -> Status] /\ prompts[<<t, i>>] > 0
      /\ SessionOf(t, stage[t], status[t], client[t], proc, prompts, raced)
  BY InvParts, ProcFacts DEF Sessions, SessionsOf, OthersOK, TurnErrors
<1>1. UNCHANGED <<client, raced>>
  BY DEF TurnErrors
<1>2. /\ ElsewhereP(t, prompts', prompts)
      /\ \A j \in Attempt : prompts'[<<t, j>>] = IF j = i THEN prompts[<<t, i>>] - 1
                                                  ELSE prompts[<<t, j>>]
  <2>1. prompts' = [prompts EXCEPT ![<<t, i>>] = prompts[<<t, i>>] - 1]
    BY <1>0 DEF TurnErrors
  <2>. QED
    BY <1>0, <2>1, ElsewherePUpdate, ProcFacts
<1>3. /\ Elsewhere(t, status', status)
      /\ status'[t] = IF status[t] \in InTurn THEN "failed" ELSE status[t]
  <2>1. status' = [status EXCEPT ![t] = IF status[t] = "absent" THEN "absent"
                                        ELSE IF status[t] \in InTurn THEN "failed" ELSE status[t]]
    BY <1>0 DEF TurnErrors, SetStatus, AfterReject
  <2>. QED
    BY <1>0, <2>1, ElsewhereUpdate DEF InTurn
<1>4. UNCHANGED <<queue, pending, drainTask, stage, proc>>
      \/ Drain(drainTask, queue, pending, stage, proc)
  BY DEF TurnErrors
<1>5. stage[t] = "done"
  BY <1>0, PromptFacts
<1>6. Established(t, status'[t], client[t], proc, prompts', raced)
  <2>1. /\ Established(t, status[t], client[t], proc, prompts, raced)
        /\ proc[<<t, i>>] = "live"
    BY <1>0, <1>5 DEF SessionOf, TurnErrors
  <2>2. \A j \in Attempt : /\ prompts[<<t, j>>] \in Nat
                           /\ prompts'[<<t, j>>] > 0 => prompts[<<t, j>>] > 0
    BY <1>0, <1>2, ProcFacts
  <2>3. ASSUME Alone(t, client[t], proc), status'[t] \in Settled, NEW j \in Attempt
        PROVE  prompts'[<<t, j>>] = 0
    <3>1. status[t] \in InTurn
      BY <1>0, <1>3, <2>1, <2>3 DEF Established, Settled, InTurn, Status
    <3>2. client[t] = <<t, i>> /\ prompts[<<t, i>>] = 1
      BY <2>1, <2>3, <3>1 DEF Established, Alone
    <3>3. j # i => prompts[<<t, j>>] = 0
      <4>1. prompts[<<t, j>>] > 0 => <<t, j>> = <<t, i>>
        BY <2>1, <2>3, <3>2 DEF Established, Alone
      <4>. QED
        BY <2>2, <4>1
    <3>. QED
      BY <1>2, <3>2, <3>3
  <2>4. status'[t] \notin InTurn /\ (status'[t] = "cancelled" => client[t] = NoProc)
    BY <1>0, <1>3, <2>1 DEF Established, InTurn
  <2>. QED
    BY <2>1, <2>2, <2>3, <2>4 DEF Established
<1>7. SessionOf(t, stage[t], status'[t], client'[t], proc, prompts', raced')
  BY <1>0, <1>1, <1>5, <1>6 DEF SessionOf
<1>8. SessionsOf(stage, status', client', proc, prompts', raced')
  BY <1>0, <1>1, <1>2, <1>3, <1>7, ElsewhereSame, OneSession DEF Sessions
<1>9. Sessions'
  BY <1>4, <1>8, InvParts, DrainKeepsSessions DEF Sessions
<1>10. CancelSticks
  BY <1>0, <1>3, CancelSticksAt DEF InTurn
<1>. QED
  BY <1>9, <1>10 DEF SessionStep

\* A status that only moves within a turn.
LEMMA TurnMovesSessions ==
  ASSUME Inv, Sessions, NEW t \in Task, status[t] \in InTurn, NEW s \in InTurn,
         s = "running" \/ stage[t] # "mode",
         status' = [status EXCEPT ![t] = s], UNCHANGED <<stage, client, proc, prompts, raced>>
  PROVE  SessionStep
<1>0. /\ SessionOf(t, stage[t], status[t], client[t], proc, prompts, raced)
      /\ status \in [Task -> Status]
  BY InvParts DEF Sessions, SessionsOf, OthersOK
<1>1. Elsewhere(t, status', status) /\ status'[t] = s
  BY <1>0, ElsewhereUpdate
<1>2. SessionOf(t, stage[t], s, client[t], proc, prompts, raced)
  BY <1>0 DEF SessionOf, NoSession, Opening, Established, InTurn, Settled
<1>3. SessionsOf(stage, status', client, proc, prompts, raced)
  <2>1. SessionOf(t, stage[t], status'[t], client[t], proc, prompts, raced)
    BY <1>1, <1>2
  <2>. QED
    BY <1>1, <2>1, ElsewhereSame, OneSession DEF Sessions
<1>4. CancelSticks
  BY <1>1, CancelSticksAt DEF InTurn
<1>. QED
  BY <1>3, <1>4 DEF SessionStep, Sessions

LEMMA StallSessions ==
  ASSUME Inv, Sessions, NEW t \in Task, Stall(t)
  PROVE  SessionStep
BY TurnMovesSessions DEF Stall, procVars, InTurn

LEMMA ActivitySessions ==
  ASSUME Inv, Sessions, NEW p \in Proc, Activity(p)
  PROVE  SessionStep
BY TurnMovesSessions, ProcFacts DEF Activity, procVars, InTurn

LEMMA DiesSessions ==
  ASSUME Inv, Sessions, NEW t \in Task, NEW i \in Attempt, Dies(<<t, i>>)
  PROVE  SessionStep
<1>0. /\ proc[<<t, i>>] = "dying"
      /\ proc \in [Proc -> ProcState]
      /\ SessionOf(t, stage[t], status[t], client[t], proc, prompts, raced)
  BY InvParts, ProcFacts DEF Sessions, SessionsOf, Dies
<1>1. UNCHANGED <<stage, status, client, prompts, raced>>
  BY DEF Dies, procVars
<1>2. /\ ElsewhereP(t, proc', proc)
      /\ \A j \in Attempt : proc'[<<t, j>>] = IF j = i THEN "dead" ELSE proc[<<t, j>>]
  BY <1>0, ElsewherePUpdate, ProcFacts DEF Dies
<1>3. SessionOf(t, stage[t], status[t], client[t], proc', prompts, raced)
  <2>1. NoSession(t, stage[t], status[t], client[t], proc, prompts)
           => NoSession(t, stage[t], status[t], client[t], proc', prompts)
    BY <1>0, <1>2, ProcFacts DEF NoSession
  <2>2. Opening(t, status[t], client[t], proc, prompts)
           => Opening(t, status[t], client[t], proc', prompts)
    BY <1>0, <1>2, ProcFacts DEF Opening
  <2>3. Established(t, status[t], client[t], proc, prompts, raced)
           => Established(t, status[t], client[t], proc', prompts, raced)
    <3>1. Alone(t, client[t], proc) <=> Alone(t, client[t], proc')
      BY <1>0, <1>2 DEF Alone
    <3>. QED
      BY <1>0, <1>2, <3>1 DEF Established
  <2>4. proc[<<t, 0>>] = "handshake" <=> proc'[<<t, 0>>] = "handshake"
    BY <1>0, <1>2, ProcFacts
  <2>. QED
    BY <1>0, <2>1, <2>2, <2>3, <2>4 DEF SessionOf
<1>4. SessionsOf(stage, status, client, proc', prompts, raced)
  BY <1>0, <1>2, <1>3, ElsewhereSame, OneSession DEF Sessions
<1>. QED
  BY <1>1, <1>4 DEF SessionStep, Sessions, CancelSticks

\* A re-attachment that fails leaves a process on its way out.
LEMMA ReattachFailsSessions ==
  ASSUME Inv, Sessions, NEW t \in Task, NEW i \in Attempt, ReattachFails(<<t, i>>)
  PROVE  SessionStep
<1>0. /\ proc[<<t, i>>] = "handshake" /\ i # 0
      /\ proc \in [Proc -> ProcState]
      /\ SessionOf(t, stage[t], status[t], client[t], proc, prompts, raced)
  BY InvParts, ProcFacts DEF Sessions, SessionsOf, ReattachFails
<1>1. UNCHANGED <<stage, status, client, prompts, raced>>
  BY DEF ReattachFails, procVars
<1>2. /\ ElsewhereP(t, proc', proc)
      /\ \A j \in Attempt : proc'[<<t, j>>] = IF j = i THEN "dying" ELSE proc[<<t, j>>]
  BY <1>0, ElsewherePUpdate, ProcFacts DEF ReattachFails
<1>3. stage[t] = "done"
  BY <1>0 DEF SessionOf, NoSession, Opening
<1>4. SessionOf(t, stage[t], status[t], client[t], proc', prompts, raced)
  <2>1. Established(t, status[t], client[t], proc, prompts, raced)
           => Established(t, status[t], client[t], proc', prompts, raced)
    <3>1. Alone(t, client[t], proc) <=> Alone(t, client[t], proc')
      BY <1>0, <1>2 DEF Alone
    <3>. QED
      BY <1>0, <1>2, <3>1 DEF Established
  <2>2. proc[<<t, 0>>] = "handshake" <=> proc'[<<t, 0>>] = "handshake"
    BY <1>0, <1>2, ProcFacts
  <2>. QED
    BY <1>0, <1>3, <2>1, <2>2 DEF SessionOf
<1>5. SessionsOf(stage, status, client, proc', prompts, raced)
  BY <1>0, <1>2, <1>4, ElsewhereSame, OneSession DEF Sessions
<1>. QED
  BY <1>1, <1>5 DEF SessionStep, Sessions, CancelSticks

\* A session without a live process, a prompt and a turn.
LEMMA Lost ==
  ASSUME NEW t \in Task, NEW x, NEW pr, NEW pm, NEW rc, x \notin InTurn,
         \A j \in Attempt : pr[<<t, j>>] \notin {"live", "handshake"} /\ pm[<<t, j>>] = 0
  PROVE  Established(t, x, NoProc, pr, pm, rc)
BY ProcFacts DEF Established, Alone

\* A started session that loses its client, if it has one, and its turn: some
\* processes end, the client's among them unless messages raced.
LEMMA ClientGone ==
  ASSUME NEW t \in Task, NEW x, NEW c, NEW pr, NEW pm, NEW rc, NEW x1, NEW pr1, NEW pm1,
         pm \in [Proc -> Nat], Established(t, x, c, pr, pm, rc), x1 \notin InTurn,
         \A j \in Attempt : \/ pr1[<<t, j>>] = pr[<<t, j>>] /\ pm1[<<t, j>>] = pm[<<t, j>>]
                            \/ pr1[<<t, j>>] \in {"dying", "dead"} /\ pm1[<<t, j>>] = 0,
         \A j \in Attempt : c = <<t, j>> /\ t \notin rc => pr1[<<t, j>>] # "live"
  PROVE  Established(t, x1, NoProc, pr1, pm1, rc)
<1>1. \A j \in Attempt : /\ pm[<<t, j>>] \in Nat
                         /\ pm1[<<t, j>>] > 0 => pr1[<<t, j>>] = "live"
                         /\ pr1[<<t, j>>] \in {"live", "handshake"} => pr1[<<t, j>>] = pr[<<t, j>>]
  BY ProcFacts DEF Established
<1>2. Alone(t, NoProc, pr1) => \A j \in Attempt : pm1[<<t, j>>] = 0
  <2>. SUFFICES ASSUME Alone(t, NoProc, pr1), NEW j \in Attempt PROVE pm1[<<t, j>>] = 0
    OBVIOUS
  <2>1. pr1[<<t, j>>] # "live"
    BY ProcFacts DEF Alone
  <2>. QED
    BY <1>1, <2>1
<1>3. t \notin rc => Alone(t, NoProc, pr1)
  BY <1>1 DEF Established, Alone
<1>4. t \notin rc => \A j, k \in Attempt :
         pr1[<<t, j>>] = "handshake" /\ pr1[<<t, k>>] = "handshake" => j = k
  BY <1>1 DEF Established
<1>. QED
  BY <1>1, <1>2, <1>3, <1>4, ProcFacts DEF Established

LEMMA ExitsSessions ==
  ASSUME Inv, Sessions, NEW t \in Task, NEW i \in Attempt, NEW clean \in BOOLEAN,
         Exits(<<t, i>>, clean)
  PROVE  SessionStep
<1>. DEFINE st == StageAfterLoss(t)
            pr == [proc EXCEPT ![<<t, i>>] = "dead"]
<1>0. /\ proc \in [Proc -> ProcState] /\ prompts \in [Proc -> Nat]
      /\ status \in [Task -> Status] /\ client \in [Task -> Proc \cup {NoProc}]
      /\ stage \in [Task -> Stage] /\ proc[<<t, i>>] = "live" /\ <<t, i>> \in Proc
      /\ SessionOf(t, stage[t], status[t], client[t], proc, prompts, raced)
  BY InvParts, ProcFacts DEF Sessions, SessionsOf, OthersOK, Exits
<1>1. /\ Elsewhere(t, client', client) /\ client'[t] = NoProc
      /\ Elsewhere(t, status', status)
      /\ status[t] = "absent" => status'[t] = "absent"
      /\ status[t] \in InTurn => status'[t] \in Settled
      /\ status[t] \notin InTurn => status'[t] = status[t]
  <2>1. client' = [client EXCEPT ![t] = NoProc]
    BY DEF Exits, ClientAfterExit
  <2>. DEFINE s == IF status[t] \in InTurn THEN IF clean THEN "idle" ELSE "interrupted"
                   ELSE status[t]
              v == IF status[t] = "absent" THEN "absent" ELSE AfterReject(s, prompts[<<t, i>>])
  <2>2. status' = [status EXCEPT ![t] = v]
    BY DEF Exits, SetStatus
  <2>3. /\ status[t] = "absent" => v = "absent"
        /\ status[t] \in InTurn => v \in Settled
        /\ status[t] \notin InTurn => v = status[t]
    BY DEF AfterReject, InTurn, Settled
  <2>. HIDE DEF s, v
  <2>. QED
    BY <1>0, <2>1, <2>2, <2>3, ElsewhereUpdate
<1>2. /\ ElsewhereP(t, prompts', prompts)
      /\ \A j \in Attempt : prompts'[<<t, j>>] = IF j = i THEN 0 ELSE prompts[<<t, j>>]
  BY <1>0, ElsewherePUpdate, ProcFacts DEF Exits
<1>3. /\ ElsewhereP(t, pr, proc) /\ pr \in [Proc -> ProcState]
      /\ \A j \in Attempt : pr[<<t, j>>] = IF j = i THEN "dead" ELSE proc[<<t, j>>]
  <2>1. pr \in [Proc -> ProcState]
    BY <1>0 DEF ProcState
  <2>. QED
    BY <1>0, <2>1, ElsewherePUpdate, ProcFacts
<1>4. /\ Elsewhere(t, st, stage)
      /\ st[t] = IF stage[t] = "mode" THEN "done" ELSE stage[t]
  BY <1>0, ElsewhereUpdate, ElsewhereSame DEF StageAfterLoss
<1>5. \/ Drain(drainTask, queue, PendingAfterLoss(t), st, pr)
      \/ proc' = pr /\ stage' = st
  BY <1>0 DEF Exits, StageAfterLoss
<1>. HIDE DEF st, pr
<1>6. stage[t] \in {"mode", "done"} /\ st[t] = "done"
  BY <1>0, <1>4 DEF SessionOf, NoSession
<1>7. pr[<<t, 0>>] # "handshake"
  BY <1>0, <1>3, <1>6, ProcFacts DEF SessionOf
<1>8. Established(t, status'[t], NoProc, pr, prompts', raced)
  <2>0. status'[t] \notin InTurn
    BY <1>1 DEF InTurn, Settled
  <2>1. CASE stage[t] = "mode"
    <3>1. Opening(t, status[t], client[t], proc, prompts)
      BY <1>0, <2>1 DEF SessionOf
    <3>2. i = 0
      BY <1>0, <3>1 DEF Opening
    <3>3. \A j \in Attempt : pr[<<t, j>>] \notin {"live", "handshake"} /\ prompts'[<<t, j>>] = 0
      BY <1>2, <1>3, <3>1, <3>2 DEF Opening
    <3>. QED
      BY <2>0, <3>3, Lost
  <2>2. CASE stage[t] = "done"
    <3>1. Established(t, status[t], client[t], proc, prompts, raced)
      BY <1>0, <2>2 DEF SessionOf
    <3>2. \A j \in Attempt : client[t] = <<t, j>> /\ t \notin raced => pr[<<t, j>>] # "live"
      <4>1. t \notin raced => client[t] = <<t, i>>
        BY <1>0, <3>1 DEF Established, Alone
      <4>. QED
        BY <1>3, <4>1
    <3>. QED
      BY <1>0, <1>2, <1>3, <2>0, <3>1, <3>2, ClientGone
  <2>. QED
    BY <1>6, <2>1, <2>2
<1>13. UNCHANGED raced
  BY DEF Exits
<1>9. SessionOf(t, st[t], status'[t], client'[t], pr, prompts', raced')
  BY <1>1, <1>6, <1>7, <1>8, <1>13 DEF SessionOf
<1>10. SessionsOf(st, status', client', pr, prompts', raced')
  BY <1>1, <1>2, <1>3, <1>4, <1>9, <1>13, OneSession DEF Sessions
<1>11. Sessions'
  <2>1. Consistent(queue, PendingAfterLoss(t), st, drainTask)
    BY AfterLoss DEF st
  <2>. QED
    BY <1>3, <1>5, <1>10, <1>13, <2>1, DrainKeepsSessions DEF Sessions
<1>12. CancelSticks
  BY <1>1, CancelSticksAt DEF InTurn
<1>. QED
  BY <1>11, <1>12 DEF SessionStep

LEMMA CancelSessionSessions ==
  ASSUME Inv, Sessions, NEW t \in Task, CancelSession(t)
  PROVE  SessionStep
<1>. DEFINE st == StageAfterLoss(t)
            pr == IF client[t] = NoProc THEN proc ELSE [proc EXCEPT ![client[t]] = "dying"]
<1>0. /\ proc \in [Proc -> ProcState] /\ prompts \in [Proc -> Nat]
      /\ status \in [Task -> Status] /\ client \in [Task -> Proc \cup {NoProc}]
      /\ stage \in [Task -> Stage] /\ status[t] # "absent"
      /\ SessionOf(t, stage[t], status[t], client[t], proc, prompts, raced)
  BY InvParts, ProcFacts DEF Sessions, SessionsOf, OthersOK, CancelSession
<1>1. /\ Elsewhere(t, client', client) /\ client'[t] = NoProc
      /\ Elsewhere(t, status', status) /\ status'[t] = "cancelled"
  <2>1. /\ client' = [client EXCEPT ![t] = NoProc]
        /\ status' = [status EXCEPT ![t] = "cancelled"]
    BY DEF CancelSession, AfterReject, InTurn
  <2>. QED
    BY <1>0, <2>1, ElsewhereUpdate
<1>2. /\ ElsewhereP(t, prompts', prompts)
      /\ \A j \in Attempt : prompts'[<<t, j>>] = IF client[t] = <<t, j>> THEN 0
                                                  ELSE prompts[<<t, j>>]
  <2>1. CASE client[t] = NoProc
    BY <2>1, ElsewhereSame, ProcFacts DEF CancelSession
  <2>2. CASE client[t] # NoProc
    <3>1. PICK i \in Attempt : client[t] = <<t, i>>
      BY <1>0, <2>2 DEF SessionOf
    <3>2. prompts' = [prompts EXCEPT ![<<t, i>>] = 0]
      BY <2>2, <3>1 DEF CancelSession
    <3>3. /\ ElsewhereP(t, prompts', prompts)
          /\ \A j \in Attempt : prompts'[<<t, j>>] = IF j = i THEN 0 ELSE prompts[<<t, j>>]
      BY <1>0, <3>2, ElsewherePUpdate, ProcFacts
    <3>4. \A j \in Attempt : <<t, i>> = <<t, j>> <=> j = i
      OBVIOUS
    <3>. QED
      BY <3>1, <3>3, <3>4
  <2>. QED
    BY <2>1, <2>2
<1>3. /\ ElsewhereP(t, pr, proc) /\ pr \in [Proc -> ProcState]
      /\ \A j \in Attempt : pr[<<t, j>>] = IF client[t] = <<t, j>> THEN "dying"
                                           ELSE proc[<<t, j>>]
  <2>1. CASE client[t] = NoProc
    BY <1>0, <2>1, ElsewhereSame, ProcFacts
  <2>2. CASE client[t] # NoProc
    <3>1. PICK i \in Attempt : client[t] = <<t, i>>
      BY <1>0, <2>2 DEF SessionOf
    <3>2. pr = [proc EXCEPT ![<<t, i>>] = "dying"]
      BY <2>2, <3>1
    <3>. HIDE DEF pr
    <3>3. /\ ElsewhereP(t, pr, proc)
          /\ \A j \in Attempt : pr[<<t, j>>] = IF j = i THEN "dying" ELSE proc[<<t, j>>]
      BY <1>0, <3>2, ElsewherePUpdate, ProcFacts
    <3>4. \A j \in Attempt : <<t, i>> = <<t, j>> <=> j = i
      OBVIOUS
    <3>5. pr \in [Proc -> ProcState]
      BY <1>0, <3>2 DEF ProcState
    <3>. QED
      BY <3>1, <3>3, <3>4, <3>5
  <2>. QED
    BY <2>1, <2>2
<1>4. /\ Elsewhere(t, st, stage)
      /\ st[t] = IF stage[t] = "mode" THEN "done" ELSE stage[t]
  BY <1>0, ElsewhereUpdate, ElsewhereSame DEF StageAfterLoss
<1>5. Drain(drainTask, queue, PendingAfterLoss(t), st, pr)
  BY DEF CancelSession
<1>. HIDE DEF st, pr
<1>6. stage[t] \in {"mode", "done"} /\ st[t] = "done"
  BY <1>0, <1>4 DEF SessionOf, NoSession
<1>7. pr[<<t, 0>>] # "handshake"
  BY <1>0, <1>3, <1>6, ProcFacts DEF SessionOf
<1>8. Established(t, "cancelled", NoProc, pr, prompts', raced)
  <2>1. CASE stage[t] = "mode"
    <3>1. Opening(t, status[t], client[t], proc, prompts)
      BY <1>0, <2>1 DEF SessionOf
    <3>. QED
      BY <1>2, <1>3, <3>1, Lost, ProcFacts DEF Opening, InTurn
  <2>2. CASE stage[t] = "done"
    <3>1. Established(t, status[t], client[t], proc, prompts, raced)
      BY <1>0, <2>2 DEF SessionOf
    <3>. QED
      BY <1>0, <1>2, <1>3, <3>1, ClientGone DEF InTurn
  <2>. QED
    BY <1>6, <2>1, <2>2
<1>13. UNCHANGED raced
  BY DEF CancelSession
<1>9. SessionOf(t, st[t], status'[t], client'[t], pr, prompts', raced')
  BY <1>1, <1>6, <1>7, <1>8, <1>13 DEF SessionOf
<1>10. SessionsOf(st, status', client', pr, prompts', raced')
  BY <1>1, <1>2, <1>3, <1>4, <1>9, <1>13, OneSession DEF Sessions
<1>11. Sessions'
  <2>1. Consistent(queue, PendingAfterLoss(t), st, drainTask)
    BY AfterLoss DEF st
  <2>. QED
    BY <1>3, <1>5, <1>10, <1>13, <2>1, DrainKeepsSessions DEF Sessions
<1>12. CancelSticks
  BY <1>1, CancelSticksAt
<1>. QED
  BY <1>11, <1>12 DEF SessionStep

LEMMA MessageSessions ==
  ASSUME Inv, Sessions, NEW t \in Task, Message(t)
  PROVE  SessionStep
<1>0. /\ prompts \in [Proc -> Nat] /\ status \in [Task -> Status]
      /\ status[t] \in Settled /\ client[t] # NoProc
      /\ SessionOf(t, stage[t], status[t], client[t], proc, prompts, raced)
  BY InvParts DEF Sessions, SessionsOf, OthersOK, Message, MessageAccepted
<1>1. PICK i \in Attempt : client[t] = <<t, i>>
  BY <1>0 DEF SessionOf
<1>2. UNCHANGED <<stage, client, proc, raced>>
  BY DEF Message
<1>3. Elsewhere(t, status', status) /\ status'[t] = "running"
  BY <1>0, ElsewhereUpdate DEF Message
<1>4. /\ ElsewhereP(t, prompts', prompts)
      /\ \A j \in Attempt : prompts'[<<t, j>>] = IF j = i THEN prompts[<<t, i>>] + 1
                                                  ELSE prompts[<<t, j>>]
  <2>1. prompts' = [prompts EXCEPT ![<<t, i>>] = prompts[<<t, i>>] + 1]
    BY <1>1 DEF Message
  <2>. QED
    BY <1>0, <2>1, ElsewherePUpdate, ProcFacts
<1>5. stage[t] = "done"
  BY <1>0 DEF SessionOf, NoSession, Opening, Settled
<1>6. /\ Established(t, "running", client[t], proc, prompts', raced)
      /\ status[t] # "cancelled"
  <2>1. Established(t, status[t], client[t], proc, prompts, raced)
    BY <1>0, <1>5 DEF SessionOf
  <2>2. \A j \in Attempt : <<t, i>> = <<t, j>> <=> j = i
    OBVIOUS
  <2>3. prompts'[<<t, i>>] > 0 /\ status[t] # "cancelled"
    BY <1>0, <1>4, <2>1, ProcFacts DEF Established
  <2>4. Alone(t, client[t], proc) => prompts'[<<t, i>>] = 1
    BY <1>0, <1>4, <2>1 DEF Established
  <2>5. \A j \in Attempt : prompts'[<<t, j>>] > 0 => proc[<<t, j>>] = "live"
    BY <1>1, <1>4, <2>1 DEF Established
  <2>. QED
    BY <1>1, <2>1, <2>2, <2>3, <2>4, <2>5 DEF Established, Settled
<1>7. SessionOf(t, stage[t], status'[t], client[t], proc, prompts', raced')
  BY <1>0, <1>2, <1>3, <1>5, <1>6 DEF SessionOf
<1>8. SessionsOf(stage, status', client, proc, prompts', raced')
  BY <1>2, <1>3, <1>4, <1>7, ElsewhereSame, OneSession DEF Sessions
<1>9. CancelSticks
  BY <1>3, <1>6, CancelSticksAt
<1>. QED
  BY <1>2, <1>8, <1>9 DEF SessionStep, Sessions

\* That more messages raced changes nothing else.
LEMMA MoreRaced ==
  ASSUME NEW st, NEW ss, NEW cl, NEW pr, NEW pm, NEW rc, NEW rc1, rc \subseteq rc1,
         SessionsOf(st, ss, cl, pr, pm, rc)
  PROVE  SessionsOf(st, ss, cl, pr, pm, rc1)
BY DEF SessionsOf, SessionOf, Established

LEMMA MessageReattachSessions ==
  ASSUME Inv, Sessions, NEW t \in Task, MessageReattach(t)
  PROVE  SessionStep
<1>0. /\ proc \in [Proc -> ProcState] /\ status[t] \in Settled /\ client[t] = NoProc
      /\ SessionOf(t, stage[t], status[t], client[t], proc, prompts, raced)
  BY InvParts DEF Sessions, SessionsOf, OthersOK, MessageReattach, MessageAccepted
<1>1. PICK i \in 1..MaxReattach : /\ proc[<<t, i>>] = "unused"
                                  /\ proc' = [proc EXCEPT ![<<t, i>>] = "handshake"]
  BY DEF MessageReattach
<1>2. /\ UNCHANGED <<stage, status, client, prompts>>
      /\ raced \subseteq raced' /\ (t \notin raced' => ~ Reattaching(t))
  BY DEF MessageReattach
<1>3. i \in Attempt /\ i # 0
  BY DelegateAssumption DEF Attempt
<1>4. /\ ElsewhereP(t, proc', proc)
      /\ \A j \in Attempt : proc'[<<t, j>>] = IF j = i THEN "handshake" ELSE proc[<<t, j>>]
  BY <1>0, <1>1, <1>3, ElsewherePUpdate, ProcFacts
<1>5. stage[t] = "done" /\ proc[<<t, 0>>] # "handshake"
  BY <1>0 DEF SessionOf, NoSession, Opening, Settled
<1>6. Established(t, status[t], client[t], proc', prompts, raced')
  <2>1. Established(t, status[t], client[t], proc, prompts, raced)
    BY <1>0, <1>5 DEF SessionOf
  <2>2. Alone(t, client[t], proc) <=> Alone(t, client[t], proc')
    BY <1>1, <1>4 DEF Alone
  <2>3. t \notin raced' => \A j \in Attempt : proc[<<t, j>>] # "handshake"
    <3>1. t \notin raced' => \A j \in 1..MaxReattach : proc[<<t, j>>] # "handshake"
      BY <1>2 DEF Reattaching
    <3>2. \A j \in Attempt : j = 0 \/ j \in 1..MaxReattach
      BY DelegateAssumption DEF Attempt
    <3>. QED
      BY <1>5, <3>1, <3>2
  <2>4. \A j \in Attempt : client[t] = <<t, j>> \/ prompts[<<t, j>>] > 0 => proc'[<<t, j>>] = "live"
    BY <1>1, <1>3, <1>4, <2>1 DEF Established
  <2>5. t \notin raced' => t \notin raced
    BY <1>2
  <2>6. t \notin raced' => \A j, k \in Attempt :
           proc'[<<t, j>>] = "handshake" /\ proc'[<<t, k>>] = "handshake" => j = k
    BY <1>4, <2>3
  <2>. QED
    BY <1>0, <2>1, <2>2, <2>4, <2>5, <2>6 DEF Established
<1>7. SessionOf(t, stage[t], status[t], client[t], proc', prompts, raced')
  BY <1>0, <1>3, <1>4, <1>5, <1>6, ProcFacts DEF SessionOf
<1>8. SessionsOf(stage, status, client, proc', prompts, raced')
  <2>1. SessionsOf(stage, status, client, proc, prompts, raced')
    BY <1>2, MoreRaced DEF Sessions
  <2>. QED
    BY <1>4, <1>7, <2>1, ElsewhereSame, OneSession
<1>. QED
  BY <1>2, <1>8 DEF SessionStep, Sessions, CancelSticks

LEMMA ReattachedSessions ==
  ASSUME Inv, Sessions, NEW t \in Task, NEW i \in Attempt, Reattached(<<t, i>>)
  PROVE  SessionStep
<1>0. /\ proc \in [Proc -> ProcState] /\ prompts \in [Proc -> Nat]
      /\ status \in [Task -> Status] /\ client \in [Task -> Proc \cup {NoProc}]
      /\ proc[<<t, i>>] = "handshake" /\ i # 0 /\ <<t, i>> # NoProc
      /\ SessionOf(t, stage[t], status[t], client[t], proc, prompts, raced)
  BY InvParts, ProcFacts DEF Sessions, SessionsOf, OthersOK, Reattached
<1>1. UNCHANGED <<stage, raced>>
  BY DEF Reattached
<1>2. /\ Elsewhere(t, status', status)
      /\ status'[t] = IF status[t] = "absent" THEN "absent" ELSE "running"
  <2>1. status' = [status EXCEPT ![t] = IF status[t] = "absent" THEN "absent" ELSE "running"]
    BY DEF Reattached, SetStatus
  <2>. QED
    BY <1>0, <2>1, ElsewhereUpdate
<1>3. Elsewhere(t, client', client) /\ client'[t] = <<t, i>>
  BY <1>0, ElsewhereUpdate DEF Reattached
<1>4. /\ ElsewhereP(t, proc', proc)
      /\ \A j \in Attempt : proc'[<<t, j>>] = IF j = i THEN "live" ELSE proc[<<t, j>>]
  BY <1>0, ElsewherePUpdate, ProcFacts DEF Reattached
<1>5. /\ ElsewhereP(t, prompts', prompts)
      /\ \A j \in Attempt : prompts'[<<t, j>>] = IF j = i THEN 1 ELSE prompts[<<t, j>>]
  BY <1>0, ElsewherePUpdate, ProcFacts DEF Reattached
<1>6. stage[t] = "done"
  BY <1>0 DEF SessionOf, NoSession, Opening
<1>7. /\ Established(t, status'[t], <<t, i>>, proc', prompts', raced)
      /\ status[t] = "cancelled" => client[t] = NoProc
  <2>1. Established(t, status[t], client[t], proc, prompts, raced)
    BY <1>0, <1>6 DEF SessionOf
  <2>2. \A j \in Attempt : <<t, i>> = <<t, j>> <=> j = i
    OBVIOUS
  <2>3. t \notin raced =>
           \A j \in Attempt : /\ j # i => proc[<<t, j>>] \notin {"live", "handshake"}
    BY <1>0, <2>1, ProcFacts DEF Established, Alone
  <2>4. t \notin raced => Alone(t, <<t, i>>, proc')
    BY <1>4, <2>3 DEF Alone
  <2>5. status'[t] \in {"absent", "running"}
    BY <1>2
  <2>6. \A j \in Attempt : <<t, i>> = <<t, j>> \/ prompts'[<<t, j>>] > 0
                             => proc'[<<t, j>>] = "live"
    BY <1>4, <1>5, <2>1, <2>2 DEF Established
  <2>7. prompts'[<<t, i>>] = 1
    BY <1>5
  <2>8. t \notin raced => \A j \in Attempt : proc'[<<t, j>>] # "handshake"
    BY <1>4, <2>3
  <2>. QED
    BY <2>1, <2>2, <2>4, <2>5, <2>6, <2>7, <2>8 DEF Established, Settled
<1>8. SessionOf(t, stage[t], status'[t], client'[t], proc', prompts', raced')
  <2>1. proc'[<<t, 0>>] = proc[<<t, 0>>]
    BY <1>0, <1>4, ProcFacts
  <2>. QED
    BY <1>0, <1>1, <1>3, <1>6, <1>7, <2>1 DEF SessionOf
<1>9. SessionsOf(stage, status', client', proc', prompts', raced')
  BY <1>1, <1>2, <1>3, <1>4, <1>5, <1>8, ElsewhereSame, OneSession DEF Sessions
<1>10. CancelSticks
  <2>1. status[t] = "cancelled" => MayLeaveCancelled(t)
    BY <1>0, <1>2, <1>3, <1>7 DEF MayLeaveCancelled
  <2>. QED
    BY <1>2, <2>1, CancelSticksAt
<1>. QED
  BY <1>1, <1>9, <1>10 DEF SessionStep, Sessions

LEMMA CancelQueuedSessions ==
  ASSUME Inv, Sessions, NEW h \in 1..Len(queue), CancelQueued(h)
  PROVE  SessionStep
<1>. DEFINE t == queue[h]
<1>0. t \in Task /\ stage[t] = "queued" /\ stage \in [Task -> Stage]
  BY InvParts, ElementOfSeq DEF Consistent, Queued
<1>1. UNCHANGED <<status, client, proc, prompts, raced>>
  BY DEF CancelQueued, procVars
<1>2. Elsewhere(t, stage', stage) /\ stage'[t] = "dropped"
  BY <1>0, ElsewhereUpdate DEF CancelQueued
<1>. HIDE DEF t
<1>3. SessionOf(t, "dropped", status[t], client[t], proc, prompts, raced)
  <2>1. SessionOf(t, stage[t], status[t], client[t], proc, prompts, raced)
    BY <1>0 DEF Sessions, SessionsOf
  <2>. QED
    BY <1>0, <2>1, SessionStarts
<1>4. SessionOf(t, stage'[t], status[t], client[t], proc, prompts, raced)
  BY <1>2, <1>3
<1>5. SessionsOf(stage', status, client, proc, prompts, raced)
  BY <1>0, <1>2, <1>4, ElsewhereSame, OneSession DEF Sessions
<1>. QED
  BY <1>1, <1>5 DEF SessionStep, Sessions, CancelSticks

LEMMA RestartGoSessions ==
  ASSUME Inv, Sessions, NEW t \in Task, RestartGo(t), UNCHANGED procVars
  PROVE  SessionStep
<1>. DEFINE n == invoked + 1
<1>0. /\ n \in Task /\ stage[n] = "none" /\ stage \in [Task -> Stage]
      /\ UNCHANGED <<status, client, prompts, raced, maxRuns>>
  BY InvParts, DelegateAssumption DEF RestartGo, OthersOK, Task, FreshTasks, procVars
<1>1. CASE stage' = [stage EXCEPT ![n] = "recreate"] /\ UNCHANGED proc
  <2>1. Elsewhere(n, stage', stage) /\ stage'[n] = "recreate"
    BY <1>0, <1>1, ElsewhereUpdate
  <2>. HIDE DEF n
  <2>2. SessionOf(n, "recreate", status[n], client[n], proc, prompts, raced)
    <3>1. SessionOf(n, stage[n], status[n], client[n], proc, prompts, raced)
      BY <1>0 DEF Sessions, SessionsOf
    <3>. QED
      BY <1>0, <3>1, SessionStarts
  <2>3. SessionOf(n, stage'[n], status[n], client[n], proc, prompts, raced)
    BY <2>1, <2>2
  <2>4. SessionsOf(stage', status, client, proc, prompts, raced)
    BY <1>0, <2>1, <2>3, ElsewhereSame, OneSession DEF Sessions
  <2>. QED
    BY <1>0, <1>1, <2>4 DEF SessionStep, Sessions, CancelSticks
<1>2. CASE Admission(n, "spawn")
  <2>1. Sessions'
    BY <1>0, <1>2, AdmissionSessions
  <2>. QED
    BY <1>0, <2>1 DEF SessionStep, CancelSticks
<1>. QED
  BY <1>1, <1>2 DEF RestartGo

LEMMA RecreatedSessions ==
  ASSUME Inv, Sessions, NEW t \in Task, Recreated(t)
  PROVE  SessionStep
<1>1. Sessions'
  BY AdmissionSessions DEF Recreated, procVars
<1>. QED
  BY <1>1 DEF SessionStep, CancelSticks, Recreated

LEMMA RecreateFailsSessions ==
  ASSUME Inv, Sessions, NEW t \in Task, RecreateFails(t)
  PROVE  SessionStep
<1>0. /\ stage[t] = "recreate" /\ stage \in [Task -> Stage]
      /\ SessionOf(t, stage[t], status[t], client[t], proc, prompts, raced)
  BY InvParts DEF Sessions, SessionsOf, RecreateFails
<1>1. UNCHANGED <<status, client, proc, prompts, raced>>
  BY DEF RecreateFails, procVars
<1>2. Elsewhere(t, stage', stage) /\ stage'[t] = "failed"
  BY <1>0, ElsewhereUpdate DEF RecreateFails
<1>3. SessionOf(t, stage'[t], status[t], client[t], proc, prompts, raced)
  BY <1>0, <1>2 DEF SessionOf, NoSession
<1>4. SessionsOf(stage', status, client, proc, prompts, raced)
  BY <1>2, <1>3, ElsewhereSame, OneSession DEF Sessions
<1>. QED
  BY <1>1, <1>4 DEF SessionStep, Sessions, CancelSticks

\* The shutdown disposes every client; what is left of a session has no turn.
LEMMA ShutdownSessions ==
  ASSUME Inv, Sessions, Shutdown
  PROVE  SessionStep
<1>. SUFFICES ASSUME NEW t \in Task
              PROVE  SessionOf(t, stage'[t], status'[t], client'[t], proc', prompts', raced')
  BY DEF SessionStep, Sessions, SessionsOf, CancelSticks, MayLeaveCancelled, Shutdown
<1>0. /\ proc \in [Proc -> ProcState] /\ prompts \in [Proc -> Nat]
      /\ stage \in [Task -> Stage]
      /\ SessionOf(t, stage[t], status[t], client[t], proc, prompts, raced)
  BY InvParts DEF Sessions, SessionsOf, OthersOK
<1>1. /\ raced' = raced /\ status'[t] = "absent" /\ client'[t] = NoProc
      /\ stage'[t] = IF stage[t] = "mode" THEN "done"
                     ELSE IF stage[t] = "queued" THEN "dropped" ELSE stage[t]
  BY DEF Shutdown
<1>2. \A j \in Attempt :
         /\ proc'[<<t, j>>] = IF client[t] = <<t, j>> THEN "dying" ELSE proc[<<t, j>>]
         /\ prompts'[<<t, j>>] = IF client[t] = <<t, j>> THEN 0 ELSE prompts[<<t, j>>]
  BY <1>0, ProcFacts DEF Shutdown
<1>3. CASE stage[t] = "done"
  <2>1. proc'[<<t, 0>>] # "handshake"
    BY <1>0, <1>2, <1>3, ProcFacts DEF SessionOf
  <2>2. Established(t, "absent", NoProc, proc', prompts', raced)
    <3>1. Established(t, status[t], client[t], proc, prompts, raced)
      BY <1>0, <1>3 DEF SessionOf
    <3>. QED
      BY <1>0, <1>2, <3>1, ClientGone DEF InTurn
  <2>. QED
    BY <1>1, <1>3, <2>1, <2>2 DEF SessionOf
<1>4. CASE stage[t] = "mode"
  <2>1. Opening(t, status[t], client[t], proc, prompts)
    BY <1>0, <1>4 DEF SessionOf
  <2>2. proc'[<<t, 0>>] # "handshake"
    BY <1>2, <2>1, ProcFacts DEF Opening
  <2>3. Established(t, "absent", NoProc, proc', prompts', raced')
    BY <1>2, <2>1, Lost, ProcFacts DEF Opening, InTurn
  <2>. QED
    BY <1>1, <1>4, <2>2, <2>3 DEF SessionOf
<1>5. CASE stage[t] \notin {"mode", "done"}
  <2>1. client[t] = NoProc /\ NoSession(t, stage[t], status[t], client[t], proc, prompts)
    BY <1>0, <1>5 DEF SessionOf, NoSession
  <2>2. \A j \in Attempt : proc'[<<t, j>>] = proc[<<t, j>>] /\ prompts'[<<t, j>>] = prompts[<<t, j>>]
    BY <1>2, <2>1, ProcFacts
  <2>3. NoSession(t, stage'[t], "absent", NoProc, proc', prompts')
    BY <1>1, <1>5, <2>1, <2>2, ProcFacts DEF NoSession
  <2>. QED
    BY <1>0, <1>1, <1>5, <2>2, <2>3, ProcFacts DEF SessionOf
<1>. QED
  BY <1>3, <1>4, <1>5

LEMMA InitSessions == Init => Sessions
<1>. SUFFICES ASSUME Init, NEW t \in Task
              PROVE  SessionOf(t, stage[t], status[t], client[t], proc, prompts, raced)
  BY DEF Sessions, SessionsOf
<1>1. /\ stage[t] = "none" /\ status[t] = "absent" /\ client[t] = NoProc
      /\ \A j \in Attempt : proc[<<t, j>>] = "unused" /\ prompts[<<t, j>>] = 0
  BY ProcFacts DEF Init
<1>. QED
  BY <1>1, ProcFacts DEF SessionOf, NoSession

LEMMA NextSessions ==
  ASSUME Inv, Sessions, Next
  PROVE  SessionStep
<1>1. CASE Tool
  <2>1. ASSUME NEW n \in 1..MaxLimit, SetLimit(n) PROVE SessionStep
    BY <2>1, OnlyDrains DEF SetLimit, procVars
  <2>2. ASSUME NEW t \in Task, RestartKills(t) PROVE SessionStep
    BY <2>2, NoSessionChanges DEF RestartKills, procVars
  <2>3. ASSUME NEW t \in Task, Restart(t) PROVE SessionStep
    BY <2>3, RestartGoSessions DEF Restart
  <2>. QED
    BY <1>1, <2>1, <2>2, <2>3, DelegateSessions, CancelQueuedSessions, MessageSessions,
       MessageReattachSessions, CancelSessionSessions DEF Tool
<1>2. CASE Continuation
  <2>1. ASSUME NEW t \in Task, Detected(t) PROVE SessionStep
    BY <2>1, OnlyDrains DEF Detected, procVars
  <2>2. ASSUME NEW t \in Task, RestartAfterKill(t) PROVE SessionStep
    BY <2>2, RestartGoSessions DEF RestartAfterKill
  <2>3. ASSUME NEW t \in Task, RestartGivesUp(t) PROVE SessionStep
    BY <2>3, NoSessionChanges DEF RestartGivesUp, procVars
  <2>4. ASSUME NEW p \in Proc, Reattached(p) \/ ReattachFails(p) \/ Dies(p)
        PROVE  SessionStep
    BY <2>4, ProcFacts, ReattachedSessions, ReattachFailsSessions, DiesSessions
  <2>. QED
    BY <1>2, <2>1, <2>2, <2>3, <2>4, DrainWorktreeDoneSessions, ToolWorktreeReadySessions,
       ToolWorktreeFailsSessions, StartFailsSessions, RegisterSessions, ModeSetSessions,
       RecreatedSessions, RecreateFailsSessions DEF Continuation
<1>3. CASE Devin
  <2>1. ASSUME NEW p \in Proc, TurnEnds(p) \/ TurnErrors(p) \/ \E clean \in BOOLEAN : Exits(p, clean)
        PROVE  SessionStep
    BY <2>1, ProcFacts, TurnEndsSessions, TurnErrorsSessions, ExitsSessions
  <2>. QED
    BY <1>3, <2>1, StallSessions, ActivitySessions DEF Devin
<1>4. CASE Shutdown
  BY <1>4, ShutdownSessions
<1>. QED
  BY <1>1, <1>2, <1>3, <1>4 DEF Next

\* The sessions, their clients, processes and prompts agree in every state.
THEOREM SessionInvariance == Spec => []Sessions
<1>1. ASSUME Inv, Sessions, [Next]_vars
      PROVE  Sessions'
  BY <1>1, NextSessions, NoSessionChanges DEF SessionStep, vars
<1>. QED
  BY Invariance, InitSessions, <1>1, PTL DEF Spec

\* Status, prompts, clients and processes agree: a started session in a turn has
\* a prompt outstanding; as long as none of its processes is forgotten it has one
\* exactly in a turn, on its client; its client's process is live, and no other
\* one is unless two messages re-attached the session in parallel.
THEOREM SessionsMatch == Spec => []SessionsMatchTheirProcesses
<1>1. ASSUME Inv, Sessions PROVE SessionsMatchTheirProcesses
  <2>0. \A t \in Task : SessionOf(t, stage[t], status[t], client[t], proc, prompts, raced)
    BY <1>1 DEF Sessions, SessionsOf
  <2>1. TurnMatchesPrompt
    <3>. SUFFICES ASSUME NEW t \in Task, stage[t] = "done", status[t] # "absent"
                  PROVE  LET busy == {i \in 0..MaxReattach : prompts[<<t, i>>] > 0}
                         IN  /\ status[t] \in InTurn => busy # {}
                             /\ Forgotten(t) = {} =>
                                  IF status[t] \in InTurn
                                  THEN \E i \in busy : /\ busy = {i} /\ prompts[<<t, i>>] = 1
                                                       /\ client[t] = <<t, i>>
                                  ELSE busy = {}
      BY DEF TurnMatchesPrompt
    <3>. DEFINE busy == {i \in Attempt : prompts[<<t, i>>] > 0}
    <3>1. Established(t, status[t], client[t], proc, prompts, raced)
      BY <2>0 DEF SessionOf
    <3>2. status[t] \in InTurn => busy # {}
      BY <3>1 DEF Established
    <3>3. Forgotten(t) = {} => Alone(t, client[t], proc)
      BY DEF Forgotten, Alone, Attempt
    <3>4. ASSUME Alone(t, client[t], proc), status[t] \in InTurn
          PROVE  \E i \in busy : busy = {i} /\ prompts[<<t, i>>] = 1 /\ client[t] = <<t, i>>
      <4>1. PICK i \in busy : TRUE
        BY <3>2, <3>4
      <4>2. \A j \in busy : client[t] = <<t, j>>
        BY <3>1, <3>4 DEF Established, Alone
      <4>3. client[t] = <<t, i>> /\ prompts[<<t, i>>] = 1
        BY <3>1, <3>4, <4>2 DEF Established
      <4>4. busy = {i}
        BY <4>2
      <4>. QED
        BY <4>3, <4>4
    <3>5. ASSUME Alone(t, client[t], proc), status[t] \notin InTurn
          PROVE  busy = {}
      <4>1. status[t] \in Settled
        BY <1>1, <3>5, InvParts DEF OthersOK, Status
      <4>. QED
        BY <3>1, <3>5, <4>1 DEF Established
    <3>. QED
      BY <3>2, <3>3, <3>4, <3>5 DEF Attempt
  <2>2. ClientsAreTheLiveProcesses
    <3>. SUFFICES ASSUME NEW t \in Task
                  PROVE  /\ \A i \in Attempt : client[t] = <<t, i>> => proc[<<t, i>>] = "live"
                         /\ t \notin raced =>
                              \A i \in Attempt : proc[<<t, i>>] = "live" => client[t] = <<t, i>>
      BY DEF ClientsAreTheLiveProcesses, Attempt, Forgotten
    <3>1. CASE stage[t] = "done"
      <4>1. Established(t, status[t], client[t], proc, prompts, raced)
        BY <2>0, <3>1 DEF SessionOf
      <4>. QED
        BY <4>1 DEF Established, Alone
    <3>2. CASE stage[t] = "mode"
      <4>1. Opening(t, status[t], client[t], proc, prompts)
        BY <2>0, <3>2 DEF SessionOf
      <4>2. \A i \in Attempt : <<t, 0>> = <<t, i>> <=> i = 0
        OBVIOUS
      <4>. QED
        BY <4>1, <4>2 DEF Opening
    <3>3. CASE stage[t] \notin {"mode", "done"}
      <4>1. NoSession(t, stage[t], status[t], client[t], proc, prompts)
        BY <2>0, <3>3 DEF SessionOf
      <4>. QED
        BY <4>1, ProcFacts DEF NoSession
    <3>. QED
      BY <3>1, <3>2, <3>3
  <2>. QED
    BY <2>1, <2>2 DEF SessionsMatchTheirProcesses
<1>. QED
  BY Invariance, SessionInvariance, <1>1, PTL

\* A cancelled session stays cancelled, whatever its process, its start or its
\* lookups still deliver, until a devin_message gives it a new client; but for
\* the turn of a process that two messages racing each other left forgotten.
THEOREM CancelIsFinal == Spec => CancelIsTerminal
<1>1. ASSUME Inv, Sessions, [Next]_vars
      PROVE  [\A t \in Task : status[t] = "cancelled" /\ status'[t] # "cancelled" =>
                 \/ status'[t] = "absent"
                 \/ client'[t] # client[t] /\ status'[t] = "running"
                 \/ /\ t \in raced /\ status'[t] = "idle"
                    /\ \E i \in Forgotten(t) : prompts'[<<t, i>>] < prompts[<<t, i>>]]_vars
  BY <1>1, NextSessions DEF SessionStep, CancelSticks, MayLeaveCancelled
<1>. QED
  BY Invariance, SessionInvariance, <1>1, PTL DEF Spec, CancelIsTerminal

-----------------------------------------------------------------------------
(* Nobody forgets the queue *)

\* A drain leaves nobody waiting beside a free slot.
LEMMA DrainWakes ==
  ASSUME NEW q, NEW n, NEW st, NEW d, Consistent(q, n, st, d), NEW pr,
         Drain(d, q, n, st, pr), maxRuns' \in Nat
  PROVE  NoLostWakeup'
<1>0. /\ q \in Seq(Task) /\ Len(q) \in Nat /\ n \in Nat
      /\ Cardinality(Active(status')) \in Nat
  BY LenProperties, TasksFinite DEF Consistent, Active
<1>1. CASE d # 0
  BY <1>1 DEF Drain, NoLostWakeup
<1>2. CASE d = 0
  <2>1. PICK k \in 0..Len(q) :
          /\ AdmitsPrefix(k, q, maxRuns' - Cardinality(Active(status')) - n, wt')
          /\ queue' = SubSeq(q, k + 1, Len(q))
          /\ pending' = n + k
          /\ drainTask' = IF k > 0 /\ wt'[q[k]] = "wanted" THEN q[k] ELSE 0
    BY <1>2 DEF Drain
  <2>2. CASE k = Len(q)
    <3>1. SubSeq(q, Len(q) + 1, Len(q)) = <<>>
      BY <1>0
    <3>. QED
      BY <2>1, <2>2, <3>1 DEF NoLostWakeup
  <2>3. CASE k >= maxRuns' - Cardinality(Active(status')) - n
    <3>1. InFlight' >= maxRuns'
      BY <1>0, <2>1, <2>3 DEF InFlight
    <3>. QED
      BY <3>1 DEF NoLostWakeup
  <2>4. CASE k > 0 /\ wt'[q[k]] = "wanted"
    <3>1. drainTask' \in Task
      BY <1>0, <2>1, <2>4, ElementOfSeq
    <3>. QED
      BY <3>1 DEF NoLostWakeup, Task
  <2>. QED
    BY <2>1, <2>2, <2>3, <2>4 DEF AdmitsPrefix
<1>. QED
  BY <1>1, <1>2

\* Steps that take no slot away and free none need no drain.
LEMMA StillAwake ==
  ASSUME Inv, NoLostWakeup,
         queue' # <<>> => queue # <<>>, UNCHANGED <<drainTask, maxRuns, pending>>,
         Active(status) \subseteq Active(status'),
         \A t \in Task : detecting[t] > 0 => detecting'[t] > 0
  PROVE  NoLostWakeup'
<1>1. /\ Active(status') \subseteq Task
      /\ pending \in Nat /\ maxRuns \in Nat
  BY DelegateAssumption DEF Active, Inv, TypeOK
<1>2. /\ Cardinality(Active(status)) <= Cardinality(Active(status'))
      /\ Cardinality(Active(status)) \in Nat /\ Cardinality(Active(status')) \in Nat
  <2>1. IsFiniteSet(Active(status')) /\ Active(status) \subseteq Task
    BY <1>1, TasksFinite
  <2>. QED
    BY <1>1, <2>1, TasksFinite, FS_Subset
<1>3. InFlight >= maxRuns => InFlight' >= maxRuns'
  BY <1>1, <1>2 DEF InFlight
<1>. QED
  BY <1>3 DEF NoLostWakeup

\* An admission at once finds the queue empty; the other drains.
LEMMA AdmissionWakes ==
  ASSUME Inv, NEW t \in Task, stage[t] \notin Starting \cup {"queued"}, NEW s,
         Admission(t, s), maxRuns' \in Nat
  PROVE  NoLostWakeup'
<1>1. CASE MayStartNow
  BY <1>1 DEF Admission, MayStartNow, NoLostWakeup
<1>2. CASE ~ MayStartNow
  <2>1. Consistent(Append(queue, t), pending, [stage EXCEPT ![t] = "queued"], drainTask)
    BY InvParts, Enqueues
  <2>. QED
    BY <1>2, <2>1, DrainWakes DEF Admission
<1>. QED
  BY <1>1, <1>2

\* The turns in flight after a change of the status of one task.
LEMMA ActiveUpdate ==
  ASSUME status \in [Task -> Status], NEW t \in Task, NEW v,
         status' = [status EXCEPT ![t] = v]
  PROVE  /\ v \in InTurn => Active(status') = Active(status) \cup {t}
         /\ v \notin InTurn => Active(status') = Active(status) \ {t}
         /\ (v \in InTurn <=> status[t] \in InTurn) => Active(status') = Active(status)
BY DEF Active

LEMMA NextWakes ==
  ASSUME Inv, Next, NoLostWakeup
  PROVE  NoLostWakeup'
<1>0. /\ Inv' /\ maxRuns' \in Nat /\ maxRuns \in Nat
      /\ Consistent(queue, pending, stage, drainTask)
      /\ status \in [Task -> Status] /\ stage \in [Task -> Stage] /\ detecting \in [Task -> Nat]
  <2>1. Inv'
    BY NextKeeps DEF Keeps
  <2>2. maxRuns' \in 1..MaxLimit /\ maxRuns \in 1..MaxLimit
    BY <2>1 DEF Inv, TypeOK
  <2>. QED
    BY <2>1, <2>2, InvParts, DelegateAssumption DEF OthersOK
<1>1. ASSUME NEW t \in Task, RestartGo(t), UNCHANGED detecting
      PROVE  NoLostWakeup'
  <2>1. invoked + 1 \in Task /\ stage[invoked + 1] = "none"
    BY <1>1, InvParts, DelegateAssumption DEF RestartGo, OthersOK, Task, FreshTasks
  <2>2. CASE Admission(invoked + 1, "spawn")
    BY <1>0, <2>1, <2>2, AdmissionWakes DEF Starting
  <2>3. CASE UNCHANGED <<queue, pending, drainTask, proc>>
    BY <1>1, <2>3, StillAwake DEF RestartGo
  <2>. QED
    BY <1>1, <2>2, <2>3 DEF RestartGo
<1>2. CASE Tool
  <2>1. ASSUME NEW w \in BOOLEAN, Delegate(w) PROVE NoLostWakeup'
    <3>1. invoked + 1 \in Task /\ stage[invoked + 1] = "none"
      BY <2>1, InvParts, DelegateAssumption DEF Delegate, OthersOK, Task, FreshTasks
    <3>. QED
      BY <1>0, <2>1, <3>1, AdmissionWakes DEF Delegate, Starting
  <2>2. ASSUME NEW n \in 1..MaxLimit, SetLimit(n) PROVE NoLostWakeup'
    BY <1>0, <2>2, DrainWakes DEF SetLimit
  <2>3. ASSUME NEW i \in 1..Len(queue), CancelQueued(i) PROVE NoLostWakeup'
    <3>1. queue # <<>>
      BY <2>3
    <3>. QED
      BY <2>3, <3>1, StillAwake DEF CancelQueued
  <2>4. ASSUME NEW t \in Task, Message(t) PROVE NoLostWakeup'
    <3>1. Active(status) \subseteq Active(status')
      BY <1>0, <2>4, ActiveUpdate DEF Message, InTurn
    <3>. QED
      BY <2>4, <3>1, StillAwake DEF Message
  <2>5. ASSUME NEW t \in Task, MessageReattach(t) PROVE NoLostWakeup'
    BY <2>5, StillAwake DEF MessageReattach
  <2>6. ASSUME NEW t \in Task, CancelSession(t) PROVE NoLostWakeup'
    BY <1>0, <2>6, AfterLoss, DrainWakes DEF CancelSession
  <2>7. ASSUME NEW t \in Task, Restart(t) PROVE NoLostWakeup'
    BY <1>1, <2>7 DEF Restart
  <2>8. ASSUME NEW t \in Task, RestartKills(t) PROVE NoLostWakeup'
    BY <2>8, StillAwake DEF RestartKills
  <2>. QED
    BY <1>2, <2>1, <2>2, <2>3, <2>4, <2>5, <2>6, <2>7, <2>8 DEF Tool
<1>3. CASE Continuation
  <2>1. ASSUME NEW made \in BOOLEAN, DrainWorktreeDone(made) PROVE NoLostWakeup'
    <3>1. drainTask \in Task /\ drainTask # 0 /\ stage[drainTask] = "worktree"
      BY <1>0, <2>1, DelegateAssumption DEF DrainWorktreeDone, Consistent, Task
    <3>2. Consistent(queue, pending, stage, 0)
      BY <1>0, DelegateAssumption DEF Consistent
    <3>3. Consistent(queue, pending, [stage EXCEPT ![drainTask] = "spawn"], 0)
      BY <3>1, <3>2, Moves DEF Starting
    <3>. QED
      BY <1>0, <2>1, <3>3, DrainWakes DEF DrainWorktreeDone
  <2>2. ASSUME NEW t \in Task, ToolWorktreeReady(t) PROVE NoLostWakeup'
    BY <2>2, StillAwake DEF ToolWorktreeReady
  <2>3. ASSUME NEW t \in Task, ToolWorktreeFails(t) PROVE NoLostWakeup'
    <3>1. Consistent(queue, pending - 1, [stage EXCEPT ![t] = "failed"], drainTask)
      BY <1>0, <2>3, Leaves DEF ToolWorktreeFails, Awaits, Starting, Stage
    <3>. QED
      BY <1>0, <2>3, <3>1, DrainWakes DEF ToolWorktreeFails, Release
  <2>4. ASSUME NEW t \in Task, StartFails(t) PROVE NoLostWakeup'
    <3>1. Consistent(queue, pending - 1, [stage EXCEPT ![t] = "failed"], drainTask)
      <4>1. stage[t] = "spawn" /\ t # drainTask
        BY <1>0, <2>4 DEF StartFails, Awaits, Consistent, Task
      <4>. QED
        BY <1>0, <4>1, Leaves DEF Starting, Stage
    <3>. QED
      BY <1>0, <2>4, <3>1, DrainWakes DEF StartFails, Release
  <2>5. ASSUME NEW t \in Task, Register(t) PROVE NoLostWakeup'
    <3>1. Active(status) \subseteq Active(status')
      BY <1>0, <2>5, ActiveUpdate DEF Register, InTurn
    <3>. QED
      BY <2>5, <3>1, StillAwake DEF Register
  <2>6. ASSUME NEW t \in Task, ModeSet(t) PROVE NoLostWakeup'
    <3>1. Consistent(queue, pending - 1, [stage EXCEPT ![t] = "done"], drainTask)
      <4>1. stage[t] = "mode" /\ t # drainTask
        BY <1>0, <2>6 DEF ModeSet, Awaits, Consistent, Task
      <4>. QED
        BY <1>0, <4>1, Leaves DEF Starting, Stage
    <3>. QED
      BY <1>0, <2>6, <3>1, DrainWakes DEF ModeSet, Release
  <2>7. ASSUME NEW t \in Task, Detected(t) PROVE NoLostWakeup'
    BY <1>0, <2>7, DrainWakes DEF Detected
  <2>8. ASSUME NEW t \in Task, RestartAfterKill(t) PROVE NoLostWakeup'
    BY <1>1, <2>8 DEF RestartAfterKill
  <2>9. ASSUME NEW t \in Task, RestartGivesUp(t) PROVE NoLostWakeup'
    BY <2>9, StillAwake DEF RestartGivesUp
  <2>10. ASSUME NEW t \in Task, Recreated(t) PROVE NoLostWakeup'
    BY <1>0, <2>10, AdmissionWakes DEF Recreated, Starting
  <2>11. ASSUME NEW t \in Task, RecreateFails(t) PROVE NoLostWakeup'
    BY <2>11, StillAwake DEF RecreateFails
  <2>12. ASSUME NEW p \in Proc, Reattached(p) PROVE NoLostWakeup'
    <3>1. p[1] \in Task
      BY ProcFacts
    <3>2. Active(status) \subseteq Active(status')
      <4>1. status' = [status EXCEPT ![p[1]] = IF status[p[1]] = "absent" THEN "absent" ELSE "running"]
        BY <2>12 DEF Reattached, SetStatus
      <4>. QED
        BY <1>0, <3>1, <4>1, ActiveUpdate DEF InTurn
    <3>. QED
      BY <2>12, <3>2, StillAwake DEF Reattached
  <2>13. ASSUME NEW p \in Proc, ReattachFails(p) \/ Dies(p) PROVE NoLostWakeup'
    BY <2>13, StillAwake DEF ReattachFails, Dies
  <2>. QED
    BY <1>3, <2>1, <2>2, <2>3, <2>4, <2>5, <2>6, <2>7, <2>8, <2>9, <2>10, <2>11, <2>12, <2>13
       DEF Continuation
<1>4. CASE Devin
  <2>1. ASSUME NEW t \in Task, Stall(t) PROVE NoLostWakeup'
    <3>1. Active(status) \subseteq Active(status')
      BY <1>0, <2>1, ActiveUpdate DEF Stall, InTurn
    <3>. QED
      BY <2>1, <3>1, StillAwake DEF Stall
  <2>2. ASSUME NEW p \in Proc, Activity(p) PROVE NoLostWakeup'
    <3>1. Active(status) \subseteq Active(status')
      BY <1>0, <2>2, ActiveUpdate, ProcFacts DEF Activity, InTurn
    <3>. QED
      BY <2>2, <3>1, StillAwake DEF Activity
  <2>3. ASSUME NEW p \in Proc, TurnEnds(p) PROVE NoLostWakeup'
    <3>1. CASE Drain(drainTask, queue, pending, stage, proc)
      BY <1>0, <3>1, DrainWakes
    <3>2. CASE detecting' = [detecting EXCEPT ![p[1]] = @ + 1]
      <4>1. p[1] \in Task /\ detecting'[p[1]] > 0
        BY <1>0, <3>2, ProcFacts
      <4>. QED
        BY <4>1 DEF NoLostWakeup
    <3>. QED
      BY <2>3, <3>1, <3>2 DEF TurnEnds
  <2>4. ASSUME NEW p \in Proc, TurnErrors(p) PROVE NoLostWakeup'
    <3>1. CASE Drain(drainTask, queue, pending, stage, proc)
      BY <1>0, <3>1, DrainWakes
    <3>2. CASE status[p[1]] \notin InTurn /\ UNCHANGED <<queue, pending, drainTask, stage, proc>>
      <4>1. Active(status) \subseteq Active(status')
        BY <1>0, <2>4, <3>2, ActiveUpdate, ProcFacts DEF TurnErrors, SetStatus, AfterReject
      <4>. QED
        BY <2>4, <3>2, <4>1, StillAwake DEF TurnErrors
    <3>. QED
      BY <2>4, <3>1, <3>2 DEF TurnErrors
  <2>5. ASSUME NEW p \in Proc, NEW clean \in BOOLEAN, Exits(p, clean) PROVE NoLostWakeup'
    <3>1. CASE Drain(drainTask, queue, PendingAfterLoss(p[1]), StageAfterLoss(p[1]),
                     [proc EXCEPT ![p] = "dead"])
      BY <1>0, <3>1, AfterLoss, DrainWakes, ProcFacts
    <3>2. CASE status[p[1]] \notin InTurn /\ UNCHANGED <<queue, pending, drainTask, stage>>
      <4>1. Active(status) \subseteq Active(status')
        BY <1>0, <2>5, <3>2, ActiveUpdate, ProcFacts DEF Exits, SetStatus, AfterReject
      <4>. QED
        BY <2>5, <3>2, <4>1, StillAwake DEF Exits
    <3>. QED
      BY <2>5, <3>1, <3>2 DEF Exits
  <2>. QED
    BY <1>4, <2>1, <2>2, <2>3, <2>4, <2>5 DEF Devin
<1>5. CASE Shutdown
  BY <1>5 DEF Shutdown, NoLostWakeup
<1>. QED
  BY <1>2, <1>3, <1>4, <1>5 DEF Next

\* When tasks wait and no drain is in progress, every slot is taken, or a
\* finished turn still looks for its pull request and drains afterwards.
THEOREM QueueIsNotForgotten == Spec => []NoLostWakeup
<1>1. Init => NoLostWakeup
  BY DEF Init, NoLostWakeup
<1>2. ASSUME Inv, NoLostWakeup, [Next]_vars
      PROVE  NoLostWakeup'
  <2>1. CASE UNCHANGED vars
    BY <1>2, <2>1 DEF vars, NoLostWakeup, InFlight, Active
  <2>. QED
    BY <1>2, <2>1, NextWakes
<1>. QED
  BY Invariance, <1>1, <1>2, PTL DEF Spec

-----------------------------------------------------------------------------
(* The abstract promise: AdmissionQueue *)

\* The tasks that have come to the line.
SeenOf(st) == {t \in Task : st[t] \notin {"none", "recreate"}}

\* Tasks served before the line moves up, once the stages are st.
ServedOf(st) == HoldingOf(st) \cup Active(status')

\* The promise counts as this module does.
LEMMA SameCardinality ==
  ASSUME NEW S
  PROVE  Promise!Cardinality(S) = Cardinality(S)
BY DEF Promise!Cardinality, Cardinality

\* A drain moves the front of the line into service, within the limit.
LEMMA DrainFills ==
  ASSUME NEW q, NEW n, NEW st, NEW d, Consistent(q, n, st, d),
         NEW pr \in [Proc -> ProcState], Drain(d, q, n, st, pr), maxRuns' \in Nat
  PROVE  /\ Promise!Fill(q, ServedOf(st))
         /\ SeenOf(stage') = SeenOf(st)
<1>0. /\ q \in Seq(Task) /\ Len(q) \in Nat
      /\ \A i \in 1..Len(q) : q[i] \in Task /\ st[q[i]] = "queued"
  BY LenProperties, ElementOfSeq DEF Consistent, Queued
<1>1. /\ Engaged' = HoldingOf(stage') \cup Active(status')
      /\ Consistent(queue', pending', stage', drainTask')
      /\ \/ HoldingOf(stage') = HoldingOf(st)
         \/ Cardinality(Active(status')) + pending' <= maxRuns'
  BY DrainStep DEF Engaged, Holding, HoldingOf
<1>2. PICK k \in 0..Len(q) :
        /\ queue' = SubSeq(q, k + 1, Len(q))
        /\ HoldingOf(stage') = HoldingOf(st) \cup {q[i] : i \in 1..k}
        /\ SeenOf(stage') = SeenOf(st)
  <2>1. CASE d # 0
    <3>1. queue' = q /\ stage' = st
      BY <2>1 DEF Drain
    <3>2. 0 \in 0..Len(q) /\ SubSeq(q, 0 + 1, Len(q)) = q
      BY <1>0, SubSeqFull
    <3>3. {q[i] : i \in 1..0} = {}
      OBVIOUS
    <3>. QED
      BY <3>1, <3>2, <3>3
  <2>2. CASE d = 0
    <3>1. PICK k \in 0..Len(q) :
            /\ queue' = SubSeq(q, k + 1, Len(q))
            /\ stage' = [t \in Task |->
                            IF t \notin {q[i] : i \in 1..k} THEN st[t]
                            ELSE IF wt'[t] = "wanted" THEN "worktree" ELSE "spawn"]
      BY <2>2 DEF Drain
    <3>. DEFINE P == {q[i] : i \in 1..k}
    <3>2. \A t \in P : t \in Task /\ st[t] = "queued"
      BY <1>0
    <3>3. \A t \in Task : stage'[t] = IF t \notin P THEN st[t]
                                      ELSE IF wt'[t] = "wanted" THEN "worktree" ELSE "spawn"
      BY <3>1
    <3>. HIDE DEF P
    <3>4. HoldingOf(stage') = HoldingOf(st) \cup P
      BY <3>2, <3>3 DEF HoldingOf, Starting
    <3>5. SeenOf(stage') = SeenOf(st)
      BY <3>2, <3>3 DEF SeenOf
    <3>. QED
      BY <3>1, <3>4, <3>5 DEF P
  <2>. QED
    BY <2>1, <2>2
<1>3. Engaged' = ServedOf(st) \cup {q[i] : i \in 1..k}
  BY <1>1, <1>2 DEF ServedOf
<1>4. k > 0 => Cardinality(Engaged') <= maxRuns'
  <2>. SUFFICES ASSUME k > 0
                PROVE  Cardinality(Engaged') <= maxRuns'
    OBVIOUS
  <2>1. q[1] \in HoldingOf(stage') /\ q[1] \notin HoldingOf(st)
    BY <1>0, <1>2 DEF HoldingOf, Starting
  <2>2. HoldingOf(stage') \subseteq Task /\ Active(status') \subseteq Task
    BY DEF HoldingOf, Active
  <2>3. /\ Cardinality(HoldingOf(stage')) \in Nat /\ Cardinality(Active(status')) \in Nat
        /\ Cardinality(HoldingOf(stage') \cup Active(status')) \in Nat
        /\ Cardinality(HoldingOf(stage') \cup Active(status'))
              <= Cardinality(HoldingOf(stage')) + Cardinality(Active(status'))
    BY <2>2, UnionCardinality, TasksFinite
  <2>4. pending' = Cardinality(HoldingOf(stage'))
    BY <1>1 DEF Consistent
  <2>. QED
    BY <1>1, <2>1, <2>3, <2>4
<1>5. Promise!Enter(q, ServedOf(st), k)
  BY <1>2, <1>3, <1>4, SameCardinality DEF Promise!Enter
<1>. QED
  BY <1>2, <1>5 DEF Promise!Fill

\* Nobody moves up.
LEMMA NobodyEnters ==
  ASSUME NEW base, queue \in Seq(Task), UNCHANGED queue, Engaged' = base
  PROVE  Promise!Fill(queue, base)
<1>1. /\ 0 \in 0..Len(queue) /\ SubSeq(queue, 0 + 1, Len(queue)) = queue
      /\ {queue[i] : i \in 1..0} = {}
  BY LenProperties, SubSeqFull
<1>. QED
  BY <1>1 DEF Promise!Fill, Promise!Enter

Seen == SeenOf(stage)

\* Steps that change nothing the promise speaks of, or only end service.
LEMMA OnlyLeave ==
  ASSUME Inv, UNCHANGED <<queue, maxRuns>>, Seen' = Seen, Engaged' \subseteq Engaged
  PROVE  Promise!Next
<1>. DEFINE gone == Engaged \ Engaged'
<1>1. gone \in SUBSET Engaged /\ Engaged \ gone = Engaged'
  OBVIOUS
<1>2. Promise!Fill(queue, Engaged')
  BY NobodyEnters DEF Inv, TypeOK
<1>3. Promise!Leave(gone)
  BY <1>1, <1>2 DEF Promise!Leave, Seen, SeenOf
<1>. QED
  BY <1>1, <1>3 DEF Promise!Next

\* Steps that end service and drain.
LEMMA LeaveAndFill ==
  ASSUME Inv, NEW n, NEW st, NEW d, Consistent(queue, n, st, d),
         NEW pr \in [Proc -> ProcState], Drain(d, queue, n, st, pr),
         UNCHANGED maxRuns, SeenOf(st) = Seen,
         HoldingOf(st) \subseteq HoldingOf(stage), Active(status') \subseteq Engaged
  PROVE  Promise!Next
<1>. DEFINE gone == Engaged \ ServedOf(st)
<1>1. gone \in SUBSET Engaged /\ Engaged \ gone = ServedOf(st)
  BY DEF ServedOf, Engaged, Holding, HoldingOf
<1>2. maxRuns' \in Nat
  BY DelegateAssumption DEF Inv, TypeOK
<1>3. Promise!Fill(queue, ServedOf(st)) /\ SeenOf(stage') = SeenOf(st)
  BY <1>2, DrainFills
<1>4. Promise!Leave(gone)
  BY <1>1, <1>3 DEF Promise!Leave, Seen, SeenOf
<1>. QED
  BY <1>1, <1>4 DEF Promise!Next

\* A started session is given another turn.
LEMMA ReturnStep ==
  ASSUME Inv, NEW t \in Task, stage[t] = "done", status[t] \notin InTurn,
         UNCHANGED <<queue, maxRuns, stage>>, Active(status') = Active(status) \cup {t}
  PROVE  Promise!Next
<1>1. t \in Seen \ Engaged
  BY DEF Seen, SeenOf, Engaged, Holding, Active, Starting
<1>2. \A i \in 1..Len(queue) : queue[i] # t
  BY DEF Inv, Consistent, Queued
<1>3. Engaged' = Engaged \cup {t}
  BY DEF Engaged, Holding
<1>4. Promise!Return(t)
  BY <1>1, <1>2, <1>3 DEF Promise!Return, Seen, SeenOf
<1>. QED
  BY <1>4 DEF Promise!Next

\* An admission is an arrival at the line.
LEMMA ArriveStep ==
  ASSUME Inv, NEW t \in Task, stage[t] \in {"none", "recreate"},
         NEW s \in {"worktree", "spawn"}, Admission(t, s), UNCHANGED <<status, maxRuns>>
  PROVE  Promise!Next
<1>0. /\ stage \in [Task -> Stage] /\ queue \in Seq(Task) /\ Len(queue) \in Nat
      /\ proc \in [Proc -> ProcState] /\ maxRuns' \in Nat
      /\ Consistent(queue, pending, stage, drainTask)
  BY LenProperties, DelegateAssumption DEF Inv, TypeOK
<1>1. t \notin Seen
  BY DEF Seen, SeenOf
<1>2. Promise!Fill(Append(queue, t), Engaged) /\ Seen' = Seen \cup {t}
  <2>1. CASE MayStartNow
    <3>1. queue = <<>> /\ stage' = [stage EXCEPT ![t] = s] /\ UNCHANGED queue
      BY <2>1 DEF Admission, MayStartNow
    <3>. DEFINE q == Append(queue, t)
    <3>2. q = <<t>> /\ Len(q) = 1 /\ q[1] = t
      BY <3>1
    <3>3. SubSeq(q, 1 + 1, 1) = <<>>
      BY <3>2
    <3>4. Engaged' = Engaged \cup {q[i] : i \in 1..1}
      BY <1>0, <3>1, <3>2 DEF Engaged, Holding, Starting
    <3>5. Cardinality(Engaged') <= maxRuns'
      <4>1. Bookkept
        BY Admitted DEF Starting
      <4>2. t \in HoldingOf(stage') /\ t \notin HoldingOf(stage)
        BY <1>0, <3>1 DEF HoldingOf, Starting
      <4>3. /\ Cardinality(Active(status')) + pending' <= maxRuns'
            /\ pending' = Cardinality(HoldingOf(stage'))
        BY <4>1, <4>2 DEF Bookkept, WithinLimit, Consistent
      <4>4. HoldingOf(stage') \subseteq Task /\ Active(status') \subseteq Task
        BY DEF HoldingOf, Active
      <4>5. /\ Cardinality(HoldingOf(stage')) \in Nat /\ Cardinality(Active(status')) \in Nat
            /\ Cardinality(HoldingOf(stage') \cup Active(status')) \in Nat
            /\ Cardinality(HoldingOf(stage') \cup Active(status'))
                  <= Cardinality(HoldingOf(stage')) + Cardinality(Active(status'))
        BY <4>4, UnionCardinality, TasksFinite
      <4>6. Engaged' = HoldingOf(stage') \cup Active(status')
        BY DEF Engaged, Holding, HoldingOf
      <4>. QED
        BY <1>0, <4>3, <4>5, <4>6
    <3>6. Seen' = Seen \cup {t}
      BY <1>0, <3>1 DEF Seen, SeenOf
    <3>7. Promise!Enter(q, Engaged, 1)
      <4>1. queue' = SubSeq(q, 1 + 1, Len(q))
        BY <3>1, <3>2, <3>3
      <4>. HIDE DEF q
      <4>. QED
        BY <4>1, <3>4, <3>5, SameCardinality DEF Promise!Enter
    <3>8. 1 \in 0..Len(q)
      BY <3>2
    <3>. HIDE DEF q
    <3>. QED
      BY <3>6, <3>7, <3>8 DEF Promise!Fill, q
  <2>2. CASE ~ MayStartNow
    <3>. DEFINE st == [stage EXCEPT ![t] = "queued"]
                q == Append(queue, t)
    <3>1. Drain(drainTask, q, pending, st, proc)
      BY <2>2 DEF Admission
    <3>2. Consistent(q, pending, st, drainTask)
      BY <1>0, Enqueues DEF Starting
    <3>3. SeenOf(st) = Seen \cup {t} /\ ServedOf(st) = Engaged
      BY <1>0 DEF SeenOf, Seen, ServedOf, HoldingOf, Engaged, Holding, Starting, Active
    <3>. HIDE DEF st, q
    <3>4. Promise!Fill(q, ServedOf(st)) /\ SeenOf(stage') = SeenOf(st)
      BY <1>0, <3>1, <3>2, DrainFills
    <3>. QED
      BY <3>3, <3>4 DEF Seen, q
  <2>. QED
    BY <2>1, <2>2
<1>3. Promise!Arrive(t)
  BY <1>1, <1>2 DEF Promise!Arrive, Seen, SeenOf
<1>. QED
  BY <1>3 DEF Promise!Next

\* A task that came to the line and whose start ends has still come to it.
LEMMA SeenEnds ==
  ASSUME stage \in [Task -> Stage], NEW t \in Task, stage[t] \notin {"none", "recreate"},
         NEW s, s \notin {"none", "recreate"}
  PROVE  SeenOf([stage EXCEPT ![t] = s]) = Seen
BY DEF SeenOf, Seen

\* A status that is no new turn adds nobody to the tasks served.
LEMMA NoNewTurn ==
  ASSUME status \in [Task -> Status], NEW t \in Task, NEW v,
         status' = [status EXCEPT ![t] = v], v \in InTurn => status[t] \in InTurn
  PROVE  Active(status') \subseteq Engaged
BY DEF Active, Engaged

LEMMA RestartGoRefines ==
  ASSUME Inv, NEW t \in Task, RestartGo(t)
  PROVE  Promise!Next
<1>1. invoked + 1 \in Task /\ stage[invoked + 1] = "none" /\ UNCHANGED <<status, maxRuns>>
  BY InvParts, DelegateAssumption DEF RestartGo, OthersOK, Task, FreshTasks
<1>2. CASE Admission(invoked + 1, "spawn")
  BY <1>1, <1>2, ArriveStep
<1>3. CASE /\ stage' = [stage EXCEPT ![invoked + 1] = "recreate"]
           /\ UNCHANGED <<queue, pending, drainTask, proc>>
  <2>1. Seen' = Seen /\ Engaged' = Engaged
    BY <1>1, <1>3, InvParts DEF Seen, SeenOf, Engaged, Holding, Starting
  <2>. QED
    BY <1>1, <1>3, <2>1, OnlyLeave
<1>. QED
  BY <1>2, <1>3 DEF RestartGo

\* The end of a start whose stage becomes s.
LEMMA StartEnds ==
  ASSUME Inv, NEW t \in Task, stage[t] \in Starting, t # drainTask,
         NEW s \in {"failed", "done"}, NEW pr \in [Proc -> ProcState],
         Drain(drainTask, queue, Release, [stage EXCEPT ![t] = s], pr),
         UNCHANGED <<status, maxRuns>>
  PROVE  Promise!Next
<1>. DEFINE st == [stage EXCEPT ![t] = s]
<1>1. Consistent(queue, Release, st, drainTask)
  BY InvParts, Leaves DEF Starting, Stage, Release
<1>2. SeenOf(st) = Seen /\ HoldingOf(st) \subseteq HoldingOf(stage)
  BY InvParts, SeenEnds DEF Starting, HoldingOf
<1>3. Active(status') \subseteq Engaged
  BY DEF Engaged
<1>. HIDE DEF st
<1>4. Drain(drainTask, queue, Release, st, pr)
  BY DEF st
<1>. QED
  BY <1>1, <1>2, <1>3, <1>4, LeaveAndFill

\* Steps on one session that may end its turn, and its start with it.
LEMMA LossEnds ==
  ASSUME Inv, NEW t \in Task, NEW v, status' = [status EXCEPT ![t] = v],
         v \in InTurn => status[t] \in InTurn, NEW pr \in [Proc -> ProcState],
         Drain(drainTask, queue, PendingAfterLoss(t), StageAfterLoss(t), pr),
         UNCHANGED maxRuns
  PROVE  Promise!Next
<1>1. /\ Consistent(queue, PendingAfterLoss(t), StageAfterLoss(t), drainTask)
      /\ HoldingOf(StageAfterLoss(t)) \subseteq HoldingOf(stage)
  BY AfterLoss
<1>2. SeenOf(StageAfterLoss(t)) = Seen
  BY InvParts, SeenEnds DEF StageAfterLoss, Seen
<1>3. Active(status') \subseteq Engaged
  BY InvParts, NoNewTurn DEF OthersOK
<1>. QED
  BY <1>1, <1>2, <1>3, LeaveAndFill

\* Steps that leave the queue, the limit and the stages alone.
LEMMA TurnOnly ==
  ASSUME Inv, UNCHANGED <<queue, maxRuns, stage>>, Active(status') \subseteq Engaged
  PROVE  Promise!Next
<1>1. Seen' = Seen /\ Engaged' \subseteq Engaged
  BY DEF Seen, Engaged, Holding
<1>. QED
  BY <1>1, OnlyLeave

LEMMA ToolRefines ==
  ASSUME Inv, Sessions, Tool
  PROVE  Promise!Next
<1>0. /\ Consistent(queue, pending, stage, drainTask) /\ proc \in [Proc -> ProcState]
      /\ status \in [Task -> Status] /\ stage \in [Task -> Stage]
  BY InvParts DEF OthersOK
<1>1. ASSUME NEW w \in BOOLEAN, Delegate(w) PROVE Promise!Next
  <2>1. invoked + 1 \in Task /\ stage[invoked + 1] = "none"
    BY <1>1, InvParts, DelegateAssumption DEF Delegate, OthersOK, Task, FreshTasks
  <2>. QED
    BY <1>1, <2>1, ArriveStep DEF Delegate
<1>2. ASSUME NEW n \in 1..MaxLimit, SetLimit(n) PROVE Promise!Next
  <2>1. maxRuns' = n /\ maxRuns' \in Nat /\ UNCHANGED status
    BY <1>2, DelegateAssumption DEF SetLimit
  <2>2. Promise!Fill(queue, ServedOf(stage)) /\ SeenOf(stage') = SeenOf(stage)
    BY <1>0, <1>2, <2>1, DrainFills DEF SetLimit
  <2>3. ServedOf(stage) = Engaged
    BY <2>1 DEF ServedOf, HoldingOf, Engaged, Holding, Active
  <2>4. Promise!Resize(n)
    BY <2>1, <2>2, <2>3 DEF Promise!Resize, SeenOf
  <2>. QED
    BY <2>4 DEF Promise!Next
<1>3. ASSUME NEW i \in 1..Len(queue), CancelQueued(i) PROVE Promise!Next
  <2>1. queue[i] \in Task /\ stage[queue[i]] = "queued"
    BY <1>0, ElementOfSeq DEF Consistent, Queued
  <2>2. Seen' = Seen /\ Engaged' = Engaged
    BY <1>0, <1>3, <2>1 DEF CancelQueued, Seen, SeenOf, Engaged, Holding, Starting
  <2>3. Promise!Withdraw(i)
    BY <1>3, <2>2 DEF Promise!Withdraw, CancelQueued, Spliced, Seen, SeenOf
  <2>. QED
    BY <2>3 DEF Promise!Next
<1>4. ASSUME NEW t \in Task, Message(t) PROVE Promise!Next
  <2>1. /\ status[t] \in Settled /\ status' = [status EXCEPT ![t] = "running"]
        /\ UNCHANGED <<queue, maxRuns, stage>>
    BY <1>4 DEF Message, MessageAccepted
  <2>2. SessionOf(t, stage[t], status[t], client[t], proc, prompts, raced)
    BY DEF Sessions, SessionsOf
  <2>3. stage[t] = "done" /\ status[t] \notin InTurn
    BY <2>1, <2>2 DEF SessionOf, NoSession, Opening, Settled, InTurn
  <2>4. Active(status') = Active(status) \cup {t}
    BY <1>0, <2>1, ActiveUpdate DEF InTurn
  <2>. QED
    BY <2>1, <2>3, <2>4, ReturnStep
<1>5. ASSUME NEW t \in Task, MessageReattach(t) \/ RestartKills(t) PROVE Promise!Next
  <2>1. UNCHANGED <<queue, maxRuns, stage, status>>
    BY <1>5 DEF MessageReattach, RestartKills
  <2>. QED
    BY <2>1, TurnOnly DEF Engaged
<1>6. ASSUME NEW t \in Task, CancelSession(t) PROVE Promise!Next
  <2>. DEFINE pr == IF client[t] = NoProc THEN proc ELSE [proc EXCEPT ![client[t]] = "dying"]
  <2>1. pr \in [Proc -> ProcState]
    BY <1>0 DEF ProcState
  <2>2. /\ status' = [status EXCEPT ![t] = "cancelled"] /\ UNCHANGED maxRuns
        /\ Drain(drainTask, queue, PendingAfterLoss(t), StageAfterLoss(t), pr)
    BY <1>6 DEF CancelSession, AfterReject, InTurn
  <2>. HIDE DEF pr
  <2>. QED
    BY <2>1, <2>2, LossEnds DEF InTurn
<1>7. ASSUME NEW t \in Task, Restart(t) PROVE Promise!Next
  BY <1>7, RestartGoRefines DEF Restart
<1>. QED
  BY <1>1, <1>2, <1>3, <1>4, <1>5, <1>6, <1>7 DEF Tool

LEMMA ContinuationRefines ==
  ASSUME Inv, Sessions, Continuation
  PROVE  Promise!Next
<1>0. /\ Consistent(queue, pending, stage, drainTask) /\ proc \in [Proc -> ProcState]
      /\ status \in [Task -> Status] /\ stage \in [Task -> Stage]
  BY InvParts DEF OthersOK
<1>1. ASSUME NEW made \in BOOLEAN, DrainWorktreeDone(made) PROVE Promise!Next
  <2>. DEFINE st == [stage EXCEPT ![drainTask] = "spawn"]
              pr == [proc EXCEPT ![<<drainTask, 0>>] = "handshake"]
  <2>1. drainTask \in Task /\ drainTask # 0 /\ stage[drainTask] = "worktree"
    BY <1>0, <1>1, DelegateAssumption DEF DrainWorktreeDone, Consistent, Task
  <2>2. Consistent(queue, pending, stage, 0)
    BY <1>0, DelegateAssumption DEF Consistent
  <2>3. Consistent(queue, pending, st, 0)
    BY <2>1, <2>2, Moves DEF Starting
  <2>4. pr \in [Proc -> ProcState]
    BY <1>0 DEF ProcState
  <2>5. SeenOf(st) = Seen /\ HoldingOf(st) \subseteq HoldingOf(stage)
    BY <1>0, <2>1, SeenEnds DEF HoldingOf, Starting
  <2>6. Drain(0, queue, pending, st, pr) /\ UNCHANGED <<status, maxRuns>>
    BY <1>1 DEF DrainWorktreeDone
  <2>7. Active(status') \subseteq Engaged
    BY <2>6 DEF Engaged
  <2>. HIDE DEF st, pr
  <2>. QED
    BY <2>3, <2>4, <2>5, <2>6, <2>7, LeaveAndFill
<1>2. ASSUME NEW t \in Task, ToolWorktreeReady(t) PROVE Promise!Next
  <2>1. Seen' = Seen /\ Engaged' = Engaged /\ UNCHANGED <<queue, maxRuns>>
    BY <1>0, <1>2 DEF ToolWorktreeReady, Awaits, Seen, SeenOf, Engaged, Holding, Starting
  <2>. QED
    BY <2>1, OnlyLeave
<1>3. ASSUME NEW t \in Task, ToolWorktreeFails(t) PROVE Promise!Next
  BY <1>0, <1>3, StartEnds DEF ToolWorktreeFails, Awaits, Starting
<1>4. ASSUME NEW t \in Task, StartFails(t) PROVE Promise!Next
  <2>1. stage[t] = "spawn" /\ t # drainTask
    BY <1>0, <1>4 DEF StartFails, Awaits, Consistent, Task
  <2>2. [proc EXCEPT ![<<t, 0>>] = "dying"] \in [Proc -> ProcState]
    BY <1>0 DEF ProcState
  <2>. QED
    BY <1>4, <2>1, <2>2, StartEnds DEF StartFails, Starting
<1>5. ASSUME NEW t \in Task, Register(t) PROVE Promise!Next
  <2>1. Active(status') = Active(status) \cup {t}
    BY <1>0, <1>5, ActiveUpdate DEF Register, InTurn
  <2>2. Seen' = Seen /\ Engaged' = Engaged /\ UNCHANGED <<queue, maxRuns>>
    BY <1>0, <1>5, <2>1 DEF Register, Awaits, Seen, SeenOf, Engaged, Holding, Starting
  <2>. QED
    BY <2>2, OnlyLeave
<1>6. ASSUME NEW t \in Task, ModeSet(t) PROVE Promise!Next
  <2>1. stage[t] = "mode" /\ t # drainTask
    BY <1>0, <1>6 DEF ModeSet, Awaits, Consistent, Task
  <2>. QED
    BY <1>0, <1>6, <2>1, StartEnds DEF ModeSet, Starting
<1>7. ASSUME NEW t \in Task, Detected(t) PROVE Promise!Next
  <2>1. Active(status') \subseteq Engaged
    BY <1>7 DEF Detected, Engaged
  <2>. QED
    BY <1>0, <1>7, <2>1, LeaveAndFill DEF Detected, Seen
<1>8. ASSUME NEW t \in Task, RestartAfterKill(t) PROVE Promise!Next
  BY <1>8, RestartGoRefines DEF RestartAfterKill
<1>9. ASSUME NEW t \in Task, RestartGivesUp(t) PROVE Promise!Next
  <2>1. UNCHANGED <<queue, maxRuns, stage, status>>
    BY <1>9 DEF RestartGivesUp
  <2>. QED
    BY <2>1, TurnOnly DEF Engaged
<1>10. ASSUME NEW t \in Task, Recreated(t) PROVE Promise!Next
  BY <1>10, ArriveStep DEF Recreated
<1>11. ASSUME NEW t \in Task, RecreateFails(t) PROVE Promise!Next
  <2>1. /\ t \notin Seen /\ Seen' = Seen \cup {t} /\ Engaged' = Engaged
        /\ UNCHANGED <<queue, maxRuns>>
    BY <1>0, <1>11 DEF RecreateFails, Seen, SeenOf, Engaged, Holding, Starting
  <2>2. Promise!Refuse(t)
    BY <2>1 DEF Promise!Refuse, Seen, SeenOf
  <2>. QED
    BY <2>2 DEF Promise!Next
<1>12. ASSUME NEW t \in Task, NEW i \in Attempt, Reattached(<<t, i>>) PROVE Promise!Next
  <2>1. /\ proc[<<t, i>>] = "handshake" /\ i # 0 /\ UNCHANGED <<queue, maxRuns, stage>>
        /\ status' = [status EXCEPT ![t] = IF status[t] = "absent" THEN "absent" ELSE "running"]
    BY <1>12, ProcFacts DEF Reattached, SetStatus
  <2>2. SessionOf(t, stage[t], status[t], client[t], proc, prompts, raced)
    BY DEF Sessions, SessionsOf
  <2>3. stage[t] = "done"
    BY <2>1, <2>2 DEF SessionOf, NoSession, Opening
  <2>4. CASE status[t] \in InTurn \/ status[t] = "absent"
    <3>1. Active(status') = Active(status)
      BY <1>0, <2>1, <2>4, ActiveUpdate DEF InTurn
    <3>. QED
      BY <2>1, <3>1, TurnOnly DEF Engaged
  <2>5. CASE ~ (status[t] \in InTurn \/ status[t] = "absent")
    <3>1. Active(status') = Active(status) \cup {t}
      BY <1>0, <2>1, <2>5, ActiveUpdate DEF InTurn
    <3>. QED
      BY <2>1, <2>3, <2>5, <3>1, ReturnStep
  <2>. QED
    BY <2>4, <2>5
<1>13. ASSUME NEW p \in Proc, ReattachFails(p) \/ Dies(p) PROVE Promise!Next
  <2>1. UNCHANGED <<queue, maxRuns, stage, status>>
    BY <1>13 DEF ReattachFails, Dies
  <2>. QED
    BY <2>1, TurnOnly DEF Engaged
<1>14. ASSUME NEW p \in Proc, Reattached(p) PROVE Promise!Next
  BY <1>12, <1>14, ProcFacts
<1>. QED
  BY <1>1, <1>2, <1>3, <1>4, <1>5, <1>6, <1>7, <1>8, <1>9, <1>10, <1>11, <1>13, <1>14
     DEF Continuation

LEMMA DevinRefines ==
  ASSUME Inv, Sessions, Devin
  PROVE  Promise!Next
<1>0. /\ Consistent(queue, pending, stage, drainTask) /\ proc \in [Proc -> ProcState]
      /\ status \in [Task -> Status] /\ stage \in [Task -> Stage]
      /\ \A p \in Proc : p[1] \in Task
  BY InvParts, ProcFacts DEF OthersOK
<1>1. ASSUME NEW t \in Task, Stall(t) PROVE Promise!Next
  <2>1. Active(status') \subseteq Engaged
    BY <1>0, <1>1, NoNewTurn DEF Stall, InTurn
  <2>. QED
    BY <1>1, <2>1, TurnOnly DEF Stall
<1>2. ASSUME NEW p \in Proc, Activity(p) PROVE Promise!Next
  <2>1. Active(status') \subseteq Engaged
    BY <1>0, <1>2, NoNewTurn DEF Activity, InTurn
  <2>. QED
    BY <1>2, <2>1, TurnOnly DEF Activity
<1>3. ASSUME NEW p \in Proc, NEW v, status' = [status EXCEPT ![p[1]] = v],
             v \in InTurn => status[p[1]] \in InTurn, UNCHANGED maxRuns,
             \/ Drain(drainTask, queue, pending, stage, proc)
             \/ UNCHANGED <<queue, stage>>
      PROVE  Promise!Next
  <2>1. Active(status') \subseteq Engaged
    BY <1>0, <1>3, NoNewTurn
  <2>. QED
    BY <1>0, <1>3, <2>1, TurnOnly, LeaveAndFill DEF Seen
<1>4. ASSUME NEW p \in Proc, TurnEnds(p) PROVE Promise!Next
  <2>. DEFINE v == IF status[p[1]] = "absent" THEN "absent" ELSE "idle"
  <2>1. /\ status' = [status EXCEPT ![p[1]] = v] /\ v \notin InTurn /\ UNCHANGED maxRuns
        /\ \/ Drain(drainTask, queue, pending, stage, proc)
           \/ UNCHANGED <<queue, stage>>
    BY <1>4 DEF TurnEnds, SetStatus, InTurn
  <2>. HIDE DEF v
  <2>. QED
    BY <1>3, <2>1
<1>5. ASSUME NEW p \in Proc, TurnErrors(p) PROVE Promise!Next
  <2>. DEFINE v == IF status[p[1]] = "absent" THEN "absent"
                   ELSE AfterReject(status[p[1]], prompts[p])
  <2>1. /\ status' = [status EXCEPT ![p[1]] = v] /\ UNCHANGED maxRuns
        /\ v \in InTurn => status[p[1]] \in InTurn
        /\ \/ Drain(drainTask, queue, pending, stage, proc)
           \/ UNCHANGED <<queue, stage>>
    BY <1>5 DEF TurnErrors, SetStatus, InTurn, AfterReject
  <2>. HIDE DEF v
  <2>. QED
    BY <1>3, <2>1
<1>6. ASSUME NEW p \in Proc, NEW clean \in BOOLEAN, Exits(p, clean) PROVE Promise!Next
  <2>. DEFINE t == p[1]
              s == IF status[t] \in InTurn THEN IF clean THEN "idle" ELSE "interrupted"
                   ELSE status[t]
              v == IF status[t] = "absent" THEN "absent" ELSE AfterReject(s, prompts[p])
              pr == [proc EXCEPT ![p] = "dead"]
  <2>1. /\ status' = [status EXCEPT ![t] = v] /\ UNCHANGED maxRuns
        /\ v \in InTurn => status[t] \in InTurn
        /\ \/ Drain(drainTask, queue, PendingAfterLoss(t), StageAfterLoss(t), pr)
           \/ UNCHANGED <<queue, stage>>
    BY <1>6 DEF Exits, SetStatus, InTurn, AfterReject
  <2>2. pr \in [Proc -> ProcState] /\ t \in Task
    BY <1>0 DEF ProcState
  <2>3. Active(status') \subseteq Engaged
    <3>. HIDE DEF v
    <3>. QED
      BY <1>0, <2>1, <2>2, NoNewTurn
  <2>. HIDE DEF t, v, pr
  <2>. QED
    BY <2>1, <2>2, <2>3, TurnOnly, LossEnds
<1>. QED
  BY <1>1, <1>2, <1>4, <1>5, <1>6 DEF Devin

LEMMA ShutdownRefines ==
  ASSUME Inv, Shutdown
  PROVE  Promise!Next
<1>. DEFINE gone == Engaged \ Engaged'
<1>1. Seen' = Seen /\ Engaged' \subseteq Engaged
  BY InvParts DEF Shutdown, Seen, SeenOf, Engaged, Holding, Active, Starting, InTurn
<1>2. gone \in SUBSET Engaged /\ Engaged' = Engaged \ gone
  BY <1>1
<1>. HIDE DEF gone
<1>3. Promise!Close(gone)
  BY <1>1, <1>2 DEF Promise!Close, Shutdown, Seen, SeenOf
<1>. QED
  BY <1>2, <1>3 DEF Promise!Next

\* The extension implements the abstract promise: a line served in the order of
\* arrival, within the limit, whatever the starts, the turns and the processes do.
THEOREM ImplementsThePromise == Spec => ImplementsAdmission
<1>1. Init => Promise!Init
  <2>. SUFFICES ASSUME Init PROVE Promise!Init
    OBVIOUS
  <2>1. Engaged = {} /\ {t \in Task : stage[t] \notin {"none", "recreate"}} = {}
    BY DEF Init, Engaged, Holding, Active, Starting, InTurn
  <2>. QED
    BY <2>1 DEF Init, Promise!Init
<1>2. ASSUME Inv, Sessions, [Next]_vars
      PROVE  [Promise!Next]_Promise!vars
  <2>1. CASE Next
    BY <1>2, <2>1, ToolRefines, ContinuationRefines, DevinRefines, ShutdownRefines DEF Next
  <2>2. CASE UNCHANGED vars
    BY <2>2 DEF vars, Promise!vars, Engaged, Holding, Active
  <2>. QED
    BY <1>2, <2>1, <2>2
<1>. QED
  BY Invariance, SessionInvariance, <1>1, <1>2, PTL
     DEF Spec, ImplementsAdmission, Promise!Spec

=============================================================================
