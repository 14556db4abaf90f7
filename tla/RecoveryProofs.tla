--------------------------- MODULE RecoveryProofs ---------------------------
(***************************************************************************)
(* Proofs about the two recoveries.                                          *)
(*                                                                           *)
(* DevinRecovery: what is on disk and what is in memory, for any number of      *)
(* tasks, turns and crashes.  Files and memory differ while writes are pending, *)
(* so the invariant is about the files as they will be: a sequence of writes    *)
(* over the files ends with a value (MetaEnds, StateEnds) when the last write    *)
(* of the file has it, or none is pending and the file has it already.  A       *)
(* write that is queued, one that lands and a batch of them keep this.  A crash  *)
(* may come after any prefix, and in none of them may state.json be ahead of    *)
(* the meta.json files (Ordered).  The rest says what memory holds while pi is   *)
(* down and while it recovers.                                                *)
(*                                                                           *)
(* CompactionRecovery: its types, that a prompt is sent again no more often     *)
(* than a compaction failed under it, and that a recovery of a session with     *)
(* enough tool responses leaves the most recent ones alone.                    *)
(***************************************************************************)
EXTENDS DevinRecovery, CompactionRecovery, FiniteSetTheorems, SequenceTheorems, TLAPS

-----------------------------------------------------------------------------
(* The queue of writes *)

\* Writes of state.json, and of one meta.json.
StateWrites == [file : {0}, queue : Seq(Task), ids : SUBSET Task, partial : BOOLEAN]
MetaWrites  == [file : Task, status : Status \ {"absent"}]
Writes      == Seq(StateWrites \cup MetaWrites)

\* No write of w after the j-th is one of file f.
After(w, j, f) == \A k \in (j + 1)..Len(w) : w[k].file # f

\* Once the writes w have landed over the meta.json files d, that of t says s.
MetaEnds(w, d, t, s) ==
    \E j \in 0..Len(w) :
        /\ After(w, j, t)
        /\ IF j = 0 THEN d[t] = s ELSE w[j] = MetaWrite(t, s)

\* Once w has landed over d, state.json holds queue q and the sessions ids.
StateEnds(w, d, q, ids) ==
    \E j \in 0..Len(w) :
        /\ After(w, j, 0)
        /\ IF j = 0 THEN d.queue = q /\ d.ids = ids
           ELSE w[j].file = 0 /\ w[j].queue = q /\ w[j].ids = ids

\* When n of the writes w have landed over d, t has a meta.json.
HasMeta(w, d, t, n) == d[t] # "absent" \/ \E j \in 1..n : w[j].file = t

\* No prefix of w leaves a state.json that names a session without meta.json.
Ordered(w, d) ==
    \A i \in 1..Len(w) : w[i].file = 0 => \A t \in w[i].ids : HasMeta(w, d, t, i - 1)

LEMMA WriteKinds ==
  /\ \A q \in Seq(Task), ids \in SUBSET Task, p \in BOOLEAN :
       StateWrite(q, ids, p) \in StateWrites /\ StateWrite(q, ids, p).file = 0
       /\ StateWrite(q, ids, p).ids = ids /\ StateWrite(q, ids, p).queue = q
  /\ \A t \in Task, s \in Status \ {"absent"} :
       MetaWrite(t, s) \in MetaWrites
  /\ \A t, s : MetaWrite(t, s).file = t /\ MetaWrite(t, s).status = s
  /\ \A x \in StateWrites : x.file = 0 /\ x.queue \in Seq(Task) /\ x.ids \in SUBSET Task
  /\ \A x \in MetaWrites : x.file \in Task /\ x.file # 0 /\ x.status \in Status \ {"absent"}
  /\ \A t \in Task : t # 0
BY RecoveryAssumption DEF StateWrite, MetaWrite, StateWrites, MetaWrites, Task

LEMMA PartialType == Partial \in BOOLEAN /\ Partial' \in BOOLEAN
BY Zenon DEF Partial

LEMMA AppendFacts ==
  ASSUME NEW S, NEW w \in Seq(S), NEW x \in S
  PROVE  /\ Append(w, x) \in Seq(S) /\ Len(w) \in Nat /\ Len(Append(w, x)) = Len(w) + 1
         /\ Append(w, x)[Len(w) + 1] = x
         /\ \A i \in 1..Len(w) : Append(w, x)[i] = w[i]
BY AppendProperties, LenProperties

\* One more write: of another file, or the last of its file.
LEMMA OtherWrite ==
  ASSUME NEW w \in Writes, NEW x \in StateWrites \cup MetaWrites, NEW t \in Task, NEW d, NEW s,
         x.file # t, MetaEnds(w, d, t, s)
  PROVE  MetaEnds(Append(w, x), d, t, s)
<1>1. PICK j \in 0..Len(w) : After(w, j, t) /\ IF j = 0 THEN d[t] = s ELSE w[j] = MetaWrite(t, s)
  BY DEF MetaEnds
<1>2. j \in 0..Len(Append(w, x)) /\ After(Append(w, x), j, t)
  BY <1>1, AppendFacts DEF After, Writes
<1>3. j # 0 => Append(w, x)[j] = w[j]
  BY <1>1, AppendFacts DEF Writes
<1> QED
  BY <1>1, <1>2, <1>3 DEF MetaEnds

LEMMA LastMetaWrite ==
  ASSUME NEW w \in Writes, NEW t \in Task, NEW d, NEW s \in Status \ {"absent"}
  PROVE  MetaEnds(Append(w, MetaWrite(t, s)), d, t, s)
<1> DEFINE x == MetaWrite(t, s)
           v == Append(w, x)
<1>1. x \in StateWrites \cup MetaWrites
  BY WriteKinds
<1>2. Len(v) = Len(w) + 1 /\ Len(w) \in Nat /\ v[Len(v)] = x
  BY <1>1, AppendFacts DEF Writes
<1> HIDE DEF v
<1>3. Len(v) \in 0..Len(v) /\ After(v, Len(v), t) /\ Len(v) # 0
  BY <1>2 DEF After
<1>4. MetaEnds(v, d, t, s)
  BY <1>2, <1>3 DEF MetaEnds
<1> QED
  BY <1>4 DEF v

LEMMA LastStateWrite ==
  ASSUME NEW w \in Writes, NEW d, NEW q \in Seq(Task), NEW ids \in SUBSET Task,
         NEW p \in BOOLEAN
  PROVE  StateEnds(Append(w, StateWrite(q, ids, p)), d, q, ids)
<1> DEFINE x == StateWrite(q, ids, p)
           v == Append(w, x)
<1>1. /\ x \in StateWrites \cup MetaWrites
      /\ x.file = 0 /\ x.queue = q /\ x.ids = ids
  BY WriteKinds
<1>2. Len(v) = Len(w) + 1 /\ Len(w) \in Nat /\ v[Len(v)] = x
  BY <1>1, AppendFacts DEF Writes
<1> HIDE DEF v
<1>3. Len(v) \in 0..Len(v) /\ After(v, Len(v), 0) /\ Len(v) # 0
  BY <1>2 DEF After
<1> HIDE DEF x
<1>4. StateEnds(v, d, q, ids)
  BY <1>1, <1>2, <1>3 DEF StateEnds
<1> QED
  BY <1>4 DEF v, x

\* The order is kept by a write of a meta.json, and by one of a state.json all
\* of whose sessions have theirs by then.
LEMMA OrderedMeta ==
  ASSUME NEW w \in Writes, NEW d, NEW x \in MetaWrites, Ordered(w, d)
  PROVE  Ordered(Append(w, x), d)
<1>1. x.file # 0
  BY WriteKinds
<1> QED
  BY <1>1, AppendFacts DEF Ordered, HasMeta, Writes

LEMMA OrderedState ==
  ASSUME NEW w \in Writes, NEW d, NEW x \in StateWrites, Ordered(w, d),
         \A t \in x.ids : HasMeta(w, d, t, Len(w))
  PROVE  Ordered(Append(w, x), d)
<1> DEFINE v == Append(w, x)
<1>1. /\ Len(v) = Len(w) + 1 /\ Len(w) \in Nat /\ v[Len(w) + 1] = x
      /\ \A i \in 1..Len(w) : v[i] = w[i]
  BY AppendFacts DEF Writes
<1> HIDE DEF v
<1>2. ASSUME NEW i \in 1..Len(v), v[i].file = 0, NEW t \in v[i].ids
      PROVE  HasMeta(v, d, t, i - 1)
  <2>1. CASE i \in 1..Len(w)
    <3>1. HasMeta(w, d, t, i - 1)
      BY <1>1, <1>2, <2>1 DEF Ordered
    <3> QED
      BY <1>1, <2>1, <3>1 DEF HasMeta
  <2>2. CASE i = Len(w) + 1
    <3>1. HasMeta(w, d, t, Len(w))
      BY <1>1, <1>2, <2>2
    <3> QED
      BY <1>1, <2>2, <3>1 DEF HasMeta
  <2> QED
    BY <1>1, <2>1, <2>2
<1>3. Ordered(v, d)
  BY <1>2 DEF Ordered
<1> QED
  BY <1>3 DEF v

\* A session whose meta.json will be there has one when all of w has landed.
LEMMA MetaEndsHasMeta ==
  ASSUME NEW w \in Writes, NEW d, NEW t \in Task, NEW s, s # "absent", MetaEnds(w, d, t, s)
  PROVE  HasMeta(w, d, t, Len(w))
<1>1. PICK j \in 0..Len(w) : IF j = 0 THEN d[t] = s ELSE w[j] = MetaWrite(t, s)
  BY DEF MetaEnds
<1>2. Len(w) \in Nat
  BY LenProperties DEF Writes
<1> QED
  BY <1>1, <1>2, WriteKinds DEF HasMeta

\* One write, and two, at the end of a queue of writes.
LEMMA OneMore ==
  ASSUME NEW S, NEW w \in Seq(S), NEW a \in S
  PROVE  w \o <<a>> = Append(w, a) /\ w \o <<>> = w
<1>1. <<a>> \in Seq(S) /\ Len(<<a>>) = 1 /\ <<a>>[1] = a
  OBVIOUS
<1> QED
  BY <1>1, ConcatEmptySeq, AppendIsConcat

LEMMA TwoMore ==
  ASSUME NEW S, NEW w \in Seq(S), NEW a \in S, NEW b \in S
  PROVE  w \o <<a, b>> = Append(Append(w, a), b)
<1> DEFINE ab == <<a, b>>
           u == w \o ab
           v == Append(Append(w, a), b)
<1>1. ab \in Seq(S) /\ Len(ab) = 2 /\ ab[1] = a /\ ab[2] = b
  OBVIOUS
<1>2. Len(w) \in Nat
  BY LenProperties
<1>3. Append(w, a) \in Seq(S)
  BY AppendProperties
<1> HIDE DEF ab
<1>4. /\ u \in Seq(S) /\ Len(u) = Len(w) + 2
      /\ \A i \in 1..Len(w) : u[i] = w[i]
      /\ u[Len(w) + 1] = a /\ u[Len(w) + 2] = b
  <2>1. /\ w \o ab \in Seq(S) /\ Len(w \o ab) = Len(w) + Len(ab)
        /\ \A i \in 1..(Len(w) + Len(ab)) :
              (w \o ab)[i] = IF i <= Len(w) THEN w[i] ELSE ab[i - Len(w)]
    BY <1>1, ConcatProperties
  <2> HIDE DEF u
  <2>2. u = w \o ab
    BY DEF u
  <2>3. /\ Len(u) = Len(w) + 2
        /\ \A i \in 1..(Len(w) + 2) : u[i] = IF i <= Len(w) THEN w[i] ELSE ab[i - Len(w)]
    BY <1>1, <2>1, <2>2
  <2> QED
    BY <1>1, <1>2, <2>1, <2>2, <2>3
<1>5. /\ v \in Seq(S) /\ Len(v) = Len(w) + 2
      /\ \A i \in 1..Len(w) : v[i] = w[i]
      /\ v[Len(w) + 1] = a /\ v[Len(w) + 2] = b
  BY <1>2, <1>3, AppendProperties
<1> HIDE DEF u, v
<1>6. u \in [1..(Len(w) + 2) -> S] /\ v \in [1..(Len(w) + 2) -> S]
  BY <1>4, <1>5, LenProperties
<1>7. \A i \in 1..(Len(w) + 2) : u[i] = v[i]
  <2>1. \A i \in 1..(Len(w) + 2) : i \in 1..Len(w) \/ i = Len(w) + 1 \/ i = Len(w) + 2
    BY <1>2
  <2> QED
    BY <1>4, <1>5, <2>1
<1>8. u = v
  BY <1>6, <1>7
<1> QED
  BY <1>8 DEF u, v, ab

\* The writes w and what they leave in the meta.json files d of the sessions s.
Lands(w, d, s) ==
    /\ w \in Writes
    /\ Ordered(w, d)
    /\ \A t \in Ids(s) : MetaEnds(w, d, t, s[t])

\* A write of state.json at the end, of the sessions that there are.
LEMMA StateWriteLands ==
  ASSUME NEW w, NEW d, NEW s, Lands(w, d, s), NEW q \in Seq(Task), NEW p \in BOOLEAN
  PROVE  /\ Lands(Append(w, StateWrite(q, Ids(s), p)), d, s)
         /\ \A e : StateEnds(Append(w, StateWrite(q, Ids(s), p)), e, q, Ids(s))
<1> DEFINE x == StateWrite(q, Ids(s), p)
<1>1. x \in StateWrites /\ x.file = 0 /\ x.ids = Ids(s) /\ Ids(s) \in SUBSET Task
  BY WriteKinds DEF Ids
<1>2. w \in Writes
  BY DEF Lands
<1>3. \A t \in Ids(s) : t \in Task /\ t # 0 /\ s[t] # "absent" /\ MetaEnds(w, d, t, s[t])
  BY WriteKinds DEF Ids, Lands
<1> HIDE DEF x
<1>4. \A t \in x.ids : HasMeta(w, d, t, Len(w))
  BY <1>1, <1>2, <1>3, MetaEndsHasMeta
<1>5. Ordered(Append(w, x), d)
  BY <1>1, <1>2, <1>4, OrderedState DEF Lands
<1>6. \A t \in Ids(s) : MetaEnds(Append(w, x), d, t, s[t])
  BY <1>1, <1>2, <1>3, OtherWrite
<1>7. Append(w, x) \in Writes
  BY <1>1, <1>2, AppendProperties DEF Writes
<1>8. Lands(Append(w, x), d, s)
  BY <1>5, <1>6, <1>7 DEF Lands
<1>9. \A e : StateEnds(Append(w, x), e, q, Ids(s))
  BY <1>1, <1>2, LastStateWrite DEF x
<1> QED
  BY <1>8, <1>9 DEF x

\* A write of the meta.json of t, whose status becomes v.
LEMMA MetaWriteLands ==
  ASSUME NEW w, NEW d, NEW s, DOMAIN s = Task, Lands(w, d, s),
         NEW t \in Task, NEW v \in Status \ {"absent"}, NEW r, r = [s EXCEPT ![t] = v]
  PROVE  Lands(Append(w, MetaWrite(t, v)), d, r)
<1> DEFINE x == MetaWrite(t, v)
<1>1. x \in MetaWrites /\ x.file = t
  BY WriteKinds
<1>2. w \in Writes
  BY DEF Lands
<1>3. MetaEnds(Append(w, x), d, t, v)
  BY <1>2, LastMetaWrite
<1> HIDE DEF x
<1>4. ASSUME NEW u \in Ids(r)
      PROVE  MetaEnds(Append(w, x), d, u, r[u])
  <2>1. CASE u = t
    BY <1>3, <2>1
  <2>2. CASE u # t
    <3>1. u \in Task /\ r[u] = s[u] /\ u \in Ids(s)
      BY <1>4, <2>2 DEF Ids
    <3>2. MetaEnds(w, d, u, s[u])
      BY <3>1 DEF Lands
    <3>3. MetaEnds(Append(w, x), d, u, s[u])
      BY <1>1, <1>2, <2>2, <3>1, <3>2, OtherWrite
    <3> QED
      BY <3>1, <3>3
  <2> QED
    BY <2>1, <2>2
<1>5. Ordered(Append(w, x), d)
  BY <1>1, <1>2, OrderedMeta DEF Lands
<1>6. Append(w, x) \in Writes
  BY <1>1, <1>2, AppendProperties DEF Writes
<1>7. Lands(Append(w, x), d, r)
  BY <1>4, <1>5, <1>6 DEF Lands
<1> QED
  BY <1>7 DEF x

\* The files of a session that changes, as SessionWrites orders them.
LEMMA SessionWritesLand ==
  ASSUME NEW w, NEW d, NEW s, DOMAIN s = Task, Lands(w, d, s), queue \in Seq(Task),
         NEW t \in Task, NEW v \in Status \ {"absent"}, NEW r, r = [s EXCEPT ![t] = v]
  PROVE  /\ Lands(w \o SessionWrites(t, v, Ids(r)), d, r)
         /\ \A e : StateEnds(w \o SessionWrites(t, v, Ids(r)), e, queue, Ids(r))
<1> DEFINE m == MetaWrite(t, v)
           x == StateWrite(queue, Ids(r), Partial)
<1>1. w \in Writes /\ m \in StateWrites \cup MetaWrites /\ x \in StateWrites \cup MetaWrites
  <2>1. Ids(r) \in SUBSET Task
    BY DEF Ids
  <2> QED
    BY <2>1, WriteKinds, PartialType DEF Lands
<1>2. w \o SessionWrites(t, v, Ids(r)) = Append(Append(w, m), x)
  BY <1>1, TwoMore DEF SessionWrites, Writes
<1>3. Lands(Append(w, m), d, r)
  BY MetaWriteLands
<1> HIDE DEF m
<1>4. /\ Lands(Append(Append(w, m), StateWrite(queue, Ids(r), Partial)), d, r)
      /\ \A e : StateEnds(Append(Append(w, m), StateWrite(queue, Ids(r), Partial)), e, queue, Ids(r))
  BY <1>3, StateWriteLands, PartialType
<1> QED
  BY <1>2, <1>4

-----------------------------------------------------------------------------
(* Drains *)

\* The writes of k admissions.
LEMMA AdmissionWritesLand ==
  ASSUME NEW w, NEW d, NEW s, Lands(w, d, s), NEW q \in Seq(Task), NEW k \in 0..Len(q),
         NEW p \in BOOLEAN,
         NEW v, v = w \o [i \in 1..k |-> StateWrite(SubSeq(q, i + 1, Len(q)), Ids(s), p)]
  PROVE  /\ Lands(v, d, s)
         /\ SubSeq(q, k + 1, Len(q)) \in Seq(Task)
         /\ \A e : StateEnds(w, e, q, Ids(s)) => StateEnds(v, e, SubSeq(q, k + 1, Len(q)), Ids(s))
<1> DEFINE Rest(i) == SubSeq(q, i + 1, Len(q))
           g == [i \in 1..k |-> StateWrite(Rest(i), Ids(s), p)]
<1>1. w \in Writes /\ Len(w) \in Nat /\ Len(q) \in Nat /\ k \in Nat /\ Ids(s) \in SUBSET Task
  BY LenProperties DEF Lands, Writes, Ids
<1>2. \A i \in 0..k : Rest(i) \in Seq(Task)
  <2>1. \A i \in 1..Len(q) : q[i] \in Task
    BY ElementOfSeq
  <2> QED
    BY <1>1, <2>1, SubSeqProperties
<1>3. \A i \in 1..k : g[i] = StateWrite(Rest(i), Ids(s), p)
  OBVIOUS
<1> HIDE DEF Rest
<1>4. \A i \in 1..k : /\ g[i] \in StateWrites /\ g[i].file = 0
                     /\ g[i].queue = Rest(i) /\ g[i].ids = Ids(s)
  <2>1. \A i \in 1..k : Rest(i) \in Seq(Task)
    BY <1>1, <1>2
  <2> HIDE DEF g
  <2> QED
    BY <1>1, <1>3, <2>1, WriteKinds
<1>5. g \in Seq(StateWrites \cup MetaWrites) /\ Len(g) = k
  <2>1. g \in [1..k -> StateWrites \cup MetaWrites]
    BY <1>4
  <2> HIDE DEF g
  <2> QED
    BY <1>1, <2>1
<1> HIDE DEF g
<1>6. /\ v \in Writes /\ Len(v) = Len(w) + k
      /\ \A i \in 1..Len(w) : v[i] = w[i]
      /\ \A i \in (Len(w) + 1)..Len(v) : v[i] = g[i - Len(w)] /\ i - Len(w) \in 1..k
  <2>1. v = w \o g
    BY DEF g, Rest
  <2>2. /\ v \in Writes /\ Len(v) = Len(w) + k
        /\ \A i \in 1..(Len(w) + k) : v[i] = IF i <= Len(w) THEN w[i] ELSE g[i - Len(w)]
    <3>1. /\ w \o g \in Writes /\ Len(w \o g) = Len(w) + Len(g)
          /\ \A i \in 1..(Len(w) + Len(g)) :
                (w \o g)[i] = IF i <= Len(w) THEN w[i] ELSE g[i - Len(w)]
      BY <1>1, <1>5, ConcatProperties DEF Writes
    <3> QED
      BY <1>5, <2>1, <3>1
  <2>3. \A i \in 1..Len(w) : i \in 1..(Len(w) + k) /\ i <= Len(w)
    BY <1>1
  <2>4. \A i \in (Len(w) + 1)..(Len(w) + k) :
          i \in 1..(Len(w) + k) /\ ~ (i <= Len(w)) /\ i - Len(w) \in 1..k
    BY <1>1
  <2> QED
    BY <2>2, <2>3, <2>4
<1>7. \A i \in (Len(w) + 1)..Len(v) : v[i].file = 0 /\ v[i].ids = Ids(s)
  BY <1>4, <1>6
<1>8. ASSUME NEW t \in Ids(s)
      PROVE  MetaEnds(v, d, t, s[t]) /\ HasMeta(w, d, t, Len(w))
  <2>1. t \in Task /\ t # 0 /\ s[t] # "absent" /\ MetaEnds(w, d, t, s[t])
    BY <1>8, WriteKinds DEF Ids, Lands
  <2>2. PICK j \in 0..Len(w) : /\ After(w, j, t)
                               /\ IF j = 0 THEN d[t] = s[t] ELSE w[j] = MetaWrite(t, s[t])
    BY <2>1 DEF MetaEnds
  <2>3. j \in 0..Len(v) /\ (j # 0 => v[j] = w[j])
    BY <1>1, <1>6
  <2>4. After(v, j, t)
    <3>1. ASSUME NEW i \in (j + 1)..Len(v) PROVE v[i].file # t
      <4>1. i \in (j + 1)..Len(w) \/ i \in (Len(w) + 1)..Len(v)
        BY <1>1, <1>6
      <4>2. i \in (j + 1)..Len(w) => v[i] = w[i]
        BY <1>1, <1>6
      <4> QED
        BY <1>7, <2>1, <2>2, <4>1, <4>2 DEF After
    <3> QED
      BY <3>1 DEF After
  <2> QED
    BY <1>1, <2>1, <2>2, <2>3, <2>4, MetaEndsHasMeta DEF MetaEnds
<1>9. Ordered(v, d)
  <2>1. ASSUME NEW i \in 1..Len(v), v[i].file = 0, NEW t \in v[i].ids
        PROVE  HasMeta(v, d, t, i - 1)
    <3>1. CASE i \in 1..Len(w)
      <4>1. HasMeta(w, d, t, i - 1)
        BY <1>6, <2>1, <3>1 DEF Ordered, Lands
      <4> QED
        BY <1>1, <1>6, <3>1, <4>1 DEF HasMeta
    <3>2. CASE i \in (Len(w) + 1)..Len(v)
      <4>1. HasMeta(w, d, t, Len(w))
        BY <1>7, <1>8, <2>1, <3>2
      <4>2. \A j \in 1..Len(w) : j \in 1..(i - 1) /\ v[j] = w[j]
        BY <1>1, <1>6, <3>2
      <4> QED
        BY <4>1, <4>2 DEF HasMeta
    <3> QED
      BY <1>1, <1>6, <3>1, <3>2
  <2> QED
    BY <2>1 DEF Ordered
<1>10. ASSUME NEW e, StateEnds(w, e, q, Ids(s))
       PROVE  StateEnds(v, e, Rest(k), Ids(s))
  <2>1. CASE k = 0
    <3>1. Rest(0) = q
      BY <1>1, SubSeqFull DEF Rest
    <3>2. v = w
      <4>1. Len(v) = Len(w) /\ v \in [1..Len(w) -> StateWrites \cup MetaWrites]
            /\ w \in [1..Len(w) -> StateWrites \cup MetaWrites]
        BY <1>1, <1>6, <2>1, LenProperties DEF Writes
      <4> QED
        BY <1>6, <4>1
    <3>3. Rest(k) = q
      BY <2>1, <3>1
    <3> QED
      BY <1>10, <3>2, <3>3
  <2>2. CASE k # 0
    <3>1. Len(v) \in 1..Len(v) /\ Len(v) \in (Len(w) + 1)..Len(v) /\ Len(v) - Len(w) = k /\ k \in 1..k
      BY <1>1, <1>6, <2>2
    <3>2. v[Len(v)].file = 0 /\ v[Len(v)].queue = Rest(k) /\ v[Len(v)].ids = Ids(s)
      BY <1>4, <1>6, <3>1
    <3>3. After(v, Len(v), 0) /\ Len(v) \in 0..Len(v) /\ Len(v) # 0
      BY <1>1, <1>6, <3>1 DEF After
    <3>4. \E j \in 0..Len(v) :
            /\ After(v, j, 0) /\ j # 0
            /\ v[j].file = 0 /\ v[j].queue = Rest(k) /\ v[j].ids = Ids(s)
      BY <3>2, <3>3
    <3> QED
      BY <3>4 DEF StateEnds
  <2> QED
    BY <2>1, <2>2
<1>11. Lands(v, d, s)
  BY <1>6, <1>8, <1>9 DEF Lands
<1> QED
  BY <1>1, <1>2, <1>10, <1>11 DEF Rest

\* A drain that persists: what is admitted leaves the queue and starts, and the
\* files still end up as memory is.
LEMMA DrainLands ==
  ASSUME NEW q \in Seq(Task), NEW st \in SUBSET Task, NEW w, NEW d, Lands(w, d, sess'),
         Drain(q, st, w)
  PROVE  /\ Lands(writes', d, sess')
         /\ \A e : StateEnds(w, e, q, Ids(sess')) => StateEnds(writes', e, queue', Ids(sess'))
         /\ queue' \in Seq(Task) /\ starting' \in SUBSET Task
         /\ Queued(queue') \cup starting' = Queued(q) \cup st
<1>1. IsFiniteSet(Task)
  BY FS_Interval, RecoveryAssumption DEF Task
<1>2. Cardinality(Running(sess')) \in Nat /\ Cardinality(st) \in Nat
  <2>1. Running(sess') \subseteq Task
    BY DEF Running
  <2> QED
    BY <1>1, <2>1, FS_Subset, FS_CardinalityType
<1>3. Len(q) \in Nat /\ q \in [1..Len(q) -> Task]
  BY LenProperties
<1>4. PICK k \in 0..Len(q) :
        /\ queue' = SubSeq(q, k + 1, Len(q))
        /\ starting' = st \cup {q[i] : i \in 1..k}
        /\ writes' = w \o [i \in 1..k |-> StateWrite(SubSeq(q, i + 1, Len(q)), Ids(sess'), Partial')]
  <2> DEFINE free == Limit - Cardinality(Running(sess')) - Cardinality(st)
             k == IF free < 0 THEN 0 ELSE IF free < Len(q) THEN free ELSE Len(q)
  <2>1. free \in Int
    BY <1>2, RecoveryAssumption
  <2> HIDE DEF free
  <2>2. k \in 0..Len(q)
    BY <1>3, <2>1
  <2> HIDE DEF k
  <2>3. /\ queue' = SubSeq(q, k + 1, Len(q))
        /\ starting' = st \cup {q[i] : i \in 1..k}
        /\ writes' = w \o [i \in 1..k |-> StateWrite(SubSeq(q, i + 1, Len(q)), Ids(sess'), Partial')]
    BY DEF Drain, free, k
  <2> QED
    BY <2>2, <2>3
<1>5. /\ Lands(writes', d, sess')
      /\ queue' \in Seq(Task)
      /\ \A e : StateEnds(w, e, q, Ids(sess')) => StateEnds(writes', e, queue', Ids(sess'))
  BY <1>4, AdmissionWritesLand, PartialType
<1>6. /\ Len(queue') = Len(q) - k
      /\ \A i \in 1..(Len(q) - k) : queue'[i] = q[k + i]
  <2>1. \A i \in (k + 1)..Len(q) : q[i] \in Task
    BY <1>3
  <2>2. /\ Len(queue') = IF k + 1 <= Len(q) THEN Len(q) - (k + 1) + 1 ELSE 0
        /\ \A i \in 1..(Len(q) - (k + 1) + 1) : queue'[i] = q[(k + 1) + i - 1]
    BY <1>3, <1>4, <2>1, SubSeqProperties
  <2>3. \A n \in Nat : \A j \in 0..n :
          /\ n - (j + 1) + 1 = n - j /\ (IF j + 1 <= n THEN n - j ELSE 0) = n - j
          /\ \A i \in 1..(n - j) : (j + 1) + i - 1 = j + i
    OBVIOUS
  <2>4. /\ Len(q) - (k + 1) + 1 = Len(q) - k
        /\ (IF k + 1 <= Len(q) THEN Len(q) - k ELSE 0) = Len(q) - k
        /\ \A i \in 1..(Len(q) - k) : (k + 1) + i - 1 = k + i
    BY <1>3, <2>3
  <2>5. Len(queue') = Len(q) - k
    BY <2>2, <2>4
  <2> QED
    BY <2>2, <2>4, <2>5
<1>7. Queued(queue') \cup {q[i] : i \in 1..k} = Queued(q)
  <2>1. ASSUME NEW i \in 1..Len(queue') PROVE queue'[i] \in Queued(q)
    BY <1>3, <1>6 DEF Queued
  <2>2. ASSUME NEW i \in 1..Len(q), i > k PROVE q[i] \in Queued(queue')
    <3>1. i - k \in 1..(Len(q) - k) /\ k + (i - k) = i
      BY <1>3, <2>2
    <3> QED
      BY <1>6, <3>1 DEF Queued
  <2>3. ASSUME NEW i \in 1..k PROVE q[i] \in Queued(q)
    BY <1>3 DEF Queued
  <2>4. ASSUME NEW i \in 1..Len(q) PROVE q[i] \in Queued(queue') \cup {q[j] : j \in 1..k}
    BY <1>3, <2>2
  <2> QED
    BY <2>1, <2>3, <2>4 DEF Queued
<1>8. \A i \in 1..k : q[i] \in Task
  BY <1>3
<1> QED
  BY <1>4, <1>5, <1>7, <1>8

-----------------------------------------------------------------------------
(* The invariant *)

MemoryTypes ==
    /\ phase \in {"down", "boot", "ready"}
    /\ queue \in Seq(Task) /\ restored \in Seq(Task)
    /\ starting \in SUBSET Task /\ toLoad \in SUBSET Task
    /\ sess \in [Task -> Status] /\ diskMeta \in [Task -> Status]
    /\ diskState.queue \in Seq(Task) /\ diskState.ids \in SUBSET Task
    /\ invoked \in Nat

\* What has been written and what waits to be agree with memory in the end, and
\* never name a session without its file on the way.
FilesAgree ==
    /\ Lands(writes, diskMeta, sess)
    /\ MetaBeforeState
    /\ phase = "ready" /\ whole => StateEnds(writes, diskState, queue, Ids(sess))

\* Memory while pi is down and while it recovers; what there is to bring back,
\* of which only a partial state.json can have overwritten anything.
Phases ==
    /\ phase = "down" => /\ writes = <<>>
                         /\ Ids(sess) = {}
                         /\ durable \subseteq OnDisk \cup lost
    /\ ~ diskState.partial => durable \subseteq OnDisk
    /\ phase \in {"down", "boot"} => queue = <<>> /\ starting = {} /\ attached = {}
    /\ phase = "boot" => durable \subseteq toLoad \cup Ids(sess) \cup Queued(restored) \cup lost
    /\ \A t \in toLoad : diskMeta[t] # "absent" /\ sess[t] = "absent"
    /\ phase # "boot" => toLoad = {}
    /\ backfill \subseteq Ids(sess)

RecoveryInv == MemoryTypes /\ FilesAgree /\ Phases

\* What every step has to do: keep the invariant, lose no task while pi runs,
\* and bring everything back when a recovery ends.
RecoveryStep ==
    /\ RecoveryInv'
    /\ phase # "down" /\ phase' # "down" => Known \subseteq Known' \cup gone'
    /\ phase = "boot" /\ phase' = "ready" /\ whole' => durable \subseteq Known' \cup gone \cup lost

LEMMA EmptyQueue ==
  /\ <<>> \in Seq(Task) /\ Queued(<<>>) = {}
  /\ \A q \in Seq(Task) : Queued(q) = {} => q = <<>>
<1>1. ASSUME NEW q \in Seq(Task), Queued(q) = {} PROVE q = <<>>
  <2>1. Len(q) \in Nat
    BY LenProperties
  <2>2. Len(q) = 0
    <3>1. ASSUME Len(q) # 0 PROVE FALSE
      <4>1. q[1] \in Queued(q)
        BY <2>1, <3>1 DEF Queued
      <4> QED
        BY <1>1, <4>1
    <3> QED
      BY <3>1
  <2> QED
    BY <2>2, EmptySeq
<1>2. Queued(<<>>) = {}
  BY DEF Queued
<1> QED
  BY <1>1, <1>2

\* A step that drains, after the writes w and with the starts st.
LEMMA DrainKeepsFiles ==
  ASSUME RecoveryInv, NEW q \in Seq(Task), NEW st \in SUBSET Task, NEW w,
         Lands(w, diskMeta, sess'), Drain(q, st, w),
         phase' = "ready" /\ whole' => StateEnds(w, diskState, q, Ids(sess')),
         UNCHANGED diskVars
  PROVE  /\ FilesAgree'
         /\ queue' \in Seq(Task) /\ starting' \in SUBSET Task
         /\ Queued(queue') \cup starting' = Queued(q) \cup st
<1>1. /\ Lands(writes', diskMeta, sess')
      /\ \A e : StateEnds(w, e, q, Ids(sess')) => StateEnds(writes', e, queue', Ids(sess'))
      /\ queue' \in Seq(Task) /\ starting' \in SUBSET Task
      /\ Queued(queue') \cup starting' = Queued(q) \cup st
  BY DrainLands
<1>2. MetaBeforeState'
  BY DEF RecoveryInv, FilesAgree, MetaBeforeState, diskVars
<1> QED
  BY <1>1, <1>2 DEF FilesAgree, diskVars

\* A session t changes to v, and its files are written after the writes w.
LEMMA SessionChanges ==
  ASSUME RecoveryInv, phase # "down",
         NEW t \in Task, t \notin toLoad, NEW v \in Status \ {"absent"}, NEW st \in SUBSET Task, NEW w,
         Lands(w, diskMeta, sess),
         sess' = [sess EXCEPT ![t] = v],
         Drain(queue, st, w \o SessionWrites(t, v, Ids(sess'))),
         st \subseteq starting, starting \subseteq st \cup {t},
         phase = "boot" => attached' = {},
         backfill' \subseteq backfill,
         UNCHANGED <<phase, toLoad, restored, diskVars, whole, invoked, gone, durable, lost>>
  PROVE  RecoveryStep
<1>0. MemoryTypes /\ Phases
  BY DEF RecoveryInv
<1>1. DOMAIN sess = Task /\ Ids(sess') = Ids(sess) \cup {t}
  BY <1>0 DEF MemoryTypes, Ids
<1> DEFINE r == [sess EXCEPT ![t] = v]
           x == w \o SessionWrites(t, v, Ids(sess'))
<1>2. Lands(x, diskMeta, sess') /\ StateEnds(x, diskState, queue, Ids(sess'))
  <2>1. sess' = r /\ queue \in Seq(Task)
    BY <1>0 DEF MemoryTypes
  <2> HIDE DEF r
  <2>2. /\ Lands(w \o SessionWrites(t, v, Ids(r)), diskMeta, r)
        /\ \A e : StateEnds(w \o SessionWrites(t, v, Ids(r)), e, queue, Ids(r))
    BY <1>1, <2>1, SessionWritesLand DEF r
  <2> QED
    BY <2>1, <2>2
<1> HIDE DEF x
<1>3. /\ FilesAgree'
      /\ queue' \in Seq(Task) /\ starting' \in SUBSET Task
      /\ Queued(queue') \cup starting' = Queued(queue) \cup st
  BY <1>0, <1>2, DrainKeepsFiles DEF MemoryTypes, x
<1>4. MemoryTypes'
  BY <1>0, <1>3 DEF MemoryTypes, diskVars
<1>5. phase = "boot" => queue' = <<>> /\ starting' = {}
  BY <1>0, <1>3, EmptyQueue DEF Phases
<1>6. Phases'
  <2>1. \A u \in toLoad' : diskMeta'[u] # "absent" /\ sess'[u] = "absent"
    BY <1>0 DEF Phases, MemoryTypes, diskVars
  <2>2. backfill' \subseteq Ids(sess')
    BY <1>0, <1>1 DEF Phases
  <2> QED
    BY <1>0, <1>1, <1>5, <2>1, <2>2 DEF Phases, OnDisk, diskVars
<1>7. Known \subseteq Known'
  BY <1>1, <1>3 DEF Known
<1> QED
  BY <1>3, <1>4, <1>6, <1>7 DEF RecoveryStep, RecoveryInv

-----------------------------------------------------------------------------
(* The steps *)

LEMMA DelegateKeeps ==
  ASSUME RecoveryInv, Delegate
  PROVE  RecoveryStep
<1> DEFINE t == invoked + 1
           q == Append(queue, t)
<1>0. MemoryTypes /\ FilesAgree /\ Phases /\ phase = "ready" /\ phase' = phase
  BY DEF RecoveryInv, Delegate, Acts, ToolMayRun
<1>1. /\ UNCHANGED <<backfill, attached, toLoad, restored, diskVars, whole, gone, durable, lost, sess>>
      /\ invoked' = t /\ t \in Task /\ invoked' \in Nat
  BY <1>0, RecoveryAssumption DEF MemoryTypes, Delegate, histVars, Task
<1>2. CASE starting' = starting \cup {t} /\ UNCHANGED <<queue, writes>>
  <2>1. t \in Task
    BY <1>1
  <2>2. FilesAgree'
    BY <1>0, <1>1, <1>2 DEF FilesAgree, MetaBeforeState, diskVars
  <2>3. MemoryTypes'
    BY <1>0, <1>1, <1>2, <2>1 DEF MemoryTypes, diskVars
  <2>4. Phases'
    BY <1>0, <1>1, <1>2 DEF Phases, OnDisk, diskVars
  <2> QED
    BY <1>0, <1>1, <1>2, <2>2, <2>3, <2>4 DEF RecoveryStep, RecoveryInv, Known
<1>3. CASE Drain(q, starting, writes \o QueuedWrites(q))
  <2> DEFINE w == writes \o QueuedWrites(q)
  <2>1. t \in Task
    BY <1>1
  <2>2. q \in Seq(Task) /\ Queued(q) = Queued(queue) \cup {t}
    <3>1. queue \in Seq(Task) /\ Len(queue) \in Nat
      BY <1>0, LenProperties DEF MemoryTypes
    <3> HIDE DEF t
    <3>2. /\ q \in Seq(Task) /\ Len(q) = Len(queue) + 1 /\ q[Len(queue) + 1] = t
          /\ \A i \in 1..Len(queue) : q[i] = queue[i]
      BY <2>1, <3>1, AppendProperties
    <3> HIDE DEF q
    <3>3. \A i \in 1..(Len(queue) + 1) : i \in 1..Len(queue) \/ i = Len(queue) + 1
      BY <3>1
    <3>4. Len(queue) + 1 \in 1..(Len(queue) + 1) /\ 1..Len(queue) \subseteq 1..(Len(queue) + 1)
      BY <3>1
    <3> QED
      BY <3>2, <3>3, <3>4 DEF Queued
  <2> HIDE DEF q, t
  <2>3. writes \in Writes /\ StateWrite(q, Ids(sess), Partial) \in StateWrites \cup MetaWrites
    BY <1>0, <2>2, WriteKinds, PartialType DEF FilesAgree, Lands, Ids
  <2>4. w = Append(writes, StateWrite(q, Ids(sess), Partial))
    BY <1>1, <2>3, OneMore DEF QueuedWrites, Writes
  <2>5. Lands(w, diskMeta, sess') /\ StateEnds(w, diskState, q, Ids(sess'))
    BY <1>0, <1>1, <2>2, <2>4, StateWriteLands, PartialType DEF FilesAgree
  <2> HIDE DEF w
  <2>6. /\ FilesAgree'
        /\ queue' \in Seq(Task) /\ starting' \in SUBSET Task
        /\ Queued(queue') \cup starting' = Queued(q) \cup starting
    BY <1>0, <1>1, <1>3, <2>2, <2>5, DrainKeepsFiles DEF MemoryTypes, w
  <2>7. MemoryTypes'
    BY <1>0, <1>1, <2>6 DEF MemoryTypes, diskVars
  <2>8. Phases'
    BY <1>0, <1>1 DEF Phases, OnDisk, diskVars
  <2> QED
    BY <1>0, <1>1, <2>2, <2>6, <2>7, <2>8 DEF RecoveryStep, RecoveryInv, Known
<1> QED
  BY <1>2, <1>3 DEF Delegate

LEMMA RegisteredKeeps ==
  ASSUME RecoveryInv, NEW t \in Task, Registered(t)
  PROVE  RecoveryStep
<1>1. phase = "ready" /\ toLoad = {} /\ Lands(writes, diskMeta, sess) /\ starting \in SUBSET Task
  BY DEF RecoveryInv, MemoryTypes, FilesAgree, Phases, Registered
<1>2. "running" \in Status \ {"absent"}
  BY DEF Status, Settled
<1> DEFINE st == starting \ {t}
<1>3. /\ st \in SUBSET Task /\ st \subseteq starting /\ starting \subseteq st \cup {t}
      /\ sess' = [sess EXCEPT ![t] = "running"] /\ t \notin toLoad /\ backfill' \subseteq backfill
      /\ UNCHANGED <<phase, toLoad, restored, diskVars, whole, invoked, gone, durable, lost>>
  BY <1>1 DEF Registered, histVars
<1> HIDE DEF st
<1>4. Drain(queue, st, writes \o SessionWrites(t, "running", Ids(sess')))
  BY DEF Registered, st
<1> QED
  BY <1>1, <1>2, <1>3, <1>4, SessionChanges

LEMMA StartFailsKeeps ==
  ASSUME RecoveryInv, NEW t \in Task, StartFails(t)
  PROVE  RecoveryStep
<1>0. MemoryTypes /\ FilesAgree /\ Phases /\ phase = "ready" /\ phase' = phase
  BY DEF RecoveryInv, MemoryTypes, Phases, StartFails
<1>1. UNCHANGED <<backfill, attached, toLoad, restored, diskVars, whole, invoked, sess, durable, lost>>
      /\ gone' = gone \cup {t}
  BY DEF StartFails, histVars
<1>2. starting \ {t} \in SUBSET Task /\ Lands(writes, diskMeta, sess') /\ queue \in Seq(Task)
      /\ (phase' = "ready" /\ whole' => StateEnds(writes, diskState, queue, Ids(sess')))
  BY <1>0, <1>1 DEF MemoryTypes, FilesAgree
<1>3. /\ FilesAgree'
      /\ queue' \in Seq(Task) /\ starting' \in SUBSET Task
      /\ Queued(queue') \cup starting' = Queued(queue) \cup (starting \ {t})
  BY <1>1, <1>2, DrainKeepsFiles DEF StartFails
<1>4. MemoryTypes'
  BY <1>0, <1>1, <1>3 DEF MemoryTypes, diskVars
<1>5. Phases'
  BY <1>0, <1>1 DEF Phases, OnDisk, diskVars
<1> QED
  BY <1>0, <1>1, <1>3, <1>4, <1>5 DEF RecoveryStep, RecoveryInv, Known

LEMMA TurnEndsKeeps ==
  ASSUME RecoveryInv, NEW t \in Task, NEW s \in {"idle", "interrupted", "failed"}, NEW exits \in BOOLEAN,
         TurnEnds(t, s, exits)
  PROVE  RecoveryStep
<1>1. /\ phase = "ready" /\ toLoad = {} /\ Lands(writes, diskMeta, sess)
      /\ starting \in SUBSET Task /\ sess \in [Task -> Status]
  BY DEF RecoveryInv, MemoryTypes, FilesAgree, Phases, TurnEnds
<1>2. s \in Status \ {"absent"}
  BY DEF Status, Settled
<1>3. sess' = [sess EXCEPT ![t] = s] /\ Ids(sess') = Ids(sess)
  BY <1>1, <1>2 DEF TurnEnds, Ids
<1>4. Drain(queue, starting, writes \o SessionWrites(t, s, Ids(sess')))
  BY <1>3 DEF TurnEnds
<1> QED
  BY <1>1, <1>2, <1>3, <1>4, SessionChanges DEF TurnEnds, histVars

LEMMA ProcessExitsKeeps ==
  ASSUME RecoveryInv, NEW t \in Task, ProcessExits(t)
  PROVE  RecoveryStep
<1>1. UNCHANGED <<phase, queue, starting, sess, backfill, toLoad, restored, writes, diskVars,
                  whole, invoked, gone, durable, lost>> /\ attached' \subseteq attached
  BY DEF ProcessExits, histVars
<1>2. MemoryTypes'
  BY <1>1 DEF RecoveryInv, MemoryTypes, diskVars
<1>3. FilesAgree'
  BY <1>1 DEF RecoveryInv, FilesAgree, MetaBeforeState, diskVars
<1>4. Phases'
  BY <1>1 DEF RecoveryInv, Phases, OnDisk, diskVars
<1> QED
  BY <1>1, <1>2, <1>3, <1>4 DEF RecoveryStep, RecoveryInv, Known

LEMMA CancelQueuedKeeps ==
  ASSUME RecoveryInv, NEW i \in 1..Len(queue), CancelQueued(i)
  PROVE  RecoveryStep
<1>0. MemoryTypes /\ FilesAgree /\ Phases /\ phase = "ready" /\ phase' = phase
  BY DEF RecoveryInv, CancelQueued, Acts, ToolMayRun
<1>1. UNCHANGED <<starting, backfill, attached, toLoad, restored, diskVars, whole, invoked, sess, durable, lost>>
      /\ gone' = gone \cup {queue[i]}
  BY DEF CancelQueued, histVars
<1>2. queue' = SubSeq(queue, 1, i - 1) \o SubSeq(queue, i + 1, Len(queue))
  BY DEF CancelQueued
<1>3. queue' \in Seq(Task) /\ Queued(queue) \subseteq Queued(queue') \cup {queue[i]}
  <2> DEFINE a == SubSeq(queue, 1, i - 1)
             b == SubSeq(queue, i + 1, Len(queue))
  <2>1. queue \in Seq(Task) /\ Len(queue) \in Nat /\ i \in Nat /\ \A j \in 1..Len(queue) : queue[j] \in Task
    BY <1>0, LenProperties DEF MemoryTypes
  <2>2. /\ a \in Seq(Task) /\ Len(a) = IF 1 <= i - 1 THEN (i - 1) - 1 + 1 ELSE 0
        /\ \A j \in 1..((i - 1) - 1 + 1) : a[j] = queue[1 + j - 1]
    BY <2>1, SubSeqProperties
  <2>3. /\ b \in Seq(Task) /\ Len(b) = IF i + 1 <= Len(queue) THEN Len(queue) - (i + 1) + 1 ELSE 0
        /\ \A j \in 1..(Len(queue) - (i + 1) + 1) : b[j] = queue[(i + 1) + j - 1]
    BY <2>1, SubSeqProperties
  <2> HIDE DEF a, b
  <2>4. /\ Len(a) = i - 1 /\ \A j \in 1..(i - 1) : a[j] = queue[j]
    BY <2>1, <2>2
  <2>5. Len(b) = Len(queue) - i
    BY <2>1, <2>3
  <2>6. ASSUME NEW j \in 1..(Len(queue) - i) PROVE b[j] = queue[i + j]
    <3>1. j \in 1..(Len(queue) - (i + 1) + 1) /\ (i + 1) + j - 1 = i + j
      BY <2>1
    <3> QED
      BY <2>3, <3>1
  <2>7. /\ a \o b \in Seq(Task) /\ Len(a \o b) = Len(a) + Len(b)
        /\ \A j \in 1..(Len(a) + Len(b)) : (a \o b)[j] = IF j <= Len(a) THEN a[j] ELSE b[j - Len(a)]
    BY <2>2, <2>3, ConcatProperties
  <2>8. queue' = a \o b
    BY <1>2 DEF a, b
  <2>9. /\ Len(queue') = (i - 1) + (Len(queue) - i)
        /\ \A j \in 1..((i - 1) + (Len(queue) - i)) :
              queue'[j] = IF j <= i - 1 THEN a[j] ELSE b[j - (i - 1)]
    BY <2>4, <2>5, <2>7, <2>8
  <2>10. ASSUME NEW j \in 1..Len(queue), j # i PROVE queue[j] \in Queued(queue')
    <3>1. CASE j < i
      <4>1. j \in 1..(i - 1) /\ j \in 1..((i - 1) + (Len(queue) - i)) /\ j <= i - 1
        BY <2>1, <3>1
      <4> QED
        BY <2>4, <2>9, <4>1 DEF Queued
    <3>2. CASE j > i
      <4>1. /\ j - i \in 1..(Len(queue) - i) /\ i + (j - i) = j
            /\ j - 1 \in 1..((i - 1) + (Len(queue) - i)) /\ ~ (j - 1 <= i - 1)
            /\ (j - 1) - (i - 1) = j - i
        BY <2>1, <3>2
      <4>2. queue'[j - 1] = queue[j]
        BY <2>6, <2>9, <4>1
      <4> QED
        BY <2>9, <4>1, <4>2 DEF Queued
    <3> QED
      BY <2>1, <2>10, <3>1, <3>2
  <2> QED
    BY <2>7, <2>8, <2>10 DEF Queued
<1>4. /\ writes' = Append(writes, StateWrite(queue', Ids(sess), Partial))
      /\ Lands(writes, diskMeta, sess)
  BY <1>0 DEF CancelQueued, FilesAgree
<1>5. FilesAgree'
  <2>1. Lands(writes', diskMeta, sess) /\ StateEnds(writes', diskState, queue', Ids(sess))
    BY <1>3, <1>4, StateWriteLands, PartialType
  <2> QED
    BY <1>0, <1>1, <2>1 DEF FilesAgree, MetaBeforeState, diskVars
<1>6. MemoryTypes'
  BY <1>0, <1>1, <1>3 DEF MemoryTypes, diskVars
<1>7. Phases'
  BY <1>0, <1>1 DEF Phases, OnDisk, diskVars
<1> QED
  BY <1>0, <1>1, <1>3, <1>5, <1>6, <1>7 DEF RecoveryStep, RecoveryInv, Known

LEMMA CancelSessionKeeps ==
  ASSUME RecoveryInv, NEW t \in Task, CancelSession(t)
  PROVE  RecoveryStep
<1>1. /\ phase = "ready" /\ toLoad = {} /\ Lands(writes, diskMeta, sess)
      /\ starting \in SUBSET Task /\ sess \in [Task -> Status]
  BY DEF RecoveryInv, MemoryTypes, FilesAgree, Phases, CancelSession, Acts, ToolMayRun
<1>2. "cancelled" \in Status \ {"absent"}
  BY DEF Status, Settled
<1>3. sess' = [sess EXCEPT ![t] = "cancelled"] /\ Ids(sess') = Ids(sess)
  BY <1>1, <1>2 DEF CancelSession, Ids
<1>4. Drain(queue, starting, writes \o SessionWrites(t, "cancelled", Ids(sess')))
  BY <1>3 DEF CancelSession
<1> QED
  BY <1>1, <1>2, <1>3, <1>4, SessionChanges DEF CancelSession, histVars

LEMMA BackfillKeeps ==
  ASSUME RecoveryInv, NEW t \in Task, NEW found \in BOOLEAN, Backfill(t, found)
  PROVE  RecoveryStep
<1>0. MemoryTypes /\ FilesAgree /\ Phases
  BY DEF RecoveryInv
<1>1. /\ phase # "down" /\ Lands(writes, diskMeta, sess) /\ t \in Ids(sess)
      /\ t \notin toLoad /\ starting \in SUBSET Task /\ sess \in [Task -> Status]
  BY <1>0 DEF MemoryTypes, FilesAgree, Phases, Backfill, Ids
<1> DEFINE v == Reconciled(t, found)
           w == writes \o BackfillWrites(t, found)
<1>2. v \in Status \ {"absent"} /\ sess[t] \in Status \ {"absent"}
  BY <1>1 DEF Reconciled, Status, Settled, Ids
<1>3. sess' = [sess EXCEPT ![t] = v]
  BY DEF Backfill
<1> HIDE DEF v
<1>4. Ids(sess') = Ids(sess)
  BY <1>1, <1>2, <1>3 DEF Ids
<1>5. writes \in Writes /\ MetaWrite(t, sess[t]) \in StateWrites \cup MetaWrites
  BY <1>1, <1>2, WriteKinds DEF Lands
<1>6. Lands(w, diskMeta, sess)
  <2>1. CASE found
    <3>1. w = Append(writes, MetaWrite(t, sess[t]))
      BY <1>5, <2>1, OneMore DEF BackfillWrites, Writes
    <3>2. sess = [sess EXCEPT ![t] = sess[t]] /\ DOMAIN sess = Task
      BY <1>1
    <3> HIDE DEF w
    <3> QED
      BY <1>1, <1>2, <3>1, <3>2, MetaWriteLands
  <2>2. CASE ~ found
    <3>1. w = writes
      BY <1>5, <2>2, OneMore DEF BackfillWrites, Writes
    <3> QED
      BY <1>1, <3>1
  <2> QED
    BY <2>1, <2>2
<1> HIDE DEF w
<1>7. Drain(queue, starting, w \o SessionWrites(t, v, Ids(sess')))
  BY <1>4 DEF Backfill, w, v
<1>8. /\ phase = "boot" => attached' = {}
      /\ backfill' \subseteq backfill
      /\ UNCHANGED <<phase, toLoad, restored, diskVars, whole, invoked, gone, durable, lost>>
  BY <1>0 DEF Phases, Backfill, histVars
<1> QED
  BY <1>1, <1>2, <1>3, <1>6, <1>7, <1>8, SessionChanges

-----------------------------------------------------------------------------
(* Writes that land *)

\* The disk after the first of the writes w.
MetaAfter(h, d) == IF h.file = 0 THEN d ELSE [d EXCEPT ![h.file] = h.status]
StateAfter(h, d) == IF h.file = 0 THEN
                       [exists |-> TRUE, queue |-> h.queue, ids |-> h.ids, partial |-> h.partial]
                      ELSE d

LEMMA TailFacts ==
  ASSUME NEW w \in Writes, w # <<>>
  PROVE  /\ Len(w) \in Nat \ {0} /\ Head(w) = w[1] /\ Head(w) \in StateWrites \cup MetaWrites
         /\ Tail(w) \in Writes /\ Len(Tail(w)) = Len(w) - 1
         /\ \A i \in 1..(Len(w) - 1) : Tail(w)[i] = w[i + 1]
<1>1. Len(w) \in Nat /\ Len(w) # 0
  BY LenProperties, EmptySeq DEF Writes
<1>2. Head(w) = w[1]
  BY DEF Writes
<1> QED
  BY <1>1, <1>2, HeadTailProperties DEF Writes

\* Where the writes after the j-th are once the first has landed.
LEMMA AfterTail ==
  ASSUME NEW w \in Writes, w # <<>>, NEW j \in 0..Len(w), NEW f, After(w, j, f)
  PROVE  IF j = 0 THEN After(Tail(w), 0, f) ELSE After(Tail(w), j - 1, f)
<1>1. ASSUME NEW n \in Nat, n <= j, j - 1 <= n, NEW k \in (n + 1)..Len(Tail(w))
      PROVE  Tail(w)[k].file # f
  <2>1. k \in 1..(Len(w) - 1) /\ k + 1 \in (j + 1)..Len(w)
    BY <1>1, TailFacts
  <2> QED
    BY <2>1, TailFacts DEF After
<1>2. 0 <= j /\ j - 1 <= j /\ (j = 0 => j - 1 <= 0) /\ (j # 0 => j - 1 \in Nat)
  BY TailFacts
<1>3. CASE j = 0
  BY <1>1, <1>2, <1>3 DEF After
<1>4. CASE j # 0
  BY <1>1, <1>2, <1>4 DEF After
<1> QED
  BY <1>3, <1>4

LEMMA MetaEndsTail ==
  ASSUME NEW w \in Writes, w # <<>>, NEW d \in [Task -> Status], NEW t \in Task, NEW s,
         MetaEnds(w, d, t, s)
  PROVE  MetaEnds(Tail(w), MetaAfter(Head(w), d), t, s)
<1> DEFINE h == Head(w)
           e == MetaAfter(h, d)
<1>1. PICK j \in 0..Len(w) : After(w, j, t) /\ IF j = 0 THEN d[t] = s ELSE w[j] = MetaWrite(t, s)
  BY DEF MetaEnds
<1>2. h = w[1] /\ h \in StateWrites \cup MetaWrites /\ Len(w) \in Nat \ {0} /\ Len(Tail(w)) = Len(w) - 1
  BY TailFacts
<1> HIDE DEF h
<1>3. CASE j = 0
  <2>1. h.file # t
    <3>1. 1 \in (j + 1)..Len(w)
      BY <1>2, <1>3
    <3> QED
      BY <1>1, <1>2, <3>1 DEF After
  <2>2. e[t] = d[t]
    BY <2>1 DEF MetaAfter
  <2>3. After(Tail(w), 0, t) /\ 0 \in 0..Len(Tail(w))
    BY <1>1, <1>2, <1>3, AfterTail
  <2> HIDE DEF e
  <2> QED
    BY <1>1, <1>3, <2>2, <2>3 DEF MetaEnds, h, e
<1>4. CASE j = 1
  <2>1. h.file = t /\ h.file # 0 /\ h.status = s
    BY <1>1, <1>2, <1>4, WriteKinds
  <2>2. e[t] = s
    BY <2>1 DEF MetaAfter
  <2>3. After(Tail(w), 0, t) /\ 0 \in 0..Len(Tail(w))
    BY <1>1, <1>2, <1>4, AfterTail
  <2> HIDE DEF e
  <2> QED
    BY <2>2, <2>3 DEF MetaEnds, h, e
<1>5. CASE j > 1
  <2>1. After(Tail(w), j - 1, t) /\ j - 1 \in 0..Len(Tail(w)) /\ j - 1 # 0
    BY <1>1, <1>2, <1>5, AfterTail
  <2>2. Tail(w)[j - 1] = MetaWrite(t, s)
    <3>1. j - 1 \in 1..(Len(w) - 1) /\ (j - 1) + 1 = j
      BY <1>2, <1>5
    <3> QED
      BY <1>1, <1>5, <3>1, TailFacts
  <2> HIDE DEF e
  <2>3. MetaEnds(Tail(w), e, t, s)
    BY <2>1, <2>2 DEF MetaEnds
  <2> QED
    BY <2>3 DEF e, h
<1> QED
  BY <1>3, <1>4, <1>5

LEMMA StateEndsTail ==
  ASSUME NEW w \in Writes, w # <<>>, NEW d, NEW q \in Seq(Task), NEW ids \in SUBSET Task,
         StateEnds(w, d, q, ids)
  PROVE  StateEnds(Tail(w), StateAfter(Head(w), d), q, ids)
<1> DEFINE h == Head(w)
           e == StateAfter(h, d)
<1>1. PICK j \in 0..Len(w) :
        /\ After(w, j, 0)
        /\ IF j = 0 THEN d.queue = q /\ d.ids = ids
           ELSE w[j].file = 0 /\ w[j].queue = q /\ w[j].ids = ids
  BY DEF StateEnds
<1>2. h = w[1] /\ h \in StateWrites \cup MetaWrites /\ Len(w) \in Nat \ {0} /\ Len(Tail(w)) = Len(w) - 1
  BY TailFacts
<1> HIDE DEF h
<1>3. CASE j = 0
  <2>1. h.file # 0
    <3>1. 1 \in (j + 1)..Len(w)
      BY <1>2, <1>3
    <3> QED
      BY <1>1, <1>2, <3>1 DEF After
  <2>2. e = d
    BY <2>1 DEF StateAfter
  <2>3. After(Tail(w), 0, 0) /\ 0 \in 0..Len(Tail(w))
    BY <1>1, <1>2, <1>3, AfterTail
  <2> HIDE DEF e
  <2> QED
    BY <1>1, <1>3, <2>2, <2>3 DEF StateEnds, h, e
<1>4. CASE j = 1
  <2>1. h.file = 0 /\ h.queue = q /\ h.ids = ids
    BY <1>1, <1>2, <1>4, WriteKinds
  <2>2. e.queue = q /\ e.ids = ids
    BY <2>1 DEF StateAfter
  <2>3. After(Tail(w), 0, 0) /\ 0 \in 0..Len(Tail(w))
    BY <1>1, <1>2, <1>4, AfterTail
  <2> HIDE DEF e
  <2> QED
    BY <2>2, <2>3 DEF StateEnds, h, e
<1>5. CASE j > 1
  <2>1. After(Tail(w), j - 1, 0) /\ j - 1 \in 0..Len(Tail(w)) /\ j - 1 # 0
    BY <1>1, <1>2, <1>5, AfterTail
  <2>2. Tail(w)[j - 1].file = 0 /\ Tail(w)[j - 1].queue = q /\ Tail(w)[j - 1].ids = ids
    <3>1. j - 1 \in 1..(Len(w) - 1) /\ (j - 1) + 1 = j
      BY <1>2, <1>5
    <3>2. Tail(w)[j - 1] = w[j]
      BY <3>1, TailFacts
    <3> QED
      BY <1>1, <1>5, <3>2
  <2> HIDE DEF e
  <2>3. StateEnds(Tail(w), e, q, ids)
    BY <2>1, <2>2 DEF StateEnds
  <2> QED
    BY <2>3 DEF e, h
<1> QED
  BY <1>3, <1>4, <1>5

LEMMA OrderedTail ==
  ASSUME NEW w \in Writes, w # <<>>, NEW d \in [Task -> Status], Ordered(w, d)
  PROVE  Ordered(Tail(w), MetaAfter(Head(w), d))
<1> DEFINE h == Head(w)
           e == MetaAfter(h, d)
           v == Tail(w)
<1>2. /\ h = w[1] /\ h \in StateWrites \cup MetaWrites /\ Len(w) \in Nat \ {0} /\ Len(v) = Len(w) - 1
      /\ \A i \in 1..(Len(w) - 1) : v[i] = w[i + 1]
  BY TailFacts
<1> HIDE DEF h, v
<1>3. ASSUME NEW i \in 1..Len(v), v[i].file = 0, NEW t \in v[i].ids
      PROVE  HasMeta(v, e, t, i - 1)
  <2>1. i + 1 \in 1..Len(w) /\ w[i + 1] = v[i] /\ (i + 1) - 1 = i
    BY <1>2
  <2>2. w[i + 1] \in StateWrites \cup MetaWrites
    BY <2>1, ElementOfSeq DEF Writes
  <2>3. t \in Task
    BY <1>3, <2>1, <2>2, WriteKinds
  <2>4. HasMeta(w, d, t, i)
    BY <1>3, <2>1 DEF Ordered
  <2>5. CASE d[t] # "absent" \/ w[1].file = t
    <3>1. e[t] # "absent"
      BY <1>2, <2>3, <2>5, WriteKinds DEF MetaAfter
    <3> QED
      BY <3>1 DEF HasMeta
  <2>6. ASSUME NEW j \in 2..i, w[j].file = t PROVE HasMeta(v, e, t, i - 1)
    <3>1. j - 1 \in 1..(i - 1) /\ j - 1 \in 1..(Len(w) - 1) /\ (j - 1) + 1 = j
      BY <1>2
    <3>2. v[j - 1].file = t
      BY <1>2, <2>6, <3>1
    <3> QED
      BY <3>1, <3>2 DEF HasMeta
  <2>7. \A j \in 1..i : j = 1 \/ j \in 2..i
    OBVIOUS
  <2> HIDE DEF e
  <2> QED
    BY <2>4, <2>5, <2>6, <2>7 DEF HasMeta
<1>4. Ordered(v, e)
  BY <1>3 DEF Ordered
<1> QED
  BY <1>4 DEF v, e, h

LEMMA WriteLandsKeeps ==
  ASSUME RecoveryInv, WriteLands
  PROVE  RecoveryStep
<1> DEFINE h == Head(writes)
<1>0. MemoryTypes /\ FilesAgree /\ Phases
  BY DEF RecoveryInv
<1>1. /\ UNCHANGED <<phase, queue, starting, sess, attached, backfill, toLoad, restored, whole,
                     invoked, gone, lost>>
      /\ durable' = OwedAfter(Head(writes))
      /\ writes' = Tail(writes) /\ writes # <<>> /\ phase # "down"
  BY <1>0 DEF WriteLands, memVars, Phases
<1>2. /\ writes \in Writes /\ h \in StateWrites \cup MetaWrites /\ h = writes[1]
      /\ Len(writes) \in Nat \ {0} /\ diskMeta \in [Task -> Status]
  BY <1>0, <1>1, TailFacts DEF FilesAgree, Lands, MemoryTypes
<1>3. diskMeta' = MetaAfter(h, diskMeta) /\ diskState' = StateAfter(h, diskState)
  BY DEF WriteLands, MetaAfter, StateAfter
<1> HIDE DEF h
<1>4. /\ diskMeta' \in [Task -> Status]
      /\ diskState'.queue \in Seq(Task) /\ diskState'.ids \in SUBSET Task
      /\ \A t \in Task : diskMeta[t] # "absent" => diskMeta'[t] # "absent"
  BY <1>0, <1>2, <1>3, WriteKinds DEF MetaAfter, StateAfter, MemoryTypes
<1>5. Lands(writes', diskMeta', sess')
  <2>1. Ordered(writes', diskMeta')
    BY <1>0, <1>1, <1>2, <1>3, OrderedTail DEF FilesAgree, Lands, h
  <2>2. ASSUME NEW t \in Ids(sess') PROVE MetaEnds(writes', diskMeta', t, sess'[t])
    <3>1. t \in Task /\ MetaEnds(writes, diskMeta, t, sess[t])
      BY <1>0, <1>1, <2>2 DEF FilesAgree, Lands, Ids
    <3>2. MetaEnds(Tail(writes), MetaAfter(Head(writes), diskMeta), t, sess[t])
      BY <1>1, <1>2, <3>1, MetaEndsTail
    <3> QED
      BY <1>1, <1>3, <3>2 DEF h
  <2> QED
    BY <1>1, <1>2, <2>1, <2>2, TailFacts DEF Lands
<1>6. MetaBeforeState'
  <2>1. CASE h.file = 0
    <3>1. ASSUME NEW t \in h.ids PROVE diskMeta[t] # "absent"
      <4>1. 1 \in 1..Len(writes) /\ HasMeta(writes, diskMeta, t, 1 - 1)
        BY <1>0, <1>2, <2>1, <3>1 DEF FilesAgree, Lands, Ordered
      <4> QED
        BY <4>1 DEF HasMeta
    <3>2. diskState'.ids = h.ids /\ diskMeta' = diskMeta
      BY <1>3, <2>1 DEF StateAfter, MetaAfter
    <3> QED
      BY <3>1, <3>2 DEF MetaBeforeState
  <2>2. CASE h.file # 0
    <3>1. diskState' = diskState
      BY <1>3, <2>2 DEF StateAfter
    <3> QED
      BY <1>0, <1>4, <3>1 DEF FilesAgree, MetaBeforeState, MemoryTypes
  <2> QED
    BY <2>1, <2>2
<1>7. FilesAgree'
  <2>1. ASSUME phase = "ready", whole PROVE StateEnds(writes', diskState', queue, Ids(sess))
    <3>1. StateEnds(writes, diskState, queue, Ids(sess)) /\ queue \in Seq(Task) /\ Ids(sess) \in SUBSET Task
      BY <1>0, <2>1 DEF FilesAgree, MemoryTypes, Ids
    <3>2. StateEnds(Tail(writes), StateAfter(Head(writes), diskState), queue, Ids(sess))
      BY <1>1, <1>2, <3>1, StateEndsTail
    <3> QED
      BY <1>1, <1>3, <3>2 DEF h
  <2> QED
    BY <1>1, <1>5, <1>6, <2>1 DEF FilesAgree
<1>8. MemoryTypes'
  BY <1>0, <1>1, <1>4 DEF MemoryTypes
<1>9. Phases'
  <2>1. durable' \subseteq durable
    BY <1>1 DEF OwedAfter
  <2>2. ~ diskState'.partial => durable' \subseteq Queued(diskState'.queue) \cup diskState'.ids
    <3>1. CASE h.file = 0
      <4>1. diskState'.partial = h.partial
        BY <1>3, <3>1 DEF StateAfter
      <4> QED
        BY <1>1, <3>1, <4>1 DEF OwedAfter, h
    <3>2. CASE h.file # 0
      <4>1. diskState' = diskState
        BY <1>3, <3>2 DEF StateAfter
      <4> QED
        BY <1>0, <2>1, <4>1 DEF Phases, OnDisk
    <3> QED
      BY <3>1, <3>2
  <2> QED
    BY <1>0, <1>1, <1>4, <2>1, <2>2 DEF Phases, MemoryTypes, OnDisk
<1> QED
  BY <1>1, <1>7, <1>8, <1>9 DEF RecoveryStep, RecoveryInv, Known

-----------------------------------------------------------------------------
(* Crashes and recoveries *)

LEMMA NothingLands ==
  ASSUME NEW d, NEW s, Ids(s) = {}
  PROVE  Lands(<<>>, d, s)
<1>1. <<>> \in Writes /\ Len(<<>>) = 0
  BY EmptySeq DEF Writes
<1> QED
  BY <1>1 DEF Lands, Ordered

LEMMA CrashKeeps ==
  ASSUME RecoveryInv, NEW survivors, Crash(survivors)
  PROVE  RecoveryStep
<1>0. MemoryTypes /\ FilesAgree /\ Phases
  BY DEF RecoveryInv
<1>1. /\ phase' = "down" /\ queue' = <<>> /\ starting' = {} /\ attached' = {} /\ backfill' = {}
      /\ sess' = [t \in Task |-> "absent"] /\ toLoad' = {} /\ restored' = <<>> /\ writes' = <<>>
      /\ UNCHANGED <<diskState, diskMeta, invoked, gone>>
  BY DEF Crash, diskVars
<1>2. Ids(sess') = {}
  BY <1>1 DEF Ids
<1>3. durable' \subseteq durable \cup OnDisk
  <2>1. CASE ~ Partial /\ writes = <<>>
    <3>1. StateEnds(writes, diskState, queue, Ids(sess)) /\ Len(writes) = 0
      BY <1>0, <2>1, EmptySeq DEF FilesAgree, Partial
    <3>2. diskState.queue = queue /\ diskState.ids = Ids(sess)
      BY <3>1 DEF StateEnds
    <3>3. durable' = durable \cup (Known \ starting)
      BY <2>1 DEF Crash
    <3> QED
      BY <3>2, <3>3 DEF Known, OnDisk
  <2>2. CASE ~ (~ Partial /\ writes = <<>>)
    <3>1. durable' = durable \cup OnDisk
      BY <2>2 DEF Crash
    <3> QED
      BY <3>1
  <2> QED
    BY <2>1, <2>2
<1>7. /\ OnDisk' = OnDisk
      /\ ~ diskState.partial => durable' \subseteq OnDisk
      /\ durable' \subseteq OnDisk \cup lost'
  <2>1. OnDisk' = OnDisk
    BY <1>1 DEF OnDisk
  <2>2. CASE diskState.partial
    BY <1>3, <2>1, <2>2 DEF Crash
  <2>3. CASE ~ diskState.partial
    BY <1>0, <1>3, <2>1, <2>3 DEF Phases
  <2> QED
    BY <2>2, <2>3, <2>1
<1>4. MemoryTypes'
  BY <1>0, <1>1, EmptyQueue DEF MemoryTypes, Status
<1>5. FilesAgree'
  <2>1. Lands(writes', diskMeta', sess')
    BY <1>1, <1>2, NothingLands
  <2> QED
    BY <1>0, <1>1, <2>1 DEF FilesAgree, MetaBeforeState
<1>6. Phases'
  BY <1>1, <1>2, <1>7 DEF Phases, OnDisk
<1> QED
  BY <1>1, <1>4, <1>5, <1>6 DEF RecoveryStep, RecoveryInv

LEMMA BootKeeps ==
  ASSUME RecoveryInv, Boot
  PROVE  RecoveryStep
<1>0. MemoryTypes /\ FilesAgree /\ Phases /\ phase = "down"
  BY DEF RecoveryInv, Boot
<1>1. UNCHANGED <<queue, starting, sess, attached, backfill, diskState, diskMeta, invoked, gone, durable, lost>>
  BY DEF Boot, memVars, diskVars, histVars
<1>2. Ids(sess) = {} /\ queue = <<>> /\ starting = {} /\ attached = {} /\ toLoad = {} /\ writes = <<>>
  BY <1>0 DEF Phases
<1>3. CASE /\ phase' = "boot" /\ toLoad' = diskState.ids /\ restored' = diskState.queue
           /\ UNCHANGED <<writes, whole>>
  <2>1. \A t \in toLoad' : diskMeta'[t] # "absent" /\ sess'[t] = "absent"
    <3>1. \A t \in Task : sess[t] = "absent"
      BY <1>2 DEF Ids
    <3> QED
      BY <1>0, <1>1, <1>3, <3>1 DEF FilesAgree, MetaBeforeState, MemoryTypes
  <2>2. Phases'
    BY <1>0, <1>1, <1>2, <1>3, <2>1 DEF Phases, OnDisk
  <2>3. MemoryTypes'
    BY <1>0, <1>1, <1>3 DEF MemoryTypes
  <2>4. FilesAgree'
    BY <1>0, <1>1, <1>3 DEF FilesAgree, MetaBeforeState
  <2> QED
    BY <1>0, <1>3, <2>2, <2>3, <2>4 DEF RecoveryStep, RecoveryInv
<1>4. CASE /\ phase' = "ready" /\ writes' = <<StateWrite(<<>>, {}, FALSE)>>
           /\ UNCHANGED <<toLoad, restored>>
  <2>1. /\ <<>> \in Writes /\ <<>> \in Seq(Task) /\ StateWrite(<<>>, {}, FALSE) \in StateWrites \cup MetaWrites
    BY EmptySeq, WriteKinds DEF Writes
  <2>2. writes' = Append(<<>>, StateWrite(<<>>, {}, FALSE))
    BY <1>4, <2>1
  <2>3. Lands(<<>>, diskMeta, sess)
    BY <1>2, NothingLands
  <2>4. Lands(writes', diskMeta, sess) /\ StateEnds(writes', diskState, <<>>, Ids(sess))
    BY <1>2, <2>1, <2>2, <2>3, StateWriteLands
  <2>5. FilesAgree'
    BY <1>0, <1>1, <1>2, <2>4 DEF FilesAgree, MetaBeforeState
  <2>6. MemoryTypes' /\ Phases'
    BY <1>0, <1>1, <1>2, <1>4 DEF MemoryTypes, Phases, OnDisk
  <2> QED
    BY <1>0, <2>5, <2>6 DEF RecoveryStep, RecoveryInv
<1>5. CASE phase' = "ready" /\ ~ whole' /\ UNCHANGED <<toLoad, restored, writes>>
  <2>1. FilesAgree'
    BY <1>0, <1>1, <1>5 DEF FilesAgree, MetaBeforeState
  <2>2. MemoryTypes' /\ Phases'
    BY <1>0, <1>1, <1>2, <1>5 DEF MemoryTypes, Phases, OnDisk
  <2> QED
    BY <1>0, <2>1, <2>2 DEF RecoveryStep, RecoveryInv
<1> QED
  BY <1>3, <1>4, <1>5 DEF Boot

LEMMA LoadMetaKeeps ==
  ASSUME RecoveryInv, NEW t \in Task, LoadMeta(t)
  PROVE  RecoveryStep
<1> DEFINE s == RecoveredStatus(t, diskMeta[t])
<1>0. MemoryTypes /\ FilesAgree /\ Phases /\ phase = "boot" /\ phase' = phase
  BY DEF RecoveryInv, LoadMeta
<1>1. /\ UNCHANGED <<queue, starting, attached, restored, diskState, diskMeta, whole, invoked, gone, durable, lost>>
      /\ t \in toLoad /\ toLoad' = toLoad \ {t}
  BY DEF LoadMeta, diskVars, histVars
<1>2. diskMeta[t] # "absent" /\ s \in Status \ {"absent"}
  BY <1>0, <1>1 DEF Phases, MemoryTypes, RecoveredStatus, Status, Settled
<1>3. /\ sess' = [sess EXCEPT ![t] = s]
      /\ writes' = Append(writes, MetaWrite(t, s))
      /\ backfill' \subseteq backfill \cup {t}
  BY <1>2 DEF LoadMeta
<1> HIDE DEF s
<1>4. DOMAIN sess = Task /\ Ids(sess') = Ids(sess) \cup {t}
  BY <1>0, <1>2, <1>3 DEF MemoryTypes, Ids
<1>5. FilesAgree'
  <2>1. Lands(writes', diskMeta, sess')
    BY <1>0, <1>2, <1>3, <1>4, MetaWriteLands DEF FilesAgree
  <2> QED
    BY <1>0, <1>1, <2>1 DEF FilesAgree, MetaBeforeState
<1>6. MemoryTypes'
  BY <1>0, <1>1, <1>2, <1>3 DEF MemoryTypes
<1>7. Phases'
  <2>1. \A u \in toLoad' : diskMeta'[u] # "absent" /\ sess'[u] = "absent"
    BY <1>0, <1>1, <1>3 DEF Phases, MemoryTypes
  <2> QED
    BY <1>0, <1>1, <1>3, <1>4, <2>1 DEF Phases, OnDisk
<1> QED
  BY <1>0, <1>1, <1>4, <1>5, <1>6, <1>7 DEF RecoveryStep, RecoveryInv, Known

LEMMA FinishRecoveryKeeps ==
  ASSUME RecoveryInv, FinishRecovery
  PROVE  RecoveryStep
<1> DEFINE w == Append(writes, StateWrite(restored, Ids(sess), FALSE))
<1>0. MemoryTypes /\ FilesAgree /\ Phases /\ phase = "boot" /\ phase' = "ready" /\ toLoad = {}
  BY DEF RecoveryInv, FinishRecovery
<1>1. UNCHANGED <<sess, attached, backfill, toLoad, restored, diskVars, invoked, gone, durable, lost>>
  BY DEF FinishRecovery, histVars
<1>2. Lands(w, diskMeta, sess') /\ StateEnds(w, diskState, restored, Ids(sess'))
  BY <1>0, <1>1, StateWriteLands DEF FilesAgree, MemoryTypes
<1>3. /\ restored \in Seq(Task) /\ starting \in SUBSET Task /\ UNCHANGED diskVars
      /\ Drain(restored, starting, w)
  BY <1>0, <1>1 DEF MemoryTypes, FinishRecovery
<1> HIDE DEF w
<1>4. /\ FilesAgree'
      /\ queue' \in Seq(Task) /\ starting' \in SUBSET Task
      /\ Queued(queue') \cup starting' = Queued(restored) \cup starting
  BY <1>2, <1>3, DrainKeepsFiles
<1>5. MemoryTypes'
  BY <1>0, <1>1, <1>4 DEF MemoryTypes, diskVars
<1>6. Phases'
  BY <1>0, <1>1 DEF Phases, OnDisk, diskVars
<1>7. Known \subseteq Known' /\ durable \subseteq Known' \cup gone \cup lost
  BY <1>0, <1>1, <1>4, EmptyQueue DEF Known, Phases
<1> QED
  BY <1>1, <1>4, <1>5, <1>6, <1>7 DEF RecoveryStep, RecoveryInv

LEMMA AbortRecoveryKeeps ==
  ASSUME RecoveryInv, AbortRecovery
  PROVE  RecoveryStep
<1>0. MemoryTypes /\ FilesAgree /\ Phases /\ phase = "boot" /\ phase' = "ready"
  BY DEF RecoveryInv, AbortRecovery
<1>1. /\ UNCHANGED <<queue, starting, sess, attached, backfill, restored, writes, diskState, diskMeta,
                     invoked, gone, durable, lost>>
      /\ ~ whole' /\ toLoad' = {}
  BY DEF AbortRecovery, memVars, diskVars, histVars
<1>2. MemoryTypes' /\ Phases'
  BY <1>0, <1>1 DEF MemoryTypes, Phases, OnDisk
<1>3. FilesAgree'
  BY <1>0, <1>1 DEF FilesAgree, MetaBeforeState
<1> QED
  BY <1>1, <1>2, <1>3 DEF RecoveryStep, RecoveryInv, Known

LEMMA InitRecovery == Init => RecoveryInv
<1> SUFFICES ASSUME Init PROVE RecoveryInv
  OBVIOUS
<1>1. Ids(sess) = {} /\ writes = <<>>
  BY DEF Init, Ids
<1>2. MemoryTypes
  BY EmptyQueue DEF Init, MemoryTypes, Status, NoState
<1>3. FilesAgree
  <2>1. Lands(writes, diskMeta, sess)
    BY <1>1, NothingLands
  <2> QED
    BY <2>1 DEF Init, FilesAgree, MetaBeforeState, NoState
<1>4. Phases
  BY <1>1 DEF Init, Phases, NoState
<1> QED
  BY <1>2, <1>3, <1>4 DEF RecoveryInv

LEMMA NextRecovery ==
  ASSUME RecoveryInv, [Next]_vars
  PROVE  RecoveryStep
<1>1. CASE UNCHANGED vars
  <2>1. RecoveryInv'
    BY <1>1 DEF vars, RecoveryInv, MemoryTypes, FilesAgree, MetaBeforeState, Phases, OnDisk
  <2> QED
    BY <1>1, <2>1 DEF vars, RecoveryStep, Known
<1>2. CASE Next
  BY <1>2, DelegateKeeps, WriteLandsKeeps, BootKeeps, FinishRecoveryKeeps, AbortRecoveryKeeps,
     RegisteredKeeps, StartFailsKeeps, ProcessExitsKeeps, LoadMetaKeeps, BackfillKeeps, TurnEndsKeeps,
     CancelQueuedKeeps, CancelSessionKeeps, CrashKeeps DEF Next, DevinCancel
<1> QED
  BY <1>1, <1>2

\* Files and memory agree once the pending writes have landed, and in every
\* prefix of them state.json names only sessions with a meta.json.
THEOREM RecoveryInvariance == Spec => []RecoveryInv
<1>1. RecoveryInv /\ [Next]_vars => RecoveryInv'
  BY NextRecovery DEF RecoveryStep
<1> QED
  BY InitRecovery, <1>1, PTL DEF Spec

\* state.json never names a session whose meta.json is not on disk, whenever pi
\* crashes; and when nothing waits to be written the files say what memory says.
THEOREM FilesConsistent == Spec => []FilesAreConsistent
<1>1. ASSUME RecoveryInv PROVE FilesAreConsistent
  <2>1. ASSUME phase = "ready", whole, writes = <<>>
        PROVE  /\ diskState.queue = queue
               /\ diskState.ids = Ids(sess)
               /\ \A t \in Ids(sess) : diskMeta[t] = sess[t]
    <3>1. Len(writes) = 0
      BY <2>1, EmptySeq
    <3>2. StateEnds(writes, diskState, queue, Ids(sess))
      BY <1>1, <2>1 DEF RecoveryInv, FilesAgree
    <3>3. \A t \in Ids(sess) : MetaEnds(writes, diskMeta, t, sess[t])
      BY <1>1 DEF RecoveryInv, FilesAgree, Lands
    <3> QED
      BY <3>1, <3>2, <3>3 DEF StateEnds, MetaEnds
  <2> QED
    BY <1>1, <2>1 DEF FilesAreConsistent, DiskCatchesUp, RecoveryInv, FilesAgree
<1> QED
  BY RecoveryInvariance, <1>1, PTL

\* No task is lost: while pi runs each of them waits, starts, has a session or
\* is reported gone, and a recovery that runs to its end brings back all that
\* was on disk at the crash (all of memory but the starts when nothing was to be
\* written) and all that the crashes before it left to bring back.  Only what a
\* partial state.json had overwritten when pi crashed again is excepted.
THEOREM NoTaskIsLost == Spec => NothingIsLost
<1>1. ASSUME RecoveryInv, [Next]_vars
      PROVE  [phase # "down" /\ phase' # "down" => Known \subseteq Known' \cup gone']_vars
  BY <1>1, NextRecovery DEF RecoveryStep
<1>2. RecoveryInv /\ [Next]_vars =>
        [phase = "boot" /\ phase' = "ready" /\ whole'
            => durable \subseteq Known' \cup gone \cup lost]_vars
  BY NextRecovery DEF RecoveryStep
<1>3. Spec => NothingVanishes
  BY RecoveryInvariance, <1>1, PTL DEF Spec, NothingVanishes
<1>4. Spec => RecoveryKeepsDurable
  BY RecoveryInvariance, <1>2, PTL DEF Spec, RecoveryKeepsDurable
<1> QED
  BY <1>3, <1>4 DEF NothingIsLost

-----------------------------------------------------------------------------
(* CompactionRecovery *)

\* What the proofs use of the constants: zero is no prompt, and counts are
\* numbers.
CompactionConstants ==
    /\ NoPrompt \notin Prompts
    /\ Keeps \subseteq Nat /\ DefaultKeep \in Nat
    /\ MaxRounds \in Nat

-----------------------------------------------------------------------------
(* Compression *)

\* Compressing keeps the number of responses and their type.
LEMMA CompressedType ==
    ASSUME results \in Seq(Response), NEW keep
    PROVE  /\ Compressed(keep) \in Seq(Response)
           /\ Len(Compressed(keep)) = Len(results)
           /\ DOMAIN Compressed(keep) = DOMAIN results
BY DEF Compressed, Response

\* The number of responses to keep is one.
LEMMA KeepRecentType ==
    ASSUME CompactionConstants, CompactionTypeOK
    PROVE  KeepRecent(Absent) \in Nat
BY DEF CompactionConstants, CompactionTypeOK, KeepRecent, KeepOrAbsent

-----------------------------------------------------------------------------
(* Types *)

LEMMA CompactionInitType == ASSUME CompactionConstants, CompactionInit PROVE CompactionTypeOK
<1>1. settings.rounds \in Nat /\ 0 \in 0..settings.rounds
  BY DEF CompactionInit, CompactionConstants
<1>2. results \in Seq(Response) /\ Len(results) = 0
  BY DEF CompactionInit
<1> QED BY <1>1, <1>2 DEF CompactionInit, CompactionTypeOK, PromptOrNone, Compactions, Response

LEMMA CompactionNextType == ASSUME CompactionConstants, CompactionTypeOK, [CompactionNext]_compactionVars PROVE CompactionTypeOK'
<1> USE DEF PromptOrNone, Compactions, NoCompaction, Reasons
<1>0. results \in Seq(Response)
  BY DEF CompactionTypeOK, Response
<1>1. ASSUME NEW failure \in Failures, CompactionFails(failure) PROVE CompactionTypeOK'
  <2>1. CASE ~ Recovers(failure)
    BY <1>1, <2>1 DEF CompactionFails, LastPrompt, CompactionTypeOK
  <2>2. CASE Recovers(failure)
    <3>1. /\ results' \in Seq(Response) /\ Len(results') = Len(results)
      BY <1>0, <1>1, <2>2, CompressedType DEF CompactionFails, CompressionPass
    <3>2. rounds' \in 0..settings'.rounds
      BY <1>1, <2>2 DEF CompactionFails, Recovers, CompactionTypeOK, CompactionConstants
    <3>3. LastPrompt \in PromptOrNone
      BY DEF LastPrompt, CompactionTypeOK
    <3>4. cut' \in [Prompts -> Nat]
      BY <1>1, <3>3 DEF CompactionFails, CompactionTypeOK
    <3>5. retries' \in [PromptOrNone -> Nat]
      <4>1. retries' = [retries EXCEPT ![LastPrompt] = retries[LastPrompt] + 1]
        BY <1>1, <2>2 DEF CompactionFails
      <4>2. retries \in [PromptOrNone -> Nat] /\ retries[LastPrompt] + 1 \in Nat
        BY <3>3 DEF CompactionTypeOK
      <4> QED BY <4>1, <4>2
    <3>6. /\ compaction' \in Compactions
          /\ settings' = settings /\ from' = from /\ prompt' = prompt
          /\ run' = run /\ resent' = resent
      BY <1>1 DEF CompactionFails
    <3>7. from' \in 1..(Len(results') + 1)
      BY <3>1, <3>6 DEF CompactionTypeOK
    <3> QED BY <3>1, <3>2, <3>4, <3>5, <3>6, <3>7 DEF CompactionTypeOK
  <2> QED BY <2>1, <2>2
<1>2. ASSUME NEW p \in PromptOrNone, RetryFires(p) PROVE CompactionTypeOK'
  BY <1>2 DEF RetryFires, CompactionTypeOK
<1>3. ASSUME CompactionSucceeds PROVE CompactionTypeOK'
  <2>1. from' \in 1..(Len(results') + 1)
    BY <1>0, <1>3 DEF CompactionSucceeds, CompactionTypeOK
  <2> QED BY <1>3, <2>1 DEF CompactionSucceeds, Resends, CompactionTypeOK
<1>4. ASSUME NEW arg \in KeepOrAbsent, CompactRecovery(arg) PROVE CompactionTypeOK'
  <2>1. /\ results' \in Seq(Response) /\ Len(results') = Len(results)
    BY <1>0, <1>4, CompressedType DEF CompactRecovery, CompressionPass
  <2> QED BY <1>4, <2>1 DEF CompactRecovery, CompactionTypeOK, Response
<1>5. ASSUME FreshSession PROVE CompactionTypeOK'
  <2>1. /\ results' \in Seq(Response) /\ Len(results') = 0
        /\ 0 \in 0..settings'.rounds
    BY <1>5 DEF FreshSession, CompactionTypeOK, CompactionConstants
  <2> QED BY <1>5, <2>1 DEF FreshSession, CompactionTypeOK, Response
<1>6. ASSUME SameSession PROVE CompactionTypeOK'
  BY <1>6 DEF SameSession, CompactionTypeOK, CompactionConstants
<1>7. ASSUME NEW p \in Prompts, UserPrompts(p) PROVE CompactionTypeOK'
  BY <1>7 DEF UserPrompts, CompactionTypeOK
<1>8. ASSUME NEW size \in {"small", "large"}, ToolResponds(size) PROVE CompactionTypeOK'
  <2>1. size \in Response
    BY DEF Response
  <2>2. /\ results' \in Seq(Response) /\ Len(results') = Len(results) + 1
    BY <1>0, <1>8, <2>1 DEF ToolResponds
  <2>3. from' \in 1..(Len(results') + 1)
    BY <1>0, <1>8, <2>2 DEF ToolResponds, CompactionTypeOK
  <2> QED BY <1>8, <2>2, <2>3 DEF ToolResponds, CompactionTypeOK, Response
<1>9. ASSUME RunEnds PROVE CompactionTypeOK'
  BY <1>9 DEF RunEnds, CompactionTypeOK
<1>10. ASSUME NEW reason \in Reasons, CompactionBegins(reason) PROVE CompactionTypeOK'
  BY <1>10 DEF CompactionBegins, CompactionTypeOK
<1>11. ASSUME UNCHANGED compactionVars PROVE CompactionTypeOK'
  BY <1>11 DEF compactionVars, CompactionTypeOK
<1> QED BY <1>1, <1>2, <1>3, <1>4, <1>5, <1>6, <1>7, <1>8, <1>9, <1>10, <1>11 DEF CompactionNext

\* Every variable keeps its type.
THEOREM CompactionTypeCorrect == ASSUME CompactionConstants PROVE CompactionSpec => []CompactionTypeOK
BY CompactionInitType, CompactionNextType, PTL DEF CompactionSpec

-----------------------------------------------------------------------------
(* Resends *)

LEMMA InitCause == ASSUME CompactionConstants, CompactionInit PROVE ResendsHaveACause
<1> SUFFICES ASSUME NEW p \in Prompts
             PROVE  resent[p] + retries[p] + Carried(p) <= cut[p]
  BY DEF ResendsHaveACause
<1>1. resent[p] = 0 /\ retries[p] = 0 /\ cut[p] = 0
  BY DEF CompactionInit, PromptOrNone
<1>2. Carried(p) = 0
  BY DEF CompactionInit, CompactionConstants, Carried, NoCompaction
<1> QED BY <1>1, <1>2

\* What a failure takes from the compaction it gives to a retry, and cut counts
\* it; a retry hands it to a compaction, and a compaction to a resend.
LEMMA NextCause ==
    ASSUME CompactionConstants, CompactionTypeOK, ResendsHaveACause, [CompactionNext]_compactionVars
    PROVE  ResendsHaveACause'
<1> SUFFICES ASSUME NEW q \in Prompts
             PROVE  resent'[q] + retries'[q] + Carried(q)' <= cut'[q]
  BY DEF ResendsHaveACause
<1> USE DEF PromptOrNone
<1>0. /\ q # NoPrompt
      /\ resent[q] \in Nat /\ retries[q] \in Nat /\ cut[q] \in Nat
      /\ Carried(q) \in {0, 1}
      /\ resent[q] + retries[q] + Carried(q) <= cut[q]
  BY DEF CompactionConstants, CompactionTypeOK, ResendsHaveACause, Carried
<1>1. ASSUME NEW failure \in Failures, CompactionFails(failure)
      PROVE  resent'[q] + retries'[q] + Carried(q)' <= cut'[q]
  <2>1. Carried(q)' = 0 /\ resent'[q] = resent[q]
    BY <1>0, <1>1 DEF CompactionFails, Carried, NoCompaction
  <2>2. CASE LastPrompt = q
    <3>1. cut'[q] = cut[q] + 1
      BY <1>0, <1>1, <2>2 DEF CompactionFails, CompactionTypeOK
    <3>2. retries'[q] = retries[q] + 1 \/ retries'[q] = retries[q]
      BY <1>0, <1>1, <2>2 DEF CompactionFails, CompactionTypeOK
    <3> QED BY <1>0, <2>1, <3>1, <3>2
  <2>3. CASE LastPrompt # q
    <3>1. cut'[q] = cut[q] /\ retries'[q] = retries[q]
      BY <1>0, <1>1, <2>3 DEF CompactionFails, CompactionTypeOK
    <3> QED BY <1>0, <2>1, <3>1
  <2> QED BY <2>2, <2>3
<1>2. ASSUME NEW p \in PromptOrNone, RetryFires(p)
      PROVE  resent'[q] + retries'[q] + Carried(q)' <= cut'[q]
  <2>1. resent'[q] = resent[q] /\ cut'[q] = cut[q]
    BY <1>2 DEF RetryFires
  <2>2. CASE p = q
    <3>1. retries'[q] = retries[q] - 1
      BY <1>2, <2>2 DEF RetryFires, CompactionTypeOK
    <3>2. Carried(q)' \in {0, 1} /\ (compaction' = compaction => Carried(q)' = Carried(q))
      BY DEF Carried
    <3>3. compaction' # compaction => Carried(q) = 0
      BY <1>0, <1>2 DEF RetryFires, Carried, NoCompaction
    <3> QED BY <1>0, <2>1, <3>1, <3>2, <3>3
  <2>3. CASE p # q
    <3>1. retries'[q] = retries[q]
      BY <1>2, <2>3 DEF RetryFires, CompactionTypeOK
    <3>2. Carried(q)' \in {0, Carried(q)}
      BY <1>2, <2>3 DEF RetryFires, Carried
    <3> QED BY <1>0, <2>1, <3>1, <3>2
  <2> QED BY <2>2, <2>3
<1>3. ASSUME CompactionSucceeds
      PROVE  resent'[q] + retries'[q] + Carried(q)' <= cut'[q]
  <2>1. Carried(q)' = 0 /\ retries'[q] = retries[q] /\ cut'[q] = cut[q]
    BY <1>0, <1>3 DEF CompactionSucceeds, Carried, NoCompaction
  <2>2. resent'[q] = resent[q] \/ (resent'[q] = resent[q] + 1 /\ Carried(q) = 1)
    <3>1. CASE compaction.resends = q
      BY <1>0, <1>3, <3>1 DEF CompactionSucceeds, Carried, CompactionTypeOK
    <3>2. CASE compaction.resends # q
      BY <1>0, <1>3, <3>2 DEF CompactionSucceeds, CompactionTypeOK
    <3> QED BY <3>1, <3>2
  <2> QED BY <1>0, <2>1, <2>2
<1>4. ASSUME \/ \E arg \in KeepOrAbsent : CompactRecovery(arg)
             \/ \E reason \in Reasons : CompactionBegins(reason)
      PROVE  resent'[q] + retries'[q] + Carried(q)' <= cut'[q]
  <2>1. Carried(q)' = 0 /\ UNCHANGED <<resent, retries, cut>>
    BY <1>0, <1>4 DEF CompactRecovery, CompactionBegins, Carried
  <2> QED BY <1>0, <2>1
<1>5. ASSUME \/ FreshSession \/ SameSession \/ RunEnds \/ UNCHANGED compactionVars
             \/ \E p \in Prompts : UserPrompts(p)
             \/ \E size \in {"small", "large"} : ToolResponds(size)
      PROVE  resent'[q] + retries'[q] + Carried(q)' <= cut'[q]
  <2>1. UNCHANGED <<resent, retries, cut, compaction>>
    BY <1>5 DEF FreshSession, SameSession, RunEnds, UserPrompts, ToolResponds, compactionVars
  <2> QED BY <1>0, <2>1 DEF Carried
<1> QED BY <1>1, <1>2, <1>3, <1>4, <1>5 DEF CompactionNext

\* However often retries fail, are delayed or overlap with prompts of the user, a
\* prompt is sent again at most once for each compaction that failed under it.
THEOREM ResendsCaused == ASSUME CompactionConstants PROVE CompactionSpec => []ResendsHaveACause
<1>1. CompactionConstants /\ CompactionInit => CompactionTypeOK /\ ResendsHaveACause
  BY CompactionInitType, InitCause
<1>2. CompactionConstants /\ CompactionTypeOK /\ ResendsHaveACause /\ [CompactionNext]_compactionVars
        => (CompactionTypeOK /\ ResendsHaveACause)'
  BY CompactionNextType, NextCause
<1> QED BY <1>1, <1>2, PTL DEF CompactionSpec

-----------------------------------------------------------------------------
(* The most recent responses *)

LEMMA StepKeepsRecent ==
    ASSUME CompactionConstants, CompactionTypeOK, [CompactionNext]_compactionVars,
           rounds' > rounds, Visible >= KeepRecent(Absent),
           NEW i \in DOMAIN results, i > Len(results) - KeepRecent(Absent)
    PROVE  results'[i] = results[i]
<1> DEFINE keep == KeepRecent(Absent)
<1>0. /\ keep \in Nat /\ Len(results) \in Nat /\ from \in Nat /\ rounds \in Nat
      /\ i \in Nat /\ results[i] \in Response
  BY KeepRecentType DEF CompactionTypeOK, Response
<1>1. PICK failure \in Failures : CompactionFails(failure) /\ Recovers(failure)
  BY <1>0 DEF CompactionNext, compactionVars, CompactionFails, RetryFires, CompactionSucceeds, CompactRecovery,
     FreshSession, SameSession, UserPrompts, ToolResponds, RunEnds, CompactionBegins
<1>2. ~ Candidate(i, keep)
  BY <1>0 DEF Candidate, PreservedFrom, Visible
<1>3. results'[i] = IF Candidate(i, keep) THEN "placeholder" ELSE results[i]
  BY <1>1 DEF CompactionFails, CompressionPass, Compressed
<1> QED BY <1>2, <1>3

\* A recovery in a session with at least as many responses as are to be kept
\* leaves the most recent ones alone.
THEOREM RecentKept == ASSUME CompactionConstants PROVE CompactionSpec => RecentAreKeptOfMany
<1>1. CompactionConstants /\ CompactionTypeOK /\ [CompactionNext]_compactionVars =>
        [rounds' > rounds /\ Visible >= KeepRecent(Absent) =>
           \A i \in DOMAIN results :
             i > Len(results) - KeepRecent(Absent) => results'[i] = results[i]]_compactionVars
  BY StepKeepsRecent
<1> QED BY <1>1, CompactionTypeCorrect, PTL DEF CompactionSpec, RecentAreKeptOfMany

=============================================================================
